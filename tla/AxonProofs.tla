----------------------------- MODULE AxonProofs -----------------------------
(***************************************************************************)
(* Theorems about Merkle.tla, for every list of leaves: a sibling path     *)
(* leads to the root, and a root determines its leaves.  Theorems about    *)
(* Axon.tla, for any thoughts, namespaces, clients and batch capacity:     *)
(* types, that the location index points at its thought whoever            *)
(* crystallizes the batch, that a log is linked to a batch of its own      *)
(* namespace before its own, that the batches of a namespace are one       *)
(* chain, and that every proof handed out verifies.                        *)
(***************************************************************************)
EXTENDS Axon, TLAPS, SequenceTheorems, FiniteSetTheorems, FunctionTheorems,
        WellFoundedInduction

-----------------------------------------------------------------------------
(* The Merkle trees, for any number of leaves.                               *)

(* Every non-empty set of numbers has a least element ...                    *)
LEMMA LeastNumber ==
  ASSUME NEW T \in SUBSET Nat, T # {}
  PROVE  \E x \in T : \A y \in T : x <= y
<1>1. PICK x \in T : \A y \in T : ~(<<y, x>> \in OpToRel(<, Nat))
  BY NatLessThanWellFounded, WFMin
<1>2. \A y \in T : ~(y < x)
  BY <1>1 DEF OpToRel
<1> QED
  BY <1>2

(* ... so a set that holds 0 and what follows each of its numbers holds all. *)
LEMMA AllNumbers ==
  ASSUME NEW S, 0 \in S, \A n \in Nat : n \in S => n + 1 \in S
  PROVE  Nat \subseteq S
<1> SUFFICES ASSUME Nat \ S # {} PROVE FALSE
  OBVIOUS
<1>1. PICK x \in Nat \ S : \A y \in Nat \ S : x <= y
  BY LeastNumber
<1>2. x # 0 /\ x - 1 \in Nat /\ x - 1 \in S /\ (x - 1) + 1 = x
  BY <1>1
<1> QED
  BY <1>1, <1>2

(* The recursions that define Levels, Halved and Climb have solutions.       *)
LEMMA LevelsExist ==
  ASSUME NEW x, NEW n \in Nat
  PROVE  \E f : f = [k \in 0..n |-> IF k = 0 THEN x ELSE Turn(f[k - 1])]
<1> DEFINE Solves(f, m) == f = [k \in 0..m |-> IF k = 0 THEN x ELSE Turn(f[k - 1])]
           S == {m \in Nat : \E f : Solves(f, m)}
<1>1. 0 \in S
  <2> DEFINE f == [k \in 0..0 |-> x]
  <2>1. Solves(f, 0)
    BY SMT
  <2> HIDE DEF f
  <2> QED
    BY <2>1
<1>2. ASSUME NEW m \in Nat, m \in S PROVE m + 1 \in S
  <2>1. PICK f : Solves(f, m)
    BY <1>2
  <2> DEFINE g == [k \in 0..(m + 1) |-> IF k = m + 1 THEN Turn(f[m]) ELSE f[k]]
  <2>2. \A k \in 0..(m + 1) : g[k] = IF k = 0 THEN x ELSE Turn(g[k - 1])
    BY <2>1
  <2>3. g = [k \in 0..(m + 1) |-> g[k]]
    OBVIOUS
  <2> HIDE DEF g
  <2>4. Solves(g, m + 1)
    BY <2>2, <2>3, Zenon
  <2> QED
    BY <2>4
<1> HIDE DEF S
<1>3. n \in S
  BY <1>1, <1>2, AllNumbers
<1> QED
  BY <1>3 DEF S

LEMMA LevelsTurn ==
  ASSUME NEW S, NEW leaves \in Seq(S)
  PROVE  /\ Levels(leaves)[0] = leaves
         /\ \A k \in 1..Len(leaves) : Levels(leaves)[k] = Turn(Levels(leaves)[k - 1])
<1> DEFINE Solves(f) == f = [k \in 0..Len(leaves) |-> IF k = 0 THEN leaves ELSE Turn(f[k - 1])]
<1>1. Len(leaves) \in Nat
  BY LenProperties
<1>2. \E f : Solves(f)
  BY <1>1, LevelsExist
<1>3. Levels(leaves) = CHOOSE f : Solves(f)
  BY Zenon DEF Levels
<1>4. Solves(Levels(leaves))
  <2> HIDE DEF Solves
  <2> QED
    BY <1>2, <1>3
<1> QED
  BY <1>1, <1>4

LEMMA HalvedTwice ==
  ASSUME NEW i \in Nat, NEW k \in Nat
  PROVE  /\ Halved(i, 0) = i
         /\ Halved(i, k) \in Nat
         /\ Halved(i, k + 1) = Halved(i, k) \div 2
<1> DEFINE Solves(f, m) == f = [j \in 0..m |-> IF j = 0 THEN i ELSE f[j - 1] \div 2]
           S == {m \in Nat : \E f : Solves(f, m)}
<1>1. 0 \in S
  <2> DEFINE f == [j \in 0..0 |-> i]
  <2>1. Solves(f, 0)
    BY SMT
  <2> HIDE DEF f
  <2> QED
    BY <2>1
<1>2. ASSUME NEW m \in Nat, m \in S PROVE m + 1 \in S
  <2>1. PICK f : Solves(f, m)
    BY <1>2
  <2> DEFINE g == [j \in 0..(m + 1) |-> IF j = m + 1 THEN f[m] \div 2 ELSE f[j]]
  <2>2. \A j \in 0..(m + 1) : g[j] = IF j = 0 THEN i ELSE g[j - 1] \div 2
    BY <2>1
  <2>3. g = [j \in 0..(m + 1) |-> g[j]]
    OBVIOUS
  <2> HIDE DEF g
  <2>4. Solves(g, m + 1)
    BY <2>2, <2>3, Zenon
  <2> QED
    BY <2>4
<1>3. \A m \in Nat : m \in S
  <2> HIDE DEF S
  <2> QED
    BY <1>1, <1>2, AllNumbers
<1> DEFINE H(m) == CHOOSE f : Solves(f, m)
<1>4. \A m \in Nat : Solves(H(m), m)
  <2> HIDE DEF Solves
  <2> QED
    BY <1>3
<1>5. \A m \in Nat : Halved(i, m) = H(m)[m]
  BY Zenon DEF Halved
<1> HIDE DEF H
<1>6. ASSUME NEW m \in Nat, NEW l \in Nat, m <= l
      PROVE  H(l)[m] = H(m)[m] /\ H(m)[m] \in Nat
  <2> DEFINE T == {j \in Nat : j <= m => H(l)[j] = H(m)[j] /\ H(m)[j] \in Nat}
  <2>1. 0 \in T
    BY <1>4, <1>6
  <2>2. ASSUME NEW j \in Nat, j \in T PROVE j + 1 \in T
    <3>1. CASE j + 1 <= m
      <4>1. j + 1 \in 0..m /\ j + 1 \in 0..l /\ j + 1 # 0 /\ (j + 1) - 1 = j
        BY <1>6, <3>1
      <4>2. H(m)[j + 1] = H(m)[j] \div 2 /\ H(l)[j + 1] = H(l)[j] \div 2
        BY <1>4, <4>1
      <4>3. H(l)[j] = H(m)[j] /\ H(m)[j] \in Nat
        BY <2>2, <3>1
      <4> QED
        BY <4>2, <4>3
    <3>2. CASE ~(j + 1 <= m)
      BY <3>2
    <3> QED
      BY <3>1, <3>2
  <2>3. m \in T
    <3> HIDE DEF T
    <3> QED
      BY <2>1, <2>2, AllNumbers
  <2> QED
    BY <2>3
<1>7. H(k + 1)[k + 1] = H(k + 1)[k] \div 2 /\ H(0)[0] = i
  BY <1>4
<1>8. H(k + 1)[k] = H(k)[k] /\ H(k)[k] \in Nat
  BY <1>6
<1> QED
  BY <1>5, <1>7, <1>8

LEMMA ClimbTurns ==
  ASSUME NEW leaf, NEW i, NEW path, Len(path) \in Nat
  PROVE  \E hash : /\ hash[0] = leaf
                   /\ \A k \in 1..Len(path) :
                        hash[k] = Join(Halved(i, k - 1), hash[k - 1], path[k])
                   /\ Climb(leaf, i, path) = hash[Len(path)]
<1> DEFINE Solves(f, m) == f = [k \in 0..m |-> IF k = 0 THEN leaf
                                    ELSE Join(Halved(i, k - 1), f[k - 1], path[k])]
           S == {m \in Nat : \E f : Solves(f, m)}
           hash == CHOOSE f : Solves(f, Len(path))
<1>1. 0 \in S
  <2> DEFINE f == [k \in 0..0 |-> leaf]
  <2>1. Solves(f, 0)
    BY SMT
  <2> HIDE DEF f
  <2> QED
    BY <2>1
<1>2. ASSUME NEW m \in Nat, m \in S PROVE m + 1 \in S
  <2>1. PICK f : Solves(f, m)
    BY <1>2
  <2> DEFINE g == [k \in 0..(m + 1) |-> IF k = m + 1 THEN Join(Halved(i, m), f[m], path[m + 1])
                                        ELSE f[k]]
  <2>2. \A k \in 0..(m + 1) : g[k] = IF k = 0 THEN leaf
                                     ELSE Join(Halved(i, k - 1), g[k - 1], path[k])
    BY <2>1
  <2>3. g = [k \in 0..(m + 1) |-> g[k]]
    OBVIOUS
  <2> HIDE DEF g
  <2>4. Solves(g, m + 1)
    BY <2>2, <2>3, Zenon
  <2> QED
    BY <2>4
<1>3. Solves(hash, Len(path))
  <2>1. Len(path) \in S
    <3> HIDE DEF S
    <3> QED
      BY <1>1, <1>2, AllNumbers
  <2> HIDE DEF Solves
  <2> QED
    BY <2>1
<1>4. Climb(leaf, i, path) = hash[Len(path)]
  BY Zenon DEF Climb
<1> HIDE DEF hash
<1>5. /\ hash[0] = leaf
      /\ \A k \in 1..Len(path) : hash[k] = Join(Halved(i, k - 1), hash[k - 1], path[k])
  BY <1>3
<1> QED
  BY <1>4, <1>5

LEMMA FcnLen ==
  ASSUME NEW n \in Nat, NEW f, f = [i \in 1..n |-> f[i]]
  PROVE  Len(f) = n
<1> DEFINE S == {f[i] : i \in 1..n}
<1>1. f \in [1..n -> S]
  <2>1. \A i \in 1..n : f[i] \in S
    OBVIOUS
  <2> HIDE DEF S
  <2> QED
    BY <2>1
<1> HIDE DEF S
<1>2. f \in Seq(S)
  BY <1>1, SeqDef
<1>3. Len(f) \in Nat /\ DOMAIN f = 1..Len(f) /\ DOMAIN f = 1..n
  BY <1>1, <1>2, LenProperties
<1> QED
  BY <1>3, SMT

\* A turn halves a level, upwards, and leaves a single hash alone.
Pair(s, i) == Node(s[2 * i - 1], IF 2 * i <= Len(s) THEN s[2 * i] ELSE s[2 * i - 1])

LEMMA TurnHalves ==
  ASSUME NEW s, Len(s) \in Nat
  PROVE  /\ Len(s) <= 1 => Turn(s) = s
         /\ Len(s) > 1 =>
              /\ Len(Turn(s)) = (Len(s) + 1) \div 2
              /\ Turn(s) = [i \in 1..((Len(s) + 1) \div 2) |-> Pair(s, i)]
<1>1. CASE Len(s) <= 1
  BY <1>1 DEF Turn
<1>2. CASE Len(s) > 1
  <2> DEFINE n == (Len(s) + 1) \div 2
  <2>1. n \in Nat
    OBVIOUS
  <2>2. Turn(s) = [i \in 1..n |-> Pair(s, i)]
    <3>1. ~(Len(s) <= 1)
      BY <1>2
    <3> QED
      BY <3>1, Zenon DEF Turn, NextLevel, Pair
  <2> HIDE DEF n
  <2>3. Turn(s) = [i \in 1..n |-> Turn(s)[i]]
    BY <2>2
  <2>4. Len(Turn(s)) = n
    BY <2>1, <2>3, FcnLen
  <2> QED
    BY <1>2, <2>2, <2>4 DEF n
<1> QED
  BY <1>1, <1>2

(* Levels are never empty and shrink to a single hash.                       *)
LEMMA LevelsShrink ==
  ASSUME NEW S, NEW leaves \in Seq(S), leaves # <<>>
  PROVE  \A k \in 0..Len(leaves) :
           LET w == Len(Levels(leaves)[k])
           IN  w \in Nat /\ w >= 1 /\ (w <= 1 \/ w <= Len(leaves) - k)
<1> DEFINE n == Len(leaves)
           L(k) == Levels(leaves)[k]
           P(k) == Len(L(k)) \in Nat /\ Len(L(k)) >= 1 /\ (Len(L(k)) <= 1 \/ Len(L(k)) <= n - k)
           T == {k \in Nat : k <= n => P(k)}
<1>1. n \in Nat /\ n >= 1
  BY EmptySeq, LenProperties
<1>2. L(0) = leaves /\ \A k \in 1..n : L(k) = Turn(L(k - 1))
  BY LevelsTurn
<1> HIDE DEF L, n
<1>3. 0 \in T
  <2>1. Len(L(0)) = n
    BY <1>2 DEF n
  <2> QED
    BY <1>1, <2>1
<1>4. ASSUME NEW k \in Nat, k \in T PROVE k + 1 \in T
  <2>1. CASE k + 1 <= n
    <3>1. L(k + 1) = Turn(L(k))
      BY <1>1, <1>2, <2>1
    <3>2. P(k)
      BY <1>1, <1>4, <2>1
    <3>3. CASE Len(L(k)) <= 1
      BY <1>1, <3>1, <3>2, <3>3, TurnHalves
    <3>4. CASE Len(L(k)) > 1
      <4>1. Len(L(k + 1)) = (Len(L(k)) + 1) \div 2
        BY <3>1, <3>2, <3>4, TurnHalves
      <4> QED
        BY <1>1, <2>1, <3>2, <3>4, <4>1
    <3> QED
      BY <3>2, <3>3, <3>4
  <2>2. CASE ~(k + 1 <= n)
    BY <2>2
  <2> QED
    BY <2>1, <2>2
<1>5. Nat \subseteq T
  <2> HIDE DEF T
  <2> QED
    BY <1>3, <1>4, AllNumbers
<1> QED
  BY <1>1, <1>5 DEF L, n

(* The loop stops on the first level of a single hash.                       *)
LEMMA DepthIsFirst ==
  ASSUME NEW S, NEW leaves \in Seq(S), leaves # <<>>
  PROVE  /\ Depth(leaves) \in 0..Len(leaves)
         /\ Len(Levels(leaves)[Depth(leaves)]) = 1
         /\ \A k \in 0..(Depth(leaves) - 1) : Len(Levels(leaves)[k]) > 1
<1> DEFINE n == Len(leaves)
           L(k) == Levels(leaves)[k]
           Ends(d) == Len(L(d)) <= 1 /\ \A k \in 0..(d - 1) : Len(L(k)) > 1
           T == {d \in 0..n : Len(L(d)) <= 1}
<1>1. n \in Nat
  BY LenProperties
<1>2. \A k \in 0..n : Len(L(k)) \in Nat /\ Len(L(k)) >= 1 /\ (Len(L(k)) <= 1 \/ Len(L(k)) <= n - k)
  BY LevelsShrink
<1>3. Depth(leaves) = CHOOSE d \in 0..n : Ends(d)
  BY Zenon DEF Depth
<1> HIDE DEF L, n
<1>4. n \in T
  BY <1>1, <1>2
<1>5. T \in SUBSET Nat
  BY <1>1
<1>6. PICK d \in T : \A k \in T : d <= k
  <2> HIDE DEF T
  <2> QED
    BY <1>4, <1>5, LeastNumber
<1>7. d \in 0..n /\ Ends(d)
  BY <1>1, <1>2, <1>6
<1>8. Depth(leaves) \in 0..n /\ Ends(Depth(leaves))
  <2> HIDE DEF Ends
  <2> QED
    BY <1>3, <1>7
<1>9. Len(L(Depth(leaves))) = 1
  <2>1. Len(L(Depth(leaves))) \in Nat /\ Len(L(Depth(leaves))) >= 1
    BY <1>2, <1>8, Zenon
  <2>2. Len(L(Depth(leaves))) <= 1
    BY <1>8, Zenon
  <2>3. \A w \in Nat : w >= 1 /\ w <= 1 => w = 1
    OBVIOUS
  <2> QED
    BY <2>1, <2>2, <2>3, Zenon
<1> QED
  BY <1>8, <1>9 DEF L, n

(* What verify_inclusion computes from a leaf and its sibling path is the    *)
(* root compute_markle_root computes, for every leaf of every tree, levels   *)
(* of odd length included: the hash after k turns is the leaf's ancestor on  *)
(* level k (axon.rs 99-127, 174-211, 286-320).                               *)
THEOREM PathLeadsToRoot ==
  ASSUME NEW S, NEW leaves \in Seq(S), NEW i \in Nat, i < Len(leaves)
  PROVE  Climb(leaves[i + 1], i, SiblingPath(leaves, i)) = MarkleRoot(leaves)
<1> DEFINE n == Len(leaves)
           d == Depth(leaves)
           L(k) == Levels(leaves)[k]
           h(k) == Halved(i, k)
           path == SiblingPath(leaves, i)
<1>1. n \in Nat /\ leaves # <<>>
  BY EmptySeq, LenProperties
<1>2. d \in 0..n /\ Len(L(d)) = 1 /\ \A k \in 0..(d - 1) : Len(L(k)) > 1
  BY <1>1, DepthIsFirst
<1>3. \A k \in 0..n : Len(L(k)) \in Nat
  BY <1>1, LevelsShrink
<1>4. L(0) = leaves /\ \A k \in 1..n : L(k) = Turn(L(k - 1))
  BY LevelsTurn
<1>5. /\ h(0) = i
      /\ \A k \in Nat : h(k) \in Nat /\ h(k + 1) = h(k) \div 2
  BY HalvedTwice
<1>6. path = [k \in 1..d |-> L(k - 1)[Sibling(h(k - 1), Len(L(k - 1))) + 1]]
  BY Zenon DEF SiblingPath
<1>7. MarkleRoot(leaves) = L(d)[1]
  BY <1>1 DEF MarkleRoot
<1> HIDE DEF n, d, L, h, path
<1>8. Len(path) = d
  <2>1. path = [k \in 1..d |-> path[k]] /\ d \in Nat
    BY <1>1, <1>2, <1>6
  <2> QED
    BY <2>1, FcnLen
<1>9. PICK hash : /\ hash[0] = leaves[i + 1]
                  /\ \A k \in 1..d : hash[k] = Join(h(k - 1), hash[k - 1], path[k])
                  /\ Climb(leaves[i + 1], i, path) = hash[d]
  <2>1. Len(path) \in Nat
    BY <1>1, <1>2, <1>8
  <2> QED
    BY <1>8, <2>1, ClimbTurns DEF h
<1> DEFINE T == {k \in Nat : k <= d => h(k) < Len(L(k)) /\ hash[k] = L(k)[h(k) + 1]}
<1>10. 0 \in T
  BY <1>4, <1>5, <1>9 DEF n
<1>11. ASSUME NEW k \in Nat, k \in T PROVE k + 1 \in T
  <2>1. CASE k + 1 <= d
    <3> DEFINE s == L(k)
               j == h(k)
               w == Len(L(k))
    <3>1. /\ k \in 0..(d - 1) /\ k \in 0..n /\ k + 1 \in 1..d /\ k + 1 \in 1..n
          /\ (k + 1) - 1 = k
      BY <1>1, <1>2, <2>1
    <3>2. w \in Nat /\ w > 1 /\ L(k + 1) = Turn(s)
      BY <1>2, <1>3, <1>4, <3>1
    <3>3. j \in Nat /\ h(k + 1) = j \div 2 /\ j < w /\ hash[k] = s[j + 1]
      <4>1. k <= d
        BY <1>1, <1>2, <2>1
      <4> QED
        BY <1>5, <1>11, <4>1
    <3>4. /\ Len(L(k + 1)) = (w + 1) \div 2
          /\ L(k + 1) = [m \in 1..((w + 1) \div 2) |-> Pair(s, m)]
      BY <3>2, TurnHalves
    <3>5. hash[k + 1] = Join(j, s[j + 1], s[Sibling(j, w) + 1])
      BY <1>6, <1>9, <3>1, <3>3
    <3>9. Len(s) = w
      OBVIOUS
    <3> HIDE DEF s, j, w
    <3>6. j \div 2 < (w + 1) \div 2 /\ (j \div 2) + 1 \in 1..((w + 1) \div 2)
      BY <3>2, <3>3
    <3>7. L(k + 1)[(j \div 2) + 1] = Pair(s, (j \div 2) + 1)
      BY <3>4, <3>6
    <3>8. Pair(s, (j \div 2) + 1) = Join(j, s[j + 1], s[Sibling(j, w) + 1])
      <4>1. CASE j % 2 = 0
        <5>1. 2 * ((j \div 2) + 1) - 1 = j + 1 /\ 2 * ((j \div 2) + 1) = j + 2
          BY <3>3, <4>1
        <5>2. Sibling(j, w) + 1 = IF j + 2 <= w THEN j + 2 ELSE j + 1
          BY <3>2, <3>3, <4>1 DEF Sibling
        <5> QED
          BY <3>3, <3>9, <4>1, <5>1, <5>2 DEF Pair, Join
      <4>2. CASE j % 2 = 1
        <5>1. 2 * ((j \div 2) + 1) - 1 = j /\ 2 * ((j \div 2) + 1) = j + 1
          BY <3>3, <4>2
        <5>2. Sibling(j, w) + 1 = j /\ j + 1 <= w
          BY <3>2, <3>3, <4>2 DEF Sibling
        <5>3. Pair(s, (j \div 2) + 1) = Node(s[j], s[j + 1])
          BY <3>9, <5>1, <5>2 DEF Pair
        <5>4. ~(j % 2 = 0)
          BY <3>3, <4>2
        <5>5. Join(j, s[j + 1], s[Sibling(j, w) + 1]) = Node(s[j], s[j + 1])
          BY <5>2, <5>4 DEF Join
        <5> QED
          BY <5>3, <5>5
      <4> QED
        BY <3>3, <4>1, <4>2
    <3> QED
      BY <3>3, <3>4, <3>5, <3>6, <3>7, <3>8 DEF s, j, w
  <2>2. CASE ~(k + 1 <= d)
    BY <2>2
  <2> QED
    BY <2>1, <2>2
<1>12. d \in T
  <2>1. d \in Nat
    BY <1>1, <1>2
  <2> HIDE DEF T
  <2> QED
    BY <1>10, <1>11, <2>1, AllNumbers
<1>13. h(d) = 0 /\ hash[d] = L(d)[1]
  <2>1. h(d) \in Nat /\ h(d) < 1 /\ hash[d] = L(d)[h(d) + 1]
    <3>1. d \in Nat /\ d <= d
      BY <1>1, <1>2
    <3>2. h(d) < Len(L(d)) /\ hash[d] = L(d)[h(d) + 1]
      BY <1>12, <3>1, Zenon
    <3> QED
      BY <1>2, <1>5, <3>1, <3>2
  <2> QED
    BY <2>1
<1> QED
  BY <1>7, <1>9, <1>13 DEF path

LEMMA NodeApart ==
  ASSUME NEW a, NEW b
  PROVE  /\ Node(a, b) # Zero
         /\ \A c, d : Node(a, b) = Node(c, d) => a = c /\ b = d
<1>1. Node(a, b).kind = "node" /\ Node(a, b).left = a /\ Node(a, b).right = b
  BY DEF Node
<1>2. Zero.kind = "zero"
  BY DEF Zero
<1>3. \A c, d : Node(c, d).left = c /\ Node(c, d).right = d
  BY DEF Node
<1> QED
  BY <1>1, <1>2, <1>3

\* A list is no more than its elements.
IsList(s) == Len(s) \in Nat /\ s = [i \in 1..Len(s) |-> s[i]]

(* Equal turns of lists of one length are of equal lists.                    *)
LEMMA TurnDetermines ==
  ASSUME NEW s, NEW t, IsList(s), IsList(t), Len(s) = Len(t), Len(s) > 1,
         Turn(s) = Turn(t)
  PROVE  s = t
<1> DEFINE w == Len(s)
           m == (w + 1) \div 2
<1>1. w \in Nat /\ Len(t) = w /\ w > 1
  BY DEF IsList
<1>2. /\ Turn(s) = [i \in 1..m |-> Pair(s, i)]
      /\ Turn(t) = [i \in 1..m |-> Pair(t, i)]
  BY <1>1, TurnHalves
<1>3. \A i \in 1..m : Pair(s, i) = Pair(t, i)
  <2> HIDE DEF m
  <2> QED
    BY <1>2
<1>4. ASSUME NEW i \in 1..w PROVE s[i] = t[i]
  <2>1. CASE i % 2 = 1
    <3> DEFINE j == (i + 1) \div 2
    <3>1. j \in 1..m /\ 2 * j - 1 = i
      BY <1>1, <2>1
    <3> HIDE DEF j, m
    <3>2. Pair(s, j) = Pair(t, j)
      BY <1>3, <3>1
    <3> QED
      BY <3>1, <3>2, NodeApart DEF Pair
  <2>2. CASE i % 2 = 0
    <3> DEFINE j == i \div 2
    <3>1. j \in 1..m /\ 2 * j = i /\ 2 * j <= w
      BY <1>1, <2>2
    <3> HIDE DEF j, m
    <3>2. Pair(s, j) = Pair(t, j)
      BY <1>3, <3>1
    <3> QED
      BY <1>1, <3>1, <3>2, NodeApart DEF Pair
  <2> QED
    BY <1>1, <2>1, <2>2
<1>5. s = [i \in 1..w |-> s[i]] /\ t = [i \in 1..w |-> t[i]]
  BY <1>1 DEF IsList
<1> HIDE DEF w
<1> QED
  BY <1>4, <1>5

LEMMA LevelsAreLists ==
  ASSUME NEW S, NEW leaves \in Seq(S), leaves # <<>>
  PROVE  \A k \in 0..Len(leaves) : IsList(Levels(leaves)[k])
<1> DEFINE n == Len(leaves)
           L(k) == Levels(leaves)[k]
           T == {k \in Nat : k <= n => IsList(L(k))}
<1>1. n \in Nat
  BY LenProperties
<1>2. L(0) = leaves /\ \A k \in 1..n : L(k) = Turn(L(k - 1))
  BY LevelsTurn
<1>3. IsList(leaves)
  BY LenProperties DEF IsList
<1> HIDE DEF L, n
<1>4. 0 \in T
  BY <1>2, <1>3
<1>5. ASSUME NEW s, IsList(s) PROVE IsList(Turn(s))
  <2>1. CASE Len(s) <= 1
    BY <1>5, <2>1, TurnHalves DEF IsList
  <2>2. CASE Len(s) > 1
    <3> DEFINE m == (Len(s) + 1) \div 2
    <3>1. Len(s) \in Nat /\ m \in Nat
      BY <1>5 DEF IsList
    <3>2. Len(Turn(s)) = m /\ Turn(s) = [i \in 1..m |-> Pair(s, i)]
      BY <2>2, <3>1, TurnHalves
    <3> HIDE DEF m
    <3>3. Turn(s) = [i \in 1..m |-> Turn(s)[i]]
      BY <3>2
    <3> QED
      BY <3>1, <3>2, <3>3 DEF IsList
  <2>3. Len(s) \in Nat
    BY <1>5 DEF IsList
  <2> QED
    BY <2>1, <2>2, <2>3
<1>6. ASSUME NEW k \in Nat, k \in T PROVE k + 1 \in T
  <2>1. CASE k + 1 <= n
    <3>1. L(k + 1) = Turn(L(k)) /\ IsList(L(k))
      BY <1>1, <1>2, <1>6, <2>1
    <3> QED
      BY <1>5, <3>1
  <2>2. CASE ~(k + 1 <= n)
    BY <2>2
  <2> QED
    BY <2>1, <2>2
<1>7. Nat \subseteq T
  <2> HIDE DEF T
  <2> QED
    BY <1>4, <1>6, AllNumbers
<1> QED
  BY <1>1, <1>7 DEF L, n

(* Two lists of as many leaves with one root are the same list: a root says  *)
(* what was sealed under it (a hash being a term).                           *)
THEOREM RootDeterminesLeaves ==
  ASSUME NEW S, NEW x \in Seq(S), NEW y \in Seq(S), x # <<>>, Len(x) = Len(y),
         MarkleRoot(x) = MarkleRoot(y)
  PROVE  x = y
<1> DEFINE n == Len(x)
           X(k) == Levels(x)[k]
           Y(k) == Levels(y)[k]
           d == Depth(x)
           e == Depth(y)
<1>1. n \in Nat /\ n >= 1 /\ Len(y) = n /\ y # <<>>
  BY EmptySeq, LenProperties
<1>2. /\ X(0) = x /\ \A k \in 1..n : X(k) = Turn(X(k - 1))
      /\ Y(0) = y /\ \A k \in 1..n : Y(k) = Turn(Y(k - 1))
  BY <1>1, LevelsTurn
<1>3. \A k \in 0..n : IsList(X(k)) /\ IsList(Y(k))
  BY <1>1, LevelsAreLists
<1>4. /\ d \in 0..n /\ Len(X(d)) = 1 /\ \A k \in 0..(d - 1) : Len(X(k)) > 1
      /\ e \in 0..n /\ Len(Y(e)) = 1 /\ \A k \in 0..(e - 1) : Len(Y(k)) > 1
  BY <1>1, DepthIsFirst
<1>5. X(d)[1] = Y(e)[1]
  BY <1>1 DEF MarkleRoot
<1>6. Len(X(0)) = n /\ Len(Y(0)) = n
  BY <1>1, <1>2
<1> HIDE DEF n, X, Y, d, e
<1> DEFINE T == {k \in Nat : k <= n => Len(X(k)) = Len(Y(k))}
<1>7. ASSUME NEW k \in Nat, k \in T PROVE k + 1 \in T
  <2>1. CASE k + 1 <= n
    <3>1. /\ X(k + 1) = Turn(X(k)) /\ Y(k + 1) = Turn(Y(k))
          /\ Len(X(k)) = Len(Y(k)) /\ Len(X(k)) \in Nat
      <4>1. k \in 0..n /\ k + 1 \in 1..n /\ (k + 1) - 1 = k /\ k <= n
        BY <1>1, <2>1
      <4>2. Len(X(k)) = Len(Y(k))
        BY <1>7, <4>1
      <4>3. X(k + 1) = Turn(X(k)) /\ Y(k + 1) = Turn(Y(k))
        BY <1>2, <4>1
      <4>4. Len(X(k)) \in Nat
        BY <1>3, <4>1 DEF IsList
      <4> QED
        BY <4>2, <4>3, <4>4
    <3> QED
      BY <3>1, TurnHalves
  <2>2. CASE ~(k + 1 <= n)
    BY <2>2
  <2> QED
    BY <2>1, <2>2
<1>8. \A k \in 0..n : Len(X(k)) = Len(Y(k))
  <2>1. 0 \in T
    BY <1>6
  <2>2. Nat \subseteq T
    <3> HIDE DEF T
    <3> QED
      BY <1>7, <2>1, AllNumbers
  <2> QED
    BY <1>1, <2>2
<1>9. d = e /\ d \in Nat
  <2>1. ~(d < e)
    <3>1. ASSUME d < e PROVE FALSE
      <4>1. d \in 0..(e - 1) /\ d \in 0..n
        BY <1>1, <1>4, <3>1
      <4>2. Len(Y(d)) > 1
        BY <1>4, <4>1, Zenon
      <4>3. Len(Y(d)) = 1
        BY <1>4, <1>8, <4>1, Zenon
      <4> QED
        BY <4>2, <4>3
    <3> QED
      BY <3>1
  <2>2. ~(e < d)
    <3>1. ASSUME e < d PROVE FALSE
      <4>1. e \in 0..(d - 1) /\ e \in 0..n
        BY <1>1, <1>4, <3>1
      <4>2. Len(X(e)) > 1
        BY <1>4, <4>1, Zenon
      <4>3. Len(X(e)) = 1
        BY <1>4, <1>8, <4>1, Zenon
      <4> QED
        BY <4>2, <4>3
    <3> QED
      BY <3>1
  <2> QED
    BY <1>1, <1>4, <2>1, <2>2
\* Down from the root.
<1> DEFINE U == {j \in Nat : j <= d => X(d - j) = Y(d - j)}
<1>10. X(d) = Y(d)
  <2>1. IsList(X(d)) /\ IsList(Y(d)) /\ Len(X(d)) = 1 /\ Len(Y(d)) = 1 /\ X(d)[1] = Y(d)[1]
    BY <1>3, <1>4, <1>5, <1>9
  <2>2. X(d) = [i \in 1..1 |-> X(d)[i]] /\ Y(d) = [i \in 1..1 |-> Y(d)[i]]
    BY <2>1 DEF IsList
  <2>3. \A i \in 1..1 : X(d)[i] = Y(d)[i]
    BY <2>1
  <2> QED
    BY <2>2, <2>3
<1>11. ASSUME NEW j \in Nat, j \in U PROVE j + 1 \in U
  <2>1. CASE j + 1 <= d
    <3> DEFINE k == d - (j + 1)
    <3>1. /\ k \in 0..n /\ k \in 0..(d - 1) /\ k + 1 = d - j /\ k + 1 \in 1..n
          /\ (k + 1) - 1 = k
      BY <1>1, <1>4, <1>9, <2>1
    <3>2. X(d - j) = Y(d - j)
      BY <1>9, <1>11, <2>1
    <3> HIDE DEF k
    <3>3. Turn(X(k)) = Turn(Y(k))
      BY <1>2, <3>1, <3>2
    <3>4. X(k) = Y(k)
      BY <1>3, <1>4, <1>8, <3>1, <3>3, TurnDetermines
    <3> QED
      BY <3>4 DEF k
  <2>2. CASE ~(j + 1 <= d)
    BY <2>2
  <2> QED
    BY <2>1, <2>2
<1>12. d \in U
  <2>1. 0 \in U
    <3>1. d - 0 = d
      BY <1>9
    <3> QED
      BY <1>10, <3>1
  <2> HIDE DEF U
  <2> QED
    BY <1>9, <1>11, <2>1, AllNumbers
<1>13. X(0) = Y(0)
  <2>1. d <= d /\ d - d = 0
    BY <1>9
  <2> QED
    BY <1>12, <2>1
<1> QED
  BY <1>2, <1>13

(* The root of a batch is not the zero root.                                 *)
LEMMA RootIsNotZero ==
  ASSUME NEW S, NEW leaves \in Seq(S), leaves # <<>>,
         \A i \in 1..Len(leaves) : leaves[i] # Zero
  PROVE  MarkleRoot(leaves) # Zero
<1> DEFINE n == Len(leaves)
           L(k) == Levels(leaves)[k]
           T == {k \in Nat : k <= n => \A i \in 1..Len(L(k)) : L(k)[i] # Zero}
<1>1. n \in Nat
  BY LenProperties
<1>2. L(0) = leaves /\ \A k \in 1..n : L(k) = Turn(L(k - 1))
  BY LevelsTurn
<1>3. \A k \in 0..n : Len(L(k)) \in Nat
  BY LevelsShrink
<1>4. Depth(leaves) \in 0..n /\ Len(L(Depth(leaves))) = 1
  BY DepthIsFirst
<1>5. MarkleRoot(leaves) = L(Depth(leaves))[1]
  BY DEF MarkleRoot
<1> HIDE DEF L, n
<1>6. 0 \in T
  BY <1>2
<1>7. ASSUME NEW k \in Nat, k \in T PROVE k + 1 \in T
  <2>1. CASE k + 1 <= n
    <3>1. /\ L(k + 1) = Turn(L(k)) /\ Len(L(k)) \in Nat
          /\ \A i \in 1..Len(L(k)) : L(k)[i] # Zero
      BY <1>1, <1>2, <1>3, <1>7, <2>1
    <3> DEFINE m == (Len(L(k)) + 1) \div 2
    <3>2. CASE Len(L(k)) > 1
      <4>1. Len(Turn(L(k))) = m /\ Turn(L(k)) = [i \in 1..m |-> Pair(L(k), i)]
        BY <3>1, <3>2, TurnHalves
      <4> HIDE DEF m
      <4>2. \A i \in 1..m : Turn(L(k))[i] # Zero
        BY <4>1, NodeApart DEF Pair
      <4>3. \A i \in 1..Len(L(k + 1)) : L(k + 1)[i] # Zero
        BY <3>1, <4>1, <4>2, Zenon
      <4> QED
        BY <4>3
    <3>3. CASE ~(Len(L(k)) > 1)
      BY <3>1, <3>3, TurnHalves
    <3> QED
      BY <3>2, <3>3
  <2>2. CASE ~(k + 1 <= n)
    BY <2>2
  <2> QED
    BY <2>1, <2>2
<1>8. Nat \subseteq T
  <2> HIDE DEF T
  <2> QED
    BY <1>6, <1>7, AllNumbers
<1> QED
  BY <1>1, <1>4, <1>5, <1>8

-----------------------------------------------------------------------------
(* What the types say and TypeOK need not: the domains of the functions and  *)
(* the fields of a buffer.                                                   *)

Shape ==
  /\ DOMAIN client = Clients /\ DOMAIN previous = Txs
  /\ \A n \in DOMAIN buffers :
       buffers[n] = [id |-> buffers[n].id, parent |-> buffers[n].parent, txs |-> buffers[n].txs]

Holding == {"located", "full", "archived"}

\* A request holds the lock of its namespace from Locate to its last step; a buffer
\* it finds is there, and has room until it is full.
LockInv ==
  /\ \A t \in Txs : seal[t] \in Holding <=> lock[namespace[t]] = t
  /\ \A n \in Namespaces : lock[n] # Free => namespace[lock[n]] = n
  /\ \A t \in Txs : seal[t] \notin {"new", "linked"} => namespace[t] \in DOMAIN buffers
  /\ \A n \in DOMAIN buffers :
       lock[n] = Free \/ seal[lock[n]] = "located" => Len(buffers[n].txs) < Capacity

BaseInv == TypeOK /\ Shape /\ LockInv

\* With, by its values.
LEMMA WithValues ==
  ASSUME NEW f, NEW x, NEW y
  PROVE  /\ DOMAIN With(f, x, y) = DOMAIN f \cup {x}
         /\ With(f, x, y)[x] = y
         /\ \A z \in DOMAIN f : z # x => With(f, x, y)[z] = f[z]
BY DEF With

\* A buffer with other leaves.
LEMMA NewTxs ==
  \A b, y : (\E i, p, x : b = [id |-> i, parent |-> p, txs |-> x])
              => [b EXCEPT !.txs = y] = [id |-> b.id, parent |-> b.parent, txs |-> y]
OBVIOUS

-----------------------------------------------------------------------------
(* What each step does, value by value.                                      *)

LEMMA EnterValues ==
  ASSUME BaseInv, NEW t \in Txs, EnterBuffer(t), NEW n, n = namespace[t]
  PROVE  /\ n \in Namespaces /\ n \in DOMAIN buffers'
         /\ DOMAIN buffers' = DOMAIN buffers \cup {n}
         /\ \A m \in DOMAIN buffers : buffers'[m] = buffers[m]
         /\ n \in DOMAIN buffers => counter' = counter
         /\ n \notin DOMAIN buffers =>
              /\ counter' = counter + 1
              /\ buffers'[n] = [id |-> counter, parent |-> Zero, txs |-> <<>>]
         /\ seal[t] = "linked" /\ seal' = [seal EXCEPT ![t] = "entered"]
         /\ UNCHANGED <<namespace, lock, archive, location, previous, client>>
<1>1. n \in Namespaces
  BY DEF BaseInv, TypeOK
<1>2. CASE n \in DOMAIN buffers
  BY <1>1, <1>2 DEF EnterBuffer
<1>3. CASE n \notin DOMAIN buffers
  <2> DEFINE b == [id |-> counter, parent |-> Zero, txs |-> <<>>]
  <2>1. buffers' = With(buffers, n, b)
    BY <1>3 DEF EnterBuffer
  <2> HIDE DEF b
  <2>2. /\ DOMAIN buffers' = DOMAIN buffers \cup {n} /\ buffers'[n] = b
        /\ \A m \in DOMAIN buffers : buffers'[m] = buffers[m]
    BY <1>3, <2>1 DEF With
  <2>3. /\ counter' = counter + 1
        /\ seal[t] = "linked" /\ seal' = [seal EXCEPT ![t] = "entered"]
        /\ UNCHANGED <<namespace, lock, archive, location, previous, client>>
    BY <1>3 DEF EnterBuffer
  <2> QED
    BY <1>1, <1>3, <2>2, <2>3 DEF b
<1> QED
  BY <1>2, <1>3

LEMMA PushValues ==
  ASSUME BaseInv, NEW t \in Txs, Push(t), NEW n, n = namespace[t]
  PROVE  /\ n \in DOMAIN buffers /\ n \in Namespaces /\ DOMAIN buffers' = DOMAIN buffers
         /\ \A m \in DOMAIN buffers : m # n => buffers'[m] = buffers[m]
         /\ buffers'[n] = [id |-> buffers[n].id, parent |-> buffers[n].parent,
                           txs |-> Append(buffers[n].txs, t)]
         /\ Append(buffers[n].txs, t) \in Seq(Txs)
         /\ Len(buffers[n].txs) \in Nat /\ Len(buffers[n].txs) < Capacity
         /\ Len(Append(buffers[n].txs, t)) = Len(buffers[n].txs) + 1
         /\ \A i \in 1..Len(buffers[n].txs) : Append(buffers[n].txs, t)[i] = buffers[n].txs[i]
         /\ Append(buffers[n].txs, t)[Len(buffers[n].txs) + 1] = t
         /\ seal[t] = "located" /\ lock[n] = t
         /\ \/ /\ Full(Append(buffers[n].txs, t))
               /\ seal' = [seal EXCEPT ![t] = "full"] /\ lock' = lock
            \/ /\ ~Full(Append(buffers[n].txs, t))
               /\ seal' = [seal EXCEPT ![t] = "sealed"] /\ lock' = [lock EXCEPT ![n] = Free]
         /\ UNCHANGED <<namespace, counter, archive, location, previous, client>>
<1> DEFINE txs == Append(buffers[n].txs, t)
<1>1. /\ n \in DOMAIN buffers /\ n \in Namespaces /\ lock[n] = t /\ seal[t] = "located"
      /\ buffers[n].txs \in Seq(Txs) /\ Len(buffers[n].txs) < Capacity
      /\ buffers[n] = [id |-> buffers[n].id, parent |-> buffers[n].parent, txs |-> buffers[n].txs]
  BY DEF BaseInv, TypeOK, Shape, LockInv, Push, Holding
<1>2. buffers' = [buffers EXCEPT ![n].txs = txs]
  BY DEF Push
<1>3. [buffers[n] EXCEPT !.txs = txs] = [id |-> buffers[n].id, parent |-> buffers[n].parent, txs |-> txs]
  <2>1. \E i, p, x : buffers[n] = [id |-> i, parent |-> p, txs |-> x]
    BY <1>1, Zenon
  <2> QED
    BY <2>1, NewTxs, Zenon
<1> HIDE DEF txs
<1>4. /\ DOMAIN buffers' = DOMAIN buffers
      /\ \A m \in DOMAIN buffers : m # n => buffers'[m] = buffers[m]
      /\ buffers'[n] = [buffers[n] EXCEPT !.txs = txs]
  BY <1>1, <1>2
<1> USE DEF txs
<1>5. /\ txs \in Seq(Txs) /\ Len(buffers[n].txs) \in Nat /\ Len(txs) = Len(buffers[n].txs) + 1
      /\ \A i \in 1..Len(buffers[n].txs) : txs[i] = buffers[n].txs[i]
      /\ txs[Len(buffers[n].txs) + 1] = t
  BY <1>1, AppendProperties, LenProperties
<1>6. lock \in [Namespaces -> Txs \cup {Free}]
  BY DEF BaseInv, TypeOK
<1>7. CASE Full(txs)
  <2>1. seal' = [seal EXCEPT ![t] = "full"] /\ lock' = [lock EXCEPT ![n] = t]
    BY <1>7 DEF Push
  <2>2. lock' = lock
    BY <1>1, <1>6, <2>1
  <2> QED
    BY <1>1, <1>3, <1>4, <1>5, <1>7, <2>1, <2>2 DEF Push
<1>8. CASE ~Full(txs)
  <2>1. seal' = [seal EXCEPT ![t] = "sealed"] /\ lock' = [lock EXCEPT ![n] = Free]
    BY <1>8 DEF Push
  <2> QED
    BY <1>1, <1>3, <1>4, <1>5, <1>8, <2>1 DEF Push
<1> QED
  BY <1>7, <1>8

LEMMA AdvanceValues ==
  ASSUME BaseInv, NEW t \in Txs, Advance(t), NEW n, n = namespace[t]
  PROVE  /\ n \in DOMAIN buffers /\ n \in Namespaces /\ DOMAIN buffers' = DOMAIN buffers
         /\ \A m \in DOMAIN buffers : m # n => buffers'[m] = buffers[m]
         /\ buffers'[n] = [id |-> counter, parent |-> MarkleRoot(LeavesOf(buffers[n].txs)),
                           txs |-> <<>>]
         /\ counter' = counter + 1 /\ lock[n] = t
         /\ seal[t] = "archived" /\ seal' = [seal EXCEPT ![t] = "sealed"]
         /\ lock' = [lock EXCEPT ![n] = Free]
         /\ UNCHANGED <<namespace, archive, location, previous, client>>
BY DEF BaseInv, TypeOK, LockInv, Advance, NextBuffer, Holding

-----------------------------------------------------------------------------
(* Types and locks.                                                          *)

LEMMA LenEmpty == \A S : <<>> \in Seq(S) /\ Len(<<>>) = 0
BY EmptySeq

LEMMA EnterBase ==
  ASSUME BaseInv, NEW t \in Txs, EnterBuffer(t)
  PROVE  BaseInv'
<1> DEFINE n == namespace[t]
<1>1. /\ n \in Namespaces /\ n \in DOMAIN buffers'
      /\ DOMAIN buffers' = DOMAIN buffers \cup {n}
      /\ \A m \in DOMAIN buffers : buffers'[m] = buffers[m]
      /\ n \in DOMAIN buffers => counter' = counter
      /\ n \notin DOMAIN buffers =>
           /\ counter' = counter + 1
           /\ buffers'[n] = [id |-> counter, parent |-> Zero, txs |-> <<>>]
      /\ seal[t] = "linked" /\ seal' = [seal EXCEPT ![t] = "entered"]
      /\ UNCHANGED <<namespace, lock, archive, location, previous, client>>
  BY EnterValues
<1> HIDE DEF n
<1>2. counter \in Nat /\ counter' \in Nat /\ 0..(counter - 1) \subseteq 0..(counter' - 1)
  BY <1>1 DEF BaseInv, TypeOK
<1>3. n \notin DOMAIN buffers => counter \in 0..(counter' - 1)
  BY <1>1, <1>2
<1>4. ASSUME NEW m \in DOMAIN buffers'
      PROVE  /\ buffers'[m].id \in 0..(counter' - 1)
             /\ buffers'[m].txs \in Seq(Txs) /\ Len(buffers'[m].txs) <= Capacity
             /\ buffers'[m] = [id |-> buffers'[m].id, parent |-> buffers'[m].parent,
                               txs |-> buffers'[m].txs]
             /\ m \in DOMAIN buffers \/ Len(buffers'[m].txs) < Capacity
  <2>1. CASE m \in DOMAIN buffers
    BY <1>1, <1>2, <2>1 DEF BaseInv, TypeOK, Shape
  <2>2. CASE m \notin DOMAIN buffers
    <3>1. buffers'[m] = [id |-> counter, parent |-> Zero, txs |-> <<>>]
      BY <1>1, <2>2
    <3>2. m = n
      BY <1>1, <2>2
    <3> QED
      BY <1>3, <2>2, <3>1, <3>2, LenEmpty, CapacityAssumption
  <2> QED
    BY <2>1, <2>2
<1>5. TypeOK'
  BY <1>1, <1>2, <1>4 DEF BaseInv, TypeOK
<1>6. Shape'
  BY <1>1, <1>4 DEF BaseInv, Shape
<1>7. LockInv'
  <2>1. \A u \in Txs : /\ seal'[u] = seal[u] \/ (u = t /\ seal'[u] = "entered" /\ seal[u] = "linked")
    BY <1>1 DEF BaseInv, TypeOK
  <2>2. \A u \in Txs : seal'[u] \in Holding <=> lock'[namespace'[u]] = u
    BY <1>1, <2>1 DEF BaseInv, LockInv, Holding
  <2>3. \A m \in Namespaces : lock'[m] # Free => namespace'[lock'[m]] = m
    BY <1>1 DEF BaseInv, LockInv
  <2>4. \A u \in Txs : seal'[u] \notin {"new", "linked"} => namespace'[u] \in DOMAIN buffers'
    BY <1>1, <2>1 DEF BaseInv, LockInv, n
  <2>5. ASSUME NEW m \in DOMAIN buffers', lock'[m] = Free \/ seal'[lock'[m]] = "located"
        PROVE  Len(buffers'[m].txs) < Capacity
    <3>1. CASE m \in DOMAIN buffers
      <4>1. lock[m] \in Txs \cup {Free}
        BY <3>1 DEF BaseInv, TypeOK
      <4>2. lock[m] = Free \/ seal[lock[m]] = "located"
        BY <1>1, <2>1, <2>5, <4>1
      <4> QED
        BY <1>1, <3>1, <4>2 DEF BaseInv, LockInv
    <3> QED
      BY <1>4, <3>1
  <2> QED
    BY <2>2, <2>3, <2>4, <2>5 DEF LockInv
<1> QED
  BY <1>5, <1>6, <1>7 DEF BaseInv

LEMMA PushBase ==
  ASSUME BaseInv, NEW t \in Txs, Push(t)
  PROVE  BaseInv'
<1> DEFINE n == namespace[t]
<1>1. /\ n \in DOMAIN buffers /\ n \in Namespaces /\ DOMAIN buffers' = DOMAIN buffers
      /\ \A m \in DOMAIN buffers : m # n => buffers'[m] = buffers[m]
      /\ buffers'[n] = [id |-> buffers[n].id, parent |-> buffers[n].parent,
                        txs |-> Append(buffers[n].txs, t)]
      /\ Append(buffers[n].txs, t) \in Seq(Txs)
      /\ Len(buffers[n].txs) \in Nat /\ Len(buffers[n].txs) < Capacity
      /\ Len(Append(buffers[n].txs, t)) = Len(buffers[n].txs) + 1
      /\ seal[t] = "located" /\ lock[n] = t
      /\ \/ /\ Full(Append(buffers[n].txs, t))
            /\ seal' = [seal EXCEPT ![t] = "full"] /\ lock' = lock
         \/ /\ ~Full(Append(buffers[n].txs, t))
            /\ seal' = [seal EXCEPT ![t] = "sealed"] /\ lock' = [lock EXCEPT ![n] = Free]
      /\ UNCHANGED <<namespace, counter, archive, location, previous, client>>
  BY PushValues
<1>2. n = namespace[t]
  OBVIOUS
<1> HIDE DEF n
<1>3. /\ buffers'[n].id = buffers[n].id /\ buffers'[n].txs = Append(buffers[n].txs, t)
      /\ buffers'[n] = [id |-> buffers'[n].id, parent |-> buffers'[n].parent,
                        txs |-> buffers'[n].txs]
  BY <1>1
<1>4. Len(buffers'[n].txs) <= Capacity
  BY <1>1, <1>3, CapacityAssumption
<1>5. /\ seal' \in [Txs -> {"new", "linked", "entered", "located", "full", "archived", "sealed"}]
      /\ lock' \in [Namespaces -> Txs \cup {Free}]
  <2>1. seal \in [Txs -> {"new", "linked", "entered", "located", "full", "archived", "sealed"}]
    BY DEF BaseInv, TypeOK
  <2>2. lock \in [Namespaces -> Txs \cup {Free}]
    BY DEF BaseInv, TypeOK
  <2>3. seal' \in [Txs -> {"new", "linked", "entered", "located", "full", "archived", "sealed"}]
    BY <1>1, <2>1
  <2>4. lock' \in [Namespaces -> Txs \cup {Free}]
    BY <1>1, <2>2
  <2> QED
    BY <2>3, <2>4
<1>6. TypeOK'
  BY <1>1, <1>3, <1>4, <1>5 DEF BaseInv, TypeOK
<1>7. ASSUME NEW m \in DOMAIN buffers
      PROVE  buffers'[m] = [id |-> buffers'[m].id, parent |-> buffers'[m].parent,
                            txs |-> buffers'[m].txs]
  <2>1. CASE m = n
    BY <1>3, <2>1
  <2>2. CASE m # n
    <3>1. buffers'[m] = buffers[m]
      BY <1>1, <2>2
    <3> QED
      BY <3>1 DEF BaseInv, Shape
  <2> QED
    BY <2>1, <2>2
<1>8. Shape'
  BY <1>1, <1>7 DEF BaseInv, Shape
<1>9. /\ \A u \in Txs : u # t => seal'[u] = seal[u]
      /\ \A m \in Namespaces : m # n => lock'[m] = lock[m]
      /\ \/ seal'[t] = "full" /\ lock'[n] = t
         \/ seal'[t] = "sealed" /\ lock'[n] = Free /\ Len(buffers'[n].txs) < Capacity
  <2>1. CASE Full(Append(buffers[n].txs, t))
    BY <1>1, <2>1 DEF BaseInv, TypeOK, Full
  <2>2. CASE ~Full(Append(buffers[n].txs, t))
    <3>1. Len(buffers'[n].txs) < Capacity
      BY <1>1, <1>3, <2>2, CapacityAssumption DEF Full
    <3> QED
      BY <1>1, <2>2, <3>1 DEF BaseInv, TypeOK
  <2> QED
    BY <2>1, <2>2
<1>10. LockInv'
  <2>1. ASSUME NEW u \in Txs PROVE seal'[u] \in Holding <=> lock'[namespace'[u]] = u
    <3>1. namespace[u] \in Namespaces /\ namespace' = namespace
          /\ (seal[u] \in Holding <=> lock[namespace[u]] = u)
      BY <1>1 DEF BaseInv, TypeOK, LockInv
    <3>2. CASE u = t
      BY <1>2, <1>9, <3>1, <3>2, FreeAssumption DEF Holding
    <3>3. CASE u # t
      BY <1>1, <1>9, <3>1, <3>3, FreeAssumption
    <3> QED
      BY <3>2, <3>3
  <2>2. \A m \in Namespaces : lock'[m] # Free => namespace'[lock'[m]] = m
    BY <1>1, <1>2, <1>9 DEF BaseInv, LockInv
  <2>3. \A u \in Txs : seal'[u] \notin {"new", "linked"} => namespace'[u] \in DOMAIN buffers'
    BY <1>1, <1>9 DEF BaseInv, LockInv
  <2>4. ASSUME NEW m \in DOMAIN buffers', lock'[m] = Free \/ seal'[lock'[m]] = "located"
        PROVE  Len(buffers'[m].txs) < Capacity
    <3>1. m \in Namespaces /\ m \in DOMAIN buffers
      BY <1>1 DEF BaseInv, TypeOK
    <3>2. CASE m = n
      BY <1>9, <2>4, <3>2, FreeAssumption
    <3>3. CASE m # n
      <4>1. lock'[m] = lock[m] /\ lock[m] # t /\ buffers'[m] = buffers[m]
        BY <1>1, <1>2, <1>9, <3>1, <3>3, FreeAssumption DEF BaseInv, LockInv
      <4>2. lock[m] = Free \/ seal[lock[m]] = "located"
        BY <1>9, <2>4, <3>1, <4>1 DEF BaseInv, TypeOK
      <4> QED
        BY <3>1, <4>1, <4>2 DEF BaseInv, LockInv
    <3> QED
      BY <3>2, <3>3
  <2> QED
    BY <2>1, <2>2, <2>3, <2>4 DEF LockInv
<1> QED
  BY <1>6, <1>8, <1>10 DEF BaseInv

LEMMA AdvanceBase ==
  ASSUME BaseInv, NEW t \in Txs, Advance(t)
  PROVE  BaseInv'
<1> DEFINE n == namespace[t]
<1>1. /\ n \in DOMAIN buffers /\ n \in Namespaces /\ DOMAIN buffers' = DOMAIN buffers
      /\ \A m \in DOMAIN buffers : m # n => buffers'[m] = buffers[m]
      /\ buffers'[n] = [id |-> counter, parent |-> MarkleRoot(LeavesOf(buffers[n].txs)),
                        txs |-> <<>>]
      /\ counter' = counter + 1 /\ lock[n] = t
      /\ seal[t] = "archived" /\ seal' = [seal EXCEPT ![t] = "sealed"]
      /\ lock' = [lock EXCEPT ![n] = Free]
      /\ UNCHANGED <<namespace, archive, location, previous, client>>
  BY AdvanceValues
<1>2. n = namespace[t]
  OBVIOUS
<1> HIDE DEF n
<1>3. /\ counter \in Nat /\ counter' \in Nat /\ 0..(counter - 1) \subseteq 0..(counter' - 1)
      /\ counter \in 0..(counter' - 1)
  BY <1>1 DEF BaseInv, TypeOK
<1>4. ASSUME NEW m \in DOMAIN buffers'
      PROVE  /\ buffers'[m].id \in 0..(counter' - 1)
             /\ buffers'[m].txs \in Seq(Txs) /\ Len(buffers'[m].txs) <= Capacity
             /\ buffers'[m] = [id |-> buffers'[m].id, parent |-> buffers'[m].parent,
                               txs |-> buffers'[m].txs]
             /\ m # n \/ Len(buffers'[m].txs) < Capacity
  <2>1. CASE m # n
    <3>1. buffers'[m] = buffers[m] /\ m \in DOMAIN buffers
      BY <1>1, <2>1
    <3> QED
      BY <1>3, <2>1, <3>1 DEF BaseInv, TypeOK, Shape
  <2>2. CASE m = n
    <3>1. /\ buffers'[m].id = counter /\ buffers'[m].txs = <<>>
          /\ buffers'[m] = [id |-> buffers'[m].id, parent |-> buffers'[m].parent,
                            txs |-> buffers'[m].txs]
      BY <1>1, <2>2
    <3>2. /\ buffers'[m].txs \in Seq(Txs) /\ Len(buffers'[m].txs) = 0
          /\ buffers'[m].id \in 0..(counter' - 1)
      BY <1>3, <3>1, LenEmpty
    <3>3. \A l : l = 0 => l <= Capacity /\ l < Capacity
      BY CapacityAssumption
    <3> QED
      BY <3>1, <3>2, <3>3, Zenon
  <2> QED
    BY <2>1, <2>2
<1>5. /\ seal' \in [Txs -> {"new", "linked", "entered", "located", "full", "archived", "sealed"}]
      /\ lock' \in [Namespaces -> Txs \cup {Free}]
  BY <1>1 DEF BaseInv, TypeOK
<1>6. TypeOK'
  BY <1>1, <1>3, <1>4, <1>5 DEF BaseInv, TypeOK
<1>7. Shape'
  BY <1>1, <1>4 DEF BaseInv, Shape
<1>8. /\ \A u \in Txs : u # t => seal'[u] = seal[u]
      /\ \A m \in Namespaces : m # n => lock'[m] = lock[m]
      /\ seal'[t] = "sealed" /\ lock'[n] = Free
  BY <1>1 DEF BaseInv, TypeOK
<1>9. LockInv'
  <2>1. ASSUME NEW u \in Txs PROVE seal'[u] \in Holding <=> lock'[namespace'[u]] = u
    <3>1. namespace[u] \in Namespaces /\ namespace' = namespace
          /\ (seal[u] \in Holding <=> lock[namespace[u]] = u)
      BY <1>1 DEF BaseInv, TypeOK, LockInv
    <3>2. CASE u = t
      BY <1>2, <1>8, <3>1, <3>2, FreeAssumption DEF Holding
    <3>3. CASE u # t
      BY <1>1, <1>8, <3>1, <3>3, FreeAssumption
    <3> QED
      BY <3>2, <3>3
  <2>2. \A m \in Namespaces : lock'[m] # Free => namespace'[lock'[m]] = m
    BY <1>1, <1>8 DEF BaseInv, LockInv
  <2>3. \A u \in Txs : seal'[u] \notin {"new", "linked"} => namespace'[u] \in DOMAIN buffers'
    BY <1>1, <1>8 DEF BaseInv, LockInv
  <2>4. ASSUME NEW m \in DOMAIN buffers', lock'[m] = Free \/ seal'[lock'[m]] = "located"
        PROVE  Len(buffers'[m].txs) < Capacity
    <3>1. m \in Namespaces /\ m \in DOMAIN buffers
      BY <1>1 DEF BaseInv, TypeOK
    <3>2. CASE m = n
      BY <1>4, <3>2
    <3>3. CASE m # n
      <4>1. lock'[m] = lock[m] /\ lock[m] # t /\ buffers'[m] = buffers[m]
        BY <1>1, <1>2, <1>8, <3>1, <3>3, FreeAssumption DEF BaseInv, LockInv
      <4>2. lock[m] = Free \/ seal[lock[m]] = "located"
        BY <1>8, <2>4, <3>1, <4>1 DEF BaseInv, TypeOK
      <4> QED
        BY <3>1, <4>1, <4>2 DEF BaseInv, LockInv
    <3> QED
      BY <3>2, <3>3
  <2> QED
    BY <2>1, <2>2, <2>3, <2>4 DEF LockInv
<1> QED
  BY <1>6, <1>7, <1>9 DEF BaseInv

\* A step of a sealing request that leaves buffers and counter alone.
LEMMA SealBase ==
  ASSUME BaseInv, NEW t \in Txs, ReadParent(t) \/ Locate(t) \/ ArchiveBatch(t)
  PROVE  BaseInv'
<1> USE DEF BaseInv
<1>1. CASE ReadParent(t)
  <2>1. /\ seal[t] = "new" /\ seal' = [seal EXCEPT ![t] = "linked"]
        /\ \E p : previous' = [previous EXCEPT ![t] = p]
        /\ UNCHANGED <<namespace, buffers, lock, counter, archive, location, client>>
    BY <1>1 DEF ReadParent
  <2>2. TypeOK' /\ Shape'
    BY <2>1 DEF TypeOK, Shape
  <2>3. seal'[t] = "linked" /\ \A u \in Txs : u # t => seal'[u] = seal[u]
    BY <2>1 DEF TypeOK
  <2>4. LockInv'
    <3>1. \A u \in Txs : seal'[u] \in Holding <=> lock'[namespace'[u]] = u
      BY <2>1, <2>3 DEF LockInv, Holding
    <3>2. \A m \in DOMAIN buffers : lock[m] \in Txs \cup {Free}
      BY DEF TypeOK
    <3>3. \A m \in DOMAIN buffers :
            lock[m] = Free \/ seal'[lock[m]] = "located" => Len(buffers[m].txs) < Capacity
      BY <2>3, <3>2 DEF LockInv
    <3> QED
      BY <2>1, <2>3, <3>1, <3>3 DEF LockInv
  <2> QED
    BY <2>2, <2>4
<1>2. CASE Locate(t)
  <2> DEFINE n == namespace[t]
  <2>1. /\ seal[t] = "entered" /\ seal' = [seal EXCEPT ![t] = "located"]
        /\ lock[n] = Free /\ lock' = [lock EXCEPT ![n] = t] /\ n \in Namespaces
        /\ n \in DOMAIN buffers
        /\ location' = With(location, t, <<buffers[n].id, NextIndex(buffers[n])>>)
        /\ UNCHANGED <<namespace, buffers, counter, archive, previous, client>>
    BY <1>2 DEF Locate, TypeOK, LockInv
  <2>2. n = namespace[t]
    OBVIOUS
  <2>3. <<buffers[n].id, NextIndex(buffers[n])>> \in Nat \X Nat
    <3>1. buffers[n].id \in 0..(counter - 1) /\ counter \in Nat /\ buffers[n].txs \in Seq(Txs)
      BY <2>1 DEF TypeOK
    <3>2. buffers[n].id \in Nat /\ Len(buffers[n].txs) \in Nat
      BY <3>1, LenProperties
    <3> QED
      BY <3>2 DEF NextIndex
  <2> HIDE DEF n
  <2>4. location' \in [DOMAIN location' -> Nat \X Nat] /\ DOMAIN location' \in SUBSET Txs
    BY <2>1, <2>3 DEF With, TypeOK
  <2>5. TypeOK' /\ Shape'
    BY <2>1, <2>4 DEF TypeOK, Shape
  <2>6. /\ seal'[t] = "located" /\ \A u \in Txs : u # t => seal'[u] = seal[u]
        /\ lock'[n] = t /\ \A m \in Namespaces : m # n => lock'[m] = lock[m]
    BY <2>1 DEF TypeOK
  <2>7. LockInv'
    <3>1. ASSUME NEW u \in Txs PROVE seal'[u] \in Holding <=> lock'[namespace'[u]] = u
      <4>1. namespace[u] \in Namespaces /\ (seal[u] \in Holding <=> lock[namespace[u]] = u)
        BY DEF TypeOK, LockInv
      <4>2. CASE u = t
        BY <2>1, <2>2, <2>6, <4>2 DEF Holding
      <4>3. CASE u # t
        BY <2>1, <2>6, <4>1, <4>3, FreeAssumption
      <4> QED
        BY <4>2, <4>3
    <3>2. \A m \in Namespaces : lock'[m] # Free => namespace'[lock'[m]] = m
      BY <2>1, <2>2, <2>6 DEF LockInv
    <3>3. \A u \in Txs : seal'[u] \notin {"new", "linked"} => namespace'[u] \in DOMAIN buffers'
      BY <2>1, <2>6 DEF LockInv
    <3>4. ASSUME NEW m \in DOMAIN buffers, lock'[m] = Free \/ seal'[lock'[m]] = "located"
          PROVE  Len(buffers[m].txs) < Capacity
      <4>1. m \in Namespaces /\ lock[m] \in Txs \cup {Free}
        BY DEF TypeOK
      <4>2. CASE m = n
        BY <2>1, <4>2 DEF LockInv
      <4>3. CASE m # n
        <5>1. lock'[m] = lock[m] /\ lock[m] # t
          BY <2>2, <2>6, <4>1, <4>3, FreeAssumption DEF LockInv
        <5> QED
          BY <2>6, <3>4, <4>1, <5>1 DEF LockInv
      <4> QED
        BY <4>2, <4>3
    <3> QED
      BY <2>1, <3>1, <3>2, <3>3, <3>4 DEF LockInv
  <2> QED
    BY <2>5, <2>7
<1>3. CASE ArchiveBatch(t)
  <2> DEFINE b == buffers[namespace[t]]
  <2>1. /\ seal[t] = "full" /\ seal' = [seal EXCEPT ![t] = "archived"]
        /\ \E r : /\ archive' = With(archive, b.id, r) /\ r.txs = b.txs
        /\ UNCHANGED <<namespace, buffers, lock, counter, location, previous, client>>
    BY <1>3 DEF ArchiveBatch
  <2>2. b.id \in 0..(counter - 1) /\ b.txs \in Seq(Txs)
    BY <2>1 DEF TypeOK, LockInv
  <2> HIDE DEF b
  <2>3. DOMAIN archive' \in SUBSET (0..(counter - 1))
        /\ \A i \in DOMAIN archive' : archive'[i].txs \in Seq(Txs)
    BY <2>1, <2>2 DEF With, TypeOK
  <2>4. TypeOK' /\ Shape'
    BY <2>1, <2>3 DEF TypeOK, Shape
  <2>5. seal'[t] = "archived" /\ \A u \in Txs : u # t => seal'[u] = seal[u]
    BY <2>1 DEF TypeOK
  <2>6. LockInv'
    <3>1. \A u \in Txs : seal'[u] \in Holding <=> lock'[namespace'[u]] = u
      BY <2>1, <2>5 DEF LockInv, Holding
    <3>2. \A m \in DOMAIN buffers : lock[m] \in Txs \cup {Free}
      BY DEF TypeOK
    <3>3. \A m \in DOMAIN buffers :
            lock[m] = Free \/ seal'[lock[m]] = "located" => Len(buffers[m].txs) < Capacity
      BY <2>5, <3>2 DEF LockInv
    <3> QED
      BY <2>1, <2>5, <3>1, <3>3 DEF LockInv
  <2> QED
    BY <2>4, <2>6
<1> QED
  BY <1>1, <1>2, <1>3

\* A request for a proof changes nothing but its client.
LEMMA ClientMoves ==
  ASSUME BaseInv, NEW c \in Clients, GenerateProof(c) \/ \E t \in Txs : AskProof(c, t)
  PROVE  /\ UNCHANGED <<namespace, buffers, lock, counter, archive, location, seal, previous>>
         /\ \E r : /\ client' = [client EXCEPT ![c] = r]
                   /\ r.at \in {"idle", "asked", "located", "searching", "proved", "none"}
<1>1. CASE GenerateProof(c)
  <2>1. CASE ReadLocation(c)
    <3> DEFINE r == IF client[c].tx \in DOMAIN location
                      THEN [at |-> "located", tx |-> client[c].tx,
                            place |-> location[client[c].tx]]
                      ELSE [at |-> "searching", tx |-> client[c].tx]
    <3>1. client' = [client EXCEPT ![c] = r]
      BY <2>1 DEF ReadLocation
    <3>2. r.at \in {"located", "searching"}
      OBVIOUS
    <3> HIDE DEF r
    <3> QED
      BY <2>1, <3>1, <3>2 DEF ReadLocation, requests
  <2>2. CASE ReadArchive(c)
    <3> DEFINE b == archive[client[c].place[1]]
               p == Proof(client[c], b.txs, client[c].place[2], client[c].place[1], b.parent)
               r == IF client[c].place[1] \in DOMAIN archive
                      THEN p ELSE [at |-> "searching", tx |-> client[c].tx]
    <3>1. client' = [client EXCEPT ![c] = r]
      BY <2>2 DEF ReadArchive
    <3>2. p.at = "proved"
      BY DEF Proof
    <3> HIDE DEF p
    <3>3. r.at \in {"proved", "searching"}
      BY <3>2
    <3> HIDE DEF r
    <3> QED
      BY <2>2, <3>1, <3>3 DEF ReadArchive, requests
  <2>3. CASE SearchBuffers(c)
    BY <2>3 DEF SearchBuffers, Proof, requests
  <2>4. CASE Answered(c)
    <3>1. client' = [client EXCEPT ![c] = Idle] /\ Idle.at = "idle"
      BY <2>4 DEF Answered, Idle
    <3> QED
      BY <2>4, <3>1 DEF Answered, requests
  <2> QED
    BY <1>1, <2>1, <2>2, <2>3, <2>4 DEF GenerateProof
<1>2. CASE \E t \in Txs : AskProof(c, t)
  <2>1. PICK t \in Txs : AskProof(c, t)
    BY <1>2
  <2> DEFINE r == [at |-> "asked", tx |-> t]
  <2>2. client' = [client EXCEPT ![c] = r] /\ r.at = "asked"
    BY <2>1 DEF AskProof
  <2> HIDE DEF r
  <2> QED
    BY <2>1, <2>2 DEF AskProof, requests
<1> QED
  BY <1>1, <1>2

LEMMA ClientBase ==
  ASSUME BaseInv, NEW c \in Clients, GenerateProof(c) \/ \E t \in Txs : AskProof(c, t)
  PROVE  BaseInv'
<1>1. /\ UNCHANGED <<namespace, buffers, lock, counter, archive, location, seal, previous>>
      /\ \E r : /\ client' = [client EXCEPT ![c] = r]
                /\ r.at \in {"idle", "asked", "located", "searching", "proved", "none"}
  BY ClientMoves
<1>2. /\ DOMAIN client' = Clients
      /\ \A d \in Clients : client'[d].at \in {"idle", "asked", "located", "searching", "proved", "none"}
  BY <1>1 DEF BaseInv, TypeOK, Shape
<1>3. TypeOK'
  BY <1>1, <1>2 DEF BaseInv, TypeOK
<1>4. Shape' /\ LockInv'
  BY <1>1, <1>2 DEF BaseInv, Shape, LockInv
<1> QED
  BY <1>3, <1>4 DEF BaseInv

LEMMA BaseStep == BaseInv /\ [Next]_vars => BaseInv'
<1>1. BaseInv /\ UNCHANGED vars => BaseInv'
  BY DEF BaseInv, TypeOK, Shape, LockInv, vars
<1> QED
  BY <1>1, EnterBase, PushBase, AdvanceBase, SealBase, ClientBase DEF Next, SealThought

LEMMA BaseAtStart == Init => BaseInv
<1> SUFFICES ASSUME Init PROVE BaseInv
  OBVIOUS
<1>1. /\ DOMAIN buffers = {} /\ DOMAIN archive = {} /\ DOMAIN location = {}
      /\ location = [t \in {} |-> <<0, 0>>]
      /\ namespace \in [Txs -> Namespaces] /\ lock = [n \in Namespaces |-> Free] /\ counter = 0
      /\ seal = [t \in Txs |-> "new"] /\ previous = [t \in Txs |-> Zero]
      /\ client = [c \in Clients |-> Idle]
  BY DEF Init, NoBuffer
<1>2. location \in [DOMAIN location -> Nat \X Nat]
  BY <1>1
<1>3. TypeOK
  BY <1>1, <1>2 DEF TypeOK, Idle
<1>4. Shape /\ LockInv
  BY <1>1, FreeAssumption DEF Shape, LockInv, Holding
<1> QED
  BY <1>3, <1>4 DEF BaseInv

(* Buffers, archive and index stay well typed, and no batch outgrows its     *)
(* capacity, whatever requests run beside each other (axon.rs 212-282).      *)
THEOREM LedgerTypes == Spec => []TypeOK
<1>1. BaseInv => TypeOK
  BY DEF BaseInv
<1> QED
  BY <1>1, BaseAtStart, BaseStep, PTL DEF Spec

-----------------------------------------------------------------------------
(* Batches.  An id is of one buffer; while the lock is held between archiving*)
(* and the next buffer, and only then, the buffer's id is in the archive.    *)

Archiving(n) == lock[n] # Free /\ seal[lock[n]] = "archived"

Batch(n) ==
  [namespace |-> n, parent |-> buffers[n].parent, txs |-> buffers[n].txs,
   root |-> MarkleRoot(LeavesOf(buffers[n].txs))]

IdInv ==
  /\ \A m, n \in DOMAIN buffers : buffers[m].id = buffers[n].id => m = n
  /\ \A n \in DOMAIN buffers :
       IF Archiving(n)
         THEN buffers[n].id \in DOMAIN archive /\ archive[buffers[n].id] = Batch(n)
         ELSE buffers[n].id \notin DOMAIN archive

LEMMA ArchiveValues ==
  ASSUME BaseInv, NEW t \in Txs, ArchiveBatch(t), NEW n, n = namespace[t]
  PROVE  /\ n \in DOMAIN buffers /\ n \in Namespaces /\ lock[n] = t
         /\ DOMAIN archive' = DOMAIN archive \cup {buffers[n].id}
         /\ archive'[buffers[n].id] = Batch(n)
         /\ \A i \in DOMAIN archive : i # buffers[n].id => archive'[i] = archive[i]
         /\ seal[t] = "full" /\ seal' = [seal EXCEPT ![t] = "archived"]
         /\ UNCHANGED <<namespace, buffers, lock, counter, location, previous, client>>
<1>1. archive' = With(archive, buffers[n].id, Batch(n))
  BY DEF ArchiveBatch, Batch
<1>2. n \in DOMAIN buffers /\ n \in Namespaces /\ lock[n] = t
  BY DEF BaseInv, TypeOK, LockInv, Holding, ArchiveBatch
<1>3. /\ DOMAIN archive' = DOMAIN archive \cup {buffers[n].id}
      /\ archive'[buffers[n].id] = Batch(n)
      /\ \A i \in DOMAIN archive : i # buffers[n].id => archive'[i] = archive[i]
  BY <1>1 DEF With
<1> QED
  BY <1>2, <1>3 DEF ArchiveBatch

LEMMA LocateValues ==
  ASSUME BaseInv, NEW t \in Txs, Locate(t), NEW n, n = namespace[t]
  PROVE  /\ n \in DOMAIN buffers /\ n \in Namespaces
         /\ t \in DOMAIN location'
         /\ location'[t] = <<buffers[n].id, Len(buffers[n].txs)>>
         /\ \A u \in DOMAIN location : u \in DOMAIN location' /\ (u # t => location'[u] = location[u])
         /\ lock[n] = Free /\ lock' = [lock EXCEPT ![n] = t]
         /\ seal[t] = "entered" /\ seal' = [seal EXCEPT ![t] = "located"]
         /\ UNCHANGED <<namespace, buffers, counter, archive, previous, client>>
<1>1. location' = With(location, t, <<buffers[n].id, Len(buffers[n].txs)>>)
  BY DEF Locate, NextIndex
<1>2. n \in DOMAIN buffers /\ n \in Namespaces
  BY DEF BaseInv, TypeOK, LockInv, Locate
<1>3. /\ t \in DOMAIN location'
      /\ location'[t] = <<buffers[n].id, Len(buffers[n].txs)>>
      /\ \A u \in DOMAIN location : u \in DOMAIN location' /\ (u # t => location'[u] = location[u])
  BY <1>1 DEF With
<1> QED
  BY <1>2, <1>3 DEF Locate

LEMMA IdAlone ==
  ASSUME IdInv, UNCHANGED <<buffers, archive>>,
         \A n \in DOMAIN buffers : Archiving(n)' = Archiving(n)
  PROVE  IdInv'
BY DEF IdInv, Batch

LEMMA IdRead ==
  ASSUME BaseInv, IdInv, NEW t \in Txs, ReadParent(t) \/ Locate(t)
  PROVE  IdInv'
<1>1. CASE ReadParent(t)
  <2>1. \A u \in Txs : (seal'[u] = "archived") = (seal[u] = "archived")
    BY <1>1 DEF ReadParent, BaseInv, TypeOK
  <2>2. UNCHANGED <<buffers, archive, lock>> /\ \A n \in DOMAIN buffers : lock[n] \in Txs \cup {Free}
    BY <1>1 DEF ReadParent, BaseInv, TypeOK
  <2> QED
    BY <2>1, <2>2, IdAlone DEF Archiving
<1>2. CASE Locate(t)
  <2>0. PICK n : n = namespace[t]
    OBVIOUS
  <2>1. /\ n \in Namespaces /\ lock[n] = Free /\ lock' = [lock EXCEPT ![n] = t]
        /\ seal[t] = "entered" /\ seal' = [seal EXCEPT ![t] = "located"]
        /\ UNCHANGED <<buffers, archive>>
    BY <1>2, <2>0, LocateValues
  <2>2. seal'[t] = "located" /\ \A u \in Txs : u # t => seal'[u] = seal[u]
    BY <2>1 DEF BaseInv, TypeOK
  <2>3. ASSUME NEW m \in DOMAIN buffers PROVE Archiving(m)' = Archiving(m)
    <3>1. m \in Namespaces /\ lock[m] \in Txs \cup {Free} /\ lock \in [Namespaces -> Txs \cup {Free}]
      BY DEF BaseInv, TypeOK
    <3>2. CASE m = n
      BY <2>1, <2>2, <3>1, <3>2 DEF Archiving
    <3>3. CASE m # n
      <4>1. lock'[m] = lock[m]
        BY <2>1, <3>1, <3>3
      <4> QED
        BY <2>1, <2>2, <3>1, <4>1, FreeAssumption DEF Archiving
    <3> QED
      BY <3>2, <3>3
  <2> QED
    BY <2>1, <2>3, IdAlone
<1> QED
  BY <1>1, <1>2

LEMMA IdEnter ==
  ASSUME BaseInv, IdInv, NEW t \in Txs, EnterBuffer(t)
  PROVE  IdInv'
<1>0. PICK n : n = namespace[t]
  OBVIOUS
<1>1. /\ n \in Namespaces /\ DOMAIN buffers' = DOMAIN buffers \cup {n}
      /\ \A m \in DOMAIN buffers : buffers'[m] = buffers[m]
      /\ n \notin DOMAIN buffers =>
           buffers'[n] = [id |-> counter, parent |-> Zero, txs |-> <<>>]
      /\ seal[t] = "linked" /\ seal' = [seal EXCEPT ![t] = "entered"]
      /\ UNCHANGED <<namespace, lock, archive>>
  BY <1>0, EnterValues
<1>2. \A u \in Txs : (seal'[u] = "archived") = (seal[u] = "archived")
  BY <1>1 DEF BaseInv, TypeOK
<1>3. \A m \in Namespaces : lock[m] \in Txs \cup {Free} /\ (Archiving(m)' = Archiving(m))
  BY <1>1, <1>2 DEF BaseInv, TypeOK, Archiving
<1>4. ASSUME n \notin DOMAIN buffers PROVE ~Archiving(n)
  <2>1. lock[n] \in Txs => namespace[lock[n]] = n /\ seal[lock[n]] \notin Holding
    BY <1>1, <1>4, FreeAssumption DEF BaseInv, LockInv, Holding
  <2> QED
    BY <1>1, <1>3, <2>1 DEF Archiving, Holding
<1>5. /\ counter \notin DOMAIN archive
      /\ \A m \in DOMAIN buffers : buffers[m].id # counter /\ m \in Namespaces
  BY DEF BaseInv, TypeOK
<1>6. ASSUME NEW m \in DOMAIN buffers'
      PROVE  IF Archiving(m)'
               THEN buffers'[m].id \in DOMAIN archive' /\ archive'[buffers'[m].id] = Batch(m)'
               ELSE buffers'[m].id \notin DOMAIN archive'
  <2>1. CASE m \in DOMAIN buffers
    <3>1. buffers'[m] = buffers[m] /\ Archiving(m)' = Archiving(m) /\ archive' = archive
      BY <1>1, <1>3, <1>5, <2>1
    <3> QED
      BY <2>1, <3>1 DEF IdInv, Batch
  <2>2. CASE m \notin DOMAIN buffers
    <3>1. m = n /\ ~Archiving(m)' /\ buffers'[m].id = counter /\ archive' = archive
      BY <1>1, <1>3, <1>4, <2>2
    <3> QED
      BY <1>5, <3>1
  <2> QED
    BY <2>1, <2>2
<1>7. ASSUME NEW l \in DOMAIN buffers', NEW m \in DOMAIN buffers', buffers'[l].id = buffers'[m].id
      PROVE  l = m
  <2>1. n \notin DOMAIN buffers => buffers'[n].id = counter
    BY <1>1
  <2> QED
    BY <1>1, <1>5, <1>7, <2>1 DEF IdInv
<1> QED
  BY <1>6, <1>7 DEF IdInv

LEMMA IdPush ==
  ASSUME BaseInv, IdInv, NEW t \in Txs, Push(t)
  PROVE  IdInv'
<1>0. PICK n : n = namespace[t]
  OBVIOUS
<1>1. /\ n \in DOMAIN buffers /\ n \in Namespaces /\ DOMAIN buffers' = DOMAIN buffers
      /\ \A m \in DOMAIN buffers : m # n => buffers'[m] = buffers[m]
      /\ buffers'[n] = [id |-> buffers[n].id, parent |-> buffers[n].parent,
                        txs |-> Append(buffers[n].txs, t)]
      /\ seal[t] = "located" /\ lock[n] = t
      /\ \/ seal' = [seal EXCEPT ![t] = "full"] /\ lock' = lock
         \/ seal' = [seal EXCEPT ![t] = "sealed"] /\ lock' = [lock EXCEPT ![n] = Free]
      /\ archive' = archive
  BY <1>0, PushValues
<1>2. buffers'[n].id = buffers[n].id
  BY <1>1
<1>3. \A u \in Txs : (seal'[u] = "archived") = (seal[u] = "archived")
  BY <1>1 DEF BaseInv, TypeOK
<1>4. \A m \in Namespaces : lock[m] \in Txs \cup {Free} /\ (m # n => lock'[m] = lock[m])
  BY <1>1 DEF BaseInv, TypeOK
<1>5. ~Archiving(n) /\ ~Archiving(n)'
  BY <1>1, FreeAssumption DEF BaseInv, TypeOK, Archiving
<1>6. ASSUME NEW m \in DOMAIN buffers
      PROVE  IF Archiving(m)'
               THEN buffers'[m].id \in DOMAIN archive' /\ archive'[buffers'[m].id] = Batch(m)'
               ELSE buffers'[m].id \notin DOMAIN archive'
  <2>1. CASE m = n
    BY <1>1, <1>2, <1>5, <2>1 DEF IdInv
  <2>2. CASE m # n
    <3>1. buffers'[m] = buffers[m] /\ m \in Namespaces
      BY <1>1, <2>2 DEF BaseInv, TypeOK
    <3>2. Archiving(m)' = Archiving(m)
      BY <1>3, <1>4, <2>2, <3>1 DEF Archiving
    <3> QED
      BY <1>1, <3>1, <3>2 DEF IdInv, Batch
  <2> QED
    BY <2>1, <2>2
<1>7. \A m \in DOMAIN buffers : buffers'[m].id = buffers[m].id
  BY <1>1, <1>2
<1> QED
  BY <1>1, <1>6, <1>7 DEF IdInv

LEMMA IdArchive ==
  ASSUME BaseInv, IdInv, NEW t \in Txs, ArchiveBatch(t)
  PROVE  IdInv'
<1>0. PICK n : n = namespace[t]
  OBVIOUS
<1>1. /\ n \in DOMAIN buffers /\ n \in Namespaces /\ lock[n] = t
      /\ DOMAIN archive' = DOMAIN archive \cup {buffers[n].id}
      /\ archive'[buffers[n].id] = Batch(n)
      /\ \A i \in DOMAIN archive : i # buffers[n].id => archive'[i] = archive[i]
      /\ seal[t] = "full" /\ seal' = [seal EXCEPT ![t] = "archived"]
      /\ UNCHANGED <<namespace, buffers, lock>>
  BY <1>0, ArchiveValues
<1>2. n = namespace[t]
  BY <1>0
<1>3. seal'[t] = "archived" /\ \A u \in Txs : u # t => seal'[u] = seal[u]
  BY <1>1 DEF BaseInv, TypeOK
<1>4. Archiving(n)'
  BY <1>1, <1>3, FreeAssumption DEF Archiving
<1>5. ASSUME NEW m \in DOMAIN buffers
      PROVE  IF Archiving(m)'
               THEN buffers'[m].id \in DOMAIN archive' /\ archive'[buffers'[m].id] = Batch(m)'
               ELSE buffers'[m].id \notin DOMAIN archive'
  <2>1. CASE m = n
    BY <1>1, <1>4, <2>1 DEF Batch
  <2>2. CASE m # n
    <3>1. m \in Namespaces /\ lock[m] \in Txs \cup {Free} /\ buffers[m].id # buffers[n].id
      BY <1>1, <2>2 DEF BaseInv, TypeOK, IdInv
    <3>2. lock[m] # t
      BY <1>2, <2>2, <3>1, FreeAssumption DEF BaseInv, LockInv
    <3>3. Archiving(m)' = Archiving(m) /\ Batch(m)' = Batch(m)
      BY <1>1, <1>3, <3>1, <3>2 DEF Archiving, Batch
    <3> QED
      BY <1>1, <3>1, <3>3 DEF IdInv
  <2> QED
    BY <2>1, <2>2
<1> QED
  BY <1>1, <1>5 DEF IdInv

LEMMA IdAdvance ==
  ASSUME BaseInv, IdInv, NEW t \in Txs, Advance(t)
  PROVE  IdInv'
<1>0. PICK n : n = namespace[t]
  OBVIOUS
<1>1. /\ n \in DOMAIN buffers /\ n \in Namespaces /\ DOMAIN buffers' = DOMAIN buffers
      /\ \A m \in DOMAIN buffers : m # n => buffers'[m] = buffers[m]
      /\ buffers'[n] = [id |-> counter, parent |-> MarkleRoot(LeavesOf(buffers[n].txs)),
                        txs |-> <<>>]
      /\ lock[n] = t /\ seal[t] = "archived" /\ seal' = [seal EXCEPT ![t] = "sealed"]
      /\ lock' = [lock EXCEPT ![n] = Free] /\ archive' = archive
  BY <1>0, AdvanceValues
<1>2. n = namespace[t]
  BY <1>0
<1>3. /\ \A u \in Txs : u # t => seal'[u] = seal[u]
      /\ lock'[n] = Free /\ \A m \in Namespaces : m # n => lock'[m] = lock[m]
  BY <1>1 DEF BaseInv, TypeOK
<1>4. buffers'[n].id = counter /\ ~Archiving(n)' /\ counter \notin DOMAIN archive
      /\ \A m \in DOMAIN buffers : buffers[m].id # counter /\ m \in Namespaces
  BY <1>1, <1>3 DEF BaseInv, TypeOK, Archiving
<1>5. ASSUME NEW m \in DOMAIN buffers
      PROVE  IF Archiving(m)'
               THEN buffers'[m].id \in DOMAIN archive' /\ archive'[buffers'[m].id] = Batch(m)'
               ELSE buffers'[m].id \notin DOMAIN archive'
  <2>1. CASE m = n
    BY <1>1, <1>4, <2>1
  <2>2. CASE m # n
    <3>1. /\ m \in Namespaces /\ lock[m] \in Txs \cup {Free}
          /\ buffers'[m] = buffers[m] /\ lock'[m] = lock[m]
      BY <1>1, <1>3, <2>2 DEF BaseInv, TypeOK
    <3>2. lock[m] # t
      BY <1>2, <2>2, <3>1, FreeAssumption DEF BaseInv, LockInv
    <3>3. Archiving(m)' = Archiving(m) /\ Batch(m)' = Batch(m)
      BY <1>3, <3>1, <3>2 DEF Archiving, Batch
    <3> QED
      BY <1>1, <3>1, <3>3 DEF IdInv
  <2> QED
    BY <2>1, <2>2
<1>6. ASSUME NEW l \in DOMAIN buffers, NEW m \in DOMAIN buffers, buffers'[l].id = buffers'[m].id
      PROVE  l = m
  BY <1>1, <1>4, <1>6 DEF IdInv
<1> QED
  BY <1>1, <1>5, <1>6 DEF IdInv

LEMMA IdStep == BaseInv /\ IdInv /\ [Next]_vars => IdInv'
<1> SUFFICES ASSUME BaseInv, IdInv, [Next]_vars PROVE IdInv'
  OBVIOUS
<1>1. ASSUME NEW t \in Txs, SealThought(t) PROVE IdInv'
  BY <1>1, IdRead, IdEnter, IdPush, IdArchive, IdAdvance DEF SealThought
<1>2. ASSUME NEW c \in Clients, GenerateProof(c) \/ \E t \in Txs : AskProof(c, t)
      PROVE  IdInv'
  <2>1. UNCHANGED <<buffers, archive, lock, seal>>
    BY <1>2, ClientMoves
  <2> QED
    BY <2>1, IdAlone DEF Archiving
<1>3. CASE UNCHANGED vars
  BY <1>3, IdAlone DEF vars, Archiving
<1> QED
  BY <1>1, <1>2, <1>3 DEF Next

\* No step takes a batch out of the archive or changes it, and the ids of a
\* namespace only grow.
Grows ==
  /\ namespace' = namespace
  /\ \A i \in DOMAIN archive : i \in DOMAIN archive' /\ archive'[i] = archive[i]
  /\ \A n \in DOMAIN buffers : n \in DOMAIN buffers' /\ buffers[n].id <= buffers'[n].id

LEMMA IdsAreNat ==
  ASSUME BaseInv
  PROVE  /\ counter \in Nat
         /\ \A n \in DOMAIN buffers : buffers[n].id \in Nat /\ buffers[n].id <= counter
         /\ \A i \in DOMAIN archive : i \in Nat
BY DEF BaseInv, TypeOK

LEMMA StepGrows ==
  ASSUME BaseInv, IdInv, NEW t \in Txs, SealThought(t)
  PROVE  Grows
<1>0. PICK n : n = namespace[t]
  OBVIOUS
<1>1. /\ counter \in Nat
      /\ \A m \in DOMAIN buffers : buffers[m].id \in Nat /\ buffers[m].id <= counter
      /\ \A m \in DOMAIN buffers : buffers[m].id <= buffers[m].id
  BY IdsAreNat
<1>2. CASE ReadParent(t)
  BY <1>1, <1>2 DEF ReadParent, Grows
<1>3. CASE Locate(t)
  BY <1>1, <1>3 DEF Locate, Grows
<1>4. CASE EnterBuffer(t)
  <2>1. /\ namespace' = namespace /\ archive' = archive
        /\ DOMAIN buffers' = DOMAIN buffers \cup {n}
        /\ \A m \in DOMAIN buffers : buffers'[m] = buffers[m]
    BY <1>0, <1>4, EnterValues
  <2> QED
    BY <1>1, <2>1 DEF Grows
<1>5. CASE Push(t)
  <2>1. /\ namespace' = namespace /\ archive' = archive /\ DOMAIN buffers' = DOMAIN buffers
        /\ \A m \in DOMAIN buffers : m # n => buffers'[m] = buffers[m]
        /\ buffers'[n] = [id |-> buffers[n].id, parent |-> buffers[n].parent,
                          txs |-> Append(buffers[n].txs, t)]
    BY <1>0, <1>5, PushValues
  <2>2. \A m \in DOMAIN buffers : buffers'[m].id = buffers[m].id
    BY <2>1
  <2> QED
    BY <1>1, <2>1, <2>2 DEF Grows
<1>6. CASE ArchiveBatch(t)
  <2>1. /\ namespace' = namespace /\ buffers' = buffers /\ n \in DOMAIN buffers
        /\ DOMAIN archive' = DOMAIN archive \cup {buffers[n].id}
        /\ \A i \in DOMAIN archive : i # buffers[n].id => archive'[i] = archive[i]
        /\ lock[n] = t /\ seal[t] = "full"
    BY <1>0, <1>6, ArchiveValues
  <2>2. buffers[n].id \notin DOMAIN archive
    BY <2>1 DEF IdInv, Archiving
  <2> QED
    BY <1>1, <2>1, <2>2 DEF Grows
<1>7. CASE Advance(t)
  <2>1. /\ namespace' = namespace /\ archive' = archive /\ DOMAIN buffers' = DOMAIN buffers
        /\ \A m \in DOMAIN buffers : m # n => buffers'[m] = buffers[m]
        /\ buffers'[n] = [id |-> counter, parent |-> MarkleRoot(LeavesOf(buffers[n].txs)),
                          txs |-> <<>>]
    BY <1>0, <1>7, AdvanceValues
  <2>2. \A m \in DOMAIN buffers : m = n => buffers'[m].id = counter
    BY <2>1
  <2> QED
    BY <1>1, <2>1, <2>2 DEF Grows
<1> QED
  BY <1>2, <1>3, <1>4, <1>5, <1>6, <1>7 DEF SealThought

-----------------------------------------------------------------------------
(* The index.  A located thought is about to take the next place of the      *)
(* buffer; a pushed one is at its place in the batch with its id.            *)

Holds(txs, index, t) == index + 1 <= Len(txs) /\ txs[index + 1] = t

Placed(t) ==
  IF location[t][1] \in DOMAIN archive
    THEN Holds(archive[location[t][1]].txs, location[t][2], t)
    ELSE /\ buffers[namespace[t]].id = location[t][1]
         /\ Holds(buffers[namespace[t]].txs, location[t][2], t)

Pushed == {"full", "archived", "sealed"}

PlaceInv ==
  \A t \in Txs :
    /\ seal[t] = "located" =>
         /\ t \in DOMAIN location
         /\ location[t] = <<buffers[namespace[t]].id, Len(buffers[namespace[t]].txs)>>
    /\ seal[t] \in Pushed => t \in DOMAIN location /\ Placed(t)

LEMMA PlaceAlone ==
  ASSUME PlaceInv, UNCHANGED <<namespace, buffers, archive, location>>,
         \A t \in Txs : seal'[t] = seal[t] \/ seal'[t] \notin Pushed \cup {"located"}
  PROVE  PlaceInv'
BY DEF PlaceInv, Placed, Holds

\* Another thought of the namespace is not at the same time between Locate and Push.
LEMMA OneHolder ==
  ASSUME BaseInv, NEW t \in Txs, NEW u \in Txs, u # t, lock[namespace[t]] = t,
         namespace[u] = namespace[t]
  PROVE  seal[u] \notin Holding
BY DEF BaseInv, LockInv

LEMMA PlaceLocate ==
  ASSUME BaseInv, PlaceInv, NEW t \in Txs, Locate(t)
  PROVE  PlaceInv'
<1>0. PICK n : n = namespace[t]
  OBVIOUS
<1>1. /\ t \in DOMAIN location'
      /\ location'[t] = <<buffers[n].id, Len(buffers[n].txs)>>
      /\ \A u \in DOMAIN location : u \in DOMAIN location' /\ (u # t => location'[u] = location[u])
      /\ seal[t] = "entered" /\ seal' = [seal EXCEPT ![t] = "located"]
      /\ UNCHANGED <<namespace, buffers, archive>>
  BY <1>0, LocateValues
<1>2. seal'[t] = "located" /\ \A u \in Txs : u # t => seal'[u] = seal[u]
  BY <1>1 DEF BaseInv, TypeOK
<1>3. ASSUME NEW u \in Txs
      PROVE  /\ seal'[u] = "located" =>
                  /\ u \in DOMAIN location'
                  /\ location'[u] = <<buffers'[namespace'[u]].id, Len(buffers'[namespace'[u]].txs)>>
             /\ seal'[u] \in Pushed => u \in DOMAIN location' /\ Placed(u)'
  <2>1. CASE u = t
    BY <1>0, <1>1, <1>2, <2>1 DEF Pushed
  <2>2. CASE u # t
    BY <1>1, <1>2, <2>2 DEF PlaceInv, Placed, Pushed
  <2> QED
    BY <2>1, <2>2
<1> QED
  BY <1>3 DEF PlaceInv

LEMMA PlaceEnter ==
  ASSUME BaseInv, PlaceInv, NEW t \in Txs, EnterBuffer(t)
  PROVE  PlaceInv'
<1>0. PICK n : n = namespace[t]
  OBVIOUS
<1>1. /\ \A m \in DOMAIN buffers : buffers'[m] = buffers[m]
      /\ seal[t] = "linked" /\ seal' = [seal EXCEPT ![t] = "entered"]
      /\ UNCHANGED <<namespace, archive, location>>
  BY <1>0, EnterValues
<1>2. seal'[t] = "entered" /\ \A u \in Txs : u # t => seal'[u] = seal[u]
  BY <1>1 DEF BaseInv, TypeOK
<1>3. ASSUME NEW u \in Txs, seal'[u] \in Pushed \cup {"located"}
      PROVE  seal'[u] = seal[u] /\ buffers'[namespace[u]] = buffers[namespace[u]]
  <2>1. u # t /\ seal'[u] = seal[u]
    BY <1>2, <1>3 DEF Pushed
  <2>2. namespace[u] \in DOMAIN buffers
    BY <1>3, <2>1 DEF BaseInv, LockInv, Pushed
  <2> QED
    BY <1>1, <2>1, <2>2
<1> QED
  BY <1>1, <1>3 DEF PlaceInv, Placed

LEMMA PlacePush ==
  ASSUME BaseInv, IdInv, PlaceInv, NEW t \in Txs, Push(t)
  PROVE  PlaceInv'
<1>0. PICK n : n = namespace[t]
  OBVIOUS
<1> DEFINE old == buffers[n].txs
           new == Append(buffers[n].txs, t)
<1>1. /\ n \in DOMAIN buffers
      /\ \A m \in DOMAIN buffers : m # n => buffers'[m] = buffers[m]
      /\ buffers'[n] = [id |-> buffers[n].id, parent |-> buffers[n].parent, txs |-> new]
      /\ Len(old) \in Nat /\ Len(new) = Len(old) + 1
      /\ \A i \in 1..Len(old) : new[i] = old[i]
      /\ new[Len(old) + 1] = t
      /\ seal[t] = "located" /\ lock[n] = t
      /\ seal' = [seal EXCEPT ![t] = "full"] \/ seal' = [seal EXCEPT ![t] = "sealed"]
      /\ UNCHANGED <<namespace, archive, location>>
  BY <1>0, PushValues
<1>2. seal'[t] \in Pushed /\ \A u \in Txs : u # t => seal'[u] = seal[u]
  BY <1>1 DEF BaseInv, TypeOK, Pushed
<1>3. buffers'[n].id = buffers[n].id /\ buffers'[n].txs = new
  BY <1>1
<1>4. buffers[n].id \notin DOMAIN archive
  BY <1>1 DEF IdInv, Archiving
<1> HIDE DEF old, new
<1>5. t \in DOMAIN location' /\ Placed(t)'
  <2>1. t \in DOMAIN location /\ location[t] = <<buffers[n].id, Len(old)>>
    BY <1>0, <1>1 DEF PlaceInv, old
  <2>2. location'[t][1] = buffers[n].id /\ location'[t][2] = Len(old) /\ namespace'[t] = n
    BY <1>0, <1>1, <2>1
  <2>3. Holds(new, Len(old), t)
    BY <1>1 DEF Holds
  <2> QED
    BY <1>1, <1>3, <1>4, <2>1, <2>2, <2>3 DEF Placed
<1>6. ASSUME NEW u \in Txs, u # t
      PROVE  /\ seal'[u] = "located" =>
                  /\ u \in DOMAIN location'
                  /\ location'[u] = <<buffers'[namespace'[u]].id, Len(buffers'[namespace'[u]].txs)>>
             /\ seal'[u] \in Pushed => u \in DOMAIN location' /\ Placed(u)'
  <2>1. CASE namespace[u] = n
    <3>1. seal'[u] = seal[u] /\ seal[u] # "located"
      BY <1>0, <1>1, <1>2, <1>6, <2>1, OneHolder DEF Holding
    <3>2. ASSUME seal[u] \in Pushed PROVE u \in DOMAIN location' /\ Placed(u)'
      <4>1. u \in DOMAIN location /\ Placed(u) /\ location[u] \in Nat \X Nat
        BY <3>2 DEF PlaceInv, BaseInv, TypeOK
      <4>2. CASE location[u][1] \in DOMAIN archive
        BY <1>1, <4>1, <4>2 DEF Placed
      <4>3. CASE location[u][1] \notin DOMAIN archive
        <5>1. buffers[n].id = location[u][1] /\ Holds(old, location[u][2], u)
          BY <2>1, <4>1, <4>3 DEF Placed, old
        <5>2. location[u][2] \in Nat
          BY <4>1
        <5>3. Holds(new, location[u][2], u)
          BY <1>1, <5>1, <5>2 DEF Holds
        <5> QED
          BY <1>1, <1>3, <2>1, <4>1, <4>3, <5>1, <5>3 DEF Placed
      <4> QED
        BY <4>2, <4>3
    <3> QED
      BY <3>1, <3>2
  <2>2. CASE namespace[u] # n
    <3>1. seal'[u] \in Pushed \cup {"located"} => namespace[u] \in DOMAIN buffers
      BY <1>2, <1>6 DEF BaseInv, LockInv, Pushed
    <3>2. seal'[u] \in Pushed \cup {"located"} => buffers'[namespace[u]] = buffers[namespace[u]]
      BY <1>1, <2>2, <3>1
    <3> QED
      BY <1>1, <1>2, <1>6, <3>2 DEF PlaceInv, Placed
  <2> QED
    BY <2>1, <2>2
<1> QED
  BY <1>2, <1>5, <1>6 DEF PlaceInv, Pushed

LEMMA PlaceArchive ==
  ASSUME BaseInv, IdInv, PlaceInv, NEW t \in Txs, ArchiveBatch(t)
  PROVE  PlaceInv'
<1>0. PICK n : n = namespace[t]
  OBVIOUS
<1>1. /\ n \in DOMAIN buffers /\ lock[n] = t
      /\ DOMAIN archive' = DOMAIN archive \cup {buffers[n].id}
      /\ archive'[buffers[n].id] = Batch(n)
      /\ \A i \in DOMAIN archive : i # buffers[n].id => archive'[i] = archive[i]
      /\ seal[t] = "full" /\ seal' = [seal EXCEPT ![t] = "archived"]
      /\ UNCHANGED <<namespace, buffers, location>>
  BY <1>0, ArchiveValues
<1>2. /\ \A u \in Txs : (seal'[u] \in Pushed) = (seal[u] \in Pushed)
      /\ \A u \in Txs : (seal'[u] = "located") = (seal[u] = "located")
  BY <1>1 DEF BaseInv, TypeOK, Pushed
<1>3. buffers[n].id \notin DOMAIN archive /\ archive'[buffers[n].id].txs = buffers[n].txs
  BY <1>1 DEF IdInv, Archiving, Batch
<1>4. ASSUME NEW u \in Txs, seal[u] \in Pushed PROVE u \in DOMAIN location' /\ Placed(u)'
  <2>1. u \in DOMAIN location /\ Placed(u) /\ namespace[u] \in DOMAIN buffers
    BY <1>4 DEF PlaceInv, BaseInv, LockInv, Pushed
  <2>2. CASE location[u][1] \in DOMAIN archive
    BY <1>1, <1>3, <2>1, <2>2 DEF Placed
  <2>3. CASE location[u][1] \notin DOMAIN archive /\ location[u][1] = buffers[n].id
    <3>1. namespace[u] = n
      BY <1>1, <2>1, <2>3 DEF Placed, IdInv
    <3> QED
      BY <1>1, <1>3, <2>1, <2>3, <3>1 DEF Placed
  <2>4. CASE location[u][1] \notin DOMAIN archive /\ location[u][1] # buffers[n].id
    BY <1>1, <2>1, <2>4 DEF Placed
  <2> QED
    BY <2>2, <2>3, <2>4
<1> QED
  BY <1>1, <1>2, <1>4 DEF PlaceInv

LEMMA PlaceAdvance ==
  ASSUME BaseInv, IdInv, PlaceInv, NEW t \in Txs, Advance(t)
  PROVE  PlaceInv'
<1>0. PICK n : n = namespace[t]
  OBVIOUS
<1>1. /\ n \in DOMAIN buffers /\ lock[n] = t /\ seal[t] = "archived"
      /\ \A m \in DOMAIN buffers : m # n => buffers'[m] = buffers[m]
      /\ seal' = [seal EXCEPT ![t] = "sealed"]
      /\ namespace' = namespace /\ archive' = archive /\ location' = location
  <2>1. n \in DOMAIN buffers /\ lock[n] = t /\ seal[t] = "archived"
    BY <1>0 DEF Advance, BaseInv, LockInv, Holding
  <2>2. \A m \in DOMAIN buffers : m # n => buffers'[m] = buffers[m]
    BY <1>0 DEF Advance
  <2> QED
    BY <2>1, <2>2 DEF Advance
<1>2. /\ \A u \in Txs : (seal'[u] \in Pushed) = (seal[u] \in Pushed)
      /\ \A u \in Txs : (seal'[u] = "located") = (seal[u] = "located")
  BY <1>1 DEF BaseInv, TypeOK, Pushed
<1>3. buffers[n].id \in DOMAIN archive
  BY <1>1, FreeAssumption DEF IdInv, Archiving
<1>4. ASSUME NEW u \in Txs, seal[u] \in Pushed PROVE Placed(u)'
  <2>1. Placed(u) /\ namespace[u] \in DOMAIN buffers
    BY <1>4 DEF PlaceInv, BaseInv, LockInv, Pushed
  <2>2. CASE location[u][1] \in DOMAIN archive
    BY <1>1, <2>1, <2>2 DEF Placed
  <2>3. CASE location[u][1] \notin DOMAIN archive
    <3>1. namespace[u] # n
      BY <1>3, <2>1, <2>3 DEF Placed
    <3> QED
      BY <1>1, <2>1, <2>3, <3>1 DEF Placed
  <2> QED
    BY <2>2, <2>3
<1>5. ASSUME NEW u \in Txs, seal[u] = "located"
      PROVE  buffers'[namespace'[u]] = buffers[namespace[u]]
  <2>1. namespace[u] \in DOMAIN buffers /\ u # t
    BY <1>1, <1>5 DEF BaseInv, LockInv
  <2>2. namespace[u] # n
    BY <1>0, <1>1, <1>5, <2>1, OneHolder DEF Holding
  <2> QED
    BY <1>1, <2>1, <2>2
<1> QED
  BY <1>1, <1>2, <1>4, <1>5 DEF PlaceInv

LEMMA PlaceStep == BaseInv /\ IdInv /\ PlaceInv /\ [Next]_vars => PlaceInv'
<1> SUFFICES ASSUME BaseInv, IdInv, PlaceInv, [Next]_vars PROVE PlaceInv'
  OBVIOUS
<1>1. ASSUME NEW t \in Txs, ReadParent(t) PROVE PlaceInv'
  <2>1. /\ UNCHANGED <<namespace, buffers, archive, location>>
        /\ \A u \in Txs : seal'[u] = seal[u] \/ seal'[u] = "linked"
    BY <1>1 DEF ReadParent, BaseInv, TypeOK
  <2> QED
    BY <2>1, PlaceAlone DEF Pushed
<1>2. ASSUME NEW c \in Clients, GenerateProof(c) \/ \E t \in Txs : AskProof(c, t)
      PROVE  PlaceInv'
  BY <1>2, ClientMoves, PlaceAlone
<1>3. CASE UNCHANGED vars
  BY <1>3, PlaceAlone DEF vars
<1> QED
  BY <1>1, <1>2, <1>3, PlaceEnter, PlaceLocate, PlacePush, PlaceArchive, PlaceAdvance
  DEF Next, SealThought

(* The index points at its thought, in the archived batch it names or else   *)
(* in the active buffer with that id, whoever crystallizes the batch, and    *)
(* however many requests are between their steps (axon.rs 241-271).          *)
THEOREM IndexIsRight == Spec => []LocationIsRight
<1>1. Init => IdInv /\ PlaceInv
  BY DEF Init, NoBuffer, IdInv, PlaceInv, Pushed
<1>2. BaseInv /\ PlaceInv => LocationIsRight
  <2> SUFFICES ASSUME BaseInv, PlaceInv, NEW t \in Txs, seal[t] = "sealed"
               PROVE  IF location[t][1] \in DOMAIN archive
                        THEN Holds(archive[location[t][1]].txs, location[t][2], t)
                        ELSE \E n \in DOMAIN buffers :
                               /\ buffers[n].id = location[t][1]
                               /\ Holds(buffers[n].txs, location[t][2], t)
    BY DEF LocationIsRight, Holds
  <2>1. Placed(t) /\ namespace[t] \in DOMAIN buffers
    BY DEF PlaceInv, Pushed, BaseInv, LockInv
  <2> QED
    BY <2>1 DEF Placed
<1> QED
  BY <1>1, <1>2, BaseAtStart, BaseStep, IdStep, PlaceStep, PTL DEF Spec

-----------------------------------------------------------------------------
(* The chain.  The parent of a buffer is the root of an older batch of its   *)
(* namespace, and so is what a log is linked to.                             *)

Older(batches, root, n, id) ==
  \/ root = Zero
  \/ \E i \in DOMAIN batches :
       batches[i].namespace = n /\ batches[i].root = root /\ i < id

LEMMA OlderKept ==
  ASSUME NEW a, NEW b, \A i \in DOMAIN a : i \in Nat /\ i \in DOMAIN b /\ b[i] = a[i],
         NEW r, NEW n, NEW j \in Int, NEW k \in Int, j <= k, Older(a, r, n, j)
  PROVE  Older(b, r, n, k)
<1>1. CASE r = Zero
  BY <1>1 DEF Older
<1>2. CASE r # Zero
  <2>1. PICK i \in DOMAIN a : a[i].namespace = n /\ a[i].root = r /\ i < j
    BY <1>2 DEF Older
  <2>2. i < k
    BY <2>1
  <2> QED
    BY <2>1, <2>2 DEF Older
<1> QED
  BY <1>1, <1>2

ParentInv ==
  \A n \in DOMAIN buffers : Older(archive, buffers[n].parent, n, buffers[n].id)

LinkInv ==
  \A t \in Txs :
    /\ seal[t] \in {"linked", "entered"} =>
         \/ previous[t] = Zero
         \/ /\ namespace[t] \in DOMAIN buffers
            /\ Older(archive, previous[t], namespace[t], buffers[namespace[t]].id)
    /\ seal[t] \in Holding \cup {"sealed"} =>
         Older(archive, previous[t], namespace[t], location[t][1])

\* What grows keeps what was older older.
LEMMA OlderAfter ==
  ASSUME BaseInv, BaseInv', Grows
  PROVE  /\ \A r : \A n \in DOMAIN buffers :
              Older(archive, r, n, buffers[n].id) => Older(archive', r, n, buffers'[n].id)
         /\ \A r, n : \A j \in Nat : Older(archive, r, n, j) => Older(archive', r, n, j)
<1>1. \A i \in DOMAIN archive : i \in Nat /\ i \in DOMAIN archive' /\ archive'[i] = archive[i]
  BY IdsAreNat DEF Grows
<1>2. \A n \in DOMAIN buffers :
        buffers[n].id \in Int /\ buffers'[n].id \in Int /\ buffers[n].id <= buffers'[n].id
  <2>1. \A n \in DOMAIN buffers' : buffers'[n].id \in Int
    BY DEF BaseInv, TypeOK
  <2> QED
    BY <2>1, IdsAreNat DEF Grows
<1>3. ASSUME NEW r, NEW n \in DOMAIN buffers, Older(archive, r, n, buffers[n].id)
      PROVE  Older(archive', r, n, buffers'[n].id)
  BY <1>1, <1>2, <1>3, OlderKept
<1>4. ASSUME NEW r, NEW n, NEW j \in Nat, Older(archive, r, n, j)
      PROVE  Older(archive', r, n, j)
  <2>1. j \in Int /\ j <= j
    OBVIOUS
  <2> QED
    BY <1>1, <1>4, <2>1, OlderKept
<1> QED
  BY <1>3, <1>4

LEMMA ParentStep ==
  ASSUME BaseInv, BaseInv', IdInv, ParentInv, NEW t \in Txs, SealThought(t)
  PROVE  ParentInv'
<1>0. PICK n : n = namespace[t]
  OBVIOUS
<1>1. /\ Grows
      /\ \A r : \A m \in DOMAIN buffers :
           Older(archive, r, m, buffers[m].id) => Older(archive', r, m, buffers'[m].id)
  BY StepGrows, OlderAfter
<1>2. ASSUME DOMAIN buffers' = DOMAIN buffers,
             \A m \in DOMAIN buffers : buffers'[m].parent = buffers[m].parent
      PROVE  ParentInv'
  BY <1>1, <1>2 DEF ParentInv
<1>3. CASE ReadParent(t) \/ Locate(t) \/ ArchiveBatch(t)
  BY <1>2, <1>3 DEF ReadParent, Locate, ArchiveBatch
<1>4. CASE EnterBuffer(t)
  <2>1. /\ DOMAIN buffers' = DOMAIN buffers \cup {n}
        /\ \A m \in DOMAIN buffers : buffers'[m] = buffers[m]
        /\ n \notin DOMAIN buffers =>
             buffers'[n] = [id |-> counter, parent |-> Zero, txs |-> <<>>]
    BY <1>0, <1>4, EnterValues
  <2>2. n \notin DOMAIN buffers => buffers'[n].parent = Zero
    BY <2>1
  <2> QED
    BY <1>1, <2>1, <2>2 DEF ParentInv, Older
<1>5. CASE Push(t)
  <2>1. /\ DOMAIN buffers' = DOMAIN buffers
        /\ \A m \in DOMAIN buffers : m # n => buffers'[m] = buffers[m]
        /\ buffers'[n] = [id |-> buffers[n].id, parent |-> buffers[n].parent,
                          txs |-> Append(buffers[n].txs, t)]
    BY <1>0, <1>5, PushValues
  <2>2. \A m \in DOMAIN buffers : buffers'[m].parent = buffers[m].parent
    BY <2>1
  <2> QED
    BY <1>2, <2>1, <2>2
<1>6. CASE Advance(t)
  <2>1. /\ DOMAIN buffers' = DOMAIN buffers /\ n \in DOMAIN buffers
        /\ \A m \in DOMAIN buffers : m # n => buffers'[m] = buffers[m]
        /\ buffers'[n] = [id |-> counter, parent |-> MarkleRoot(LeavesOf(buffers[n].txs)),
                          txs |-> <<>>]
        /\ lock[n] = t /\ seal[t] = "archived" /\ archive' = archive
    BY <1>0, <1>6, AdvanceValues
  <2>2. /\ buffers[n].id \in DOMAIN archive /\ archive[buffers[n].id].namespace = n
        /\ archive[buffers[n].id].root = MarkleRoot(LeavesOf(buffers[n].txs))
    <3>1. buffers[n].id \in DOMAIN archive /\ archive[buffers[n].id] = Batch(n)
      BY <2>1, FreeAssumption DEF IdInv, Archiving
    <3> QED
      BY <3>1 DEF Batch
  <2>3. buffers'[n].id = counter /\ buffers'[n].parent = MarkleRoot(LeavesOf(buffers[n].txs))
    BY <2>1
  <2>4. buffers[n].id < counter
    BY <2>1 DEF BaseInv, TypeOK
  <2>5. Older(archive', buffers'[n].parent, n, buffers'[n].id)
    BY <2>1, <2>2, <2>3, <2>4 DEF Older
  <2>6. ASSUME NEW m \in DOMAIN buffers, m # n
        PROVE  Older(archive', buffers'[m].parent, m, buffers'[m].id)
    BY <2>1, <2>6 DEF ParentInv
  <2> QED
    BY <2>1, <2>5, <2>6 DEF ParentInv
<1> QED
  BY <1>3, <1>4, <1>5, <1>6 DEF SealThought

\* What one request is linked to, from one state to the next.
LEMMA LinkStep ==
  ASSUME BaseInv, BaseInv', IdInv, PlaceInv, ParentInv, LinkInv, NEW t \in Txs, SealThought(t)
  PROVE  LinkInv'
<1>0. PICK n : n = namespace[t]
  OBVIOUS
<1>1. /\ namespace' = namespace
      /\ \A m \in DOMAIN buffers : m \in DOMAIN buffers'
      /\ \A r : \A m \in DOMAIN buffers :
           Older(archive, r, m, buffers[m].id) => Older(archive', r, m, buffers'[m].id)
      /\ \A r, m : \A j \in Nat : Older(archive, r, m, j) => Older(archive', r, m, j)
  BY StepGrows, OlderAfter DEF Grows
<1>2. ASSUME NEW u \in Txs, seal[u] \in Holding \cup {"sealed"}
      PROVE  u \in DOMAIN location /\ location[u][1] \in Nat
  <2>1. u \in DOMAIN location
    BY <1>2 DEF PlaceInv, Holding, Pushed
  <2> QED
    BY <2>1 DEF BaseInv, TypeOK
<1>3. ASSUME NEW u \in Txs, previous'[u] = previous[u],
             \/ seal'[u] = seal[u]
             \/ seal[u] = "linked" /\ seal'[u] = "entered"
             \/ seal[u] \in Holding /\ seal'[u] \in Holding \cup {"sealed"},
             u \in DOMAIN location => location'[u] = location[u]
      PROVE  /\ seal'[u] \in {"linked", "entered"} =>
                  \/ previous'[u] = Zero
                  \/ /\ namespace'[u] \in DOMAIN buffers'
                     /\ Older(archive', previous'[u], namespace'[u], buffers'[namespace'[u]].id)
             /\ seal'[u] \in Holding \cup {"sealed"} =>
                  Older(archive', previous'[u], namespace'[u], location'[u][1])
  <2>1. ASSUME seal'[u] \in {"linked", "entered"}
        PROVE  \/ previous'[u] = Zero
               \/ /\ namespace'[u] \in DOMAIN buffers'
                  /\ Older(archive', previous'[u], namespace'[u], buffers'[namespace'[u]].id)
    <3>1. seal[u] \in {"linked", "entered"}
      BY <1>3, <2>1 DEF Holding
    <3> QED
      BY <1>1, <1>3, <3>1 DEF LinkInv
  <2>2. ASSUME seal'[u] \in Holding \cup {"sealed"}
        PROVE  Older(archive', previous'[u], namespace'[u], location'[u][1])
    <3>1. seal[u] \in Holding \cup {"sealed"}
      BY <1>3, <2>2 DEF Holding
    <3>2. /\ u \in DOMAIN location /\ location[u][1] \in Nat
          /\ Older(archive, previous[u], namespace[u], location[u][1])
      BY <1>2, <3>1 DEF LinkInv
    <3> QED
      BY <1>1, <1>3, <3>2
  <2> QED
    BY <2>1, <2>2
<1>4. CASE ReadParent(t)
  <2>1. /\ UNCHANGED <<buffers, archive, location>>
        /\ seal' = [seal EXCEPT ![t] = "linked"]
        /\ previous' = [previous EXCEPT ![t] = ParentOf(n)]
    BY <1>0, <1>4 DEF ReadParent
  <2>2. /\ seal'[t] = "linked" /\ previous'[t] = ParentOf(n)
        /\ \A u \in Txs : u # t => seal'[u] = seal[u] /\ previous'[u] = previous[u]
    BY <2>1 DEF BaseInv, TypeOK, Shape
  <2>3. \/ previous'[t] = Zero
        \/ n \in DOMAIN buffers' /\ Older(archive', previous'[t], n, buffers'[n].id)
    BY <2>1, <2>2 DEF ParentOf, ParentInv
  <2>4. ASSUME NEW u \in Txs, u # t
        PROVE  /\ seal'[u] \in {"linked", "entered"} =>
                    \/ previous'[u] = Zero
                    \/ /\ namespace'[u] \in DOMAIN buffers'
                       /\ Older(archive', previous'[u], namespace'[u], buffers'[namespace'[u]].id)
               /\ seal'[u] \in Holding \cup {"sealed"} =>
                    Older(archive', previous'[u], namespace'[u], location'[u][1])
    BY <1>3, <2>1, <2>2, <2>4
  <2> QED
    BY <1>0, <1>1, <2>2, <2>3, <2>4 DEF LinkInv, Holding
<1>5. CASE EnterBuffer(t)
  <2>1. seal[t] = "linked" /\ seal' = [seal EXCEPT ![t] = "entered"]
        /\ previous' = previous /\ location' = location
    BY <1>5 DEF EnterBuffer
  <2>2. seal'[t] = "entered" /\ \A u \in Txs : u # t => seal'[u] = seal[u]
    BY <2>1 DEF BaseInv, TypeOK
  <2> QED
    BY <1>3, <2>1, <2>2 DEF LinkInv
<1>6. CASE Locate(t)
  <2>1. /\ n \in DOMAIN buffers /\ location'[t] = <<buffers[n].id, Len(buffers[n].txs)>>
        /\ \A u \in DOMAIN location : u \in DOMAIN location' /\ (u # t => location'[u] = location[u])
        /\ seal[t] = "entered" /\ seal' = [seal EXCEPT ![t] = "located"]
        /\ UNCHANGED <<buffers, archive, previous>>
    BY <1>0, <1>6, LocateValues
  <2>2. seal'[t] = "located" /\ \A u \in Txs : u # t => seal'[u] = seal[u]
    BY <2>1 DEF BaseInv, TypeOK
  <2>3. Older(archive, previous[t], n, buffers[n].id)
    BY <1>0, <2>1 DEF LinkInv, Older
  <2>4. location'[t][1] = buffers[n].id
    BY <2>1
  <2>5. Older(archive', previous'[t], namespace'[t], location'[t][1])
    BY <1>0, <1>1, <2>1, <2>3, <2>4
  <2>6. ASSUME NEW u \in Txs, u # t
        PROVE  /\ seal'[u] \in {"linked", "entered"} =>
                    \/ previous'[u] = Zero
                    \/ /\ namespace'[u] \in DOMAIN buffers'
                       /\ Older(archive', previous'[u], namespace'[u], buffers'[namespace'[u]].id)
               /\ seal'[u] \in Holding \cup {"sealed"} =>
                    Older(archive', previous'[u], namespace'[u], location'[u][1])
    BY <1>3, <2>1, <2>2, <2>6
  <2> QED
    BY <2>2, <2>5, <2>6 DEF LinkInv
<1>7. CASE Push(t) \/ ArchiveBatch(t) \/ Advance(t)
  <2>1. /\ previous' = previous /\ location' = location /\ seal[t] \in Holding
        /\ \/ seal' = [seal EXCEPT ![t] = "full"] \/ seal' = [seal EXCEPT ![t] = "archived"]
           \/ seal' = [seal EXCEPT ![t] = "sealed"]
    <3>1. CASE Push(t)
      BY <1>0, <3>1, PushValues DEF Holding
    <3>2. CASE ArchiveBatch(t)
      BY <1>0, <3>2 DEF ArchiveBatch, Holding
    <3>3. CASE Advance(t)
      BY <1>0, <3>3 DEF Advance, Holding
    <3> QED
      BY <1>7, <3>1, <3>2, <3>3
  <2>2. seal'[t] \in Holding \cup {"sealed"} /\ \A u \in Txs : u # t => seal'[u] = seal[u]
    BY <2>1 DEF BaseInv, TypeOK, Holding
  <2> QED
    BY <1>3, <2>1, <2>2 DEF LinkInv
<1> QED
  BY <1>4, <1>5, <1>6, <1>7 DEF SealThought

LEMMA ChainStep ==
  BaseInv /\ BaseInv' /\ IdInv /\ PlaceInv /\ ParentInv /\ LinkInv /\ [Next]_vars
    => ParentInv' /\ LinkInv'
<1> SUFFICES ASSUME BaseInv, BaseInv', IdInv, PlaceInv, ParentInv, LinkInv, [Next]_vars
             PROVE  ParentInv' /\ LinkInv'
  OBVIOUS
<1>1. ASSUME UNCHANGED <<namespace, buffers, archive, location, seal, previous>>
      PROVE  ParentInv' /\ LinkInv'
  BY <1>1 DEF ParentInv, LinkInv
<1>2. CASE \E c \in Clients : GenerateProof(c) \/ \E t \in Txs : AskProof(c, t)
  BY <1>1, <1>2, ClientMoves
<1>3. CASE UNCHANGED vars
  BY <1>1, <1>3 DEF vars
<1> QED
  BY <1>2, <1>3, ParentStep, LinkStep DEF Next

(* A log is linked to the zero root or to a batch of its own namespace older *)
(* than its own, however its request and a crystallization interleave        *)
(* between the two locks (axon.rs 83-93, 254-268).                           *)
THEOREM LinksPointBack == Spec => []LinkedToThePast
<1>1. Init => IdInv /\ PlaceInv /\ ParentInv /\ LinkInv
  BY DEF Init, NoBuffer, IdInv, PlaceInv, Pushed, ParentInv, LinkInv, Holding
<1>2. LinkInv => LinkedToThePast
  BY DEF LinkInv, LinkedToThePast, Older, Archived
<1> QED
  BY <1>1, <1>2, BaseAtStart, BaseStep, IdStep, PlaceStep, ChainStep, PTL DEF Spec
-----------------------------------------------------------------------------
(* What is in a batch.  Every thought of a batch is indexed at its place in  *)
(* it, so no two batches share one, and an archived batch is full.           *)

Inside(index, stage, id, txs) ==
  \A j \in 1..Len(txs) :
    /\ txs[j] \in DOMAIN index /\ stage[txs[j]] \in Pushed
    /\ index[txs[j]] = <<id, j - 1>>

ContentInv ==
  /\ \A n \in DOMAIN buffers : Inside(location, seal, buffers[n].id, buffers[n].txs)
  /\ \A i \in DOMAIN archive :
       /\ Inside(location, seal, i, archive[i].txs)
       /\ Len(archive[i].txs) = Capacity
       /\ archive[i].root = MarkleRoot(LeavesOf(archive[i].txs))
  /\ \A t \in Txs : seal[t] = "full" => Len(buffers[namespace[t]].txs) = Capacity
  /\ \A t \in DOMAIN location : seal[t] \in Holding \cup {"sealed"}

LEMMA InsideKept ==
  ASSUME NEW a, NEW b, NEW s, NEW r, NEW id, NEW txs, Inside(a, s, id, txs),
         \A u \in DOMAIN a : s[u] \in Pushed =>
           u \in DOMAIN b /\ r[u] \in Pushed /\ b[u] = a[u]
  PROVE  Inside(b, r, id, txs)
BY DEF Inside

\* What a sealing step leaves: the stages of the others, the places of the pushed.
LEMMA SealKeeps ==
  ASSUME BaseInv, ContentInv, NEW t \in Txs, SealThought(t)
  PROVE  /\ \A u \in Txs : u # t => seal'[u] = seal[u]
         /\ \A u \in DOMAIN location : seal[u] \in Pushed =>
              u \in DOMAIN location' /\ seal'[u] \in Pushed /\ location'[u] = location[u]
         /\ \A u \in DOMAIN location' : seal'[u] \in Holding \cup {"sealed"}
<1>0. PICK n : n = namespace[t]
  OBVIOUS
<1>1. /\ DOMAIN location \subseteq Txs /\ DOMAIN seal = Txs
      /\ \A u \in DOMAIN location : seal[u] \in Holding \cup {"sealed"}
  BY DEF BaseInv, TypeOK, ContentInv
<1>2. CASE ReadParent(t) \/ EnterBuffer(t)
  <2>1. /\ location' = location
        /\ \/ seal[t] = "new" /\ seal' = [seal EXCEPT ![t] = "linked"]
           \/ seal[t] = "linked" /\ seal' = [seal EXCEPT ![t] = "entered"]
    BY <1>2 DEF ReadParent, EnterBuffer
  <2>2. t \notin DOMAIN location
    BY <1>1, <2>1 DEF Holding
  <2> QED
    BY <1>1, <2>1, <2>2
<1>3. CASE Locate(t)
  <2>1. location' = With(location, t, <<buffers[n].id, NextIndex(buffers[n])>>)
    BY <1>0, <1>3 DEF Locate
  <2> DEFINE y == <<buffers[n].id, NextIndex(buffers[n])>>
  <2> HIDE DEF y
  <2>2. /\ DOMAIN location' = DOMAIN location \cup {t}
        /\ \A u \in DOMAIN location : u # t => location'[u] = location[u]
    <3>1. location' = With(location, t, y)
      BY <2>1 DEF y
    <3> QED
      BY <3>1 DEF With
  <2>3. seal[t] = "entered" /\ seal' = [seal EXCEPT ![t] = "located"]
    BY <1>3 DEF Locate
  <2>4. t \notin DOMAIN location
    BY <1>1, <2>3 DEF Holding
  <2> QED
    BY <1>1, <2>2, <2>3, <2>4 DEF Holding
<1>4. CASE Push(t) \/ ArchiveBatch(t) \/ Advance(t)
  <2>1. /\ location' = location
        /\ \/ seal' = [seal EXCEPT ![t] = "full"] \/ seal' = [seal EXCEPT ![t] = "archived"]
           \/ seal' = [seal EXCEPT ![t] = "sealed"]
    <3>1. CASE Push(t)
      BY <1>0, <3>1, PushValues
    <3>2. CASE ArchiveBatch(t)
      BY <3>2 DEF ArchiveBatch
    <3>3. CASE Advance(t)
      BY <3>3 DEF Advance
    <3> QED
      BY <1>4, <3>1, <3>2, <3>3
  <2> QED
    BY <1>1, <2>1 DEF Pushed, Holding
<1> QED
  BY <1>2, <1>3, <1>4 DEF SealThought

\* The batches that stay as they are keep their content.
LEMMA ContentKept ==
  ASSUME BaseInv, ContentInv, NEW t \in Txs, SealThought(t)
  PROVE  \A id, txs : Inside(location, seal, id, txs) => Inside(location', seal', id, txs)
<1>1. \A u \in DOMAIN location : seal[u] \in Pushed =>
        u \in DOMAIN location' /\ seal'[u] \in Pushed /\ location'[u] = location[u]
  BY SealKeeps
<1> QED
  BY <1>1, InsideKept

LEMMA ContentSeal ==
  ASSUME BaseInv, BaseInv', IdInv, PlaceInv, ContentInv, NEW t \in Txs, SealThought(t)
  PROVE  ContentInv'
<1>0. PICK n : n = namespace[t]
  OBVIOUS
<1>1. /\ \A u \in Txs : u # t => seal'[u] = seal[u]
      /\ \A u \in DOMAIN location' : seal'[u] \in Holding \cup {"sealed"}
      /\ \A id, txs : Inside(location, seal, id, txs) => Inside(location', seal', id, txs)
  BY SealKeeps, ContentKept
<1>2. seal \in [Txs -> {"new", "linked", "entered", "located", "full", "archived", "sealed"}]
  BY DEF BaseInv, TypeOK
<1>3. CASE ReadParent(t) \/ Locate(t)
  <2>1. /\ UNCHANGED <<namespace, buffers, archive>> /\ seal'[t] # "full"
    BY <1>2, <1>3 DEF ReadParent, Locate
  <2> QED
    BY <1>1, <2>1 DEF ContentInv
<1>4. CASE EnterBuffer(t)
  <2>1. /\ DOMAIN buffers' = DOMAIN buffers \cup {n}
        /\ \A m \in DOMAIN buffers : buffers'[m] = buffers[m]
        /\ n \notin DOMAIN buffers =>
             buffers'[n] = [id |-> counter, parent |-> Zero, txs |-> <<>>]
        /\ seal' = [seal EXCEPT ![t] = "entered"]
        /\ UNCHANGED <<namespace, archive>>
    BY <1>0, <1>4, EnterValues
  <2>2. n \notin DOMAIN buffers => Inside(location', seal', buffers'[n].id, buffers'[n].txs)
    BY <2>1, LenEmpty DEF Inside
  <2>3. \A m \in DOMAIN buffers' : Inside(location', seal', buffers'[m].id, buffers'[m].txs)
    BY <1>1, <2>1, <2>2 DEF ContentInv
  <2>4. \A u \in Txs : seal'[u] = "full" =>
          seal[u] = "full" /\ buffers'[namespace'[u]] = buffers[namespace[u]]
    BY <1>1, <1>2, <2>1 DEF BaseInv, LockInv
  <2>5. \A i \in DOMAIN archive' :
          /\ Inside(location', seal', i, archive'[i].txs)
          /\ Len(archive'[i].txs) = Capacity
          /\ archive'[i].root = MarkleRoot(LeavesOf(archive'[i].txs))
    BY <1>1, <2>1 DEF ContentInv
  <2>6. \A u \in Txs : seal'[u] = "full" => Len(buffers'[namespace'[u]].txs) = Capacity
    <3>1. \A u \in Txs : seal[u] = "full" => Len(buffers[namespace[u]].txs) = Capacity
      BY DEF ContentInv
    <3> QED
      BY <2>4, <3>1
  <2> QED
    BY <1>1, <2>3, <2>5, <2>6 DEF ContentInv
<1>5. CASE Push(t)
  <2> DEFINE old == buffers[n].txs
             txs == Append(old, t)
  <2>1. /\ n \in DOMAIN buffers /\ DOMAIN buffers' = DOMAIN buffers
        /\ \A m \in DOMAIN buffers : m # n => buffers'[m] = buffers[m]
        /\ buffers'[n] = [id |-> buffers[n].id, parent |-> buffers[n].parent, txs |-> txs]
        /\ Len(old) \in Nat /\ Len(txs) = Len(old) + 1
        /\ \A i \in 1..Len(old) : txs[i] = old[i]
        /\ txs[Len(old) + 1] = t
        /\ seal[t] = "located" /\ lock[n] = t
        /\ Full(txs) \/ (~Full(txs) /\ seal' = [seal EXCEPT ![t] = "sealed"])
        /\ seal' = [seal EXCEPT ![t] = "full"] \/ seal' = [seal EXCEPT ![t] = "sealed"]
        /\ UNCHANGED <<namespace, archive, location>>
    BY <1>0, <1>5, PushValues
  <2>2. buffers'[n].id = buffers[n].id /\ buffers'[n].txs = txs
    BY <2>1
  <2>3. t \in DOMAIN location /\ location[t] = <<buffers[n].id, Len(old)>> /\ seal'[t] \in Pushed
    BY <1>0, <1>2, <2>1 DEF PlaceInv, Pushed
  <2>4. Inside(location', seal', buffers[n].id, old)
    BY <1>1, <2>1 DEF ContentInv
  <2> HIDE DEF txs
  <2> HIDE DEF old
  <2>5. Inside(location', seal', buffers[n].id, txs)
    <3> SUFFICES ASSUME NEW j \in 1..Len(txs)
                 PROVE  /\ txs[j] \in DOMAIN location' /\ seal'[txs[j]] \in Pushed
                        /\ location'[txs[j]] = <<buffers[n].id, j - 1>>
      BY DEF Inside
    <3>1. CASE j \in 1..Len(old)
      BY <2>1, <2>4, <3>1 DEF Inside
    <3>2. CASE j = Len(old) + 1
      BY <2>1, <2>3, <3>2
    <3> QED
      BY <2>1, <3>1, <3>2
  <2>6. \A m \in DOMAIN buffers' : Inside(location', seal', buffers'[m].id, buffers'[m].txs)
    BY <1>1, <2>1, <2>2, <2>5 DEF ContentInv
  <2>7. ASSUME NEW u \in Txs, seal'[u] = "full"
        PROVE  Len(buffers'[namespace'[u]].txs) = Capacity
    <3>1. CASE u = t
      <4>1. Full(txs)
        BY <1>2, <2>1, <2>7, <3>1
      <4>2. Len(txs) <= Capacity
        BY <2>1, <2>2 DEF BaseInv, TypeOK
      <4> QED
        BY <1>0, <2>1, <2>2, <3>1, <4>1, <4>2, CapacityAssumption DEF Full
    <3>2. CASE u # t
      <4>1. seal[u] = "full" /\ namespace[u] \in DOMAIN buffers
        BY <1>1, <2>7, <3>2 DEF BaseInv, LockInv
      <4>2. namespace[u] # n
        BY <1>0, <2>1, <3>2, <4>1, OneHolder DEF Holding
      <4> QED
        BY <2>1, <4>1, <4>2 DEF ContentInv
    <3> QED
      BY <3>1, <3>2
  <2> QED
    BY <1>1, <2>1, <2>6, <2>7 DEF ContentInv
<1>6. CASE ArchiveBatch(t)
  <2>1. /\ n \in DOMAIN buffers
        /\ DOMAIN archive' = DOMAIN archive \cup {buffers[n].id}
        /\ archive'[buffers[n].id] = Batch(n)
        /\ \A i \in DOMAIN archive : i # buffers[n].id => archive'[i] = archive[i]
        /\ seal[t] = "full" /\ seal' = [seal EXCEPT ![t] = "archived"]
        /\ UNCHANGED <<namespace, buffers, location>>
    BY <1>0, <1>6, ArchiveValues
  <2>2. /\ archive'[buffers[n].id].txs = buffers[n].txs
        /\ archive'[buffers[n].id].root = MarkleRoot(LeavesOf(buffers[n].txs))
    BY <2>1 DEF Batch
  <2>3. Len(buffers[n].txs) = Capacity
    BY <1>0, <2>1 DEF ContentInv
  <2>4. ASSUME NEW i \in DOMAIN archive'
        PROVE  /\ Inside(location', seal', i, archive'[i].txs)
               /\ Len(archive'[i].txs) = Capacity
               /\ archive'[i].root = MarkleRoot(LeavesOf(archive'[i].txs))
    <3>1. CASE i = buffers[n].id
      BY <1>1, <2>1, <2>2, <2>3, <3>1 DEF ContentInv
    <3>2. CASE i # buffers[n].id
      BY <1>1, <2>1, <3>2 DEF ContentInv
    <3> QED
      BY <3>1, <3>2
  <2>5. \A m \in DOMAIN buffers' : Inside(location', seal', buffers'[m].id, buffers'[m].txs)
    BY <1>1, <2>1 DEF ContentInv
  <2>6. \A u \in Txs : seal'[u] = "full" => seal[u] = "full"
    BY <1>2, <2>1
  <2> QED
    BY <1>1, <2>1, <2>4, <2>5, <2>6 DEF ContentInv
<1>7. CASE Advance(t)
  <2>1. /\ n \in DOMAIN buffers /\ DOMAIN buffers' = DOMAIN buffers
        /\ \A m \in DOMAIN buffers : m # n => buffers'[m] = buffers[m]
        /\ buffers'[n] = [id |-> counter, parent |-> MarkleRoot(LeavesOf(buffers[n].txs)),
                          txs |-> <<>>]
        /\ lock[n] = t /\ seal' = [seal EXCEPT ![t] = "sealed"]
        /\ UNCHANGED <<namespace, archive, location>>
    BY <1>0, <1>7, AdvanceValues
  <2>2. Inside(location', seal', buffers'[n].id, buffers'[n].txs)
    BY <2>1, LenEmpty DEF Inside
  <2>3. \A m \in DOMAIN buffers' : Inside(location', seal', buffers'[m].id, buffers'[m].txs)
    BY <1>1, <2>1, <2>2 DEF ContentInv
  <2>4. ASSUME NEW u \in Txs, seal'[u] = "full"
        PROVE  Len(buffers'[namespace'[u]].txs) = Capacity
    <3>1. u # t /\ seal[u] = "full" /\ namespace[u] \in DOMAIN buffers
      BY <1>1, <1>2, <2>1, <2>4 DEF BaseInv, LockInv
    <3>2. namespace[u] # n
      BY <1>0, <2>1, <3>1, OneHolder DEF Holding
    <3> QED
      BY <2>1, <3>1, <3>2 DEF ContentInv
  <2> QED
    BY <1>1, <2>1, <2>3, <2>4 DEF ContentInv
<1> QED
  BY <1>3, <1>4, <1>5, <1>6, <1>7 DEF SealThought

LEMMA ContentStep ==
  BaseInv /\ BaseInv' /\ IdInv /\ PlaceInv /\ ContentInv /\ [Next]_vars => ContentInv'
<1> SUFFICES ASSUME BaseInv, BaseInv', IdInv, PlaceInv, ContentInv, [Next]_vars
             PROVE  ContentInv'
  OBVIOUS
<1>1. ASSUME UNCHANGED <<namespace, buffers, archive, location, seal>>
      PROVE  ContentInv'
  BY <1>1 DEF ContentInv
<1>2. CASE \E c \in Clients : GenerateProof(c) \/ \E t \in Txs : AskProof(c, t)
  BY <1>1, <1>2, ClientMoves
<1>3. CASE UNCHANGED vars
  BY <1>1, <1>3 DEF vars
<1> QED
  BY <1>2, <1>3, ContentSeal DEF Next

-----------------------------------------------------------------------------
(* One chain.  The batches of a namespace are links from the zero root to a  *)
(* tip: the parent of its buffer, or, between archiving and the next buffer, *)
(* the root just archived.                                                   *)

Roots(A, batches)   == {batches[i].root : i \in A}
Parents(A, batches) == {batches[i].parent : i \in A}

Links(A, batches, tip) ==
  /\ \A i \in A : batches[i].parent # tip /\ batches[i].root # Zero
  /\ \A i, j \in A : batches[i].root = batches[j].root => i = j
  /\ \A i, j \in A : batches[i].parent = batches[j].parent => i = j
  /\ Parents(A, batches) \cup {tip} = Roots(A, batches) \cup {Zero}

Tip(n) == IF Archiving(n) THEN archive[buffers[n].id].root ELSE ParentOf(n)

TipInv == \A n \in Namespaces : Links(Archived(n), archive, Tip(n))

\* A batch that descends from the tip and whose root is new is the next link.
LEMMA NextLink ==
  ASSUME NEW A, NEW a, NEW b, NEW tip, NEW id, Links(A, a, tip), id \notin A,
         \A i \in A : b[i] = a[i],
         b[id].parent = tip, b[id].root # Zero, \A i \in A : a[i].root # b[id].root
  PROVE  Links(A \cup {id}, b, b[id].root)
<1>1. /\ Parents(A \cup {id}, b) = Parents(A, a) \cup {tip}
      /\ Roots(A \cup {id}, b) = Roots(A, a) \cup {b[id].root}
  BY DEF Parents, Roots
<1>2. Parents(A, a) \cup {tip} = Roots(A, a) \cup {Zero}
  BY DEF Links
<1>3. b[id].root \notin Roots(A, a) \cup {Zero}
  BY DEF Roots
<1>4. \A i \in A \cup {id} : b[i].parent # b[id].root /\ b[i].root # Zero
  <2>1. \A i \in A : b[i].parent \in Parents(A, a) /\ b[i].root # Zero
    BY DEF Parents, Links
  <2>2. b[id].parent # b[id].root
    BY <1>2, <1>3
  <2> QED
    BY <1>2, <1>3, <2>1, <2>2
<1>5. /\ \A i, j \in A \cup {id} : b[i].root = b[j].root => i = j
      /\ \A i, j \in A \cup {id} : b[i].parent = b[j].parent => i = j
  BY DEF Links
<1>6. Parents(A \cup {id}, b) \cup {b[id].root} = Roots(A \cup {id}, b) \cup {Zero}
  BY <1>1, <1>2
<1> QED
  BY <1>4, <1>5, <1>6 DEF Links

LEMMA SameLinks ==
  ASSUME NEW A, NEW a, NEW b, NEW tip, Links(A, a, tip), \A i \in A : b[i] = a[i]
  PROVE  Links(A, b, tip)
<1>1. Parents(A, b) = Parents(A, a) /\ Roots(A, b) = Roots(A, a)
  BY DEF Parents, Roots
<1> QED
  BY <1>1 DEF Links

\* A chain has as many roots, and as many parents, as links.
LEMMA LinksCounted ==
  ASSUME NEW A, NEW a, NEW tip, Links(A, a, tip), IsFiniteSet(A)
  PROVE  Cardinality(Roots(A, a)) = Cardinality(A) /\ Cardinality(Parents(A, a)) = Cardinality(A)
<1>1. ASSUME NEW f, NEW T, f \in [A -> T], \A i, j \in A : f[i] = f[j] => i = j,
             \A x \in T : \E i \in A : f[i] = x
      PROVE  Cardinality(T) = Cardinality(A)
  <2>1. f \in Bijection(A, T)
    BY <1>1, Fun_IsBij
  <2> QED
    BY <2>1, Fun_ExistsBij, FS_Bijection
<1>2. Cardinality(Roots(A, a)) = Cardinality(A)
  <2> DEFINE f == [i \in A |-> a[i].root]
  <2>1. /\ f \in [A -> Roots(A, a)] /\ \A i, j \in A : f[i] = f[j] => i = j
        /\ \A x \in Roots(A, a) : \E i \in A : f[i] = x
    BY DEF Links, Roots
  <2> HIDE DEF f
  <2> QED
    BY <1>1, <2>1
<1>3. Cardinality(Parents(A, a)) = Cardinality(A)
  <2> DEFINE f == [i \in A |-> a[i].parent]
  <2>1. /\ f \in [A -> Parents(A, a)] /\ \A i, j \in A : f[i] = f[j] => i = j
        /\ \A x \in Parents(A, a) : \E i \in A : f[i] = x
    BY DEF Links, Parents
  <2> HIDE DEF f
  <2> QED
    BY <1>1, <2>1
<1> QED
  BY <1>2, <1>3

LEMMA LeavesOfList ==
  ASSUME NEW T, NEW txs \in Seq(T)
  PROVE  /\ LeavesOf(txs) \in Seq({Leaf(t) : t \in T}) /\ Len(LeavesOf(txs)) = Len(txs)
         /\ \A i \in 1..Len(txs) : LeavesOf(txs)[i] = Leaf(txs[i])
         /\ Len(txs) # 0 => LeavesOf(txs) # <<>>
<1>1. Len(txs) \in Nat /\ \A i \in 1..Len(txs) : txs[i] \in T
  BY LenProperties, ElementOfSeq
<1>2. LeavesOf(txs) \in [1..Len(txs) -> {Leaf(t) : t \in T}]
  BY <1>1 DEF LeavesOf
<1>3. LeavesOf(txs) \in Seq({Leaf(t) : t \in T})
  BY <1>1, <1>2, SeqDef
<1>4. Len(LeavesOf(txs)) = Len(txs)
  BY <1>1, <1>2, <1>3, LenProperties
<1>5. \A i \in 1..Len(txs) : LeavesOf(txs)[i] = Leaf(txs[i])
  BY DEF LeavesOf
<1> QED
  BY <1>3, <1>4, <1>5, EmptySeq

LEMMA LeafApart == \A t, u : Leaf(t) # Zero /\ (Leaf(t) = Leaf(u) => t = u)
<1>1. \A t : Leaf(t).kind = "leaf" /\ Leaf(t).of = t
  BY DEF Leaf
<1>2. Zero.kind = "zero"
  BY DEF Zero
<1> QED
  BY <1>1, <1>2

\* No archived batch has the root of a full buffer that is not yet archived.
LEMMA RootIsNew ==
  ASSUME BaseInv, ContentInv, NEW n \in DOMAIN buffers, Len(buffers[n].txs) = Capacity,
         buffers[n].id \notin DOMAIN archive
  PROVE  /\ MarkleRoot(LeavesOf(buffers[n].txs)) # Zero
         /\ \A i \in DOMAIN archive : archive[i].root # MarkleRoot(LeavesOf(buffers[n].txs))
<1> DEFINE new == buffers[n].txs
           S == {Leaf(t) : t \in Txs}
<1>1. new \in Seq(Txs) /\ Capacity \in Nat /\ Capacity # 0
  BY CapacityAssumption DEF BaseInv, TypeOK
<1>2. /\ LeavesOf(new) \in Seq(S) /\ Len(LeavesOf(new)) = Len(new) /\ LeavesOf(new) # <<>>
      /\ \A j \in 1..Len(new) : LeavesOf(new)[j] = Leaf(new[j])
  BY <1>1, LeavesOfList
<1>3. MarkleRoot(LeavesOf(new)) # Zero
  <2>1. \A j \in 1..Len(LeavesOf(new)) : LeavesOf(new)[j] # Zero
    BY <1>2, LeafApart
  <2> HIDE DEF S, new
  <2> QED
    BY <1>2, <2>1, RootIsNotZero
<1>4. ASSUME NEW i \in DOMAIN archive, archive[i].root = MarkleRoot(LeavesOf(new))
      PROVE  FALSE
  <2> DEFINE old == archive[i].txs
  <2>1. old \in Seq(Txs) /\ Len(old) = Capacity /\ MarkleRoot(LeavesOf(old)) = MarkleRoot(LeavesOf(new))
    BY <1>4 DEF BaseInv, TypeOK, ContentInv
  <2>2. /\ LeavesOf(old) \in Seq(S) /\ Len(LeavesOf(old)) = Len(old) /\ LeavesOf(old) # <<>>
        /\ \A j \in 1..Len(old) : LeavesOf(old)[j] = Leaf(old[j])
    BY <1>1, <2>1, LeavesOfList
  <2>3. Inside(location, seal, i, old) /\ Inside(location, seal, buffers[n].id, new)
    BY DEF ContentInv
  <2>4. Len(new) = Capacity
    OBVIOUS
  <2> HIDE DEF S, new, old
  <2>5. LeavesOf(old) = LeavesOf(new)
    BY <1>2, <2>1, <2>2, <2>4, RootDeterminesLeaves
  <2>6. old[1] = new[1] /\ 1 \in 1..Len(old) /\ 1 \in 1..Len(new)
    BY <1>1, <1>2, <2>1, <2>2, <2>4, <2>5, LeafApart
  <2>7. <<i, 0>> = <<buffers[n].id, 0>>
    BY <2>3, <2>6 DEF Inside
  <2> QED
    BY <2>7
<1> QED
  BY <1>3, <1>4

\* Before it archives and after it has advanced, a request leaves it open which
\* buffers are between the two.
LEMMA ArchivingKept ==
  ASSUME BaseInv, NEW t \in Txs, ReadParent(t) \/ EnterBuffer(t) \/ Locate(t) \/ Push(t)
  PROVE  \A m \in Namespaces : Archiving(m)' = Archiving(m)
<1>0. PICK n : n = namespace[t]
  OBVIOUS
<1>1. /\ seal \in [Txs -> {"new", "linked", "entered", "located", "full", "archived", "sealed"}]
      /\ lock \in [Namespaces -> Txs \cup {Free}] /\ n \in Namespaces
  BY <1>0 DEF BaseInv, TypeOK
<1>2. /\ seal[t] # "archived"
      /\ \E s : s # "archived" /\ seal' = [seal EXCEPT ![t] = s]
      /\ \/ lock' = lock
         \/ lock[n] = Free /\ lock' = [lock EXCEPT ![n] = t]
         \/ lock[n] = t /\ \E l \in {t, Free} : lock' = [lock EXCEPT ![n] = l]
  <2>1. CASE ReadParent(t) \/ EnterBuffer(t)
    BY <1>0, <2>1 DEF ReadParent, EnterBuffer
  <2>2. CASE Locate(t)
    BY <1>0, <2>2 DEF Locate
  <2>3. CASE Push(t)
    <3>1. lock[n] = t
      BY <1>0, <2>3 DEF Push, BaseInv, LockInv, Holding
    <3> DEFINE full == Full(Append(buffers[n].txs, t))
    <3>2. /\ seal[t] = "located"
          /\ seal' = [seal EXCEPT ![t] = IF full THEN "full" ELSE "sealed"]
          /\ lock' = [lock EXCEPT ![n] = IF full THEN t ELSE Free]
      BY <1>0, <2>3 DEF Push
    <3> HIDE DEF full
    <3> QED
      BY <3>1, <3>2
  <2> QED
    BY <2>1, <2>2, <2>3
<1>3. seal'[t] # "archived" /\ \A u \in Txs : u # t => seal'[u] = seal[u]
  BY <1>1, <1>2
<1>4. ASSUME NEW m \in Namespaces
      PROVE  \/ lock'[m] = lock[m]
             \/ lock[m] \in {t, Free} /\ lock'[m] \in {t, Free}
  BY <1>1, <1>2
<1> QED
  BY <1>1, <1>2, <1>3, <1>4 DEF Archiving

\* Whoever archives holds the lock, in a namespace that has its buffer.
LEMMA ArchivingHolds ==
  ASSUME BaseInv, NEW n \in Namespaces, Archiving(n)
  PROVE  n \in DOMAIN buffers
BY DEF BaseInv, TypeOK, LockInv, Archiving

LEMMA TipAlone ==
  ASSUME TipInv, UNCHANGED archive, \A n \in Namespaces : Tip(n)' = Tip(n)
  PROVE  TipInv'
BY DEF TipInv, Archived

LEMMA TipQuiet ==
  ASSUME BaseInv, TipInv, NEW t \in Txs,
         ReadParent(t) \/ EnterBuffer(t) \/ Locate(t) \/ Push(t)
  PROVE  TipInv'
<1>0. PICK n : n = namespace[t]
  OBVIOUS
<1>1. \A m \in Namespaces : Archiving(m)' = Archiving(m)
  BY ArchivingKept
<1>2. /\ UNCHANGED archive
      /\ \A m \in DOMAIN buffers :
           /\ m \in DOMAIN buffers'
           /\ buffers'[m].id = buffers[m].id /\ buffers'[m].parent = buffers[m].parent
      /\ \A m \in DOMAIN buffers' \ DOMAIN buffers : buffers'[m].parent = Zero
  <2>1. CASE ReadParent(t) \/ Locate(t)
    BY <2>1 DEF ReadParent, Locate
  <2>2. CASE EnterBuffer(t)
    <3>1. /\ DOMAIN buffers' = DOMAIN buffers \cup {n} /\ archive' = archive
          /\ \A m \in DOMAIN buffers : buffers'[m] = buffers[m]
          /\ n \notin DOMAIN buffers =>
               buffers'[n] = [id |-> counter, parent |-> Zero, txs |-> <<>>]
      BY <1>0, <2>2, EnterValues
    <3>2. n \notin DOMAIN buffers => buffers'[n].parent = Zero
      BY <3>1
    <3> QED
      BY <3>1, <3>2
  <2>3. CASE Push(t)
    <3>1. /\ archive' = archive /\ DOMAIN buffers' = DOMAIN buffers
          /\ \A m \in DOMAIN buffers : m # n => buffers'[m] = buffers[m]
          /\ buffers'[n] = [id |-> buffers[n].id, parent |-> buffers[n].parent,
                            txs |-> Append(buffers[n].txs, t)]
      BY <1>0, <2>3, PushValues
    <3>2. buffers'[n].id = buffers[n].id /\ buffers'[n].parent = buffers[n].parent
      BY <3>1
    <3> QED
      BY <3>1, <3>2
  <2> QED
    BY <2>1, <2>2, <2>3
<1>3. ASSUME NEW m \in Namespaces PROVE Tip(m)' = Tip(m)
  <2>1. Archiving(m) => m \in DOMAIN buffers
    BY ArchivingHolds
  <2>2. ParentOf(m)' = ParentOf(m)
    BY <1>2 DEF ParentOf
  <2> QED
    BY <1>1, <1>2, <2>1, <2>2 DEF Tip
<1> QED
  BY <1>2, <1>3, TipAlone

LEMMA TipArchive ==
  ASSUME BaseInv, IdInv, ContentInv, TipInv, NEW t \in Txs, ArchiveBatch(t)
  PROVE  TipInv'
<1>0. PICK n : n = namespace[t]
  OBVIOUS
<1>1. /\ n \in DOMAIN buffers /\ n \in Namespaces /\ lock[n] = t
      /\ DOMAIN archive' = DOMAIN archive \cup {buffers[n].id}
      /\ archive'[buffers[n].id] = Batch(n)
      /\ \A i \in DOMAIN archive : i # buffers[n].id => archive'[i] = archive[i]
      /\ seal[t] = "full" /\ seal' = [seal EXCEPT ![t] = "archived"]
      /\ UNCHANGED <<namespace, buffers, lock>>
  BY <1>0, ArchiveValues
<1>2. PICK id : id = buffers[n].id
  OBVIOUS
<1>3. /\ archive'[id].namespace = n /\ archive'[id].parent = buffers[n].parent
      /\ archive'[id].root = MarkleRoot(LeavesOf(buffers[n].txs))
  BY <1>1, <1>2 DEF Batch
<1>4. /\ seal \in [Txs -> {"new", "linked", "entered", "located", "full", "archived", "sealed"}]
      /\ lock \in [Namespaces -> Txs \cup {Free}]
      /\ \A m \in Namespaces : lock[m] # Free => namespace[lock[m]] = m
  BY DEF BaseInv, TypeOK, LockInv
<1>5. seal'[t] = "archived" /\ \A u \in Txs : u # t => seal'[u] = seal[u]
  BY <1>1, <1>4
<1>6. ~Archiving(n) /\ Archiving(n)'
  BY <1>1, <1>5, FreeAssumption DEF Archiving
<1>7. id \notin DOMAIN archive /\ \A i \in DOMAIN archive : archive'[i] = archive[i]
  BY <1>1, <1>2, <1>6 DEF IdInv
<1>8. Links(Archived(n)', archive', Tip(n)')
  <2>1. Links(Archived(n), archive, buffers[n].parent)
    BY <1>1, <1>6 DEF TipInv, Tip, ParentOf
  <2>2. Archived(n)' = Archived(n) \cup {id}
    BY <1>1, <1>2, <1>3, <1>7 DEF Archived
  <2>3. Tip(n)' = archive'[id].root
    BY <1>1, <1>2, <1>6 DEF Tip
  <2>4. archive'[id].root # Zero /\ \A i \in Archived(n) : archive[i].root # archive'[id].root
    <3>1. Len(buffers[n].txs) = Capacity
      BY <1>0, <1>1 DEF ContentInv
    <3> QED
      BY <1>1, <1>2, <1>3, <1>7, <3>1, RootIsNew DEF Archived
  <2>5. id \notin Archived(n) /\ \A i \in Archived(n) : archive'[i] = archive[i]
    BY <1>7 DEF Archived
  <2>6. archive'[id].parent = buffers[n].parent
    BY <1>3
  <2> QED
    BY <2>1, <2>2, <2>3, <2>4, <2>5, <2>6, NextLink
<1>9. ASSUME NEW m \in Namespaces, m # n
      PROVE  Links(Archived(m)', archive', Tip(m)')
  <2>1. Archived(m)' = Archived(m) /\ \A i \in Archived(m) : archive'[i] = archive[i]
    BY <1>1, <1>2, <1>3, <1>7, <1>9 DEF Archived
  <2>2. Archiving(m)' = Archiving(m)
    BY <1>0, <1>1, <1>4, <1>5, <1>9 DEF Archiving
  <2>3. Archiving(m) => m \in DOMAIN buffers
    BY ArchivingHolds
  <2>4. Archiving(m) => archive'[buffers[m].id] = archive[buffers[m].id]
    BY <1>7, <2>3 DEF IdInv
  <2>5. ParentOf(m)' = ParentOf(m)
    BY <1>1 DEF ParentOf
  <2>6. Tip(m)' = Tip(m)
    BY <1>1, <2>2, <2>4, <2>5 DEF Tip
  <2> QED
    BY <2>1, <2>6, SameLinks DEF TipInv
<1> QED
  BY <1>8, <1>9 DEF TipInv

LEMMA TipAdvance ==
  ASSUME BaseInv, IdInv, TipInv, NEW t \in Txs, Advance(t)
  PROVE  TipInv'
<1>0. PICK n : n = namespace[t]
  OBVIOUS
<1>1. /\ n \in DOMAIN buffers /\ DOMAIN buffers' = DOMAIN buffers
      /\ \A m \in DOMAIN buffers : m # n => buffers'[m] = buffers[m]
      /\ buffers'[n] = [id |-> counter, parent |-> MarkleRoot(LeavesOf(buffers[n].txs)),
                        txs |-> <<>>]
      /\ lock[n] = t /\ lock' = [lock EXCEPT ![n] = Free]
      /\ seal[t] = "archived" /\ seal' = [seal EXCEPT ![t] = "sealed"]
      /\ UNCHANGED <<namespace, archive>>
  BY <1>0, AdvanceValues DEF Advance
<1>2. /\ seal \in [Txs -> {"new", "linked", "entered", "located", "full", "archived", "sealed"}]
      /\ lock \in [Namespaces -> Txs \cup {Free}]
      /\ n \in Namespaces
      /\ \A m \in Namespaces : lock[m] # Free => namespace[lock[m]] = m
  BY <1>0 DEF BaseInv, TypeOK, LockInv
<1>3. /\ \A u \in Txs : u # t => seal'[u] = seal[u]
      /\ lock'[n] = Free /\ \A m \in Namespaces : m # n => lock'[m] = lock[m]
  BY <1>1, <1>2
<1>4. Archiving(n) /\ ~Archiving(n)'
  BY <1>1, <1>3, FreeAssumption DEF Archiving
<1>5. Tip(n)' = Tip(n)
  <2>1. Tip(n) = MarkleRoot(LeavesOf(buffers[n].txs))
    <3>1. archive[buffers[n].id] = Batch(n)
      BY <1>1, <1>4 DEF IdInv
    <3> QED
      BY <1>4, <3>1 DEF Tip, Batch
  <2>2. buffers'[n].parent = MarkleRoot(LeavesOf(buffers[n].txs))
    BY <1>1
  <2> QED
    BY <1>1, <1>4, <2>1, <2>2 DEF Tip, ParentOf
<1>6. ASSUME NEW m \in Namespaces, m # n PROVE Tip(m)' = Tip(m)
  <2>1. Archiving(m)' = Archiving(m)
    BY <1>0, <1>1, <1>2, <1>3, <1>6 DEF Archiving
  <2>2. Archiving(m) => m \in DOMAIN buffers
    BY ArchivingHolds
  <2>3. ParentOf(m)' = ParentOf(m)
    BY <1>1, <1>6 DEF ParentOf
  <2> QED
    BY <1>1, <1>6, <2>1, <2>2, <2>3 DEF Tip
<1> QED
  BY <1>1, <1>5, <1>6, TipAlone

LEMMA TipStep ==
  BaseInv /\ IdInv /\ ContentInv /\ TipInv /\ [Next]_vars => TipInv'
<1> SUFFICES ASSUME BaseInv, IdInv, ContentInv, TipInv, [Next]_vars
             PROVE  TipInv'
  OBVIOUS
<1>1. ASSUME UNCHANGED <<buffers, lock, archive, seal>>
      PROVE  TipInv'
  <2>1. \A n \in Namespaces : Tip(n)' = Tip(n)
    BY <1>1 DEF Tip, Archiving, ParentOf
  <2> QED
    BY <1>1, <2>1, TipAlone
<1>2. CASE \E c \in Clients : GenerateProof(c) \/ \E t \in Txs : AskProof(c, t)
  BY <1>1, <1>2, ClientMoves
<1>3. CASE UNCHANGED vars
  BY <1>1, <1>3 DEF vars
<1> QED
  BY <1>2, <1>3, TipQuiet, TipArchive, TipAdvance DEF Next, SealThought

LEMMA ContentAtStart == Init => IdInv /\ PlaceInv /\ ContentInv
BY DEF Init, NoBuffer, IdInv, PlaceInv, Pushed, ContentInv

LEMMA TipAtStart == Init => TipInv
<1> SUFFICES ASSUME Init, NEW n \in Namespaces
             PROVE  Links(Archived(n), archive, Tip(n))
  BY DEF TipInv
<1>1. DOMAIN buffers = {} /\ DOMAIN archive = {} /\ lock[n] = Free
  BY DEF Init, NoBuffer
<1>2. Archived(n) = {} /\ Tip(n) = Zero
  BY <1>1 DEF Archived, Tip, Archiving, ParentOf
<1> QED
  BY <1>2 DEF Links, Roots, Parents

(* The archived batches of a namespace whose lock is free are one chain from *)
(* the zero root to the parent of its buffer: no two descend from one batch, *)
(* no root appears twice, none is missing.  That a new root is new needs     *)
(* that a root determines its leaves, and that no thought is in two batches  *)
(* (axon.rs 254-268).                                                        *)
THEOREM OneChain == Spec => []ChainIsIntact
<1>1. BaseInv /\ TipInv => ChainIsIntact
  <2> SUFFICES ASSUME BaseInv, TipInv, NEW n \in Namespaces, lock[n] = Free
               PROVE  /\ Cardinality(Roots(Archived(n), archive)) = Cardinality(Archived(n))
                      /\ Cardinality(Parents(Archived(n), archive)) = Cardinality(Archived(n))
                      /\ Parents(Archived(n), archive) \cup {ParentOf(n)}
                           = Roots(Archived(n), archive) \cup {Zero}
    BY DEF ChainIsIntact, Roots, Parents
  <2>1. Links(Archived(n), archive, ParentOf(n))
    BY DEF TipInv, Tip, Archiving
  <2>2. IsFiniteSet(Archived(n))
    <3>1. counter - 1 \in Int /\ Archived(n) \in SUBSET (0..(counter - 1))
      BY DEF BaseInv, TypeOK, Archived
    <3>2. IsFiniteSet(0..(counter - 1))
      BY <3>1, FS_Interval
    <3> QED
      BY <3>1, <3>2, FS_Subset
  <2> QED
    BY <2>1, <2>2, LinksCounted DEF Links
<1> QED
  BY <1>1, BaseAtStart, ContentAtStart, TipAtStart, BaseStep, IdStep, PlaceStep, ContentStep,
     TipStep, PTL DEF Spec

-----------------------------------------------------------------------------
(* Proofs.  What a client has read of the index stays true while it goes on  *)
(* without a lock, and a proof is made of the leaves of the batch that the   *)
(* index names.                                                              *)

Sound(r, index) ==
  /\ r.at # "idle" => r.tx \in Txs
  /\ r.at = "located" => r.tx \in DOMAIN index /\ r.place = index[r.tx]
  /\ r.at = "proved" =>
       /\ r.tx \in DOMAIN index /\ index[r.tx] = <<r.id, r.index>>
       /\ Climb(Leaf(r.tx), r.index, r.path) = r.root

ClientInv == \A c \in Clients : Sound(client[c], location)

LEMMA ProofIsRight ==
  ASSUME NEW r, NEW txs \in Seq(Txs), NEW index \in Nat, NEW id, NEW parent,
         Holds(txs, index, r.tx)
  PROVE  LET p == Proof(r, txs, index, id, parent)
         IN  /\ p.at = "proved" /\ p.tx = r.tx /\ p.id = id /\ p.index = index
             /\ Climb(Leaf(p.tx), p.index, p.path) = p.root
<1> DEFINE leaves == LeavesOf(txs)
           S == {Leaf(t) : t \in Txs}
           p == Proof(r, txs, index, id, parent)
<1>1. Len(txs) \in Nat /\ index + 1 \in 1..Len(txs) /\ index < Len(txs) /\ txs[index + 1] = r.tx
  <2>1. Len(txs) \in Nat
    BY LenProperties
  <2> QED
    BY <2>1 DEF Holds
<1>2. leaves \in Seq(S) /\ Len(leaves) = Len(txs) /\ leaves[index + 1] = Leaf(r.tx)
  <2> HIDE DEF S
  <2> QED
    BY <1>1, LeavesOfList DEF S
<1>3. /\ p.at = "proved" /\ p.tx = r.tx /\ p.id = id /\ p.index = index
      /\ p.path = SiblingPath(leaves, index) /\ p.root = MarkleRoot(leaves)
  BY DEF Proof
<1> HIDE DEF leaves, S, p
<1>4. Climb(leaves[index + 1], index, SiblingPath(leaves, index)) = MarkleRoot(leaves)
  BY <1>1, <1>2, PathLeadsToRoot
<1>5. /\ p.at = "proved" /\ p.tx = r.tx /\ p.id = id /\ p.index = index
      /\ Climb(Leaf(p.tx), p.index, p.path) = p.root
  BY <1>2, <1>3, <1>4
<1> QED
  BY <1>5 DEF p

\* An archived batch the index names holds the thought where the index says; while a
\* thought is located and not yet pushed, its batch is not archived.
LEMMA IndexedIsThere ==
  ASSUME BaseInv, IdInv, PlaceInv, ContentInv, NEW t \in DOMAIN location,
         location[t][1] \in DOMAIN archive
  PROVE  Holds(archive[location[t][1]].txs, location[t][2], t)
<1>1. t \in Txs /\ seal[t] \in Holding \cup {"sealed"}
  BY DEF BaseInv, TypeOK, ContentInv
<1>2. CASE seal[t] = "located"
  <2>1. /\ location[t] = <<buffers[namespace[t]].id, Len(buffers[namespace[t]].txs)>>
        /\ namespace[t] \in DOMAIN buffers /\ lock[namespace[t]] = t
    BY <1>1, <1>2 DEF PlaceInv, BaseInv, LockInv, Holding
  <2>2. buffers[namespace[t]].id \notin DOMAIN archive
    BY <1>2, <2>1 DEF IdInv, Archiving
  <2>3. location[t][1] = buffers[namespace[t]].id
    BY <2>1
  <2> QED
    BY <2>2, <2>3
<1>3. CASE seal[t] # "located"
  BY <1>1, <1>3 DEF PlaceInv, Placed, Pushed, Holding
<1> QED
  BY <1>2, <1>3

LEMMA LocationPair ==
  ASSUME BaseInv, NEW t \in DOMAIN location
  PROVE  location[t][2] \in Nat /\ location[t] = <<location[t][1], location[t][2]>>
<1>1. location[t] \in Nat \X Nat
  BY DEF BaseInv, TypeOK
<1> QED
  BY <1>1

\* Nothing a sealing step does changes the place of a thought once it has one.
LEMMA PlaceStays ==
  ASSUME BaseInv, ContentInv, NEW t \in Txs, SealThought(t)
  PROVE  /\ client' = client
         /\ \A u \in DOMAIN location : u \in DOMAIN location' /\ location'[u] = location[u]
<1>1. CASE Locate(t)
  <2>1. /\ \A u \in DOMAIN location : u \in DOMAIN location' /\ (u # t => location'[u] = location[u])
        /\ seal[t] = "entered" /\ client' = client
    BY <1>1, LocateValues
  <2>2. t \notin DOMAIN location
    BY <2>1 DEF ContentInv, Holding
  <2> QED
    BY <2>1, <2>2
<1>2. CASE ~Locate(t)
  BY <1>2 DEF SealThought, ReadParent, EnterBuffer, Push, ArchiveBatch, Advance
<1> QED
  BY <1>1, <1>2

\* One client's request moves on to something sound.
LEMMA ClientTo ==
  ASSUME BaseInv, ClientInv, NEW c \in Clients, NEW r, client' = [client EXCEPT ![c] = r],
         Sound(r, location), location' = location
  PROVE  ClientInv'
<1>1. ASSUME NEW d \in Clients PROVE Sound(client'[d], location)
  <2>1. DOMAIN client = Clients
    BY DEF BaseInv, Shape
  <2> QED
    BY <2>1 DEF ClientInv
<1> QED
  BY <1>1 DEF ClientInv

LEMMA ClientArchive ==
  ASSUME BaseInv, IdInv, PlaceInv, ContentInv, ClientInv, NEW c \in Clients, ReadArchive(c)
  PROVE  ClientInv'
<1> DEFINE r == client[c]
           id == r.place[1]
           b == archive[id]
           p == Proof(r, b.txs, r.place[2], id, b.parent)
           s == [at |-> "searching", tx |-> r.tx]
<1>1. /\ client' = [client EXCEPT ![c] = IF id \in DOMAIN archive THEN p ELSE s]
      /\ location' = location /\ r.at = "located"
  BY DEF ReadArchive
<1>2. r.tx \in Txs /\ r.tx \in DOMAIN location /\ r.place = location[r.tx]
  BY <1>1 DEF ClientInv, Sound
<1>3. CASE id \in DOMAIN archive
  <2>1. Holds(b.txs, r.place[2], r.tx) /\ b.txs \in Seq(Txs)
    BY <1>2, <1>3, IndexedIsThere DEF BaseInv, TypeOK
  <2>2. r.place[2] \in Nat /\ location[r.tx] = <<id, r.place[2]>>
    BY <1>2, LocationPair
  <2>3. /\ p.at = "proved" /\ p.tx = r.tx /\ p.id = id /\ p.index = r.place[2]
        /\ Climb(Leaf(p.tx), p.index, p.path) = p.root
    <3> HIDE DEF b, id, r
    <3> QED
      BY <2>1, <2>2, ProofIsRight
  <2> HIDE DEF p
  <2>4. Sound(p, location)
    BY <1>2, <2>2, <2>3 DEF Sound
  <2>5. client' = [client EXCEPT ![c] = p]
    BY <1>1, <1>3
  <2> QED
    BY <1>1, <2>4, <2>5, ClientTo
<1>4. CASE id \notin DOMAIN archive
  <2>1. s.at = "searching" /\ s.tx = r.tx
    OBVIOUS
  <2>2. client' = [client EXCEPT ![c] = s]
    BY <1>1, <1>4
  <2> HIDE DEF s, p, b, id
  <2>3. Sound(s, location)
    BY <1>2, <2>1 DEF Sound
  <2> QED
    BY <1>1, <2>2, <2>3, ClientTo
<1> QED
  BY <1>3, <1>4

LEMMA ClientSearch ==
  ASSUME BaseInv, ContentInv, ClientInv, NEW c \in Clients, SearchBuffers(c)
  PROVE  ClientInv'
<1> DEFINE r == client[c]
           n == namespace[r.tx]
           none == [at |-> "none", tx |-> r.tx]
<1>1. r.tx \in Txs /\ location' = location
  BY DEF ClientInv, Sound, SearchBuffers
<1>2. CASE client' = [client EXCEPT ![c] = none]
  <2>1. none.at = "none" /\ none.tx = r.tx
    OBVIOUS
  <2> HIDE DEF none
  <2>2. Sound(none, location)
    BY <1>1, <2>1 DEF Sound
  <2> QED
    BY <1>1, <1>2, <2>2, ClientTo
<1>3. CASE \E i \in 1..Len(Active(n)) :
             /\ Active(n)[i] = r.tx
             /\ client' = [client EXCEPT ![c] =
                  Proof(r, Active(n), i - 1, buffers[n].id, buffers[n].parent)]
  <2>1. PICK i \in 1..Len(Active(n)) :
             /\ Active(n)[i] = r.tx
             /\ client' = [client EXCEPT ![c] =
                  Proof(r, Active(n), i - 1, buffers[n].id, buffers[n].parent)]
    BY <1>3
  <2> DEFINE txs == buffers[n].txs
             p == Proof(r, txs, i - 1, buffers[n].id, buffers[n].parent)
  <2>2. n \in DOMAIN buffers /\ Active(n) = txs
    BY <2>1, LenEmpty DEF Active
  <2>3. txs \in Seq(Txs) /\ Len(txs) \in Nat
    BY <2>2, LenProperties DEF BaseInv, TypeOK
  <2>4. i - 1 \in Nat /\ (i - 1) + 1 = i /\ i <= Len(txs) /\ txs[i] = r.tx
    BY <2>1, <2>2, <2>3
  <2>5. r.tx \in DOMAIN location /\ location[r.tx] = <<buffers[n].id, i - 1>>
    BY <2>1, <2>2, <2>4 DEF ContentInv, Inside
  <2>6. client' = [client EXCEPT ![c] = p]
    BY <2>1, <2>2
  <2> HIDE DEF txs
  <2>7. /\ p.at = "proved" /\ p.tx = r.tx /\ p.id = buffers[n].id /\ p.index = i - 1
        /\ Climb(Leaf(p.tx), p.index, p.path) = p.root
    <3> HIDE DEF r, n
    <3> QED
      BY <2>3, <2>4, ProofIsRight DEF Holds
  <2> HIDE DEF p
  <2>8. Sound(p, location)
    BY <1>1, <2>5, <2>7 DEF Sound
  <2> QED
    BY <1>1, <2>6, <2>8, ClientTo
<1> QED
  BY <1>2, <1>3 DEF SearchBuffers

LEMMA ClientStep ==
  BaseInv /\ IdInv /\ PlaceInv /\ ContentInv /\ ClientInv /\ [Next]_vars => ClientInv'
<1> SUFFICES ASSUME BaseInv, IdInv, PlaceInv, ContentInv, ClientInv, [Next]_vars
             PROVE  ClientInv'
  OBVIOUS
<1>1. ASSUME NEW t \in Txs, SealThought(t)
      PROVE  ClientInv'
  BY <1>1, PlaceStays DEF ClientInv, Sound
<1>2. ASSUME NEW c \in Clients, NEW t \in Txs, AskProof(c, t)
      PROVE  ClientInv'
  <2> DEFINE r == [at |-> "asked", tx |-> t]
  <2>1. client' = [client EXCEPT ![c] = r] /\ location' = location /\ r.at = "asked" /\ r.tx = t
    BY <1>2 DEF AskProof
  <2> HIDE DEF r
  <2>2. Sound(r, location)
    BY <2>1 DEF Sound
  <2> QED
    BY <2>1, <2>2, ClientTo
<1>3. ASSUME NEW c \in Clients, ReadLocation(c)
      PROVE  ClientInv'
  <2> DEFINE t == client[c].tx
             r == IF t \in DOMAIN location
                    THEN [at |-> "located", tx |-> t, place |-> location[t]]
                    ELSE [at |-> "searching", tx |-> t]
  <2>1. client' = [client EXCEPT ![c] = r] /\ location' = location /\ t \in Txs
    BY <1>3 DEF ReadLocation, ClientInv, Sound
  <2> HIDE DEF t
  <2>2. Sound(r, location)
    BY <2>1 DEF Sound
  <2> HIDE DEF r
  <2> QED
    BY <2>1, <2>2, ClientTo
<1>4. ASSUME NEW c \in Clients, Answered(c)
      PROVE  ClientInv'
  <2>1. client' = [client EXCEPT ![c] = Idle] /\ location' = location
    BY <1>4 DEF Answered
  <2>2. Sound(Idle, location)
    BY DEF Sound, Idle
  <2> QED
    BY <2>1, <2>2, ClientTo
<1>5. CASE UNCHANGED vars
  BY <1>5 DEF vars, ClientInv
<1> QED
  BY <1>1, <1>2, <1>3, <1>4, <1>5, ClientArchive, ClientSearch DEF Next, GenerateProof

(* A proof that is returned verifies for the leaf of its transaction, and    *)
(* over an archived batch at the transaction's place in it, whatever sealing *)
(* and crystallizing goes on between the unlocked reads of the index, of the *)
(* archive and of the buffers (axon.rs 129-211).                             *)
THEOREM EveryProofVerifies == Spec => []ProofsVerify
<1>1. Init => ClientInv
  BY DEF Init, Idle, ClientInv, Sound
<1>2. BaseInv /\ IdInv /\ PlaceInv /\ ContentInv /\ ClientInv => ProofsVerify
  <2> SUFFICES ASSUME BaseInv, IdInv, PlaceInv, ContentInv, ClientInv,
                      NEW c \in Clients, client[c].at = "proved"
               PROVE  /\ Climb(Leaf(client[c].tx), client[c].index, client[c].path)
                           = client[c].root
                      /\ client[c].id \in DOMAIN archive =>
                           Holds(archive[client[c].id].txs, client[c].index, client[c].tx)
    BY DEF ProofsVerify, Holds
  <2>1. /\ client[c].tx \in DOMAIN location
        /\ location[client[c].tx] = <<client[c].id, client[c].index>>
        /\ Climb(Leaf(client[c].tx), client[c].index, client[c].path) = client[c].root
    BY DEF ClientInv, Sound
  <2> QED
    BY <2>1, IndexedIsThere
<1> QED
  BY <1>1, <1>2, BaseAtStart, ContentAtStart, BaseStep, IdStep, PlaceStep, ContentStep,
     ClientStep, PTL DEF Spec

(* The sibling path of every leaf leads to the root, for every number of     *)
(* leaves (axon.rs 99-127, 174-211, 286-320).                                *)
THEOREM EveryLeafVerifies == Spec => []EveryPathVerifies
<1>1. ASSUME NEW n \in 1..MaxLeaves, NEW i \in 0..(n - 1)
      PROVE  LET leaves == [j \in 1..n |-> Leaf(j)]
             IN  Climb(leaves[i + 1], i, SiblingPath(leaves, i)) = MarkleRoot(leaves)
  <2> DEFINE leaves == [j \in 1..n |-> Leaf(j)]
             S == {Leaf(j) : j \in 1..n}
  <2>1. leaves \in [1..n -> S] /\ n \in Nat /\ i \in Nat /\ i < n
    BY CapacityAssumption
  <2> HIDE DEF leaves, S
  <2>2. leaves \in Seq(S)
    BY <2>1, SeqDef
  <2>3. Len(leaves) = n
    BY <2>1, <2>2, LenProperties
  <2>4. Climb(leaves[i + 1], i, SiblingPath(leaves, i)) = MarkleRoot(leaves)
    BY <2>1, <2>2, <2>3, PathLeadsToRoot
  <2> QED
    BY <2>4 DEF leaves
<1>2. EveryPathVerifies
  BY <1>1 DEF EveryPathVerifies
<1> QED
  BY <1>2, PTL

=============================================================================
