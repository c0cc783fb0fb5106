------------------------------- MODULE Merkle -------------------------------
(***************************************************************************)
(* The Merkle trees of raqim-core/src/axon.rs.  A hash is a term: what was *)
(* hashed under which key, so two hashes are equal when their inputs are.  *)
(***************************************************************************)
EXTENDS Naturals, Sequences

Zero       == [kind |-> "zero"]                       \* [0u8; 32]
Leaf(t)    == [kind |-> "leaf", of |-> t]             \* raqim.axon.v1.leaf
Node(a, b) == [kind |-> "node", left |-> a, right |-> b]  \* raqim.axon.v1.node

\* One turn of the loop: the pairs of a level, its odd last element with itself.
NextLevel(level) ==
  [i \in 1..((Len(level) + 1) \div 2) |->
     Node(level[2 * i - 1],
          IF 2 * i <= Len(level) THEN level[2 * i] ELSE level[2 * i - 1])]

\* The levels of the tree, from the leaves to the root, which then stays.
Turn(level) == IF Len(level) <= 1 THEN level ELSE NextLevel(level)
Levels(leaves) ==
  LET level[k \in 0..Len(leaves)] == IF k = 0 THEN leaves ELSE Turn(level[k - 1])
  IN  level

\* How many turns the loop takes: while there is more than one hash.
Depth(leaves) ==
  CHOOSE d \in 0..Len(leaves) :
    /\ Len(Levels(leaves)[d]) <= 1
    /\ \A k \in 0..(d - 1) : Len(Levels(leaves)[k]) > 1

\* compute_markle_root
MarkleRoot(leaves) ==
  IF leaves = <<>> THEN Zero ELSE Levels(leaves)[Depth(leaves)][1]

\* The sibling of position i (from 0) of a level of n.
SiblingOfOddLast(i, n) ==
  IF i % 2 = 1 \/ (i > 0 /\ i + 1 = n) THEN i - 1 ELSE IF i + 1 < n THEN i + 1 ELSE i
SiblingToTheRight(i, n) == IF i + 1 < n THEN i + 1 ELSE i
Sibling(i, n) == IF i % 2 = 1 THEN i - 1 ELSE IF i + 1 < n THEN i + 1 ELSE i

\* An index after k turns, each of which halves it.
Halved(index, k) ==
  LET half[j \in 0..k] == IF j = 0 THEN index ELSE half[j - 1] \div 2
  IN  half[k]

\* exract_sibling_path: the sibling on every level but the root's.
SiblingPath(leaves, index) ==
  LET levels == Levels(leaves)
  IN  [k \in 1..Depth(leaves) |->
         levels[k - 1][Sibling(Halved(index, k - 1), Len(levels[k - 1])) + 1]]

\* verify_inclusion, up to the comparison with the root.
Join(index, hash, sibling) ==
  IF index % 2 = 0 THEN Node(hash, sibling) ELSE Node(sibling, hash)
Climb(leaf, index, path) ==
  LET hash[k \in 0..Len(path)] ==
        IF k = 0 THEN leaf ELSE Join(Halved(index, k - 1), hash[k - 1], path[k])
  IN  hash[Len(path)]
=============================================================================
