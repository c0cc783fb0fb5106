-------------------------------- MODULE Axon --------------------------------
(***************************************************************************)
(* The audit ledger of raqim-core/src/axon.rs: AxonGateKeeper.             *)
(*                                                                         *)
(* Each sealed thought appends a leaf to the active buffer of its          *)
(* namespace; a buffer that is full is crystallized into an archived batch *)
(* whose root becomes the parent of the next.  Requests run on many        *)
(* threads: a buffer has its own lock, while the location index and the    *)
(* archive are concurrent maps that proof requests read without it.        *)
(***************************************************************************)
EXTENDS Merkle, FiniteSets

CONSTANTS
  Txs,         \* the thoughts, one sealing request each
  Namespaces,
  Capacity,    \* leaves of a batch (1024)
  Clients,     \* threads that ask for proofs
  MaxLeaves    \* bound: leaves of the trees of EveryPathVerifies

ASSUME CapacityAssumption == Capacity \in Nat \ {0} /\ MaxLeaves \in Nat
ASSUME FiniteAssumption == IsFiniteSet(Txs) /\ IsFiniteSet(Namespaces)

VARIABLES
  namespace,   \* the namespace of each thought
  buffers,     \* namespace -> ActiveTreeBuffer, for those there are
  lock,        \* namespace -> the request that holds its buffer's write lock
  counter,     \* global_batch_counter
  archive,     \* batch_archive: id -> batch
  location,    \* tx_to_location: tx -> (batch id, leaf index)
  seal,        \* how far each sealing request has got
  previous,    \* previous_hash of each log
  client       \* the proof request of each client

requests == <<namespace, seal, previous>>
vars == <<namespace, buffers, lock, counter, archive, location, seal, previous, client>>

Free == "free"
ASSUME FreeAssumption == Free \notin Txs

NoBuffer == [n \in {} |-> Zero]

\* f with x mapped to y.
With(f, x, y) == [z \in DOMAIN f \cup {x} |-> IF z = x THEN y ELSE f[z]]

LeavesOf(txs) == [i \in 1..Len(txs) |-> Leaf(txs[i])]

Idle == [at |-> "idle"]

Init ==
  /\ namespace \in [Txs -> Namespaces]
  /\ buffers = NoBuffer /\ lock = [n \in Namespaces |-> Free]
  /\ counter = 0
  /\ archive = [i \in {} |-> Zero] /\ location = [t \in {} |-> <<0, 0>>]
  /\ seal = [t \in Txs |-> "new"] /\ previous = [t \in Txs |-> Zero]
  /\ client = [c \in Clients |-> Idle]

-----------------------------------------------------------------------------
\* The parent root a log is linked to: read under the buffer's read lock.
ParentOfAny(n) ==
  IF DOMAIN buffers = {} THEN Zero
  ELSE buffers[CHOOSE m \in DOMAIN buffers : TRUE].parent
ParentOf(n) == IF n \in DOMAIN buffers THEN buffers[n].parent ELSE Zero

(* seal_thought: hash the leaf and read the parent root ...                  *)
ReadParent(t) ==
  /\ seal[t] = "new"
  /\ lock[namespace[t]] = Free
  /\ previous' = [previous EXCEPT ![t] = ParentOf(namespace[t])]
  /\ seal' = [seal EXCEPT ![t] = "linked"]
  /\ UNCHANGED <<namespace, buffers, lock, counter, archive, location, client>>

(* ... ingest_leaf_internal: find or create the buffer of the namespace ...  *)
EnterBuffer(t) ==
  LET n == namespace[t]
  IN  /\ seal[t] = "linked"
      /\ IF n \in DOMAIN buffers
           THEN UNCHANGED <<buffers, counter>>
           ELSE /\ buffers' = With(buffers, n, [id |-> counter, parent |-> Zero, txs |-> <<>>])
                /\ counter' = counter + 1
      /\ seal' = [seal EXCEPT ![t] = "entered"]
      /\ UNCHANGED <<namespace, lock, archive, location, previous, client>>

\* The index of the next leaf of a buffer, from 0.
NextIndexFromOne(b) == Len(b.txs) + 1
NextIndex(b) == Len(b.txs)

(* ... take its write lock and index the transaction ...                     *)
Locate(t) ==
  LET n == namespace[t]
  IN  /\ seal[t] = "entered"
      /\ lock[n] = Free
      /\ lock' = [lock EXCEPT ![n] = t]
      /\ location' = With(location, t, <<buffers[n].id, NextIndex(buffers[n])>>)
      /\ seal' = [seal EXCEPT ![t] = "located"]
      /\ UNCHANGED <<namespace, buffers, counter, archive, previous, client>>

\* The capacity checkpoint.
FullTooLate(txs) == Len(txs) > Capacity
Full(txs) == Len(txs) >= Capacity

(* ... push the leaf ...                                                     *)
Push(t) ==
  LET n == namespace[t]
      txs == Append(buffers[n].txs, t)
  IN  /\ seal[t] = "located"
      /\ buffers' = [buffers EXCEPT ![n].txs = txs]
      /\ seal' = [seal EXCEPT ![t] = IF Full(txs) THEN "full" ELSE "sealed"]
      /\ lock' = [lock EXCEPT ![n] = IF Full(txs) THEN t ELSE Free]
      /\ UNCHANGED <<namespace, counter, archive, location, previous, client>>

(* ... and when the buffer is full, archive the batch ...                    *)
ArchiveBatch(t) ==
  LET b == buffers[namespace[t]]
  IN  /\ seal[t] = "full"
      /\ archive' = With(archive, b.id,
           [namespace |-> namespace[t], parent |-> b.parent, txs |-> b.txs,
            root |-> MarkleRoot(LeavesOf(b.txs))])
      /\ seal' = [seal EXCEPT ![t] = "archived"]
      /\ UNCHANGED <<namespace, buffers, lock, counter, location, previous, client>>

\* The buffer that follows a full one.
KeepsParent(b) == [id |-> counter, parent |-> b.parent, txs |-> <<>>]
NextBuffer(b) ==
  [id |-> counter, parent |-> MarkleRoot(LeavesOf(b.txs)), txs |-> <<>>]

(* ... start the next one, and let the lock go.                              *)
Advance(t) ==
  LET n == namespace[t]
  IN  /\ seal[t] = "archived"
      /\ buffers' = [buffers EXCEPT ![n] = NextBuffer(buffers[n])]
      /\ counter' = counter + 1
      /\ lock' = [lock EXCEPT ![n] = Free]
      /\ seal' = [seal EXCEPT ![t] = "sealed"]
      /\ UNCHANGED <<namespace, archive, location, previous, client>>

-----------------------------------------------------------------------------
(* A client asks for the proof of a transaction.                             *)
AskProof(c, t) ==
  /\ client[c] = Idle
  /\ client' = [client EXCEPT ![c] = [at |-> "asked", tx |-> t]]
  /\ UNCHANGED <<requests, buffers, lock, counter, archive, location>>

(* generate_proof_for_tx: look the location up ...                           *)
ReadLocation(c) ==
  LET r == client[c]
  IN  /\ r.at = "asked"
      /\ client' = [client EXCEPT ![c] =
           IF r.tx \in DOMAIN location
             THEN [at |-> "located", tx |-> r.tx, place |-> location[r.tx]]
             ELSE [at |-> "searching", tx |-> r.tx]]
      /\ UNCHANGED <<requests, buffers, lock, counter, archive, location>>

Proof(r, txs, index, id, parent) ==
  [at |-> "proved", tx |-> r.tx, id |-> id, index |-> index,
   parent |-> parent, root |-> MarkleRoot(LeavesOf(txs)),
   path |-> SiblingPath(LeavesOf(txs), index)]

(* ... path A: the batch is archived ...                                     *)
ReadArchive(c) ==
  LET r == client[c]
  IN  /\ r.at = "located"
      /\ client' = [client EXCEPT ![c] =
           IF r.place[1] \in DOMAIN archive
             THEN LET b == archive[r.place[1]]
                  IN  Proof(r, b.txs, r.place[2], r.place[1], b.parent)
             ELSE [at |-> "searching", tx |-> r.tx]]
      /\ UNCHANGED <<requests, buffers, lock, counter, archive, location>>

\* The transactions of the active buffer of n.
Active(n) == IF n \in DOMAIN buffers THEN buffers[n].txs ELSE <<>>

(* ... path B: search the active buffers, each under its read lock.  Only    *)
(* the buffer of the transaction's namespace can hold it.                    *)
SearchBuffers(c) ==
  LET r == client[c]
      n == namespace[r.tx]
  IN  /\ r.at = "searching"
      /\ lock[n] = Free
      /\ \/ \E i \in 1..Len(Active(n)) :
              /\ Active(n)[i] = r.tx
              /\ client' = [client EXCEPT ![c] =
                   Proof(r, Active(n), i - 1, buffers[n].id, buffers[n].parent)]
         \/ /\ \A i \in 1..Len(Active(n)) : Active(n)[i] # r.tx
            /\ client' = [client EXCEPT ![c] = [at |-> "none", tx |-> r.tx]]
      /\ UNCHANGED <<requests, buffers, lock, counter, archive, location>>

\* The client goes on.
Answered(c) ==
  /\ client[c].at \in {"proved", "none"}
  /\ client' = [client EXCEPT ![c] = Idle]
  /\ UNCHANGED <<requests, buffers, lock, counter, archive, location>>

-----------------------------------------------------------------------------
SealThought(t) ==
  ReadParent(t) \/ EnterBuffer(t) \/ Locate(t) \/ Push(t) \/ ArchiveBatch(t) \/ Advance(t)

GenerateProof(c) ==
  ReadLocation(c) \/ ReadArchive(c) \/ SearchBuffers(c) \/ Answered(c)

Next ==
  \/ \E t \in Txs : SealThought(t)
  \/ \E c \in Clients : GenerateProof(c) \/ \E t \in Txs : AskProof(c, t)

Spec == Init /\ [][Next]_vars

-----------------------------------------------------------------------------
(* Types.                                                                    *)
TypeOK ==
  /\ namespace \in [Txs -> Namespaces]
  /\ DOMAIN buffers \in SUBSET Namespaces
  /\ \A n \in DOMAIN buffers :
       /\ buffers[n].id \in 0..(counter - 1)
       /\ buffers[n].txs \in Seq(Txs) /\ Len(buffers[n].txs) <= Capacity
  /\ lock \in [Namespaces -> Txs \cup {Free}]
  /\ counter \in Nat
  /\ DOMAIN archive \in SUBSET (0..(counter - 1))
  /\ \A i \in DOMAIN archive : archive[i].txs \in Seq(Txs)
  /\ DOMAIN location \in SUBSET Txs
  /\ location \in [DOMAIN location -> Nat \X Nat]
  /\ seal \in [Txs -> {"new", "linked", "entered", "located", "full", "archived", "sealed"}]
  /\ \A c \in Clients :
       client[c].at \in {"idle", "asked", "located", "searching", "proved", "none"}

\* The index points at the transaction, in the archived batch it names or else in
\* the active buffer with that id, whoever crystallizes it (axon.rs 241-271).
LocationIsRight ==
  \A t \in Txs : seal[t] = "sealed" =>
    LET id == location[t][1]
        holds(txs) == location[t][2] + 1 <= Len(txs) /\ txs[location[t][2] + 1] = t
    IN  IF id \in DOMAIN archive THEN holds(archive[id].txs)
        ELSE \E n \in DOMAIN buffers : buffers[n].id = id /\ holds(buffers[n].txs)

\* The batches of namespace n.
Archived(n) == {i \in DOMAIN archive : archive[i].namespace = n}

\* The archived batches of a namespace are one chain from the zero root to the
\* parent of its buffer: as many links as batches, no fork (axon.rs 254-268).
ChainIsIntact ==
  \A n \in Namespaces : lock[n] = Free =>
    LET roots   == {archive[i].root : i \in Archived(n)}
        parents == {archive[i].parent : i \in Archived(n)}
    IN  /\ Cardinality(roots) = Cardinality(Archived(n))
        /\ Cardinality(parents) = Cardinality(Archived(n))
        /\ parents \cup {ParentOf(n)} = roots \cup {Zero}

\* A log is linked to a root of its own chain that its batch descends from: to
\* its batch's parent, or to an older one when the batch before was crystallized
\* between the two locks (axon.rs 83-93), never to its own batch or a later one.
LinkedToThePast ==
  \A t \in Txs : seal[t] = "sealed" =>
    \/ previous[t] = Zero
    \/ \E i \in Archived(namespace[t]) :
         archive[i].root = previous[t] /\ i < location[t][1]

\* Whatever happens during the request, a proof that is returned verifies for the
\* leaf of its transaction; one over an archived batch is against its root.
ProofsVerify ==
  \A c \in Clients : client[c].at = "proved" =>
    LET p == client[c]
    IN  /\ Climb(Leaf(p.tx), p.index, p.path) = p.root
        /\ p.id \in DOMAIN archive /\ p.index + 1 <= Len(archive[p.id].txs) =>
             archive[p.id].txs[p.index + 1] = p.tx

\* However many thoughts the first batch grows to, up to MaxLeaves, the sibling path
\* of every leaf leads to the root compute_markle_root computes, levels of odd length
\* included (99-127, 174-211).
EveryPathVerifies ==
  DOMAIN buffers = {} =>
    \A n \in 1..MaxLeaves :
      LET leaves == [i \in 1..n |-> Leaf(i)]
          root   == MarkleRoot(leaves)
      IN  \A i \in 0..(n - 1) :
            Climb(leaves[i + 1], i, SiblingPath(leaves, i)) = root
=============================================================================
