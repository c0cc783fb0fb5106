------------------------------- MODULE WalLog -------------------------------
(***************************************************************************)
(* What the write-ahead log promises to those who append to it, with no    *)
(* word of files, frames and offsets: logs are accepted one by one, and    *)
(* settled in the order they were accepted, a prefix of the queue at a     *)
(* time.  Nucleus.tla implements it; Cascade.tla is built on it.           *)
(***************************************************************************)
EXTENDS Naturals, Sequences

CONSTANT Logs   \* the logs the callers append

VARIABLES
  queue,   \* the logs accepted and not settled, oldest first
  fate     \* log -> what became of it

Fates == {"new", "sent", "published", "archived", "dropped"}

In(s) == {s[i] : i \in 1..Len(s)}
First(n) == [i \in 1..n |-> queue[i]]
Rest(n)  == [i \in 1..(Len(queue) - n) |-> queue[i + n]]

TypeOK == queue \in Seq(Logs) /\ fate \in [Logs -> Fates]

\* `fate` with every log of S given the fate x.
With(S, x) == [l \in Logs |-> IF l \in S THEN x ELSE fate[l]]

Init == queue = <<>> /\ fate = [l \in Logs |-> "new"]

(* append: the log is accepted ...                                           *)
Accept(l) ==
  /\ fate[l] = "new"
  /\ queue' = Append(queue, l)
  /\ fate' = With({l}, "sent")

(* ... or the engine is gone, and append says nothing.                       *)
Refuse(l) ==
  /\ fate[l] = "new"
  /\ fate' = With({l}, "dropped")
  /\ UNCHANGED queue

(* The oldest n logs become durable together ...                             *)
Commit(n) ==
  /\ fate' = With(In(First(n)), "published")
  /\ queue' = Rest(n)

(* ... or are given up together.                                             *)
GiveUp(n) ==
  /\ fate' = With(In(First(n)), "dropped")
  /\ queue' = Rest(n)

(* Rotation takes all that is published out of the log.                      *)
Archive ==
  /\ fate' = With({l \in Logs : fate[l] = "published"}, "archived")
  /\ UNCHANGED queue

(* The engine dies: what it has accepted and not settled is gone.            *)
Lose ==
  /\ fate' = With(In(queue), "dropped")
  /\ queue' = <<>>

(* A start over what is on the device: what was given up may come back, and  *)
(* nothing else.                                                             *)
Recover(S) ==
  /\ \A l \in S : fate[l] \in {"dropped", "published"}
  /\ fate' = With(S, "published")
  /\ UNCHANGED queue

Settle == \E n \in 1..Len(queue) : Commit(n) \/ GiveUp(n)

Next ==
  \/ \E l \in Logs : Accept(l) \/ Refuse(l)
  \/ Settle
  \/ Archive \/ Lose
  \/ \E S \in SUBSET Logs : Recover(S)

vars == <<queue, fate>>

\* The engine does not sit on a log it has accepted.
Spec == Init /\ [][Next]_vars /\ WF_vars(Settle)
=============================================================================
