---------------------------- MODULE AegisProofs ----------------------------
(***************************************************************************)
(* What the quarantine mesh guarantees for any nodes, agents, forwarders   *)
(* and failures: one copy of a record is enough.                           *)
(***************************************************************************)
EXTENDS Aegis, TLAPS

Record == [agent : Agents, origin : Nodes]

-----------------------------------------------------------------------------
\* The records.

LEMMA RecordsGrow ==
  ASSUME TypeOK, NEW n \in Nodes, NEW a \in Agents, Trigger(n, a)
  PROVE  /\ records' \in Seq(Record) /\ Len(records') = Len(records) + 1
         /\ Len(records) \in Nat
         /\ records'[Len(records) + 1] = [agent |-> a, origin |-> n]
         /\ \A v \in Issued : records'[v] = records[v]
<1>1. records \in Seq(Record) /\ [agent |-> a, origin |-> n] \in Record
  BY DEF TypeOK, Record
<1>2. records' = Append(records, [agent |-> a, origin |-> n])
  BY DEF Trigger
<1> HIDE DEF Record
<1> QED
  BY <1>1, <1>2 DEF Issued

LEMMA RecordTypes ==
  ASSUME TypeOK, NEW v \in Issued
  PROVE  AgentOf(v) \in Agents /\ Origin(v) \in Nodes /\ v \in Nat /\ v # NoRecord
<1>1. records \in Seq(Record) /\ v \in 1..Len(records)
  BY DEF TypeOK, Record, Issued
<1>2. records[v] \in Record
  BY <1>1
<1> QED
  BY <1>1, <1>2 DEF Record, AgentOf, Origin, NoRecord

-----------------------------------------------------------------------------
\* Types.

LEMMA TypesAtStart == Init => TypeOK
<1> SUFFICES ASSUME Init PROVE TypeOK
  OBVIOUS
<1>1. records \in Seq(Record) /\ Len(records) = 0
  BY DEF Init
<1> QED
  BY <1>1, AegisAssumption DEF Init, TypeOK, Record

LEMMA TypesOfTrigger ==
  ASSUME TypeOK, NEW n \in Nodes, NEW a \in Agents, Trigger(n, a)
  PROVE  TypeOK'
<1>1. /\ records' \in Seq(Record) /\ Len(records') = Len(records) + 1
      /\ Len(records) \in Nat
  BY RecordsGrow
<1>2. Issued \subseteq Issued' /\ Len(records) + 1 \in Issued'
  BY <1>1 DEF Issued
<1>3. Len(records') <= MaxRecords
  BY <1>1, AegisAssumption DEF Trigger
<1>4. /\ blocked' \in [Nodes -> SUBSET Agents]
      /\ bus' \subseteq Issued' \X Forwarders
      /\ lost' \subseteq Issued' \X Forwarders \X Nodes
  BY <1>2 DEF TypeOK, Trigger
<1>5. /\ hand' \in [Nodes -> Issued' \cup {NoRecord}]
      /\ net' \subseteq Issued' \X Forwarders \X Nodes
      /\ lifted' \subseteq Nodes \X Issued' /\ forgotten' \subseteq Nodes \X Issued'
      /\ up' \subseteq Nodes /\ dead' \subseteq Nodes \X Forwarders /\ rare' \in 0..MaxRare
  BY <1>2 DEF TypeOK, Trigger
<1> QED
  BY <1>1, <1>3, <1>4, <1>5 DEF TypeOK, Record

LEMMA TypesKept == TypeOK /\ [Next]_vars => TypeOK'
<1> SUFFICES ASSUME TypeOK, [Next]_vars PROVE TypeOK'
  OBVIOUS
<1> USE AegisAssumption DEF TypeOK, node, sent, past, Issued, Rarely
<1>1. ASSUME NEW n \in Nodes, NEW a \in Agents, Trigger(n, a) PROVE TypeOK'
  BY <1>1, TypesOfTrigger
<1>2. ASSUME NEW n \in Nodes, NEW a \in Agents, Lift(n, a) PROVE TypeOK'
  BY <1>2 DEF Lift, IssuedAgainst
<1>3. ASSUME NEW v \in Issued, NEW f \in Forwarders, Forward(v, f) PROVE TypeOK'
  BY <1>3 DEF Forward
<1>4. ASSUME NEW v \in Issued, NEW f \in Forwarders, PutFails(v, f) PROVE TypeOK'
  BY <1>4 DEF PutFails
<1>5. ASSUME NEW n \in Nodes, NEW f \in Forwarders, Lag(n, f) PROVE TypeOK'
  BY <1>5 DEF Lag
<1>6. ASSUME NEW c \in net, Drop(c) PROVE TypeOK'
  BY <1>6 DEF Drop
<1>7. ASSUME NEW v \in Issued, NEW f \in Forwarders, NEW n \in Nodes, Arrive(v, f, n)
      PROVE TypeOK'
  BY <1>7 DEF Arrive
<1>8. ASSUME NEW n \in Nodes, Insert(n) PROVE TypeOK'
  <2>1. hand[n] \in Issued
    BY <1>8 DEF Insert
  <2>2. AgentOf(hand[n]) \in Agents
    BY <2>1, RecordTypes
  <2> QED
    BY <1>8, <2>2 DEF Insert
<1>9. ASSUME NEW n \in Nodes, Crash(n) PROVE TypeOK'
  BY <1>9 DEF Crash
<1>10. ASSUME NEW n \in Nodes, Boot(n) PROVE TypeOK'
  BY <1>10 DEF Boot
<1>11. CASE UNCHANGED vars
  BY <1>11 DEF vars
<1> QED
  BY <1>1, <1>2, <1>3, <1>4, <1>5, <1>6, <1>7, <1>8, <1>9, <1>10, <1>11 DEF Next

(* Types hold in every reachable state.                                    *)
THEOREM AegisTypes == Spec => []TypeOK
BY TypesAtStart, TypesKept, PTL DEF Spec
-----------------------------------------------------------------------------
\* Each node knows a record or is still being sent it.

Known(v, n) == AgentOf(v) \in blocked[n] \/ Escapes(n, v) \/ hand[n] = v
Underway(v, f, n) == <<v, f>> \in bus \/ <<v, f, n>> \in net \/ <<v, f, n>> \in lost
Told(v, n) ==
  Known(v, n) \/ (n # Origin(v) /\ \A f \in Forwarders : Underway(v, f, n))
ToldInv == \A v \in Issued, n \in Nodes : Told(v, n)

LEMMA ToldByTrigger ==
  ASSUME TypeOK, ToldInv, NEW n \in Nodes, NEW a \in Agents, Trigger(n, a)
  PROVE  ToldInv'
<1>1. /\ Len(records') = Len(records) + 1 /\ Len(records) \in Nat
      /\ records'[Len(records) + 1] = [agent |-> a, origin |-> n]
      /\ \A v \in Issued : records'[v] = records[v]
  BY RecordsGrow
<1>2. blocked' = [blocked EXCEPT ![n] = blocked[n] \cup {a}] /\ blocked \in [Nodes -> SUBSET Agents]
  BY DEF Trigger, TypeOK
<1>3. ASSUME NEW v \in Issued, NEW m \in Nodes PROVE Told(v, m)'
  <2>1. Told(v, m) /\ AgentOf(v)' = AgentOf(v) /\ Origin(v)' = Origin(v)
    BY <1>1, <1>3 DEF ToldInv, AgentOf, Origin
  <2>2. /\ blocked[m] \subseteq blocked'[m] /\ hand'[m] = hand[m]
        /\ lifted' = lifted /\ forgotten' = forgotten
        /\ bus \subseteq bus' /\ net' = net /\ lost \subseteq lost'
    BY <1>2, <1>3 DEF Trigger
  <2> QED
    BY <2>1, <2>2 DEF Told, Known, Underway, Escapes
<1>4. ASSUME NEW v, v = Len(records) + 1, NEW m \in Nodes PROVE Told(v, m)'
  <2>1. AgentOf(v)' = a /\ Origin(v)' = n
    BY <1>1, <1>4 DEF AgentOf, Origin
  <2>2. CASE m = n
    <3>1. a \in blocked'[m]
      BY <1>2, <2>2
    <3> QED
      BY <2>1, <3>1 DEF Told, Known
  <2>3. CASE m # n
    <3>1. ASSUME NEW f \in Forwarders PROVE Underway(v, f, m)'
      <4>1. CASE <<n, f>> \in dead
        BY <1>4, <4>1 DEF Trigger, Underway
      <4>2. CASE <<n, f>> \notin dead
        BY <1>4, <4>2 DEF Trigger, Underway
      <4> QED
        BY <4>1, <4>2
    <3> QED
      BY <2>1, <2>3, <3>1 DEF Told
  <2> QED
    BY <2>2, <2>3
<1>5. \A v \in Issued' : v \in Issued \/ v = Len(records) + 1
  BY <1>1 DEF Issued
<1> QED
  BY <1>3, <1>4, <1>5 DEF ToldInv, Issued

\* Every other step leaves the records alone: what it takes from one place
\* it puts in another.
LEMMA ToldByOthers ==
  ASSUME TypeOK, ToldInv, records' = records,
         \A v \in Issued, n \in Nodes :
           /\ Known(v, n) => Known(v, n)'
           /\ \A f \in Forwarders : Underway(v, f, n) => Underway(v, f, n)' \/ Known(v, n)'
  PROVE  ToldInv'
<1> SUFFICES ASSUME NEW v \in Issued, NEW n \in Nodes PROVE Told(v, n)'
  BY DEF ToldInv, Issued
<1>1. Told(v, n) /\ Origin(v)' = Origin(v)
  BY DEF ToldInv, Origin
<1> QED
  BY <1>1 DEF Told

LEMMA ToldKept == TypeOK /\ ToldInv /\ [Next]_vars => ToldInv'
<1> SUFFICES ASSUME TypeOK, ToldInv, [Next]_vars PROVE ToldInv'
  OBVIOUS
<1> USE DEF node, sent, past, Known, Underway, Escapes, AgentOf, Origin
<1>1. ASSUME NEW n \in Nodes, NEW a \in Agents, Trigger(n, a) PROVE ToldInv'
  BY <1>1, ToldByTrigger
<1>2. ASSUME NEW n \in Nodes, NEW a \in Agents, Lift(n, a) PROVE ToldInv'
  BY <1>2, ToldByOthers DEF Lift, IssuedAgainst, TypeOK
<1>3. ASSUME NEW v \in Issued, NEW f \in Forwarders, Forward(v, f) PROVE ToldInv'
  BY <1>3, ToldByOthers DEF Forward
<1>4. ASSUME NEW v \in Issued, NEW f \in Forwarders, PutFails(v, f) PROVE ToldInv'
  BY <1>4, ToldByOthers DEF PutFails
<1>5. ASSUME NEW n \in Nodes, NEW f \in Forwarders, Lag(n, f) PROVE ToldInv'
  BY <1>5, ToldByOthers DEF Lag
<1>6. ASSUME NEW c \in net, Drop(c) PROVE ToldInv'
  BY <1>6, ToldByOthers DEF Drop
<1>7. ASSUME NEW v \in Issued, NEW f \in Forwarders, NEW n \in Nodes, Arrive(v, f, n)
      PROVE ToldInv'
  BY <1>7, ToldByOthers, RecordTypes DEF Arrive, TypeOK
<1>8. ASSUME NEW n \in Nodes, Insert(n) PROVE ToldInv'
  BY <1>8, ToldByOthers DEF Insert, TypeOK
<1>9. ASSUME NEW n \in Nodes, Crash(n) PROVE ToldInv'
  BY <1>9, ToldByOthers DEF Crash, TypeOK
<1>10. ASSUME NEW n \in Nodes, Boot(n) PROVE ToldInv'
  BY <1>10, ToldByOthers DEF Boot
<1>11. CASE UNCHANGED vars
  BY <1>11, ToldByOthers DEF vars
<1> QED
  BY <1>1, <1>2, <1>3, <1>4, <1>5, <1>6, <1>7, <1>8, <1>9, <1>10, <1>11 DEF Next

(* One copy is enough, whatever fails: once everything is delivered, a     *)
(* node blocks the agent of each record it made or of which a copy was not *)
(* lost, unless it lifted that quarantine or stopped since.                *)
THEOREM OneCopyIsEnough == Spec => []QuietMeansKnown
<1>1. Init => ToldInv
  <2> SUFFICES ASSUME Init PROVE Issued = {}
    BY DEF ToldInv
  <2>1. records = <<>> /\ Len(records) = 0
    BY DEF Init
  <2> QED
    BY <2>1 DEF Issued
<1>2. TypeOK /\ ToldInv => QuietMeansKnown
  <2> SUFFICES ASSUME TypeOK, ToldInv, Quiet, NEW v \in Issued, NEW n \in Nodes
               PROVE  \/ n # Origin(v) /\ \A f \in Forwarders : <<v, f, n>> \in lost
                      \/ AgentOf(v) \in blocked[n]
                      \/ Escapes(n, v)
    BY DEF QuietMeansKnown
  <2>1. Told(v, n) /\ hand[n] # v
    BY RecordTypes DEF ToldInv, Quiet
  <2> QED
    BY <2>1 DEF Told, Known, Underway, Quiet
<1> QED
  BY <1>1, <1>2, AegisTypes, ToldKept, PTL DEF Spec
=============================================================================
