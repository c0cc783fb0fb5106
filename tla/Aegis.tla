------------------------------- MODULE Aegis -------------------------------
(***************************************************************************)
(* The quarantine mesh of raqim-core: AegisGateKeeper's blocklist on every *)
(* node (aegis.rs), the event bus with its two forwarders (main.rs: the    *)
(* outbound loop and the audit vault sinker), the Zenoh topic              *)
(* system/quarantine and its subscriber (network.rs), and the handlers     *)
(* that lift a quarantine (api.rs).                                        *)
(*                                                                         *)
(* A record stands for one call of trigger_quarantine: its number in       *)
(* `records`.  Both forwarders put every record of their node on the       *)
(* topic, so a node is sent two copies of it, its own records included.    *)
(* The sync events waiting for a forwarder are a set: the order they are   *)
(* taken in is left open.                                                  *)
(***************************************************************************)
EXTENDS Naturals, Sequences

CONSTANTS
  Nodes, Agents,
  Forwarders,   \* loops that call broadcast_quarantine_sync
  MaxRecords,   \* bound: quarantines triggered
  MaxRare       \* bound: failed puts, lagged forwarders, dropped samples,
                \*   lifted quarantines and stopped nodes, together

ASSUME AegisAssumption ==
  MaxRecords \in Nat /\ MaxRare \in Nat

VARIABLES
  up,        \* nodes that run
  blocked,   \* quarantine_blocklist of each node
  hand,      \* the record its subscriber is assimilating, or NoRecord
  bus,       \* <<record, forwarder>>: events a forwarder has yet to take
  dead,      \* <<node, forwarder>>: loops ended by a lagged receiver
  net,       \* copies on their way: <<record, forwarder, node>>
  records,   \* history: the records so far, with agent and origin
  lost,      \* history: copies that reach nobody
  lifted,    \* history: <<node, record>>: lifted there since
  forgotten, \* history: <<node, record>>: the node stopped since
  rare       \* used up bound

node == <<up, blocked, hand, dead>>
sent == <<bus, net, lost>>
past == <<records, lifted, forgotten>>
vars == <<node, sent, past, rare>>

NoRecord == 0
Issued == 1..Len(records)
AgentOf(v) == records[v].agent
Origin(v) == records[v].origin
IssuedAgainst(a) == {v \in Issued : AgentOf(v) = a}

Init ==
  /\ up = Nodes
  /\ blocked = [n \in Nodes |-> {}]
  /\ hand = [n \in Nodes |-> NoRecord]
  /\ bus = {} /\ dead = {} /\ net = {} /\ lost = {}
  /\ records = <<>> /\ lifted = {} /\ forgotten = {}
  /\ rare = 0

-----------------------------------------------------------------------------
\* The local block left to the node's own copy.
TriggerByEcho(n, a) ==
  /\ n \in up /\ Len(records) < MaxRecords
  /\ records' = Append(records, [agent |-> a, origin |-> n])
  /\ bus' = bus \cup {Len(records) + 1} \X Forwarders
  /\ UNCHANGED <<node, net, lost, lifted, forgotten, rare>>

\* trigger_quarantine: blocks the agent here and shouts into the event bus.
Trigger(n, a) ==
  /\ n \in up /\ Len(records) < MaxRecords
  /\ records' = Append(records, [agent |-> a, origin |-> n])
  /\ blocked' = [blocked EXCEPT ![n] = @ \cup {a}]
  /\ LET v == Len(records) + 1
         deaf == {f \in Forwarders : <<n, f>> \in dead}
     IN  /\ bus' = bus \cup {v} \X (Forwarders \ deaf)
         /\ lost' = lost \cup {v} \X deaf \X Nodes
  /\ UNCHANGED <<up, hand, dead, net, lifted, forgotten, rare>>

\* broadcast_quarantine_sync by one forwarder: every running node is sent a
\* copy, the sender too.
Forward(v, f) ==
  /\ <<v, f>> \in bus
  /\ bus' = bus \ {<<v, f>>}
  /\ net' = net \cup {v} \X {f} \X up
  /\ lost' = lost \cup {v} \X {f} \X (Nodes \ up)
  /\ UNCHANGED <<node, past, rare>>

Rarely == rare < MaxRare /\ rare' = rare + 1

\* The put fails: it is logged and the record is not sent again.
PutFails(v, f) ==
  /\ Rarely
  /\ <<v, f>> \in bus
  /\ bus' = bus \ {<<v, f>>}
  /\ lost' = lost \cup {v} \X {f} \X Nodes
  /\ UNCHANGED <<node, net, past>>

\* recv returns Lagged: the loop ends and takes its queue with it.
Lag(n, f) ==
  /\ Rarely
  /\ n \in up /\ <<n, f>> \notin dead
  /\ dead' = dead \cup {<<n, f>>}
  /\ LET queue == {v \in Issued : Origin(v) = n /\ <<v, f>> \in bus}
     IN  /\ queue # {}
         /\ bus' = bus \ (queue \X {f})
         /\ lost' = lost \cup queue \X {f} \X Nodes
  /\ UNCHANGED <<up, blocked, hand, net, past>>

\* Zenoh drops the sample under congestion.
Drop(c) ==
  /\ Rarely
  /\ c \in net
  /\ net' = net \ {c} /\ lost' = lost \cup {c}
  /\ UNCHANGED <<node, bus, past>>

\* A remote record handled as trigger_quarantine handles a local one.
ArriveShouts(v, f, n) ==
  /\ n \in up /\ hand[n] = NoRecord
  /\ <<v, f, n>> \in net
  /\ net' = net \ {<<v, f, n>>}
  /\ hand' = [hand EXCEPT ![n] = v]
  /\ bus' = bus \cup {v} \X Forwarders
  /\ UNCHANGED <<up, blocked, dead, lost, past, rare>>

\* assimilate_remote_quarantine: a record of an agent blocked already is not
\* looked at; any other is inserted in a step of its own.
Arrive(v, f, n) ==
  /\ n \in up /\ hand[n] = NoRecord
  /\ <<v, f, n>> \in net
  /\ net' = net \ {<<v, f, n>>}
  /\ hand' = [hand EXCEPT ![n] = IF AgentOf(v) \in blocked[n] THEN NoRecord ELSE v]
  /\ UNCHANGED <<up, blocked, dead, bus, lost, past, rare>>

\* It sends SecurityBreach on the bus, which no forwarder takes.
Insert(n) ==
  /\ hand[n] # NoRecord
  /\ blocked' = [blocked EXCEPT ![n] = @ \cup {AgentOf(hand[n])}]
  /\ hand' = [hand EXCEPT ![n] = NoRecord]
  /\ UNCHANGED <<up, dead, sent, past, rare>>

\* lift_qurantine_and_resurrect and time_travel_endpoint: on this node only.
Lift(n, a) ==
  /\ Rarely
  /\ n \in up /\ a \in blocked[n]
  /\ blocked' = [blocked EXCEPT ![n] = @ \ {a}]
  /\ lifted' = lifted \cup {n} \X IssuedAgainst(a)
  /\ UNCHANGED <<up, hand, dead, sent, records, forgotten>>

\* The blocklist, the bus and the subscriber are in memory.
Crash(n) ==
  /\ Rarely
  /\ n \in up
  /\ up' = up \ {n}
  /\ blocked' = [blocked EXCEPT ![n] = {}]
  /\ hand' = [hand EXCEPT ![n] = NoRecord]
  /\ LET queue == {e \in bus : Origin(e[1]) = n}
     IN  bus' = bus \ queue /\ lost' = lost \cup {<<e[1], e[2], m>> : e \in queue, m \in Nodes}
  /\ net' = {c \in net : c[3] # n}
  /\ dead' = {d \in dead : d[1] # n}
  /\ forgotten' = forgotten \cup {n} \X Issued
  /\ UNCHANGED <<records, lifted>>

Boot(n) ==
  /\ n \in Nodes \ up
  /\ up' = up \cup {n}
  /\ UNCHANGED <<blocked, hand, dead, sent, past, rare>>

-----------------------------------------------------------------------------
Next ==
  \/ \E n \in Nodes, a \in Agents : Trigger(n, a) \/ Lift(n, a)
  \/ \E v \in Issued, f \in Forwarders : Forward(v, f) \/ PutFails(v, f)
  \/ \E n \in Nodes, f \in Forwarders : Lag(n, f)
  \/ \E c \in net : Drop(c)
  \/ \E v \in Issued, f \in Forwarders, n \in Nodes : Arrive(v, f, n)
  \/ \E n \in Nodes : Insert(n) \/ Crash(n) \/ Boot(n)

\* The loops and the subscriber are tasks of a multi-threaded runtime.
Tasks ==
  /\ \A v \in 1..MaxRecords, f \in Forwarders : WF_vars(v \in Issued /\ Forward(v, f))
  /\ \A v \in 1..MaxRecords, f \in Forwarders, n \in Nodes :
       WF_vars(v \in Issued /\ Arrive(v, f, n))
  /\ \A n \in Nodes : WF_vars(Insert(n))

Spec == Init /\ [][Next]_vars
FairSpec == Spec /\ Tasks

-----------------------------------------------------------------------------
(* Types: events and copies are of records issued so far.                  *)
TypeOK ==
  /\ up \subseteq Nodes
  /\ blocked \in [Nodes -> SUBSET Agents]
  /\ records \in Seq([agent : Agents, origin : Nodes]) /\ Len(records) <= MaxRecords
  /\ hand \in [Nodes -> Issued \cup {NoRecord}]
  /\ bus \subseteq Issued \X Forwarders
  /\ dead \subseteq Nodes \X Forwarders
  /\ net \subseteq Issued \X Forwarders \X Nodes
  /\ lost \subseteq Issued \X Forwarders \X Nodes
  /\ lifted \subseteq Nodes \X Issued
  /\ forgotten \subseteq Nodes \X Issued
  /\ rare \in 0..MaxRare

Quiet == bus = {} /\ net = {} /\ \A n \in Nodes : hand[n] = NoRecord

(* One copy is enough: once everything is delivered, a node blocks the     *)
(* agent of each record it made or of which either forwarder's copy was    *)
(* not lost, unless it lifted that quarantine or stopped since             *)
(* (main.rs 309-321 and 499-517, aegis.rs 219-247).                        *)
Escapes(n, v) == <<n, v>> \in lifted \/ <<n, v>> \in forgotten
QuietMeansKnown ==
  Quiet => \A v \in Issued, n \in Nodes :
    \/ n # Origin(v) /\ \A f \in Forwarders : <<v, f, n>> \in lost
    \/ AgentOf(v) \in blocked[n]
    \/ Escapes(n, v)

(* Records do not echo: when nobody is quarantined any more, the mesh      *)
(* falls silent for good (aegis.rs 219-247 sends no sync event).           *)
MeshGoesQuiet == <>[]Quiet
=============================================================================
