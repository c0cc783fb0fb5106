------------------------------ MODULE Cascade ------------------------------
(***************************************************************************)
(* A thought on its way through the daemon: read by the worker of a TCP    *)
(* session (raqim-core/src/main.rs) or handed to a detached task by the    *)
(* HTTP gateway (api.rs), then through execute_raqim_cascade (lib.rs): the *)
(* CRDT shard of its namespace (state.rs), the ledger, the write-ahead log *)
(* and the mesh egress; and the graceful shutdown of main, which drains    *)
(* the sessions and waits for the log's worker.                            *)
(*                                                                         *)
(* The log is the one of WalLog.tla, which Nucleus.tla implements.  What   *)
(* sealing does to the ledger is in Axon.tla, the checks that refuse a     *)
(* packet in Aegis.tla; here a packet may be refused at any of them.  The  *)
(* process table of the console (touch_agent) and the read-only rebuild    *)
(* that a handshake packet starts are left out, and so is what follows a   *)
(* restart: Nucleus.tla and Compaction.tla are about that.                 *)
(***************************************************************************)
EXTENDS Naturals, Sequences, FiniteSets

CONSTANTS
  Sessions,     \* TCP connections, each served by a worker of its own
  PerSession,   \* bound: thoughts a client sends over a connection
  Detached,     \* thoughts accepted by the HTTP gateway
  Spaces,       \* namespaces
  Phantoms,     \* the namespaces "phantom_..."
  QueueCap,     \* capacity of the log's channel (100_000)
  EgressCap,    \* capacity of the egress channel (100_000)
  Unmade        \* stands for no brain

ASSUME SpacesAssumption == Phantoms \subseteq Spaces
ASSUME BoundAssumption ==
  /\ PerSession \in Nat
  /\ QueueCap \in Nat \ {0} /\ EgressCap \in Nat \ {0}

Spoken   == Sessions \X (1..PerSession)
Thoughts == Spoken \cup Detached

ASSUME DetachedAssumption == Detached \cap Spoken = {}

\* A brain is named after the thought whose task allocated it.
ASSUME UnmadeAssumption == Unmade \notin Thoughts

\* Those who hold a handle of the log besides the cascades under way.
Holders == {"main", "router", "orchestrator", "gateway"}

VARIABLES
  phase,     \* of main: serving, or how far the shutdown has got
  holders,   \* who still holds a handle of the log
  worker,    \* session -> its worker
  sent,      \* session -> thoughts the client has written
  read,      \* session -> thoughts the worker has read
  hungUp,    \* the sessions whose client has closed its end
  stage,     \* thought -> how far its cascade has got
  space,     \* thought -> its namespace, once its cascade has begun
  held,      \* thought -> the brain its task holds
  shards,    \* namespace -> its brain in the registry
  timeline,  \* brain -> the thoughts appended to it
  logUp,     \* the log's worker task lives
  queue, fate,   \* the log
  egress     \* thoughts in the egress channel

client  == <<sent, hungUp>>
session == <<worker, read>>
brains  == <<space, held, shards, timeline>>
log     == <<logUp, queue, fate>>
vars    == <<phase, holders, client, session, stage, brains, log, egress>>

Log == INSTANCE WalLog WITH Logs <- Thoughts

Stages == {"none", "begun", "making", "holding", "merged", "logged", "done",
           "refused"}
Merged   == {"merged", "logged", "done"}
Finished == {"done", "refused"}

Alive == phase \notin {"ended", "down"}

Init ==
  /\ phase = "serving" /\ holders = Holders
  /\ worker = [s \in Sessions |-> "none"]
  /\ sent = [s \in Sessions |-> 0] /\ read = [s \in Sessions |-> 0]
  /\ hungUp = {}
  /\ stage = [t \in Thoughts |-> "none"]
  /\ space = [t \in Thoughts |-> Unmade]
  /\ held = [t \in Thoughts |-> Unmade]
  /\ shards = [n \in Spaces |-> Unmade]
  /\ timeline = [b \in Thoughts |-> {}]
  /\ logUp = TRUE /\ Log!Init
  /\ egress = 0

\* Memory after a crash holds none of it.
Forgotten ==
  /\ holders' = {}
  /\ worker' = [s \in Sessions |-> "ended"]
  /\ sent' = [s \in Sessions |-> 0] /\ read' = [s \in Sessions |-> 0]
  /\ hungUp' = Sessions
  /\ stage' = [t \in Thoughts |-> "none"]
  /\ space' = [t \in Thoughts |-> Unmade]
  /\ held' = [t \in Thoughts |-> Unmade]
  /\ shards' = [n \in Spaces |-> Unmade]
  /\ timeline' = [b \in Thoughts |-> {}]
  /\ egress' = 0

\* The thought the worker of s read last, if it has read any.
Current(s) == <<s, read[s]>>

\* A cascade moves from one stage to the next.
Move(t, from, to) ==
  /\ Alive
  /\ stage[t] = from
  /\ stage' = [stage EXCEPT ![t] = to]

-----------------------------------------------------------------------------
(* The client: the MCP server, the SDK.  It connects, writes packets and     *)
(* hangs up, and is told nothing in between (mcp commit_thought).            *)
Send(s) ==
  /\ worker[s] # "none"
  /\ s \notin hungUp
  /\ sent[s] < PerSession
  /\ sent' = [sent EXCEPT ![s] = @ + 1]
  /\ UNCHANGED <<phase, holders, hungUp, session, stage, brains, log, egress>>

HangUp(s) ==
  /\ worker[s] # "none"
  /\ s \notin hungUp
  /\ hungUp' = hungUp \cup {s}
  /\ UNCHANGED <<phase, holders, sent, session, stage, brains, log, egress>>

(* The accept loop, until the shutdown breaks it.                            *)
Connect(s) ==
  /\ phase = "serving"
  /\ worker[s] = "none"
  /\ worker' = [worker EXCEPT ![s] = "live"]
  /\ UNCHANGED <<phase, holders, client, read, stage, brains, log, egress>>

\* The worker awaits the cascade of a packet before it reads the next.
ReadyAtOnce(s) == TRUE
Ready(s) == read[s] > 0 => stage[Current(s)] \in Finished

(* The worker reads a packet, and every check accepts it ...                 *)
Read(s) ==
  /\ Alive
  /\ worker[s] = "live" /\ Ready(s)
  /\ read[s] < sent[s]
  /\ read' = [read EXCEPT ![s] = @ + 1]
  /\ stage' = [stage EXCEPT ![<<s, read[s] + 1>>] = "begun"]
  /\ \E n \in Spaces : space' = [space EXCEPT ![<<s, read[s] + 1>>] = n]
  /\ UNCHANGED <<phase, holders, client, worker, held, shards, timeline, log, egress>>

(* ... or one does not: the session is over, whatever else is on the wire. A *)
(* check that panics (aegis.rs:319) ends the task of the session the same way. *)
Interdict(s) ==
  /\ Alive
  /\ worker[s] = "live" /\ Ready(s)
  /\ read[s] < sent[s]
  /\ read' = [read EXCEPT ![s] = @ + 1]
  /\ stage' = [stage EXCEPT ![<<s, read[s] + 1>>] = "refused"]
  /\ worker' = [worker EXCEPT ![s] = "ended"]
  /\ UNCHANGED <<phase, holders, client, brains, log, egress>>

\* When the worker finds the end of the stream: behind all that was sent.
IgnoresEnd(s) == FALSE
AtEnd(s) == s \in hungUp /\ read[s] = sent[s]

(* ... or the stream is at its end, or broken.                               *)
Disconnected(s) ==
  /\ Alive
  /\ worker[s] = "live" /\ Ready(s)
  /\ AtEnd(s)
  /\ worker' = [worker EXCEPT ![s] = "ended"]
  /\ UNCHANGED <<phase, holders, client, read, stage, brains, log, egress>>

Broken(s) ==
  /\ Alive
  /\ worker[s] = "live" /\ Ready(s)
  /\ hungUp' = hungUp \cup {s}
  /\ worker' = [worker EXCEPT ![s] = "ended"]
  /\ UNCHANGED <<phase, holders, sent, read, stage, brains, log, egress>>

(* http_ingress_endpoint: the checks pass, a task of its own gets the        *)
(* thought, and the client is answered at once.  The gateway serves during   *)
(* the shutdown as well.                                                     *)
Ingress(t) ==
  /\ Move(t, "none", "begun")
  /\ \E n \in Spaces : space' = [space EXCEPT ![t] = n]
  /\ UNCHANGED <<phase, holders, client, session, held, shards, timeline, log, egress>>

-----------------------------------------------------------------------------
(* execute_raqim_cascade.  No agent id, or one of zeros: an error.           *)
Anonymous(t) ==
  /\ Move(t, "begun", "refused")
  /\ UNCHANGED <<phase, holders, client, session, brains, log, egress>>

(* get_or_create_brain, first pass: the shard is there ...                   *)
FindBrain(t) ==
  /\ Move(t, "begun", "holding")
  /\ shards[space[t]] # Unmade
  /\ held' = [held EXCEPT ![t] = shards[space[t]]]
  /\ UNCHANGED <<phase, holders, client, session, space, shards, timeline, log, egress>>

(* ... or is not, and a new one is allocated with no lock held.              *)
AllocateBrain(t) ==
  /\ Move(t, "begun", "making")
  /\ shards[space[t]] = Unmade
  /\ UNCHANGED <<phase, holders, client, session, brains, log, egress>>

\* What the second pass leaves in the registry.
Insert(t) == t
EntryOrInsert(t) == IF shards[space[t]] = Unmade THEN t ELSE shards[space[t]]

(* ... second pass: entry, or_insert.                                        *)
EnterBrain(t) ==
  /\ Move(t, "making", "holding")
  /\ shards' = [shards EXCEPT ![space[t]] = EntryOrInsert(t)]
  /\ held' = [held EXCEPT ![t] = EntryOrInsert(t)]
  /\ UNCHANGED <<phase, holders, client, session, space, timeline, log, egress>>

(* append_agent_thought, under the write lock of the brain, which is let go. *)
Merge(t) ==
  /\ Move(t, "holding", "merged")
  /\ timeline' = [timeline EXCEPT ![held[t]] = @ \cup {t}]
  /\ held' = [held EXCEPT ![t] = Unmade]
  /\ UNCHANGED <<phase, holders, client, session, space, shards, log, egress>>

\* The log's channel takes another thought.
LogHasRoomOffByOne == Len(queue) <= QueueCap
LogHasRoom == Len(queue) < QueueCap

(* The thought is sealed, and wal.append waits for room in the channel;      *)
(* without a worker it fails, and the cascade goes on as if it had not.      *)
LogThought(t) ==
  /\ Move(t, "merged", "logged")
  /\ \/ logUp /\ LogHasRoom /\ Log!Accept(t)
     \/ ~logUp /\ Log!Refuse(t)
  /\ UNCHANGED <<phase, holders, client, session, brains, logUp, egress>>

(* broadcast_to_world waits for room too; then ThoughtCommitted is sent.     *)
Announce(t) ==
  /\ egress < EgressCap
  /\ Move(t, "logged", "done")
  /\ egress' = egress + 1
  /\ UNCHANGED <<phase, holders, client, session, brains, log>>

Cascade(t) ==
  \/ Anonymous(t)
  \/ FindBrain(t) \/ AllocateBrain(t) \/ EnterBrain(t) \/ Merge(t)
  \/ LogThought(t) \/ Announce(t)

\* The egress loop drops what it receives: allow_wan is never set (main.rs 118).
Licensed == FALSE
Unlicensed == TRUE

EgressDrops ==
  /\ Alive
  /\ egress > 0
  /\ Unlicensed
  /\ egress' = egress - 1
  /\ UNCHANGED <<phase, holders, client, session, stage, brains, log>>

\* The shards nobody but the registry holds.
AnyPhantom(n) == n \in Phantoms
DeadPhantom(n) == n \in Phantoms /\ \A t \in Thoughts : held[t] # shards[n]

(* purge_phantom_shards, at the end of a simulation.                         *)
Purge ==
  /\ Alive
  /\ \E n \in Phantoms : shards[n] # Unmade
  /\ shards' = [n \in Spaces |-> IF DeadPhantom(n) THEN Unmade ELSE shards[n]]
  /\ UNCHANGED <<phase, holders, client, session, stage, space, held, timeline,
                 log, egress>>

-----------------------------------------------------------------------------
(* The log's worker settles what it has accepted ...                         *)
SettleLog ==
  /\ Alive /\ logUp
  /\ Log!Settle
  /\ UNCHANGED <<phase, holders, client, session, stage, brains, logUp, egress>>

(* ... or panics in a rotation.                                              *)
LogPanics ==
  /\ Alive /\ logUp
  /\ logUp' = FALSE
  /\ Log!Lose
  /\ UNCHANGED <<phase, holders, client, session, stage, brains, egress>>

-----------------------------------------------------------------------------
(* SIGTERM: the accept loop breaks.  Nothing tells the workers.              *)
Cancel ==
  /\ phase = "serving"
  /\ phase' = "draining"
  /\ UNCHANGED <<holders, client, session, stage, brains, log, egress>>

\* join_next returns None: every worker has ended.
NobodyJoined == TRUE
AllJoined == \A s \in Sessions : worker[s] # "live"

(* The drain is over, and the mesh session is closed.                        *)
Drained ==
  /\ phase = "draining"
  /\ AllJoined
  /\ phase' = "severed"
  /\ UNCHANGED <<holders, client, session, stage, brains, log, egress>>

(* drop(wal), and handle.await.                                              *)
DropLog ==
  /\ phase = "severed"
  /\ phase' = "sealing"
  /\ holders' = holders \ {"main"}
  /\ UNCHANGED <<client, session, stage, brains, log, egress>>

\* The worker is not awaited.
NotAwaited == TRUE

\* The log's worker ends once no handle of it is left, with logs in the queue if
\* select! sees the closed command channel first, or when it has panicked.
LogEnded ==
  \/ /\ holders = {}
     /\ \A t \in Thoughts : stage[t] \in Finished \cup {"none"}
  \/ ~logUp

End ==
  /\ phase = "sealing"
  /\ LogEnded
  /\ phase' = "ended"
  /\ UNCHANGED <<holders, client, session, stage, brains, log, egress>>

(* The pod is killed, or the process crashes.                                *)
Crash ==
  /\ Alive
  /\ phase' = "down"
  /\ logUp' = FALSE
  /\ Log!Lose
  /\ Forgotten

-----------------------------------------------------------------------------
Worker(s) == Read(s) \/ Interdict(s) \/ Disconnected(s) \/ Broken(s)
Shutdown  == Drained \/ DropLog \/ End

Next ==
  \/ \E s \in Sessions : Send(s) \/ HangUp(s) \/ Connect(s) \/ Worker(s)
  \/ \E t \in Detached : Ingress(t)
  \/ \E t \in Thoughts : Cascade(t)
  \/ EgressDrops \/ Purge \/ SettleLog \/ LogPanics
  \/ Cancel \/ Shutdown \/ Crash

\* The runtime polls every task that can move.  Nothing makes a client speak or
\* hang up, a packet be refused, a connection break, a signal arrive.
Fairness ==
  /\ \A s \in Sessions : WF_vars(Read(s) \/ Disconnected(s))
  /\ \A t \in Thoughts : WF_vars(Cascade(t))
  /\ WF_vars(EgressDrops) /\ WF_vars(SettleLog) /\ WF_vars(Shutdown)

Spec == Init /\ [][Next]_vars /\ Fairness

-----------------------------------------------------------------------------
(* Types, and the capacities of the two channels.                            *)
TypeOK ==
  /\ phase \in {"serving", "draining", "severed", "sealing", "ended", "down"}
  /\ holders \in SUBSET Holders
  /\ worker \in [Sessions -> {"none", "live", "ended"}]
  /\ sent \in [Sessions -> 0..PerSession] /\ read \in [Sessions -> 0..PerSession]
  /\ \A s \in Sessions : read[s] <= sent[s]
  /\ hungUp \in SUBSET Sessions
  /\ stage \in [Thoughts -> Stages]
  /\ space \in [Thoughts -> Spaces \cup {Unmade}]
  /\ \A t \in Thoughts : stage[t] \in Stages \ {"none", "refused"} => space[t] \in Spaces
  /\ held \in [Thoughts -> Thoughts \cup {Unmade}]
  /\ shards \in [Spaces -> Thoughts \cup {Unmade}]
  /\ timeline \in [Thoughts -> SUBSET Thoughts]
  /\ logUp \in BOOLEAN
  /\ Log!TypeOK /\ Len(queue) <= QueueCap
  /\ egress \in 0..EgressCap

\* No task appends to a brain that is not the shard of its namespace, and no
\* thought of a production namespace is in a brain the registry has let go: two
\* tasks that both miss the shard, and a purge meanwhile, do not split a timeline
\* (state.rs 121-137 and 145-157).
NoThoughtIsOrphaned ==
  \A t \in Thoughts :
    /\ stage[t] = "holding" => held[t] = shards[space[t]]
    /\ (stage[t] \in Merged /\ space[t] \notin Phantoms) =>
         t \in timeline[shards[space[t]]]

\* The thoughts of one session reach its timeline, and become durable, in the
\* order they were sent: none overtakes an earlier one in the CRDT, and when one is
\* durable, every earlier one is settled (main.rs 985-1004, lib.rs 187-212).
SessionOrder ==
  Alive => \A s \in Sessions : \A m, n \in 1..PerSession :
    m < n =>
      /\ stage[<<s, n>>] \in Merged => stage[<<s, m>>] \in Merged \cup {"refused"}
      /\ fate[<<s, n>>] = "published" =>
           \/ fate[<<s, m>>] \in {"published", "dropped"}
           \/ stage[<<s, m>>] = "refused"

\* "All active thoughts processed and sealed" (main.rs 1051): when the drain is
\* over, every thought a session's worker accepted has been handed to the log.
DrainIsComplete ==
  phase \in {"severed", "sealing", "ended"} =>
    \A t \in Spoken : stage[t] \in {"none", "refused"} \/ fate[t] # "new"

\* What is announced as committed before it is durable is settled in the end, and
\* so is every thought the daemon has accepted, as long as it lives (lib.rs 202-231).
EveryThoughtSettles ==
  \A t \in Thoughts :
    stage[t] = "begun" ~>
      \/ stage[t] = "refused"
      \/ stage[t] = "done" /\ fate[t] \in {"published", "dropped"}
      \/ ~Alive

\* A drain ends once every client has hung up: no worker is left waiting for a
\* channel, whatever the egress and the log do (main.rs 1042-1050).
DrainEnds ==
  (phase = "draining" /\ \A s \in Sessions : worker[s] = "live" => s \in hungUp)
    ~> phase # "draining"

\* A shutdown is over only if the log's worker has panicked before: main waits for
\* the worker, which lives as long as a handle of the log, and router, orchestrator
\* and gateway keep theirs.  "Terminated cleanly. Zero data loss" (main.rs 1057-1063)
\* is printed after a panic, or not at all.
OnlyAPanicEndsTheShutdown == phase = "ended" => ~logUp
=============================================================================
