----------------------------- MODULE AgentCalls -----------------------------
(***************************************************************************)
(* Questions between agents: asked over a WebSocket of the gateway         *)
(* (raqim-core/src/api.rs, the MCP server and the Python SDK behind it) or *)
(* by a WASM guest (sandbox.rs), sent over the mesh by execute_a2a_rpc and *)
(* answered by the loop that register_agent_capability runs for each       *)
(* capability (network.rs).                                                *)
(*                                                                         *)
(* A query reaches every listener of its capability: allow_global_a2a is   *)
(* created true and never changed.  The mesh is external: a reply may be   *)
(* late, and a query that all who held it have dropped is closed.          *)
(*                                                                         *)
(* What a listener hands the question to depends on who registered it: the *)
(* gateway for a WebSocket client, the sandbox for a guest (as its code is *)
(* written: today no guest gets as far as to run), or a program            *)
(* that passes a plain closure, like tests/a2a_chaos_test.rs.  The first   *)
(* two block the thread with Handle::block_on and blocking_send, which     *)
(* tokio answers with a panic inside a task.                               *)
(***************************************************************************)
EXTENDS Naturals, Sequences, FiniteSets

CONSTANTS
  Questions,   \* the questions asked, each on a connection of its own
  Guests,      \* those asked by WASM guests
  Listeners,   \* capability registrations of the capability asked
  NoQuestion   \* stands for no question

ASSUME QuestionAssumption == Guests \subseteq Questions /\ NoQuestion \notin Questions

VARIABLES
  call,     \* question -> how far the asker's daemon has got with it
  socket,   \* the questions whose asker still listens
  told,     \* question -> what its asker was told, in order
  replies,  \* question -> the listeners whose reply is in the reply channel
  loop,     \* listener -> where its loop is
  kind,     \* listener -> who registered it
  current,  \* listener -> the question its loop is busy with
  inbox,    \* listener -> queries it has not taken
  pending,  \* pending_a2a_requests: <<l, q>>, the pipe of q in the map of l's client
  handled,  \* history: <<l, q>>, question q was handed to the agent behind l
  refused   \* history: <<l, q>>, the check at l refused q

asker    == <<call, socket, told>>
listener == <<loop, current, inbox>>
history  == <<handled, refused>>
vars     == <<asker, replies, listener, kind, pending, history>>

Kinds == {"socket", "guest", "closure"}
Busy  == {"checking", "handling", "again", "repeating"}

Init ==
  /\ call = [q \in Questions |-> "new"] /\ socket = Questions
  /\ told = [q \in Questions |-> <<>>]
  /\ replies = [q \in Questions |-> {}]
  /\ loop = [l \in Listeners |-> "off"] /\ kind \in [Listeners -> Kinds]
  /\ current = [l \in Listeners |-> NoQuestion]
  /\ inbox = [l \in Listeners |-> <<>>]
  /\ pending = {} /\ handled = {} /\ refused = {}

\* What the asker hears of q: nothing, once it has hung up.
Tell(q, what) ==
  told' = IF q \in socket THEN [told EXCEPT ![q] = Append(@, what)] ELSE told

-----------------------------------------------------------------------------
(* The client of a WebSocket writes AskQuestion, and its connection gets a   *)
(* task for it.                                                              *)
Ask(q) ==
  /\ q \notin Guests
  /\ call[q] = "new"
  /\ call' = [call EXCEPT ![q] = "asked"]
  /\ UNCHANGED <<socket, told, replies, listener, kind, pending, history>>

(* A guest calls host_ask_agent, which blocks its thread until it is told.   *)
AskAsGuest(q) ==
  /\ q \in Guests
  /\ call[q] = "new"
  /\ call' = [call EXCEPT ![q] = "asked"]
  /\ UNCHANGED <<socket, told, replies, listener, kind, pending, history>>

(* The frame does not parse, or the certificate is not hex: nobody is told.  *)
Ignore(q) ==
  /\ call[q] \in {"new", "asked"}
  /\ q \notin Guests
  /\ call' = [call EXCEPT ![q] = "ignored"]
  /\ UNCHANGED <<socket, told, replies, listener, kind, pending, history>>

(* The lineage, or the fast check, refuses it: here or in execute_a2a_rpc.   *)
Refuse(q) ==
  /\ call[q] = "asked"
  /\ call' = [call EXCEPT ![q] = "settled"]
  /\ Tell(q, "error")
  /\ UNCHANGED <<socket, replies, listener, kind, pending, history>>

\* The task that asks dies.  A socket stays open, a guest dies with its host call.
Dies(q) ==
  /\ call' = [call EXCEPT ![q] = "died"]
  /\ socket' = socket \ (Guests \cap {q})
  /\ UNCHANGED <<told, replies, listener, kind, pending, history>>

(* The fast check panics: it slices a blocked namespace that ends in "*" one *)
(* past its end.  aegis.toml has such namespaces for two of its groups.      *)
CheckPanics(q) == call[q] = "asked" /\ Dies(q)

(* session.get is unwrapped: the capability makes no key expression ("/x"    *)
(* gives a2a//x), or shutdown has closed the session and the gateway serves  *)
(* on.                                                                       *)
QueryPanics(q) == call[q] = "asked" /\ Dies(q)

Listening(l) == loop[l] \notin {"off", "gone"}

(* execute_a2a_rpc: session.get, to all who listen.                          *)
Query(q) ==
  /\ call[q] = "asked"
  /\ call' = [call EXCEPT ![q] = "waiting"]
  /\ inbox' = [l \in Listeners |->
                 IF Listening(l) THEN Append(inbox[l], q) ELSE inbox[l]]
  /\ UNCHANGED <<socket, told, replies, loop, kind, current, pending, history>>

\* The question after its first reply: recv_async is called once.
StillWaiting == "waiting"
AfterReply == "settled"

(* The first reply to come out of the channel is the answer ...              *)
Answer(q) ==
  /\ call[q] = "waiting"
  /\ replies[q] # {}
  /\ call' = [call EXCEPT ![q] = AfterReply]
  /\ Tell(q, "answer")
  /\ UNCHANGED <<socket, replies, listener, kind, pending, history>>

\* Somebody may still reply to q.
Open(q) ==
  \E l \in Listeners :
    current[l] = q \/ \E i \in 1..Len(inbox[l]) : inbox[l][i] = q

(* ... unless all have dropped the query ...                                 *)
Closed(q) ==
  /\ call[q] = "waiting"
  /\ replies[q] = {} /\ ~Open(q)
  /\ call' = [call EXCEPT ![q] = "settled"]
  /\ Tell(q, "error")
  /\ UNCHANGED <<socket, replies, listener, kind, pending, history>>

\* timeout(15 s).
Forever(q) == FALSE
Overdue(q) == call[q] = "waiting"

(* ... or the time is up.                                                    *)
TimeOut(q) ==
  /\ Overdue(q)
  /\ call' = [call EXCEPT ![q] = "settled"]
  /\ Tell(q, "error")
  /\ UNCHANGED <<socket, replies, listener, kind, pending, history>>

(* The asker hangs up, after 15 s of its own or any time before.             *)
Leave(q) ==
  /\ q \in socket \ Guests
  /\ socket' = socket \ {q}
  /\ UNCHANGED <<call, told, replies, listener, kind, pending, history>>

-----------------------------------------------------------------------------
(* register_agent_capability: the queryable is declared.                     *)
Register(l) ==
  /\ loop[l] = "off"
  /\ loop' = [loop EXCEPT ![l] = "free"]
  /\ UNCHANGED <<asker, replies, kind, current, inbox, pending, history>>

(* ... or is not: the capability makes no key expression.                    *)
RegisterPanics(l) ==
  /\ loop[l] = "off"
  /\ loop' = [loop EXCEPT ![l] = "gone"]
  /\ UNCHANGED <<asker, replies, kind, current, inbox, pending, history>>

(* The loop takes the oldest query ...                                       *)
Take(l) ==
  /\ loop[l] = "free"
  /\ inbox[l] # <<>>
  /\ loop' = [loop EXCEPT ![l] = "checking"]
  /\ current' = [current EXCEPT ![l] = Head(inbox[l])]
  /\ inbox' = [inbox EXCEPT ![l] = Tail(@)]
  /\ UNCHANGED <<asker, replies, kind, pending, history>>

\* The loop drops the query and turns to the next.
Keeps(l) == loop' = [loop EXCEPT ![l] = "free"] /\ UNCHANGED current
Drops(l) ==
  /\ loop' = [loop EXCEPT ![l] = "free"]
  /\ current' = [current EXCEPT ![l] = NoQuestion]

\* What a refusal does: `continue`.
FallsThrough(l) == loop' = [loop EXCEPT ![l] = "again"] /\ UNCHANGED current
Continues(l) == Drops(l)

(* ... checks it again, and may refuse it: its policy, its blocklist, its    *)
(* clock are not the asker's ...                                             *)
Reject(l) ==
  /\ loop[l] = "checking"
  /\ Continues(l)
  /\ refused' = refused \cup {<<l, current[l]>>}
  /\ UNCHANGED <<asker, replies, kind, inbox, pending, handled>>

(* ... or hands it to the agent.                                             *)
Approve(l) ==
  /\ loop[l] = "checking"
  /\ loop' = [loop EXCEPT ![l] = "handling"]
  /\ handled' = handled \cup {<<l, current[l]>>}
  /\ UNCHANGED <<asker, replies, kind, current, inbox, pending, refused>>

\* The task of the loop is gone, and with it the query and those that wait.
Unwind(l) ==
  /\ loop' = [loop EXCEPT ![l] = "gone"]
  /\ current' = [current EXCEPT ![l] = NoQuestion]
  /\ inbox' = [inbox EXCEPT ![l] = <<>>]

(* ... or the check panics, as it may at the asker.                          *)
AuditPanics(l) ==
  /\ loop[l] = "checking"
  /\ Unwind(l)
  /\ UNCHANGED <<asker, replies, kind, pending, history>>

(* The gateway's closure enters a pipe in the map, has the question sent to  *)
(* its client, and panics in block_on.                                       *)
SocketPanics(l) ==
  /\ loop[l] = "handling"
  /\ kind[l] = "socket"
  /\ pending' = pending \cup {<<l, current[l]>>}
  /\ Unwind(l)
  /\ UNCHANGED <<asker, replies, kind, history>>

(* The sandbox's closure panics in blocking_send.                            *)
GuestPanics(l) ==
  /\ loop[l] = "handling"
  /\ kind[l] = "guest"
  /\ Unwind(l)
  /\ UNCHANGED <<asker, replies, kind, pending, history>>

(* Any other closure returns in its own time, and the answer is sent.        *)
Reply(l) ==
  /\ loop[l] = "handling"
  /\ kind[l] = "closure"
  /\ replies' = [replies EXCEPT ![current[l]] = @ \cup {l}]
  /\ loop' = [loop EXCEPT ![l] = "again"]
  /\ UNCHANGED <<asker, kind, current, inbox, pending, history>>

(* ... the mesh does not take it: a warning.                                 *)
ReplyFails(l) ==
  /\ loop[l] = "handling"
  /\ kind[l] = "closure"
  /\ loop' = [loop EXCEPT ![l] = "again"]
  /\ UNCHANGED <<asker, replies, kind, current, inbox, pending, history>>

(* Behind the match the closure is called a second time ...                  *)
CallAgain(l) ==
  /\ loop[l] = "again"
  /\ loop' = [loop EXCEPT ![l] = "repeating"]
  /\ handled' = handled \cup {<<l, current[l]>>}
  /\ UNCHANGED <<asker, replies, kind, current, inbox, pending, refused>>

(* ... and its answer is sent a second time ...                              *)
ReplyAgain(l) ==
  /\ loop[l] = "repeating"
  /\ replies' = [replies EXCEPT ![current[l]] = @ \cup {l}]
  /\ Drops(l)
  /\ UNCHANGED <<asker, kind, inbox, pending, history>>

(* ... where a failure is unwrapped.                                         *)
ReplyAgainFails(l) ==
  /\ loop[l] = "repeating"
  /\ Unwind(l)
  /\ UNCHANGED <<asker, replies, kind, pending, history>>

(* ReplyToQuestion: the client of the gateway answers; the pipe is taken out *)
(* of the map, and nobody is at its other end.                               *)
ClientReplies(l, q) ==
  /\ <<l, q>> \in pending
  /\ pending' = pending \ {<<l, q>>}
  /\ UNCHANGED <<asker, replies, listener, kind, history>>

-----------------------------------------------------------------------------
Asker(q) ==
  \/ Refuse(q) \/ CheckPanics(q) \/ Query(q) \/ QueryPanics(q)
  \/ Answer(q) \/ Closed(q) \/ TimeOut(q)

Loop(l) ==
  \/ Take(l) \/ Reject(l) \/ Approve(l) \/ AuditPanics(l)
  \/ SocketPanics(l) \/ GuestPanics(l)
  \/ Reply(l) \/ ReplyFails(l) \/ CallAgain(l) \/ ReplyAgain(l) \/ ReplyAgainFails(l)

Next ==
  \/ \E q \in Questions : Ask(q) \/ AskAsGuest(q) \/ Ignore(q) \/ Asker(q) \/ Leave(q)
  \/ \E l \in Listeners : Register(l) \/ RegisterPanics(l) \/ Loop(l)
  \/ \E l \in Listeners, q \in Questions : ClientReplies(l, q)

\* The asker's task is polled and its timer fires.  Nothing makes an agent answer,
\* and a closure may block the thread of its loop for ever.
Fairness == \A q \in Questions : WF_vars(Asker(q))

Spec == Init /\ [][Next]_vars /\ Fairness

-----------------------------------------------------------------------------
(* Types; a loop is busy exactly when it holds a query.                      *)
TypeOK ==
  /\ call \in [Questions -> {"new", "asked", "ignored", "waiting", "settled", "died"}]
  /\ socket \in SUBSET Questions
  /\ told \in [Questions -> Seq({"answer", "error"})]
  /\ replies \in [Questions -> SUBSET Listeners]
  /\ loop \in [Listeners -> {"off", "free", "gone"} \cup Busy]
  /\ kind \in [Listeners -> Kinds]
  /\ current \in [Listeners -> Questions \cup {NoQuestion}]
  /\ \A l \in Listeners : loop[l] \in Busy <=> current[l] # NoQuestion
  /\ inbox \in [Listeners -> Seq(Questions)]
  /\ pending \in SUBSET (Listeners \X Questions)
  /\ handled \in SUBSET (Listeners \X Questions)
  /\ refused \in SUBSET (Listeners \X Questions)

\* An asker is told one thing about its question, however many listeners there are
\* and although each of them replies twice (network.rs 194-227 against 425-451).
ToldOnce == \A q \in Questions : Len(told[q]) <= 1

\* A question that the check at a listener refuses never reaches the agent behind
\* it, by neither of the two calls of the handler (network.rs 399-451).
RefusedIsNeverHandled == handled \cap refused = {}

\* Who asks a question that can be read hears of it, or has hung up, whatever the
\* listeners do: one that panics, blocks or never existed does not keep it.  Only a
\* panic of the task that asks leaves it in the dark, on a socket that stays open:
\* in the check or in the query it unwraps (api.rs 375-471, network.rs 186-227,
\* aegis.rs 319, tests/a2a_chaos_test.rs 66-90).
OnlyAPanicIsSilent ==
  \A q \in Questions :
    call[q] = "asked" ~> \/ call[q] \in {"ignored", "died"}
                         \/ told[q] # <<>> \/ q \notin socket
=============================================================================
