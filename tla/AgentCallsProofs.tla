-------------------------- MODULE AgentCallsProofs --------------------------
(***************************************************************************)
(* Theorems about AgentCalls.tla, for any questions and listeners and      *)
(* whatever panics, fails or comes late: types, that an asker is told one  *)
(* thing, and that what a listener refuses never reaches its agent.        *)
(***************************************************************************)
EXTENDS AgentCalls, TLAPS, SequenceTheorems

-----------------------------------------------------------------------------
(* Types.                                                                    *)

Whats == {"answer", "error"}

LEMMA TellTypes ==
  ASSUME told \in [Questions -> Seq(Whats)], NEW q \in Questions, NEW what \in Whats,
         Tell(q, what)
  PROVE  /\ told' \in [Questions -> Seq(Whats)]
         /\ Len(told'[q]) \in {Len(told[q]), Len(told[q]) + 1}
         /\ \A p \in Questions : p # q => told'[p] = told[p]
<1>1. Append(told[q], what) \in Seq(Whats) /\ Len(Append(told[q], what)) = Len(told[q]) + 1
  BY AppendProperties
<1>2. CASE q \in socket
  <2>1. told' = [told EXCEPT ![q] = Append(told[q], what)]
    BY <1>2 DEF Tell
  <2> QED
    BY <1>1, <2>1
<1>3. CASE q \notin socket
  BY <1>3 DEF Tell
<1> QED
  BY <1>2, <1>3

LEMMA AskerTypes ==
  ASSUME TypeOK, NEW q \in Questions,
         Ask(q) \/ AskAsGuest(q) \/ Ignore(q) \/ Asker(q) \/ Leave(q)
  PROVE  TypeOK'
<1>1. CASE Ask(q) \/ AskAsGuest(q) \/ Ignore(q) \/ Leave(q)
  BY <1>1 DEF TypeOK, Ask, AskAsGuest, Ignore, Leave, listener, history
<1>2. CASE Refuse(q) \/ Answer(q) \/ Closed(q) \/ TimeOut(q)
  <2>1. /\ call' = [call EXCEPT ![q] = "settled"]
        /\ Tell(q, "answer") \/ Tell(q, "error")
        /\ UNCHANGED <<socket, replies, listener, kind, pending, history>>
    BY <1>2 DEF Refuse, Answer, Closed, TimeOut, AfterReply
  <2>2. told' \in [Questions -> Seq({"answer", "error"})]
    BY <2>1, TellTypes DEF TypeOK, Whats
  <2> QED
    BY <2>1, <2>2 DEF TypeOK, listener, history
<1>3. CASE Query(q)
  <2>1. \A l \in Listeners : Append(inbox[l], q) \in Seq(Questions)
    BY AppendProperties DEF TypeOK
  <2>2. inbox' \in [Listeners -> Seq(Questions)]
    BY <1>3, <2>1 DEF Query, TypeOK
  <2> QED
    BY <1>3, <2>2 DEF Query, TypeOK, history
<1>4. CASE CheckPanics(q) \/ QueryPanics(q)
  BY <1>4 DEF CheckPanics, QueryPanics, Dies, TypeOK, listener, history
<1> QED
  BY <1>1, <1>2, <1>3, <1>4 DEF Asker

LEMMA RepliesTypes ==
  ASSUME NEW f \in [Questions -> SUBSET Listeners], NEW q \in Questions,
         NEW S \in SUBSET Listeners
  PROVE  [f EXCEPT ![q] = S] \in [Questions -> SUBSET Listeners]
OBVIOUS

LEMMA LoopTypes ==
  ASSUME TypeOK, NEW l \in Listeners, Register(l) \/ RegisterPanics(l) \/ Loop(l)
  PROVE  TypeOK'
<1> USE QuestionAssumption DEF TypeOK, Busy, asker, history
<1>1. CASE Register(l) \/ RegisterPanics(l)
  BY <1>1 DEF Register, RegisterPanics
<1>2. CASE Take(l)
  <2>1. inbox[l] \in Seq(Questions) /\ inbox[l] # <<>>
    BY <1>2 DEF Take
  <2>2. Head(inbox[l]) \in Questions /\ Tail(inbox[l]) \in Seq(Questions)
    BY <2>1, HeadTailProperties
  <2>3. Head(inbox[l]) # NoQuestion
    BY <2>2
  <2> QED
    BY <1>2, <2>2, <2>3 DEF Take
<1>3. CASE Reject(l)
  BY <1>3 DEF Reject, Continues, Drops
<1>4. loop[l] \in Busy => <<l, current[l]>> \in Listeners \X Questions
  OBVIOUS
<1>5. CASE Approve(l) \/ CallAgain(l)
  <2>1. handled' \in SUBSET (Listeners \X Questions)
    BY <1>4, <1>5 DEF Approve, CallAgain
  <2> QED
    BY <1>5, <2>1 DEF Approve, CallAgain
<1>6. CASE Reply(l) \/ ReplyFails(l)
  <2>1. current[l] \in Questions
    BY <1>6 DEF Reply, ReplyFails
  <2>2. \/ replies' = replies
        \/ replies' = [replies EXCEPT ![current[l]] = replies[current[l]] \cup {l}]
    BY <1>6 DEF Reply, ReplyFails
  <2>3. replies' \in [Questions -> SUBSET Listeners]
    <3>1. replies[current[l]] \cup {l} \in SUBSET Listeners
      BY <2>1
    <3>2. [replies EXCEPT ![current[l]] = replies[current[l]] \cup {l}]
            \in [Questions -> SUBSET Listeners]
      BY <2>1, <3>1, RepliesTypes
    <3> QED
      BY <2>2, <3>2, Zenon
  <2> QED
    BY <1>6, <2>3 DEF Reply, ReplyFails
<1>7. CASE AuditPanics(l) \/ SocketPanics(l) \/ GuestPanics(l) \/ ReplyAgainFails(l)
  <2>1. inbox' \in [Listeners -> Seq(Questions)]
    <3>1. inbox' = [inbox EXCEPT ![l] = <<>>] /\ <<>> \in Seq(Questions)
      BY <1>7, EmptySeq DEF AuditPanics, SocketPanics, GuestPanics, ReplyAgainFails, Unwind
    <3> QED
      BY <3>1
  <2>2. pending' \in SUBSET (Listeners \X Questions)
    BY <1>4, <1>7 DEF AuditPanics, SocketPanics, GuestPanics, ReplyAgainFails
  <2> QED
    BY <1>7, <2>1, <2>2 DEF AuditPanics, SocketPanics, GuestPanics, ReplyAgainFails, Unwind
<1>8. CASE ReplyAgain(l)
  BY <1>8 DEF ReplyAgain, Drops
<1> QED
  BY <1>1, <1>2, <1>3, <1>5, <1>6, <1>7, <1>8 DEF Loop

LEMMA TypesAtStart == Init => TypeOK
BY EmptySeq DEF Init, TypeOK, Busy, Kinds

LEMMA TypesKept == TypeOK /\ [Next]_vars => TypeOK'
<1> SUFFICES ASSUME TypeOK, [Next]_vars PROVE TypeOK'
  OBVIOUS
<1>1. ASSUME NEW l \in Listeners, NEW q \in Questions, ClientReplies(l, q) PROVE TypeOK'
  BY <1>1 DEF ClientReplies, TypeOK, asker, listener, history
<1>2. CASE UNCHANGED vars
  BY <1>2 DEF TypeOK, vars, asker, listener, history
<1> QED
  BY <1>1, <1>2, AskerTypes, LoopTypes DEF Next

(* Calls, loops and the map of pipes stay well typed, and a loop is busy     *)
(* exactly when it holds a query (api.rs 266-356, network.rs 186-451).       *)
THEOREM CallTypes == Spec => []TypeOK
BY TypesAtStart, TypesKept, PTL DEF Spec

-----------------------------------------------------------------------------
(* The asker.  Nobody is told before its call is settled, and a settled call *)
(* is never settled again.                                                   *)

ToldInv ==
  \A q \in Questions :
    /\ call[q] # "settled" => told[q] = <<>>
    /\ Len(told[q]) <= 1

LEMMA ToldStep == TypeOK /\ ToldInv /\ [Next]_vars => ToldInv'
<1> SUFFICES ASSUME TypeOK, ToldInv, [Next]_vars PROVE ToldInv'
  OBVIOUS
<1>1. ASSUME NEW q \in Questions, Refuse(q) \/ Answer(q) \/ Closed(q) \/ TimeOut(q)
      PROVE  ToldInv'
  <2>1. /\ call' = [call EXCEPT ![q] = "settled"] /\ call[q] # "settled"
        /\ Tell(q, "answer") \/ Tell(q, "error")
    BY <1>1 DEF Refuse, Answer, Closed, TimeOut, Overdue, AfterReply
  <2>2. /\ Len(told'[q]) \in {Len(told[q]), Len(told[q]) + 1}
        /\ \A p \in Questions : p # q => told'[p] = told[p]
    BY <2>1, TellTypes DEF TypeOK, Whats
  <2>3. Len(told[q]) = 0
    BY <2>1, EmptySeq DEF ToldInv
  <2>4. call'[q] = "settled" /\ \A p \in Questions : p # q => call'[p] = call[p]
    BY <2>1 DEF TypeOK
  <2>5. Len(told'[q]) <= 1
    <3>1. Len(told'[q]) = 0 \/ Len(told'[q]) = 1
      BY <2>2, <2>3
    <3>2. \A n : n = 0 \/ n = 1 => n <= 1
      OBVIOUS
    <3> QED
      BY <3>1, <3>2, Zenon
  <2> QED
    BY <2>2, <2>4, <2>5 DEF ToldInv
<1>2. ASSUME NEW q \in Questions, \/ Ask(q) \/ AskAsGuest(q) \/ Ignore(q) \/ Leave(q)
             \/ Query(q) \/ CheckPanics(q) \/ QueryPanics(q)
      PROVE  ToldInv'
  <2>1. told' = told
        /\ \A p \in Questions : call'[p] # "settled" => call[p] # "settled"
    BY <1>2 DEF Ask, AskAsGuest, Ignore, Query, Leave, CheckPanics, QueryPanics, Dies, TypeOK
  <2> QED
    BY <2>1 DEF ToldInv
<1>3. CASE \/ \E l \in Listeners : Register(l) \/ RegisterPanics(l) \/ Loop(l)
           \/ \E l \in Listeners, q \in Questions : ClientReplies(l, q)
           \/ UNCHANGED vars
  <2>1. UNCHANGED <<call, told>>
    BY <1>3 DEF Register, RegisterPanics, Loop, Take, Reject, Approve, AuditPanics,
                SocketPanics, GuestPanics, Reply, ReplyFails, CallAgain, ReplyAgain,
                ReplyAgainFails, ClientReplies, vars, asker
  <2> QED
    BY <2>1 DEF ToldInv
<1> QED
  BY <1>1, <1>2, <1>3 DEF Next, Asker

(* An asker is told one thing about its question, however many listeners     *)
(* there are, although each replies twice and a timer runs against them      *)
(* (network.rs 194-227 against 425-451).                                     *)
THEOREM AskersAreToldOnce == Spec => []ToldOnce
<1>1. Init => ToldInv
  BY EmptySeq DEF Init, ToldInv
<1>2. ToldInv => ToldOnce
  BY DEF ToldInv, ToldOnce
<1> QED
  BY <1>1, <1>2, TypesAtStart, TypesKept, ToldStep, PTL DEF Spec

-----------------------------------------------------------------------------
(* The listener.  A query waits in an inbox once, is neither under way nor   *)
(* decided while it waits, and not refused once it has been approved.        *)

Waits(l, q)   == \E i \in 1..Len(inbox[l]) : inbox[l][i] = q
Decided(l, q) == <<l, q>> \in handled \/ <<l, q>> \in refused

QueryInv ==
  \A l \in Listeners :
    /\ \A q \in Questions :
         /\ call[q] \in {"new", "asked"} =>
              ~Waits(l, q) /\ current[l] # q /\ ~Decided(l, q)
         /\ Waits(l, q) => current[l] # q /\ ~Decided(l, q)
         /\ current[l] = q =>
              <<l, q>> \notin refused /\ (loop[l] = "checking" => <<l, q>> \notin handled)
         /\ <<l, q>> \notin handled \/ <<l, q>> \notin refused
    /\ \A i, j \in 1..Len(inbox[l]) : inbox[l][i] = inbox[l][j] => i = j

\* Taking the oldest query leaves the others waiting.
LEMMA TakeHead ==
  ASSUME NEW s \in Seq(Questions), s # <<>>
  PROVE  /\ Len(s) \in Nat /\ Len(s) > 0 /\ Head(s) = s[1] /\ Len(Tail(s)) = Len(s) - 1
         /\ \A i \in 1..Len(Tail(s)) : Tail(s)[i] = s[i + 1] /\ i + 1 \in 1..Len(s)
<1>1. Len(s) \in Nat /\ Len(s) # 0
  BY LenProperties, EmptySeq
<1>2. Head(s) = s[1] /\ Len(Tail(s)) = Len(s) - 1
  BY HeadTailProperties
<1> QED
  BY <1>1, <1>2, HeadTailProperties

LEMMA AppendLast ==
  ASSUME NEW s \in Seq(Questions), NEW q \in Questions
  PROVE  /\ Len(s) \in Nat /\ Len(Append(s, q)) = Len(s) + 1
         /\ \A i \in 1..Len(s) : Append(s, q)[i] = s[i]
         /\ Append(s, q)[Len(s) + 1] = q
BY LenProperties, AppendProperties

LEMMA QueryAlone ==
  ASSUME QueryInv, UNCHANGED <<inbox, current, handled, refused, loop>>,
         \A q \in Questions : call'[q] \in {"new", "asked"} => call[q] \in {"new", "asked"}
  PROVE  QueryInv'
BY DEF QueryInv, Waits, Decided

LEMMA QueryQuery ==
  ASSUME TypeOK, QueryInv, NEW q \in Questions, Query(q)
  PROVE  QueryInv'
<1>1. /\ call[q] = "asked" /\ call'[q] = "waiting"
      /\ \A p \in Questions : p # q => call'[p] = call[p]
      /\ UNCHANGED <<current, handled, refused, loop>>
  BY DEF Query, TypeOK, history
<1> SUFFICES ASSUME NEW l \in Listeners
             PROVE  /\ \A p \in Questions :
                         (Waits(l, p)' => Waits(l, p) \/ p = q) /\ (Waits(l, p) => Waits(l, p)')
                    /\ \A i, j \in 1..Len(inbox'[l]) : inbox'[l][i] = inbox'[l][j] => i = j
  BY <1>1 DEF QueryInv, Decided
<1>2. ~Waits(l, q) /\ inbox[l] \in Seq(Questions)
      /\ \A i, j \in 1..Len(inbox[l]) : inbox[l][i] = inbox[l][j] => i = j
  BY <1>1 DEF QueryInv, TypeOK
<1>3. CASE Listening(l)
  <2>1. inbox'[l] = Append(inbox[l], q)
    BY <1>3 DEF Query, TypeOK
  <2>2. /\ Len(inbox[l]) \in Nat /\ Len(inbox'[l]) = Len(inbox[l]) + 1
        /\ \A i \in 1..Len(inbox[l]) : inbox'[l][i] = inbox[l][i]
        /\ inbox'[l][Len(inbox[l]) + 1] = q
    BY <1>2, <2>1, AppendLast
  <2>3. 1..Len(inbox'[l]) = 1..Len(inbox[l]) \cup {Len(inbox[l]) + 1}
    BY <2>2
  <2> QED
    BY <1>2, <2>2, <2>3 DEF Waits
<1>4. CASE ~Listening(l)
  <2>1. inbox'[l] = inbox[l]
    BY <1>4 DEF Query
  <2> QED
    BY <1>2, <2>1 DEF Waits
<1> QED
  BY <1>3, <1>4

LEMMA QueryTake ==
  ASSUME TypeOK, QueryInv, NEW k \in Listeners, Take(k)
  PROVE  QueryInv'
<1> DEFINE q == Head(inbox[k])
<1>1. /\ inbox[k] \in Seq(Questions) /\ inbox[k] # <<>> /\ UNCHANGED <<call, handled, refused>>
      /\ inbox'[k] = Tail(inbox[k]) /\ current'[k] = q /\ loop'[k] = "checking"
      /\ \A l \in Listeners : l # k =>
           inbox'[l] = inbox[l] /\ current'[l] = current[l] /\ loop'[l] = loop[l]
  BY DEF Take, TypeOK, asker, history
<1>2. /\ Len(inbox[k]) \in Nat /\ Len(inbox[k]) > 0 /\ q = inbox[k][1]
      /\ Len(inbox'[k]) = Len(inbox[k]) - 1
      /\ \A i \in 1..Len(inbox'[k]) :
           inbox'[k][i] = inbox[k][i + 1] /\ i + 1 \in 1..Len(inbox[k])
  BY <1>1, TakeHead
<1>3. Waits(k, q) /\ \A p \in Questions : Waits(k, p)' => Waits(k, p)
  BY <1>2 DEF Waits
<1>4. \A i, j \in 1..Len(inbox[k]) : inbox[k][i] = inbox[k][j] => i = j
  BY DEF QueryInv
<1>5. \A i, j \in 1..Len(inbox'[k]) : inbox'[k][i] = inbox'[k][j] => i = j
  <2> SUFFICES ASSUME NEW i \in 1..Len(inbox'[k]), NEW j \in 1..Len(inbox'[k]),
                      inbox'[k][i] = inbox'[k][j]
               PROVE  i = j
    OBVIOUS
  <2>1. i + 1 = j + 1
    BY <1>2, <1>4
  <2> QED
    BY <1>2, <2>1
<1>6. \A i \in 1..Len(inbox'[k]) : inbox'[k][i] # q
  <2> SUFFICES ASSUME NEW i \in 1..Len(inbox'[k]), inbox'[k][i] = q PROVE FALSE
    OBVIOUS
  <2>1. inbox[k][i + 1] = inbox[k][1] /\ i + 1 \in 1..Len(inbox[k]) /\ 1 \in 1..Len(inbox[k])
    BY <1>2
  <2>2. i + 1 = 1
    BY <1>4, <2>1
  <2> QED
    BY <1>2, <2>2
<1> HIDE DEF q
<1>7. ASSUME NEW p \in Questions
      PROVE  /\ call[p] \in {"new", "asked"} =>
                  ~Waits(k, p)' /\ q # p /\ ~Decided(k, p)
             /\ Waits(k, p)' => q # p /\ ~Decided(k, p)
             /\ q = p => ~Decided(k, p)
             /\ <<k, p>> \notin handled \/ <<k, p>> \notin refused
  <2>1. CASE p = q
    <3>1. ~Waits(k, p)' /\ Waits(k, p)
      BY <1>3, <1>6, <2>1 DEF Waits
    <3> QED
      BY <2>1, <3>1 DEF QueryInv, Decided
  <2>2. CASE p # q
    BY <1>3, <2>2 DEF QueryInv, Decided
  <2> QED
    BY <2>1, <2>2
<1>8. ASSUME NEW l \in Listeners, l # k
      PROVE  /\ \A p \in Questions : Waits(l, p)' = Waits(l, p)
             /\ \A i, j \in 1..Len(inbox'[l]) : inbox'[l][i] = inbox'[l][j] => i = j
  BY <1>1, <1>8 DEF Waits, QueryInv
<1> SUFFICES ASSUME NEW l \in Listeners
             PROVE  /\ \A p \in Questions :
                         /\ call[p] \in {"new", "asked"} =>
                              ~Waits(l, p)' /\ current'[l] # p /\ ~Decided(l, p)
                         /\ Waits(l, p)' => current'[l] # p /\ ~Decided(l, p)
                         /\ current'[l] = p =>
                              <<l, p>> \notin refused
                                /\ (loop'[l] = "checking" => <<l, p>> \notin handled)
                         /\ <<l, p>> \notin handled \/ <<l, p>> \notin refused
                    /\ \A i, j \in 1..Len(inbox'[l]) : inbox'[l][i] = inbox'[l][j] => i = j
  BY <1>1 DEF QueryInv, Decided
<1>9. CASE l = k
  BY <1>1, <1>5, <1>7, <1>9 DEF Decided
<1>10. CASE l # k
  <2>1. \A p \in Questions : Waits(l, p)' = Waits(l, p)
    BY <1>8, <1>10
  <2>2. current'[l] = current[l] /\ loop'[l] = loop[l]
    BY <1>1, <1>10
  <2> QED
    BY <1>8, <1>10, <2>1, <2>2 DEF QueryInv
<1> QED
  BY <1>9, <1>10

LEMMA QueryCheck ==
  ASSUME TypeOK, QueryInv, NEW k \in Listeners, Reject(k) \/ Approve(k) \/ CallAgain(k)
  PROVE  QueryInv'
<1>1. UNCHANGED <<call, inbox>> /\ \A l \in Listeners, q \in Questions : Waits(l, q)' = Waits(l, q)
  BY DEF Reject, Approve, CallAgain, Continues, Drops, asker, Waits
<1>2. /\ loop[k] \in Busy /\ current[k] \in Questions
      /\ loop \in [Listeners -> {"off", "free", "gone"} \cup Busy]
      /\ current \in [Listeners -> Questions \cup {NoQuestion}]
  BY DEF Reject, Approve, CallAgain, TypeOK, Busy
<1>3. <<k, current[k]>> \notin refused
      /\ (loop[k] = "checking" => <<k, current[k]>> \notin handled)
      /\ ~Waits(k, current[k]) /\ call[current[k]] \notin {"new", "asked"}
  BY <1>2 DEF QueryInv
<1>4. CASE Reject(k)
  <2>1. /\ loop' = [loop EXCEPT ![k] = "free"] /\ current' = [current EXCEPT ![k] = NoQuestion]
        /\ handled' = handled /\ refused' = refused \cup {<<k, current[k]>>}
        /\ <<k, current[k]>> \notin handled
    BY <1>3, <1>4 DEF Reject, Continues, Drops
  <2> QED
    BY <1>1, <1>2, <1>3, <2>1, QuestionAssumption DEF QueryInv, Decided
<1>5. CASE Approve(k) \/ CallAgain(k)
  <2>1. /\ \/ loop' = [loop EXCEPT ![k] = "handling"] \/ loop' = [loop EXCEPT ![k] = "repeating"]
        /\ current' = current
        /\ handled' = handled \cup {<<k, current[k]>>} /\ refused' = refused
    BY <1>5 DEF Approve, CallAgain
  <2> QED
    BY <1>1, <1>2, <1>3, <2>1 DEF QueryInv, Decided
<1> QED
  BY <1>4, <1>5

LEMMA QueryRest ==
  ASSUME TypeOK, QueryInv, NEW k \in Listeners,
         \/ Register(k) \/ RegisterPanics(k) \/ AuditPanics(k)
         \/ Reply(k) \/ ReplyFails(k) \/ ReplyAgain(k)
         \/ SocketPanics(k) \/ GuestPanics(k) \/ ReplyAgainFails(k)
  PROVE  QueryInv'
<1>1. UNCHANGED <<call, handled, refused>>
  BY DEF Register, RegisterPanics, AuditPanics, Reply, ReplyFails, ReplyAgain, SocketPanics,
         GuestPanics, ReplyAgainFails, Unwind, asker, history
<1>2. /\ \A l \in Listeners : inbox'[l] = inbox[l] \/ inbox'[l] = <<>>
      /\ \A l \in Listeners :
           /\ current'[l] = current[l] \/ current'[l] = NoQuestion
           /\ loop'[l] = "checking" => loop[l] = "checking"
  BY DEF Register, RegisterPanics, AuditPanics, Reply, ReplyFails, ReplyAgain, SocketPanics,
         GuestPanics, ReplyAgainFails, Unwind, Drops, TypeOK
<1>3. ASSUME NEW l \in Listeners
      PROVE  /\ \A q \in Questions : Waits(l, q)' => Waits(l, q)
             /\ \A i, j \in 1..Len(inbox'[l]) : inbox'[l][i] = inbox'[l][j] => i = j
  <2>1. CASE inbox'[l] = inbox[l]
    BY <2>1 DEF Waits, QueryInv
  <2>2. CASE inbox'[l] = <<>>
    <3>1. 1..Len(inbox'[l]) = {}
      BY <2>2, EmptySeq
    <3> QED
      BY <3>1 DEF Waits
  <2> QED
    BY <1>2, <2>1, <2>2
<1> QED
  BY <1>1, <1>2, <1>3, QuestionAssumption DEF QueryInv, Decided

LEMMA QueryStep == TypeOK /\ QueryInv /\ [Next]_vars => QueryInv'
<1> SUFFICES ASSUME TypeOK, QueryInv, [Next]_vars PROVE QueryInv'
  OBVIOUS
<1>1. ASSUME NEW q \in Questions,
             \/ Ask(q) \/ AskAsGuest(q) \/ Ignore(q) \/ Leave(q)
             \/ Refuse(q) \/ Answer(q) \/ Closed(q) \/ TimeOut(q)
             \/ CheckPanics(q) \/ QueryPanics(q)
      PROVE  QueryInv'
  <2>1. /\ UNCHANGED <<inbox, current, handled, refused, loop>>
        /\ \A p \in Questions : call'[p] \in {"new", "asked"} => call[p] \in {"new", "asked"}
    BY <1>1 DEF Ask, AskAsGuest, Ignore, Leave, Refuse, Answer, Closed, TimeOut, AfterReply,
                CheckPanics, QueryPanics, Dies, listener, history, TypeOK
  <2> QED
    BY <2>1, QueryAlone
<1>2. CASE (\E l \in Listeners, q \in Questions : ClientReplies(l, q)) \/ UNCHANGED vars
  <2>1. UNCHANGED <<call, inbox, current, handled, refused, loop>>
    BY <1>2 DEF ClientReplies, vars, asker, listener, history
  <2> QED
    BY <2>1, QueryAlone
<1>3. ASSUME NEW q \in Questions, Query(q) PROVE QueryInv'
  BY <1>3, QueryQuery
<1>4. ASSUME NEW l \in Listeners, Register(l) \/ RegisterPanics(l) \/ Loop(l)
      PROVE  QueryInv'
  BY <1>4, QueryTake, QueryCheck, QueryRest DEF Loop
<1> QED
  BY <1>1, <1>2, <1>3, <1>4 DEF Next, Asker

(* A question that the check at a listener refuses never reaches the agent   *)
(* behind it, by neither of the two calls of the handler (network.rs         *)
(* 399-451): a query waits at most once, and is not yet decided while it     *)
(* waits.                                                                    *)
THEOREM RefusalIsFinal == Spec => []RefusedIsNeverHandled
<1>1. Init => QueryInv
  <2> SUFFICES ASSUME Init, NEW l \in Listeners
               PROVE  1..Len(inbox[l]) = {} /\ current[l] = NoQuestion
    BY QuestionAssumption DEF Init, QueryInv, Waits, Decided
  <2> QED
    BY EmptySeq DEF Init
<1>2. TypeOK /\ QueryInv => RefusedIsNeverHandled
  BY DEF TypeOK, QueryInv, RefusedIsNeverHandled
<1> QED
  BY <1>1, <1>2, TypesAtStart, TypesKept, QueryStep, PTL DEF Spec
=============================================================================
