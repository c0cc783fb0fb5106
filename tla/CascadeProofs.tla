--------------------------- MODULE CascadeProofs ---------------------------
(***************************************************************************)
(* Theorems about Cascade.tla, for any sessions, thoughts, namespaces and  *)
(* channel capacities, whatever breaks: types and capacities, that no      *)
(* thought is appended to an orphaned shard, that a session keeps its      *)
(* order in brain and log, that a drain leaves nothing behind, and that    *)
(* the shutdown ends with a panic of the log only.                         *)
(***************************************************************************)
EXTENDS Cascade, TLAPS, SequenceTheorems

-----------------------------------------------------------------------------
(* The queue of the log.                                                     *)

LEMMA RestIsSeq ==
  ASSUME queue \in Seq(Thoughts), NEW n \in 0..Len(queue)
  PROVE  /\ Log!Rest(n) \in Seq(Thoughts)
         /\ Len(Log!Rest(n)) = Len(queue) - n
         /\ \A i \in 1..(Len(queue) - n) : Log!Rest(n)[i] = queue[i + n]
<1> DEFINE k == Len(queue) - n
<1>1. Len(queue) \in Nat /\ k \in Nat
  BY LenProperties
<1>2. ASSUME NEW i \in 1..k PROVE queue[i + n] \in Thoughts
  <2>1. i + n \in 1..Len(queue)
    BY <1>1
  <2> QED
    BY <2>1, ElementOfSeq
<1>3. Log!Rest(n) \in [1..k -> Thoughts]
  BY <1>2 DEF Log!Rest
<1>4. Log!Rest(n) \in Seq(Thoughts)
  BY <1>1, <1>3, SeqDef
<1>5. DOMAIN Log!Rest(n) = 1..Len(Log!Rest(n)) /\ DOMAIN Log!Rest(n) = 1..k
      /\ Len(Log!Rest(n)) \in Nat
  BY <1>3, <1>4, LenProperties
<1>6. Len(Log!Rest(n)) = k
  BY <1>1, <1>5
<1> QED
  BY <1>4, <1>6 DEF Log!Rest

LEMMA AcceptTypes ==
  ASSUME Log!TypeOK, NEW t \in Thoughts, Log!Accept(t)
  PROVE  Log!TypeOK' /\ Len(queue') = Len(queue) + 1
<1>1. queue' \in Seq(Thoughts) /\ Len(queue') = Len(queue) + 1
  BY AppendProperties DEF Log!TypeOK, Log!Accept
<1>2. fate' \in [Thoughts -> Log!Fates]
  BY DEF Log!TypeOK, Log!Accept, Log!With, Log!Fates
<1> QED
  BY <1>1, <1>2 DEF Log!TypeOK

LEMMA SettleTypes ==
  ASSUME Log!TypeOK, Log!Settle
  PROVE  Log!TypeOK' /\ Len(queue') < Len(queue)
<1>1. PICK n \in 1..Len(queue) : Log!Commit(n) \/ Log!GiveUp(n)
  BY DEF Log!Settle
<1>2. Len(queue) \in Nat /\ n \in 0..Len(queue)
  BY LenProperties DEF Log!TypeOK
<1>3. queue' = Log!Rest(n)
  BY <1>1 DEF Log!Commit, Log!GiveUp
<1>4. queue' \in Seq(Thoughts) /\ Len(queue') = Len(queue) - n
  BY <1>2, <1>3, RestIsSeq DEF Log!TypeOK
<1>5. fate' \in [Thoughts -> Log!Fates]
  BY <1>1 DEF Log!TypeOK, Log!Commit, Log!GiveUp, Log!With, Log!Fates
<1> QED
  BY <1>2, <1>4, <1>5 DEF Log!TypeOK

LEMMA LoseTypes ==
  ASSUME Log!TypeOK, Log!Lose
  PROVE  Log!TypeOK' /\ Len(queue') = 0
BY EmptySeq DEF Log!TypeOK, Log!Lose, Log!With, Log!Fates

LEMMA RefuseTypes ==
  ASSUME Log!TypeOK, NEW t \in Thoughts, Log!Refuse(t)
  PROVE  Log!TypeOK'
BY DEF Log!TypeOK, Log!Refuse, Log!With, Log!Fates
-----------------------------------------------------------------------------
(* Types.                                                                    *)

LEMMA NextThought ==
  ASSUME TypeOK, NEW s \in Sessions, read[s] < sent[s]
  PROVE  read[s] + 1 \in 1..PerSession /\ <<s, read[s] + 1>> \in Thoughts
<1>1. read[s] \in 0..PerSession /\ sent[s] \in 0..PerSession
  BY DEF TypeOK
<1>2. read[s] + 1 \in 1..PerSession
  BY <1>1, BoundAssumption
<1> QED
  BY <1>2 DEF Thoughts, Spoken

LEMMA MoveTypes ==
  ASSUME TypeOK, NEW t \in Thoughts, NEW from, NEW to \in Stages, Move(t, from, to)
  PROVE  /\ stage' \in [Thoughts -> Stages] /\ stage'[t] = to /\ stage[t] = from
         /\ \A u \in Thoughts \ {t} : stage'[u] = stage[u]
BY DEF TypeOK, Move

LEMMA TypesAtStart == Init => TypeOK
BY BoundAssumption, EmptySeq
DEF Init, TypeOK, Stages, Log!Init, Log!TypeOK, Log!Fates

(* The clients, the workers and the shutdown.                                *)
LEMMA SessionTypes ==
  ASSUME TypeOK, NEW s \in Sessions,
         Send(s) \/ HangUp(s) \/ Connect(s) \/ Disconnected(s) \/ Broken(s)
  PROVE  TypeOK'
<1> USE BoundAssumption DEF TypeOK, brains, log
<1>1. CASE Send(s)
  <2>1. sent[s] + 1 \in 0..PerSession /\ sent' = [sent EXCEPT ![s] = sent[s] + 1]
    BY <1>1 DEF Send
  <2>2. sent' \in [Sessions -> 0..PerSession] /\ \A r \in Sessions : read[r] <= sent'[r]
    BY <2>1
  <2> QED
    BY <1>1, <2>2 DEF Send, session, Log!TypeOK
<1>2. CASE HangUp(s)
  BY <1>2 DEF HangUp, session, Log!TypeOK
<1>3. CASE Connect(s)
  BY <1>3 DEF Connect, client, Log!TypeOK
<1>4. CASE Disconnected(s)
  BY <1>4 DEF Disconnected, client, Log!TypeOK
<1>5. CASE Broken(s)
  BY <1>5 DEF Broken, Log!TypeOK
<1> QED
  BY <1>1, <1>2, <1>3, <1>4, <1>5

LEMMA ReadTypes ==
  ASSUME TypeOK, NEW s \in Sessions, Read(s) \/ Interdict(s)
  PROVE  TypeOK'
<1> DEFINE t == <<s, read[s] + 1>>
<1>1. read[s] < sent[s] /\ read' = [read EXCEPT ![s] = read[s] + 1]
  BY DEF Read, Interdict
<1>2. read[s] + 1 \in 1..PerSession /\ t \in Thoughts
  BY <1>1, NextThought
<1>3. read' \in [Sessions -> 0..PerSession] /\ \A r \in Sessions : read'[r] <= sent[r]
  BY <1>1, <1>2, BoundAssumption DEF TypeOK
<1>4. CASE Read(s)
  <2>1. PICK n \in Spaces : space' = [space EXCEPT ![t] = n]
    BY <1>4 DEF Read
  <2>2. stage' = [stage EXCEPT ![t] = "begun"]
    BY <1>4 DEF Read
  <2>3. stage' \in [Thoughts -> Stages] /\ space' \in [Thoughts -> Spaces \cup {Unmade}]
        /\ \A u \in Thoughts : stage'[u] \in Stages \ {"none", "refused"} => space'[u] \in Spaces
    BY <1>2, <2>1, <2>2 DEF TypeOK, Stages
  <2> QED
    BY <1>3, <1>4, <2>3 DEF Read, TypeOK, client, log, Log!TypeOK
<1>5. CASE Interdict(s)
  <2>1. stage' = [stage EXCEPT ![t] = "refused"]
    BY <1>5 DEF Interdict
  <2>2. stage' \in [Thoughts -> Stages] /\ space' = space
        /\ \A u \in Thoughts : stage'[u] \in Stages \ {"none", "refused"} => space[u] \in Spaces
    BY <1>2, <1>5, <2>1 DEF TypeOK, Stages, Interdict, brains
  <2>3. worker' \in [Sessions -> {"none", "live", "ended"}]
    BY <1>5 DEF Interdict, TypeOK
  <2> QED
    BY <1>3, <1>5, <2>2, <2>3 DEF Interdict, TypeOK, client, brains, log, Log!TypeOK
<1> QED
  BY <1>4, <1>5

(* The cascade of a thought.                                                 *)
LEMMA CascadeTypes ==
  ASSUME TypeOK, NEW t \in Thoughts, Ingress(t) \/ Cascade(t)
  PROVE  TypeOK'
<1> USE DEF TypeOK, Stages, client, session
<1>1. CASE Ingress(t)
  <2>1. PICK n \in Spaces : space' = [space EXCEPT ![t] = n]
    BY <1>1 DEF Ingress
  <2>2. Move(t, "none", "begun")
    BY <1>1 DEF Ingress
  <2> QED
    BY <1>1, <2>1, <2>2, MoveTypes DEF Ingress, log, Log!TypeOK
<1>2. CASE Anonymous(t)
  BY <1>2, MoveTypes DEF Anonymous, brains, log, Log!TypeOK
<1>3. CASE FindBrain(t)
  <2>1. Move(t, "begun", "holding") /\ space[t] \in Spaces
    BY <1>3 DEF FindBrain, Move
  <2> QED
    BY <1>3, <2>1, MoveTypes DEF FindBrain, log, Log!TypeOK
<1>4. CASE AllocateBrain(t)
  <2>1. Move(t, "begun", "making") /\ space[t] \in Spaces
    BY <1>4 DEF AllocateBrain, Move
  <2> QED
    BY <1>4, <2>1, MoveTypes DEF AllocateBrain, brains, log, Log!TypeOK
<1>5. CASE EnterBrain(t)
  <2>1. Move(t, "making", "holding") /\ space[t] \in Spaces
    BY <1>5 DEF EnterBrain, Move
  <2>2. EntryOrInsert(t) \in Thoughts
    BY <2>1 DEF EntryOrInsert
  <2> QED
    BY <1>5, <2>1, <2>2, MoveTypes DEF EnterBrain, log, Log!TypeOK
<1>6. CASE Merge(t)
  <2>1. Move(t, "holding", "merged") /\ space[t] \in Spaces
    BY <1>6 DEF Merge, Move
  <2>2. /\ held' \in [Thoughts -> Thoughts \cup {Unmade}]
        /\ timeline' \in [Thoughts -> SUBSET Thoughts]
    BY <1>6 DEF Merge
  <2>3. log' = log /\ space' = space
    BY <1>6 DEF Merge, log
  <2> QED
    BY <1>6, <2>1, <2>2, <2>3, MoveTypes DEF Merge, log, Log!TypeOK
<1>7. CASE LogThought(t)
  <2>1. Move(t, "merged", "logged") /\ space[t] \in Spaces
    BY <1>7 DEF LogThought, Move
  <2>2. Log!TypeOK' /\ Len(queue') <= QueueCap
    <3>1. Len(queue) \in Nat
      BY LenProperties DEF Log!TypeOK
    <3>2. CASE logUp /\ LogHasRoom /\ Log!Accept(t)
      BY <3>1, <3>2, AcceptTypes, BoundAssumption DEF LogHasRoom
    <3>3. CASE Log!Refuse(t)
      BY <3>3, RefuseTypes DEF Log!Refuse
    <3> QED
      BY <1>7, <3>2, <3>3 DEF LogThought
  <2> QED
    BY <1>7, <2>1, <2>2, MoveTypes DEF LogThought, brains
<1>8. CASE Announce(t)
  <2>1. Move(t, "logged", "done") /\ space[t] \in Spaces
    BY <1>8 DEF Announce, Move
  <2>2. egress' \in 0..EgressCap
    BY <1>8, BoundAssumption DEF Announce
  <2> QED
    BY <1>8, <2>1, <2>2, MoveTypes DEF Announce, brains, log, Log!TypeOK
<1> QED
  BY <1>1, <1>2, <1>3, <1>4, <1>5, <1>6, <1>7, <1>8 DEF Cascade

(* Egress, purges, the log's worker, the shutdown and crashes.               *)
LEMMA SystemTypes ==
  ASSUME TypeOK,
         EgressDrops \/ Purge \/ SettleLog \/ LogPanics \/ Cancel \/ Shutdown \/ Crash
  PROVE  TypeOK'
<1> USE DEF TypeOK, client, session, brains, log
<1>1. CASE EgressDrops
  <2>1. egress' \in 0..EgressCap
    BY <1>1, BoundAssumption DEF EgressDrops
  <2> QED
    BY <1>1, <2>1 DEF EgressDrops, Log!TypeOK
<1>2. CASE Purge
  BY <1>2 DEF Purge, Log!TypeOK
<1>3. CASE SettleLog
  <2>1. Log!TypeOK' /\ Len(queue') <= QueueCap
    <3>1. Log!TypeOK' /\ Len(queue') < Len(queue) /\ Len(queue) <= QueueCap
      BY <1>3, SettleTypes DEF SettleLog
    <3> QED
      BY <3>1, LenProperties, BoundAssumption DEF Log!TypeOK
  <2> QED
    BY <1>3, <2>1 DEF SettleLog
<1>4. CASE LogPanics
  <2>1. Log!TypeOK' /\ Len(queue') <= QueueCap
    BY <1>4, LoseTypes, BoundAssumption DEF LogPanics
  <2> QED
    BY <1>4, <2>1 DEF LogPanics
<1>5. CASE Cancel
  BY <1>5 DEF Cancel, Log!TypeOK
<1>6. CASE Shutdown
  BY <1>6 DEF Shutdown, Drained, DropLog, End, Log!TypeOK
<1>7. CASE Crash
  <2>1. Log!TypeOK' /\ Len(queue') <= QueueCap
    BY <1>7, LoseTypes, BoundAssumption DEF Crash
  <2>2. /\ stage' \in [Thoughts -> Stages] /\ \A t \in Thoughts : stage'[t] = "none"
        /\ space' \in [Thoughts -> Spaces \cup {Unmade}]
        /\ held' \in [Thoughts -> Thoughts \cup {Unmade}]
        /\ shards' \in [Spaces -> Thoughts \cup {Unmade}]
        /\ timeline' \in [Thoughts -> SUBSET Thoughts]
    BY <1>7 DEF Crash, Forgotten, Stages
  <2>3. /\ worker' \in [Sessions -> {"none", "live", "ended"}]
        /\ sent' \in [Sessions -> 0..PerSession] /\ read' \in [Sessions -> 0..PerSession]
        /\ \A s \in Sessions : read'[s] <= sent'[s]
        /\ hungUp' \in SUBSET Sessions
    BY <1>7, BoundAssumption DEF Crash, Forgotten
  <2>4. /\ phase' = "down" /\ holders' \in SUBSET Holders /\ logUp' = FALSE
        /\ egress' \in 0..EgressCap
    BY <1>7, BoundAssumption DEF Crash, Forgotten
  <2> HIDE DEF client, session, brains, log
  <2> QED
    BY <2>1, <2>2, <2>3, <2>4
<1> QED
  BY <1>1, <1>2, <1>3, <1>4, <1>5, <1>6, <1>7

LEMMA TypesKept == TypeOK /\ [Next]_vars => TypeOK'
<1> SUFFICES ASSUME TypeOK, [Next]_vars PROVE TypeOK'
  OBVIOUS
<1>1. ASSUME NEW s \in Sessions, Send(s) \/ HangUp(s) \/ Connect(s) \/ Worker(s)
      PROVE  TypeOK'
  BY <1>1, SessionTypes, ReadTypes DEF Worker
<1>2. ASSUME NEW t \in Thoughts, Cascade(t) \/ Ingress(t) PROVE TypeOK'
  BY <1>2, CascadeTypes
<1>3. CASE UNCHANGED vars
  BY <1>3 DEF vars, client, session, brains, log, TypeOK, Log!TypeOK
<1> QED
  BY <1>1, <1>2, <1>3, SystemTypes DEF Next, Thoughts

(* Every reachable state is well typed; in particular neither channel ever   *)
(* holds more than its capacity (nucleus.rs 59, network.rs 70).              *)
THEOREM CascadeTypesHold == Spec => []TypeOK
BY TypesAtStart, TypesKept, PTL DEF Spec

-----------------------------------------------------------------------------
(* Brains.  A task that holds one holds the shard of its namespace, and a    *)
(* thought that was merged is in the shard of its namespace, unless that is  *)
(* a phantom.                                                                *)

HoldsShard(t) == held[t] = shards[space[t]] /\ shards[space[t]] # Unmade
InShard(t) == /\ shards[space[t]] # Unmade
              /\ t \in timeline[shards[space[t]]]

BrainInv ==
  \A t \in Thoughts :
    /\ stage[t] = "holding" => HoldsShard(t)
    /\ stage[t] \in Merged /\ space[t] \notin Phantoms => InShard(t)

\* A step that leaves the brains alone and makes no task holding or merged.
LEMMA BrainsAlone ==
  ASSUME BrainInv,
         space' = space /\ held' = held /\ shards' = shards /\ timeline' = timeline,
         \A t \in Thoughts :
           stage'[t] = stage[t] \/ stage'[t] \notin Merged \cup {"holding"}
             \/ (stage[t] \in Merged /\ stage'[t] # "holding")
  PROVE  BrainInv'
BY DEF BrainInv, HoldsShard, InShard, Merged

LEMMA BrainStep == TypeOK /\ BrainInv /\ [Next]_vars => BrainInv'
<1> SUFFICES ASSUME TypeOK, BrainInv, [Next]_vars PROVE BrainInv'
  OBVIOUS
<1> USE DEF Merged
<1>1. ASSUME NEW s \in Sessions,
             Send(s) \/ HangUp(s) \/ Connect(s) \/ Disconnected(s) \/ Broken(s)
      PROVE  BrainInv'
  <2>1. /\ space' = space /\ held' = held /\ shards' = shards /\ timeline' = timeline
        /\ stage' = stage
    BY <1>1 DEF Send, HangUp, Connect, Disconnected, Broken, brains
  <2> QED
    BY <2>1, BrainsAlone
<1>2. ASSUME NEW s \in Sessions, Interdict(s) PROVE BrainInv'
  <2>1. stage' = [stage EXCEPT ![<<s, read[s] + 1>>] = "refused"]
        /\ space' = space /\ held' = held /\ shards' = shards /\ timeline' = timeline
    BY <1>2 DEF Interdict, brains
  <2>2. \A t \in Thoughts : stage'[t] = stage[t] \/ stage'[t] = "refused"
    BY <2>1 DEF TypeOK
  <2> QED
    BY <2>1, <2>2, BrainsAlone
<1>3. ASSUME NEW t \in Thoughts, NEW n \in Spaces,
             stage' = [stage EXCEPT ![t] = "begun"],
             space' = [space EXCEPT ![t] = n],
             UNCHANGED <<held, shards, timeline>>
      PROVE  BrainInv'
  BY <1>3 DEF BrainInv, HoldsShard, InShard, TypeOK
<1>4. ASSUME NEW s \in Sessions, Read(s) PROVE BrainInv'
  BY <1>3, <1>4, NextThought DEF Read
<1>5. ASSUME NEW t \in Thoughts, Ingress(t) PROVE BrainInv'
  BY <1>3, <1>5 DEF Ingress, Move
<1>6. ASSUME NEW t \in Thoughts,
             Anonymous(t) \/ AllocateBrain(t) \/ LogThought(t) \/ Announce(t)
      PROVE  BrainInv'
  <2>1. /\ space' = space /\ held' = held /\ shards' = shards /\ timeline' = timeline
        /\ \/ Move(t, "begun", "refused") \/ Move(t, "begun", "making")
           \/ Move(t, "merged", "logged") \/ Move(t, "logged", "done")
    BY <1>6 DEF Anonymous, AllocateBrain, LogThought, Announce, brains
  <2>2. \A u \in Thoughts :
          stage'[u] = stage[u] \/ stage'[u] \notin Merged \cup {"holding"}
            \/ (stage[u] \in Merged /\ stage'[u] # "holding")
    BY <2>1 DEF Move, TypeOK
  <2> QED
    BY <2>1, <2>2, BrainsAlone
<1>7. ASSUME NEW t \in Thoughts, FindBrain(t) PROVE BrainInv'
  BY <1>7 DEF FindBrain, Move, BrainInv, HoldsShard, InShard, TypeOK
<1>8. ASSUME NEW t \in Thoughts, EnterBrain(t) PROVE BrainInv'
  <2>1. /\ stage[t] = "making" /\ stage' = [stage EXCEPT ![t] = "holding"]
        /\ space[t] \in Spaces /\ UNCHANGED <<space, timeline>>
    BY <1>8 DEF EnterBrain, Move, TypeOK, Stages
  <2>2. /\ shards' = [shards EXCEPT ![space[t]] = EntryOrInsert(t)]
        /\ held' = [held EXCEPT ![t] = EntryOrInsert(t)]
        /\ EntryOrInsert(t) # Unmade
        /\ shards[space[t]] # Unmade => EntryOrInsert(t) = shards[space[t]]
    BY <1>8, UnmadeAssumption DEF EnterBrain, EntryOrInsert
  <2>3. ASSUME NEW u \in Thoughts, stage'[u] = "holding" PROVE HoldsShard(u)'
    BY <2>1, <2>2, <2>3 DEF BrainInv, HoldsShard, TypeOK
  <2>4. ASSUME NEW u \in Thoughts, stage'[u] \in Merged, space'[u] \notin Phantoms
        PROVE  InShard(u)'
    BY <2>1, <2>2, <2>4 DEF BrainInv, InShard, TypeOK
  <2> QED
    BY <2>3, <2>4 DEF BrainInv
<1>9. ASSUME NEW t \in Thoughts, Merge(t) PROVE BrainInv'
  <2>1. /\ stage[t] = "holding" /\ stage' = [stage EXCEPT ![t] = "merged"]
        /\ held' = [held EXCEPT ![t] = Unmade] /\ UNCHANGED <<space, shards>>
        /\ timeline' = [timeline EXCEPT ![held[t]] = timeline[held[t]] \cup {t}]
        /\ HoldsShard(t) /\ held[t] \in Thoughts
    BY <1>9 DEF Merge, Move, BrainInv, HoldsShard, TypeOK
  <2>2. t \in timeline'[held[t]] /\ \A b \in Thoughts : timeline[b] \subseteq timeline'[b]
    BY <2>1 DEF TypeOK
  <2>3. ASSUME NEW u \in Thoughts, stage'[u] = "holding" PROVE HoldsShard(u)'
    BY <2>1, <2>3 DEF BrainInv, HoldsShard, TypeOK
  <2>4. ASSUME NEW u \in Thoughts, stage'[u] \in Merged, space'[u] \notin Phantoms
        PROVE  InShard(u)'
    <3>1. CASE u = t
      BY <2>1, <2>2, <3>1 DEF HoldsShard, InShard
    <3>2. CASE u # t
      <4>1. InShard(u) /\ space[u] \in Spaces
        BY <2>1, <2>4, <3>2 DEF BrainInv, TypeOK, Stages
      <4> QED
        BY <2>1, <2>2, <4>1 DEF InShard, TypeOK
    <3> QED
      BY <3>1, <3>2
  <2> QED
    BY <2>3, <2>4 DEF BrainInv
<1>10. CASE Purge
  <2>1. /\ shards' = [n \in Spaces |-> IF DeadPhantom(n) THEN Unmade ELSE shards[n]]
        /\ UNCHANGED <<stage, space, held, timeline>>
    BY <1>10 DEF Purge
  <2>2. ASSUME NEW u \in Thoughts, stage[u] = "holding" PROVE HoldsShard(u)'
    <3>1. HoldsShard(u) /\ space[u] \in Spaces
      BY <2>2 DEF BrainInv, TypeOK, Stages
    <3>2. ~DeadPhantom(space[u])
      BY <3>1 DEF DeadPhantom, HoldsShard
    <3> QED
      BY <2>1, <3>1, <3>2 DEF HoldsShard
  <2>3. ASSUME NEW u \in Thoughts, stage[u] \in Merged, space[u] \notin Phantoms
        PROVE  InShard(u)'
    <3>1. InShard(u) /\ space[u] \in Spaces
      BY <2>3 DEF BrainInv, TypeOK, Stages
    <3>2. ~DeadPhantom(space[u])
      BY <2>3 DEF DeadPhantom
    <3> QED
      BY <2>1, <3>1, <3>2 DEF InShard
  <2> QED
    BY <2>1, <2>2, <2>3 DEF BrainInv
<1>11. CASE EgressDrops \/ SettleLog \/ LogPanics \/ Cancel \/ Shutdown \/ UNCHANGED vars
  <2>1. /\ space' = space /\ held' = held /\ shards' = shards /\ timeline' = timeline
        /\ stage' = stage
    BY <1>11 DEF EgressDrops, SettleLog, LogPanics, Cancel, Shutdown, Drained, DropLog,
                 End, vars, brains
  <2> QED
    BY <2>1, BrainsAlone
<1>12. CASE Crash
  BY <1>12 DEF Crash, Forgotten, BrainInv
<1> QED
  BY <1>1, <1>2, <1>4, <1>5, <1>6, <1>7, <1>8, <1>9, <1>10, <1>11, <1>12
  DEF Next, Worker, Cascade, Thoughts

(* No thought is appended to a brain that is not the shard of its namespace, *)
(* and none of a production namespace is in a brain that the registry has    *)
(* let go, however tasks and purges interleave (state.rs 121-157).           *)
THEOREM NoOrphans == Spec => []NoThoughtIsOrphaned
<1>1. Init => BrainInv
  BY DEF Init, BrainInv, Merged
<1>2. BrainInv => NoThoughtIsOrphaned
  BY DEF BrainInv, NoThoughtIsOrphaned, HoldsShard, InShard
<1> QED
  BY <1>1, <1>2, TypesAtStart, TypesKept, BrainStep, PTL DEF Spec

-----------------------------------------------------------------------------
(* Sessions.  What a worker has not read has not begun, what it read before  *)
(* the last thought is finished, and a worker that has ended leaves nothing  *)
(* under way.                                                                *)

SessionInv ==
  \A s \in Sessions : \A n \in 1..PerSession :
    /\ n > read[s] => stage[<<s, n>>] = "none"
    /\ n < read[s] => stage[<<s, n>>] \in Finished
    /\ worker[s] # "live" => stage[<<s, n>>] \in Finished \cup {"none"}

LEMMA SpokenAreThoughts ==
  ASSUME NEW s \in Sessions, NEW n \in 1..PerSession
  PROVE  <<s, n>> \in Thoughts /\ <<s, n>> \in Spoken /\ n \in Nat
BY BoundAssumption DEF Thoughts, Spoken

\* A cascade that moves is under way before, and has begun after.
LEMMA CascadeMoves ==
  ASSUME TypeOK, NEW t \in Thoughts, Cascade(t)
  PROVE  /\ stage[t] \notin Finished \cup {"none"}
         /\ \A u \in Thoughts \ {t} : stage'[u] = stage[u]
         /\ UNCHANGED <<read, worker, phase>>
BY DEF Cascade, Anonymous, FindBrain, AllocateBrain, EnterBrain, Merge, LogThought,
       Announce, Move, TypeOK, Finished, session

\* What a worker that is ready has read is finished.
LEMMA ReadyMeansFinished ==
  ASSUME TypeOK, SessionInv, NEW s \in Sessions, Ready(s), NEW n \in 1..PerSession
  PROVE  stage[<<s, n>>] \in Finished \cup {"none"} /\ (n <= read[s] => stage[<<s, n>>] \in Finished)
<1>1. read[s] \in Nat /\ n \in Nat /\ n > 0
  BY BoundAssumption DEF TypeOK
<1>2. CASE n = read[s]
  BY <1>1, <1>2 DEF Ready, Current
<1> QED
  BY <1>1, <1>2 DEF SessionInv

LEMMA SessionStep == TypeOK /\ SessionInv /\ [Next]_vars => SessionInv'
<1> SUFFICES ASSUME TypeOK, SessionInv, [Next]_vars,
                    NEW s \in Sessions, NEW n \in 1..PerSession
             PROVE  /\ n > read'[s] => stage'[<<s, n>>] = "none"
                    /\ n < read'[s] => stage'[<<s, n>>] \in Finished
                    /\ worker'[s] # "live" => stage'[<<s, n>>] \in Finished \cup {"none"}
  BY DEF SessionInv
<1> DEFINE t == <<s, n>>
<1>0. t \in Thoughts /\ t \in Spoken /\ n \in Nat /\ read[s] \in Nat
  BY SpokenAreThoughts, BoundAssumption DEF TypeOK
<1>1. /\ n > read[s] => stage[t] = "none"
      /\ n < read[s] => stage[t] \in Finished
      /\ worker[s] # "live" => stage[t] \in Finished \cup {"none"}
  BY DEF SessionInv
<1>2. CASE UNCHANGED <<stage, read, worker>>
  BY <1>1, <1>2
<1>3. ASSUME NEW r \in Sessions, Read(r) \/ Interdict(r)
      PROVE  /\ n > read'[s] => stage'[t] = "none"
             /\ n < read'[s] => stage'[t] \in Finished
             /\ worker'[s] # "live" => stage'[t] \in Finished \cup {"none"}
  <2>1. /\ Ready(r) /\ worker[r] = "live"
        /\ read' = [read EXCEPT ![r] = read[r] + 1]
        /\ <<r, read[r] + 1>> \in Thoughts /\ read[r] \in Nat
        /\ \A u \in Thoughts : u # <<r, read[r] + 1>> => stage'[u] = stage[u]
        /\ \A q \in Sessions : q # r => worker'[q] = worker[q]
    BY <1>3, NextThought, BoundAssumption DEF Read, Interdict, TypeOK
  <2>2. CASE s # r
    BY <1>0, <1>1, <2>1, <2>2 DEF TypeOK
  <2>3. CASE s = r
    <3>1. read'[s] = read[s] + 1
      BY <2>1, <2>3 DEF TypeOK
    <3>2. CASE n = read[s] + 1
      <4>1. (stage'[t] = "begun" /\ worker'[s] = "live") \/ stage'[t] = "refused"
        BY <1>0, <1>3, <2>1, <2>3, <3>2 DEF Read, Interdict, TypeOK
      <4> QED
        BY <1>0, <3>1, <3>2, <4>1 DEF Finished
    <3>3. CASE n # read[s] + 1
      <4>1. stage'[t] = stage[t]
        BY <1>0, <2>1, <2>3, <3>3
      <4>2. stage[t] \in Finished \cup {"none"} /\ (n <= read[s] => stage[t] \in Finished)
        BY <2>1, <2>3, ReadyMeansFinished
      <4> QED
        BY <1>0, <1>1, <3>1, <3>3, <4>1, <4>2
    <3> QED
      BY <3>2, <3>3
  <2> QED
    BY <2>2, <2>3
<1>4. ASSUME NEW r \in Sessions, Connect(r) \/ Disconnected(r) \/ Broken(r)
      PROVE  /\ n > read'[s] => stage'[t] = "none"
             /\ n < read'[s] => stage'[t] \in Finished
             /\ worker'[s] # "live" => stage'[t] \in Finished \cup {"none"}
  <2>1. /\ stage' = stage /\ read' = read
        /\ \A q \in Sessions : q # r => worker'[q] = worker[q]
    BY <1>4 DEF Connect, Disconnected, Broken, TypeOK
  <2>2. CASE s = r /\ worker'[r] # "live"
    <3>1. Ready(s)
      BY <1>4, <2>2 DEF Connect, Disconnected, Broken, TypeOK
    <3> QED
      BY <1>1, <2>1, <3>1, ReadyMeansFinished
  <2> QED
    BY <1>1, <2>1, <2>2
<1>5. ASSUME NEW u \in Thoughts, Cascade(u)
      PROVE  /\ n > read'[s] => stage'[t] = "none"
             /\ n < read'[s] => stage'[t] \in Finished
             /\ worker'[s] # "live" => stage'[t] \in Finished \cup {"none"}
  BY <1>0, <1>1, <1>5, CascadeMoves DEF Finished
<1>6. ASSUME NEW u \in Detached, Ingress(u)
      PROVE  /\ n > read'[s] => stage'[t] = "none"
             /\ n < read'[s] => stage'[t] \in Finished
             /\ worker'[s] # "live" => stage'[t] \in Finished \cup {"none"}
  BY <1>0, <1>1, <1>6, DetachedAssumption DEF Ingress, Move, session, TypeOK
<1>7. CASE Crash
  BY <1>0, <1>7 DEF Crash, Forgotten
<1>8. ASSUME NEW r \in Sessions, Send(r) \/ HangUp(r) PROVE UNCHANGED <<stage, read, worker>>
  BY <1>8 DEF Send, HangUp, session
<1>9. CASE \/ EgressDrops \/ Purge \/ SettleLog \/ LogPanics \/ Cancel \/ Shutdown
           \/ UNCHANGED vars
  BY <1>2, <1>9 DEF EgressDrops, Purge, SettleLog, LogPanics, Cancel, Shutdown, Drained,
                    DropLog, End, vars, session
<1> QED
  BY <1>2, <1>3, <1>4, <1>5, <1>6, <1>7, <1>8, <1>9 DEF Next, Worker

-----------------------------------------------------------------------------
(* The log.  A thought has a fate once its cascade has logged it; the queue  *)
(* holds those that are sent, each once, and those of a session in order.    *)

Logged == {"logged", "done"}

FateInv ==
  /\ \A t \in Thoughts : stage[t] \in Logged => fate[t] # "new"
  /\ Alive => \A t \in Thoughts : stage[t] \notin Logged => fate[t] = "new"
  /\ \A t \in Thoughts : fate[t] # "archived"
  /\ ~logUp => Len(queue) = 0

QueueInv ==
  /\ \A i \in 1..Len(queue) : fate[queue[i]] = "sent"
  /\ \A t \in Thoughts : fate[t] = "sent" => \E i \in 1..Len(queue) : queue[i] = t
  /\ \A i, j \in 1..Len(queue) : queue[i] = queue[j] => i = j

OrderInv ==
  \A s \in Sessions : \A m, n \in 1..PerSession : m < n =>
    /\ \A i, j \in 1..Len(queue) :
         queue[i] = <<s, m>> /\ queue[j] = <<s, n>> => i < j
    /\ fate[<<s, m>>] = "sent" => fate[<<s, n>>] \in {"new", "sent"}

LogInv == FateInv /\ QueueInv /\ OrderInv

LEMMA AcceptValues ==
  ASSUME TypeOK, NEW t \in Thoughts, Log!Accept(t)
  PROVE  /\ Len(queue) \in Nat /\ Len(queue') = Len(queue) + 1
         /\ \A i \in 1..Len(queue) : queue'[i] = queue[i] /\ queue[i] \in Thoughts
         /\ queue'[Len(queue) + 1] = t
         /\ fate[t] = "new" /\ fate'[t] = "sent"
         /\ \A u \in Thoughts : u # t => fate'[u] = fate[u]
<1>1. queue \in Seq(Thoughts) /\ queue' = Append(queue, t)
  BY DEF TypeOK, Log!TypeOK, Log!Accept
<1>2. fate[t] = "new" /\ fate' = [l \in Thoughts |-> IF l \in {t} THEN "sent" ELSE fate[l]]
  BY DEF Log!Accept, Log!With
<1> QED
  BY <1>1, <1>2, AppendProperties, LenProperties, ElementOfSeq

LEMMA InOrder ==
  ASSUME OrderInv, NEW s \in Sessions, NEW m \in 1..PerSession, NEW n \in 1..PerSession,
         m < n, NEW i \in 1..Len(queue), NEW j \in 1..Len(queue),
         queue[i] = <<s, m>>, queue[j] = <<s, n>>
  PROVE  i < j
BY DEF OrderInv

LEMMA AcceptKeeps ==
  ASSUME TypeOK, QueueInv, OrderInv, NEW t \in Thoughts, Log!Accept(t),
         \A s \in Sessions : \A m, n \in 1..PerSession :
           t = <<s, m>> /\ m < n => fate[<<s, n>>] = "new"
  PROVE  QueueInv' /\ OrderInv'
<1> DEFINE L == Len(queue)
<1>1. /\ L \in Nat /\ Len(queue') = L + 1
      /\ \A i \in 1..L : queue'[i] = queue[i] /\ queue[i] \in Thoughts
      /\ queue'[L + 1] = t
      /\ fate[t] = "new" /\ fate'[t] = "sent"
      /\ \A u \in Thoughts : u # t => fate'[u] = fate[u]
  BY AcceptValues
<1>2. 1..Len(queue') = 1..L \cup {L + 1} /\ \A i \in 1..L : i # L + 1 /\ i < L + 1
  BY <1>1
<1>3. \A i \in 1..L : queue[i] # t
  BY <1>1 DEF QueueInv
<1> HIDE DEF L
<1>4. QueueInv'
  <2>1. \A i \in 1..Len(queue') : fate'[queue'[i]] = "sent"
    BY <1>1, <1>2, <1>3 DEF QueueInv, L
  <2>2. ASSUME NEW u \in Thoughts, fate'[u] = "sent"
        PROVE  \E i \in 1..Len(queue') : queue'[i] = u
    <3>1. CASE u = t
      BY <1>1, <1>2, <3>1
    <3>2. CASE u # t
      <4>1. PICK i \in 1..L : queue[i] = u
        BY <1>1, <2>2, <3>2 DEF QueueInv, L
      <4> QED
        BY <1>1, <1>2, <4>1
    <3> QED
      BY <3>1, <3>2
  <2>3. \A i, j \in 1..Len(queue') : queue'[i] = queue'[j] => i = j
    BY <1>1, <1>2, <1>3 DEF QueueInv, L
  <2> QED
    BY <2>1, <2>2, <2>3 DEF QueueInv
<1>5. ASSUME NEW s \in Sessions, NEW m \in 1..PerSession, NEW n \in 1..PerSession, m < n
      PROVE  /\ \A i, j \in 1..Len(queue') :
                  queue'[i] = <<s, m>> /\ queue'[j] = <<s, n>> => i < j
             /\ fate'[<<s, m>>] = "sent" => fate'[<<s, n>>] \in {"new", "sent"}
  <2>1. <<s, m>> \in Thoughts /\ <<s, n>> \in Thoughts /\ <<s, m>> # <<s, n>>
    BY <1>5, SpokenAreThoughts
  <2>2. ASSUME NEW i \in 1..Len(queue'), NEW j \in 1..Len(queue'),
               queue'[i] = <<s, m>>, queue'[j] = <<s, n>>
        PROVE  i < j
    <3>1. CASE i \in 1..L /\ j \in 1..L
      <4>1. queue[i] = <<s, m>> /\ queue[j] = <<s, n>>
        BY <1>1, <2>2, <3>1
      <4>2. i \in 1..Len(queue) /\ j \in 1..Len(queue)
        BY <3>1 DEF L
      <4> QED
        BY <1>5, <4>1, <4>2, InOrder
    <3>2. CASE i \in 1..L /\ j = L + 1
      BY <1>2, <3>2
    <3>3. CASE i = L + 1 /\ j \in 1..L
      <4>1. t = <<s, m>>
        BY <1>1, <2>2, <3>3
      <4>2. queue[j] = <<s, n>>
        BY <1>1, <2>2, <3>3
      <4>3. j \in 1..Len(queue)
        BY <3>3 DEF L
      <4>4. fate[queue[j]] = "sent"
        BY <4>3 DEF QueueInv
      <4> QED
        BY <1>5, <4>1, <4>2, <4>4
    <3>4. CASE i = L + 1 /\ j = L + 1
      BY <2>1, <2>2, <3>4
    <3> QED
      BY <1>2, <3>1, <3>2, <3>3, <3>4
  <2>3. ASSUME fate'[<<s, m>>] = "sent" PROVE fate'[<<s, n>>] \in {"new", "sent"}
    <3>1. CASE t = <<s, m>>
      <4>1. fate[<<s, n>>] = "new"
        BY <1>5, <3>1
      <4>2. fate'[<<s, n>>] = fate[<<s, n>>]
        BY <1>1, <2>1, <3>1
      <4> QED
        BY <4>1, <4>2
    <3>2. CASE t # <<s, m>>
      <4>1. fate[<<s, m>>] = "sent"
        BY <1>1, <2>1, <2>3, <3>2
      <4>2. fate[<<s, n>>] \in {"new", "sent"}
        BY <1>5, <4>1 DEF OrderInv
      <4>3. CASE t = <<s, n>>
        BY <1>1, <4>3
      <4>4. CASE t # <<s, n>>
        BY <1>1, <2>1, <4>2, <4>4
      <4> QED
        BY <4>3, <4>4
    <3> QED
      BY <3>1, <3>2
  <2> QED
    BY <2>2, <2>3
<1> QED
  BY <1>4, <1>5 DEF OrderInv

LEMMA SettleValues ==
  ASSUME TypeOK, NEW k \in 1..Len(queue), Log!Commit(k) \/ Log!GiveUp(k)
  PROVE  /\ Len(queue) \in Nat /\ Len(queue') = Len(queue) - k /\ k \in Nat
         /\ \A i \in 1..Len(queue') : queue'[i] = queue[i + k]
         /\ \A i \in 1..Len(queue) : queue[i] \in Thoughts
         /\ \A u \in Thoughts :
              IF \E i \in 1..k : u = queue[i]
                THEN fate'[u] \in {"published", "dropped"}
                ELSE fate'[u] = fate[u]
<1>1. queue \in Seq(Thoughts) /\ Len(queue) \in Nat /\ k \in 0..Len(queue)
  BY LenProperties DEF TypeOK, Log!TypeOK
<1>2. queue' = Log!Rest(k)
  BY DEF Log!Commit, Log!GiveUp
<1>3. Len(queue') = Len(queue) - k /\ \A i \in 1..Len(queue') : queue'[i] = queue[i + k]
  BY <1>1, <1>2, RestIsSeq
<1>4. \A i \in 1..Len(queue) : queue[i] \in Thoughts
  BY <1>1, ElementOfSeq
<1>5. DOMAIN Log!First(k) = 1..k /\ \A i \in 1..k : Log!First(k)[i] = queue[i]
  BY DEF Log!First
<1>6. Log!In(Log!First(k)) = {queue[i] : i \in 1..k}
  <2>1. Log!First(k) \in Seq(Thoughts)
    <3>1. Log!First(k) \in [1..k -> Thoughts]
      BY <1>1, <1>4 DEF Log!First
    <3> QED
      BY <1>1, <3>1, SeqDef
  <2>2. Len(Log!First(k)) = k
    BY <1>1, <1>5, <2>1, LenProperties
  <2> QED
    BY <1>5, <2>2 DEF Log!In
<1>7. ASSUME NEW u \in Thoughts
      PROVE  IF \E i \in 1..k : u = queue[i]
               THEN fate'[u] \in {"published", "dropped"}
               ELSE fate'[u] = fate[u]
  <2>1. (\E i \in 1..k : u = queue[i]) <=> u \in Log!In(Log!First(k))
    BY <1>6
  <2> QED
    BY <2>1 DEF Log!Commit, Log!GiveUp, Log!With
<1> QED
  BY <1>1, <1>3, <1>4, <1>7

LEMMA SettleKeeps ==
  ASSUME TypeOK, QueueInv, OrderInv, Log!Settle
  PROVE  /\ QueueInv' /\ OrderInv'
         /\ \A u \in Thoughts : /\ (fate[u] = "new") = (fate'[u] = "new")
                                /\ fate[u] # "archived" => fate'[u] # "archived"
<1>1. PICK k \in 1..Len(queue) : Log!Commit(k) \/ Log!GiveUp(k)
  BY DEF Log!Settle
<1>2. /\ Len(queue) \in Nat /\ Len(queue') = Len(queue) - k /\ k \in Nat
      /\ \A i \in 1..Len(queue') : queue'[i] = queue[i + k]
      /\ \A i \in 1..Len(queue) : queue[i] \in Thoughts
      /\ \A u \in Thoughts :
           IF \E i \in 1..k : u = queue[i]
             THEN fate'[u] \in {"published", "dropped"}
             ELSE fate'[u] = fate[u]
  BY <1>1, SettleValues
<1>3. \A i \in 1..Len(queue') : i + k \in 1..Len(queue) /\ i + k \notin 1..k
  BY <1>2
<1>4. \A i \in 1..Len(queue) : i \in 1..k \/ (i - k \in 1..Len(queue') /\ i = (i - k) + k)
  BY <1>2
<1>5. \A i \in 1..k : i \in 1..Len(queue)
  BY <1>2
<1>6. ASSUME NEW u \in Thoughts
      PROVE  /\ (fate[u] = "new") = (fate'[u] = "new")
             /\ fate[u] # "archived" => fate'[u] # "archived"
             /\ fate'[u] = "sent" => fate[u] = "sent"
             /\ fate'[u] = fate[u] \/ fate[u] = "sent"
  <2>1. CASE \E i \in 1..k : u = queue[i]
    <3>1. fate[u] = "sent"
      BY <1>5, <2>1 DEF QueueInv
    <3> QED
      BY <1>2, <2>1, <3>1
  <2>2. CASE ~\E i \in 1..k : u = queue[i]
    BY <1>2, <2>2
  <2> QED
    BY <2>1, <2>2
<1>7. QueueInv'
  <2>1. ASSUME NEW i \in 1..Len(queue') PROVE fate'[queue'[i]] = "sent"
    <3>1. /\ queue'[i] = queue[i + k] /\ i + k \in 1..Len(queue)
          /\ i + k \notin 1..k /\ queue[i + k] \in Thoughts
      BY <1>2, <1>3
    <3>2. ~\E j \in 1..k : queue[i + k] = queue[j]
      BY <1>5, <3>1 DEF QueueInv
    <3>3. fate[queue[i + k]] = "sent"
      BY <3>1 DEF QueueInv
    <3> QED
      BY <1>2, <3>1, <3>2, <3>3
  <2>2. ASSUME NEW u \in Thoughts, fate'[u] = "sent"
        PROVE  \E i \in 1..Len(queue') : queue'[i] = u
    <3>1. PICK i \in 1..Len(queue) : queue[i] = u
      BY <1>6, <2>2 DEF QueueInv
    <3>2. i \notin 1..k
      BY <1>2, <2>2, <3>1
    <3>3. i - k \in 1..Len(queue') /\ i = (i - k) + k
      BY <1>4, <3>2
    <3> QED
      BY <1>2, <3>1, <3>3
  <2>3. ASSUME NEW i \in 1..Len(queue'), NEW j \in 1..Len(queue'), queue'[i] = queue'[j]
        PROVE  i = j
    <3>1. queue[i + k] = queue[j + k]
      BY <1>2, <2>3
    <3>2. i + k = j + k
      BY <1>3, <3>1 DEF QueueInv
    <3> QED
      BY <1>2, <3>2
  <2> QED
    BY <2>1, <2>2, <2>3 DEF QueueInv
<1>8. ASSUME NEW s \in Sessions, NEW m \in 1..PerSession, NEW n \in 1..PerSession, m < n
      PROVE  /\ \A i, j \in 1..Len(queue') :
                  queue'[i] = <<s, m>> /\ queue'[j] = <<s, n>> => i < j
             /\ fate'[<<s, m>>] = "sent" => fate'[<<s, n>>] \in {"new", "sent"}
  <2>1. <<s, m>> \in Thoughts /\ <<s, n>> \in Thoughts
    BY SpokenAreThoughts
  <2>2. ASSUME NEW i \in 1..Len(queue'), NEW j \in 1..Len(queue'),
               queue'[i] = <<s, m>>, queue'[j] = <<s, n>>
        PROVE  i < j
    <3>1. queue[i + k] = <<s, m>> /\ queue[j + k] = <<s, n>>
      BY <1>2, <2>2
    <3>2. i + k < j + k
      BY <1>3, <1>8, <3>1 DEF OrderInv
    <3> QED
      BY <1>2, <3>2
  <2>3. ASSUME fate'[<<s, m>>] = "sent" PROVE fate'[<<s, n>>] \in {"new", "sent"}
    <3>1. fate[<<s, m>>] = "sent"
      BY <1>6, <2>1, <2>3
    <3>2. fate[<<s, n>>] \in {"new", "sent"}
      BY <1>8, <3>1 DEF OrderInv
    <3>3. CASE fate[<<s, n>>] = "sent"
      <4>1. PICK i \in 1..Len(queue) : queue[i] = <<s, m>>
        BY <2>1, <3>1 DEF QueueInv
      <4>2. PICK j \in 1..Len(queue) : queue[j] = <<s, n>>
        BY <2>1, <3>3 DEF QueueInv
      <4>3. i < j
        BY <1>8, <4>1, <4>2 DEF OrderInv
      <4>4. i \notin 1..k
        BY <1>2, <2>1, <2>3, <4>1
      <4>5. j \notin 1..k
        BY <1>2, <4>3, <4>4
      <4>6. ~\E l \in 1..k : <<s, n>> = queue[l]
        BY <1>5, <4>2, <4>5 DEF QueueInv
      <4> QED
        BY <1>2, <2>1, <3>3, <4>6
    <3>4. CASE fate[<<s, n>>] = "new"
      BY <1>6, <2>1, <3>4
    <3> QED
      BY <3>2, <3>3, <3>4
  <2> QED
    BY <2>2, <2>3
<1>9. OrderInv'
  BY <1>8 DEF OrderInv
<1> QED
  BY <1>6, <1>7, <1>9

LEMMA LoseKeeps ==
  ASSUME TypeOK, QueueInv, OrderInv, Log!Lose
  PROVE  /\ QueueInv' /\ OrderInv' /\ Len(queue') = 0
         /\ \A u \in Thoughts : /\ fate[u] # "archived" => fate'[u] # "archived"
                                /\ fate[u] = "new" <=> fate'[u] = "new"
<1>1. queue' = <<>> /\ Len(queue') = 0 /\ 1..Len(queue') = {}
  BY EmptySeq DEF Log!Lose
<1>2. ASSUME NEW u \in Thoughts
      PROVE  /\ fate'[u] # "sent"
             /\ fate[u] # "archived" => fate'[u] # "archived"
             /\ fate[u] = "new" <=> fate'[u] = "new"
  <2>1. fate'[u] = IF u \in Log!In(queue) THEN "dropped" ELSE fate[u]
    BY DEF Log!Lose, Log!With
  <2>2. u \in Log!In(queue) <=> fate[u] = "sent"
    BY DEF Log!In, QueueInv
  <2> QED
    BY <2>1, <2>2
<1>3. QueueInv'
  BY <1>1, <1>2 DEF QueueInv
<1>4. OrderInv'
  <2>1. \A s \in Sessions : \A n \in 1..PerSession : fate'[<<s, n>>] # "sent"
    BY <1>2, SpokenAreThoughts
  <2> QED
    BY <1>1, <2>1 DEF OrderInv
<1> QED
  BY <1>1, <1>2, <1>3, <1>4

LEMMA RefuseKeeps ==
  ASSUME TypeOK, QueueInv, OrderInv, Len(queue) = 0, NEW t \in Thoughts, Log!Refuse(t)
  PROVE  /\ QueueInv' /\ OrderInv' /\ Len(queue') = 0
         /\ fate'[t] = "dropped" /\ \A u \in Thoughts : u # t => fate'[u] = fate[u]
<1>1. /\ queue' = queue /\ 1..Len(queue) = {} /\ fate'[t] = "dropped"
      /\ \A u \in Thoughts : u # t => fate'[u] = fate[u]
  BY DEF Log!Refuse, Log!With
<1>2. \A u \in Thoughts : fate[u] # "sent" /\ fate'[u] # "sent"
  BY <1>1 DEF QueueInv
<1>3. QueueInv'
  BY <1>1, <1>2 DEF QueueInv
<1>4. OrderInv'
  <2>1. \A s \in Sessions : \A n \in 1..PerSession : fate'[<<s, n>>] # "sent"
    BY <1>2, SpokenAreThoughts
  <2> QED
    BY <1>1, <2>1 DEF OrderInv
<1> QED
  BY <1>1, <1>3, <1>4

\* A step that leaves the log alone keeps what is said of it, if it logs nothing.
LEMMA LogAlone ==
  ASSUME LogInv, queue' = queue, fate' = fate, logUp' = logUp, Alive' => Alive,
         \A u \in Thoughts : (stage'[u] \in Logged) = (stage[u] \in Logged)
  PROVE  LogInv'
<1>1. FateInv'
  BY DEF LogInv, FateInv
<1>2. QueueInv' /\ OrderInv'
  BY DEF LogInv, QueueInv, OrderInv
<1> QED
  BY <1>1, <1>2 DEF LogInv

LEMMA LogThoughtStep ==
  ASSUME TypeOK, SessionInv, LogInv, NEW t \in Thoughts, LogThought(t)
  PROVE  LogInv'
<1>1. /\ stage[t] = "merged" /\ stage' = [stage EXCEPT ![t] = "logged"] /\ Alive /\ Alive'
      /\ logUp' = logUp
      /\ (logUp /\ Log!Accept(t)) \/ (~logUp /\ Log!Refuse(t))
  BY DEF LogThought, Move, Alive
<1>2. stage'[t] = "logged" /\ \A u \in Thoughts : u # t => stage'[u] = stage[u]
  BY <1>1 DEF TypeOK
<1>3. CASE logUp /\ Log!Accept(t)
  <2>1. ASSUME NEW s \in Sessions, NEW m \in 1..PerSession, NEW n \in 1..PerSession,
               t = <<s, m>>, m < n
        PROVE  fate[<<s, n>>] = "new"
    <3>1. read[s] \in Nat /\ m \in Nat /\ n \in Nat
      BY BoundAssumption DEF TypeOK
    <3>2. ~(m < read[s])
      BY <1>1, <2>1 DEF SessionInv, Finished
    <3>3. n > read[s]
      BY <2>1, <3>1, <3>2
    <3>4. stage[<<s, n>>] = "none" /\ <<s, n>> \in Thoughts
      BY <3>3, SpokenAreThoughts DEF SessionInv
    <3> QED
      BY <1>1, <3>4 DEF LogInv, FateInv, Logged
  <2>2. QueueInv' /\ OrderInv'
    BY <1>3, <2>1, AcceptKeeps DEF LogInv
  <2>3. fate'[t] = "sent" /\ \A u \in Thoughts : u # t => fate'[u] = fate[u]
    BY <1>3, AcceptValues
  <2>4. FateInv'
    BY <1>1, <1>2, <1>3, <2>3 DEF LogInv, FateInv, Logged
  <2> QED
    BY <2>2, <2>4 DEF LogInv
<1>4. CASE ~logUp /\ Log!Refuse(t)
  <2>1. Len(queue) = 0
    BY <1>4 DEF LogInv, FateInv
  <2>2. /\ QueueInv' /\ OrderInv' /\ Len(queue') = 0
        /\ fate'[t] = "dropped" /\ \A u \in Thoughts : u # t => fate'[u] = fate[u]
    BY <1>4, <2>1, RefuseKeeps DEF LogInv
  <2>3. FateInv'
    BY <1>1, <1>2, <2>2 DEF LogInv, FateInv, Logged
  <2> QED
    BY <2>2, <2>3 DEF LogInv
<1> QED
  BY <1>1, <1>3, <1>4

LEMMA LogStep == TypeOK /\ SessionInv /\ LogInv /\ [Next]_vars => LogInv'
<1> SUFFICES ASSUME TypeOK, SessionInv, LogInv, [Next]_vars PROVE LogInv'
  OBVIOUS
<1>1. ASSUME NEW s \in Sessions, Read(s) \/ Interdict(s) PROVE LogInv'
  <2> DEFINE t == <<s, read[s] + 1>>
  <2>1. /\ t \in Thoughts /\ read[s] + 1 \in 1..PerSession /\ read[s] \in Nat
        /\ stage' = [stage EXCEPT ![t] = "begun"] \/ stage' = [stage EXCEPT ![t] = "refused"]
        /\ UNCHANGED <<phase, logUp, queue, fate>>
    BY <1>1, NextThought, BoundAssumption DEF Read, Interdict, log, TypeOK
  <2>2. stage[t] = "none"
    BY <2>1 DEF SessionInv
  <2>3. stage'[t] \notin Logged /\ \A u \in Thoughts : u # t => stage'[u] = stage[u]
    BY <2>1 DEF TypeOK, Logged
  <2> HIDE DEF t
  <2> QED
    BY <2>1, <2>2, <2>3, LogAlone DEF Logged, Alive
<1>2. ASSUME NEW t \in Thoughts, LogThought(t) PROVE LogInv'
  BY <1>2, LogThoughtStep
<1>3. ASSUME NEW t \in Thoughts,
             \/ Ingress(t)
             \/ Anonymous(t) \/ FindBrain(t) \/ AllocateBrain(t) \/ EnterBrain(t)
             \/ Merge(t) \/ Announce(t)
      PROVE  LogInv'
  <2>1. /\ UNCHANGED <<phase, logUp, queue, fate>>
        /\ \E from, to \in Stages : /\ Move(t, from, to)
                                    /\ (from \in Logged) = (to \in Logged)
    BY <1>3 DEF Ingress, Anonymous, FindBrain, AllocateBrain, EnterBrain, Merge, Announce,
                log, Stages, Logged
  <2>2. \A u \in Thoughts : (stage'[u] \in Logged) = (stage[u] \in Logged)
    BY <2>1 DEF Move, TypeOK
  <2> QED
    BY <2>1, <2>2, LogAlone DEF Alive
<1>4. ASSUME NEW s \in Sessions,
             Send(s) \/ HangUp(s) \/ Connect(s) \/ Disconnected(s) \/ Broken(s)
      PROVE  LogInv'
  <2>1. UNCHANGED <<phase, stage, logUp, queue, fate>>
    BY <1>4 DEF Send, HangUp, Connect, Disconnected, Broken, log
  <2> QED
    BY <2>1, LogAlone DEF Alive
<1>5. CASE EgressDrops \/ Purge \/ Cancel \/ Shutdown \/ UNCHANGED vars
  <2>1. UNCHANGED <<stage, logUp, queue, fate>> /\ (Alive' => Alive)
    BY <1>5 DEF EgressDrops, Purge, Cancel, Shutdown, Drained, DropLog, End, vars, log, Alive
  <2> QED
    BY <2>1, LogAlone
<1>6. CASE SettleLog
  <2>1. UNCHANGED <<phase, stage, logUp>> /\ logUp /\ Alive /\ Log!Settle
    BY <1>6 DEF SettleLog
  <2>2. /\ QueueInv' /\ OrderInv'
        /\ \A u \in Thoughts : /\ (fate[u] = "new") = (fate'[u] = "new")
                               /\ fate[u] # "archived" => fate'[u] # "archived"
    BY <2>1, SettleKeeps DEF LogInv
  <2>3. FateInv'
    BY <2>1, <2>2 DEF LogInv, FateInv, Alive
  <2> QED
    BY <2>2, <2>3 DEF LogInv
<1>7. CASE LogPanics \/ Crash
  <2>1. /\ Log!Lose /\ ~logUp'
        /\ \/ stage' = stage /\ phase' = phase
           \/ stage' = [t \in Thoughts |-> "none"] /\ ~Alive'
    BY <1>7 DEF LogPanics, Crash, Forgotten, Alive
  <2>2. /\ QueueInv' /\ OrderInv' /\ Len(queue') = 0
        /\ \A u \in Thoughts : /\ fate[u] # "archived" => fate'[u] # "archived"
                               /\ fate[u] = "new" <=> fate'[u] = "new"
    BY <2>1, LoseKeeps DEF LogInv
  <2>3. FateInv'
    BY <2>1, <2>2 DEF LogInv, FateInv, Logged, Alive
  <2> QED
    BY <2>2, <2>3 DEF LogInv
<1> QED
  BY <1>1, <1>2, <1>3, <1>4, <1>5, <1>6, <1>7 DEF Next, Worker, Cascade, Thoughts

LEMMA SessionAtStart == Init => SessionInv
<1> SUFFICES ASSUME Init, NEW s \in Sessions, NEW n \in 1..PerSession
             PROVE  /\ stage[<<s, n>>] = "none"
                    /\ ~(n < read[s])
  BY DEF SessionInv
<1>1. <<s, n>> \in Thoughts /\ n \in Nat /\ n > 0
  BY SpokenAreThoughts, BoundAssumption
<1> QED
  BY <1>1 DEF Init

LEMMA LogAtStart == Init => LogInv
<1> SUFFICES ASSUME Init PROVE LogInv
  OBVIOUS
<1>1. /\ Len(queue) = 0 /\ 1..Len(queue) = {} /\ \A t \in Thoughts : fate[t] = "new"
      /\ logUp /\ \A t \in Thoughts : stage[t] = "none"
  BY EmptySeq DEF Init, Log!Init
<1>2. FateInv /\ QueueInv
  BY <1>1 DEF FateInv, QueueInv, Logged
<1>3. \A s \in Sessions : \A n \in 1..PerSession : fate[<<s, n>>] = "new"
  BY <1>1, SpokenAreThoughts
<1>4. OrderInv
  BY <1>1, <1>3 DEF OrderInv
<1> QED
  BY <1>2, <1>4 DEF LogInv

LEMMA LogKept == Spec => [](TypeOK /\ SessionInv /\ LogInv)
BY TypesAtStart, TypesKept, SessionAtStart, SessionStep, LogAtStart, LogStep, PTL DEF Spec

LEMMA OrderFollows ==
  ASSUME TypeOK, SessionInv, LogInv
  PROVE  SessionOrder
<1> SUFFICES ASSUME Alive, NEW s \in Sessions, NEW m \in 1..PerSession,
                    NEW n \in 1..PerSession, m < n
             PROVE  /\ stage[<<s, n>>] \in Merged => stage[<<s, m>>] \in Merged \cup {"refused"}
                    /\ fate[<<s, n>>] = "published" =>
                         \/ fate[<<s, m>>] \in {"published", "dropped"}
                         \/ stage[<<s, m>>] = "refused"
  BY DEF SessionOrder
<1>1. /\ <<s, m>> \in Thoughts /\ <<s, n>> \in Thoughts
      /\ m \in Nat /\ n \in Nat /\ read[s] \in Nat
  BY SpokenAreThoughts, BoundAssumption DEF TypeOK
<1>2. ASSUME stage[<<s, n>>] # "none" PROVE stage[<<s, m>>] \in Finished
  <2>1. n <= read[s]
    BY <1>1, <1>2 DEF SessionInv
  <2>2. m < read[s]
    BY <1>1, <2>1
  <2> QED
    BY <2>2 DEF SessionInv
<1>3. ASSUME stage[<<s, n>>] \in Merged PROVE stage[<<s, m>>] \in Merged \cup {"refused"}
  BY <1>2, <1>3 DEF Merged, Finished
<1>4. ASSUME fate[<<s, n>>] = "published", stage[<<s, m>>] # "refused"
      PROVE  fate[<<s, m>>] \in {"published", "dropped"}
  <2>1. stage[<<s, n>>] \in Logged
    BY <1>1, <1>4 DEF LogInv, FateInv
  <2>2. stage[<<s, m>>] = "done"
    BY <1>2, <1>4, <2>1 DEF Logged, Finished
  <2>3. fate[<<s, m>>] # "new" /\ fate[<<s, m>>] # "archived"
    BY <1>1, <2>2 DEF LogInv, FateInv, Logged
  <2>4. fate[<<s, m>>] # "sent"
    BY <1>4 DEF LogInv, OrderInv
  <2> QED
    BY <1>1, <2>3, <2>4 DEF TypeOK, Log!TypeOK, Log!Fates
<1> QED
  BY <1>3, <1>4

(* The thoughts of one session reach brain and log in the order they were    *)
(* sent, whatever is refused, broken or lost (main.rs 985-1004, lib.rs       *)
(* 187-212).  The argument is that a worker starts no cascade before the     *)
(* last one is finished, and that the log is settled from its oldest end.    *)
THEOREM SessionsInOrder == Spec => []SessionOrder
<1>1. TypeOK /\ SessionInv /\ LogInv => SessionOrder
  BY OrderFollows
<1> QED
  BY <1>1, LogKept, PTL

-----------------------------------------------------------------------------
(* The shutdown.  Once the drain is over no worker is left, and no session   *)
(* is accepted any more.                                                     *)

PhaseInv == phase \in {"severed", "sealing", "ended"} => AllJoined

LEMMA PhaseStep == TypeOK /\ PhaseInv /\ [Next]_vars => PhaseInv'
<1> SUFFICES ASSUME TypeOK, PhaseInv, [Next]_vars PROVE PhaseInv'
  OBVIOUS
<1>1. ASSUME NEW s \in Sessions, Connect(s) PROVE PhaseInv'
  BY <1>1 DEF Connect, PhaseInv
<1>2. ASSUME NEW s \in Sessions, Interdict(s) \/ Disconnected(s) \/ Broken(s)
      PROVE  PhaseInv'
  BY <1>2 DEF Interdict, Disconnected, Broken, PhaseInv, AllJoined, TypeOK
<1>3. ASSUME NEW s \in Sessions, Send(s) \/ HangUp(s) \/ Read(s) PROVE PhaseInv'
  BY <1>3 DEF Send, HangUp, Read, session, PhaseInv, AllJoined
<1>4. ASSUME NEW t \in Thoughts, Ingress(t) \/ Cascade(t) PROVE PhaseInv'
  BY <1>4, CascadeMoves DEF Ingress, session, PhaseInv, AllJoined
<1>5. CASE Cancel \/ Shutdown
  BY <1>5 DEF Cancel, Shutdown, Drained, DropLog, End, session, PhaseInv, AllJoined
<1>6. CASE Crash
  BY <1>6 DEF Crash, PhaseInv
<1>7. CASE EgressDrops \/ Purge \/ SettleLog \/ LogPanics \/ UNCHANGED vars
  BY <1>7 DEF EgressDrops, Purge, SettleLog, LogPanics, vars, session, PhaseInv, AllJoined
<1> QED
  BY <1>1, <1>2, <1>3, <1>4, <1>5, <1>6, <1>7 DEF Next, Worker, Thoughts

LEMMA DrainFollows ==
  ASSUME TypeOK, SessionInv, LogInv, PhaseInv
  PROVE  DrainIsComplete
<1> SUFFICES ASSUME phase \in {"severed", "sealing", "ended"}, NEW t \in Spoken
             PROVE  stage[t] \in {"none", "refused"} \/ fate[t] # "new"
  BY DEF DrainIsComplete
<1>1. PICK s \in Sessions, n \in 1..PerSession : t = <<s, n>>
  BY DEF Spoken
<1>2. stage[t] \in Finished \cup {"none"}
  BY <1>1 DEF PhaseInv, AllJoined, SessionInv
<1> QED
  BY <1>2 DEF LogInv, FateInv, Logged, Finished, Thoughts

(* When main says that the drain is over, every thought that a session's     *)
(* worker accepted has been handed to the log (main.rs 1042-1051).           *)
THEOREM DrainLeavesNothing == Spec => []DrainIsComplete
<1>1. TypeOK /\ SessionInv /\ LogInv /\ PhaseInv => DrainIsComplete
  BY DrainFollows
<1>2. Init => PhaseInv
  BY DEF Init, PhaseInv
<1> QED
  BY <1>1, <1>2, LogKept, PhaseStep, PTL DEF Spec

\* The memory router keeps its handle of the log, like two others.
SealInv == (phase # "down" => "router" \in holders) /\ OnlyAPanicEndsTheShutdown

LEMMA SealStep == SealInv /\ [Next]_vars => SealInv'
<1> SUFFICES ASSUME SealInv, [Next]_vars PROVE SealInv'
  OBVIOUS
<1> USE DEF SealInv, OnlyAPanicEndsTheShutdown
<1>1. ASSUME NEW s \in Sessions,
             Send(s) \/ HangUp(s) \/ Connect(s) \/ Worker(s)
      PROVE  SealInv'
  BY <1>1 DEF Send, HangUp, Connect, Worker, Read, Interdict, Disconnected, Broken, log
<1>2. ASSUME NEW t \in Thoughts, Ingress(t) \/ Cascade(t) PROVE SealInv'
  <2>1. UNCHANGED <<phase, holders, logUp>>
    BY <1>2 DEF Ingress, Cascade, Anonymous, FindBrain, AllocateBrain, EnterBrain, Merge,
                LogThought, Announce, log
  <2> QED
    BY <2>1
<1>3. CASE EgressDrops \/ Purge \/ SettleLog \/ LogPanics \/ UNCHANGED vars
  BY <1>3 DEF EgressDrops, Purge, SettleLog, LogPanics, vars, log
<1>4. CASE Cancel \/ Drained \/ DropLog
  BY <1>4 DEF Cancel, Drained, DropLog, log
<1>5. CASE End
  BY <1>5 DEF End, LogEnded, log
<1>6. CASE Crash
  BY <1>6 DEF Crash
<1> QED
  BY <1>1, <1>2, <1>3, <1>4, <1>5, <1>6 DEF Next, Shutdown, Thoughts

(* Once the sessions are drained, main waits for a worker of the log that    *)
(* three others keep alive: the shutdown ends with a panic of the log, if at *)
(* all (main.rs 1057-1063).  The argument is that no step but a crash takes  *)
(* their handles away.                                                       *)
THEOREM ShutdownTakesAPanic == Spec => []OnlyAPanicEndsTheShutdown
<1>1. Init => SealInv
  BY DEF Init, SealInv, OnlyAPanicEndsTheShutdown, Holders
<1>2. SealInv => OnlyAPanicEndsTheShutdown
  BY DEF SealInv
<1> QED
  BY <1>1, <1>2, SealStep, PTL DEF Spec
=============================================================================
