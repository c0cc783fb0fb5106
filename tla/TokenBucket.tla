---------------------------- MODULE TokenBucket ----------------------------
(***************************************************************************)
(* The rate limiter of raqim-core/src/aegis.rs: AtomicTokenBucket, one for *)
(* each group of agents, with the hot reload of the policies that replaces *)
(* it.                                                                     *)
(*                                                                         *)
(* check_and_consume runs under the read lock of the policies, so several  *)
(* requests are in it at a time.  Each load, store and fetch_sub on the    *)
(* two atomics is a step of its own.  Counters wrap, as they do in the     *)
(* release build of the Dockerfile.                                        *)
(***************************************************************************)
EXTENDS Integers

CONSTANTS
  Requests,    \* tasks that authorize packets of the group
  Rate,        \* max_tps
  Burst,       \* burst_capacity
  Second,      \* instants in a second (1_000_000_000)
  Word,        \* 2^64
  MaxTime,     \* bound: the last instant of the clock
  MaxSetBacks, \* bound: how often the system clock is set back
  MaxReloads   \* bound: how often the policies are reloaded

ASSUME BucketAssumption ==
  /\ Rate \in Nat /\ Second \in Nat \ {0}
  /\ Burst \in Nat /\ Word \in Nat /\ Burst < Word
  /\ MaxTime \in Nat /\ MaxSetBacks \in Nat /\ MaxReloads \in Nat

VARIABLES
  clock,       \* SystemTime::now
  tokens,      \* AtomicTokenBucket::tokens
  last,        \* AtomicTokenBucket::last_refill_nanos
  request,     \* each task's place in check_and_consume and its local variables
  shared,      \* history: whether two requests are or were in the bucket at once,
               \* and no account of it has been opened since
  granted,     \* history: packets let pass on the account
  born,        \* history: the instant up to which time was counted at its opening
  latest,      \* history: the latest instant since then
  setBacks, reloads  \* used up bounds

bucket == <<tokens, last>>
account == <<shared, granted, born, latest>>
time == <<clock, setBacks>>
vars == <<bucket, account, time, request, reloads>>

Idle == [at |-> "idle", now |-> 0, new |-> 0, seen |-> 0]

Init ==
  /\ clock \in 0..MaxTime
  /\ tokens = Burst /\ last = clock
  /\ request = [r \in Requests |-> Idle]
  /\ shared = FALSE /\ granted = 0 /\ born = clock /\ latest = clock
  /\ setBacks = 0 /\ reloads = 0

-----------------------------------------------------------------------------
\* saturating_sub
Elapsed(now, since) == IF now > since THEN now - since ELSE 0

NewTokensRoundedUp(elapsed) == ((elapsed * Rate + Second - 1) \div Second) % Word

\* A u128 product, divided and cut down to a u64.
NewTokens(elapsed) == ((elapsed * Rate) \div Second) % Word

Least(a, b) == IF a < b THEN a ELSE b
Most(a, b)  == IF a > b THEN a ELSE b

RefilledUncapped(seen, new) == (seen + new) % Word
Refilled(seen, new) == Least((seen + new) % Word, Burst)

\* Time is stamped only with a refill: a fraction of a token is not lost with it.
Refills(new) == new > 0

Goes(r, place) == request' = [request EXCEPT ![r].at = place]

-----------------------------------------------------------------------------
(* The account that the properties keep of the bucket.  It is opened when   *)
(* the bucket is made; two requests in the bucket close it; it is opened    *)
(* again when the last of them leaves a bucket that is not above its burst. *)
Alone(r) == \A s \in Requests \ {r} : request[s].at = "idle"

Opens ==
  /\ shared' = FALSE /\ granted' = 0
  /\ born' = last' /\ latest' = Most(clock, last')

Enters(r) ==
  /\ shared' = (shared \/ ~Alone(r))
  /\ granted' = IF shared' THEN 0 ELSE granted
  /\ UNCHANGED <<born, latest>>

Leaves(r, passed) ==
  IF shared /\ Alone(r) /\ tokens' <= Burst THEN Opens
  ELSE /\ granted' = IF shared THEN 0 ELSE granted + passed
       /\ UNCHANGED <<shared, born, latest>>

-----------------------------------------------------------------------------
ReadClock(r) ==
  /\ request[r].at = "idle"
  /\ request' =
       [request EXCEPT ![r] = [at |-> "clock", now |-> clock, new |-> 0, seen |-> 0]]
  /\ Enters(r)
  /\ UNCHANGED <<bucket, time, reloads>>

ReadLast(r) ==
  /\ request[r].at = "clock"
  /\ LET new == NewTokens(Elapsed(request[r].now, last))
     IN  request' = [request EXCEPT ![r].new = new,
                                   ![r].at = IF Refills(new) THEN "stamp" ELSE "look"]
  /\ UNCHANGED <<bucket, account, time, reloads>>

Stamp(r) ==
  /\ request[r].at = "stamp"
  /\ last' = request[r].now
  /\ Goes(r, "load")
  /\ UNCHANGED <<tokens, account, time, reloads>>

Load(r) ==
  /\ request[r].at = "load"
  /\ request' = [request EXCEPT ![r].seen = tokens, ![r].at = "store"]
  /\ UNCHANGED <<bucket, account, time, reloads>>

Store(r) ==
  /\ request[r].at = "store"
  /\ tokens' = Refilled(request[r].seen, request[r].new)
  /\ Goes(r, "look")
  /\ UNCHANGED <<last, account, time, reloads>>

\* Empty: the packet is refused.
Look(r) ==
  /\ request[r].at = "look"
  /\ UNCHANGED <<bucket, time, reloads>>
  /\ \/ tokens > 0 /\ Goes(r, "take") /\ UNCHANGED account
     \/ tokens = 0 /\ Goes(r, "idle") /\ Leaves(r, 0)

Take(r) ==
  /\ request[r].at = "take"
  /\ tokens' = (tokens - 1) % Word
  /\ UNCHANGED <<last, time, reloads>>
  /\ Goes(r, "idle") /\ Leaves(r, 1)

\* reload_policies takes the write lock: no request is in between.  Every
\* group gets a new bucket.
Reload ==
  /\ reloads < MaxReloads
  /\ \A r \in Requests : request[r].at = "idle"
  /\ tokens' = Burst /\ last' = clock
  /\ Opens
  /\ reloads' = reloads + 1
  /\ UNCHANGED <<clock, setBacks, request>>

Tick ==
  /\ clock < MaxTime
  /\ clock' = clock + 1
  /\ latest' = Most(clock + 1, latest)
  /\ UNCHANGED <<bucket, shared, granted, born, setBacks, request, reloads>>

\* SystemTime is not monotonic.
SetBack ==
  /\ setBacks < MaxSetBacks
  /\ \E instant \in 0..MaxTime : instant < clock /\ clock' = instant
  /\ setBacks' = setBacks + 1
  /\ UNCHANGED <<bucket, account, request, reloads>>

Check(r) ==
  \/ ReadClock(r) \/ ReadLast(r) \/ Stamp(r) \/ Load(r) \/ Store(r)
  \/ Look(r) \/ Take(r)

Next == (\E r \in Requests : Check(r)) \/ Reload \/ Tick \/ SetBack

Spec == Init /\ [][Next]_vars

-----------------------------------------------------------------------------
Places == {"idle", "clock", "stamp", "load", "store", "look", "take"}

(* Types; all counters are unsigned words, and time is stamped only for a  *)
(* refill of at least a token (aegis.rs 62-65).                            *)
TypeOK ==
  /\ clock \in 0..MaxTime /\ last \in 0..MaxTime
  /\ born \in 0..MaxTime /\ latest \in 0..MaxTime
  /\ tokens \in 0..(Word - 1)
  /\ shared \in BOOLEAN /\ granted \in Nat
  /\ setBacks \in 0..MaxSetBacks /\ reloads \in 0..MaxReloads
  /\ request \in [Requests ->
       [at : Places, now : 0..MaxTime, new : 0..(Word - 1), seen : 0..(Word - 1)]]
  /\ \A r \in Requests : request[r].at \in {"stamp", "load", "store"} => request[r].new > 0

(* The bucket never holds more than its burst capacity (the comment at     *)
(* aegis.rs 67): a counter that wraps below zero would.                    *)
NeverAboveBurst == tokens <= Burst

(* No refill lifts the bucket above its burst capacity (aegis.rs 67-71),   *)
(* whatever runs beside it and however old the count is that it adds to:   *)
(* the counter comes to be above only where a subtraction wraps it.        *)
RefillsRespectBurst ==
  [][tokens' > tokens => tokens' <= Burst \/ (tokens = 0 /\ tokens' = Word - 1)]_vars

(* As long as one request at a time is in the bucket, no more packets pass *)
(* than the burst and the rate over that time allow, whatever the clock    *)
(* does and however the refills are spaced (aegis.rs 54-72).  From when    *)
(* two are in it at once nothing is promised until it is quiet again and   *)
(* not above its burst: a refill may then count twice and a subtraction    *)
(* wrap.                                                                   *)
WithinQuota ==
  ~shared => (granted + tokens) * Second <= Burst * Second + Rate * (latest - born)
=============================================================================
