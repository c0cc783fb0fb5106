------------------------- MODULE TokenBucketProofs -------------------------
(***************************************************************************)
(* What TokenBucket guarantees for any number of concurrent requests and   *)
(* every rate, burst and clock: types, refills that respect the burst, and *)
(* the quota over every stretch with one request at a time in the bucket.  *)
(***************************************************************************)
EXTENDS TokenBucket, TLAPS

-----------------------------------------------------------------------------
\* Arithmetic.

LEMMA DivisionRoundsDown ==
  ASSUME NEW a \in Nat, NEW s \in Nat \ {0}
  PROVE  /\ a \div s \in Nat
         /\ (a \div s) * s <= a
BY SMT

LEMMA RemainderIsSmaller ==
  ASSUME NEW a \in Nat, NEW w \in Nat \ {0}
  PROVE  a % w \in 0..(w - 1) /\ a % w <= a
BY SMT

LEMMA ProductGrows ==
  ASSUME NEW a \in Nat, NEW b \in Nat, NEW c \in Nat, a <= b
  PROVE  a * c \in Nat /\ b * c \in Nat /\ a * c <= b * c /\ c * a <= c * b
BY SMT

LEMMA SumGrows ==
  ASSUME NEW g \in Nat, NEW t \in Nat, NEW u \in Nat, NEW n \in Nat, u <= t + n
  PROVE  g + u + 0 \in Nat /\ g + t + n \in Nat /\ g + u + 0 <= g + t + n
BY SMT

LEMMA ProductDistributes ==
  ASSUME NEW a \in Int, NEW b \in Int, NEW c \in Int
  PROVE  /\ (a + b) * c = a * c + b * c
         /\ (a - b) * c = a * c - b * c
         /\ a * c \in Int /\ b * c \in Int
BY SMT

-----------------------------------------------------------------------------
\* Types, for any number of requests.

LEMMA NewTokensType ==
  ASSUME NEW e \in Nat
  PROVE  /\ NewTokens(e) \in 0..(Word - 1)
         /\ NewTokens(e) * Second <= e * Rate
<1>1. /\ e * Rate \in Nat /\ Word \in Nat \ {0} /\ Second \in Nat \ {0}
  BY BucketAssumption, SMT
<1>2. DEFINE q == (e * Rate) \div Second
<1>3. q \in Nat /\ q * Second <= e * Rate
  BY <1>1, DivisionRoundsDown
<1>4. q % Word \in 0..(Word - 1) /\ q % Word <= q
  BY <1>1, <1>3, RemainderIsSmaller
<1>5. (q % Word) * Second <= q * Second
  BY <1>1, <1>3, <1>4, ProductGrows
<1>6. (q % Word) * Second \in Nat /\ q * Second \in Nat
  BY <1>1, <1>3, <1>4, ProductGrows
<1> QED
  BY <1>1, <1>3, <1>4, <1>5, <1>6 DEF NewTokens

LEMMA RefilledType ==
  ASSUME NEW seen \in 0..(Word - 1), NEW new \in 0..(Word - 1)
  PROVE  /\ Refilled(seen, new) \in 0..(Word - 1)
         /\ Refilled(seen, new) <= Burst
         /\ Refilled(seen, new) <= seen + new
<1>0. seen + new \in Nat /\ Word \in Nat \ {0}
  BY BucketAssumption
<1>1. (seen + new) % Word \in 0..(Word - 1) /\ (seen + new) % Word <= seen + new
  BY <1>0, RemainderIsSmaller
<1> QED
  BY <1>1, BucketAssumption DEF Refilled, Least

LEMMA TypesAtStart == Init => TypeOK
<1> SUFFICES ASSUME Init
             PROVE  TypeOK
  OBVIOUS
<1>1. /\ clock \in 0..MaxTime /\ last = clock /\ born = clock /\ latest = clock
      /\ tokens = Burst /\ Burst \in 0..(Word - 1)
      /\ granted = 0 /\ setBacks = 0 /\ reloads = 0
  BY BucketAssumption DEF Init
<1>2. Idle \in [at : Places, now : 0..MaxTime, new : 0..(Word - 1), seen : 0..(Word - 1)]
  BY BucketAssumption DEF Idle, Places
<1>3. \A r \in Requests : request[r] = Idle /\ Idle.at = "idle"
  BY DEF Init, Idle
<1>4. request \in [Requests -> {Idle}]
  BY DEF Init
<1>5. request \in [Requests ->
        [at : Places, now : 0..MaxTime, new : 0..(Word - 1), seen : 0..(Word - 1)]]
  BY <1>2, <1>4
<1>6. \A r \in Requests : request[r].at \in {"stamp", "load", "store"} => request[r].new > 0
  BY <1>3
<1>7. /\ clock \in 0..MaxTime /\ last \in 0..MaxTime
      /\ born \in 0..MaxTime /\ latest \in 0..MaxTime
      /\ tokens \in 0..(Word - 1) /\ granted \in Nat
      /\ setBacks \in 0..MaxSetBacks /\ reloads \in 0..MaxReloads
  BY <1>1, BucketAssumption
<1>8. shared \in BOOLEAN
  BY DEF Init
<1> QED
  BY <1>5, <1>6, <1>7, <1>8 DEF TypeOK

LEMMA OpensType ==
  ASSUME Opens, clock \in 0..MaxTime, last' \in 0..MaxTime
  PROVE  /\ shared' \in BOOLEAN /\ granted' \in Nat
         /\ born' \in 0..MaxTime /\ latest' \in 0..MaxTime
         /\ clock <= latest' /\ last' <= latest'
<1>1. shared' = FALSE /\ granted' = 0 /\ born' = last'
  BY DEF Opens
<1>2. latest' = Most(clock, last')
  BY DEF Opens
<1>3. Most(clock, last') \in 0..MaxTime
  BY DEF Most
<1>4. clock <= Most(clock, last') /\ last' <= Most(clock, last')
  BY BucketAssumption DEF Most
<1> QED
  BY <1>1, <1>2, <1>3, <1>4

LEMMA AccountType ==
  ASSUME TypeOK, NEW r \in Requests, NEW passed \in Nat, Enters(r) \/ Leaves(r, passed),
         UNCHANGED last
  PROVE  /\ shared' \in BOOLEAN /\ granted' \in Nat
         /\ born' \in 0..MaxTime /\ latest' \in 0..MaxTime
<1>1. CASE Enters(r)
  BY <1>1 DEF Enters, TypeOK
<1>2. CASE Leaves(r, passed)
  BY <1>2, OpensType DEF Leaves, TypeOK
<1> QED
  BY <1>1, <1>2

LEMMA TypesOfCheck ==
  ASSUME TypeOK, NEW r \in Requests, Check(r)
  PROVE  TypeOK'
<1> USE BucketAssumption DEF TypeOK, Places, bucket, account, time
<1>1. CASE ReadClock(r)
  <2>1. /\ shared' \in BOOLEAN /\ granted' \in Nat
        /\ born' \in 0..MaxTime /\ latest' \in 0..MaxTime
    BY <1>1, AccountType DEF ReadClock
  <2> QED
    BY <1>1, <2>1 DEF ReadClock
<1>2. CASE ReadLast(r)
  <2>1. Elapsed(request[r].now, last) \in Nat
    BY DEF Elapsed
  <2>2. NewTokens(Elapsed(request[r].now, last)) \in 0..(Word - 1)
    BY <2>1, NewTokensType
  <2> QED
    BY <1>2, <2>2 DEF ReadLast, Refills
<1>3. CASE Stamp(r)
  BY <1>3 DEF Stamp, Goes
<1>4. CASE Load(r)
  BY <1>4 DEF Load
<1>5. CASE Store(r)
  <2>1. Refilled(request[r].seen, request[r].new) \in 0..(Word - 1)
    BY RefilledType
  <2> QED
    BY <1>5, <2>1 DEF Store, Goes
<1>6. CASE Look(r)
  <2>1. /\ shared' \in BOOLEAN /\ granted' \in Nat
        /\ born' \in 0..MaxTime /\ latest' \in 0..MaxTime
    BY <1>6, AccountType DEF Look
  <2> QED
    BY <1>6, <2>1 DEF Look, Goes
<1>7. CASE Take(r)
  <2>1. (tokens - 1) % Word \in 0..(Word - 1)
    BY SMT
  <2>2. /\ shared' \in BOOLEAN /\ granted' \in Nat
        /\ born' \in 0..MaxTime /\ latest' \in 0..MaxTime
    BY <1>7, AccountType DEF Take
  <2> QED
    BY <1>7, <2>1, <2>2 DEF Take, Goes
<1> QED
  BY <1>1, <1>2, <1>3, <1>4, <1>5, <1>6, <1>7 DEF Check

LEMMA TypesKept == TypeOK /\ [Next]_vars => TypeOK'
<1> SUFFICES ASSUME TypeOK, [Next]_vars PROVE TypeOK'
  OBVIOUS
<1> USE BucketAssumption DEF TypeOK, bucket, account, time
<1>1. ASSUME NEW r \in Requests, Check(r) PROVE TypeOK'
  BY <1>1, TypesOfCheck
<1>2. CASE Reload
  BY <1>2, OpensType DEF Reload
<1>3. CASE Tick
  BY <1>3 DEF Tick, Most
<1>4. CASE SetBack
  BY <1>4 DEF SetBack
<1>5. CASE UNCHANGED vars
  BY <1>5 DEF vars
<1> QED
  BY <1>1, <1>2, <1>3, <1>4, <1>5 DEF Next

(* Any number of requests at once: the atomics stay words, a request is    *)
(* always at a defined place, and no refill is empty (check_and_consume).  *)
THEOREM BucketTypes == Spec => []TypeOK
BY TypesAtStart, TypesKept, PTL DEF Spec

-----------------------------------------------------------------------------
\* Any number of requests: the burst.

LEMMA TakenOnce ==
  ASSUME NEW t \in 0..(Word - 1)
  PROVE  IF t = 0 THEN (t - 1) % Word = Word - 1 ELSE (t - 1) % Word = t - 1
<1>1. Word \in Nat \ {0}
  BY BucketAssumption
<1>2. CASE t = 0
  BY <1>1, <1>2, SMT
<1>3. CASE t # 0
  BY <1>1, <1>3, SMT
<1> QED
  BY <1>2, <1>3

LEMMA StepRespectsBurst ==
  ASSUME TypeOK, [Next]_vars, tokens' > tokens
  PROVE  tokens' <= Burst \/ (tokens = 0 /\ tokens' = Word - 1)
<1>t. Burst \in Nat /\ tokens \in 0..(Word - 1) /\ tokens \in Nat
  BY BucketAssumption DEF TypeOK
<1>1. ASSUME NEW r \in Requests, Store(r)
      PROVE  tokens' <= Burst
  <2>1. request[r].seen \in 0..(Word - 1) /\ request[r].new \in 0..(Word - 1)
    BY DEF TypeOK
  <2>2. Refilled(request[r].seen, request[r].new) <= Burst
    BY <2>1, RefilledType
  <2> QED
    BY <1>1, <2>2 DEF Store
<1>2. ASSUME NEW r \in Requests, Take(r)
      PROVE  tokens = 0 /\ tokens' = Word - 1
  <2>1. tokens' = (tokens - 1) % Word
    BY <1>2 DEF Take
  <2>2. tokens = 0
    BY <1>t, <2>1, TakenOnce
  <2> QED
    BY <1>t, <2>1, <2>2, TakenOnce
<1>3. CASE Reload
  BY <1>t, <1>3 DEF Reload
<1>4. ASSUME tokens' = tokens
      PROVE  FALSE
  BY <1>t, <1>4
<1>5. CASE Tick \/ SetBack \/ UNCHANGED vars
  BY <1>4, <1>5 DEF Tick, SetBack, vars, bucket
<1>6. ASSUME NEW r \in Requests,
             ReadClock(r) \/ ReadLast(r) \/ Stamp(r) \/ Load(r) \/ Look(r)
      PROVE  FALSE
  BY <1>4, <1>6 DEF ReadClock, ReadLast, Stamp, Load, Look, bucket
<1> QED
  BY <1>1, <1>2, <1>3, <1>5, <1>6 DEF Next, Check

(* However many requests refill and take at once, with whatever old counts, *)
(* a refill never lifts the bucket above its burst capacity (aegis.rs      *)
(* 67-71): only a subtraction from an empty bucket does.                   *)
THEOREM RefillsAreCapped == Spec => RefillsRespectBurst
<1>1. TypeOK /\ [Next]_vars =>
        [tokens' > tokens => tokens' <= Burst \/ (tokens = 0 /\ tokens' = Word - 1)]_vars
  BY StepRespectsBurst
<1> QED
  BY <1>1, BucketTypes, PTL DEF Spec, RefillsRespectBurst

-----------------------------------------------------------------------------
\* As long as one request at a time is in the bucket: the quota.

\* What was granted, is held and is about to be added was paid for up to the
\* last refill.
Spent(extra) ==
  (granted + tokens + extra) * Second <= Burst * Second + Rate * (last - born)

\* A request that is about to refill has counted the time since the last one.
PlaceInv(r) ==
  /\ request[r].at = "stamp" =>
       /\ last < request[r].now
       /\ request[r].new * Second <= (request[r].now - last) * Rate
  /\ request[r].at \in {"load", "store"} => Spent(request[r].new)
  /\ request[r].at = "store" => request[r].seen = tokens
  /\ request[r].at = "take" => tokens > 0

\* Nobody knows of a later instant than the account.
ClockInv ==
  /\ last <= latest /\ clock <= latest
  /\ \A r \in Requests : request[r].at # "idle" => request[r].now <= latest

\* An open account: one request at most is in the bucket, and the books balance.
OpenInv ==
  /\ \A r, s \in Requests : request[r].at # "idle" /\ request[s].at # "idle" => r = s
  /\ \A r \in Requests : PlaceInv(r)
  /\ born <= last /\ tokens <= Burst /\ Spent(0)

QuotaInv == TypeOK /\ ClockInv /\ (~shared => OpenInv)

LEMMA FullBooks ==
  ASSUME NEW t \in Nat, NEW l \in Nat, t <= Burst
  PROVE  (0 + t + 0) * Second <= Burst * Second + Rate * (l - l)
<1>1. 0 + t + 0 = t /\ l - l = 0
  OBVIOUS
<1>2. t * Second \in Nat /\ Burst * Second \in Nat /\ t * Second <= Burst * Second
  BY BucketAssumption, ProductGrows
<1>3. Rate * 0 = 0
  BY BucketAssumption, SMT
<1> QED
  BY <1>1, <1>2, <1>3

LEMMA FreshAccount ==
  ASSUME TypeOK', Opens, tokens' <= Burst, \A r \in Requests : request'[r].at = "idle"
  PROVE  OpenInv'
<1>1. granted' = 0 /\ born' = last'
  BY DEF Opens
<1>2. last' \in Nat /\ tokens' \in Nat
  BY BucketAssumption DEF TypeOK
<1>3. (0 + tokens' + 0) * Second <= Burst * Second + Rate * (last' - last')
  BY <1>2, FullBooks
<1>4. Spent(0)'
  BY <1>1, <1>3 DEF Spent
<1>5. born' <= last'
  BY <1>1, <1>2
<1> QED
  BY <1>4, <1>5 DEF OpenInv, PlaceInv

LEMMA QuotaAtStart == Init => QuotaInv
<1> SUFFICES ASSUME Init
             PROVE  QuotaInv
  OBVIOUS
<1>1. TypeOK
  BY TypesAtStart
<1>2. Spent(0)
  <2>1. last - born = 0 /\ granted + tokens + 0 = Burst
    BY BucketAssumption DEF Init
  <2>2. Rate * 0 = 0 /\ Burst * Second \in Nat
    BY BucketAssumption, ProductGrows
  <2> QED
    BY <2>1, <2>2 DEF Spent
<1> QED
  BY <1>1, <1>2, BucketAssumption DEF Init, QuotaInv, ClockInv, OpenInv, PlaceInv, Idle

LEMMA ClockOfCheck ==
  ASSUME TypeOK, ClockInv, NEW r \in Requests, Check(r), TypeOK'
  PROVE  ClockInv'
<1> USE DEF ClockInv, TypeOK, bucket, account, time
<1>1. ASSUME NEW passed \in Nat, Leaves(r, passed), UNCHANGED <<clock, last>>,
             request'[r].at = "idle",
             \A s \in Requests \ {r} : request'[s] = request[s]
      PROVE  ClockInv'
  <2>1. CASE shared /\ Alone(r) /\ tokens' <= Burst
    <3>1. clock' <= latest' /\ last' <= latest'
      BY <1>1, <2>1, OpensType DEF Leaves
    <3>2. \A s \in Requests : request'[s].at = "idle"
      BY <1>1, <2>1 DEF Alone
    <3> QED
      BY <3>1, <3>2
  <2>2. CASE ~(shared /\ Alone(r) /\ tokens' <= Burst)
    BY <1>1, <2>2 DEF Leaves
  <2> QED
    BY <2>1, <2>2
<1>2. CASE ReadClock(r)
  BY <1>2 DEF ReadClock, Enters
<1>3. CASE ReadLast(r) \/ Stamp(r) \/ Load(r) \/ Store(r)
  BY <1>3 DEF ReadLast, Stamp, Load, Store, Goes
<1>4. CASE Look(r)
  <2>1. CASE tokens > 0
    BY <1>4, <2>1 DEF Look, Goes
  <2>2. CASE tokens = 0
    BY <1>1, <1>4, <2>2 DEF Look, Goes
  <2> QED
    BY <2>1, <2>2
<1>5. CASE Take(r)
  BY <1>1, <1>5 DEF Take, Goes
<1> QED
  BY <1>2, <1>3, <1>4, <1>5 DEF Check

\* What a step of the one request in the bucket keeps, it keeps for all.
LEMMA OneRequest ==
  ASSUME NEW r \in Requests, OpenInv, request[r].at # "idle",
         \A s \in Requests \ {r} : request'[s] = request[s],
         PlaceInv(r)', born' <= last', tokens' <= Burst, Spent(0)'
  PROVE  OpenInv'
<1>1. \A s \in Requests \ {r} : request'[s].at = "idle"
  BY DEF OpenInv
<1> QED
  BY <1>1 DEF OpenInv, PlaceInv

LEMMA QuotaOfLeave ==
  ASSUME QuotaInv, TypeOK', NEW r \in Requests, NEW passed \in {0, 1}, Leaves(r, passed),
         request[r].at # "idle", request'[r].at = "idle", ~shared',
         \A s \in Requests \ {r} : request'[s] = request[s],
         UNCHANGED last,
         ~shared => tokens' = tokens - passed
  PROVE  OpenInv'
<1>1. CASE shared /\ Alone(r) /\ tokens' <= Burst
  <2>1. \A s \in Requests : request'[s].at = "idle"
    BY <1>1 DEF Alone
  <2> QED
    BY <1>1, <2>1, FreshAccount DEF Leaves, QuotaInv
<1>2. CASE ~(shared /\ Alone(r) /\ tokens' <= Burst)
  <2>1. /\ ~shared /\ granted' = granted + passed
        /\ UNCHANGED <<born, last>> /\ tokens' = tokens - passed
    BY <1>2 DEF Leaves
  <2>2. tokens \in Nat /\ granted \in Nat /\ tokens' \in Nat
    BY <2>1 DEF QuotaInv, TypeOK
  <2>3. granted' + tokens' + 0 = granted + tokens + 0 /\ tokens' <= tokens
    BY <2>1, <2>2
  <2>4. Spent(0)' /\ born' <= last' /\ tokens' <= Burst
    BY <2>1, <2>2, <2>3, BucketAssumption DEF QuotaInv, OpenInv, Spent
  <2> QED
    BY <2>1, <2>4, OneRequest DEF QuotaInv, PlaceInv
<1> QED
  BY <1>1, <1>2

LEMMA QuotaOfEnter ==
  ASSUME QuotaInv, NEW r \in Requests, ReadClock(r), TypeOK', ~shared'
  PROVE  OpenInv'
<1>1. /\ ~shared /\ Alone(r) /\ granted' = granted
      /\ UNCHANGED <<tokens, last, born>>
  BY DEF ReadClock, Enters, bucket
<1>2. /\ request'[r].at = "clock"
      /\ \A s \in Requests \ {r} : request'[s] = request[s] /\ request[s].at = "idle"
  BY <1>1 DEF ReadClock, Alone, QuotaInv, TypeOK
<1> QED
  BY <1>1, <1>2 DEF QuotaInv, OpenInv, PlaceInv, Spent

LEMMA QuotaOfCheck ==
  ASSUME QuotaInv, NEW r \in Requests, Check(r), TypeOK', ~shared'
  PROVE  OpenInv'
<1> USE BucketAssumption DEF QuotaInv, ClockInv, bucket, account, time
<1>0. request[r] \in [at : Places, now : 0..MaxTime, new : 0..(Word - 1), seen : 0..(Word - 1)]
  BY DEF TypeOK
<1>t. /\ clock \in Nat /\ last \in Nat /\ born \in Nat /\ latest \in Nat
      /\ tokens \in Nat /\ granted \in Nat /\ request[r].now \in Nat
      /\ request[r].new \in Nat /\ request[r].seen \in Nat
  BY <1>0 DEF TypeOK
<1>1. CASE ReadClock(r)
  BY <1>1, QuotaOfEnter
<1>2. CASE ReadLast(r)
  <2> DEFINE e == Elapsed(request[r].now, last)
  <2>1. e \in Nat
    BY <1>t DEF Elapsed
  <2>2. NewTokens(e) \in Nat /\ NewTokens(e) * Second <= e * Rate
    BY <2>1, NewTokensType
  <2>3. ASSUME NewTokens(e) > 0 PROVE last < request[r].now
    <3>1. 1 * Second <= NewTokens(e) * Second /\ NewTokens(e) * Second \in Nat
      BY <2>2, <2>3, ProductGrows
    <3>2. 0 * Rate = 0
      BY SMT
    <3> QED
      BY <1>t, <2>2, <3>1, <3>2 DEF Elapsed
  <2>4. last < request[r].now => e = request[r].now - last
    BY <1>t DEF Elapsed
  <2>5. /\ request'[r].new = NewTokens(e)
        /\ request'[r].at = IF NewTokens(e) > 0 THEN "stamp" ELSE "look"
        /\ request'[r].now = request[r].now
        /\ request[r].at = "clock"
        /\ \A s \in Requests \ {r} : request'[s] = request[s]
        /\ UNCHANGED <<tokens, last, granted, born, shared>>
    BY <1>0, <1>2 DEF ReadLast, Refills, TypeOK
  <2>6. PlaceInv(r)'
    BY <2>2, <2>3, <2>4, <2>5 DEF PlaceInv
  <2>7. OpenInv
    BY <2>5
  <2>8. born' <= last' /\ tokens' <= Burst /\ Spent(0)'
    BY <2>5, <2>7 DEF OpenInv, Spent
  <2> QED
    BY <2>5, <2>6, <2>7, <2>8, OneRequest
<1>3. CASE Stamp(r)
  <2>1. /\ last' = request[r].now /\ request[r].at = "stamp" /\ request'[r].at = "load"
        /\ request'[r].new = request[r].new /\ request'[r].now = request[r].now
        /\ \A s \in Requests \ {r} : request'[s] = request[s]
        /\ UNCHANGED <<tokens, granted, born, shared>>
    BY <1>0, <1>3 DEF Stamp, Goes, TypeOK
  <2>0. OpenInv /\ PlaceInv(r)
    BY <2>1 DEF OpenInv
  <2> DEFINE gt == granted + tokens   new == request[r].new   now == request[r].now
  <2>2. (gt + 0) * Second <= Burst * Second + Rate * (last - born)
    BY <2>0 DEF OpenInv, Spent
  <2>3. new * Second <= (now - last) * Rate /\ last < now
    BY <2>0, <2>1 DEF PlaceInv
  <2>4. (gt + new) * Second = gt * Second + new * Second
    BY <1>t, ProductDistributes
  <2>5. Rate * (now - born) = Rate * (last - born) + (now - last) * Rate
    BY <1>t, SMT
  <2>6. /\ gt * Second \in Int /\ new * Second \in Int /\ Burst * Second \in Int
        /\ Rate * (last - born) \in Int /\ (now - last) * Rate \in Int /\ gt + 0 = gt
        /\ new * Second >= 0
    BY <1>t, ProductGrows
  <2>7. (gt + new) * Second <= Burst * Second + Rate * (now - born)
    BY <2>2, <2>3, <2>4, <2>5, <2>6
  <2>8. (gt + 0) * Second <= Burst * Second + Rate * (now - born)
    BY <2>2, <2>3, <2>5, <2>6
  <2>9. Spent(request[r].new)' /\ Spent(0)'
    BY <2>1, <2>7, <2>8 DEF Spent
  <2>10. PlaceInv(r)'
    BY <2>1, <2>9 DEF PlaceInv
  <2>11. born' <= last' /\ tokens' <= Burst
    BY <1>t, <2>0, <2>1, <2>3 DEF OpenInv
  <2> QED
    BY <2>0, <2>1, <2>9, <2>10, <2>11, OneRequest
<1>4. CASE Load(r)
  <2>1. /\ request[r].at = "load" /\ request'[r].at = "store"
        /\ request'[r].seen = tokens /\ request'[r].new = request[r].new
        /\ \A s \in Requests \ {r} : request'[s] = request[s]
        /\ UNCHANGED <<tokens, last, granted, born, shared>>
    BY <1>0, <1>4 DEF Load, TypeOK
  <2>2. OpenInv /\ PlaceInv(r)
    BY <2>1 DEF OpenInv
  <2>3. PlaceInv(r)' /\ Spent(0)' /\ born' <= last' /\ tokens' <= Burst
    BY <2>1, <2>2 DEF OpenInv, PlaceInv, Spent
  <2> QED
    BY <2>1, <2>2, <2>3, OneRequest
<1>5. CASE Store(r)
  <2>1. /\ tokens' = Refilled(request[r].seen, request[r].new)
        /\ request[r].at = "store" /\ request'[r].at = "look"
        /\ request'[r].now = request[r].now
        /\ \A s \in Requests \ {r} : request'[s] = request[s]
        /\ UNCHANGED <<last, granted, born, shared>>
    BY <1>0, <1>5 DEF Store, Goes, TypeOK
  <2>0. OpenInv /\ PlaceInv(r)
    BY <2>1 DEF OpenInv
  <2>2. /\ tokens' \in Nat /\ tokens' <= Burst
        /\ tokens' <= tokens + request[r].new
    <3>1. request[r].seen = tokens
      BY <2>0, <2>1 DEF PlaceInv
    <3>2. request[r].seen \in 0..(Word - 1) /\ request[r].new \in 0..(Word - 1)
      BY <1>0
    <3>3. /\ Refilled(request[r].seen, request[r].new) \in 0..(Word - 1)
          /\ Refilled(request[r].seen, request[r].new) <= Burst
          /\ Refilled(request[r].seen, request[r].new) <= request[r].seen + request[r].new
      BY <3>2, RefilledType
    <3> QED
      BY <2>1, <3>1, <3>3
  <2>3. (granted + tokens' + 0) * Second <= (granted + tokens + request[r].new) * Second
    <3>1. /\ granted + tokens' + 0 \in Nat
          /\ granted + tokens + request[r].new \in Nat
          /\ granted + tokens' + 0 <= granted + tokens + request[r].new
      BY <1>t, <2>2, SumGrows
    <3> QED
      BY <3>1, ProductGrows
  <2>4. Spent(request[r].new)
    BY <2>0, <2>1 DEF PlaceInv
  <2>5. /\ (granted + tokens' + 0) * Second \in Int
        /\ (granted + tokens + request[r].new) * Second \in Int
        /\ Burst * Second + Rate * (last - born) \in Int
    BY <1>t, <2>2
  <2>6. (granted + tokens' + 0) * Second <= Burst * Second + Rate * (last - born)
    BY <2>3, <2>4, <2>5 DEF Spent
  <2>7. PlaceInv(r)' /\ Spent(0)' /\ born' <= last'
    BY <2>0, <2>1, <2>6 DEF PlaceInv, OpenInv, Spent
  <2> QED
    BY <2>0, <2>1, <2>2, <2>7, OneRequest
<1>6. CASE Look(r)
  <2>1. /\ request[r].at = "look"
        /\ \A s \in Requests \ {r} : request'[s] = request[s]
        /\ UNCHANGED <<tokens, last>>
    BY <1>6 DEF Look, Goes, TypeOK
  <2>2. CASE tokens > 0
    <3>1. request'[r].at = "take" /\ UNCHANGED account
      BY <1>0, <1>6, <2>2 DEF Look, Goes, TypeOK
    <3>2. OpenInv
      BY <3>1
    <3>3. PlaceInv(r)' /\ Spent(0)' /\ born' <= last' /\ tokens' <= Burst
      BY <2>1, <2>2, <3>1, <3>2 DEF OpenInv, PlaceInv, Spent
    <3> QED
      BY <2>1, <3>2, <3>3, OneRequest
  <2>3. CASE tokens = 0
    <3>1. request'[r].at = "idle" /\ Leaves(r, 0)
      BY <1>0, <1>6, <2>3 DEF Look, Goes, TypeOK
    <3>2. tokens' = tokens - 0
      BY <1>t, <2>1
    <3> QED
      BY <2>1, <3>1, <3>2, QuotaOfLeave
  <2> QED
    BY <1>t, <2>2, <2>3
<1>7. CASE Take(r)
  <2>1. /\ tokens' = (tokens - 1) % Word /\ Leaves(r, 1)
        /\ request[r].at = "take" /\ request'[r].at = "idle"
        /\ \A s \in Requests \ {r} : request'[s] = request[s]
        /\ UNCHANGED last
    BY <1>0, <1>7 DEF Take, Goes, TypeOK
  <2>2. ~shared => tokens' = tokens - 1
    <3>1. ~shared => tokens # 0
      BY <1>t, <2>1 DEF OpenInv, PlaceInv
    <3> QED
      BY <2>1, <3>1, TakenOnce DEF TypeOK
  <2> QED
    BY <2>1, <2>2, QuotaOfLeave
<1> QED
  BY <1>1, <1>2, <1>3, <1>4, <1>5, <1>6, <1>7 DEF Check

LEMMA QuotaKept == QuotaInv /\ [Next]_vars => QuotaInv'
<1> SUFFICES ASSUME QuotaInv, [Next]_vars
             PROVE  QuotaInv'
  OBVIOUS
<1>0. TypeOK'
  BY TypesKept DEF QuotaInv
<1> USE BucketAssumption DEF QuotaInv, ClockInv, bucket, account, time
<1>1. ASSUME NEW r \in Requests, Check(r) PROVE QuotaInv'
  BY <1>0, <1>1, QuotaOfCheck, ClockOfCheck
<1>2. CASE Reload
  <2>1. \A r \in Requests : request'[r].at = "idle"
    BY <1>2 DEF Reload
  <2>2. Opens /\ clock' = clock /\ tokens' <= Burst
    BY <1>2 DEF Reload
  <2>3. clock' <= latest' /\ last' <= latest'
    BY <1>0, <2>2, OpensType DEF TypeOK
  <2> QED
    BY <1>0, <2>1, <2>2, <2>3, FreshAccount
<1>3. CASE Tick
  BY <1>0, <1>3 DEF Tick, Most, OpenInv, PlaceInv, Spent, TypeOK
<1>4. CASE SetBack
  BY <1>0, <1>4 DEF SetBack, OpenInv, PlaceInv, Spent, TypeOK
<1>5. CASE UNCHANGED vars
  BY <1>0, <1>5 DEF vars, OpenInv, PlaceInv, Spent
<1> QED
  BY <1>1, <1>2, <1>3, <1>4, <1>5 DEF Next

LEMMA QuotaSuffices == QuotaInv => WithinQuota
<1> SUFFICES ASSUME QuotaInv, ~shared
             PROVE  (granted + tokens) * Second <= Burst * Second + Rate * (latest - born)
  BY DEF WithinQuota
<1> USE BucketAssumption DEF QuotaInv, ClockInv
<1>t. /\ last \in Nat /\ born \in Nat /\ latest \in Nat /\ born <= last /\ last <= latest
      /\ tokens \in Nat /\ granted \in Nat
  BY DEF TypeOK, OpenInv
<1>1. (granted + tokens) * Second <= Burst * Second + Rate * (last - born)
  BY <1>t DEF OpenInv, Spent
<1>2. Rate * (last - born) <= Rate * (latest - born)
  BY <1>t, ProductGrows
<1>3. /\ (granted + tokens) * Second \in Int /\ Burst * Second \in Int
      /\ Rate * (last - born) \in Int /\ Rate * (latest - born) \in Int
  BY <1>t
<1> QED
  BY <1>1, <1>2, <1>3

(* For any number of requests: over every stretch in which one at a time   *)
(* is in the bucket, from its making, its reload or any quiet moment at    *)
(* which it is not above its burst, it lets no more packets pass than      *)
(* burst and rate allow: refills round down, and time counts once          *)
(* (aegis.rs 54-72).                                                       *)
THEOREM QuotaIsRespected == Spec => []WithinQuota
<1>1. Init => QuotaInv
  BY QuotaAtStart
<1>2. QuotaInv /\ [Next]_vars => QuotaInv'
  BY QuotaKept
<1>3. QuotaInv => WithinQuota
  BY QuotaSuffices
<1> QED
  BY <1>1, <1>2, <1>3, PTL DEF Spec
=============================================================================
