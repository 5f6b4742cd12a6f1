---------------------------- MODULE SharedProof ----------------------------
(***************************************************************************)
(* What the threads and processes of the factory share.  TokenBucket: the  *)
(* limit, for every rate, capacity, set of amounts and number of threads.  *)
(* LlmClient: its calls draw from that bucket by no other door, and a      *)
(* request is not sent again before its delay, for any retries and delay.  *)
(* AuditTail: what was read past was counted, and nothing twice, over      *)
(* kills and failed saves.                                                 *)
(***************************************************************************)
EXTENDS MCShared, ProofFacts

-----------------------------------------------------------------------------
(* The bucket.                                                             *)

\* A thread in the loop of acquire asks for one of the amounts.
WaitAmounts == \A t \in Threads : wait[t].at # "outside" => wait[t].amount \in Amounts

\* What has been given out since a grant, with what is left in the bucket, is
\* covered by one full bucket and the refill up to `last`.
Covered ==
    \A g \in grants :
        /\ g.at <= last
        /\ g.before < g.after
        /\ g.after <= granted
        /\ granted - g.before + tokens <= Capacity + Rate * (last - g.at)

IInv ==
    /\ TypeOK
    /\ last <= now
    /\ tokens <= Capacity
    /\ WaitAmounts
    /\ Covered
    /\ RateLimited

-----------------------------------------------------------------------------
LEMMA RateSplits ==
    ASSUME NEW a \in Nat, NEW b \in Nat, NEW c \in Nat
    PROVE  /\ Rate * (a - b) + Rate * (b - c) = Rate * (a - c)
           /\ (a - b) * Rate = Rate * (a - b)
           /\ Rate * (a - b) \in Int
           /\ b <= a => Rate * (a - b) \in Nat
<1>1. Rate \in Nat
  BY BucketAssumption
<1>2. QED
  BY <1>1

\* A refill never takes tokens away, never passes the capacity, and brings in
\* no more than the rate allows.
LEMMA RefillBounds ==
    ASSUME IInv
    PROVE  /\ Refilled \in Nat
           /\ Refilled <= Capacity
           /\ Refilled <= tokens + Rate * (now - last)
<1>1. /\ tokens \in Nat /\ last \in Nat /\ now \in Nat
      /\ last <= now /\ tokens <= Capacity /\ Capacity \in Nat
  BY BucketAssumption DEF IInv, TypeOK
<1>2. /\ (now - last) * Rate = Rate * (now - last)
      /\ Rate * (now - last) \in Nat
  BY <1>1, RateSplits
<1> DEFINE refill == Rate * (now - last)
<1>3. Refilled = IF tokens + refill < Capacity THEN tokens + refill
                 ELSE Capacity
  BY <1>2 DEF Refilled
<1> HIDE DEF refill
<1>4. refill \in Nat
  BY <1>2 DEF refill
<1>5. Refilled <= tokens + refill
  BY <1>1, <1>3, <1>4
<1>6. QED
  BY <1>1, <1>3, <1>4, <1>5 DEF refill

\* A refill alone keeps every grant covered.
LEMMA RefillCovers ==
    ASSUME IInv, tokens' = Refilled, last' = now, UNCHANGED <<grants, granted>>
    PROVE  Covered' /\ RateLimited' /\ last' \in Nat /\ tokens' \in Nat
           /\ tokens' <= Capacity
<1>1. /\ tokens \in Nat /\ last \in Nat /\ now \in Nat /\ granted \in Nat
      /\ last <= now /\ grants \subseteq Grant /\ Capacity \in Nat
  BY BucketAssumption DEF IInv, TypeOK
<1>2. /\ Refilled \in Nat
      /\ Refilled <= Capacity
      /\ Refilled <= tokens + Rate * (now - last)
  BY RefillBounds
<1>3. ASSUME NEW g \in grants
      PROVE  /\ g.at <= now
             /\ granted - g.before + Refilled
                   <= Capacity + Rate * (now - g.at)
  <2>1. g.at \in Nat /\ g.before \in Nat /\ g.at <= last
    BY <1>1 DEF Grant, IInv, Covered
  <2>2. granted - g.before + tokens <= Capacity + Rate * (last - g.at)
    BY DEF IInv, Covered
  <2>3. /\ Rate * (now - last) + Rate * (last - g.at) = Rate * (now - g.at)
        /\ Rate * (now - last) \in Int
        /\ Rate * (last - g.at) \in Int
        /\ Rate * (now - g.at) \in Int
    <3>1. \A at \in Nat :
             /\ Rate * (now - last) + Rate * (last - at) = Rate * (now - at)
             /\ Rate * (now - last) \in Int
             /\ Rate * (last - at) \in Int
             /\ Rate * (now - at) \in Int
      BY <1>1, BucketAssumption
    <3>2. QED
      BY <2>1, <3>1, Zenon
  <2>4. QED
    BY <1>1, <1>2, <2>1, <2>2, <2>3
<1>4. Covered'
  BY <1>3 DEF IInv, Covered
<1>5. RateLimited'
  BY DEF IInv, RateLimited
<1>6. QED
  BY <1>1, <1>2, <1>4, <1>5

\* So does a grant, and it is itself within the limit, seen from every
\* earlier one.
LEMMA TakeCovers ==
    ASSUME IInv, NEW n \in Amounts, Take(n)
    PROVE  /\ Covered' /\ RateLimited'
           /\ last' \in Nat /\ tokens' \in Nat /\ tokens' <= Capacity
           /\ granted' \in Nat /\ grants' \subseteq Grant /\ last' = now
<1> DEFINE new == [at |-> now, before |-> granted, after |-> granted + n]
<1>1. /\ tokens \in Nat /\ last \in Nat /\ now \in Nat /\ granted \in Nat
      /\ last <= now /\ grants \subseteq Grant /\ Capacity \in Nat
      /\ n \in Nat /\ n > 0
  BY BucketAssumption DEF IInv, TypeOK
<1>2. /\ Refilled \in Nat
      /\ Refilled <= Capacity
      /\ Refilled <= tokens + Rate * (now - last)
  BY RefillBounds
<1>3. /\ Refilled >= n
      /\ tokens' = Refilled - n
      /\ last' = now
      /\ granted' = granted + n
      /\ grants' = grants \cup {new}
  BY DEF Take
<1>4. /\ new \in Grant
      /\ new.at = now /\ new.before = granted /\ new.after = granted + n
  BY <1>1 DEF Grant
<1>5. ASSUME NEW g \in grants
      PROVE  /\ g.at \in Nat /\ g.before \in Nat /\ g.after \in Nat
             /\ g.at <= now /\ g.before < g.after /\ g.after <= granted
             /\ (granted + n) - g.before + (Refilled - n)
                   <= Capacity + Rate * (now - g.at)
             /\ (granted + n) - g.before <= Capacity + Rate * (now - g.at)
  <2>1. g.at \in Nat /\ g.before \in Nat /\ g.after \in Nat
        /\ g.at <= last /\ g.before < g.after /\ g.after <= granted
    BY <1>1 DEF Grant, IInv, Covered
  <2>2. granted - g.before + tokens <= Capacity + Rate * (last - g.at)
    BY DEF IInv, Covered
  <2>3. /\ Rate * (now - last) + Rate * (last - g.at) = Rate * (now - g.at)
        /\ Rate * (now - last) \in Int
        /\ Rate * (last - g.at) \in Int
        /\ Rate * (now - g.at) \in Int
    <3>1. \A at \in Nat :
             /\ Rate * (now - last) + Rate * (last - at) = Rate * (now - at)
             /\ Rate * (now - last) \in Int
             /\ Rate * (last - at) \in Int
             /\ Rate * (now - at) \in Int
      BY <1>1, BucketAssumption
    <3>2. QED
      BY <2>1, <3>1, Zenon
  <2>4. QED
    BY <1>1, <1>2, <1>3, <2>1, <2>2, <2>3
<1>6. Rate * (now - now) = 0
  BY BucketAssumption, <1>1
<1>7. Covered'
  <2>1. SUFFICES ASSUME NEW g \in grants'
                 PROVE  /\ g.at <= last'
                        /\ g.before < g.after
                        /\ g.after <= granted'
                        /\ granted' - g.before + tokens'
                              <= Capacity + Rate * (last' - g.at)
    BY DEF Covered
  <2>2. CASE g \in grants
    BY <1>1, <1>3, <1>5, <2>2
  <2>3. CASE g = new
    BY <1>1, <1>2, <1>3, <1>4, <1>6, <2>3
  <2>4. QED
    BY <1>3, <2>2, <2>3
<1>8. RateLimited'
  <2>1. SUFFICES ASSUME NEW g \in grants', NEW k \in grants',
                        g.before <= k.before
                 PROVE  k.after - g.before <= Capacity + Rate * (k.at - g.at)
    BY DEF RateLimited
  <2>2. CASE g \in grants /\ k \in grants
    BY <2>1, <2>2 DEF IInv, RateLimited
  <2>3. CASE g \in grants /\ k = new
    BY <1>4, <1>5, <2>3
  <2>4. CASE g = new /\ k \in grants
    BY <1>1, <1>4, <1>5, <2>1, <2>4
  <2>5. CASE g = new /\ k = new
    <3>1. k.after - g.before = n /\ n <= Capacity
      BY <1>1, <1>2, <1>3, <1>4, <2>5
    <3>2. Rate * (k.at - g.at) = 0
      BY <1>4, <1>6, <2>5
    <3>3. QED
      BY <1>1, <3>1, <3>2
  <2>6. QED
    BY <1>3, <2>2, <2>3, <2>4, <2>5
<1>9. tokens' \in Nat /\ tokens' <= Capacity
  BY <1>1, <1>2, <1>3
<1>10. QED
  BY <1>1, <1>3, <1>4, <1>7, <1>8, <1>9

LEMMA SleepTimeType ==
    ASSUME NEW needed \in Nat PROVE SleepTime(needed) \in Nat
<1>1. Rate \in Nat /\ Rate > 0 /\ needed + Rate - 1 \in Nat
  BY BucketAssumption
<1>2. QED
  BY <1>1 DEF SleepTime

-----------------------------------------------------------------------------
LEMMA BucketInit == Init => IInv
<1> SUFFICES ASSUME Init PROVE IInv
  OBVIOUS
<1>1. TypeOK
  BY BucketAssumption DEF Init, TypeOK, Wait, Outside, Grant
<1>2. QED
  BY <1>1, BucketAssumption
     DEF Init, IInv, WaitAmounts, Covered, RateLimited, Outside

LEMMA BucketNext == IInv /\ [Next]_vars => IInv'
<1> SUFFICES ASSUME IInv, [Next]_vars PROVE IInv'
  OBVIOUS
<1>0. /\ TypeOK /\ now \in Nat /\ wait \in [Threads -> Wait]
      /\ last \in Nat /\ calls \in Nat /\ granted \in Nat
      /\ grants \subseteq Grant /\ tokens \in Nat /\ last <= now
      /\ \A n \in Amounts : n \in Nat
  BY BucketAssumption DEF IInv, TypeOK
<1>1. ASSUME NEW t \in Threads, NEW w \in Wait,
             wait' = [wait EXCEPT ![t] = w],
             w.at # "outside" => w.amount \in Amounts
      PROVE  wait' \in [Threads -> Wait] /\ WaitAmounts'
  BY <1>0, <1>1 DEF IInv, WaitAmounts
<1>2. ASSUME NEW t \in Threads, NEW n \in Amounts, Acquire(t, n)
      PROVE  IInv'
  <2>1. Trying(n) \in Wait /\ Trying(n).amount = n
    BY <1>0 DEF Trying, Wait
  <2>2. wait' \in [Threads -> Wait] /\ WaitAmounts'
    BY <1>1, <1>2, <2>1 DEF Acquire
  <2>3. /\ calls' \in Nat
        /\ UNCHANGED <<tokens, last, now, granted, grants>>
    BY <1>0, <1>2 DEF Acquire, Call, bucket
  <2>4. QED
    BY <1>0, <2>2, <2>3 DEF IInv, TypeOK, Covered, RateLimited
<1>3. ASSUME NEW t \in Threads, Granted(t) PROVE IInv'
  <2>1. wait[t].amount \in Amounts /\ Take(wait[t].amount)
    BY <1>3 DEF Granted, IInv, WaitAmounts
  <2>2. Outside \in Wait /\ Outside.at = "outside"
    BY DEF Outside, Wait
  <2>3. wait' \in [Threads -> Wait] /\ WaitAmounts'
    BY <1>1, <1>3, <2>2 DEF Granted
  <2>4. UNCHANGED <<now, calls>>
    BY <1>3 DEF Granted
  <2>5. QED
    BY <1>0, <2>1, <2>3, <2>4, TakeCovers DEF IInv, TypeOK
<1>4. ASSUME NEW t \in Threads, SleepForRest(t) PROVE IInv'
  <2> DEFINE w == Sleeping(wait[t].amount,
                           now + SleepTime(wait[t].amount - Refilled))
  <2>1. wait[t].amount \in Amounts
    BY <1>4 DEF SleepForRest, IInv, WaitAmounts
  <2>2. SleepTime(wait[t].amount - Refilled) \in Nat
    <3>1. wait[t].amount - Refilled \in Nat
      BY <1>0, <1>4, <2>1, RefillBounds DEF SleepForRest
    <3>2. QED
      BY <3>1, SleepTimeType
  <2>3. w \in Wait /\ w.amount = wait[t].amount
    BY <1>0, <2>1, <2>2 DEF Sleeping, Wait
  <2>4. wait' = [wait EXCEPT ![t] = w]
    BY <1>4 DEF SleepForRest
  <2> HIDE DEF w
  <2>5. wait' \in [Threads -> Wait] /\ WaitAmounts'
    BY <1>1, <2>1, <2>3, <2>4
  <2>6. /\ tokens' = Refilled /\ last' = now
        /\ UNCHANGED <<now, granted, grants, calls>>
    BY <1>4 DEF SleepForRest, Refill
  <2>7. QED
    BY <1>0, <2>5, <2>6, RefillCovers DEF IInv, TypeOK
<1>5. ASSUME NEW t \in Threads, Wake(t) PROVE IInv'
  <2>1. wait[t].amount \in Amounts
    BY <1>5 DEF Wake, IInv, WaitAmounts
  <2>2. Trying(wait[t].amount) \in Wait
        /\ Trying(wait[t].amount).amount = wait[t].amount
    BY <1>0, <2>1 DEF Trying, Wait
  <2>3. wait' \in [Threads -> Wait] /\ WaitAmounts'
    BY <1>1, <1>5, <2>1, <2>2 DEF Wake
  <2>4. QED
    BY <1>0, <1>5, <2>3
       DEF Wake, bucket, IInv, TypeOK, Covered, RateLimited
<1>6. ASSUME NEW t \in Threads, NEW n \in Amounts, TryAcquire(t, n)
      PROVE  IInv'
  <2>1. calls' \in Nat /\ UNCHANGED <<now, wait>>
    BY <1>0, <1>6 DEF TryAcquire, Call
  <2>2. WaitAmounts'
    BY <2>1 DEF IInv, WaitAmounts
  <2>3. CASE Take(n)
    BY <1>0, <2>1, <2>2, <2>3, TakeCovers DEF IInv, TypeOK
  <2>4. CASE Refill /\ UNCHANGED <<granted, grants>>
    BY <1>0, <2>1, <2>2, <2>4, RefillCovers DEF IInv, TypeOK, Refill
  <2>5. QED
    BY <1>6, <2>3, <2>4 DEF TryAcquire
<1>7. CASE ReadTokens
  <2>1. WaitAmounts'
    BY <1>7 DEF ReadTokens, IInv, WaitAmounts
  <2>2. QED
    BY <1>0, <1>7, <2>1, RefillCovers DEF ReadTokens, Refill, IInv, TypeOK
<1>8. CASE Tick
  BY <1>0, <1>8 DEF Tick, bucket, IInv, TypeOK, WaitAmounts, Covered, RateLimited
<1>9. CASE UNCHANGED vars
  BY <1>9 DEF vars, bucket, IInv, TypeOK, WaitAmounts, Covered, RateLimited
<1>10. QED
  BY <1>2, <1>3, <1>4, <1>5, <1>6, <1>7, <1>8, <1>9 DEF Next, Thread

LEMMA BucketInvariant == Spec => []IInv
<1>1. QED
  BY BucketInit, BucketNext, PTL DEF Spec

\* However the threads of the process interleave, what they are granted over
\* any stretch of time stays within a full bucket and the rate.
THEOREM RateIsLimited == Spec => []RateLimited
<1>1. IInv => RateLimited
  BY DEF IInv
<1>2. QED
  BY <1>1, BucketInvariant, PTL

\* The bucket's variables keep their types.
THEOREM BucketTypeCorrect == Spec => []TypeOK
<1>1. IInv => TypeOK
  BY DEF IInv
<1>2. QED
  BY <1>1, BucketInvariant, PTL

-----------------------------------------------------------------------------
(* The client.  A call is known by its number, and what it has sent so far *)
(* was sent in attempts before the present one.                            *)

SentFor(t) == {s \in sends : s.call = invoke[t].call}
Over(s, time) == s.at + Delay(s.attempt) <= time

CallFits(t) ==
    LET a == invoke[t].attempt IN
    /\ At(t, "limited") => SentFor(t) = {}
    /\ At(t, "ready") =>
         /\ a \in 1 .. Retries
         /\ \A s \in SentFor(t) : s.attempt < a /\ Over(s, now)
    /\ At(t, "sent") =>
         /\ a \in 1 .. Retries
         /\ \A s \in SentFor(t) : s.attempt = a \/ (s.attempt < a /\ Over(s, now))
    /\ At(t, "backoff") =>
         /\ a \in 1 .. Retries - 1
         /\ \A s \in SentFor(t) : s.attempt <= a /\ Over(s, invoke[t].until)

\* The numbers that are out were given once and are not left to give.
NumbersFit ==
    /\ \A s \in sends : s.call > calls /\ s.at <= now
    /\ \A t \in Threads : ~At(t, "idle") => invoke[t].call > calls
    /\ \A t, u \in Threads :
         ~At(t, "idle") /\ ~At(u, "idle") /\ t # u => invoke[t].call # invoke[u].call

ClientInv ==
    /\ ClientTypeOK
    /\ NumbersFit
    /\ \A t \in Threads : CallFits(t)
    /\ BackoffRespected

\* The delays are whole ticks.
LEMMA DelayIsNumber ==
    ASSUME NEW a \in Nat, a > 0
    PROVE  Delay(a) \in Nat
<1>1. a - 1 \in Nat
  OBVIOUS
<1>2. IsFiniteSet(1 .. a - 1) /\ Cardinality(1 .. a - 1) = a - 1
  BY <1>1, FS_Interval
<1>3. /\ IsFiniteSet(SUBSET (1 .. a - 1))
      /\ Cardinality(SUBSET (1 .. a - 1)) = 2 ^ Cardinality(1 .. a - 1)
  BY <1>2, FS_SUBSET
<1>4. 2 ^ (a - 1) \in Nat
  BY <1>2, <1>3, FS_CardinalityType
<1> DEFINE p == 2 ^ (a - 1)
<1> HIDE DEF p
<1>5. BaseDelay * p \in Nat
  BY <1>4, ClientAssumption DEF p
<1>6. QED
  BY <1>5 DEF Delay, p

\* What a step of the client does to the bucket, a step of the bucket does,
\* unless time passes.
LEMMA BucketSteps ==
    ASSUME [ClientNext]_clientVars
    PROVE  [Next]_vars \/ (ClientTick /\ now' = now + 1)
<1>1. ASSUME NEW t \in Threads, Begin(t)
      PROVE  Next
  BY <1>1, ClientAssumption DEF Begin, Next, Thread
<1>2. ASSUME NEW t \in Threads, Direct(t)
      PROVE  Next
  BY <1>2 DEF Direct, Next, Thread
<1>3. ASSUME NEW t \in Threads, Serve(t)
      PROVE  Next \/ UNCHANGED vars
  BY <1>3 DEF Serve, Draw, Limited, SendRequest, Answer, PassingError, EndBackoff,
     Next, Thread
<1>4. UNCHANGED clientVars => UNCHANGED vars
  BY DEF clientVars
<1>5. ClientTick => now' = now + 1
  BY DEF ClientTick
<1>6. QED
  BY <1>1, <1>2, <1>3, <1>4, <1>5 DEF ClientNext

LEMMA ClientDraws == IInv /\ [ClientNext]_clientVars => IInv'
<1> SUFFICES ASSUME IInv, [ClientNext]_clientVars PROVE IInv'
  OBVIOUS
<1>1. CASE [Next]_vars
  BY <1>1, BucketNext
<1>2. CASE ClientTick
  BY <1>2 DEF ClientTick, bucket, IInv, TypeOK, WaitAmounts, Covered, RateLimited
<1>3. QED
  BY <1>1, <1>2, BucketSteps

LEMMA ClockAndCalls ==
    ASSUME TypeOK, [ClientNext]_clientVars
    PROVE  calls' <= calls /\ now' >= now
<1>1. calls \in Nat /\ now \in Nat
  BY DEF TypeOK
<1>2. CASE ClientTick
  BY <1>1, <1>2 DEF ClientTick
<1>3. CASE [Next]_vars
  <2>1. (calls' = calls \/ calls' = calls - 1) /\ (now' = now \/ now' = now + 1)
    BY <1>3 DEF Next, Thread, Acquire, Call, Granted, SleepForRest, Wake, TryAcquire,
       ReadTokens, Tick, vars
  <2>2. QED
    BY <1>1, <2>1
<1>4. QED
  BY <1>2, <1>3, BucketSteps

LEMMA SendsAreNumbers ==
    ASSUME ClientTypeOK, NEW s \in sends
    PROVE  /\ s.at \in Nat /\ s.call \in Nat /\ s.attempt \in 1 .. Retries /\ s.attempt \in Nat
           /\ Delay(s.attempt) \in Nat
<1>1. s.at \in Nat /\ s.call \in Nat /\ s.attempt \in 1 .. Retries
  BY DEF ClientTypeOK, Send
<1>2. s.attempt \in Nat /\ s.attempt > 0
  BY <1>1, ClientAssumption
<1>3. QED
  BY <1>1, <1>2, DelayIsNumber

\* Time that passes, and numbers that are given out, change nothing for the
\* calls of a thread that rests.
LEMMA RestingFits ==
    ASSUME ClientInv, TypeOK', now' >= now, sends' = sends, NEW u \in Threads,
           invoke'[u] = invoke[u]
    PROVE  CallFits(u)'
<1>1. now \in Nat /\ now' \in Nat /\ ClientTypeOK /\ CallFits(u)
  BY DEF ClientInv, ClientTypeOK, TypeOK
<1>2. SentFor(u)' = SentFor(u) /\ SentFor(u) \subseteq sends
  BY DEF SentFor
<1>3. \A s \in sends : Over(s, now) => Over(s, now')
  BY <1>1, SendsAreNumbers DEF Over
<1> HIDE DEF Over, SentFor
<1>4. \A s \in SentFor(u) : Over(s, now) => Over(s, now)'
  <2>1. \A s \in sends : Over(s, now)' <=> Over(s, now')
    BY DEF Over, Delay
  <2>2. QED
    BY <1>2, <1>3, <2>1
<1>5. \A s \in SentFor(u) : Over(s, invoke[u].until)' <=> Over(s, invoke[u].until)
  BY DEF Over, Delay
<1>6. \A place : At(u, place)' <=> At(u, place)
  BY DEF At
<1>7. QED
  BY <1>1, <1>2, <1>4, <1>5, <1>6 DEF CallFits

\* A thread that moves on, while nothing is sent.
LEMMA MoveKeeps ==
    ASSUME ClientInv, TypeOK', [ClientNext]_clientVars, sends' = sends,
           NEW t \in Threads, NEW r \in Invoke, invoke' = [invoke EXCEPT ![t] = r],
           \/ r.at = "idle"
           \/ ~At(t, "idle") /\ r.call = invoke[t].call
           \/ r.call = calls /\ calls' < calls,
           CallFits(t)'
    PROVE  ClientInv'
<1>1. ClientTypeOK /\ TypeOK /\ now' >= now /\ calls' <= calls /\ NumbersFit
      /\ calls \in Nat /\ calls' \in Nat /\ now \in Nat /\ now' \in Nat
      /\ invoke \in [Threads -> Invoke]
  BY ClockAndCalls DEF ClientInv, ClientTypeOK, TypeOK
<1>2. ClientTypeOK'
  BY <1>1 DEF ClientTypeOK
<1>3. \A u \in Threads : CallFits(u)'
  <2>1. \A u \in Threads : u # t => invoke'[u] = invoke[u]
    BY <1>1
  <2>2. QED
    BY <1>1, <2>1, RestingFits
<1>4. \A s \in sends : s.call > calls' /\ s.at <= now'
  BY <1>1, SendsAreNumbers DEF NumbersFit
<1>5. \A u \in Threads : invoke'[u] = (IF u = t THEN r ELSE invoke[u]) /\ invoke[u].call \in Nat
  BY <1>1 DEF Invoke
<1>6. r.call \in Nat
  BY DEF Invoke
<1>7. \A u \in Threads : ~At(u, "idle")' => invoke'[u].call > calls'
  BY <1>1, <1>5, <1>6 DEF NumbersFit, At
<1>8. \A u, v \in Threads :
         ~At(u, "idle")' /\ ~At(v, "idle")' /\ u # v => invoke'[u].call # invoke'[v].call
  BY <1>1, <1>5, <1>6 DEF NumbersFit, At
<1>9. NumbersFit'
  BY <1>4, <1>7, <1>8 DEF NumbersFit
<1>10. BackoffRespected'
  BY DEF ClientInv, BackoffRespected, Delay
<1>11. QED
  BY <1>2, <1>3, <1>9, <1>10 DEF ClientInv

\* A step of the bucket, or of the clock, that leaves the calls where they are.
LEMMA RestKeeps ==
    ASSUME ClientInv, TypeOK', [ClientNext]_clientVars, UNCHANGED <<invoke, sends>>
    PROVE  ClientInv'
<1>1. ClientTypeOK /\ TypeOK /\ now' >= now /\ calls' <= calls /\ NumbersFit
      /\ calls \in Nat /\ calls' \in Nat /\ now \in Nat /\ now' \in Nat
      /\ invoke \in [Threads -> Invoke]
  BY ClockAndCalls DEF ClientInv, ClientTypeOK, TypeOK
<1>2. \A u \in Threads : CallFits(u)'
  BY <1>1, RestingFits
<1>3. \A u \in Threads : invoke[u].call \in Nat
  BY <1>1 DEF Invoke
<1>4. \A s \in sends : s.call > calls' /\ s.at <= now'
  BY <1>1, SendsAreNumbers DEF NumbersFit
<1>5. NumbersFit'
  BY <1>1, <1>3, <1>4 DEF NumbersFit, At
<1>6. BackoffRespected'
  BY DEF ClientInv, BackoffRespected, Delay
<1>7. QED
  BY <1>1, <1>2, <1>5, <1>6 DEF ClientInv, ClientTypeOK

LEMMA BeginKeepsCalls ==
    ASSUME ClientInv, TypeOK', [ClientNext]_clientVars, NEW t \in Threads, Begin(t)
    PROVE  ClientInv'
<1> DEFINE r == [at |-> "limited", call |-> calls, attempt |-> 0, until |-> 0]
<1>1. calls \in Nat /\ calls' = calls - 1 /\ calls > 0
  BY DEF Begin, Acquire, Call, ClientInv, ClientTypeOK, TypeOK
<1>2. r \in Invoke
  BY <1>1, ClientAssumption DEF Invoke
<1>3. invoke' = [invoke EXCEPT ![t] = r] /\ sends' = sends
  BY DEF Begin
<1>4. invoke'[t] = r
  BY <1>3 DEF ClientInv, ClientTypeOK
<1>5. SentFor(t)' = {}
  BY <1>1, <1>3, <1>4, SendsAreNumbers DEF SentFor, ClientInv, NumbersFit
<1>6. CallFits(t)'
  BY <1>4, <1>5 DEF CallFits, At
<1> HIDE DEF r
<1>7. r.call = calls /\ calls' < calls
  BY <1>1 DEF r
<1>8. QED
  BY <1>2, <1>3, <1>6, <1>7, MoveKeeps

\* Where a move leads, and what it keeps.
LEMMA MovedTo ==
    ASSUME ClientInv, NEW t \in Threads,
           NEW place \in {"ready", "sent", "backoff"}, NEW a \in 0 .. Retries, NEW until \in Nat,
           Moved(t, place, a, until)
    PROVE  LET r == [at |-> place, call |-> invoke[t].call, attempt |-> a, until |-> until] IN
           /\ r \in Invoke /\ invoke' = [invoke EXCEPT ![t] = r]
           /\ invoke'[t] = r
BY DEF ClientInv, ClientTypeOK, Moved, Invoke

LEMMA GrantedKeepsCalls ==
    ASSUME ClientInv, TypeOK', [ClientNext]_clientVars, NEW t \in Threads,
           At(t, "limited"), Moved(t, "ready", 1, 0), sends' = sends
    PROVE  ClientInv'
<1> DEFINE r == [at |-> "ready", call |-> invoke[t].call, attempt |-> 1, until |-> 0]
<1>1. 1 \in 0 .. Retries /\ 1 \in 1 .. Retries /\ 0 \in Nat
  BY ClientAssumption
<1>2. r \in Invoke /\ invoke' = [invoke EXCEPT ![t] = r] /\ invoke'[t] = r
  BY <1>1, MovedTo
<1>3. SentFor(t) = {}
  BY DEF ClientInv, CallFits
<1>4. SentFor(t)' = {}
  BY <1>2, <1>3 DEF SentFor
<1>5. CallFits(t)'
  BY <1>1, <1>2, <1>4 DEF CallFits, At
<1>6. r.call = invoke[t].call /\ ~At(t, "idle")
  BY DEF At
<1> HIDE DEF r
<1>7. QED
  BY <1>2, <1>5, <1>6, MoveKeeps

LEMMA ReturnKeepsCalls ==
    ASSUME ClientInv, TypeOK', [ClientNext]_clientVars, NEW t \in Threads,
           Return(t), sends' = sends
    PROVE  ClientInv'
<1>1. NoCall \in Invoke /\ NoCall.at = "idle"
  BY ClientAssumption DEF NoCall, Invoke
<1>2. invoke' = [invoke EXCEPT ![t] = NoCall] /\ invoke'[t] = NoCall
  BY DEF Return, ClientInv, ClientTypeOK
<1>3. CallFits(t)'
  BY <1>1, <1>2 DEF CallFits, At
<1>4. QED
  BY <1>1, <1>2, <1>3, MoveKeeps

LEMMA BackoffKeepsCalls ==
    ASSUME ClientInv, TypeOK', [ClientNext]_clientVars, NEW t \in Threads, At(t, "sent"),
           invoke[t].attempt # Retries, now' = now, sends' = sends,
           Moved(t, "backoff", invoke[t].attempt, now + Delay(invoke[t].attempt))
    PROVE  ClientInv'
<1> DEFINE a == invoke[t].attempt
           until == now + Delay(a)
           r == [at |-> "backoff", call |-> invoke[t].call, attempt |-> a, until |-> until]
<1>1. /\ a \in 1 .. Retries
      /\ \A s \in SentFor(t) : s.attempt = a \/ (s.attempt < a /\ Over(s, now))
  BY DEF ClientInv, CallFits
<1>2. a \in 1 .. Retries - 1 /\ a \in 0 .. Retries /\ a \in Nat /\ a > 0
  BY <1>1, ClientAssumption
<1>3. now \in Nat /\ Delay(a) \in Nat /\ until \in Nat
  BY <1>2, DelayIsNumber DEF ClientInv, ClientTypeOK, TypeOK
<1>4. r \in Invoke /\ invoke' = [invoke EXCEPT ![t] = r] /\ invoke'[t] = r
  BY <1>2, <1>3, MovedTo
<1>5. SentFor(t)' = SentFor(t) /\ SentFor(t) \subseteq sends
  BY <1>4 DEF SentFor
<1>6. r.call = invoke[t].call /\ ~At(t, "idle") /\ r.until = until /\ r.attempt = a
      /\ r.at = "backoff"
  BY DEF At
<1> HIDE DEF r, until, a
<1>7. ASSUME NEW s \in SentFor(t)
      PROVE  s.attempt <= a /\ Over(s, until)
  <2>1. /\ s \in sends /\ s.at \in Nat /\ Delay(s.attempt) \in Nat /\ s.attempt \in Nat
        /\ s.at <= now
    BY <1>5, SendsAreNumbers DEF ClientInv, NumbersFit
  <2>2. CASE s.attempt = a
    <3>1. Delay(s.attempt) = Delay(a)
      BY <2>2
    <3>2. QED
      BY <1>2, <1>3, <2>1, <2>2, <3>1 DEF Over, until
  <2>3. CASE s.attempt < a /\ Over(s, now)
    BY <1>2, <1>3, <2>1, <2>3 DEF Over, until
  <2>4. QED
    BY <1>1, <2>2, <2>3
<1>9. CallFits(t)'
  <2>1. \A s \in SentFor(t) : Over(s, invoke[t].until)' <=> Over(s, until)
    BY <1>4, <1>6 DEF Over, Delay
  <2>2. QED
    BY <1>2, <1>4, <1>5, <1>6, <1>7, <2>1 DEF CallFits, At
<1>10. QED
  BY <1>4, <1>6, <1>9, MoveKeeps

LEMMA AgainKeepsCalls ==
    ASSUME ClientInv, TypeOK', [ClientNext]_clientVars, NEW t \in Threads, EndBackoff(t)
    PROVE  ClientInv'
<1> DEFINE a == invoke[t].attempt
           r == [at |-> "ready", call |-> invoke[t].call, attempt |-> a + 1, until |-> 0]
<1>1. /\ At(t, "backoff") /\ now >= invoke[t].until /\ sends' = sends /\ now' = now
      /\ Moved(t, "ready", a + 1, 0)
  BY DEF EndBackoff, vars
<1>2. a \in 1 .. Retries - 1 /\ \A s \in SentFor(t) : s.attempt <= a /\ Over(s, invoke[t].until)
  BY <1>1 DEF ClientInv, CallFits
<1>3. a \in Nat /\ a + 1 \in 1 .. Retries /\ a + 1 \in 0 .. Retries
  BY <1>2, ClientAssumption
<1>4. r \in Invoke /\ invoke' = [invoke EXCEPT ![t] = r] /\ invoke'[t] = r
  BY <1>1, <1>3, MovedTo
<1>5. SentFor(t)' = SentFor(t) /\ SentFor(t) \subseteq sends
  BY <1>1, <1>4 DEF SentFor
<1>6. r.call = invoke[t].call /\ ~At(t, "idle") /\ r.attempt = a + 1 /\ r.at = "ready"
  BY <1>1 DEF At
<1> HIDE DEF r, a
<1>7. ASSUME NEW s \in SentFor(t)
      PROVE  s.attempt < a + 1 /\ Over(s, now)
  <2>1. /\ s.at \in Nat /\ Delay(s.attempt) \in Nat /\ s.attempt \in Nat
    BY <1>5, SendsAreNumbers DEF ClientInv
  <2>2. now \in Nat /\ invoke[t].until \in Nat
    BY DEF ClientInv, ClientTypeOK, TypeOK, Invoke
  <2>3. QED
    BY <1>1, <1>2, <1>3, <2>1, <2>2 DEF Over
<1>8. CallFits(t)'
  <2>1. \A s \in SentFor(t) : Over(s, now)' <=> Over(s, now)
    BY <1>1 DEF Over, Delay
  <2>2. QED
    BY <1>3, <1>4, <1>5, <1>6, <1>7, <2>1 DEF CallFits, At
<1>9. QED
  BY <1>1, <1>4, <1>6, <1>8, MoveKeeps

\* A request goes out when the delays of those before it are over.
LEMMA SendKeepsCalls ==
    ASSUME ClientInv, TypeOK', [ClientNext]_clientVars, NEW t \in Threads, SendRequest(t)
    PROVE  ClientInv'
<1> DEFINE a == invoke[t].attempt
           new == [call |-> invoke[t].call, attempt |-> a, at |-> now]
           r == [at |-> "sent", call |-> invoke[t].call, attempt |-> a, until |-> 0]
<1>1. /\ At(t, "ready") /\ sends' = sends \cup {new} /\ UNCHANGED <<now, calls>>
      /\ Moved(t, "sent", a, 0)
  BY DEF SendRequest, vars
<1>2. a \in 1 .. Retries /\ \A s \in SentFor(t) : s.attempt < a /\ Over(s, now)
  BY <1>1 DEF ClientInv, CallFits
<1>3. a \in Nat /\ a \in 0 .. Retries /\ a > 0 /\ now \in Nat /\ calls \in Nat
      /\ invoke[t].call \in Nat /\ invoke \in [Threads -> Invoke]
  BY <1>2, ClientAssumption DEF ClientInv, ClientTypeOK, TypeOK, Invoke
<1>4. r \in Invoke /\ invoke' = [invoke EXCEPT ![t] = r] /\ invoke'[t] = r
  BY <1>1, <1>3, MovedTo
<1>5. /\ new \in Send /\ new.call = invoke[t].call /\ new.attempt = a /\ new.at = now
  BY <1>2, <1>3 DEF Send
<1>6. r.call = invoke[t].call /\ ~At(t, "idle") /\ r.attempt = a /\ r.at = "sent"
  BY <1>1 DEF At
<1> HIDE DEF r, new, a
<1>7. \A u \in Threads : u # t => invoke'[u] = invoke[u]
  BY <1>3, <1>4
<1>8. NumbersFit'
  <2>1. invoke[t].call > calls
    BY <1>6 DEF ClientInv, NumbersFit
  <2>2. \A u \in Threads : invoke'[u].call = invoke[u].call /\ (~At(u, "idle")' => ~At(u, "idle"))
    BY <1>4, <1>6, <1>7 DEF At
  <2>3. QED
    BY <1>1, <1>3, <1>5, <2>1, <2>2 DEF ClientInv, NumbersFit
<1>9. CallFits(t)'
  <2>1. SentFor(t)' = SentFor(t) \cup {new}
    BY <1>1, <1>4, <1>5, <1>6 DEF SentFor
  <2>2. \A s : Over(s, now)' <=> Over(s, now)
    BY <1>1 DEF Over, Delay
  <2>3. QED
    BY <1>2, <1>4, <1>5, <1>6, <2>1, <2>2 DEF CallFits, At
<1>10. ASSUME NEW u \in Threads, u # t
       PROVE  CallFits(u)'
  <2>1. CASE At(u, "idle")
    BY <1>7, <1>10, <2>1 DEF CallFits, At
  <2>2. CASE ~At(u, "idle")
    <3>1. invoke[u].call # invoke[t].call
      BY <1>6, <1>10, <2>2 DEF ClientInv, NumbersFit
    <3>2. SentFor(u)' = SentFor(u)
      BY <1>1, <1>5, <1>7, <1>10, <3>1 DEF SentFor
    <3>3. invoke'[u] = invoke[u] /\ \A place : At(u, place)' <=> At(u, place)
      BY <1>7, <1>10 DEF At
    <3>4. \A s : /\ Over(s, now)' <=> Over(s, now)
                 /\ Over(s, invoke[u].until)' <=> Over(s, invoke[u].until)
      BY <1>1, <3>3 DEF Over, Delay
    <3>5. CallFits(u)
      BY DEF ClientInv
    <3>6. QED
      BY <3>2, <3>3, <3>4, <3>5 DEF CallFits
  <2>3. QED
    BY <2>1, <2>2
<1>11. BackoffRespected'
  <2>1. \A s \in sends : s.call = new.call =>
           s.attempt < new.attempt /\ new.at >= s.at + Delay(s.attempt)
    <3>1. ASSUME NEW s \in sends, s.call = new.call
          PROVE  s.attempt < new.attempt /\ new.at >= s.at + Delay(s.attempt)
      <4>1. s \in SentFor(t)
        BY <1>5, <3>1 DEF SentFor
      <4>2. s.at \in Nat /\ Delay(s.attempt) \in Nat
        BY SendsAreNumbers DEF ClientInv
      <4>3. QED
        BY <1>2, <1>3, <1>5, <4>1, <4>2 DEF Over
    <3>2. QED
      BY <3>1
  <2>2. QED
    BY <1>1, <2>1 DEF ClientInv, BackoffRespected, Delay
<1>12. ClientTypeOK'
  BY <1>1, <1>3, <1>4, <1>5 DEF ClientInv, ClientTypeOK
<1>13. QED
  BY <1>8, <1>9, <1>10, <1>11, <1>12 DEF ClientInv

LEMMA ClientStep ==
    ASSUME ClientInv, TypeOK', [ClientNext]_clientVars
    PROVE  ClientInv'
<1>1. ASSUME NEW t \in Threads, Limited(t)
      PROVE  ClientInv'
  BY <1>1, GrantedKeepsCalls, RestKeeps DEF Limited
<1>2. ASSUME NEW t \in Threads, Answer(t) \/ PassingError(t)
      PROVE  ClientInv'
  <2>1. CASE Return(t)
    BY <1>2, <2>1, ReturnKeepsCalls DEF Answer, PassingError
  <2>2. CASE ~Return(t)
    BY <1>2, <2>2, BackoffKeepsCalls DEF Answer, PassingError, vars
  <2>3. QED
    BY <2>1, <2>2
<1>3. ASSUME NEW t \in Threads, Draw(t) \/ Direct(t)
      PROVE  ClientInv'
  BY <1>3, RestKeeps DEF Draw, Direct
<1>4. CASE ClientTick \/ UNCHANGED clientVars
  BY <1>4, RestKeeps DEF ClientTick, clientVars
<1>5. QED
  BY <1>1, <1>2, <1>3, <1>4, BeginKeepsCalls, AgainKeepsCalls, SendKeepsCalls
     DEF ClientNext, Serve

LEMMA ClientStarts == ClientInit => IInv /\ ClientInv
<1> SUFFICES ASSUME ClientInit PROVE IInv /\ ClientInv
  OBVIOUS
<1>1. IInv
  BY BucketInit DEF ClientInit
<1>2. \A t \in Threads : invoke[t] = NoCall
  BY DEF ClientInit
<1>3. NoCall \in Invoke /\ NoCall.at = "idle"
  BY ClientAssumption DEF NoCall, Invoke
<1>4. ClientTypeOK
  BY <1>1, <1>3 DEF ClientInit, ClientTypeOK, IInv
<1>5. QED
  BY <1>1, <1>2, <1>3, <1>4
     DEF ClientInit, ClientInv, NumbersFit, CallFits, At, BackoffRespected

LEMMA ClientInvariant == ClientSpec => [](IInv /\ ClientInv)
<1>1. IInv /\ ClientInv /\ [ClientNext]_clientVars => (IInv /\ ClientInv)'
  BY ClientDraws, ClientStep DEF IInv
<1>2. QED
  BY <1>1, ClientStarts, PTL DEF ClientSpec

\* The client's variables keep their types.
THEOREM ClientTypeCorrect == ClientSpec => []ClientTypeOK
<1>1. ClientInv => ClientTypeOK
  BY DEF ClientInv
<1>2. QED
  BY <1>1, ClientInvariant, PTL

\* The calls of the client, their retries and whoever uses the bucket beside
\* them stay together within its rate.
THEOREM ClientsAreLimited == ClientSpec => []RateLimited
<1>1. IInv => RateLimited
  BY DEF IInv
<1>2. QED
  BY <1>1, ClientInvariant, PTL

\* A request that failed is not sent again before its delay is over, and no
\* attempt is sent twice, for any number of threads, retries and delays.
THEOREM BackoffIsRespected == ClientSpec => []BackoffRespected
<1>1. ClientInv => BackoffRespected
  BY DEF ClientInv
<1>2. QED
  BY <1>1, ClientInvariant, PTL

\* Step by step the client is a bucket on a clock that runs longer, as long as
\* its clock does not reach the tick it should not reach: its calls draw by no
\* other door, and its retries and delays leave the bucket alone.
THEOREM ClientsDrawFromBucket == ClientSpec /\ [](now < ClockEnd) => DrawsFromBucket
<1>1. ClientInit => Limiter!Init
  BY DEF ClientInit, Init, Limiter!Init, Outside, Limiter!Outside
<1>2. [ClientNext]_clientVars /\ now < ClockEnd => [Limiter!Next]_(Limiter!vars)
  <2> SUFFICES ASSUME [ClientNext]_clientVars, now < ClockEnd
               PROVE  [Limiter!Next]_(Limiter!vars)
    OBVIOUS
  <2>1. CASE ClientTick
    BY <2>1 DEF ClientTick, bucket, Limiter!Next, Limiter!Tick, Limiter!bucket
  <2>2. ASSUME NEW t \in Threads
        PROVE  Thread(t) => Limiter!Thread(t)
    <3>1. \A n : Take(n) <=> Limiter!Take(n)
      BY DEF Take, Limiter!Take, Refilled, Limiter!Refilled
    <3>2. Refill <=> Limiter!Refill
      BY DEF Refill, Limiter!Refill, Refilled, Limiter!Refilled
    <3>3. \A n : Acquire(t, n) <=> Limiter!Acquire(t, n)
      BY DEF Acquire, Limiter!Acquire, Call, Limiter!Call, Trying, Limiter!Trying,
         Outside, Limiter!Outside, bucket, Limiter!bucket
    <3>4. \A n : TryAcquire(t, n) <=> Limiter!TryAcquire(t, n)
      BY <3>1, <3>2 DEF TryAcquire, Limiter!TryAcquire, Call, Limiter!Call,
         Outside, Limiter!Outside, Refilled, Limiter!Refilled
    <3>5. Granted(t) <=> Limiter!Granted(t)
      BY <3>1 DEF Granted, Limiter!Granted, Outside, Limiter!Outside
    <3>6. SleepForRest(t) <=> Limiter!SleepForRest(t)
      BY <3>2 DEF SleepForRest, Limiter!SleepForRest, Refilled, Limiter!Refilled,
         Sleeping, Limiter!Sleeping, SleepTime, Limiter!SleepTime
    <3>7. Wake(t) <=> Limiter!Wake(t)
      BY DEF Wake, Limiter!Wake, Trying, Limiter!Trying, bucket, Limiter!bucket
    <3>8. QED
      BY <3>3, <3>4, <3>5, <3>6, <3>7 DEF Thread, Limiter!Thread
  <2>3. ReadTokens => Limiter!ReadTokens
    BY DEF ReadTokens, Limiter!ReadTokens, Refill, Limiter!Refill, Refilled, Limiter!Refilled
  <2>4. Tick => Limiter!Tick
    BY DEF Tick, Limiter!Tick, bucket, Limiter!bucket
  <2>5. UNCHANGED vars => UNCHANGED Limiter!vars
    BY DEF vars, bucket, Limiter!vars, Limiter!bucket
  <2>6. QED
    BY <2>1, <2>2, <2>3, <2>4, <2>5, BucketSteps DEF Next, Limiter!Next
<1>3. QED
  BY <1>1, <1>2, PTL DEF ClientSpec, DrawsFromBucket, Limiter!Spec

-----------------------------------------------------------------------------
(* The event log.  Each emitter that writes holds the end of its line, and *)
(* the log has what comes before; the parts of a line are there in order,  *)
(* whatever stands between them.                                           *)

EmitterState ==
    [at : {"idle", "locking", "flush", "unlock", "close"},
     ev : 0 .. Events, buffer : Seq(Chunk), writes : 0 .. Events]

EmitTyped ==
    /\ parts \in [Emitters -> Parts] /\ flush_every_n \in FlushEvery /\ poison \in Poisons
    /\ log \in Seq(Chunk)
    /\ lock \in Emitters \cup {None}
    /\ emitter \in [Emitters -> EmitterState]
    /\ emitted \in 0 .. Events
    /\ torn \subseteq 1 .. Events

\* How many writes of its line an emitter has behind it.
Written(e) == parts[e] - Len(emitter[e].buffer)
Part(e, k) == [ev |-> emitter[e].ev, part |-> k, of |-> parts[e]]

EmitterFits(e) ==
    /\ ~EmitterAt(e, "idle") => emitter[e].ev \in 1 .. emitted
    /\ emitter[e].writes <= emitted
    /\ EmitterAt(e, "locking") =>
         /\ emitter[e].writes < emitted
         /\ \A i \in DOMAIN log : log[i].ev # emitter[e].ev
    /\ emitter[e].at \in {"flush", "unlock", "close"} =>
         /\ Len(emitter[e].buffer) <= parts[e]
         /\ \A j \in DOMAIN emitter[e].buffer :
              emitter[e].buffer[j] = Part(e, Written(e) + j)
         /\ \A i \in DOMAIN log : log[i].ev = emitter[e].ev => log[i].part <= Written(e)
    /\ flush_every_n = 1 /\ emitter[e].at \in {"unlock", "close"} => emitter[e].buffer = <<>>

EventsDiffer ==
    \A e, f \in Emitters :
        ~EmitterAt(e, "idle") /\ ~EmitterAt(f, "idle") /\ e # f => emitter[e].ev # emitter[f].ev

LogFits ==
    /\ \A i \in DOMAIN log : log[i].ev <= emitted /\ 1 <= log[i].part /\ log[i].part <= log[i].of
    /\ \A i, j \in DOMAIN log : i < j /\ log[i].ev = log[j].ev => log[i].part < log[j].part

LockFits == \A e \in Emitters : EmitterAt(e, "flush") \/ EmitterAt(e, "unlock") <=> lock = e

\* A line whose last part is missing at the end of the log is being written.
GoesOn(i) == [ev |-> log[i].ev, part |-> log[i].part + 1, of |-> log[i].of]
Unbroken ==
    flush_every_n = 1 =>
        \A i \in DOMAIN log : ~EndsLine(i) /\ log[i].ev \notin torn =>
            IF i = Len(log)
            THEN \E e \in Emitters : /\ EmitterAt(e, "flush") /\ emitter[e].buffer # <<>>
                                     /\ emitter[e].buffer[1] = GoesOn(i)
            ELSE log[i + 1] = GoesOn(i)

EmitInv ==
    /\ EmitTyped
    /\ \A e \in Emitters : EmitterFits(e)
    /\ EventsDiffer
    /\ LogFits
    /\ LockFits
    /\ Unbroken

LEMMA LogIsSeq ==
    ASSUME log \in Seq(Chunk)
    PROVE  /\ Len(log) \in Nat /\ DOMAIN log = 1 .. Len(log)
           /\ \A i \in DOMAIN log :
                /\ log[i] \in Chunk /\ log[i].ev \in 1 .. Events /\ log[i].ev \in Nat
                /\ log[i].part \in Nat /\ log[i].of \in Nat /\ log[i].of \in Parts
<1>1. Len(log) \in Nat /\ DOMAIN log = 1 .. Len(log) /\ \A i \in DOMAIN log : log[i] \in Chunk
  OBVIOUS
<1>2. \A c \in Chunk : c.ev \in 1 .. Events /\ c.ev \in Nat /\ c.part \in Nat /\ c.of \in Parts
  BY TailAssumption DEF Chunk
<1>3. \A n \in Parts : n \in Nat
  BY TailAssumption
<1>4. QED
  BY <1>1, <1>2, <1>3

\* What an emitter does leaves the others their place in the log.
LEMMA OneEmitterMoves ==
    ASSUME EmitInv, NEW e \in Emitters, NEW r \in EmitterState,
           emitter' = [emitter EXCEPT ![e] = r], UNCHANGED config,
           emitted' \in 0 .. Events, emitted' >= emitted,
           \/ log' = log
           \/ ~EmitterAt(e, "idle") /\ \E x \in Chunk : log' = Append(log, x) /\ x.ev = emitter[e].ev,
           \/ r.at = "idle"
           \/ ~EmitterAt(e, "idle") /\ r.ev = emitter[e].ev
           \/ r.ev > emitted,
           EmitterFits(e)'
    PROVE  /\ emitter' \in [Emitters -> EmitterState]
           /\ \A f \in Emitters : EmitterFits(f)'
           /\ EventsDiffer'
           /\ emitter'[e] = r /\ \A f \in Emitters : f # e => emitter'[f] = emitter[f]
<1>1. /\ emitter \in [Emitters -> EmitterState] /\ parts' = parts
      /\ flush_every_n' = flush_every_n /\ log \in Seq(Chunk) /\ emitted \in Nat /\ emitted' \in Nat
  BY TailAssumption DEF EmitInv, EmitTyped, config
<1>2. /\ emitter' \in [Emitters -> EmitterState]
      /\ emitter'[e] = r /\ \A f \in Emitters : f # e => emitter'[f] = emitter[f]
  BY <1>1
<1>3. \A f \in Emitters : emitter[f].ev \in Nat /\ emitter[f].writes \in Nat
  BY <1>1, TailAssumption DEF EmitterState
<1>4. ASSUME NEW f \in Emitters, f # e
      PROVE  EmitterFits(f)'
  <2>1. emitter'[f] = emitter[f] /\ EmitterFits(f)
    BY <1>2, <1>4 DEF EmitInv
  <2>2. /\ Written(f)' = Written(f) /\ \A k : Part(f, k)' = Part(f, k)
        /\ \A place : EmitterAt(f, place)' <=> EmitterAt(f, place)
    BY <1>1, <2>1 DEF Written, Part, EmitterAt
  <2>3. ASSUME NEW i \in DOMAIN log', ~EmitterAt(f, "idle"), log'[i].ev = emitter[f].ev
        PROVE  i \in DOMAIN log /\ log'[i] = log[i]
    <3>1. CASE log' = log
      BY <3>1
    <3>2. CASE /\ ~EmitterAt(e, "idle")
               /\ \E x \in Chunk : log' = Append(log, x) /\ x.ev = emitter[e].ev
      <4>1. PICK x \in Chunk : log' = Append(log, x) /\ x.ev = emitter[e].ev
        BY <3>2
      <4>2. emitter[e].ev # emitter[f].ev
        BY <1>4, <2>3, <3>2 DEF EmitInv, EventsDiffer
      <4>3. DOMAIN log = 1 .. Len(log) /\ Len(log) \in Nat /\ DOMAIN log' = 1 .. Len(log) + 1
            /\ log'[Len(log) + 1] = x /\ \A k \in 1 .. Len(log) : log'[k] = log[k]
        BY <1>1, <4>1
      <4>4. i \in 1 .. Len(log) \/ i = Len(log) + 1
        BY <4>3
      <4>5. QED
        BY <2>3, <4>1, <4>2, <4>3, <4>4
    <3>3. QED
      BY <3>1, <3>2
  <2>4. emitter[f].ev \in 1 .. emitted => emitter[f].ev \in 1 .. emitted'
    BY <1>1, <1>3
  <2>5. emitter[f].writes <= emitted => emitter[f].writes <= emitted'
    BY <1>1, <1>3
  <2>6. emitter[f].writes < emitted => emitter[f].writes < emitted'
    BY <1>1, <1>3
  <2>7. EmitterAt(f, "locking") \/ emitter[f].at \in {"flush", "unlock", "close"} => ~EmitterAt(f, "idle")
    BY DEF EmitterAt
  <2>8. \A i \in DOMAIN log' : EmitterAt(f, "locking") => log'[i].ev # emitter[f].ev
    BY <2>1, <2>3, <2>7 DEF EmitterFits
  <2>9. \A i \in DOMAIN log' : emitter[f].at \in {"flush", "unlock", "close"} =>
           (log'[i].ev = emitter[f].ev => log'[i].part <= Written(f))
    BY <2>1, <2>3, <2>7 DEF EmitterFits
  <2> HIDE DEF Written, Part, EmitterAt
  <2>10. QED
    BY <1>1, <2>1, <2>2, <2>4, <2>5, <2>6, <2>8, <2>9 DEF EmitterFits
<1>5. EventsDiffer'
  <2>1. \A f \in Emitters : ~EmitterAt(f, "idle") => emitter[f].ev <= emitted
    BY <1>1, <1>3 DEF EmitInv, EmitterFits
  <2>2. r.ev \in Nat
    BY TailAssumption DEF EmitterState
  <2>3. QED
    BY <1>1, <1>2, <1>3, <2>1, <2>2 DEF EmitInv, EventsDiffer, EmitterAt
<1>6. QED
  BY <1>2, <1>4, <1>5

\* A step that writes nothing breaks no line, unless it ends the emitter that
\* is in the middle of one.
LEMMA NothingWritten ==
    ASSUME EmitInv, log' = log, UNCHANGED config, torn \subseteq torn', emitted' >= emitted,
           emitted' \in Nat,
           \A e \in Emitters : EmitterAt(e, "flush") /\ emitter[e].buffer # <<>> =>
               emitter'[e] = emitter[e] \/ emitter[e].ev \in torn'
    PROVE  LogFits' /\ Unbroken'
<1>1. /\ log \in Seq(Chunk) /\ flush_every_n' = flush_every_n /\ parts' = parts
      /\ emitted \in Nat
  BY TailAssumption DEF EmitInv, EmitTyped, config
<1>2. \A i \in DOMAIN log : log[i].ev \in Nat /\ (log[i].ev <= emitted => log[i].ev <= emitted')
  BY <1>1, LogIsSeq
<1>3. LogFits'
  BY <1>2 DEF EmitInv, LogFits
<1>4. ASSUME flush_every_n = 1, NEW i \in DOMAIN log, ~EndsLine(i), log[i].ev \notin torn'
      PROVE  IF i = Len(log)
             THEN \E e \in Emitters : /\ EmitterAt(e, "flush")' /\ emitter'[e].buffer # <<>>
                                      /\ emitter'[e].buffer[1] = GoesOn(i)
             ELSE log[i + 1] = GoesOn(i)
  <2>1. CASE i = Len(log)
    <3>1. PICK e \in Emitters : /\ EmitterAt(e, "flush") /\ emitter[e].buffer # <<>>
                                /\ emitter[e].buffer[1] = GoesOn(i)
      BY <1>4, <2>1 DEF EmitInv, Unbroken
    <3>2. emitter[e].ev = log[i].ev
      <4>1. emitter[e].buffer \in Seq(Chunk)
        BY DEF EmitInv, EmitTyped, EmitterState
      <4>2. 1 \in DOMAIN emitter[e].buffer
        BY <3>1, <4>1
      <4>3. emitter[e].buffer[1] = Part(e, Written(e) + 1)
        BY <3>1, <4>2 DEF EmitInv, EmitterFits, EmitterAt
      <4>4. QED
        BY <3>1, <4>3 DEF Part, GoesOn
    <3>3. emitter'[e] = emitter[e]
      BY <1>4, <3>1, <3>2
    <3>4. QED
      BY <2>1, <3>1, <3>3 DEF EmitterAt
  <2>2. CASE i # Len(log)
    BY <1>4, <2>2 DEF EmitInv, Unbroken
  <2>3. QED
    BY <2>1, <2>2
<1>5. \A i : (EndsLine(i)' <=> EndsLine(i)) /\ GoesOn(i)' = GoesOn(i)
  BY DEF EndsLine, GoesOn
<1>6. Unbroken'
  BY <1>1, <1>4, <1>5 DEF Unbroken
<1>7. QED
  BY <1>3, <1>6

LEMMA EmitterTyped ==
    ASSUME EmitInv, NEW e \in Emitters
    PROVE  /\ emitter[e] \in EmitterState
           /\ emitter[e].ev \in 0 .. Events /\ emitter[e].ev \in Nat
           /\ emitter[e].writes \in 0 .. Events /\ emitter[e].writes \in Nat
           /\ emitter[e].buffer \in Seq(Chunk)
           /\ parts[e] \in Parts /\ parts[e] \in Nat /\ parts[e] > 0
           /\ emitted \in 0 .. Events /\ emitted \in Nat /\ Events \in Nat
<1>1. emitter[e] \in EmitterState /\ parts[e] \in Parts /\ emitted \in 0 .. Events
  BY DEF EmitInv, EmitTyped
<1>2. /\ emitter[e].ev \in 0 .. Events /\ emitter[e].writes \in 0 .. Events
      /\ emitter[e].buffer \in Seq(Chunk)
  BY <1>1 DEF EmitterState
<1>3. Parts \subseteq Nat \ {0} /\ Events \in Nat
  BY TailAssumption
<1>4. parts[e] \in Nat /\ parts[e] # 0
  BY <1>1, <1>3
<1>5. parts[e] > 0
  BY <1>4
<1>6. emitted \in Nat /\ emitter[e].ev \in Nat /\ emitter[e].writes \in Nat
  BY <1>1, <1>2, <1>3
<1>7. QED
  BY <1>1, <1>2, <1>3, <1>4, <1>5, <1>6

LEMMA EmitKeeps ==
    ASSUME EmitInv, NEW e \in Emitters, Emit(e)
    PROVE  EmitInv'
<1> DEFINE r == [emitter[e] EXCEPT !.at = "locking", !.ev = emitted + 1]
<1>1. /\ EmitterAt(e, "idle") /\ emitted < Events /\ emitted' = emitted + 1
      /\ UNCHANGED <<config, log, lock, torn>>
      /\ emitter' = [emitter EXCEPT ![e].at = "locking", ![e].ev = emitted + 1]
  BY DEF Emit
<1>2. /\ emitter[e] \in EmitterState /\ emitted \in Nat /\ Events \in Nat
      /\ emitter \in [Emitters -> EmitterState] /\ log \in Seq(Chunk)
  BY EmitterTyped DEF EmitInv, EmitTyped
<1>3. emitted + 1 \in 0 .. Events /\ emitted + 1 \in 1 .. emitted + 1
  BY <1>1, <1>2
<1>4. r \in EmitterState /\ r.ev = emitted + 1 /\ r.at = "locking" /\ r.writes = emitter[e].writes
  BY <1>2, <1>3 DEF EmitterState
<1>5. emitter' = [emitter EXCEPT ![e] = r]
  BY <1>1, <1>2
<1> HIDE DEF r
<1>6. emitter'[e] = r
  BY <1>2, <1>5
<1>7. EmitterFits(e)'
  <2>1. emitter[e].writes <= emitted /\ emitter[e].writes \in Nat
    BY EmitterTyped DEF EmitInv, EmitterFits
  <2>2. \A i \in DOMAIN log : log[i].ev # emitted + 1
    BY <1>2, LogIsSeq DEF EmitInv, LogFits
  <2>3. QED
    BY <1>1, <1>2, <1>3, <1>4, <1>6, <2>1, <2>2 DEF EmitterFits, EmitterAt
<1>8. /\ emitter' \in [Emitters -> EmitterState]
      /\ \A f \in Emitters : EmitterFits(f)'
      /\ EventsDiffer'
      /\ \A f \in Emitters : f # e => emitter'[f] = emitter[f]
  <2>1. emitted' \in 0 .. Events /\ emitted' >= emitted /\ r.ev > emitted
    BY <1>1, <1>2, <1>3, <1>4
  <2>2. QED
    BY <1>1, <1>4, <1>5, <1>7, <2>1, OneEmitterMoves
<1>9. LogFits' /\ Unbroken'
  <2>1. emitted' >= emitted /\ emitted' \in Nat
    BY <1>1, <1>2
  <2>2. QED
    BY <1>1, <1>8, <2>1, NothingWritten DEF EmitterAt
<1>10. LockFits'
  BY <1>1, <1>4, <1>6, <1>8 DEF EmitInv, LockFits, EmitterAt
<1>11. EmitTyped'
  BY <1>1, <1>3, <1>8 DEF EmitInv, EmitTyped, config
<1>12. QED
  BY <1>8, <1>9, <1>10, <1>11 DEF EmitInv

\* The lines fit as before when an emitter that is not in the middle of one
\* moves on, and no event is given out.
LEMMA MoveOnKeeps ==
    ASSUME EmitInv, NEW e \in Emitters, NEW r \in EmitterState,
           emitter' = [emitter EXCEPT ![e] = r], UNCHANGED <<config, log, emitted, torn>>,
           EmitterAt(e, "flush") => emitter[e].buffer = <<>>,
           \/ r.at = "idle"
           \/ ~EmitterAt(e, "idle") /\ r.ev = emitter[e].ev,
           EmitterFits(e)',
           lock' \in Emitters \cup {None},
           r.at \in {"flush", "unlock"} <=> lock' = e,
           lock' = lock \/ lock = e \/ (lock = None /\ lock' = e), lock' = e \/ lock' \notin Emitters
               \/ lock' = lock
    PROVE  EmitInv'
<1>1. emitted \in 0 .. Events /\ emitted \in Nat /\ emitted' = emitted
      /\ emitted' \in 0 .. Events /\ emitted' >= emitted /\ emitted' \in Nat
  BY EmitterTyped
<1>2. /\ emitter' \in [Emitters -> EmitterState]
      /\ \A f \in Emitters : EmitterFits(f)'
      /\ EventsDiffer'
      /\ emitter'[e] = r /\ \A f \in Emitters : f # e => emitter'[f] = emitter[f]
  BY <1>1, OneEmitterMoves
<1>3. LogFits' /\ Unbroken'
  BY <1>1, <1>2, NothingWritten
<1>4. LockFits'
  BY <1>2, TailAssumption DEF EmitInv, LockFits, EmitterAt
<1>5. EmitTyped'
  BY <1>1, <1>2 DEF EmitInv, EmitTyped, config
<1>6. QED
  BY <1>2, <1>3, <1>4, <1>5 DEF EmitInv

LEMMA LineIs ==
    ASSUME NEW ev \in 1 .. Events, NEW n \in Parts
    PROVE  /\ Line(ev, n) \in Seq(Chunk) /\ Len(Line(ev, n)) = n
           /\ DOMAIN Line(ev, n) = 1 .. n
           /\ \A k \in 1 .. n : Line(ev, n)[k] = [ev |-> ev, part |-> k, of |-> n]
<1>1. n \in Nat
  BY TailAssumption
<1>2. Line(ev, n) \in [1 .. n -> Chunk]
  BY <1>1 DEF Line, Chunk
<1>3. Line(ev, n) \in Seq(Chunk)
  BY <1>1, <1>2, FunctionIsSeq
<1>4. Len(Line(ev, n)) = n
  BY <1>1, <1>2, <1>3
<1>5. QED
  BY <1>2, <1>3, <1>4 DEF Line

LEMMA LockKeeps ==
    ASSUME EmitInv, NEW e \in Emitters, Lock(e)
    PROVE  EmitInv'
<1> DEFINE w == emitter[e].writes + 1
           line == Line(emitter[e].ev, parts[e])
           r == [at |-> IF Due(w) THEN "flush" ELSE "unlock", ev |-> emitter[e].ev,
                 buffer |-> line, writes |-> w]
<1>1. /\ EmitterAt(e, "locking") /\ lock = None /\ lock' = e
      /\ UNCHANGED <<config, log, emitted, torn>>
      /\ emitter' = [emitter EXCEPT ![e] = r]
  BY DEF Lock
<1>2. /\ emitter[e] \in EmitterState /\ emitter[e].writes \in Nat /\ emitted \in 0 .. Events
      /\ emitter[e].writes < emitted /\ emitted \in Nat /\ Events \in Nat
      /\ emitter[e].ev \in 1 .. emitted /\ parts[e] \in Parts /\ parts[e] \in Nat
      /\ \A i \in DOMAIN log : log[i].ev # emitter[e].ev
      /\ emitter \in [Emitters -> EmitterState] /\ flush_every_n \in Nat
  BY <1>1, EmitterTyped, TailAssumption DEF EmitInv, EmitTyped, EmitterFits, EmitterAt
<1>3. emitter[e].ev \in 1 .. Events /\ emitter[e].ev \in 0 .. Events /\ w \in 0 .. Events /\ w <= emitted
  BY <1>2
<1>4. line \in Seq(Chunk) /\ Len(line) = parts[e] /\ DOMAIN line = 1 .. parts[e]
      /\ \A k \in 1 .. parts[e] :
           line[k] = [ev |-> emitter[e].ev, part |-> k, of |-> parts[e]]
  BY <1>2, <1>3, LineIs
<1>5. flush_every_n = 1 => Due(w)
  BY <1>2 DEF Due
<1>6. r \in EmitterState
  BY <1>3, <1>4 DEF EmitterState
<1>7. /\ r.at \in {"flush", "unlock"} /\ r.ev = emitter[e].ev /\ r.buffer = line /\ r.writes = w
      /\ (flush_every_n = 1 => r.at = "flush")
  BY <1>5
<1> HIDE DEF r, line, w
<1>8. emitter'[e] = r
  BY <1>1, <1>2
<1>9. Written(e)' = 0 /\ \A k : Part(e, k)' = [ev |-> emitter[e].ev, part |-> k, of |-> parts[e]]
  BY <1>1, <1>2, <1>4, <1>7, <1>8 DEF Written, Part, config
<1>10. EmitterFits(e)'
  <2>1. \A j \in DOMAIN line : line[j] = Part(e, 0 + j)'
    BY <1>2, <1>4, <1>9
  <2> HIDE DEF Part, Written
  <2>2. QED
    BY <1>1, <1>2, <1>3, <1>4, <1>7, <1>8, <1>9, <2>1 DEF EmitterFits, EmitterAt, config
<1>11. ~EmitterAt(e, "idle") /\ ~EmitterAt(e, "flush") /\ lock' \in Emitters \cup {None}
  BY <1>1 DEF EmitterAt
<1>12. QED
  BY <1>1, <1>6, <1>7, <1>10, <1>11, MoveOnKeeps

LEMMA WriteKeeps ==
    ASSUME EmitInv, NEW e \in Emitters, WritePart(e)
    PROVE  EmitInv'
<1> DEFINE b == emitter[e].buffer
           r == [emitter[e] EXCEPT !.buffer = Tail(b)]
           w == Written(e)
           x == Part(e, w + 1)
<1>1. /\ EmitterAt(e, "flush") \/ EmitterAt(e, "close")
      /\ b # <<>> /\ log' = Append(log, Head(b))
      /\ emitter' = [emitter EXCEPT ![e].buffer = Tail(@)]
      /\ UNCHANGED <<config, lock, emitted, torn>>
  BY DEF WritePart
<1>2. /\ emitter[e] \in EmitterState /\ b \in Seq(Chunk) /\ parts[e] \in Nat /\ parts[e] > 0
      /\ emitter \in [Emitters -> EmitterState] /\ log \in Seq(Chunk)
      /\ emitted \in Nat /\ emitted \in 0 .. Events /\ emitter[e].ev \in 1 .. emitted
      /\ ~EmitterAt(e, "idle") /\ emitter[e].writes <= emitted
  BY <1>1, EmitterTyped DEF EmitInv, EmitTyped, EmitterFits, EmitterAt
<1>3. /\ Len(b) \in Nat /\ Len(b) > 0 /\ Tail(b) \in Seq(Chunk) /\ Len(Tail(b)) = Len(b) - 1
      /\ Head(b) = b[1] /\ Head(b) \in Chunk /\ DOMAIN b = 1 .. Len(b)
      /\ \A j \in 1 .. Len(Tail(b)) : Tail(b)[j] = b[j + 1]
  BY <1>1, <1>2
<1>4. /\ Len(b) <= parts[e] /\ \A j \in DOMAIN b : b[j] = Part(e, w + j)
      /\ \A i \in DOMAIN log : log[i].ev = emitter[e].ev => log[i].part <= w
      /\ (flush_every_n = 1 => EmitterAt(e, "flush"))
  BY <1>1 DEF EmitInv, EmitterFits, EmitterAt
<1>5. w \in Nat /\ w + 1 <= parts[e] /\ w = parts[e] - Len(b)
  BY <1>2, <1>3, <1>4 DEF Written
<1>6. Head(b) = x /\ x \in Chunk /\ x.ev = emitter[e].ev /\ x.part = w + 1 /\ x.of = parts[e]
  <2>1. 1 \in DOMAIN b
    BY <1>3
  <2>2. QED
    BY <1>3, <1>4, <2>1 DEF Part
<1>7. /\ r \in EmitterState /\ r.at = emitter[e].at /\ r.ev = emitter[e].ev /\ r.buffer = Tail(b)
      /\ r.writes = emitter[e].writes
  BY <1>2, <1>3 DEF EmitterState
<1>8. emitter' = [emitter EXCEPT ![e] = r]
  BY <1>1, <1>2
<1> HIDE DEF r
<1>9. emitter'[e] = r
  BY <1>2, <1>8
<1>10. /\ \A i \in DOMAIN log : i \in DOMAIN log' /\ log'[i] = log[i] /\ i <= Len(log)
       /\ Len(log) \in Nat /\ Len(log') = Len(log) + 1 /\ log' \in Seq(Chunk)
       /\ DOMAIN log = 1 .. Len(log)
       /\ log'[Len(log) + 1] = x /\ DOMAIN log' = 1 .. Len(log) + 1
       /\ \A i \in DOMAIN log' : i = Len(log) + 1 \/ i \in DOMAIN log
  BY <1>1, <1>2, <1>3, <1>6
<1>11. Written(e)' = w + 1 /\ \A k : Part(e, k)' = Part(e, k)
  <2>1. parts' = parts
    BY <1>1 DEF config
  <2>2. Written(e)' = parts[e] - Len(Tail(b))
    BY <1>7, <1>9, <2>1 DEF Written
  <2>3. QED
    BY <1>2, <1>3, <1>5, <1>7, <1>9, <2>1, <2>2 DEF Part
<1> HIDE DEF b, w
<1>12. EmitterFits(e)'
  <2>1. \A i \in DOMAIN log' : log'[i].ev = emitter[e].ev => log'[i].part <= w + 1
    BY <1>2, <1>4, <1>5, <1>6, <1>10, LogIsSeq, SMTT(30)
  <2>2. \A j \in DOMAIN Tail(b) : Tail(b)[j] = Part(e, (w + 1) + j)
    <3>1. SUFFICES ASSUME NEW j \in DOMAIN Tail(b)
                   PROVE  Tail(b)[j] = Part(e, (w + 1) + j)
      OBVIOUS
    <3>2. j \in 1 .. Len(b) - 1 /\ j + 1 \in DOMAIN b /\ (w + 1) + j = w + (j + 1)
      BY <1>3, <1>5
    <3>3. QED
      BY <1>3, <1>4, <3>2
  <2>3. Len(Tail(b)) <= parts[e] /\ parts' = parts /\ flush_every_n' = flush_every_n /\ emitted' = emitted
    BY <1>1, <1>2, <1>3, <1>4 DEF config
  <2> HIDE DEF x
  <2>4. EmitterAt(e, "locking")' <=> FALSE
    BY <1>1, <1>7, <1>9 DEF EmitterAt
  <2>5. flush_every_n = 1 => ~(r.at \in {"unlock", "close"})
    BY <1>4, <1>7 DEF EmitterAt
  <2>6. emitter[e].ev \in 1 .. emitted' /\ emitter[e].writes <= emitted'
    BY <1>2, <2>3
  <2>7. QED
    BY <1>7, <1>9, <1>11, <2>1, <2>2, <2>3, <2>4, <2>5, <2>6 DEF EmitterFits
<1>13. /\ emitter' \in [Emitters -> EmitterState]
       /\ \A f \in Emitters : EmitterFits(f)'
       /\ EventsDiffer'
       /\ \A f \in Emitters : f # e => emitter'[f] = emitter[f]
  <2>1. emitted' \in 0 .. Events /\ emitted' >= emitted
    BY <1>1, <1>2
  <2>2. QED
    BY <1>1, <1>2, <1>6, <1>7, <1>8, <1>12, <2>1, OneEmitterMoves
<1>14. LogFits'
  <2>1. \A i \in DOMAIN log' : /\ log'[i].ev <= emitted' /\ 1 <= log'[i].part
                               /\ log'[i].part <= log'[i].of
    BY <1>1, <1>2, <1>5, <1>6, <1>10 DEF EmitInv, LogFits
  <2>2. ASSUME NEW i \in DOMAIN log', NEW j \in DOMAIN log', i < j, log'[i].ev = log'[j].ev
        PROVE  log'[i].part < log'[j].part
    <3>1. i \in DOMAIN log
      BY <1>10, <2>2
    <3>2. CASE j \in DOMAIN log
      BY <1>10, <2>2, <3>1, <3>2 DEF EmitInv, LogFits
    <3>3. CASE j = Len(log) + 1
      <4>1. log[i].part <= w /\ log[i].part \in Nat
        BY <1>2, <1>4, <1>6, <1>10, <2>2, <3>1, <3>3, LogIsSeq
      <4>2. QED
        BY <1>5, <1>6, <1>10, <3>1, <3>3, <4>1
    <3>4. QED
      BY <1>10, <3>2, <3>3
  <2>3. QED
    BY <2>1, <2>2 DEF LogFits
<1>15. LockFits'
  BY <1>1, <1>7, <1>9, <1>13 DEF EmitInv, LockFits, EmitterAt
<1>16. ASSUME flush_every_n = 1, NEW i \in DOMAIN log', log'[i].part # log'[i].of, log'[i].ev \notin torn
       PROVE  LET next == [ev |-> log'[i].ev, part |-> log'[i].part + 1, of |-> log'[i].of] IN
              IF i = Len(log')
              THEN \E f \in Emitters : /\ EmitterAt(f, "flush")' /\ emitter'[f].buffer # <<>>
                                       /\ emitter'[f].buffer[1] = next
              ELSE log'[i + 1] = next
  <2> DEFINE next == [ev |-> log'[i].ev, part |-> log'[i].part + 1, of |-> log'[i].of]
  <2>1. CASE i = Len(log) + 1
    <3>1. next = Part(e, w + 2) /\ w + 1 # parts[e]
      BY <1>5, <1>6, <1>10, <1>16, <2>1 DEF Part
    <3>2. Len(Tail(b)) > 0 /\ 2 \in DOMAIN b /\ Tail(b)[1] = b[2] /\ Tail(b) # <<>>
      <4>1. parts[e] - w = Len(b) /\ Len(b) - 1 # 0
        <5>1. Len(b) \in Nat /\ w \in Nat /\ parts[e] \in Nat /\ w = parts[e] - Len(b)
          BY <1>2, <1>3, <1>5
        <5>2. \A l, v, p \in Nat : v = p - l /\ v + 1 # p => p - v = l /\ l - 1 # 0
          OBVIOUS
        <5>3. w + 1 # parts[e]
          BY <3>1
        <5>4. QED
          BY <5>1, <5>2, <5>3
      <4>2. Len(b) >= 2 /\ Len(Tail(b)) > 0
        BY <1>3, <4>1
      <4>3. Tail(b) # <<>>
        BY <4>2
      <4>4. 2 \in DOMAIN b /\ 1 \in 1 .. Len(Tail(b)) /\ 1 + 1 = 2
        BY <1>3, <4>2
      <4>5. QED
        BY <1>3, <4>2, <4>3, <4>4
    <3>3. Tail(b)[1] = next
      BY <1>4, <3>1, <3>2
    <3>4. EmitterAt(e, "flush")' /\ emitter'[e].buffer # <<>> /\ emitter'[e].buffer[1] = next
      BY <1>4, <1>7, <1>9, <1>16, <3>2, <3>3 DEF EmitterAt
    <3>5. i = Len(log')
      BY <1>10, <2>1
    <3>6. QED
      BY <3>4, <3>5
  <2>2. CASE i \in DOMAIN log
    <3>1. log'[i] = log[i] /\ ~EndsLine(i) /\ next = GoesOn(i) /\ i # Len(log')
      BY <1>10, <1>16, <2>2 DEF EndsLine, GoesOn
    <3>2. CASE i = Len(log)
      <4>1. PICK f \in Emitters : EmitterAt(f, "flush") /\ emitter[f].buffer[1] = GoesOn(i)
        BY <1>16, <2>2, <3>1, <3>2 DEF EmitInv, Unbroken
      <4>2. f = e
        BY <1>4, <1>16, <4>1 DEF EmitInv, LockFits
      <4>3. x = GoesOn(i)
        BY <1>3, <1>6, <4>1, <4>2 DEF b
      <4>4. QED
        BY <1>10, <3>1, <3>2, <4>3
    <3>3. CASE i # Len(log)
      <4>1. log[i + 1] = GoesOn(i) /\ i + 1 \in DOMAIN log
        BY <1>10, <1>16, <2>2, <3>1, <3>3 DEF EmitInv, Unbroken
      <4>2. QED
        BY <1>10, <3>1, <4>1
    <3>4. QED
      BY <3>2, <3>3
  <2>3. QED
    BY <1>10, <2>1, <2>2
<1>17. Unbroken'
  BY <1>1, <1>16 DEF Unbroken, EndsLine, GoesOn, config
<1>18. EmitTyped'
  BY <1>1, <1>10, <1>13 DEF EmitInv, EmitTyped, config
<1>19. QED
  BY <1>13, <1>14, <1>15, <1>17, <1>18 DEF EmitInv

\* The other steps of an emitter change only where it is and who has the lock.
LEMMA StepKeeps ==
    ASSUME EmitInv, NEW e \in Emitters, GiveUp(e) \/ Flushed(e) \/ Unlock(e) \/ Closed(e)
    PROVE  EmitInv'
<1>1. /\ emitter[e] \in EmitterState /\ emitter \in [Emitters -> EmitterState] /\ EmitterFits(e)
      /\ emitter[e].writes \in 0 .. Events /\ 0 \in 0 .. Events /\ <<>> \in Seq(Chunk)
      /\ lock \in Emitters \cup {None} /\ None \notin Emitters
      /\ (EmitterAt(e, "flush") \/ EmitterAt(e, "unlock") <=> lock = e)
  BY EmitterTyped, TailAssumption DEF EmitInv, EmitTyped, LockFits
<1>2. CASE GiveUp(e) \/ Closed(e)
  <2> DEFINE r == Idle(emitter[e].writes)
  <2>1. /\ emitter' = [emitter EXCEPT ![e] = r] /\ UNCHANGED <<config, log, lock, emitted, torn>>
        /\ ~EmitterAt(e, "flush") /\ ~EmitterAt(e, "unlock") /\ ~EmitterAt(e, "idle")
    BY <1>1, <1>2 DEF GiveUp, Closed, EmitterAt
  <2>2. r \in EmitterState /\ r.at = "idle" /\ r.writes = emitter[e].writes
    BY <1>1 DEF Idle, EmitterState
  <2> HIDE DEF r
  <2>3. emitter'[e] = r
    BY <1>1, <2>1
  <2>4. EmitterFits(e)'
    BY <1>1, <2>1, <2>2, <2>3 DEF EmitterFits, EmitterAt
  <2>5. lock # e /\ lock' = lock
    BY <1>1, <2>1
  <2>6. QED
    BY <1>1, <2>1, <2>2, <2>4, <2>5, MoveOnKeeps
<1>3. CASE Flushed(e) \/ Unlock(e)
  <2> DEFINE r == [emitter[e] EXCEPT !.at = IF EmitterAt(e, "flush") THEN "unlock" ELSE "close"]
  <2>1. /\ emitter' = [emitter EXCEPT ![e] = r] /\ UNCHANGED <<config, log, emitted, torn>>
        /\ ~EmitterAt(e, "idle") /\ (EmitterAt(e, "flush") => emitter[e].buffer = <<>>)
        /\ lock = e
        /\ (r.at = "unlock" /\ lock' = lock) \/ (r.at = "close" /\ lock' = None)
        /\ (r.at = "close" => EmitterAt(e, "unlock")) /\ r.at \in {"unlock", "close"}
        /\ (r.at = "unlock" => emitter[e].buffer = <<>>)
    BY <1>1, <1>3 DEF Flushed, Unlock, EmitterAt, EmitterState
  <2>2. /\ r \in EmitterState /\ r.ev = emitter[e].ev /\ r.writes = emitter[e].writes
        /\ r.buffer = emitter[e].buffer
    BY <1>1 DEF EmitterState
  <2> HIDE DEF r
  <2>3. emitter'[e] = r
    BY <1>1, <2>1
  <2>4. /\ Written(e)' = Written(e) /\ \A k : Part(e, k)' = Part(e, k)
        /\ parts' = parts /\ flush_every_n' = flush_every_n /\ log' = log /\ emitted' = emitted
    BY <2>1, <2>2, <2>3 DEF Written, Part, config
  <2>5. emitter[e].at \in {"flush", "unlock", "close"}
    BY <1>1, <2>1 DEF EmitterAt
  <2>6. flush_every_n = 1 /\ r.at \in {"unlock", "close"} => r.buffer = <<>>
    BY <1>1, <2>1, <2>2 DEF EmitterFits, EmitterAt
  <2>7. r.at # "idle" /\ r.at # "locking" /\ r.at \in {"flush", "unlock", "close"}
    BY <2>1
  <2>8. EmitterFits(e)'
    BY <1>1, <2>1, <2>2, <2>3, <2>4, <2>5, <2>6, <2>7 DEF EmitterFits, EmitterAt
  <2>9. /\ (r.at \in {"flush", "unlock"} <=> lock' = e) /\ lock' \in Emitters \cup {None}
        /\ (lock' = e \/ lock' \notin Emitters)
    BY <1>1, <2>1
  <2>10. QED
    BY <1>1, <2>1, <2>2, <2>8, <2>9, MoveOnKeeps
<1>4. QED
  BY <1>2, <1>3

LEMMA KillKeeps ==
    ASSUME EmitInv, NEW e \in Emitters, KillEmitter(e)
    PROVE  EmitInv'
<1>1. /\ ~EmitterAt(e, "idle") /\ torn' = torn \cup {emitter[e].ev}
      /\ emitter' = [emitter EXCEPT ![e] = Idle(0)]
      /\ lock' = (IF lock = e THEN None ELSE lock)
      /\ UNCHANGED <<config, log, emitted>>
  BY DEF KillEmitter
<1>2. /\ emitted \in 0 .. Events /\ emitted \in Nat /\ emitter[e].ev \in 1 .. emitted
      /\ Events \in Nat /\ emitter \in [Emitters -> EmitterState]
      /\ emitted' \in 0 .. Events /\ emitted' >= emitted /\ emitted' \in Nat
  BY <1>1, EmitterTyped DEF EmitInv, EmitTyped, EmitterFits
<1>3. Idle(0) \in EmitterState /\ Idle(0).at = "idle" /\ Idle(0).writes = 0
  BY <1>2 DEF Idle, EmitterState
<1>4. emitter'[e] = Idle(0)
  BY <1>1, <1>2
<1>5. EmitterFits(e)'
  BY <1>2, <1>3, <1>4 DEF EmitterFits, EmitterAt
<1>6. /\ emitter' \in [Emitters -> EmitterState]
      /\ \A f \in Emitters : EmitterFits(f)'
      /\ EventsDiffer'
      /\ \A f \in Emitters : f # e => emitter'[f] = emitter[f]
  BY <1>1, <1>2, <1>3, <1>5, OneEmitterMoves
<1>7. LogFits' /\ Unbroken'
  <2>1. \A f \in Emitters : emitter'[f] = emitter[f] \/ emitter[f].ev \in torn'
    BY <1>1, <1>6
  <2>2. QED
    BY <1>1, <1>2, <2>1, NothingWritten
<1>8. LockFits'
  <2>1. \A f \in Emitters : f # e => (lock' = f <=> lock = f)
    BY <1>1, TailAssumption
  <2>2. lock' # e
    BY <1>1, TailAssumption
  <2>3. ~EmitterAt(e, "flush")' /\ ~EmitterAt(e, "unlock")'
    BY <1>3, <1>4 DEF EmitterAt
  <2>4. QED
    BY <1>6, <2>1, <2>2, <2>3 DEF EmitInv, LockFits, EmitterAt
<1>9. EmitTyped'
  <2>1. torn' \subseteq 1 .. Events /\ lock' \in Emitters \cup {None}
    <3>1. emitter[e].ev \in 1 .. Events
      BY <1>2
    <3>2. QED
      BY <1>1, <3>1 DEF EmitInv, EmitTyped
  <2>2. QED
    BY <1>1, <1>2, <1>6, <2>1 DEF EmitInv, EmitTyped, config
<1>10. QED
  BY <1>6, <1>7, <1>8, <1>9 DEF EmitInv

LEMMA EmitInit ==
    TailInit => EmitInv
<1> SUFFICES ASSUME TailInit
             PROVE  EmitInv
  OBVIOUS
<1>1. /\ parts \in [Emitters -> Parts] /\ flush_every_n \in FlushEvery /\ poison \in Poisons
      /\ log = <<>> /\ DOMAIN log = {} /\ lock = None
      /\ emitter = [e \in Emitters |-> Idle(0)] /\ emitted = 0 /\ torn = {}
      /\ Events \in Nat /\ None \notin Emitters
  BY TailAssumption DEF TailInit
<1>2. Idle(0) \in EmitterState /\ Idle(0).at = "idle" /\ Idle(0).writes = 0
  BY <1>1 DEF Idle, EmitterState
<1>3. \A e \in Emitters : emitter[e] = Idle(0) /\ EmitterAt(e, "idle") /\ emitter[e].at = "idle"
  BY <1>1, <1>2 DEF EmitterAt
<1>4. EmitTyped
  BY <1>1, <1>2 DEF EmitTyped
<1>5. \A e \in Emitters : EmitterFits(e)
  BY <1>1, <1>2, <1>3 DEF EmitterFits, EmitterAt
<1>6. EventsDiffer /\ LockFits
  BY <1>1, <1>3 DEF EventsDiffer, LockFits, EmitterAt
<1>7. LogFits /\ Unbroken
  BY <1>1 DEF LogFits, Unbroken
<1>8. QED
  BY <1>4, <1>5, <1>6, <1>7 DEF EmitInv

-----------------------------------------------------------------------------
(* The Aggregator.  Its counters and its offset, in memory and in          *)
(* state.json, belong together: what is counted stands whole in the log,   *)
(* and each short line before the offset is counted.  Unless a line that   *)
(* raises stands behind the offset, what is counted stands before the      *)
(* offset and is counted once.  Appending to the log leaves all that true. *)

WholeIn(l, i) ==
    /\ i + l[i].of - 1 <= Len(l)
    /\ \A k \in 1 .. l[i].of : l[i + k - 1] = [ev |-> l[i].ev, part |-> k, of |-> l[i].of]
ShortIn(l, i) == l[i].of = 1 /\ (i = 1 \/ l[i - 1].part = l[i - 1].of)

RaisesIn(l, offset, i) ==
    /\ i \in offset + 1 .. Len(l)
    /\ l[i].ev \in poison
    /\ i = offset + 1 \/ l[i - 1].part = l[i - 1].of
    /\ WholeIn(l, i)
StuckIn(m, l) == \E i \in DOMAIN l : RaisesIn(l, m.offset, i)

\* Counted at most once, and from before the offset.
CountedOnceIn(m, l) ==
    \A ev \in 1 .. Events :
        /\ m.counted[ev] <= 1
        /\ m.counted[ev] = 1 => \E i \in 1 .. m.offset : l[i].ev = ev /\ WholeIn(l, i)

MemoryFits(m, l) ==
    /\ m \in Memory
    /\ m.offset <= Len(l)
    /\ \A ev \in 1 .. Events : m.counted[ev] >= 1 =>
          \E i \in DOMAIN l : l[i].ev = ev /\ WholeIn(l, i)
    /\ \A i \in 1 .. m.offset : ShortIn(l, i) => m.counted[l[i].ev] >= 1
    /\ StuckIn(m, l) \/ CountedOnceIn(m, l)

MemInv ==
    /\ MemoryFits(agg, log)
    /\ saved # Corrupt => MemoryFits(saved, log)
    /\ saving \in {"no", "truncate", "write"}
    /\ kills \in [{"emitter", "agg", "save", "raise"} -> Nat]

LEMMA SamePoison ==
    ASSUME poison' = poison
    PROVE  /\ MemoryFits(agg, log)' <=> MemoryFits(agg', log')
           /\ MemoryFits(saved, log)' <=> MemoryFits(saved', log')
BY DEF MemoryFits, StuckIn, RaisesIn, CountedOnceIn, WholeIn, ShortIn

LEMMA PartsArePositive ==
    /\ \A n \in Parts : n \in Nat /\ n > 0
    /\ \A c \in Chunk : c.of \in Nat /\ c.of > 0
<1>1. Parts \subseteq Nat \ {0}
  BY TailAssumption
<1>2. \A n \in Nat \ {0} : n \in Nat /\ n > 0
  OBVIOUS
<1>3. \A c \in Chunk : c.of \in Parts
  BY DEF Chunk
<1>4. QED
  BY <1>1, <1>2, <1>3

LEMMA WholeMeans ==
    ASSUME log \in Seq(Chunk), NEW i \in DOMAIN log
    PROVE  WholeAt(i) <=> WholeIn(log, i)
<1> DEFINE n == log[i].of
           ev == log[i].ev
<1>1. /\ i \in Nat /\ i > 0 /\ Len(log) \in Nat /\ DOMAIN log = 1 .. Len(log)
      /\ n \in Parts /\ n \in Nat /\ ev \in 1 .. Events /\ \A j \in DOMAIN log : log[j] \in Chunk
  BY LogIsSeq
<1>2. n > 0
  BY <1>1, TailAssumption
<1>3. /\ Line(ev, n) \in Seq(Chunk) /\ Len(Line(ev, n)) = n
      /\ \A k \in 1 .. n : Line(ev, n)[k] = [ev |-> ev, part |-> k, of |-> n]
  BY <1>1, LineIs
<1>4. End(i) = i + n - 1 /\ End(i) \in Int
  BY <1>1 DEF End
<1>5. ASSUME End(i) <= Len(log)
      PROVE  /\ SubSeq(log, i, End(i)) \in Seq(Chunk) /\ Len(SubSeq(log, i, End(i))) = n
             /\ \A k \in 1 .. n : SubSeq(log, i, End(i))[k] = log[i + k - 1]
  <2>1. \A j \in i .. End(i) : j \in DOMAIN log /\ log[j] \in Chunk
    BY <1>1, <1>4, <1>5
  <2>2. i <= End(i) /\ End(i) - i + 1 = n /\ i \in Int
    BY <1>1, <1>2, <1>4
  <2> HIDE DEF n
  <2>3. QED
    BY <1>4, <2>1, <2>2, SubSeqProperties
<1> HIDE DEF n, ev
<1>6. ASSUME End(i) <= Len(log)
      PROVE  SubSeq(log, i, End(i)) = Line(ev, n) <=>
             \A k \in 1 .. n : log[i + k - 1] = [ev |-> ev, part |-> k, of |-> n]
  <2> DEFINE sub == SubSeq(log, i, End(i))
             line == Line(ev, n)
  <2>1. /\ sub \in Seq(Chunk) /\ line \in Seq(Chunk) /\ Len(sub) = n /\ Len(line) = n
        /\ \A k \in 1 .. n : sub[k] = log[i + k - 1]
        /\ \A k \in 1 .. n : line[k] = [ev |-> ev, part |-> k, of |-> n]
    BY <1>3, <1>5, <1>6
  <2> HIDE DEF sub, line
  <2>2. (\A k \in 1 .. n : sub[k] = line[k]) => sub = line
    BY <2>1, SeqEqual
  <2>3. sub = line => \A k \in 1 .. n : sub[k] = line[k]
    OBVIOUS
  <2>4. sub = line <=> \A k \in 1 .. n : log[i + k - 1] = [ev |-> ev, part |-> k, of |-> n]
    BY <2>1, <2>2, <2>3
  <2>5. QED
    BY <2>4 DEF sub, line
<1>7. QED
  BY <1>4, <1>6 DEF WholeAt, WholeIn, n, ev

LEMMA MemoryFitsOn ==
    ASSUME NEW l \in Seq(Chunk), NEW x \in Chunk, NEW m, MemoryFits(m, l)
    PROVE  MemoryFits(m, Append(l, x))
<1> DEFINE k == Append(l, x)
<1>1. /\ Len(l) \in Nat /\ DOMAIN l = 1 .. Len(l) /\ Len(k) = Len(l) + 1
      /\ DOMAIN k = 1 .. Len(k)
      /\ \A i \in 1 .. Len(l) : k[i] = l[i] /\ l[i] \in Chunk
  OBVIOUS
<1> HIDE DEF k
<1>2. m \in Memory /\ m.offset \in Nat /\ m.offset <= Len(l)
  BY DEF MemoryFits, Memory
<1>3. \A i \in DOMAIN l : i \in DOMAIN k /\ k[i] = l[i] /\ l[i].of \in Nat /\ l[i].of > 0
  <2>1. QED
    BY <1>1, PartsArePositive
<1>4. ASSUME NEW i \in DOMAIN l, WholeIn(l, i)
      PROVE  WholeIn(k, i)
  <2>1. i + l[i].of - 1 <= Len(k)
    BY <1>1, <1>3, <1>4 DEF WholeIn
  <2>2. \A j \in 1 .. l[i].of : i + j - 1 \in 1 .. Len(l)
    BY <1>1, <1>3, <1>4 DEF WholeIn
  <2>3. QED
    BY <1>1, <1>3, <1>4, <2>1, <2>2 DEF WholeIn
<1>5. \A i \in DOMAIN l : i # 1 => k[i - 1] = l[i - 1]
  <2>1. SUFFICES ASSUME NEW i \in DOMAIN l, i # 1
                 PROVE  k[i - 1] = l[i - 1]
    OBVIOUS
  <2>2. i - 1 \in 1 .. Len(l)
    BY <1>1, <2>1
  <2>3. QED
    BY <1>1, <2>2
<1>6. \A i \in 1 .. m.offset : i \in DOMAIN l /\ (ShortIn(k, i) <=> ShortIn(l, i))
  <2>1. \A i \in 1 .. m.offset : i \in DOMAIN l
    BY <1>1, <1>2
  <2>2. QED
    BY <1>3, <1>5, <2>1 DEF ShortIn
<1>7. m.offset <= Len(k)
  BY <1>1, <1>2
<1>8. ASSUME NEW i \in DOMAIN l, RaisesIn(l, m.offset, i)
      PROVE  RaisesIn(k, m.offset, i)
  <2>1. i \in m.offset + 1 .. Len(k) /\ (i = 1 => i = m.offset + 1)
    BY <1>1, <1>2, <1>8 DEF RaisesIn
  <2>2. WholeIn(k, i)
    BY <1>4, <1>8 DEF RaisesIn
  <2>3. QED
    BY <1>3, <1>5, <1>8, <2>1, <2>2 DEF RaisesIn
<1>9. StuckIn(m, l) => StuckIn(m, k)
  BY <1>3, <1>8 DEF StuckIn
<1>10. CountedOnceIn(m, l) => CountedOnceIn(m, k)
  BY <1>3, <1>4, <1>6 DEF CountedOnceIn
<1>11. \A ev \in 1 .. Events : m.counted[ev] >= 1 =>
          \E i \in DOMAIN k : k[i].ev = ev /\ WholeIn(k, i)
  BY <1>3, <1>4 DEF MemoryFits
<1>12. \A i \in 1 .. m.offset : ShortIn(k, i) => m.counted[k[i].ev] >= 1
  BY <1>3, <1>6 DEF MemoryFits
<1>13. MemoryFits(m, k)
  BY <1>2, <1>7, <1>9, <1>10, <1>11, <1>12 DEF MemoryFits
<1>14. QED
  BY <1>13 DEF k

\* A whole line starts with its first part, so no two lines of one event stand
\* in the log.
LEMMA WholeStartsAtOne ==
    ASSUME log \in Seq(Chunk), NEW i \in DOMAIN log, WholeIn(log, i)
    PROVE  log[i].part = 1
<1>1. i \in Nat /\ log[i].of \in Nat /\ log[i].of > 0
  <2>1. i \in Nat /\ log[i].of \in Parts
    BY LogIsSeq
  <2>2. QED
    BY <2>1, PartsArePositive
<1>2. 1 \in 1 .. log[i].of /\ i + 1 - 1 = i
  BY <1>1
<1>3. log[i + 1 - 1] = [ev |-> log[i].ev, part |-> 1, of |-> log[i].of]
  BY <1>2 DEF WholeIn
<1>4. QED
  BY <1>2, <1>3

\* What readline and json find beyond the offset is what the log has there.
LEMMA RaisingMeans ==
    ASSUME log \in Seq(Chunk), NEW m \in Memory, NEW i \in DOMAIN log
    PROVE  i \in Raising(m.offset) <=> RaisesIn(log, m.offset, i)
BY WholeMeans DEF Raising, RaisesIn, StartsLine, EndsLine

LEMMA StuckMeans ==
    ASSUME log \in Seq(Chunk), NEW m \in Memory
    PROVE  Raising(m.offset) # {} <=> StuckIn(m, log)
<1>1. \A i \in Raising(m.offset) : i \in DOMAIN log
  <2>1. m.offset \in Nat /\ Len(log) \in Nat /\ DOMAIN log = 1 .. Len(log)
    BY DEF Memory
  <2>2. \A i \in m.offset + 1 .. Len(log) : i \in 1 .. Len(log)
    BY <2>1
  <2>3. QED
    BY <2>1, <2>2 DEF Raising
<1>2. QED
  BY <1>1, RaisingMeans DEF StuckIn

LEMMA PollFits ==
    ASSUME EmitInv, MemInv, Poll
    PROVE  MemoryFits(agg', log)
<1>1. /\ log \in Seq(Chunk) /\ MemoryFits(agg, log) /\ agg \in Memory /\ agg.offset \in Nat
      /\ agg.offset <= Len(log) /\ Len(log) \in Nat /\ DOMAIN log = 1 .. Len(log)
      /\ agg.counted \in [1 .. Events -> Nat] /\ LogFits
  BY LogIsSeq DEF EmitInv, EmitTyped, MemInv, MemoryFits, Memory, Counters
<1>2. CASE agg' = agg
  BY <1>1, <1>2
<1>3. CASE ProcessCycleLog
  <2>1. From = agg.offset
    BY <1>1 DEF From
  <2> DEFINE P(ev) == {i \in Parsed(agg.offset, ev) : Reached(i)}
  <2>2. ASSUME NEW ev \in 1 .. Events, NEW i \in P(ev)
        PROVE  /\ i \in DOMAIN log /\ i > agg.offset /\ log[i].ev = ev
               /\ WholeIn(log, i) /\ log[i].part = 1
    <3>1. i \in agg.offset + 1 .. Len(log) /\ log[i].ev = ev /\ WholeAt(i)
      BY <2>2 DEF Parsed
    <3>2. i \in DOMAIN log /\ i > agg.offset
      BY <1>1, <3>1
    <3>3. WholeIn(log, i)
      BY <1>1, <3>1, <3>2, WholeMeans
    <3>4. QED
      BY <1>1, <3>1, <3>2, <3>3, WholeStartsAtOne
  <2>3. ASSUME NEW ev \in 1 .. Events, NEW i \in Parsed(agg.offset, ev), Raising(agg.offset) = {}
        PROVE  i \in P(ev)
    BY <2>1, <2>3 DEF Reached
  <2>4. agg' = [offset |-> IF Raising(agg.offset) = {} THEN Len(log) ELSE agg.offset,
                counted |-> [ev \in 1 .. Events |-> agg.counted[ev] + Cardinality(P(ev))]]
    BY <1>3, <2>1 DEF ProcessCycleLog
  <2> HIDE DEF P
  <2>5. ASSUME NEW ev \in 1 .. Events
        PROVE  /\ IsFiniteSet(P(ev)) /\ Cardinality(P(ev)) <= 1 /\ Cardinality(P(ev)) \in Nat
               /\ (Cardinality(P(ev)) = 0 <=> P(ev) = {})
    <3>1. \A i, j \in P(ev) : i = j
      <4>1. SUFFICES ASSUME NEW i \in P(ev), NEW j \in P(ev), i < j
                     PROVE  FALSE
        <5>1. \A i \in P(ev) : i \in Nat
          BY <1>1, <2>2
        <5>2. QED
          BY <4>1, <5>1
      <4>2. log[i].part < log[j].part
        BY <1>1, <2>2, <4>1 DEF LogFits
      <4>3. QED
        BY <2>2, <4>2
    <3>2. IsFiniteSet(P(ev)) /\ Cardinality(P(ev)) <= 1
      BY <3>1, AtMostOne
    <3>3. QED
      BY <3>2, FS_CardinalityType, FS_EmptySet
  <2>6. /\ agg' \in Memory
        /\ agg'.offset = IF Raising(agg.offset) = {} THEN Len(log) ELSE agg.offset
        /\ \A ev \in 1 .. Events : agg'.counted[ev] = agg.counted[ev] + Cardinality(P(ev))
    <3>1. ASSUME NEW ev \in 1 .. Events
          PROVE  agg.counted[ev] + Cardinality(P(ev)) \in Nat
      <4>1. agg.counted[ev] \in Nat
        BY <1>1
      <4>2. Cardinality(P(ev)) \in Nat
        BY <2>5
      <4>3. QED
        BY <4>1, <4>2
    <3>2. QED
      BY <1>1, <2>4, <3>1 DEF Memory, Counters
  <2>7. ASSUME NEW ev \in 1 .. Events
        PROVE  /\ agg'.counted[ev] >= 1 => \E i \in DOMAIN log : log[i].ev = ev /\ WholeIn(log, i)
               /\ agg.counted[ev] >= 1 \/ P(ev) # {} => agg'.counted[ev] >= 1
    <3>1. agg.counted[ev] \in Nat /\ agg'.counted[ev] = agg.counted[ev] + Cardinality(P(ev))
      BY <1>1, <2>6
    <3>2. agg'.counted[ev] >= 1 => agg.counted[ev] >= 1 \/ P(ev) # {}
      BY <2>5, <3>1
    <3>3. agg.counted[ev] >= 1 \/ P(ev) # {} => agg'.counted[ev] >= 1
      BY <2>5, <3>1
    <3>4. agg.counted[ev] >= 1 => \E i \in DOMAIN log : log[i].ev = ev /\ WholeIn(log, i)
      BY <1>1 DEF MemoryFits
    <3>5. QED
      BY <2>2, <3>2, <3>3, <3>4
  <2>8. CASE Raising(agg.offset) # {}
    <3>1. agg'.offset = agg.offset
      BY <2>6, <2>8
    <3>2. StuckIn(agg', log)
      BY <1>1, <2>6, <2>8, <3>1, StuckMeans
    <3>3. \A i \in 1 .. agg'.offset : ShortIn(log, i) => agg'.counted[log[i].ev] >= 1
      <4>1. SUFFICES ASSUME NEW i \in 1 .. agg.offset, ShortIn(log, i)
                     PROVE  agg'.counted[log[i].ev] >= 1
        BY <3>1
      <4>2. i \in DOMAIN log /\ log[i].ev \in 1 .. Events
        BY <1>1, LogIsSeq
      <4>3. agg.counted[log[i].ev] >= 1
        BY <1>1, <4>1 DEF MemoryFits
      <4>4. QED
        BY <2>7, <4>2, <4>3
    <3>4. QED
      BY <1>1, <2>6, <2>7, <3>1, <3>2, <3>3 DEF MemoryFits
  <2>9. CASE Raising(agg.offset) = {}
    <3>1. agg'.offset = Len(log) /\ CountedOnceIn(agg, log)
      BY <1>1, <2>6, <2>9, StuckMeans DEF MemoryFits
    <3>2. ASSUME NEW ev \in 1 .. Events, agg.counted[ev] = 1
          PROVE  P(ev) = {}
      <4>1. PICK i \in 1 .. agg.offset : log[i].ev = ev /\ WholeIn(log, i)
        BY <3>1, <3>2 DEF CountedOnceIn
      <4>2. i \in DOMAIN log /\ log[i].part = 1
        BY <1>1, <4>1, WholeStartsAtOne
      <4>3. ASSUME NEW j \in P(ev)
            PROVE  FALSE
        <5>1. j \in DOMAIN log /\ i < j /\ log[j].ev = ev /\ log[j].part = 1
          BY <1>1, <2>2, <4>1, <4>3
        <5>2. log[i].part < log[j].part
          BY <1>1, <4>1, <4>2, <5>1 DEF LogFits
        <5>3. QED
          BY <4>2, <5>1, <5>2
      <4>4. QED
        BY <4>3
    <3>3. ASSUME NEW ev \in 1 .. Events
          PROVE  agg'.counted[ev] <= 1
      <4>1. agg.counted[ev] \in Nat /\ agg.counted[ev] <= 1
        BY <1>1, <3>1 DEF CountedOnceIn
      <4>2. agg'.counted[ev] = agg.counted[ev] + Cardinality(P(ev))
        BY <2>6
      <4>3. QED
        BY <2>5, <3>2, <4>1, <4>2
    <3>4. CountedOnceIn(agg', log)
      <4>1. \A ev \in 1 .. Events : agg'.counted[ev] = 1 =>
               \E i \in 1 .. agg'.offset : log[i].ev = ev /\ WholeIn(log, i)
        BY <1>1, <2>7, <3>1
      <4>2. QED
        BY <3>3, <4>1 DEF CountedOnceIn
    <3>5. ASSUME NEW i \in 1 .. Len(log), ShortIn(log, i)
          PROVE  agg'.counted[log[i].ev] >= 1
      <4>1. /\ i \in DOMAIN log /\ log[i] \in Chunk /\ log[i].ev \in 1 .. Events
            /\ log[i].of = 1 /\ log[i].part \in Nat
        BY <1>1, <3>5, LogIsSeq DEF ShortIn
      <4>2. CASE i <= agg.offset
        <5>1. i \in 1 .. agg.offset
          BY <1>1, <4>2
        <5>2. agg.counted[log[i].ev] >= 1
          BY <1>1, <3>5, <5>1 DEF MemoryFits
        <5>3. QED
          BY <2>7, <4>1, <5>2
      <4>3. CASE i > agg.offset
        <5>1. i \in agg.offset + 1 .. Len(log)
          BY <1>1, <4>3
        <5>2. log[i].part = 1
          BY <1>1, <4>1 DEF LogFits
        <5>3. log[i] = [ev |-> log[i].ev, part |-> 1, of |-> 1]
          BY <4>1, <5>2 DEF Chunk
        <5>4. WholeIn(log, i)
          <6>1. i + 1 - 1 = i /\ i <= Len(log) /\ \A k \in 1 .. 1 : k = 1
            BY <1>1
          <6>2. QED
            BY <4>1, <5>3, <6>1 DEF WholeIn
        <5>5. WholeAt(i)
          BY <1>1, <4>1, <5>4, WholeMeans
        <5>6. StartsLine(i, agg.offset)
          BY <1>1, <3>5, <4>3 DEF StartsLine, EndsLine, ShortIn
        <5>7. i \in P(log[i].ev)
          <6>1. i \in Parsed(agg.offset, log[i].ev)
            BY <5>1, <5>5, <5>6 DEF Parsed
          <6>2. QED
            BY <2>3, <2>9, <4>1, <6>1
        <5>8. QED
          BY <2>7, <4>1, <5>7
      <4>4. QED
        BY <1>1, <4>2, <4>3
    <3>6. QED
      BY <1>1, <2>6, <2>7, <3>1, <3>4, <3>5 DEF MemoryFits
  <2>10. QED
    BY <2>8, <2>9
<1>4. QED
  BY <1>2, <1>3 DEF Poll

\* An emitter's step leaves the log or adds one write to it.
LEMMA LogGrows ==
    ASSUME EmitInv, NEW e \in Emitters, Emitting(e)
    PROVE  log' = log \/ \E x \in Chunk : log' = Append(log, x)
<1>1. CASE WritePart(e)
  <2>1. emitter[e].buffer \in Seq(Chunk) /\ emitter[e].buffer # <<>>
    BY <1>1, EmitterTyped DEF WritePart
  <2>2. Head(emitter[e].buffer) \in Chunk
    BY <2>1
  <2>3. QED
    BY <1>1, <2>2 DEF WritePart
<1>2. CASE ~WritePart(e)
  BY <1>2 DEF Emitting, Append_record, Emit, Lock, GiveUp, Flushed, Unlock, Closed, KillEmitter
<1>3. QED
  BY <1>1, <1>2

LEMMA EmittingKeeps ==
    ASSUME EmitInv, MemInv, NEW e \in Emitters, Emitting(e)
    PROVE  EmitInv' /\ MemInv'
<1>1. EmitInv'
  BY EmitKeeps, LockKeeps, WriteKeeps, StepKeeps, KillKeeps DEF Emitting, Append_record
<1>2. /\ UNCHANGED aggVars /\ poison' = poison
      /\ UNCHANGED kills \/ kills' = [kills EXCEPT !["emitter"] = @ + 1]
  BY DEF Emitting, Append_record, Emit, Lock, GiveUp, WritePart, Flushed, Unlock, Closed, KillEmitter, config
<1>3. \A m : MemoryFits(m, log) => MemoryFits(m, log')
  <2>1. log \in Seq(Chunk)
    BY DEF EmitInv, EmitTyped
  <2>2. QED
    BY <2>1, LogGrows, MemoryFitsOn
<1>4. kills' \in [{"emitter", "agg", "save", "raise"} -> Nat]
  BY <1>2 DEF MemInv
<1>5. QED
  BY <1>1, <1>2, <1>3, <1>4, SamePoison DEF MemInv, aggVars

LEMMA StillFits ==
    ASSUME EmitInv, UNCHANGED emitVars
    PROVE  EmitInv'
<1>1. /\ UNCHANGED <<parts, flush_every_n, poison, log, lock, emitter, emitted, torn>>
  BY DEF emitVars, config
<1>2. EmitTyped' /\ EventsDiffer' /\ LogFits' /\ LockFits' /\ Unbroken'
  BY <1>1 DEF EmitInv, EmitTyped, EventsDiffer, LogFits, LockFits, Unbroken, EmitterAt, EndsLine,
     GoesOn
<1>3. \A e \in Emitters : EmitterFits(e)' <=> EmitterFits(e)
  BY <1>1 DEF EmitterFits, EmitterAt, Written, Part
<1>4. QED
  BY <1>2, <1>3 DEF EmitInv

LEMMA AggregatorKeeps ==
    ASSUME EmitInv, MemInv, Aggregating \/ SaveFails \/ RestartAggregator
    PROVE  EmitInv' /\ MemInv'
<1>1. UNCHANGED emitVars /\ log' = log /\ poison' = poison
  BY DEF Aggregating, Poll, TruncateState, WriteState, SaveFails, RestartAggregator, emitVars, config
<1>2. EmitInv'
  BY <1>1, StillFits
<1>3. CASE Poll
  <2>1. MemoryFits(agg', log')
    BY <1>1, <1>3, PollFits
  <2>2. kills' \in [{"emitter", "agg", "save", "raise"} -> Nat]
    BY <1>3 DEF Poll, MemInv
  <2>3. QED
    BY <1>1, <1>2, <1>3, <2>1, <2>2, SamePoison DEF Poll, MemInv
<1>4. CASE TruncateState \/ WriteState
  BY <1>1, <1>2, <1>4, SamePoison DEF TruncateState, WriteState, MemInv
<1>5. CASE SaveFails
  <2>1. kills' \in [{"emitter", "agg", "save", "raise"} -> Nat]
    BY <1>5 DEF SaveFails, MemInv
  <2>2. QED
    BY <1>1, <1>2, <1>5, <2>1, SamePoison DEF SaveFails, MemInv
<1>6. CASE RestartAggregator
  <2>1. kills' \in [{"emitter", "agg", "save", "raise"} -> Nat]
    BY <1>6 DEF RestartAggregator, MemInv
  <2>2. MemoryFits(Blank, log)
    <3>1. log \in Seq(Chunk) /\ Len(log) \in Nat /\ Events \in Nat
      BY LogIsSeq, TailAssumption DEF EmitInv, EmitTyped
    <3>2. Blank \in Memory /\ Blank.offset = 0 /\ \A ev \in 1 .. Events : Blank.counted[ev] = 0
      BY <3>1 DEF Blank, Memory, Counters
    <3>3. QED
      BY <3>1, <3>2 DEF MemoryFits, CountedOnceIn
  <2>3. MemoryFits(Loaded, log)
    BY <2>2 DEF Loaded, MemInv
  <2>4. QED
    BY <1>1, <1>2, <1>6, <2>1, <2>3, SamePoison DEF RestartAggregator, MemInv
<1>7. QED
  BY <1>3, <1>4, <1>5, <1>6 DEF Aggregating

LEMMA TailInvariant ==
    TailSpec => [](EmitInv /\ MemInv)
<1>1. TailInit => EmitInv /\ MemInv
  <2> SUFFICES ASSUME TailInit
               PROVE  MemInv
    BY EmitInit
  <2>2. log = <<>> /\ Len(log) = 0 /\ Events \in Nat
    BY TailAssumption DEF TailInit
  <2>3. Blank \in Memory /\ Blank.offset = 0 /\ \A ev \in 1 .. Events : Blank.counted[ev] = 0
    BY <2>2 DEF Blank, Memory, Counters
  <2>4. MemoryFits(Blank, log)
    BY <2>2, <2>3 DEF MemoryFits, CountedOnceIn
  <2>5. kills \in [{"emitter", "agg", "save", "raise"} -> Nat]
    BY DEF TailInit
  <2>6. QED
    BY <2>4, <2>5 DEF TailInit, MemInv
<1>2. EmitInv /\ MemInv /\ [TailNext]_tailVars => (EmitInv /\ MemInv)'
  <2> SUFFICES ASSUME EmitInv, MemInv, [TailNext]_tailVars
               PROVE  EmitInv' /\ MemInv'
    OBVIOUS
  <2>1. CASE TailNext
    BY <2>1, EmittingKeeps, AggregatorKeeps DEF TailNext
  <2>2. CASE UNCHANGED tailVars
    <3>1. UNCHANGED emitVars /\ UNCHANGED <<log, agg, saved, saving, kills, poison>>
      BY <2>2 DEF tailVars, emitVars, aggVars, config
    <3>2. QED
      BY <3>1, StillFits, SamePoison DEF MemInv
  <2>3. QED
    BY <2>1, <2>2
<1>3. QED
  BY <1>1, <1>2, PTL DEF TailSpec

\* The emitters, the log and the Aggregator's state keep their types.
THEOREM TailTypeCorrect == TailSpec => []TailTypeOK
<1>1. EmitInv /\ MemInv => TailTypeOK
  BY DEF EmitInv, EmitTyped, EmitterState, MemInv, MemoryFits, TailTypeOK
<1>2. QED
  BY <1>1, TailInvariant, PTL

\* Whenever emitters and the Aggregator are killed and restarted, and whatever
\* it reads half written or cannot make sense of: no event is counted without
\* its whole line in the log nor, unless a line that raises holds the reading
\* up, twice; each short line it has read past is counted; and with a flush for
\* each line the lock keeps every line in one piece.
THEOREM LogIsCountedOnce == TailSpec => []LogCountedOnce
<1>1. EmitInv /\ MemInv => LogCountedOnce
  <2> SUFFICES ASSUME EmitInv, MemInv
               PROVE  LogCountedOnce
    OBVIOUS
  <2>1. /\ log \in Seq(Chunk) /\ DOMAIN log = 1 .. Len(log) /\ Len(log) \in Nat
        /\ MemoryFits(agg, log) /\ agg \in Memory
        /\ agg.offset \in Nat /\ agg.offset <= Len(log)
    BY LogIsSeq DEF EmitInv, EmitTyped, MemInv, MemoryFits, Memory
  <2>2. CountedAtMostOnce
    <3>1. ASSUME NEW ev \in 1 .. Events, agg.counted[ev] >= 1
          PROVE  Whole(ev)
      <4>1. PICK i \in DOMAIN log : log[i].ev = ev /\ WholeIn(log, i)
        BY <2>1, <3>1 DEF MemoryFits
      <4>2. QED
        BY <2>1, <4>1, WholeMeans DEF Whole
    <3>2. ASSUME NEW ev \in 1 .. Events
          PROVE  agg.counted[ev] <= 1 \/ Stuck
      BY <2>1, StuckMeans DEF MemoryFits, CountedOnceIn, Stuck
    <3>3. QED
      BY <3>1, <3>2 DEF CountedAtMostOnce
  <2>3. ReadMeansCounted
    <3>1. ASSUME NEW i \in 1 .. Len(log), Short(i), i <= agg.offset
          PROVE  agg.counted[log[i].ev] >= 1
      <4>1. i \in 1 .. agg.offset /\ ShortIn(log, i)
        BY <2>1, <3>1 DEF Short, ShortIn, EndsLine
      <4>2. QED
        BY <2>1, <4>1 DEF MemoryFits
    <3>2. QED
      BY <3>1 DEF ReadMeansCounted
  <2>4. LinesUnbroken
    <3>1. SUFFICES ASSUME flush_every_n = 1, NEW i \in DOMAIN log, ~EndsLine(i),
                          log[i].ev \notin torn, i # Len(log)
                   PROVE  log[i + 1] = [log[i] EXCEPT !.part = @ + 1]
      BY <2>1 DEF LinesUnbroken
    <3>2. log[i + 1] = GoesOn(i)
      BY <3>1 DEF EmitInv, Unbroken
    <3>3. [log[i] EXCEPT !.part = @ + 1] = GoesOn(i)
      BY <2>1, LogIsSeq DEF GoesOn, Chunk
    <3>4. QED
      BY <3>2, <3>3
  <2>5. QED
    BY <2>2, <2>3, <2>4 DEF LogCountedOnce
<1>2. QED
  BY <1>1, TailInvariant, PTL

-----------------------------------------------------------------------------
(* The two together, as module MCShared runs them.                         *)

LEMMA EachSharedPart ==
    /\ MCInit => ClientInit /\ TailInit
    /\ [MCNext]_allVars => [ClientNext]_clientVars /\ [TailNext]_tailVars
BY DEF MCInit, MCNext, allVars

\* Threads at the bucket and processes at the log keep their types side by
\* side: what is proved of each holds of the run that has both.
THEOREM SharedTypesCorrect == MCSpec => []SharedTypeOK
<1>1. MCSpec => ClientSpec /\ TailSpec
  BY EachSharedPart, PTL DEF MCSpec, ClientSpec, TailSpec
<1> QED
  BY <1>1, ClientTypeCorrect, TailTypeCorrect, PTL DEF SharedTypeOK
=============================================================================
