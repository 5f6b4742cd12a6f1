---------------------------- MODULE TokenBucket ----------------------------
(***************************************************************************)
(* The rate limiter of the LLM client (factory/llm_client/limiter.py): one *)
(* token bucket that every thread of the process draws from.               *)
(*                                                                         *)
(* Time is the monotonic clock in ticks and tokens are counted in units so *)
(* small that a tick refills a whole number of them (Rate).  A thread that *)
(* finds too few tokens works out how long the rest takes, gives the lock  *)
(* back, sleeps and tries again: nothing is set aside for it, so a thread  *)
(* that comes later may be served first.                                   *)
(***************************************************************************)
EXTENDS Integers

CONSTANTS
    Threads,    \* threads that share the bucket
    Rate,       \* _rps: units refilled in a tick
    Capacity,   \* _capacity
    Amounts,    \* the amounts that are asked for
    Calls,      \* bound: calls of acquire and try_acquire
    LastCall,   \* bound: the tick after which no call is made
    Horizon     \* bound: the tick at which an idle clock stops

ASSUME BucketAssumption ==
    /\ Rate \in Nat \ {0}
    /\ Capacity \in Nat \ {0}
    /\ Amounts \subseteq Nat \ {0}
    /\ Calls \in Nat
    /\ LastCall \in Nat
    /\ Horizon \in Nat

VARIABLES
    tokens,     \* _tokens
    last,       \* _last_refill_at
    now,        \* time.monotonic()
    wait,       \* what each thread does in acquire
    granted,    \* history: the units given out so far
    grants,     \* history: every grant, with `granted` before and after it
    calls       \* calls left

bucket == <<tokens, last>>
vars == <<bucket, now, wait, granted, grants, calls>>

Grant == [at : Nat, before : Nat, after : Nat]

\* A thread is outside acquire, at the top of its loop, or in time.sleep.
Outside == [at |-> "outside", amount |-> 0, until |-> 0]
Trying(n) == [at |-> "trying", amount |-> n, until |-> 0]
Sleeping(n, t) == [at |-> "sleeping", amount |-> n, until |-> t]
Wait == [at : {"outside", "trying", "sleeping"}, amount : Nat, until : Nat]

Init ==
    /\ tokens = Capacity
    /\ last = 0
    /\ now = 0
    /\ wait = [t \in Threads |-> Outside]
    /\ granted = 0
    /\ grants = {}
    /\ calls = Calls

-----------------------------------------------------------------------------
\* _refill: what the bucket holds once the time since the last refill counts.
Refilled ==
    LET sum == tokens + (now - last) * Rate IN
        IF sum < Capacity THEN sum ELSE Capacity

Refill ==
    /\ tokens' = Refilled
    /\ last' = now

\* Mutant: the deduction forgets that time has passed, so that the same
\* elapsed time refills the bucket again.
TakeKeepsClock(n) ==
    /\ Refilled >= n
    /\ tokens' = Refilled - n
    /\ last' = last
    /\ granted' = granted + n
    /\ grants' = grants \cup
           {[at |-> now, before |-> granted, after |-> granted + n]}

\* Mutant: a bucket with just enough does not do.
TakeLess(n) ==
    /\ Refilled > n
    /\ tokens' = Refilled - n
    /\ last' = now
    /\ granted' = granted + n
    /\ grants' = grants \cup
           {[at |-> now, before |-> granted, after |-> granted + n]}

\* The refill and the deduction of a grant, under one hold of the lock.
Take(n) ==
    /\ Refilled >= n
    /\ tokens' = Refilled - n
    /\ last' = now
    /\ granted' = granted + n
    /\ grants' = grants \cup
           {[at |-> now, before |-> granted, after |-> granted + n]}

\* Ticks until `needed` units have come in: sleep_time, rounded up.
SleepTime(needed) == (needed + Rate - 1) \div Rate

\* A call: an amount above the capacity raises and changes nothing.
Call(t, n) ==
    /\ wait[t] = Outside
    /\ calls > 0
    /\ now <= LastCall
    /\ n <= Capacity
    /\ calls' = calls - 1

\* acquire: enters the loop.
Acquire(t, n) ==
    /\ Call(t, n)
    /\ wait' = [wait EXCEPT ![t] = Trying(n)]
    /\ UNCHANGED <<bucket, now, granted, grants>>

\* One turn of the loop that finds enough tokens.
Granted(t) ==
    /\ wait[t].at = "trying"
    /\ Take(wait[t].amount)
    /\ wait' = [wait EXCEPT ![t] = Outside]
    /\ UNCHANGED <<now, calls>>

\* One that does not: the thread sleeps for as long as the rest takes.
SleepForRest(t) ==
    /\ wait[t].at = "trying"
    /\ Refilled < wait[t].amount
    /\ Refill
    /\ wait' = [wait EXCEPT ![t] =
           Sleeping(wait[t].amount,
                    now + SleepTime(wait[t].amount - Refilled))]
    /\ UNCHANGED <<now, granted, grants, calls>>

\* The end of time.sleep, never before its time and perhaps later.
Wake(t) ==
    /\ wait[t].at = "sleeping"
    /\ now >= wait[t].until
    /\ wait' = [wait EXCEPT ![t] = Trying(wait[t].amount)]
    /\ UNCHANGED <<bucket, now, granted, grants, calls>>

\* try_acquire: grants or returns False, and refills in both cases.
TryAcquire(t, n) ==
    /\ Call(t, n)
    /\ \/ Take(n)
       \/ /\ Refilled < n
          /\ Refill
          /\ UNCHANGED <<granted, grants>>
    /\ UNCHANGED <<now, wait>>

\* The property `tokens` refills before it answers.
ReadTokens ==
    /\ Refill
    /\ UNCHANGED <<now, wait, granted, grants, calls>>

\* Past the horizon the clock runs only while a thread has yet to sleep.
Tick ==
    /\ \/ now < Horizon
       \/ \E t \in Threads : wait[t].at = "sleeping" /\ now < wait[t].until
    /\ now' = now + 1
    /\ UNCHANGED <<bucket, wait, granted, grants, calls>>

-----------------------------------------------------------------------------
Thread(t) ==
    \/ \E n \in Amounts : Acquire(t, n) \/ TryAcquire(t, n)
    \/ Granted(t)
    \/ SleepForRest(t)
    \/ Wake(t)

Next ==
    \/ \E t \in Threads : Thread(t)
    \/ ReadTokens
    \/ Tick

Spec == Init /\ [][Next]_vars

-----------------------------------------------------------------------------
TypeOK ==
    /\ tokens \in Nat
    /\ last \in Nat
    /\ now \in Nat
    /\ wait \in [Threads -> Wait]
    /\ granted \in Nat
    /\ grants \subseteq Grant
    /\ calls \in Nat

\* The limit itself: over any stretch of time, from one grant to a later one,
\* the threads together get no more than a full bucket and what the rate
\* refills in that time, however refills, sleeps and try_acquire interleave.
RateLimited ==
    \A g, k \in grants :
        g.before <= k.before =>
            k.after - g.before <= Capacity + Rate * (k.at - g.at)
=============================================================================
