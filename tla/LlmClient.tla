----------------------------- MODULE LlmClient -----------------------------
(***************************************************************************)
(* A completion call (factory/llm_client/api.py): RateLimitedDecisionClient *)
(* draws one token from the bucket of TokenBucket and hands the call to    *)
(* OpenRouterClient, which sends the request and, while the error is one   *)
(* that may pass, sends it again after a delay that doubles each time.     *)
(*                                                                         *)
(* The threads of the bucket are the callers; `invoke` is what each does   *)
(* between its grant and its return.  Beside their calls they use the      *)
(* bucket as it stands.                                                    *)
(***************************************************************************)
EXTENDS TokenBucket, FiniteSets

CONSTANTS
    Retries,    \* how often a request is sent at most (5)
    BaseDelay,  \* ticks of the first delay
    Cost,       \* units of one token, the amount invoke acquires
    LastDirect, \* bound: how many of the calls, the last ones, are direct
    ClockEnd    \* bound: a tick the clock does not reach

ASSUME ClientAssumption ==
    /\ Retries \in Nat \ {0}
    /\ BaseDelay \in Nat
    /\ Cost \in Amounts
    /\ LastDirect \in Nat
    /\ ClockEnd \in Nat

VARIABLES
    invoke,     \* per thread: where its call has come to
    sends       \* history: the requests that went out

clientVars == <<vars, invoke, sends>>

\* A call is known by the number of calls left when it began.
NoCall == [at |-> "idle", call |-> 0, attempt |-> 0, until |-> 0]
Invoke == [at : {"idle", "limited", "ready", "sent", "backoff"},
           call : Nat, attempt : 0 .. Retries, until : Nat]
Send == [call : Nat, attempt : 1 .. Retries, at : Nat]

ClientInit ==
    /\ Init
    /\ invoke = [t \in Threads |-> NoCall]
    /\ sends = {}

-----------------------------------------------------------------------------
At(t, place) == invoke[t].at = place

Moved(t, place, attempt, until) ==
    invoke' = [invoke EXCEPT ![t] = [at |-> place, call |-> invoke[t].call,
                                     attempt |-> attempt, until |-> until]]

Return(t) == invoke' = [invoke EXCEPT ![t] = NoCall]

\* time.sleep(base_delay * 2**attempt), the attempts counted from one here.
Delay(attempt) == BaseDelay * 2 ^ (attempt - 1)

\* RateLimitedDecisionClient.invoke: acquire() first, ...
Begin(t) ==
    /\ At(t, "idle")
    /\ calls > LastDirect
    /\ Acquire(t, Cost)
    /\ invoke' = [invoke EXCEPT ![t] = [at |-> "limited", call |-> calls,
                                        attempt |-> 0, until |-> 0]]
    /\ UNCHANGED sends

\* ... then the inner client.
Limited(t) ==
    /\ At(t, "limited")
    /\ \/ /\ Granted(t)
          /\ Moved(t, "ready", 1, 0)
       \/ /\ SleepForRest(t) \/ Wake(t)
          /\ UNCHANGED invoke
    /\ UNCHANGED sends

\* The bucket is shared by all who ask for its rate and capacity: a thread that
\* is in no call may use it directly.
Draw(t) ==
    /\ At(t, "idle")
    /\ Granted(t) \/ SleepForRest(t) \/ Wake(t)
    /\ UNCHANGED <<invoke, sends>>

Direct(t) ==
    /\ At(t, "idle")
    /\ ReadTokens \/ \E n \in Amounts : Acquire(t, n) \/ TryAcquire(t, n)
    /\ UNCHANGED <<invoke, sends>>

\* client.chat.completions.create.
SendRequest(t) ==
    /\ At(t, "ready")
    /\ Moved(t, "sent", invoke[t].attempt, 0)
    /\ sends' = sends \cup
           {[call |-> invoke[t].call, attempt |-> invoke[t].attempt,
             at |-> now]}
    /\ UNCHANGED vars

\* A completion with its usage block, or an error that is raised at once:
\* authentication, unknown model, bad request, a completion without usage or
\* of a model that has no price.
Answer(t) ==
    /\ At(t, "sent")
    /\ Return(t)
    /\ UNCHANGED <<vars, sends>>

\* Mutant: the delay does not grow.
PassingErrorFlatDelay(t) ==
    /\ At(t, "sent")
    /\ IF invoke[t].attempt = Retries
       THEN Return(t)
       ELSE Moved(t, "backoff", invoke[t].attempt, now + BaseDelay)
    /\ UNCHANGED <<vars, sends>>

\* Mutant: a request that failed gives its token back.
PassingErrorRefunds(t) ==
    /\ At(t, "sent")
    /\ IF invoke[t].attempt = Retries
       THEN Return(t)
       ELSE Moved(t, "backoff", invoke[t].attempt,
                  now + Delay(invoke[t].attempt))
    /\ tokens' = tokens + Cost
    /\ UNCHANGED <<last, now, wait, granted, grants, calls, sends>>

\* Mutant: the last attempt waits as well and is followed by another.
PassingErrorOneMore(t) ==
    /\ At(t, "sent")
    /\ IF invoke[t].attempt > Retries
       THEN Return(t)
       ELSE Moved(t, "backoff", invoke[t].attempt,
                  now + Delay(invoke[t].attempt))
    /\ UNCHANGED <<vars, sends>>

\* Rate limit, connection or server error: the last attempt raises, any other
\* waits and is followed by the next.
PassingError(t) ==
    /\ At(t, "sent")
    /\ IF invoke[t].attempt = Retries
       THEN Return(t)
       ELSE Moved(t, "backoff", invoke[t].attempt,
                  now + Delay(invoke[t].attempt))
    /\ UNCHANGED <<vars, sends>>

EndBackoff(t) ==
    /\ At(t, "backoff")
    /\ now >= invoke[t].until
    /\ Moved(t, "ready", invoke[t].attempt + 1, 0)
    /\ UNCHANGED <<vars, sends>>

\* Past the horizon the clock runs only while a thread has yet to sleep.
ClientTick ==
    /\ \/ now < Horizon
       \/ \E t \in Threads :
             \/ wait[t].at = "sleeping" /\ now < wait[t].until
             \/ At(t, "backoff") /\ now < invoke[t].until
    /\ now' = now + 1
    /\ UNCHANGED <<bucket, wait, granted, grants, calls, invoke, sends>>

\* What a thread does when it has begun.
Serve(t) ==
    \/ Draw(t) \/ Limited(t)
    \/ SendRequest(t) \/ Answer(t) \/ PassingError(t) \/ EndBackoff(t)

ClientNext ==
    \/ \E t \in Threads : Begin(t) \/ Direct(t) \/ Serve(t)
    \/ ClientTick

ClientSpec == ClientInit /\ [][ClientNext]_clientVars

\* Threads are scheduled, requests come back (the SDK has a timeout), sleeps
\* end and time passes.
ClientFairness ==
    /\ \A t \in Threads : WF_clientVars(Serve(t))
    /\ WF_clientVars(ClientTick)

FairClientSpec == ClientSpec /\ ClientFairness

-----------------------------------------------------------------------------
ClientTypeOK ==
    /\ TypeOK
    /\ invoke \in [Threads -> Invoke]
    /\ sends \subseteq Send

\* The client implements the bucket on a clock that runs longer: its calls
\* draw from it by no other door, and retries and delays leave it alone.
Limiter == INSTANCE TokenBucket WITH Horizon <- ClockEnd
DrawsFromBucket == Limiter!Spec

\* Between two requests of one call lies at least the delay of the earlier
\* one, whatever the other threads do, and no attempt is sent twice.
BackoffRespected ==
    \A r, s \in sends :
        r.call = s.call /\ r # s =>
            \/ r.attempt < s.attempt /\ s.at >= r.at + Delay(r.attempt)
            \/ s.attempt < r.attempt /\ r.at >= s.at + Delay(s.attempt)

\* Every call returns, with an answer or an error, and so does every acquire
\* beside them, once the others stop asking: the retries are bounded, and a
\* thread that wakes to find its tokens taken works out a new sleep that ends.
\* Calls bounds the competition, as a batch of calls does.  Under competition
\* without end the code promises nothing: it sets no tokens aside for a sleeper,
\* who may be overtaken each time.
InvokeReturns ==
    \A t \in Threads :
        At(t, "limited") \/ wait[t].at = "trying" ~> At(t, "idle") /\ wait[t] = Outside
=============================================================================
