------------------------------- MODULE ApiPoll -------------------------------
(***************************************************************************)
(* api-poll: one thread per mempool.space endpoint, each on its own        *)
(* interval, all of them drawing on one token bucket (api/poller.py,       *)
(* api/client.py, api/rate_limiter.py, api/mempool_endpoints.py), under a  *)
(* main thread that waits for the stop event.                              *)
(*                                                                         *)
(* Time is counted in ticks; a token takes RefillTicks of them, and the    *)
(* bucket's level is counted in the same unit.  A thread may be late by    *)
(* any amount: only waiting has a lower bound.                             *)
(***************************************************************************)
EXTENDS Integers, Sequences, FiniteSets

CONSTANTS
  Endpoints,           \* how many config.endpoints lists, in their order
  Interval,            \* interval_seconds of each
  RefillTicks,         \* 60 / requests_per_minute
  BucketSize,          \* rate_limit.bucket_size
  MaxRetries,          \* max_connection_retries
  Backoff,             \* retry_backoff_seconds
  JoinTimeout,         \* request_timeout_seconds, the main thread's patience
  MaxTime,             \* bound: the ticks modelled
  MaxCtrlC             \* bound: KeyboardInterrupts (SIGINT, or SIGTERM by cli.py)

Endpoint == 1..Endpoints

ASSUME PollAssumption ==
  /\ Endpoints \in Nat \ {0} /\ Interval \in [Endpoint -> Nat \ {0}]
  /\ RefillTicks \in Nat \ {0} /\ BucketSize \in Nat \ {0}
  /\ {MaxRetries, Backoff, JoinTimeout, MaxTime, MaxCtrlC} \subseteq Nat

EXIT_RATE_LIMITED == 75
Running == -1                        \* no exit code yet
Traceback == 1                       \* an exception nobody caught

VARIABLES
  now,                 \* time.monotonic()
  \* TokenBucket
  level, refilled,     \* _tokens times RefillTicks; _last_refill
  \* the events
  stop, rateLimited,   \* stop_event, rate_limited_event
  \* each endpoint's thread
  thread,              \* its next step, see Steps
  until,               \* the end of the wait it is in, 0 outside one
  due,                 \* next_due
  attempt,             \* attempt of _get_with_retry, 0 outside it
  \* the main thread and what it returned
  main, code,
  joining, patience,   \* the thread it joins, and until when
  \* bookkeeping of the model
  grants,              \* when each token was taken
  ended,               \* when each endpoint's last two rounds ended
  late,                \* requests each thread sent after stop_event was set
  answered429, ctrlC   \* somebody got a 429; KeyboardInterrupts so far

bucket == <<level, refilled, grants>>
events == <<stop, rateLimited>>
timing == <<until, due, ended>>
history == <<late, answered429, ctrlC>>
mainVars == <<main, code, joining, patience>>
vars == <<now, bucket, events, thread, timing, attempt, mainVars, history>>

Steps == {"offset", "acquire", "throttled", "flight", "backoff",
          "limited", "stopping", "after", "sleep", "gone", "failed"}

\* compute_start_offsets: endpoints of one interval start spread across it.
Group(e) == {f \in Endpoint : Interval[f] = Interval[e]}
StartOffset(e) ==
  (Cardinality({f \in Group(e) : f < e}) * Interval[e]) \div Cardinality(Group(e))

Init ==
  /\ now = 0
  /\ level = BucketSize * RefillTicks /\ refilled = 0 /\ grants = <<>>
  /\ stop = FALSE /\ rateLimited = FALSE
  /\ thread = [e \in Endpoint |-> "offset"]
  /\ until = [e \in Endpoint |-> StartOffset(e)]
  /\ due = [e \in Endpoint |-> 0] /\ attempt = [e \in Endpoint |-> 0]
  /\ main = "watch" /\ code = Running /\ joining = 1 /\ patience = 0
  /\ ended = [e \in Endpoint |-> <<-Interval[e], -Interval[e]>>]
  /\ late = [e \in Endpoint |-> 0]
  /\ answered429 = FALSE /\ ctrlC = 0

Tick ==
  /\ now < MaxTime /\ main # "exited"
  /\ now' = now + 1
  /\ UNCHANGED <<bucket, events, thread, timing, attempt, mainVars, history>>

-----------------------------------------------------------------------------
(* A thread.  Every wait is stop_event.wait: it ends early once stop is set.*)

Goes(e, step) == thread' = [thread EXCEPT ![e] = step]
Waits(e, end) == until' = [until EXCEPT ![e] = end]
Over(e) == now >= until[e]
GivesUp(e) == Goes(e, "after") /\ attempt' = [attempt EXCEPT ![e] = 0]
IsLess(a, b) == IF a <= b THEN a ELSE b

Halts(e) ==
  /\ stop
  /\ thread[e] \in {"offset", "after", "sleep"}
  /\ Goes(e, "gone") /\ Waits(e, 0)
  /\ UNCHANGED <<now, bucket, events, due, ended, attempt, mainVars, history>>

\* The start offset or the delay is over and stop was not seen: the next round.
Begins(e) ==
  /\ thread[e] \in {"offset", "sleep"} /\ Over(e) /\ ~stop
  /\ Goes(e, "acquire") /\ Waits(e, 0)
  /\ due' = [due EXCEPT ![e] = IF thread[e] = "offset" THEN now ELSE @]
  /\ UNCHANGED <<now, bucket, events, ended, attempt, mainVars, history>>

\* TokenBucket.acquire: what it finds after _refill_locked.
RefillUncapped == level + (now - refilled)                    \* slip: no min
Refill == IsLess(BucketSize * RefillTicks, level + (now - refilled))

Acquires(e) ==
  /\ thread[e] = "acquire"
  /\ refilled' = now
  /\ IF Refill >= RefillTicks
     THEN /\ level' = Refill - RefillTicks
          /\ grants' = Append(grants, now)
          /\ late' = [late EXCEPT ![e] = IF stop THEN @ + 1 ELSE @]
          /\ Goes(e, "flight") /\ UNCHANGED until
     ELSE /\ level' = Refill
          /\ Waits(e, now + (RefillTicks - Refill))
          /\ Goes(e, "throttled") /\ UNCHANGED <<grants, late>>
  /\ UNCHANGED <<now, events, due, ended, attempt, mainVars, answered429, ctrlC>>

\* The wait for a token is given up when stop is set, the request with it.
Throttled(e) ==
  /\ thread[e] = "throttled" /\ Waits(e, 0)
  /\ \/ stop /\ GivesUp(e)
     \/ ~stop /\ Over(e) /\ Goes(e, "acquire") /\ UNCHANGED attempt
  /\ UNCHANGED <<now, bucket, events, due, ended, mainVars, history>>

RetriesLeft(e) == attempt[e] < MaxRetries

\* The request ends: rows that are written; another status, no JSON, rows that
\* do not parse, or no answer at the last attempt, given up; a write that fails,
\* which nothing catches; a 429; or no answer, to be tried again.
Answered(e) ==
  /\ thread[e] = "flight"
  /\ \/ GivesUp(e) /\ UNCHANGED <<until, answered429>>
     \/ Goes(e, "failed") /\ UNCHANGED <<until, attempt, answered429>>
     \/ Goes(e, "limited") /\ answered429' = TRUE /\ UNCHANGED <<until, attempt>>
     \/ /\ RetriesLeft(e)
        /\ Waits(e, now + Backoff) /\ Goes(e, "backoff")
        /\ UNCHANGED <<attempt, answered429>>
  /\ UNCHANGED <<now, bucket, events, due, ended, mainVars, late, ctrlC>>

StopIgnored(e) == FALSE                                       \* slip: it sleeps on
StopSeen(e) == stop

BacksOff(e) ==
  /\ thread[e] = "backoff" /\ Waits(e, 0)
  /\ \/ StopSeen(e) /\ GivesUp(e)
     \/ ~StopSeen(e) /\ Over(e) /\ attempt' = [attempt EXCEPT ![e] = @ + 1] /\ Goes(e, "acquire")
  /\ UNCHANGED <<now, bucket, events, due, ended, mainVars, history>>

\* handle_rate_limited sets the two events one after the other.
FirstEventSwapped == "stop"                                   \* slip: stop goes first
FirstEvent == "rateLimited"

SetsFlag(event) ==                                            \* slip: stop is not set
  rateLimited' = (rateLimited \/ event = "rateLimited") /\ UNCHANGED stop
Sets(event) ==
  /\ rateLimited' = (rateLimited \/ event = "rateLimited")
  /\ stop' = (stop \/ event = "stop")

HandlesLimit(e) ==
  /\ \/ thread[e] = "limited" /\ Sets(FirstEvent) /\ Goes(e, "stopping") /\ UNCHANGED attempt
     \/ /\ thread[e] = "stopping" /\ GivesUp(e)
        /\ \E event \in {"rateLimited", "stop"} \ {FirstEvent} : Sets(event)
  /\ UNCHANGED <<now, bucket, timing, mainVars, history>>

\* next_due moves on; a thread that is behind starts over from now.
CatchUp(e) == due[e] + Interval[e]                            \* slip: no resync
NextDue(e) == IF due[e] + Interval[e] < now THEN now ELSE due[e] + Interval[e]

Schedules(e) ==
  /\ thread[e] = "after" /\ ~stop
  /\ due' = [due EXCEPT ![e] = NextDue(e)]
  /\ Goes(e, "sleep") /\ Waits(e, NextDue(e))
  /\ ended' = [ended EXCEPT ![e] = <<@[2], now>>]
  /\ UNCHANGED <<now, bucket, events, attempt, mainVars, history>>

Thread(e) ==
  /\ main # "exited"
  /\ \/ Halts(e) \/ Begins(e) \/ Acquires(e) \/ Throttled(e) \/ Answered(e)
     \/ BacksOff(e) \/ HandlesLimit(e) \/ Schedules(e)

-----------------------------------------------------------------------------
(* The main thread.                                                        *)

Joins(k) == joining' = k /\ patience' = now + JoinTimeout

NoticesStop ==
  /\ main = "watch" /\ stop
  /\ main' = "join" /\ Joins(1)
  /\ UNCHANGED <<now, bucket, events, thread, timing, attempt, code, history>>

\* Ctrl-C is caught while the main thread watches, and only there.
CtrlC ==
  /\ ctrlC < MaxCtrlC /\ main # "exited"
  /\ ctrlC' = ctrlC + 1
  /\ IF main = "watch"
     THEN main' = "leave" /\ stop' = TRUE /\ Joins(1) /\ UNCHANGED code
     ELSE main' = "exited" /\ code' = Traceback /\ UNCHANGED <<stop, joining, patience>>
  /\ UNCHANGED <<now, bucket, rateLimited, thread, timing, attempt, late, answered429>>

\* join waits for one thread after the other, for each of them only so long.
JoinNext ==
  /\ main \in {"join", "leave"} /\ joining <= Endpoints
  /\ thread[joining] \in {"gone", "failed"} \/ now >= patience
  /\ Joins(joining + 1)
  /\ UNCHANGED <<now, bucket, events, thread, timing, attempt, main, code, history>>

\* The threads are daemons: what is still running dies with the process.
Returns ==
  /\ main \in {"join", "leave"} /\ joining > Endpoints
  /\ code' = IF main = "join" /\ rateLimited THEN EXIT_RATE_LIMITED ELSE 0
  /\ main' = "exited"
  /\ UNCHANGED <<now, bucket, events, thread, timing, attempt, joining, patience, history>>

Main == NoticesStop \/ JoinNext \/ Returns

Next ==
  \/ Tick \/ CtrlC \/ Main
  \/ \E e \in Endpoint : Thread(e)

Spec == Init /\ [][Next]_vars

\* Both kinds of thread go on once they can, and no request lasts forever.
FairSpec == Spec /\ WF_vars(Main) /\ \A e \in Endpoint : WF_vars(Thread(e))

-----------------------------------------------------------------------------
(* What the poller promises.                                               *)

TypeOK ==
  /\ now \in Nat
  /\ level \in 0..BucketSize * RefillTicks /\ refilled \in 0..now
  /\ stop \in BOOLEAN /\ rateLimited \in BOOLEAN /\ answered429 \in BOOLEAN
  /\ thread \in [Endpoint -> Steps]
  /\ until \in [Endpoint -> Nat] /\ due \in [Endpoint -> Nat]
  /\ attempt \in [Endpoint -> 0..MaxRetries]
  /\ main \in {"watch", "join", "leave", "exited"}
  /\ code \in {Running, 0, Traceback, EXIT_RATE_LIMITED}
  /\ joining \in 1..Endpoints + 1 /\ patience \in Nat
  /\ grants \in Seq(Nat)
  /\ ended \in [Endpoint -> Int \X Int]
  /\ late \in [Endpoint -> Nat] /\ ctrlC \in Nat

\* rate_limit is "a budget for the whole app" (rate_limiter.py:3-7): whatever
\* the threads' timing, no window of time sees more requests than the bucket
\* holds plus what it gains in that time.
RateBound ==
  \A i, j \in DOMAIN grants : i <= j =>
    (j - i + 1) * RefillTicks <= BucketSize * RefillTicks + (grants[j] - grants[i])

\* A 429 or Ctrl-C stops every thread (poller.py:3-7): what was about to be
\* sent may still go out, once per endpoint, but nothing is tried again.
OneLateRequest == \A e \in Endpoint : late[e] <= 1

\* A thread that fell behind resyncs "instead of firing a burst of catch-up
\* requests" (poller.py:118-124): however late a round ended, only one more can
\* begin within an interval of that.
NoBurst ==
  [][\A e \in Endpoint : thread[e] \in {"offset", "sleep"} /\ thread'[e] = "acquire"
       => now - ended[e][1] >= Interval[e]]_vars

\* The exit code tells systemd what happened (poller.py:27-32): 75 only after a
\* 429, and always unless somebody pressed Ctrl-C.
ExitCodeTellsWhy ==
  main = "exited" =>
    IF ctrlC = 0 THEN code = EXIT_RATE_LIMITED /\ answered429
    ELSE code = EXIT_RATE_LIMITED => answered429

\* After a 429 or Ctrl-C the process ends, whatever its threads are at.
EndsAfterStop == (answered429 \/ ctrlC > 0) ~> main = "exited"

=============================================================================
