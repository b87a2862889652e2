---------------------------- MODULE ToolWrapper ----------------------------
(***************************************************************************)
(* execute_tool (app/tools/wrapper.py) called by several threads for one   *)
(* tool, hence over one sliding-window limiter: the registry gives every   *)
(* tool name a limiter of its own and creates it under a lock.             *)
(*                                                                         *)
(* The limiter reads the clock before it takes its lock, and the tool is   *)
(* called after the lock is released; a thread may be preempted at both    *)
(* places.  Time is discrete and kept as ages: a tick is the 50 ms that a  *)
(* waiting call sleeps at most.  `calls' holds the ages of the recorded    *)
(* clock readings, in the order of the deque, which need not be sorted.    *)
(***************************************************************************)
EXTENDS Integers, Sequences, FiniteSetsExt, Functions

CONSTANTS
  Threads,
  MaxCalls,     \* TOOL_RATE_LIMIT_MAX_CALLS
  Window,       \* TOOL_RATE_LIMIT_WINDOW_MS, in ticks
  Timeout,      \* TOOL_RATE_LIMIT_ACQUIRE_TIMEOUT_MS, in ticks
  MaxAttempts,  \* of the tool's retry policy: 1 for tools with side effects
  BackoffBase,  \* TOOL_RETRY_BACKOFF_MS, in ticks
  BackoffMax,   \* TOOL_RETRY_BACKOFF_MAX_MS, in ticks
  Preempted,    \* threads that may lose the processor inside execute_tool
  MaxLag        \* bound on the ticks they take from reading the clock to the call

ASSUME ThreadsAssumption == IsFiniteSet(Threads)
ASSUME LimiterAssumption == MaxCalls \in Nat \ {0} /\ Window \in Nat \ {0}
ASSUME PolicyAssumption == MaxAttempts \in 1..5 /\ Timeout \in Nat
ASSUME BackoffAssumption == BackoffBase \in Nat /\ BackoffMax \in Nat \ {0}
ASSUME LagAssumption == Preempted \subseteq Threads /\ MaxLag \in Nat

VARIABLES
  pc,       \* where each thread is in execute_tool
  attempt,  \* attempts
  seen,     \* ticks since it read the clock in acquire
  waited,   \* ticks since acquire started
  sleep,    \* ticks left to sleep
  invoked,  \* how often the tool was really called
  result,   \* how the last execute_tool of the thread ended
  calls,    \* _calls, as ages
  recent    \* recent[a] = calls of the tool made a ticks ago, by any thread

vars == <<pc, attempt, seen, waited, sleep, invoked, result, calls, recent>>

Places == {"idle", "clock", "lock", "full", "asleep", "granted", "running", "backoff"}
Results == {"none", "ok", "degraded", "error", "rate_limited"}

Lesser(a, b) == IF a <= b THEN a ELSE b

\* An entry is not older for any reader than Window: its age may saturate here.
OldestAge == Window + MaxLag

Init ==
  /\ pc = [t \in Threads |-> "idle"]
  /\ attempt = [t \in Threads |-> 1]
  /\ seen = [t \in Threads |-> 0]
  /\ waited = [t \in Threads |-> 0]
  /\ sleep = [t \in Threads |-> 0]
  /\ invoked = [t \in Threads |-> 0]
  /\ result = [t \in Threads |-> "none"]
  /\ calls = <<>>
  /\ recent = [a \in 0..Window-1 |-> 0]

Go(t, place) == pc' = [pc EXCEPT ![t] = place]
Return(t, r) == Go(t, "idle") /\ result' = [result EXCEPT ![t] = r]

StartCall(t) ==
  /\ pc[t] = "idle"
  /\ Go(t, "clock")
  /\ attempt' = [attempt EXCEPT ![t] = 1]
  /\ invoked' = [invoked EXCEPT ![t] = 0]
  /\ waited' = [waited EXCEPT ![t] = 0]
  /\ result' = [result EXCEPT ![t] = "none"]
  /\ UNCHANGED <<seen, sleep, calls, recent>>

\* acquire: now = time.monotonic(), before the lock.
ReadClock(t) ==
  /\ pc[t] = "clock"
  /\ Go(t, "lock")
  /\ seen' = [seen EXCEPT ![t] = 0]
  /\ UNCHANGED <<attempt, waited, sleep, invoked, result, calls, recent>>

\* Mutant: entries expire a tick before the window is over.
UnexpiredEarly(q, lag) ==
  LET live == {i \in DOMAIN q : q[i] - lag < Window - 1}
  IN  IF live = {} THEN <<>> ELSE SubSeq(q, Min(live), Len(q))

\* The deque after entries that are a window old for this reader are popped,
\* from the left and only up to the first that is not.
Unexpired(q, lag) ==
  LET live == {i \in DOMAIN q : q[i] - lag < Window}
  IN  IF live = {} THEN <<>> ELSE SubSeq(q, Min(live), Len(q))

HasRoom(q) == Len(q) < MaxCalls

\* The locked section.  A granted call records the clock it read.
Acquire(t) ==
  /\ pc[t] = "lock"
  /\ LET q == Unexpired(calls, seen[t])
     IN  IF HasRoom(q) THEN calls' = Append(q, seen[t]) /\ Go(t, "granted")
                       ELSE calls' = q /\ Go(t, "full")
  /\ UNCHANGED <<attempt, seen, waited, sleep, invoked, result, recent>>

TimedOutNever(t) == FALSE  \* mutant: acquire waits for as long as it takes
TimedOut(t) == waited[t] >= Timeout

LastAttempt(t) == attempt[t] >= MaxAttempts

\* Mutant: the limiter's refusal is retried like the tool's own RATE_LIMITED.
WaitThenRetry(t) ==
  /\ pc[t] = "full"
  /\ IF TimedOut(t) /\ LastAttempt(t)
     THEN Return(t, "rate_limited") /\ UNCHANGED <<sleep, attempt>>
     ELSE /\ Go(t, "asleep")
          /\ sleep' = [sleep EXCEPT ![t] = 1]
          /\ attempt' = [attempt EXCEPT ![t] = IF TimedOut(t) THEN @ + 1 ELSE @]
          /\ UNCHANGED result
  /\ UNCHANGED <<seen, waited, invoked, calls, recent>>

\* No slot: give up after the timeout, sleep and try again before.  The sleep
\* is the least of 50 ms, a tick, and what is left of the window and of the timeout.
Wait(t) ==
  /\ pc[t] = "full"
  /\ \/ TimedOut(t) /\ Return(t, "rate_limited") /\ UNCHANGED sleep
     \/ /\ ~TimedOut(t)
        /\ Go(t, "asleep")
        /\ \E n \in {0, 1} : sleep' = [sleep EXCEPT ![t] = n]
        /\ UNCHANGED result
  /\ UNCHANGED <<attempt, seen, waited, invoked, calls, recent>>

WakeUp(t) ==
  /\ pc[t] = "asleep"
  /\ sleep[t] = 0
  /\ Go(t, "clock")
  /\ UNCHANGED <<attempt, seen, waited, sleep, invoked, result, calls, recent>>

\* fn(**payload)
Invoke(t) ==
  /\ pc[t] = "granted"
  /\ Go(t, "running")
  /\ invoked' = [invoked EXCEPT ![t] = @ + 1]
  /\ recent' = [recent EXCEPT ![0] = @ + 1]
  /\ UNCHANGED <<attempt, seen, waited, sleep, result, calls>>

\* The powers of two for the at most five attempts of a policy.
Doubled == <<1, 2, 4, 8, 16>>
Backoff(n) == Lesser(BackoffMax, BackoffBase * Doubled[n])

\* The tool returns, or raises, which is turned into an error of one of both kinds.
Finish(t) ==
  /\ pc[t] = "running"
  /\ \/ \E r \in {"ok", "degraded", "error"} : Return(t, r) /\ UNCHANGED sleep
     \/ ~LastAttempt(t) /\ Go(t, "backoff")
        /\ sleep' = [sleep EXCEPT ![t] = Backoff(attempt[t])]
        /\ UNCHANGED result
  /\ UNCHANGED <<attempt, seen, waited, invoked, calls, recent>>

Retry(t) ==
  /\ pc[t] = "backoff"
  /\ sleep[t] = 0
  /\ Go(t, "clock")
  /\ attempt' = [attempt EXCEPT ![t] = @ + 1]
  /\ waited' = [waited EXCEPT ![t] = 0]
  /\ UNCHANGED <<seen, sleep, invoked, result, calls, recent>>

\* A tick of the clock.
Holding(t) == pc[t] \in {"lock", "granted"}
Waiting(t) == pc[t] \in {"clock", "lock", "full", "asleep"}

Tick ==
  /\ \A t \in Threads : Holding(t) => t \in Preempted /\ seen[t] < MaxLag
  /\ seen' = [t \in Threads |-> IF Holding(t) THEN seen[t] + 1 ELSE 0]
  /\ waited' = [t \in Threads |-> IF Waiting(t) THEN Lesser(Timeout, waited[t] + 1) ELSE 0]
  /\ sleep' = [t \in Threads |-> IF sleep[t] > 0 THEN sleep[t] - 1 ELSE 0]
  /\ calls' = [i \in DOMAIN calls |-> Lesser(OldestAge, calls[i] + 1)]
  /\ recent' = [a \in 0..Window-1 |-> IF a = 0 THEN 0 ELSE recent[a - 1]]
  /\ UNCHANGED <<pc, attempt, invoked, result>>

Step(t) ==
  \/ StartCall(t) \/ ReadClock(t) \/ Acquire(t) \/ Wait(t) \/ WakeUp(t)
  \/ Invoke(t) \/ Finish(t) \/ Retry(t)

Next == Tick \/ \E t \in Threads : Step(t)

Spec == Init /\ [][Next]_vars

\* The operating system runs every thread; time passes, however often a thread
\* that cannot be preempted between two places runs from one to the other (it
\* does infinitely much in no finite time); an idle thread need not call again.
FairSpec ==
  /\ Spec
  /\ SF_vars(Tick)
  /\ \A t \in Threads : WF_vars(pc[t] # "idle" /\ Step(t))

-----------------------------------------------------------------------------
(* Properties *)

\* Every variable has its type; in particular the deque never outgrows MaxCalls.
TypeOK ==
  /\ pc \in [Threads -> Places]
  /\ attempt \in [Threads -> 1..MaxAttempts]
  /\ seen \in [Threads -> 0..MaxLag]
  /\ waited \in [Threads -> 0..Timeout]
  /\ sleep \in [Threads -> Nat]
  /\ invoked \in [Threads -> 0..MaxAttempts]
  /\ result \in [Threads -> Results]
  /\ calls \in Seq(0..OldestAge) /\ Len(calls) <= MaxCalls
  /\ recent \in [0..Window-1 -> Nat]

\* Within any window the tool is called at most MaxCalls times, plus once for
\* each thread that was preempted between reading the clock and calling the
\* tool, because its call leaves the deque before it is a window old (acquire
\* reads the clock outside its lock); but with no more than MaxCalls of these
\* for every window, also one begun, that a thread may lose there, since whoever
\* pops such calls appends behind the others.
LostWindows == (MaxLag + Window - 1) \div Window
Slack == Lesser(Cardinality(Preempted), MaxCalls * LostWindows)
WindowBound == SumFunction(recent) <= MaxCalls + Slack

\* A call returns with a truthful count: the trace's attempts are the real
\* calls of the tool, plus one exactly when the limiter refused the last one.
AttemptsAreTruthful ==
  \A t \in Threads :
    /\ result[t] \in {"ok", "degraded", "error"} => invoked[t] = attempt[t]
    /\ result[t] = "rate_limited" => invoked[t] = attempt[t] - 1

\* Every call returns, however busy the limiter is kept by the other threads.
EveryCallReturns == \A t \in Threads : pc[t] # "idle" ~> pc[t] = "idle"
=============================================================================
