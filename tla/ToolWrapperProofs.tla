------------------------- MODULE ToolWrapperProofs -------------------------
(***************************************************************************)
(* Theorems about ToolWrapper, for any number of threads, any limits, any  *)
(* retry policy and any lag.                                               *)
(***************************************************************************)
EXTENDS ToolWrapper, SequenceTheorems, FiniteSetTheorems, DataLemmas, TLAPS

-----------------------------------------------------------------------------
(* The deque *)

\* A set of natural numbers that is not empty has a minimum.
LEMMA MinIsIn ==
  ASSUME NEW S \in SUBSET Nat, S # {}
  PROVE  Min(S) \in S
BY LeastNatural DEF Min

\* Popping expired entries leaves a deque that is not longer.
LEMMA UnexpiredType ==
  ASSUME NEW S, NEW q \in Seq(S), NEW lag
  PROVE  /\ Unexpired(q, lag) \in Seq(S)
         /\ Len(Unexpired(q, lag)) <= Len(q)
<1> DEFINE live == {i \in DOMAIN q : q[i] - lag < Window}
<1>1. /\ Len(q) \in Nat
      /\ DOMAIN q = 1..Len(q)
      /\ \A i \in 1..Len(q) : q[i] \in S
  BY LenProperties
<1>2. CASE live = {}
  BY <1>1, <1>2 DEF Unexpired
<1>3. CASE live # {}
  <2>1. Min(live) \in live
    <3>1. live \in SUBSET Nat
      BY <1>1
    <3> HIDE DEF live
    <3>2. QED
      BY <1>3, <3>1, MinIsIn
  <2>2. Min(live) \in 1..Len(q)
    BY <1>1, <2>1
  <2>3. Unexpired(q, lag) = SubSeq(q, Min(live), Len(q))
    BY <1>3 DEF Unexpired
  <2> HIDE DEF live
  <2>4. \A i \in Min(live)..Len(q) : q[i] \in S
    BY <1>1, <2>2
  <2>5. /\ SubSeq(q, Min(live), Len(q)) \in Seq(S)
        /\ Len(SubSeq(q, Min(live), Len(q))) = Len(q) - Min(live) + 1
    BY <1>1, <2>2, <2>4, SubSeqProperties
  <2>6. QED
    BY <1>1, <2>2, <2>3, <2>5
<1>4. QED
  BY <1>2, <1>3

\* A granted call leaves a deque of at most MaxCalls entries.
LEMMA AcquireType ==
  ASSUME TypeOK, NEW t \in Threads, Acquire(t)
  PROVE  calls' \in Seq(0..OldestAge) /\ Len(calls') <= MaxCalls
<1> DEFINE q == Unexpired(calls, seen[t])
<1>1. q \in Seq(0..OldestAge) /\ Len(q) <= MaxCalls /\ Len(q) \in Nat
  <2>1. calls \in Seq(0..OldestAge) /\ Len(calls) \in Nat /\ Len(calls) <= MaxCalls
    BY LenProperties DEF TypeOK
  <2>2. q \in Seq(0..OldestAge) /\ Len(q) <= Len(calls)
    BY <2>1, UnexpiredType
  <2>3. Len(q) \in Nat
    BY <2>2, LenProperties
  <2>4. QED
    BY <2>1, <2>2, <2>3, LimiterAssumption
<1>2. seen[t] \in 0..OldestAge
  BY LimiterAssumption, LagAssumption DEF TypeOK, OldestAge
<1>3. calls' = IF HasRoom(q) THEN Append(q, seen[t]) ELSE q
  BY DEF Acquire
<1> HIDE DEF q
<1>4. /\ Append(q, seen[t]) \in Seq(0..OldestAge)
      /\ Len(Append(q, seen[t])) = Len(q) + 1
  BY <1>1, <1>2, AppendProperties
<1>5. CASE HasRoom(q)
  <2>1. calls' = Append(q, seen[t])
    BY <1>3, <1>5
  <2>2. Len(q) + 1 <= MaxCalls
    BY <1>1, <1>5, LimiterAssumption DEF HasRoom
  <2>3. QED
    BY <1>4, <2>1, <2>2
<1>6. CASE ~HasRoom(q)
  BY <1>1, <1>3, <1>6
<1>7. QED
  BY <1>5, <1>6

\* The backoff of an attempt is a number of ticks; attempts are at most five.
LEMMA BackoffType == ASSUME NEW n \in 1..MaxAttempts PROVE Backoff(n) \in Nat
<1>1. n \in 1..5
  BY PolicyAssumption
<1>2. Doubled[n] \in Nat
  BY <1>1 DEF Doubled
<1>3. \A a, b \in Nat : a * b \in Nat
  OBVIOUS
<1>4. QED
  <2>1. BackoffBase * Doubled[n] \in Nat
    BY <1>2, <1>3, BackoffAssumption
  <2>2. \A a, b \in Nat : Lesser(a, b) \in Nat
    BY DEF Lesser
  <2>3. QED
    BY <2>1, <2>2, BackoffAssumption DEF Backoff

-----------------------------------------------------------------------------
(* The inductive invariant *)

\* Where a thread is in the loop decides how its count of real calls relates to
\* the attempt it is at, and only an idle thread has a result.
Counted(t) ==
  /\ pc[t] \in {"clock", "lock", "full", "asleep", "granted"} => invoked[t] = attempt[t] - 1
  /\ pc[t] \in {"running", "backoff"} => invoked[t] = attempt[t]
  /\ pc[t] = "backoff" => attempt[t] < MaxAttempts
  /\ pc[t] # "idle" => result[t] = "none"
  /\ result[t] \in {"ok", "degraded", "error"} => invoked[t] = attempt[t]
  /\ result[t] = "rate_limited" => invoked[t] = attempt[t] - 1

IInv == TypeOK /\ \A t \in Threads : Counted(t)

LEMMA InitIInv == Init => IInv
<1> SUFFICES ASSUME Init PROVE IInv
  OBVIOUS
<1>1. TypeOK
  BY ThreadsAssumption, LimiterAssumption, PolicyAssumption, LagAssumption
     DEF Init, TypeOK, Places, Results, OldestAge
<1>2. \A t \in Threads : Counted(t)
  BY DEF Init, Counted
<1>3. QED
  BY <1>1, <1>2 DEF IInv

\* A step of t leaves every other thread's control and counts alone.
LEMMA StepIsLocal ==
  ASSUME TypeOK, NEW t \in Threads, Step(t), NEW u \in Threads, u # t
  PROVE  /\ pc'[u] = pc[u] /\ attempt'[u] = attempt[u]
         /\ invoked'[u] = invoked[u] /\ result'[u] = result[u]
  BY DEF TypeOK, Step, StartCall, ReadClock, Acquire, Wait, WakeUp, Invoke, Finish,
         Retry, Go, Return

LEMMA StepType == ASSUME IInv, NEW t \in Threads, Step(t) PROVE TypeOK'
<1> USE DEF IInv
<1>1. CASE StartCall(t)
  BY <1>1, PolicyAssumption DEF StartCall, TypeOK, Go, Places, Results
<1>2. CASE ReadClock(t)
  BY <1>2, LagAssumption DEF ReadClock, TypeOK, Go, Places
<1>3. CASE Acquire(t)
  <2>1. calls' \in Seq(0..OldestAge) /\ Len(calls') <= MaxCalls
    BY <1>3, AcquireType
  <2>2. pc' \in [Threads -> Places]
    BY <1>3 DEF Acquire, TypeOK, Go, Places
  <2>3. QED
    BY <1>3, <2>1, <2>2 DEF Acquire, TypeOK
<1>4. CASE Wait(t)
  <2>1. pc' \in [Threads -> Places] /\ result' \in [Threads -> Results]
    BY <1>4 DEF Wait, TypeOK, Go, Return, Places, Results
  <2>2. sleep' \in [Threads -> Nat]
    <3>1. \A n \in {0, 1} : [sleep EXCEPT ![t] = n] \in [Threads -> Nat]
      BY DEF TypeOK
    <3>2. QED
      BY <1>4, <3>1 DEF Wait, TypeOK
  <2>3. QED
    BY <1>4, <2>1, <2>2 DEF Wait, TypeOK
<1>5. CASE WakeUp(t)
  BY <1>5 DEF WakeUp, TypeOK, Go, Places
<1>6. CASE Invoke(t)
  <2>1. invoked[t] + 1 \in 0..MaxAttempts
    BY <1>6, PolicyAssumption DEF Invoke, Counted, TypeOK
  <2>2. recent' \in [0..Window-1 -> Nat]
    <3>1. 0 \in 0..Window-1
      BY LimiterAssumption
    <3>2. recent \in [0..Window-1 -> Nat] /\ recent' = [recent EXCEPT ![0] = @ + 1]
      BY <1>6 DEF Invoke, TypeOK
    <3>3. recent[0] + 1 \in Nat
      BY <3>1, <3>2
    <3>4. QED
      BY <3>1, <3>2, <3>3
  <2>3. QED
    BY <1>6, <2>1, <2>2 DEF Invoke, TypeOK, Go, Places
<1>7. CASE Finish(t)
  <2>1. Backoff(attempt[t]) \in Nat
    BY BackoffType DEF TypeOK
  <2>2. sleep' \in [Threads -> Nat]
    BY <1>7, <2>1 DEF Finish, TypeOK
  <2>3. QED
    BY <1>7, <2>2 DEF Finish, TypeOK, Go, Return, Places, Results
<1>8. CASE Retry(t)
  <2>1. attempt[t] + 1 \in 1..MaxAttempts
    BY <1>8, PolicyAssumption DEF Retry, Counted, TypeOK
  <2>2. QED
    BY <1>8, <2>1, PolicyAssumption DEF Retry, TypeOK, Go, Places
<1>9. QED
  BY <1>1, <1>2, <1>3, <1>4, <1>5, <1>6, <1>7, <1>8 DEF Step

\* The step of a thread keeps its own counts.
LEMMA StepCounts == ASSUME IInv, NEW t \in Threads, Step(t) PROVE Counted(t)'
<1>1. /\ TypeOK /\ Counted(t)
      /\ attempt[t] \in 1..MaxAttempts /\ invoked[t] \in 0..MaxAttempts
  BY DEF IInv, TypeOK
<1>2. CASE StartCall(t)
  BY <1>1, <1>2 DEF StartCall, TypeOK, Counted, Go
<1>3. CASE ReadClock(t)
  BY <1>1, <1>3 DEF ReadClock, TypeOK, Counted, Go
<1>4. CASE Acquire(t)
  BY <1>1, <1>4 DEF Acquire, TypeOK, Counted, Go
<1>5. CASE Wait(t)
  BY <1>1, <1>5 DEF Wait, TypeOK, Counted, Go, Return
<1>6. CASE WakeUp(t)
  BY <1>1, <1>6 DEF WakeUp, TypeOK, Counted, Go
<1>7. CASE Invoke(t)
  BY <1>1, <1>7 DEF Invoke, TypeOK, Counted, Go
<1>8. CASE Finish(t)
  BY <1>1, <1>8, PolicyAssumption DEF Finish, TypeOK, Counted, Go, Return, LastAttempt
<1>9. CASE Retry(t)
  BY <1>1, <1>9 DEF Retry, TypeOK, Counted, Go
<1>10. QED
  BY <1>2, <1>3, <1>4, <1>5, <1>6, <1>7, <1>8, <1>9 DEF Step

\* Time passing keeps the types and touches no control and no count.
LEMMA TickType == ASSUME TypeOK, Tick PROVE TypeOK'
<1>1. seen' \in [Threads -> 0..MaxLag]
  BY LagAssumption DEF Tick, TypeOK
<1>2. waited' \in [Threads -> 0..Timeout]
  BY PolicyAssumption DEF Tick, TypeOK, Lesser
<1>3. sleep' \in [Threads -> Nat]
  BY DEF Tick, TypeOK
<1>4. calls' \in Seq(0..OldestAge) /\ Len(calls') <= MaxCalls
  <2>1. /\ Len(calls) \in Nat /\ DOMAIN calls = 1..Len(calls)
        /\ \A i \in 1..Len(calls) : calls[i] \in 0..OldestAge
    <3>1. calls \in Seq(0..OldestAge)
      BY DEF TypeOK
    <3> HIDE DEF OldestAge
    <3>2. QED
      BY <3>1, LenProperties
  <2>2. OldestAge \in Nat
    BY LimiterAssumption, LagAssumption DEF OldestAge
  <2>3. \A i \in 1..Len(calls) : Lesser(OldestAge, calls[i] + 1) \in 0..OldestAge
    BY <2>1, <2>2 DEF Lesser
  <2>4. calls' = [i \in 1..Len(calls) |-> Lesser(OldestAge, calls[i] + 1)]
    BY <2>1 DEF Tick
  <2> HIDE DEF OldestAge
  <2>5. calls' \in [1..Len(calls) -> 0..OldestAge]
    BY <2>3, <2>4
  <2>6. calls' \in Seq(0..OldestAge) /\ Len(calls') = Len(calls)
    BY <2>1, <2>4, <2>5
  <2>7. QED
    BY <2>6 DEF TypeOK
<1>5. recent' \in [0..Window-1 -> Nat]
  BY LimiterAssumption DEF Tick, TypeOK
<1>6. QED
  BY <1>1, <1>2, <1>3, <1>4, <1>5 DEF Tick, TypeOK

LEMMA NextIInv == IInv /\ [Next]_vars => IInv'
<1> SUFFICES ASSUME IInv, [Next]_vars PROVE IInv'
  OBVIOUS
<1>1. ASSUME NEW t \in Threads, Step(t) PROVE IInv'
  <2>1. TypeOK'
    BY <1>1, StepType
  <2>2. ASSUME NEW u \in Threads PROVE Counted(u)'
    <3>1. CASE u = t
      BY <1>1, <3>1, StepCounts
    <3>2. CASE u # t
      <4>1. /\ pc'[u] = pc[u] /\ attempt'[u] = attempt[u]
            /\ invoked'[u] = invoked[u] /\ result'[u] = result[u]
        BY <1>1, <3>2, StepIsLocal DEF IInv
      <4>2. QED
        BY <4>1 DEF IInv, Counted
    <3>3. QED
      BY <3>1, <3>2
  <2>3. QED
    BY <2>1, <2>2 DEF IInv
<1>2. CASE Tick
  <2>1. TypeOK'
    BY <1>2, TickType DEF IInv
  <2>2. \A u \in Threads : Counted(u)'
    BY <1>2 DEF IInv, Counted, Tick
  <2>3. QED
    BY <2>1, <2>2 DEF IInv
<1>3. CASE UNCHANGED vars
  BY <1>3 DEF vars, IInv, TypeOK, Counted
<1>4. QED
  BY <1>1, <1>2, <1>3 DEF Next

-----------------------------------------------------------------------------
(* Types and counts *)

\* Every variable has its type in every reachable state; in particular no
\* interleaving of acquire makes the deque outgrow max_calls.
THEOREM TypeCorrect == Spec => []TypeOK
<1>1. IInv => TypeOK
  BY DEF IInv
<1>2. QED
  BY InitIInv, NextIInv, <1>1, PTL DEF Spec

\* The attempts in a trace of execute_tool are the real calls of the tool, plus
\* one exactly when the limiter refused the last one.
THEOREM TracesAreTruthful == Spec => []AttemptsAreTruthful
<1>1. IInv => AttemptsAreTruthful
  BY DEF IInv, Counted, AttemptsAreTruthful
<1>2. QED
  BY InitIInv, NextIInv, <1>1, PTL DEF Spec

-----------------------------------------------------------------------------
(* The deque after a step *)

\* The first m - 1 entries expired; the others move up.
LEMMA UnexpiredDrops ==
  ASSUME NEW S, NEW q \in Seq(S), NEW lag
  PROVE  \E m \in 1..Len(q)+1 :
           /\ Len(Unexpired(q, lag)) = Len(q) - m + 1
           /\ \A i \in m..Len(q) : Unexpired(q, lag)[i - m + 1] = q[i]
           /\ \A i \in 1..m-1 : ~(q[i] - lag < Window)
<1> DEFINE live == {i \in DOMAIN q : q[i] - lag < Window}
<1>1. /\ Len(q) \in Nat /\ DOMAIN q = 1..Len(q)
      /\ \A i \in 1..Len(q) : q[i] \in S
  BY LenProperties
<1>2. CASE live = {}
  <2>1. Unexpired(q, lag) = <<>>
    BY <1>2 DEF Unexpired
  <2>2. Len(Unexpired(q, lag)) = Len(q) - (Len(q) + 1) + 1
    BY <1>1, <2>1
  <2>3. \A i \in 1..Len(q) : ~(q[i] - lag < Window)
    BY <1>1, <1>2
  <2>4. /\ Len(q) + 1 \in 1..Len(q)+1 /\ (Len(q) + 1)..Len(q) = {}
        /\ 1..(Len(q)+1)-1 = 1..Len(q)
    BY <1>1
  <2>5. QED
    BY <2>2, <2>3, <2>4
<1>3. CASE live # {}
  <2>1. live \in SUBSET Nat
    BY <1>1
  <2>2. PICK m \in live : \A i \in live : m <= i
    <3> HIDE DEF live
    <3>1. QED
      BY <1>3, <2>1, LeastNatural
  <2>3. Min(live) = m
    <3>1. \A k \in live : (\A i \in live : k <= i) => k = m
      BY <2>1, <2>2
    <3> HIDE DEF live
    <3>2. QED
      BY <2>2, <3>1 DEF Min
  <2>4. m \in 1..Len(q)
    BY <1>1, <2>2
  <2>5. Unexpired(q, lag) = SubSeq(q, m, Len(q))
    BY <1>3, <2>3 DEF Unexpired
  <2>6. \A i \in 1..m-1 : ~(q[i] - lag < Window)
    BY <1>1, <2>2, <2>4
  <2> HIDE DEF live
  <2>7. /\ Len(SubSeq(q, m, Len(q))) = Len(q) - m + 1
        /\ \A i \in 1..Len(q)-m+1 : SubSeq(q, m, Len(q))[i] = q[m + i - 1]
    <3>1. \A i \in m..Len(q) : q[i] \in S
      BY <1>1, <2>4
    <3>2. QED
      BY <1>1, <2>4, <3>1, SubSeqProperties
  <2>8. \A i \in m..Len(q) : i - m + 1 \in 1..Len(q)-m+1 /\ m + (i - m + 1) - 1 = i
    BY <1>1, <2>4
  <2>9. \A i \in m..Len(q) : Unexpired(q, lag)[i - m + 1] = q[i]
    BY <2>5, <2>7, <2>8
  <2>10. QED
    BY <1>1, <2>4, <2>5, <2>6, <2>7, <2>9
<1>4. QED
  BY <1>2, <1>3

\* A call that finds no slot leaves the deque as it was; one that is granted drops
\* entries a window older than its own reading and appends that.
LEMMA AcquireDeque ==
  ASSUME TypeOK, NEW t \in Threads, Acquire(t)
  PROVE  \/ /\ pc'[t] = "full" /\ Len(calls') = Len(calls)
            /\ \A i \in 1..Len(calls) : calls'[i] = calls[i]
         \/ /\ pc'[t] = "granted" /\ calls'[Len(calls')] = seen[t]
            /\ \E m \in 1..Len(calls)+1 :
                 /\ Len(calls') = Len(calls) - m + 2
                 /\ \A i \in m..Len(calls) : calls'[i - m + 1] = calls[i]
                 /\ \A i \in 1..m-1 : ~(calls[i] - seen[t] < Window)
<1> DEFINE q == Unexpired(calls, seen[t])
<1>1. /\ calls \in Seq(0..OldestAge) /\ Len(calls) \in Nat /\ Len(calls) <= MaxCalls
      /\ seen[t] \in 0..OldestAge /\ pc[t] = "lock"
  BY LenProperties, LimiterAssumption, LagAssumption DEF TypeOK, OldestAge, Acquire
<1>2. PICK m \in 1..Len(calls)+1 :
        /\ Len(q) = Len(calls) - m + 1
        /\ \A i \in m..Len(calls) : q[i - m + 1] = calls[i]
        /\ \A i \in 1..m-1 : ~(calls[i] - seen[t] < Window)
  BY <1>1, UnexpiredDrops
<1>3. q \in Seq(0..OldestAge)
  BY <1>1, UnexpiredType
<1>4. \/ HasRoom(q) /\ calls' = Append(q, seen[t]) /\ Go(t, "granted")
      \/ ~HasRoom(q) /\ calls' = q /\ Go(t, "full")
  BY DEF Acquire
<1> HIDE DEF q
<1>5. CASE HasRoom(q) /\ calls' = Append(q, seen[t]) /\ Go(t, "granted")
  <2>1. /\ Len(calls') = Len(q) + 1 /\ calls'[Len(q) + 1] = seen[t]
        /\ \A i \in 1..Len(q) : calls'[i] = q[i]
    BY <1>1, <1>3, <1>5, AppendProperties
  <2>2. \A i \in m..Len(calls) : i - m + 1 \in 1..Len(q)
    BY <1>1, <1>2
  <2>3. \A i \in m..Len(calls) : calls'[i - m + 1] = calls[i]
    BY <1>2, <2>1, <2>2
  <2>4. Len(calls') = Len(calls) - m + 2 /\ calls'[Len(calls')] = seen[t]
    BY <1>1, <1>2, <2>1
  <2>5. pc'[t] = "granted"
    BY <1>5 DEF Go, TypeOK
  <2>6. QED
    BY <1>2, <2>3, <2>4, <2>5
<1>6. CASE ~HasRoom(q) /\ calls' = q /\ Go(t, "full")
  <2>1. m = 1
    BY <1>1, <1>2, <1>6, LimiterAssumption DEF HasRoom
  <2>2. \A i \in 1..Len(calls) : i - m + 1 = i
    BY <1>1, <2>1
  <2>3. Len(calls') = Len(calls) /\ \A i \in 1..Len(calls) : calls'[i] = calls[i]
    BY <1>1, <1>2, <1>6, <2>1, <2>2
  <2>4. pc'[t] = "full"
    BY <1>6 DEF Go, TypeOK
  <2>5. QED
    BY <2>3, <2>4
<1>7. QED
  BY <1>4, <1>5, <1>6

LEMMA TickDeque ==
  ASSUME TypeOK, Tick
  PROVE  /\ Len(calls') = Len(calls)
         /\ \A i \in 1..Len(calls) : calls'[i] = Lesser(OldestAge, calls[i] + 1)
<1>1. DOMAIN calls = 1..Len(calls) /\ Len(calls) \in Nat
  BY LenProperties DEF TypeOK
<1>2. calls' = [i \in 1..Len(calls) |-> Lesser(OldestAge, calls[i] + 1)]
  BY <1>1 DEF Tick
<1>3. calls' \in Seq(0..OldestAge)
  BY TickType DEF TypeOK
<1>4. DOMAIN calls' = 1..Len(calls') /\ Len(calls') \in Nat
  BY <1>3, LenProperties
<1>5. 1..Len(calls') = 1..Len(calls)
  BY <1>2, <1>4
<1>6. QED
  BY <1>1, <1>2, <1>4, <1>5

-----------------------------------------------------------------------------
(* Who is between the clock and the call *)

Granted(x) == {t \in Threads : pc[t] = "granted" /\ seen[t] <= x}
Late(a) == {t \in Threads : Holding(t) /\ seen[t] > a}
Since(a) == SumFunctionOnSet(recent, 0..a)
Recorded(a) == {i \in DOMAIN calls : calls[i] <= a}

LEMMA SinceType ==
  ASSUME NEW r \in [0..Window-1 -> Nat], NEW a \in Int, a < Window
  PROVE  /\ IsFiniteSet(0..a)
         /\ \A i \in 0..a : r[i] \in Int
         /\ SumFunctionOnSet(r, 0..a) \in Nat
         /\ a < 0 => SumFunctionOnSet(r, 0..a) = 0
<1>1. IsFiniteSet(0..a)
  BY SegmentsAreFinite
<1>2. \A i \in 0..a : r[i] \in Nat
  BY LimiterAssumption
<1>3. SumFunctionOnSet(r, 0..a) \in Nat
  BY <1>1, <1>2, SumType
<1>4. ASSUME a < 0 PROVE SumFunctionOnSet(r, 0..a) = 0
  <2>1. 0..a = {}
    BY <1>4
  <2>2. QED
    BY <2>1, SumOfNone
<1>5. QED
  BY <1>1, <1>2, <1>3, <1>4

LEMMA HoldersAreFinite ==
  /\ Cardinality(Threads) \in Nat /\ Cardinality(Preempted) \in Nat
  /\ \A S \in SUBSET Threads : IsFiniteSet(S) /\ Cardinality(S) \in Nat
  /\ \A S \in SUBSET Preempted : Cardinality(S) <= Cardinality(Preempted)
BY ThreadsAssumption, LagAssumption, FS_Subset, FS_CardinalityType

LEMMA RecordedIsFinite ==
  ASSUME NEW S, NEW q \in Seq(S), NEW R \in SUBSET (DOMAIN q)
  PROVE  IsFiniteSet(R) /\ Cardinality(R) \in Nat /\ Cardinality(R) <= Len(q)
<1>1. DOMAIN q = 1..Len(q) /\ Len(q) \in Nat
  BY LenProperties
<1>2. IsFiniteSet(1..Len(q)) /\ Cardinality(1..Len(q)) = Len(q)
  <2>1. \A n \in Nat : IsFiniteSet(1..n) /\ Cardinality(1..n) = IF 1 > n THEN 0 ELSE n - 1 + 1
    BY FS_Interval
  <2>2. \A n \in Nat : (IF 1 > n THEN 0 ELSE n - 1 + 1) = n
    OBVIOUS
  <2>3. QED
    BY <1>1, <2>1, <2>2
<1>3. QED
  BY <1>1, <1>2, FS_Subset, FS_CardinalityType

\* The steps that neither grant, nor call, nor leave a thread with an old reading.
LEMMA QuietSteps ==
  ASSUME TypeOK, NEW t \in Threads,
         \/ StartCall(t) \/ ReadClock(t) \/ Wait(t) \/ WakeUp(t) \/ Finish(t) \/ Retry(t)
  PROVE  /\ UNCHANGED <<calls, recent>>
         /\ \A x \in Nat : Granted(x)' = Granted(x) /\ Late(x)' = Late(x)
<1>1. UNCHANGED <<calls, recent>>
  BY DEF StartCall, ReadClock, Wait, WakeUp, Finish, Retry
<1>2. \A u \in Threads \ {t} : pc'[u] = pc[u] /\ seen'[u] = seen[u]
  BY DEF TypeOK, StartCall, ReadClock, Wait, WakeUp, Finish, Retry, Go, Return
<1>3. ~Holding(t) /\ pc'[t] # "granted" /\ (pc'[t] = "lock" => seen'[t] = 0)
  BY DEF TypeOK, StartCall, ReadClock, Wait, WakeUp, Finish, Retry, Go, Return, Holding
<1>4. ASSUME NEW x \in Nat PROVE Granted(x)' = Granted(x) /\ Late(x)' = Late(x)
  <2>1. \A u \in Threads : u \in Granted(x)' <=> u \in Granted(x)
    BY <1>2, <1>3 DEF Granted, Holding
  <2>2. ~(0 > x)
    OBVIOUS
  <2>3. \A u \in Threads : u \in Late(x)' <=> u \in Late(x)
    BY <1>2, <1>3, <2>2 DEF Late, Holding
  <2>4. QED
    BY <2>1, <2>3 DEF Granted, Late
<1>5. QED
  BY <1>1, <1>4

\* An invocation removes its thread from those that are yet to call and adds one
\* to the recent calls.
LEMMA InvokeCounts ==
  ASSUME TypeOK, NEW t \in Threads, Invoke(t)
  PROVE  /\ calls' = calls /\ t \in Granted(seen[t]) /\ seen[t] \in 0..MaxLag
         /\ \A x \in Nat : Granted(x)' = Granted(x) \ {t} /\ Late(x)' = Late(x) \ {t}
         /\ \A a \in Int : a < Window =>
              Since(a)' = IF a < 0 THEN Since(a) ELSE Since(a) + 1
<1>1. /\ calls' = calls /\ pc[t] = "granted" /\ seen[t] \in 0..MaxLag /\ seen' = seen
      /\ pc' = [pc EXCEPT ![t] = "running"]
  BY DEF Invoke, TypeOK, Go
<1>2. t \in Granted(seen[t])
  BY <1>1, LagAssumption DEF Granted
<1>3. ASSUME NEW x \in Nat
      PROVE Granted(x)' = Granted(x) \ {t} /\ Late(x)' = Late(x) \ {t}
  <2>1. pc'[t] = "running" /\ \A u \in Threads \ {t} : pc'[u] = pc[u]
    BY <1>1 DEF TypeOK
  <2>2. QED
    BY <1>1, <2>1 DEF Granted, Late, Holding
<1>4. ASSUME NEW a \in Int, a < Window
      PROVE  Since(a)' = IF a < 0 THEN Since(a) ELSE Since(a) + 1
  <2>1. recent \in [0..Window-1 -> Nat] /\ recent' = [recent EXCEPT ![0] = @ + 1]
    BY DEF TypeOK, Invoke
  <2>2. recent' \in [0..Window-1 -> Nat]
    BY <2>1, LimiterAssumption
  <2>3. CASE a < 0
    <3>1. SumFunctionOnSet(recent, 0..a) = 0 /\ SumFunctionOnSet(recent', 0..a) = 0
      BY <1>4, <2>1, <2>2, <2>3, SinceType
    <3>2. QED
      BY <2>3, <3>1 DEF Since
  <2>4. CASE a >= 0
    <3>1. 0 \in 0..a /\ 0..a \subseteq 0..Window-1
      BY <1>4, <2>4, LimiterAssumption
    <3>2. recent'[0] = recent[0] + 1 /\ \A i \in (0..a) \ {0} : recent'[i] = recent[i]
      BY <2>1, <3>1
    <3>3. IsFiniteSet(0..a) /\ \A i \in 0..a : recent[i] \in Int
      BY <1>4, <2>1, SinceType
    <3>4. SumFunctionOnSet(recent', 0..a) = SumFunctionOnSet(recent, 0..a) + 1
      BY <3>1, <3>2, <3>3, SumIncrement
    <3>5. QED
      BY <2>4, <3>4 DEF Since
  <2>5. QED
    BY <2>3, <2>4
<1>5. QED
  BY <1>1, <1>2, <1>3, <1>4

\* A tick makes everything one older.
LEMMA TickShifts ==
  ASSUME TypeOK, Tick
  PROVE  /\ \A x \in Nat \ {0} : Granted(x)' = Granted(x - 1) /\ Late(x)' = Late(x - 1)
         /\ Granted(0)' = {} /\ Late(0)' \subseteq Preempted
         /\ \A a \in Int : a < Window => Since(a)' = Since(a - 1)
<1>1. ASSUME NEW x \in Nat \ {0}
      PROVE  Granted(x)' = Granted(x - 1) /\ Late(x)' = Late(x - 1)
  <2>1. \A u \in Threads : /\ pc'[u] = pc[u] /\ seen[u] \in Nat
                           /\ Holding(u) => seen'[u] = seen[u] + 1
    BY LagAssumption DEF Tick, TypeOK
  <2>2. \A u \in Threads : u \in Granted(x)' <=> u \in Granted(x - 1)
    BY <2>1 DEF Granted, Holding
  <2>3. \A u \in Threads : u \in Late(x)' <=> u \in Late(x - 1)
    BY <2>1 DEF Late, Holding
  <2>4. QED
    BY <2>2, <2>3 DEF Granted, Late
<1>2. Granted(0)' = {} /\ Late(0)' \subseteq Preempted
  <2>1. \A u \in Threads : /\ pc'[u] = pc[u] /\ seen[u] \in Nat
                           /\ Holding(u) => seen'[u] = seen[u] + 1 /\ u \in Preempted
    BY LagAssumption DEF Tick, TypeOK
  <2>2. QED
    BY <2>1 DEF Granted, Late, Holding
<1>3. ASSUME NEW a \in Int, a < Window PROVE Since(a)' = Since(a - 1)
  <2>1. /\ recent \in [0..Window-1 -> Nat] /\ recent' \in [0..Window-1 -> Nat]
        /\ \A i \in 0..Window-1 : recent'[i] = IF i = 0 THEN 0 ELSE recent[i - 1]
    BY TickType DEF TypeOK, Tick
  <2>2. CASE a < 0
    <3>1. a - 1 \in Int /\ a - 1 < 0 /\ a - 1 < Window
      BY <1>3, <2>2, LimiterAssumption
    <3>2. SumFunctionOnSet(recent, 0..a-1) = 0 /\ SumFunctionOnSet(recent', 0..a) = 0
      BY <1>3, <2>1, <2>2, <3>1, SinceType
    <3>3. QED
      BY <3>2 DEF Since
  <2>3. CASE a >= 0
    <3>1. a \in Nat /\ recent'[0] = 0 /\ \A i \in 1..a : recent'[i] = recent[i - 1]
      BY <1>3, <2>1, <2>3, LimiterAssumption
    <3>2. \A i \in 0..a : recent[i] \in Int
      BY <1>3, <2>1, SinceType
    <3>3. SumFunctionOnSet(recent', 0..a) = SumFunctionOnSet(recent, 0..a-1)
      BY <3>1, <3>2, SumShift
    <3>4. QED
      BY <3>3 DEF Since
  <2>4. QED
    BY <2>2, <2>3
<1>4. QED
  BY <1>1, <1>2, <1>3

\* Who finds no slot holds no longer; who is granted one is yet to call.
LEMMA AcquireCounts ==
  ASSUME TypeOK, NEW t \in Threads, Acquire(t)
  PROVE  /\ recent' = recent /\ pc'[t] \in {"granted", "full"}
         /\ \A x \in Nat :
              /\ t \notin Granted(x)
              /\ pc'[t] = "full" => Granted(x)' = Granted(x) /\ Late(x)' \subseteq Late(x)
              /\ pc'[t] = "granted" => Late(x)' = Late(x)
              /\ pc'[t] = "granted" /\ seen[t] <= x => Granted(x)' = Granted(x) \union {t}
              /\ pc'[t] = "granted" /\ ~(seen[t] <= x) => Granted(x)' = Granted(x)
<1>1. /\ recent' = recent /\ seen' = seen /\ pc[t] = "lock"
      /\ \A u \in Threads \ {t} : pc'[u] = pc[u]
  BY DEF Acquire, Go, TypeOK
<1>2. pc'[t] \in {"granted", "full"}
  BY AcquireDeque
<1>3. ASSUME NEW x \in Nat
      PROVE  /\ t \notin Granted(x)
             /\ pc'[t] = "full" => Granted(x)' = Granted(x) /\ Late(x)' \subseteq Late(x)
             /\ pc'[t] = "granted" => Late(x)' = Late(x)
             /\ pc'[t] = "granted" /\ seen[t] <= x => Granted(x)' = Granted(x) \union {t}
             /\ pc'[t] = "granted" /\ ~(seen[t] <= x) => Granted(x)' = Granted(x)
  <2>1. t \notin Granted(x)
    BY <1>1 DEF Granted
  <2>2. CASE pc'[t] = "full"
    BY <1>1, <2>1, <2>2 DEF Granted, Late, Holding
  <2>3. CASE pc'[t] = "granted"
    <3>1. \A u \in Threads : u \in Late(x)' <=> u \in Late(x)
      BY <1>1, <2>3 DEF Late, Holding
    <3>2. \A u \in Threads \ {t} : u \in Granted(x)' <=> u \in Granted(x)
      BY <1>1, <2>3 DEF Granted
    <3>3. t \in Granted(x)' <=> seen[t] <= x
      BY <1>1, <2>3 DEF Granted
    <3>4. /\ Granted(x) \subseteq Threads /\ Granted(x)' \subseteq Threads
          /\ Late(x) \subseteq Threads /\ Late(x)' \subseteq Threads
      BY DEF Granted, Late
    <3>5. QED
      BY <2>1, <2>3, <3>1, <3>2, <3>3, <3>4
  <2>4. QED
    BY <1>2, <2>1, <2>2, <2>3
<1>4. QED
  BY <1>1, <1>2, <1>3

\* What is younger than a window is not popped by anybody, so it stays recorded.
LEMMA AcquireRecords ==
  ASSUME TypeOK, NEW t \in Threads, Acquire(t), NEW a \in 0..Window-1
  PROVE  /\ Cardinality(Recorded(a)) <= Cardinality(Recorded(a)')
         /\ pc'[t] = "granted" /\ seen[t] <= a =>
              Cardinality(Recorded(a)) + 1 <= Cardinality(Recorded(a)')
<1>1. /\ calls \in Seq(0..OldestAge) /\ calls' \in Seq(0..OldestAge) /\ seen[t] \in Nat
      /\ Recorded(a) \in SUBSET (DOMAIN calls) /\ Recorded(a)' \in SUBSET (DOMAIN calls')
  BY AcquireType, LagAssumption DEF TypeOK, Recorded
<1>2. /\ Len(calls) \in Nat /\ DOMAIN calls = 1..Len(calls)
      /\ Len(calls') \in Nat /\ DOMAIN calls' = 1..Len(calls')
      /\ \A i \in 1..Len(calls) : calls[i] \in Nat
  <2>1. OldestAge \in Nat
    BY LimiterAssumption, LagAssumption DEF OldestAge
  <2> HIDE DEF OldestAge
  <2>2. QED
    BY <1>1, <2>1, LenProperties
<1>3. /\ IsFiniteSet(Recorded(a)) /\ Cardinality(Recorded(a)) \in Nat
      /\ IsFiniteSet(Recorded(a)') /\ Cardinality(Recorded(a)') \in Nat
  BY <1>1, RecordedIsFinite
<1>4. CASE pc'[t] = "full"
  <2>1. Len(calls') = Len(calls) /\ \A i \in 1..Len(calls) : calls'[i] = calls[i]
    BY <1>4, AcquireDeque
  <2>2. Recorded(a)' = Recorded(a)
    BY <1>2, <2>1 DEF Recorded
  <2>3. QED
    BY <1>3, <1>4, <2>2
<1>5. CASE pc'[t] = "granted"
  <2>1. PICK m \in 1..Len(calls)+1 :
          /\ Len(calls') = Len(calls) - m + 2
          /\ \A i \in m..Len(calls) : calls'[i - m + 1] = calls[i]
          /\ \A i \in 1..m-1 : ~(calls[i] - seen[t] < Window)
    BY <1>5, AcquireDeque
  <2>2. calls'[Len(calls')] = seen[t]
    BY <1>5, AcquireDeque
  <2> DEFINE n == Len(calls')
             f == [i \in Recorded(a) |-> i - m + 1]
             R == Recorded(a)' \ {n}
  <2>3. ASSUME NEW i \in Recorded(a) PROVE i \in m..Len(calls) /\ f[i] \in R
    <3>1. i \in 1..Len(calls) /\ calls[i] <= a /\ calls[i] \in Nat
      BY <1>2 DEF Recorded
    <3>2. calls[i] - seen[t] < Window
      BY <1>1, <3>1, LimiterAssumption
    <3>3. i \in m..Len(calls)
      BY <1>2, <2>1, <3>1, <3>2
    <3>4. i - m + 1 \in 1..n /\ i - m + 1 # n /\ calls'[i - m + 1] <= a
      BY <1>2, <2>1, <3>1, <3>3
    <3>5. QED
      BY <1>2, <3>3, <3>4 DEF Recorded
  <2>4. f \in Injection(Recorded(a), R)
    <3>1. f \in [Recorded(a) -> R]
      BY <2>3
    <3>2. \A i, j \in Recorded(a) : f[i] = f[j] => i = j
      BY <1>2, <2>1, <2>3
    <3>3. QED
      BY <3>1, <3>2 DEF Injection, IsInjective
  <2>5. IsFiniteSet(R) /\ Cardinality(R) \in Nat
        /\ Cardinality(R) = IF n \in Recorded(a)' THEN Cardinality(Recorded(a)') - 1
                                                 ELSE Cardinality(Recorded(a)')
    BY <1>3, FS_RemoveElement, FS_CardinalityType
  <2> HIDE DEF f, R
  <2>6. Cardinality(Recorded(a)) <= Cardinality(R)
    BY <2>4, <2>5, FS_Injection
  <2>7. seen[t] <= a => n \in Recorded(a)'
    <3>1. n \in DOMAIN calls'
      BY <1>2, <2>1
    <3>2. QED
      BY <2>2, <3>1 DEF Recorded
  <2>8. QED
    BY <1>3, <2>5, <2>6, <2>7
<1>6. QED
  BY <1>4, <1>5, AcquireDeque

-----------------------------------------------------------------------------
(* The calls of a window, by those who lost the processor *)

\* The calls made in the last a ticks, and those yet to be made, are recorded in
\* the deque with an age up to a, but for those of threads that have lost the
\* processor where they hold a reading that is older.
Straddles(a) ==
  Since(a) + Cardinality(Granted(a)) + Cardinality(Late(a))
    <= Cardinality(Recorded(a)) + Cardinality(Preempted)

Straddling == \A a \in 0..Window-1 : Straddles(a)

LEMMA CountTypes ==
  ASSUME TypeOK, NEW a \in Nat, a < Window
  PROVE  /\ Since(a) \in Nat
         /\ IsFiniteSet(Granted(a)) /\ Cardinality(Granted(a)) \in Nat
         /\ IsFiniteSet(Late(a)) /\ Cardinality(Late(a)) \in Nat
         /\ Cardinality(Recorded(a)) \in Nat /\ Cardinality(Recorded(a)) <= MaxCalls
<1>1. Since(a) \in Nat
  <2>1. recent \in [0..Window-1 -> Nat] /\ a \in Int
    BY DEF TypeOK
  <2>2. QED
    BY <2>1, SinceType DEF Since
<1>2. /\ IsFiniteSet(Granted(a)) /\ Cardinality(Granted(a)) \in Nat
      /\ IsFiniteSet(Late(a)) /\ Cardinality(Late(a)) \in Nat
  <2>1. Granted(a) \in SUBSET Threads /\ Late(a) \in SUBSET Threads
    BY DEF Granted, Late
  <2>2. QED
    BY <2>1, HoldersAreFinite
<1>3. Cardinality(Recorded(a)) \in Nat /\ Cardinality(Recorded(a)) <= MaxCalls
  <2>1. calls \in Seq(0..OldestAge) /\ Len(calls) \in Nat /\ Len(calls) <= MaxCalls
    BY LenProperties DEF TypeOK
  <2>2. Recorded(a) \in SUBSET (DOMAIN calls)
    BY DEF Recorded
  <2>3. Cardinality(Recorded(a)) \in Nat /\ Cardinality(Recorded(a)) <= Len(calls)
    BY <2>1, <2>2, RecordedIsFinite
  <2>4. QED
    BY <2>1, <2>3, LimiterAssumption
<1>4. QED
  BY <1>1, <1>2, <1>3

LEMMA InvokeStraddles ==
  ASSUME TypeOK, NEW t \in Threads, Invoke(t), NEW a \in 0..Window-1, Straddles(a)
  PROVE  Straddles(a)'
<1>1. /\ a \in Nat /\ a \in Int /\ a < Window /\ ~(a < 0)
      /\ seen[t] \in Nat /\ pc[t] = "granted"
  BY LimiterAssumption, LagAssumption DEF TypeOK, Invoke
<1>2. /\ Since(a)' = Since(a) + 1 /\ calls' = calls
      /\ Granted(a)' = Granted(a) \ {t} /\ Late(a)' = Late(a) \ {t}
  BY <1>1, InvokeCounts
<1>3. Recorded(a)' = Recorded(a)
  BY <1>2 DEF Recorded
<1>4. t \in Granted(a) <=> t \notin Late(a)
  BY <1>1 DEF Granted, Late, Holding
<1>5. /\ Cardinality(Granted(a)') = IF t \in Granted(a) THEN Cardinality(Granted(a)) - 1
                                                       ELSE Cardinality(Granted(a))
      /\ Cardinality(Late(a)') = IF t \in Late(a) THEN Cardinality(Late(a)) - 1
                                                 ELSE Cardinality(Late(a))
  BY <1>1, <1>2, CountTypes, FS_RemoveElement
<1>6. Cardinality(Granted(a)') + Cardinality(Late(a)') = Cardinality(Granted(a)) + Cardinality(Late(a)) - 1
  BY <1>1, <1>4, <1>5, CountTypes
<1>7. /\ Since(a) \in Nat /\ Cardinality(Granted(a)) \in Nat /\ Cardinality(Late(a)) \in Nat
      /\ Cardinality(Granted(a)') \in Int /\ Cardinality(Late(a)') \in Int
  BY <1>1, <1>5, CountTypes
<1>8. QED
  BY <1>2, <1>3, <1>6, <1>7 DEF Straddles

LEMMA AcquireStraddles ==
  ASSUME TypeOK, NEW t \in Threads, Acquire(t), NEW a \in 0..Window-1, Straddles(a), TypeOK'
  PROVE  Straddles(a)'
<1>1. a \in Nat /\ a < Window
  BY LimiterAssumption
<1>2. /\ Since(a) \in Nat /\ Cardinality(Granted(a)) \in Nat /\ Cardinality(Late(a)) \in Nat
      /\ IsFiniteSet(Granted(a)) /\ IsFiniteSet(Late(a))
      /\ Cardinality(Recorded(a)) \in Nat /\ Cardinality(Preempted) \in Nat
  BY <1>1, CountTypes, HoldersAreFinite
<1>3. Since(a)' = Since(a)
  BY AcquireCounts DEF Since
<1>4. Cardinality(Recorded(a)') \in Nat
  <2>1. calls' \in Seq(0..OldestAge)
    BY DEF TypeOK
  <2>2. Recorded(a)' \in SUBSET (DOMAIN calls')
    BY DEF Recorded
  <2>3. QED
    BY <2>1, <2>2, RecordedIsFinite
<1>5. CASE pc'[t] = "full"
  <2>1. Granted(a)' = Granted(a) /\ Late(a)' \subseteq Late(a)
    BY <1>1, <1>5, AcquireCounts
  <2>2. Cardinality(Late(a)') \in Nat /\ Cardinality(Late(a)') <= Cardinality(Late(a))
    BY <1>2, <2>1, FS_Subset, FS_CardinalityType
  <2>3. Cardinality(Recorded(a)) <= Cardinality(Recorded(a)')
    BY AcquireRecords
  <2>4. Cardinality(Granted(a)') = Cardinality(Granted(a))
    BY <2>1
  <2>5. QED
    BY <1>2, <1>3, <1>4, <2>2, <2>3, <2>4 DEF Straddles
<1>6. CASE pc'[t] = "granted" /\ seen[t] <= a
  <2>1. Granted(a)' = Granted(a) \union {t} /\ t \notin Granted(a) /\ Late(a)' = Late(a)
    BY <1>1, <1>6, AcquireCounts
  <2>2. Cardinality(Granted(a)') = Cardinality(Granted(a)) + 1
    BY <1>2, <2>1, FS_AddElement
  <2>3. Cardinality(Recorded(a)) + 1 <= Cardinality(Recorded(a)')
    BY <1>6, AcquireRecords
  <2>4. Cardinality(Late(a)') = Cardinality(Late(a))
    BY <2>1
  <2>5. QED
    BY <1>2, <1>3, <1>4, <2>2, <2>3, <2>4 DEF Straddles
<1>7. CASE pc'[t] = "granted" /\ ~(seen[t] <= a)
  <2>1. Granted(a)' = Granted(a) /\ Late(a)' = Late(a)
    BY <1>1, <1>7, AcquireCounts
  <2>2. Cardinality(Recorded(a)) <= Cardinality(Recorded(a)')
    BY AcquireRecords
  <2>3. Cardinality(Granted(a)') = Cardinality(Granted(a)) /\ Cardinality(Late(a)') = Cardinality(Late(a))
    BY <2>1
  <2>4. QED
    BY <1>2, <1>3, <1>4, <2>2, <2>3 DEF Straddles
<1>8. QED
  BY <1>5, <1>6, <1>7, AcquireCounts

LEMMA TickStraddles ==
  ASSUME TypeOK, Tick, Straddling, NEW a \in 0..Window-1
  PROVE  Straddles(a)'
<1>1. a \in Nat /\ a \in Int /\ a < Window
  BY LimiterAssumption
<1>2. /\ Len(calls) \in Nat /\ DOMAIN calls = 1..Len(calls) /\ DOMAIN calls' = 1..Len(calls)
      /\ \A i \in 1..Len(calls) : calls[i] \in Nat /\ (calls'[i] <= a <=> calls[i] <= a - 1)
  <2>1. calls \in Seq(0..OldestAge) /\ calls' \in Seq(0..OldestAge)
    BY TickType DEF TypeOK
  <2>2. /\ Len(calls) \in Nat /\ DOMAIN calls = 1..Len(calls) /\ DOMAIN calls' = 1..Len(calls)
        /\ \A i \in 1..Len(calls) : calls[i] \in 0..OldestAge
    <3> HIDE DEF OldestAge
    <3>1. QED
      BY <2>1, LenProperties, TickDeque
  <2>3. OldestAge \in Nat /\ OldestAge > a
    BY <1>1, LimiterAssumption, LagAssumption DEF OldestAge
  <2>4. \A i \in 1..Len(calls) : calls[i] \in Nat /\ calls'[i] = Lesser(OldestAge, calls[i] + 1)
    BY <2>2, <2>3, TickDeque
  <2>5. QED
    BY <1>1, <2>2, <2>3, <2>4 DEF Lesser
<1>3. CASE a = 0
  <2>1. Granted(a)' = {} /\ Late(a)' \subseteq Preempted /\ Since(a)' = Since(a - 1)
    BY <1>1, <1>3, TickShifts
  <2>2. Since(a - 1) = 0
    <3>1. a - 1 \in Int /\ a - 1 < Window /\ a - 1 < 0 /\ recent \in [0..Window-1 -> Nat]
      BY <1>1, <1>3, LimiterAssumption DEF TypeOK
    <3>2. QED
      BY <3>1, SinceType DEF Since
  <2>3. Cardinality(Granted(a)') = 0 /\ Cardinality(Late(a)') <= Cardinality(Preempted)
    BY <2>1, HoldersAreFinite, FS_EmptySet
  <2>4. Recorded(a)' = {}
    BY <1>2, <1>3 DEF Recorded
  <2>5. Cardinality(Recorded(a)') = 0
    BY <2>4, FS_EmptySet
  <2>6. Cardinality(Late(a)') \in Nat /\ Cardinality(Preempted) \in Nat
    <3>1. Late(a)' \in SUBSET Threads
      BY <2>1, LagAssumption
    <3>2. QED
      BY <3>1, HoldersAreFinite
  <2>7. QED
    BY <2>1, <2>2, <2>3, <2>5, <2>6 DEF Straddles
<1>4. CASE a # 0
  <2>1. a - 1 \in 0..Window-1 /\ a \in Nat \ {0}
    BY <1>1, <1>4, LimiterAssumption
  <2>2. /\ Granted(a)' = Granted(a - 1) /\ Late(a)' = Late(a - 1) /\ Since(a)' = Since(a - 1)
    BY <1>1, <2>1, TickShifts
  <2>3. Recorded(a)' = Recorded(a - 1)
    BY <1>2 DEF Recorded
  <2>4. Straddles(a - 1)
    BY <2>1 DEF Straddling
  <2>5. QED
    BY <2>2, <2>3, <2>4 DEF Straddles
<1>5. QED
  BY <1>3, <1>4

LEMMA NextStraddling == TypeOK /\ TypeOK' /\ Straddling /\ [Next]_vars => Straddling'
<1> SUFFICES ASSUME TypeOK, TypeOK', Straddling, [Next]_vars, NEW a \in 0..Window-1
             PROVE  Straddles(a)'
  BY DEF Straddling
<1>1. Straddles(a) /\ a \in Nat
  BY LimiterAssumption DEF Straddling
<1>2. ASSUME NEW t \in Threads, Step(t) PROVE Straddles(a)'
  <2>1. CASE Acquire(t)
    BY <1>1, <2>1, AcquireStraddles
  <2>2. CASE Invoke(t)
    BY <1>1, <2>2, InvokeStraddles
  <2>3. CASE ~Acquire(t) /\ ~Invoke(t)
    <3>1. /\ UNCHANGED <<calls, recent>>
          /\ Granted(a)' = Granted(a) /\ Late(a)' = Late(a)
      BY <1>1, <1>2, <2>3, QuietSteps DEF Step
    <3>2. Since(a)' = Since(a) /\ Recorded(a)' = Recorded(a)
      BY <3>1 DEF Since, Recorded
    <3>3. QED
      BY <1>1, <3>1, <3>2 DEF Straddles
  <2>4. QED
    BY <2>1, <2>2, <2>3
<1>3. CASE Tick
  BY <1>3, TickStraddles
<1>4. CASE UNCHANGED vars
  <2>1. UNCHANGED <<pc, seen, calls, recent>>
    BY <1>4 DEF vars
  <2>2. Granted(a)' = Granted(a) /\ Late(a)' = Late(a) /\ Since(a)' = Since(a) /\ Recorded(a)' = Recorded(a)
    BY <2>1 DEF Granted, Late, Holding, Since, Recorded
  <2>3. QED
    BY <1>1, <2>2 DEF Straddles
<1>5. QED
  BY <1>2, <1>3, <1>4 DEF Next

-----------------------------------------------------------------------------
(* The calls of a window, by the windows the lag may span *)

\* Calls that are yet to be made, and those that were made, on a clock reading
\* that may be up to x ticks old.
Load(x) == Cardinality(Granted(x)) + Since(x - MaxLag)

\* A call is popped by one that appends a reading a window later.  So before an
\* entry that is k windows younger than x lie MaxCalls calls for each of them.
Chain(x) ==
  \/ Load(x) = 0
  \/ \E i \in 1..Len(calls), k \in Nat :
       /\ calls[i] + k * Window <= x
       /\ Load(x) <= MaxCalls * k + Len(calls) - i + 1

Chained == \A x \in 0..Window+MaxLag-1 : Chain(x)

LEMMA LoadType ==
  ASSUME TypeOK, NEW x \in Int, x < Window + MaxLag
  PROVE  /\ IsFiniteSet(Granted(x)) /\ Cardinality(Granted(x)) \in Nat
         /\ Since(x - MaxLag) \in Nat /\ Load(x) \in Nat
         /\ x - MaxLag \in Int /\ x - MaxLag < Window
<1>1. x - MaxLag \in Int /\ x - MaxLag < Window
  BY LimiterAssumption, LagAssumption
<1>2. Granted(x) \in SUBSET Threads
  BY DEF Granted
<1>3. recent \in [0..Window-1 -> Nat]
  BY DEF TypeOK
<1>4. Since(x - MaxLag) \in Nat
  BY <1>1, <1>3, SinceType DEF Since
<1>5. QED
  BY <1>1, <1>2, <1>4, HoldersAreFinite DEF Load

LEMMA CallsType ==
  ASSUME TypeOK
  PROVE  Len(calls) \in Nat /\ Len(calls) <= MaxCalls /\ \A i \in 1..Len(calls) : calls[i] \in Nat
<1>1. calls \in Seq(0..OldestAge) /\ Len(calls) <= MaxCalls
  BY DEF TypeOK
<1>2. OldestAge \in Nat
  BY LimiterAssumption, LagAssumption DEF OldestAge
<1> HIDE DEF OldestAge
<1>3. QED
  BY <1>1, <1>2, LenProperties

\* The load does not grow, and the deque stays or grows older by what x does.
LEMMA ChainStays ==
  ASSUME TypeOK, NEW x \in Nat, NEW y \in Nat, Chain(y),
         Load(x)' = 0 \/ Load(x)' <= Load(y), Load(x)' \in Nat, Load(y) \in Nat,
         Len(calls') = Len(calls),
         \A i \in 1..Len(calls) : calls'[i] \in Nat /\ calls'[i] + y <= calls[i] + x
  PROVE  Chain(x)'
<1>1. CASE Load(y) = 0
  BY <1>1 DEF Chain
<1>2. CASE Load(y) # 0
  <2>1. PICK i \in 1..Len(calls) : \E k \in Nat :
          /\ calls[i] + k * Window <= y
          /\ Load(y) <= MaxCalls * k + Len(calls) - i + 1
    BY <1>2 DEF Chain
  <2>2. PICK k \in Nat :
          /\ calls[i] + k * Window <= y
          /\ Load(y) <= MaxCalls * k + Len(calls) - i + 1
    BY <2>1
  <2>3. k * Window \in Nat /\ MaxCalls * k \in Nat
    BY LimiterAssumption
  <2>4. calls[i] \in Nat /\ calls'[i] \in Nat /\ calls'[i] + y <= calls[i] + x /\ Len(calls) \in Nat
    BY CallsType
  <2> DEFINE w == k * Window
             c == MaxCalls * k
  <2>5. calls'[i] + w <= x
    <3>1. calls[i] + w <= y /\ w \in Nat
      BY <2>2, <2>3
    <3> HIDE DEF w
    <3>2. QED
      BY <2>4, <3>1
  <2>6. Load(x)' = 0 \/ Load(x)' <= c + Len(calls') - i + 1
    <3>1. Load(y) <= c + Len(calls) - i + 1 /\ c \in Nat
      BY <2>2, <2>3
    <3> HIDE DEF c
    <3>2. QED
      BY <2>4, <3>1
  <2>7. i \in 1..Len(calls')
    OBVIOUS
  <2>8. QED
    BY <2>5, <2>6, <2>7 DEF Chain
<1>3. QED
  BY <1>1, <1>2

LEMMA InvokeChain ==
  ASSUME TypeOK, TypeOK', NEW t \in Threads, Invoke(t), NEW x \in 0..Window+MaxLag-1, Chain(x)
  PROVE  Chain(x)'
<1>1. x \in Nat /\ x \in Int /\ x < Window + MaxLag
  BY LimiterAssumption, LagAssumption
<1>2. /\ IsFiniteSet(Granted(x)) /\ Cardinality(Granted(x)) \in Nat /\ Load(x) \in Nat
      /\ Since(x - MaxLag) \in Nat /\ x - MaxLag \in Int /\ x - MaxLag < Window
  BY <1>1, LoadType
<1>3. /\ calls' = calls /\ t \in Granted(seen[t]) /\ seen[t] \in 0..MaxLag
      /\ Granted(x)' = Granted(x) \ {t}
      /\ Since(x - MaxLag)' = IF x - MaxLag < 0 THEN Since(x - MaxLag) ELSE Since(x - MaxLag) + 1
  BY <1>1, <1>2, InvokeCounts
<1>4. Cardinality(Granted(x)') = IF t \in Granted(x) THEN Cardinality(Granted(x)) - 1
                                                    ELSE Cardinality(Granted(x))
  BY <1>2, <1>3, FS_RemoveElement
<1>5. Cardinality(Granted(x)') \in Nat
  <2>1. Granted(x)' \in SUBSET Threads
    BY DEF Granted
  <2>2. QED
    BY <2>1, HoldersAreFinite
<1>6. ~(x - MaxLag < 0) => t \in Granted(x)
  BY <1>1, <1>3, LagAssumption DEF Granted
<1>7. Load(x)' = Cardinality(Granted(x)') + Since(x - MaxLag)'
  BY DEF Load
<1>8. Load(x)' \in Nat /\ Load(x)' <= Load(x)
  BY <1>2, <1>3, <1>4, <1>5, <1>6, <1>7 DEF Load
<1>9. Len(calls') = Len(calls) /\ \A i \in 1..Len(calls) : calls'[i] \in Nat /\ calls'[i] + x <= calls[i] + x
  BY <1>1, <1>3, CallsType
<1>10. QED
  BY <1>1, <1>2, <1>8, <1>9, ChainStays

LEMMA TickChain ==
  ASSUME TypeOK, TypeOK', Tick, Chained, NEW x \in 0..Window+MaxLag-1
  PROVE  Chain(x)'
<1>1. x \in Nat /\ x \in Int /\ x < Window + MaxLag
  BY LimiterAssumption, LagAssumption
<1>2. x - MaxLag \in Int /\ x - MaxLag < Window
  BY <1>1, LimiterAssumption, LagAssumption
<1>3. Since(x - MaxLag)' = Since((x - MaxLag) - 1)
  BY <1>2, TickShifts
<1>4. CASE x = 0
  <2>1. Granted(x)' = {}
    BY <1>4, TickShifts
  <2>2. Cardinality(Granted(x)') = 0
    BY <2>1, FS_EmptySet
  <2>3. Since((x - MaxLag) - 1) = 0
    <3>1. /\ (x - MaxLag) - 1 \in Int /\ (x - MaxLag) - 1 < Window /\ (x - MaxLag) - 1 < 0
          /\ recent \in [0..Window-1 -> Nat]
      BY <1>2, <1>4, LagAssumption, LimiterAssumption DEF TypeOK
    <3>2. QED
      BY <3>1, SinceType DEF Since
  <2>4. QED
    BY <1>3, <2>2, <2>3 DEF Chain, Load
<1>5. CASE x # 0
  <2>1. /\ x - 1 \in 0..Window+MaxLag-1 /\ x \in Nat \ {0} /\ x - 1 \in Nat /\ x - 1 \in Int
        /\ x - 1 < Window + MaxLag /\ (x - MaxLag) - 1 = (x - 1) - MaxLag
    BY <1>1, <1>5, LimiterAssumption, LagAssumption
  <2>2. Granted(x)' = Granted(x - 1)
    BY <2>1, TickShifts
  <2>3. Load(x)' = Load(x - 1)
    BY <1>3, <2>1, <2>2 DEF Load
  <2>4. Load(x - 1) \in Nat
    BY <2>1, LoadType
  <2>5. Load(x)' \in Nat /\ Load(x)' <= Load(x - 1)
    BY <2>3, <2>4
  <2>6. Chain(x - 1)
    BY <2>1 DEF Chained
  <2>7. Len(calls') = Len(calls) /\ \A i \in 1..Len(calls) : calls'[i] \in Nat /\ calls'[i] + (x - 1) <= calls[i] + x
    <3>1. OldestAge \in Nat
      BY LimiterAssumption, LagAssumption DEF OldestAge
    <3>2. QED
      BY <2>1, <3>1, CallsType, TickDeque DEF Lesser
  <2>8. QED
    BY <1>1, <2>1, <2>4, <2>5, <2>6, <2>7, ChainStays
<1>6. QED
  BY <1>4, <1>5

\* One window more is MaxCalls calls more.
LEMMA WindowMore ==
  ASSUME NEW k \in Nat
  PROVE  /\ k + 1 \in Nat /\ k * Window \in Nat /\ MaxCalls * k \in Nat
         /\ (k + 1) * Window = k * Window + Window
         /\ MaxCalls * (k + 1) = MaxCalls * k + MaxCalls
BY LimiterAssumption

LEMMA AcquireChain ==
  ASSUME TypeOK, TypeOK', NEW t \in Threads, Acquire(t), NEW x \in 0..Window+MaxLag-1, Chain(x)
  PROVE  Chain(x)'
<1>1. x \in Nat /\ x \in Int /\ x < Window + MaxLag /\ seen[t] \in Nat
  BY LimiterAssumption, LagAssumption DEF TypeOK
<1>2. /\ IsFiniteSet(Granted(x)) /\ Cardinality(Granted(x)) \in Nat /\ Load(x) \in Nat
      /\ Since(x - MaxLag) \in Nat
  BY <1>1, LoadType
<1>3. Since(x - MaxLag)' = Since(x - MaxLag)
  BY AcquireCounts DEF Since
<1>4. Load(x)' = Cardinality(Granted(x)') + Since(x - MaxLag)
  BY <1>3 DEF Load
<1>5. Len(calls) \in Nat /\ Len(calls) <= MaxCalls /\ \A i \in 1..Len(calls) : calls[i] \in Nat
  BY CallsType
<1>6. CASE pc'[t] = "full"
  <2>1. Granted(x)' = Granted(x)
    BY <1>1, <1>6, AcquireCounts
  <2>2. Load(x)' = Load(x)
    BY <1>4, <2>1 DEF Load
  <2>3. Len(calls') = Len(calls) /\ \A i \in 1..Len(calls) : calls'[i] = calls[i]
    BY <1>6, AcquireDeque
  <2>4. \A i \in 1..Len(calls) : calls'[i] \in Nat /\ calls'[i] + x <= calls[i] + x
    BY <1>1, <1>5, <2>3
  <2>5. Load(x)' \in Nat /\ Load(x)' <= Load(x)
    BY <1>2, <2>2
  <2>6. QED
    BY <1>1, <1>2, <2>3, <2>4, <2>5, ChainStays
<1>7. CASE pc'[t] = "granted"
  <2> DEFINE n == Len(calls')
  <2>1. PICK m \in 1..Len(calls)+1 :
          /\ n = Len(calls) - m + 2
          /\ \A i \in m..Len(calls) : calls'[i - m + 1] = calls[i]
          /\ \A i \in 1..m-1 : ~(calls[i] - seen[t] < Window)
    BY <1>7, AcquireDeque
  <2>2. calls'[n] = seen[t] /\ n \in Nat /\ n \in 1..n
    BY <1>5, <1>7, <2>1, AcquireDeque
  <2>3. /\ seen[t] <= x => Load(x)' = Load(x) + 1
        /\ ~(seen[t] <= x) => Load(x)' = Load(x)
    <3>1. CASE seen[t] <= x
      <4>1. Granted(x)' = Granted(x) \union {t} /\ t \notin Granted(x)
        BY <1>1, <1>7, <3>1, AcquireCounts
      <4>2. Cardinality(Granted(x)') = Cardinality(Granted(x)) + 1
        BY <1>2, <4>1, FS_AddElement
      <4>3. QED
        BY <1>2, <1>4, <3>1, <4>2 DEF Load
    <3>2. CASE ~(seen[t] <= x)
      <4>1. Granted(x)' = Granted(x)
        BY <1>1, <1>7, <3>2, AcquireCounts
      <4>2. QED
        BY <1>4, <3>2, <4>1 DEF Load
    <3>3. QED
      BY <3>1, <3>2
  <2>4. CASE Load(x) = 0
    <3>1. CASE seen[t] <= x
      <4>1. 0 \in Nat /\ calls'[n] + 0 * Window <= x /\ MaxCalls * 0 = 0
        BY <1>1, <2>2, <3>1, LimiterAssumption
      <4>2. Load(x)' <= MaxCalls * 0 + n - n + 1
        BY <2>2, <2>3, <2>4, <3>1, <4>1
      <4>3. QED
        BY <2>2, <4>1, <4>2 DEF Chain
    <3>2. CASE ~(seen[t] <= x)
      BY <2>3, <2>4, <3>2 DEF Chain
    <3>3. QED
      BY <3>1, <3>2
  <2>5. CASE Load(x) # 0
    <3>1. PICK i \in 1..Len(calls) : \E k \in Nat :
            /\ calls[i] + k * Window <= x
            /\ Load(x) <= MaxCalls * k + Len(calls) - i + 1
      BY <2>5 DEF Chain
    <3>2. PICK k \in Nat :
            /\ calls[i] + k * Window <= x
            /\ Load(x) <= MaxCalls * k + Len(calls) - i + 1
      BY <3>1
    <3>3. k * Window \in Nat /\ MaxCalls * k \in Nat /\ calls[i] \in Nat
      BY <1>5, WindowMore
    <3>4. CASE i >= m
      <4> DEFINE j == i - m + 1
      <4>1. j \in 1..n /\ calls'[j] = calls[i]
        BY <1>5, <2>1, <3>4
      <4>2. calls'[j] + k * Window <= x
        BY <3>2, <4>1
      <4>3. Load(x)' <= Load(x) + 1 /\ Load(x)' \in Int
        BY <1>2, <2>3
      <4>4. MaxCalls * k + n - j + 1 = (MaxCalls * k + Len(calls) - i + 1) + 1
        BY <1>5, <2>1, <3>3
      <4>5. Load(x)' <= MaxCalls * k + n - j + 1
        <5>1. MaxCalls * k + Len(calls) - i + 1 \in Int
          BY <1>5, <3>3
        <5>2. \A a, b, c \in Int : a <= b + 1 /\ b <= c => a <= c + 1
          OBVIOUS
        <5>3. Load(x)' <= (MaxCalls * k + Len(calls) - i + 1) + 1
          BY <1>2, <3>2, <4>3, <5>1, <5>2
        <5>4. QED
          BY <4>4, <5>3
      <4> HIDE DEF j
      <4>6. QED
        BY <4>1, <4>2, <4>5 DEF Chain
    <3>5. CASE ~(i >= m)
      <4>1. calls[i] >= seen[t] + Window
        <5>1. ~(calls[i] - seen[t] < Window)
          BY <1>5, <2>1, <3>5
        <5>2. QED
          BY <1>1, <3>3, <5>1, LimiterAssumption
      <4>2. calls'[n] + (k + 1) * Window <= x
        <5> DEFINE w == k * Window
                   v == (k + 1) * Window
        <5>1. v = w + Window /\ w \in Nat /\ calls[i] + w <= x /\ Window \in Nat
          BY <3>2, WindowMore, LimiterAssumption
        <5>2. calls[i] \in Nat
          BY <3>3
        <5> HIDE DEF w, v
        <5>3. seen[t] + v <= x
          BY <1>1, <4>1, <5>1, <5>2
        <5>4. QED
          BY <2>2, <5>3 DEF v
      <4>3. Load(x)' <= MaxCalls * (k + 1) + n - n + 1
        <5>1. Load(x)' <= Load(x) + 1
          BY <1>2, <2>3
        <5> DEFINE c == MaxCalls * k
        <5>2. Load(x) <= c + MaxCalls
          <6>1. Load(x) <= c + Len(calls) - i + 1 /\ c \in Nat /\ i \in 1..Len(calls)
            BY <3>2, <3>3
          <6> HIDE DEF c
          <6>2. QED
            BY <1>2, <1>5, <6>1, LimiterAssumption
        <5>3. MaxCalls * (k + 1) = MaxCalls * k + MaxCalls
          BY WindowMore
        <5>4. Load(x)' \in Int
          BY <1>2, <2>3
        <5>5. c \in Nat
          BY <3>3
        <5> HIDE DEF c
        <5>6. Load(x)' <= c + MaxCalls + n - n + 1
          BY <1>2, <2>2, <5>1, <5>2, <5>4, <5>5, LimiterAssumption
        <5>7. QED
          BY <5>3, <5>6 DEF c
      <4>4. k + 1 \in Nat
        OBVIOUS
      <4>5. QED
        BY <2>2, <4>2, <4>3, <4>4 DEF Chain
    <3>6. QED
      BY <3>4, <3>5
  <2>6. QED
    BY <2>4, <2>5
<1>8. QED
  BY <1>6, <1>7, AcquireCounts

LEMMA NextChained == TypeOK /\ TypeOK' /\ Chained /\ [Next]_vars => Chained'
<1> SUFFICES ASSUME TypeOK, TypeOK', Chained, [Next]_vars, NEW x \in 0..Window+MaxLag-1
             PROVE  Chain(x)'
  BY DEF Chained
<1>1. Chain(x) /\ x \in Nat
  BY LimiterAssumption, LagAssumption DEF Chained
<1>2. ASSUME UNCHANGED <<calls, recent>>, Granted(x)' = Granted(x) PROVE Chain(x)'
  <2>1. Load(x)' = Load(x)
    BY <1>2 DEF Load, Since
  <2>2. QED
    BY <1>1, <1>2, <2>1 DEF Chain
<1>3. ASSUME NEW t \in Threads, Step(t) PROVE Chain(x)'
  <2>1. CASE Acquire(t)
    BY <1>1, <2>1, AcquireChain
  <2>2. CASE Invoke(t)
    BY <1>1, <2>2, InvokeChain
  <2>3. CASE ~Acquire(t) /\ ~Invoke(t)
    BY <1>1, <1>2, <1>3, <2>3, QuietSteps DEF Step
  <2>4. QED
    BY <2>1, <2>2, <2>3
<1>4. CASE Tick
  BY <1>4, TickChain
<1>5. CASE UNCHANGED vars
  BY <1>2, <1>5 DEF vars, Granted
<1>6. QED
  BY <1>3, <1>4, <1>5 DEF Next

-----------------------------------------------------------------------------
(* The bound *)

LEMMA InitWindows == Init => Straddling /\ Chained
<1> SUFFICES ASSUME Init PROVE Straddling /\ Chained
  OBVIOUS
<1>1. /\ \A x \in Int : Granted(x) = {} /\ Late(x) = {}
      /\ \A x \in Int : Recorded(x) = {}
  BY DEF Init, Granted, Late, Holding, Recorded
<1>2. ASSUME NEW a \in Int, a < Window PROVE Since(a) = 0
  <2>1. \A i \in 0..a : recent[i] = 0
    BY <1>2, LimiterAssumption DEF Init
  <2>2. IsFiniteSet(0..a)
    BY SegmentsAreFinite
  <2>3. QED
    BY <2>1, <2>2, SumOfZeros DEF Since
<1>3. Cardinality({}) = 0
  BY FS_EmptySet
<1>4. ASSUME NEW a \in 0..Window-1 PROVE Straddles(a)
  <2>1. a \in Int /\ a < Window
    BY LimiterAssumption
  <2>2. Since(a) = 0 /\ Granted(a) = {} /\ Late(a) = {} /\ Recorded(a) = {}
    BY <1>1, <1>2, <2>1
  <2>3. QED
    BY <1>3, <2>2, HoldersAreFinite DEF Straddles
<1>5. ASSUME NEW x \in 0..Window+MaxLag-1 PROVE Chain(x)
  <2>1. x \in Int /\ x - MaxLag \in Int /\ x - MaxLag < Window
    BY LimiterAssumption, LagAssumption
  <2>2. Since(x - MaxLag) = 0 /\ Granted(x) = {}
    BY <1>1, <1>2, <2>1
  <2>3. QED
    BY <1>3, <2>2 DEF Chain, Load
<1>6. QED
  BY <1>4, <1>5 DEF Straddling, Chained

\* A number of whole windows below the end of the last one begun.
LEMMA LostWindowsType ==
  /\ LostWindows \in Nat
  /\ \A k \in Nat : k * Window <= MaxLag + Window - 1 => k <= LostWindows
<1>1. MaxLag + Window - 1 \in Nat /\ Window \in Nat \ {0}
  BY LimiterAssumption, LagAssumption
<1>2. \A n \in Nat, w \in Nat \ {0} : n \div w \in Nat /\ n < (n \div w) * w + w
  OBVIOUS
<1>3. LostWindows \in Nat /\ MaxLag + Window - 1 < LostWindows * Window + Window
  BY <1>1, <1>2 DEF LostWindows
<1>4. ASSUME NEW k \in Nat, k * Window <= MaxLag + Window - 1 PROVE k <= LostWindows
  <2>1. \A a, b, w \in Nat : a >= b + 1 => a * w >= b * w + w
    OBVIOUS
  <2>2. QED
    BY <1>1, <1>3, <1>4, <2>1
<1>5. QED
  BY <1>3, <1>4

LEMMA WindowsBound == TypeOK /\ Straddling /\ Chained => WindowBound
<1> SUFFICES ASSUME TypeOK, Straddling, Chained PROVE WindowBound
  OBVIOUS
<1> DEFINE a == Window - 1
           x == Window + MaxLag - 1
<1>1. /\ a \in 0..Window-1 /\ a \in Nat /\ a < Window
      /\ x \in 0..Window+MaxLag-1 /\ x \in Int /\ x < Window + MaxLag /\ x - MaxLag = a
  BY LimiterAssumption, LagAssumption
<1>2. SumFunction(recent) = Since(a)
  BY DEF TypeOK, SumFunction, Since
<1> HIDE DEF a
<1>3. SumFunction(recent) <= MaxCalls + Cardinality(Preempted)
  <2>1. Straddles(a)
    BY <1>1 DEF Straddling
  <2>2. QED
    BY <1>1, <1>2, <2>1, CountTypes, HoldersAreFinite, LimiterAssumption DEF Straddles
<1>4. SumFunction(recent) <= MaxCalls + MaxCalls * LostWindows
  <2>1. /\ Chain(x) /\ Cardinality(Granted(x)) \in Nat /\ Since(a) \in Nat
        /\ Load(x) = Cardinality(Granted(x)) + Since(a)
    <3> HIDE DEF x
    <3>1. Chain(x)
      BY <1>1 DEF Chained
    <3>2. Cardinality(Granted(x)) \in Nat /\ Since(x - MaxLag) \in Nat
      BY <1>1, LoadType
    <3>3. QED
      BY <1>1, <3>1, <3>2 DEF Load
  <2>2. SumFunction(recent) <= Load(x) /\ Load(x) \in Nat /\ SumFunction(recent) \in Nat
    BY <1>2, <2>1
  <2>3. MaxCalls * LostWindows \in Nat
    BY LostWindowsType, LimiterAssumption
  <2>4. CASE Load(x) = 0
    BY <2>2, <2>3, <2>4, LimiterAssumption
  <2>5. CASE Load(x) # 0
    <3>1. PICK i \in 1..Len(calls) : \E k \in Nat :
            /\ calls[i] + k * Window <= x
            /\ Load(x) <= MaxCalls * k + Len(calls) - i + 1
      BY <2>1, <2>5 DEF Chain
    <3>2. PICK k \in Nat :
            /\ calls[i] + k * Window <= x
            /\ Load(x) <= MaxCalls * k + Len(calls) - i + 1
      BY <3>1
    <3>3. k * Window \in Nat /\ MaxCalls * k \in Nat /\ calls[i] \in Nat
      BY CallsType, WindowMore
    <3>4. k * Window <= MaxLag + Window - 1
      BY <3>2, <3>3, LimiterAssumption, LagAssumption
    <3>5. k <= LostWindows
      BY <3>4, LostWindowsType
    <3>6. MaxCalls * k <= MaxCalls * LostWindows
      <4>1. \A c, b, d \in Nat : b <= d => c * b <= c * d
        OBVIOUS
      <4>2. QED
        BY <3>5, <4>1, LostWindowsType, LimiterAssumption
    <3>7. Len(calls) - i + 1 <= MaxCalls /\ Len(calls) \in Nat
      BY CallsType, LimiterAssumption
    <3> HIDE DEF x
    <3>8. QED
      BY <2>2, <2>3, <3>2, <3>3, <3>6, <3>7, LimiterAssumption
  <2>6. QED
    BY <2>4, <2>5
<1>5. QED
  BY <1>3, <1>4 DEF WindowBound, Slack, Lesser

\* In no window is the tool called more often than max_calls, plus once for each
\* thread that may lose the processor between its clock reading and the call, or
\* plus max_calls for each window it may lose there, whichever is less.
THEOREM CallsAreLimited == Spec => []WindowBound
<1> DEFINE I == IInv /\ Straddling /\ Chained
<1>1. Init => I
  BY InitIInv, InitWindows
<1>2. I /\ [Next]_vars => I'
  BY NextIInv, NextStraddling, NextChained DEF IInv
<1>3. I => WindowBound
  BY WindowsBound DEF IInv
<1>4. QED
  BY <1>1, <1>2, <1>3, PTL DEF Spec
=============================================================================
