\* Two threads over one limiter; both may be preempted inside execute_tool, for
\* no longer than one window.
SPECIFICATION FairSpec
CONSTANTS
  t1 = t1
  t2 = t2
  Threads = {t1, t2}
  MaxCalls = 1
  Window = 2
  Timeout = 2
  MaxAttempts = 2
  BackoffBase = 1
  BackoffMax = 2
  Preempted = {t1, t2}
  MaxLag = 2
INVARIANTS
  WindowBound
  AttemptsAreTruthful
PROPERTIES
  EveryCallReturns
