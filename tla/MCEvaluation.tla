---------------------------- MODULE MCEvaluation ----------------------------
EXTENDS Evaluation

CONSTANTS s1, s2

MCScenarios == {s1, s2}

Sound == [valid |-> TRUE, cited |-> TRUE, consistent |-> TRUE, covered |-> TRUE,
          cost |-> 20, latency |-> 5, action |-> "BUY"]
Thin == [Sound EXCEPT !.covered = FALSE, !.cost = 10, !.action = "WATCH"]
Broken == [Sound EXCEPT !.valid = FALSE, !.consistent = FALSE, !.cost = 40]

MCGrades == {Sound, Thin, Broken}
MCRequested == {"LIVE"}
MCStrategies == {"same", "live", "shadow"}
MCServed == [replay |-> 2, promotion |-> 3]
=============================================================================
