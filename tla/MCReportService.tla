-------------------------- MODULE MCReportService --------------------------
EXTENDS ReportService

CONSTANTS r1, r2

\* One request is followed by a shadow run, the other is not.
MCRunModes == {[r \in {r1, r2} |-> IF r = r1 THEN "LIVE" ELSE "BACKTEST"]}
=============================================================================
