--------------------------- MODULE ReportService ---------------------------
(***************************************************************************)
(* The requests of MemoryStore end to end (app/api/routes.py, app/         *)
(* workflows/graph.py and persistence.py): every run persists its report   *)
(* and its other rows in one transaction, after its memory note; the       *)
(* answer leaves once the shadow run is over; the server process may crash *)
(* and start again, which empties everything it holds in memory.  Clients  *)
(* then read reports back and give feedback on them.                       *)
(*                                                                         *)
(* Abstractions.  A report is named like its note.  Clients ask only for   *)
(* reports they were answered with: ids are random.  Crashes are bounded   *)
(* by MaxCrashes.  A request that a crash cut off is not sent again, it is *)
(* as good as another one.  Checkpoints are taken to be written: nothing   *)
(* raises between a run's transaction and its end.  Time stands still when *)
(* no request is left.                                                     *)
(***************************************************************************)
EXTENDS MemoryStore

CONSTANT MaxCrashes  \* bound on the crashes of the server

ASSUME CrashesAssumption == MaxCrashes \in Nat

VARIABLES
  asked,     \* run_mode of the request
  result,    \* what the request's own run came to
  answer,    \* what its client got
  reports,   \* the reports table
  store,     \* REPORT_STORE
  feedback,  \* reports that report_feedback has rows of
  crashes

apiVars == <<asked, result, answer, reports, store, feedback, crashes>>
serviceVars == <<vars, apiVars>>

InFlight(r) == answer[r] = "none"
OwnReport(r) == [by |-> r, mode |-> asked[r]]
Finish(r, what) == result' = [result EXCEPT ![r] = what]
OwnRun(r) == result[r] = "pending"

ServiceInit ==
  /\ Init
  /\ asked = mode
  /\ result = [r \in Requests |-> "pending"]
  /\ answer = [r \in Requests |-> "none"]
  /\ reports = {}
  /\ store = {}
  /\ feedback = {}
  /\ crashes = 0

\* The steps of a run up to its transaction.
RunStep(r) ==
  /\ Lookup(r) \/ Fetch(r) \/ Fill(r) \/ NoNotes(r) \/ Commit(r) \/ Clear(r) \/ WriteFails(r)
  /\ UNCHANGED apiVars

CommitForgotten(r) == reports' = reports  \* mutant: the transaction is not committed

\* Mutant: a shadow run's report gets the id of the run it follows.
CommitAsOwn(r) == reports' = reports \union {OwnReport(r)}

\* persist_workflow_state: all rows of the run, or none.
CommitReport(r) == reports' = reports \union {[by |-> r, mode |-> mode[r]]}

PersistAndEnd(r) ==
  /\ EndRun(r)
  /\ CommitReport(r)
  /\ Finish(r, IF OwnRun(r) THEN "ok" ELSE "ok_with_shadow")
  /\ UNCHANGED <<asked, answer, store, feedback, crashes>>

\* Mutant: an exception of the shadow run is not caught.
ShadowRaiseUncaught(r) ==
  /\ RunRaises(r)
  /\ Finish(r, "raised")
  /\ UNCHANGED <<asked, answer, reports, store, feedback, crashes>>

\* run_research_workflow: an exception of the shadow run is caught.
Raise(r) ==
  /\ RunRaises(r)
  /\ Finish(r, IF OwnRun(r) THEN "raised" ELSE result[r])
  /\ UNCHANGED <<asked, answer, reports, store, feedback, crashes>>

\* generate_report
Respond(r) ==
  /\ pc[r] = "done" /\ InFlight(r)
  /\ \/ /\ result[r] \in {"ok", "ok_with_shadow"}
        /\ answer' = [answer EXCEPT ![r] = "report"]
        /\ store' = store \union {OwnReport(r)}
     \/ /\ result[r] = "raised"
        /\ answer' = [answer EXCEPT ![r] = "error"]
        /\ UNCHANGED store
  /\ UNCHANGED <<vars, asked, result, reports, feedback, crashes>>

\* The process dies, and is started again: what it held in memory is gone.
Crash ==
  /\ crashes < MaxCrashes
  /\ crashes' = crashes + 1
  /\ pc' = [r \in Requests |-> "done"]
  /\ got' = [r \in Requests |-> {}]
  /\ due' = [r \in Requests |-> {}]
  /\ record' = {}
  /\ left' = 0
  /\ store' = {}
  /\ answer' = [r \in Requests |-> IF InFlight(r) THEN "lost" ELSE answer[r]]
  /\ UNCHANGED <<mode, lag, notes, settled, overlapped, asked, result, reports, feedback>>

\* GET /reports/{id}
GetReport(r) ==
  /\ answer[r] = "report"
  /\ OwnReport(r) \notin store
  /\ OwnReport(r) \in reports
  /\ store' = store \union {OwnReport(r)}
  /\ UNCHANGED <<vars, asked, result, answer, reports, feedback, crashes>>

\* POST /reports/{id}/feedback
SubmitFeedback(r) ==
  /\ answer[r] = "report"
  /\ OwnReport(r) \in store \union reports
  /\ feedback' = feedback \union {OwnReport(r)}
  /\ UNCHANGED <<vars, asked, result, answer, reports, store, crashes>>

Serve(r) == RunStep(r) \/ PersistAndEnd(r) \/ Raise(r) \/ Respond(r)

ServiceNext ==
  \/ Tick /\ (\E r \in Requests : InFlight(r)) /\ UNCHANGED apiVars
  \/ Crash
  \/ \E r \in Requests : Serve(r) \/ GetReport(r) \/ SubmitFeedback(r)

\* The threads of the server run on; nobody has to crash, read or give feedback.
ServiceSpec ==
  /\ ServiceInit /\ [][ServiceNext]_serviceVars
  /\ \A r \in Requests : WF_serviceVars(Serve(r))

-----------------------------------------------------------------------------
(* Properties *)

ServiceTypeOK ==
  /\ TypeOK
  /\ asked \in RunModes
  /\ result \in [Requests -> {"pending", "ok", "ok_with_shadow", "raised"}]
  /\ answer \in [Requests -> {"none", "report", "error", "lost"}]
  /\ reports \subseteq Note /\ store \subseteq Note /\ feedback \subseteq Note
  /\ crashes \in 0..MaxCrashes

\* A client that was answered finds its report in the database, whatever crashed
\* since; one that got an error left no report behind, not even when the shadow
\* run failed after the report was persisted.
AnswersAreTruthful ==
  \A r \in Requests :
    /\ answer[r] = "report" => OwnReport(r) \in reports
    /\ answer[r] = "error" => \A n \in reports : n.by # r

\* The note is committed before the report's transaction, by another connection:
\* a note of a report that does not exist is left only by a run that raised or was
\* cut off in between (the shadow run: by one whose report the answer lacks).
OrphansComeFromFailures ==
  \A n \in Table \ reports :
    \/ pc[n.by] \in {"committed", "written"} /\ mode[n.by] = n.mode
    \/ n = OwnReport(n.by) /\ (result[n.by] = "raised" \/ answer[n.by] = "lost")
    \/ n # OwnReport(n.by) /\ result[n.by] = "ok" /\ pc[n.by] = "done"

\* Feedback can be joined with the report it is about: the check that consults
\* the memory of the process first never accepts a report the database lacks.
FeedbackIsAttached == feedback \subseteq reports

\* Every request gets its answer, unless the server crashes under it: the shadow
\* run that precedes the answer ends, and is not followed by another.
RequestsAreAnswered == \A r \in Requests : <>(answer[r] # "none")
=============================================================================
