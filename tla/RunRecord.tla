----------------------------- MODULE RunRecord ------------------------------
(***************************************************************************)
(* One run as the stores keep it: the row of table runs with its report,   *)
(* and the run operations of apps/api/internal/store as functions from the *)
(* row before to the row after.  The in-memory store (memory.go) and the   *)
(* Postgres store (postgres.go) agree on them; they differ in when the     *)
(* event of an operation is written, which is the caller's business here.  *)
(*                                                                         *)
(* Messages, timestamps, versions and the content of a report are          *)
(* abstracted: of a report only the status and the code that built it      *)
(* remain.                                                                 *)
(***************************************************************************)
EXTENDS Naturals

TerminalStatuses == {"passed", "failed", "errored", "canceled"}

\* "absent" stands for a run that has no row.
RunStatus == {"absent", "queued", "running"} \cup TerminalStatuses

isTerminalRunStatus(s) == s \in TerminalStatuses

isCancelableRunStatus(s) == s \in {"queued", "running"}

-----------------------------------------------------------------------------
(* Events: the types the run's control flow writes.  The runner's own      *)
(* events (requests, assertions, hooks) never decide anything.             *)

RunEventTypes ==
  {"run_queued", "run_started", "cancel_requested",
   "run_completed", "run_failed", "run_canceled",
   "worker_attempt_started", "worker_attempt_failed",
   "worker_retry_scheduled", "worker_dead_lettered"}

TerminalEventTypes == {"run_completed", "run_failed", "run_canceled"}

-----------------------------------------------------------------------------
(* Reports                                                                 *)

NoReport == [status |-> "none", source |-> "none"]

\* source: "runner" = report.Build over what was sent; "error" = the runner
\* returned an error and the run was canceled; "before" = the report that
\* says "run canceled before worker execution".
Reports ==
  [status : {"passed", "failed", "canceled"},
   source : {"runner", "error", "before"}]

RunnerReport(verdict) == [status |-> verdict, source |-> "runner"]

canceledReport(message) == [status |-> "canceled", source |-> message]

-----------------------------------------------------------------------------
(* Rows                                                                    *)

Row == [status : RunStatus, report : Reports \cup {NoReport}]

NoRow == [status |-> "absent", report |-> NoReport]

CreateRun == [status |-> "queued", report |-> NoReport]

MarkRunStartedUnguarded(row) == [row EXCEPT !.status = "running"]

MarkRunStarted(row) ==
  IF isCancelableRunStatus(row.status)
  THEN [row EXCEPT !.status = "running"]
  ELSE row

finishRunWithReportKeepingStatus(row, status, rep) ==
  IF isCancelableRunStatus(row.status)
  THEN [status |-> status, report |-> rep]
  ELSE row

\* The row is updated only from queued or running, and the report is stored
\* under the run's status.
finishRunWithReport(row, status, rep) ==
  IF isCancelableRunStatus(row.status)
  THEN [status |-> status, report |-> [rep EXCEPT !.status = status]]
  ELSE row

CompletedStatus(rep) == IF rep.status = "failed" THEN "failed" ELSE "passed"

CompleteRun(row, rep) == finishRunWithReport(row, CompletedStatus(rep), rep)

CancelRun(row, rep) == finishRunWithReport(row, "canceled", rep)

ErrorRunForgotten(row) == row

ErrorRun(row) ==
  IF isCancelableRunStatus(row.status)
  THEN [row EXCEPT !.status = "errored"]
  ELSE row
=============================================================================
