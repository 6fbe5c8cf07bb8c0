---------------------------- MODULE RunLifecycle ----------------------------
(***************************************************************************)
(* What the run endpoints promise a client, whatever executes the run: a   *)
(* run is queued once, starts running, and reaches one outcome that is     *)
(* final; an outcome of traffic (passed, failed) is only ever given to a   *)
(* run that is running; a cancellation request is durable.                 *)
(*                                                                         *)
(* It states apps/api/internal/store/store.go's contract as the run        *)
(* endpoints use it.  RunControl (API, Asynq queue, workers, Postgres) and *)
(* InProcessRun (no queue) are shown to implement it.                      *)
(***************************************************************************)
EXTENDS RunRecord

CONSTANT Runs

VARIABLES status,            \* the status a client reads for each run
          cancelRequested    \* whether the run's cancellation was requested

lifecycleVars == <<status, cancelRequested>>

Init ==
  /\ status = [r \in Runs |-> "absent"]
  /\ cancelRequested = [r \in Runs |-> FALSE]

Create(r) ==
  /\ status[r] = "absent"
  /\ status' = [status EXCEPT ![r] = "queued"]
  /\ UNCHANGED cancelRequested

Start(r) ==
  /\ isCancelableRunStatus(status[r])
  /\ status' = [status EXCEPT ![r] = "running"]
  /\ UNCHANGED cancelRequested

RequestCancel(r) ==
  /\ isCancelableRunStatus(status[r])
  /\ cancelRequested' = [cancelRequested EXCEPT ![r] = TRUE]
  /\ UNCHANGED status

\* Traffic's verdict needs a running run; a run that is still queued can
\* only be canceled or be refused by the queue.
Finish(r) ==
  /\ \/ /\ status[r] = "running"
        /\ \E outcome \in TerminalStatuses :
              status' = [status EXCEPT ![r] = outcome]
     \/ /\ status[r] = "queued"
        /\ \E outcome \in {"errored", "canceled"} :
              status' = [status EXCEPT ![r] = outcome]
  /\ UNCHANGED cancelRequested

Next == \E r \in Runs : Create(r) \/ Start(r) \/ RequestCancel(r) \/ Finish(r)

Spec == Init /\ [][Next]_lifecycleVars
=============================================================================
