---------------------------- MODULE InProcessRun ----------------------------
(***************************************************************************)
(* Runs of a server without a queue (httpapi.New): createRun starts        *)
(* executeRun in the same process, over the memory store, and cancelRun    *)
(* reaches it through two maps under cancelMu.                             *)
(*                                                                         *)
(* Every action is one section under a mutex: of the store, which writes a *)
(* status and its event together, or of the maps.  "sync" requests differ  *)
(* only in their context, which ends when the client goes away.            *)
(***************************************************************************)
EXTENDS RunRecord

CONSTANTS Runs,         \* runs that clients create
          Cancellers    \* POST /v1/runs/{id}/cancel requests

VARIABLES rows,             \* Memory.runs
          requested,        \* runs with a cancel_requested event
          exec,             \* executeRun of each run
          runCancels,       \* keys of Server.runCancels
          cancelRequests,   \* keys of Server.cancelRequests
          stopped,          \* runs whose context is over
          cancel            \* where each cancel request is

vars == <<rows, requested, exec, runCancels, cancelRequests, stopped, cancel>>

ExecPcs ==
  {"none", "register", "start", "confirm", "abandon", "run", "unregister",
   "finish", "done"}

Exec == [pc  : ExecPcs,
         rep : Reports \cup {NoReport},     \* NoReport: err # nil
         canceled : BOOLEAN]                \* what finishRunCancel returned

CancelPcs == {"idle", "request", "signal", "stop", "finish", "accepted",
              "refused"}

\* The type of every variable.
TypeOK ==
  /\ rows \in [Runs -> Row]
  /\ requested \subseteq Runs
  /\ exec \in [Runs -> Exec]
  /\ runCancels \subseteq Runs
  /\ cancelRequests \subseteq Runs
  /\ stopped \subseteq Runs
  /\ cancel \in [Cancellers -> [pc : CancelPcs, run : Runs,
                                seen : {"none", "queued", "running"}]]

Init ==
  /\ rows = [r \in Runs |-> NoRow]
  /\ requested = {}
  /\ exec = [r \in Runs |->
               [pc |-> "none", rep |-> NoReport, canceled |-> FALSE]]
  /\ runCancels = {}
  /\ cancelRequests = {}
  /\ stopped = {}
  /\ cancel \in [Cancellers -> [pc : {"idle"}, run : Runs, seen : {"none"}]]

-----------------------------------------------------------------------------
(* POST /v1/runs and executeRun                                            *)

MapsUnchanged == UNCHANGED <<runCancels, cancelRequests>>

At(r, pc) == exec[r].pc = pc
Goto(r, pc) == exec' = [exec EXCEPT ![r].pc = pc]

CreateAndGo(r) ==
  /\ At(r, "none")
  /\ rows' = [rows EXCEPT ![r] = CreateRun]
  /\ Goto(r, "register")
  /\ MapsUnchanged /\ UNCHANGED <<requested, stopped, cancel>>

registerRunCancel(r) ==
  /\ At(r, "register")
  /\ runCancels' = runCancels \cup {r}
  /\ Goto(r, "start")
  /\ UNCHANGED <<rows, requested, cancelRequests, stopped, cancel>>

StartRun(r) ==
  /\ At(r, "start")
  /\ rows' = [rows EXCEPT ![r] = MarkRunStarted(@)]
  /\ Goto(r, "confirm")
  /\ MapsUnchanged /\ UNCHANGED <<requested, stopped, cancel>>

ConfirmStarted(r) ==
  /\ At(r, "confirm")
  /\ Goto(r, IF rows[r].status = "running" THEN "run" ELSE "abandon")
  /\ MapsUnchanged /\ UNCHANGED <<rows, requested, stopped, cancel>>

\* RunWithOptions: a verdict on what was sent, or an error.
RunnerReturns(r) ==
  /\ At(r, "run")
  /\ \E rep \in {RunnerReport("passed"), RunnerReport("failed"), NoReport} :
       exec' = [exec EXCEPT ![r].pc = "unregister", ![r].rep = rep]
  /\ MapsUnchanged /\ UNCHANGED <<rows, requested, stopped, cancel>>

finishRunCancel(r) ==
  /\ cancelRequests' = cancelRequests \ {r}
  /\ runCancels' = runCancels \ {r}

\* The run was finished before it could be started.
Abandon(r) ==
  /\ At(r, "abandon")
  /\ finishRunCancel(r)
  /\ Goto(r, "done")
  /\ UNCHANGED <<rows, requested, stopped, cancel>>

UnregisterUnlessErrored(r) ==
  /\ At(r, "unregister")
  /\ exec' = [exec EXCEPT ![r].pc = "finish",
       ![r].canceled = r \in cancelRequests /\ exec[r].rep # NoReport]
  /\ finishRunCancel(r)
  /\ UNCHANGED <<rows, requested, stopped, cancel>>

Unregister(r) ==
  /\ At(r, "unregister")
  /\ exec' = [exec EXCEPT ![r].pc = "finish",
                          ![r].canceled = r \in cancelRequests]
  /\ finishRunCancel(r)
  /\ UNCHANGED <<rows, requested, stopped, cancel>>

FinishedRow(r) ==
  LET rep == exec[r].rep
      errored == rep = NoReport
  IN
  IF exec[r].canceled
  THEN CancelRun(rows[r], IF errored THEN canceledReport("error") ELSE rep)
  ELSE IF errored THEN ErrorRun(rows[r]) ELSE CompleteRun(rows[r], rep)

FinishRun(r) ==
  /\ At(r, "finish")
  /\ rows' = [rows EXCEPT ![r] = FinishedRow(r)]
  /\ Goto(r, "done")
  /\ MapsUnchanged /\ UNCHANGED <<requested, stopped, cancel>>

\* The run's timeout, or the client of a sync request going away.
ContextEnds(r) ==
  /\ exec[r].pc \notin {"none", "register", "done"}
  /\ r \notin stopped
  /\ stopped' = stopped \cup {r}
  /\ MapsUnchanged /\ UNCHANGED <<rows, requested, exec, cancel>>

-----------------------------------------------------------------------------
(* POST /v1/runs/{id}/cancel                                               *)

CancelAt(c, pc) == cancel[c].pc = pc
CancelGoto(c, pc) == cancel' = [cancel EXCEPT ![c].pc = pc]

CancelLoad(c) ==
  LET status == rows[cancel[c].run].status IN
  /\ CancelAt(c, "idle")
  /\ status # "absent"
  /\ \/ /\ isCancelableRunStatus(status)
        /\ cancel' = [cancel EXCEPT ![c].pc = "request", ![c].seen = status]
     \/ /\ isTerminalRunStatus(status)
        /\ CancelGoto(c, "refused")
  /\ MapsUnchanged /\ UNCHANGED <<rows, requested, exec, stopped>>

RequestRunCancel(c) ==
  LET r == cancel[c].run IN
  /\ CancelAt(c, "request")
  /\ \/ /\ isCancelableRunStatus(rows[r].status)
        /\ requested' = requested \cup {r}
        /\ CancelGoto(c, "signal")
     \/ /\ ~isCancelableRunStatus(rows[r].status)
        /\ CancelGoto(c, "refused")
        /\ UNCHANGED requested
  /\ MapsUnchanged /\ UNCHANGED <<rows, exec, stopped>>

requestRunCancelRunningOnly(c) ==
  LET r == cancel[c].run IN
  /\ CancelAt(c, "signal")
  /\ cancelRequests' = IF r \in runCancels THEN cancelRequests \cup {r}
                                           ELSE cancelRequests
  /\ CancelGoto(c, IF r \in runCancels THEN "stop" ELSE "accepted")
  /\ UNCHANGED <<rows, requested, exec, runCancels, stopped>>

requestRunCancelAnyway(c) ==
  LET r == cancel[c].run IN
  /\ CancelAt(c, "signal")
  /\ cancelRequests' = cancelRequests \cup {r}
  /\ CancelGoto(c, "stop")
  /\ UNCHANGED <<rows, requested, exec, runCancels, stopped>>

\* An execution that is registered is told; a run that was read as queued and
\* is not registered is finished by the handler.
requestRunCancel(c) ==
  LET r == cancel[c].run IN
  /\ CancelAt(c, "signal")
  /\ \/ /\ r \in runCancels
        /\ cancelRequests' = cancelRequests \cup {r}
        /\ CancelGoto(c, "stop")
     \/ /\ r \notin runCancels
        /\ CancelGoto(c, IF cancel[c].seen = "queued" THEN "finish"
                                                      ELSE "accepted")
        /\ UNCHANGED cancelRequests
  /\ UNCHANGED <<rows, requested, exec, runCancels, stopped>>

\* cancel() is called after cancelMu is released.
StopContext(c) ==
  /\ CancelAt(c, "stop")
  /\ stopped' = stopped \cup {cancel[c].run}
  /\ CancelGoto(c, "accepted")
  /\ MapsUnchanged /\ UNCHANGED <<rows, requested, exec>>

CancelFinish(c) ==
  LET r == cancel[c].run IN
  /\ CancelAt(c, "finish")
  /\ rows' = [rows EXCEPT ![r] = CancelRun(@, canceledReport("before"))]
  /\ CancelGoto(c, "accepted")
  /\ MapsUnchanged /\ UNCHANGED <<requested, exec, stopped>>

ExecStep(r) ==
  \/ registerRunCancel(r) \/ StartRun(r) \/ ConfirmStarted(r)
  \/ RunnerReturns(r) \/ Abandon(r) \/ Unregister(r) \/ FinishRun(r)

CancelStep(c) ==
  \/ RequestRunCancel(c) \/ requestRunCancel(c) \/ StopContext(c)
  \/ CancelFinish(c)

Next ==
  \/ \E r \in Runs : CreateAndGo(r) \/ ExecStep(r) \/ ContextEnds(r)
  \/ \E c \in Cancellers : CancelLoad(c) \/ CancelStep(c)

Spec == Init /\ [][Next]_vars

(***************************************************************************)
(* Fairness: goroutines go on, and RunWithOptions returns because its      *)
(* context has a deadline.  Clients owe nothing.                           *)
(***************************************************************************)
FairSpec ==
  /\ Spec
  /\ \A r \in Runs : WF_vars(ExecStep(r))
  /\ \A c \in Cancellers : WF_vars(CancelStep(c))

-----------------------------------------------------------------------------
(* Properties                                                              *)

Terminal(r) == isTerminalRunStatus(rows[r].status)

\* The in-process deployment keeps the same promises as the queued one.
Lifecycle == INSTANCE RunLifecycle WITH
  status <- [r \in Runs |-> rows[r].status],
  cancelRequested <- [r \in Runs |-> r \in requested]

LifecycleSpec == Lifecycle!Spec

\* Neither map keeps a run whose execution has returned, however late its
\* cancellation comes: requestRunCancel and finishRunCancel exclude each other,
\* and only a registered execution is asked to stop.
RegistryForgets ==
  /\ cancelRequests \subseteq runCancels
  /\ \A r \in runCancels : exec[r].pc \notin {"none", "done"}

\* A cancellation that finds the execution registered wins: whatever the
\* runner returns, an error included, the run ends canceled.
SignaledRunsEndCanceled ==
  \A r \in Runs :
    [](r \in cancelRequests =>
         [](Terminal(r) => rows[r].status = "canceled"))

\* Every run that was created reaches an outcome, whoever cancels it meanwhile.
RunsFinish == \A r \in Runs : rows[r].status # "absent" ~> Terminal(r)

\* A request for a run it has read as queued is never dropped between the two
\* maps and the store: once accepted, the run is over or its context is.
QueuedCancelSettles ==
  \A c \in Cancellers :
    cancel[c].pc = "accepted" /\ cancel[c].seen = "queued" =>
      Terminal(cancel[c].run) \/ cancel[c].run \in stopped
=============================================================================
