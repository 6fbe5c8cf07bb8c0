----------------------------- MODULE RunControl -----------------------------
(***************************************************************************)
(* The control plane of a queued run: the API's create and cancel handlers *)
(* (httpapi/server.go), the Asynq task of each run, the worker's handler   *)
(* and error handler (worker/worker.go), the executor and its cancellation *)
(* monitor (runexec/executor.go), the Postgres store (store/postgres.go)   *)
(* and the report's blob copy.                                             *)
(*                                                                         *)
(* Every action is one call that another process can observe: a statement  *)
(* or transaction of the store, a Put into the blob store, a move of the   *)
(* task in Redis.  Postgres writes a run's status and the event that tells *)
(* of it in two transactions, so they are two actions here.                *)
(*                                                                         *)
(* An attempt (r, k) is the k-th delivery of run r's task.  When Asynq     *)
(* gives up on a delivery (deadline, lost lease) the goroutine of          *)
(* Executor.Execute keeps going: attempts of one run can overlap.          *)
(***************************************************************************)
EXTENDS RunRecord

CONSTANTS Runs,            \* runs that clients create
          Cancellers,      \* POST /v1/runs/{id}/cancel requests
          MaxRetry,        \* asynq.MaxRetry of a run's task
          MaxFaults,       \* crashes, abandoned deliveries, enqueue errors
          MaxStoreFaults   \* store calls that fail

ASSUME RunControlAssumption ==
  /\ MaxRetry \in Nat
  /\ MaxFaults \in Nat
  /\ MaxStoreFaults \in Nat

VARIABLES rows,         \* table runs joined with table reports
          events,       \* table run_events: how many of each type per run
          blob,         \* runs/<id>/report.json in the blob store
          task,         \* the run's Asynq task
          att,          \* the executions of Executor.Execute
          create,       \* where POST /v1/runs is for each run
          cancel,       \* where each cancel request is
          faults,       \* faults that have happened
          storeFaults,  \* store calls that have failed
          slips         \* what each run has missed; read by no action

storeVars == <<rows, events>>
faultVars == <<faults, storeFaults>>
vars ==
  <<rows, events, blob, task, att, create, cancel, faults, storeFaults, slips>>

Attempts == 1 .. (MaxRetry + 1)

-----------------------------------------------------------------------------
(* State                                                                   *)

\* "failing" and "settling": asynq is in handleFailedMessage, before and
\* after the second event of HandleError.  "lost": the worker that held the
\* task is gone and its lease has to expire.
TaskStates ==
  {"none", "pending", "active", "failing", "settling", "lost",
   "completed", "archived"}

HeldStates == {"active", "failing", "settling"}

\* The steps of Execute at which it is about to make its next call.
ExecutingPcs ==
  {"load", "check", "start", "startEvent", "confirm", "run", "decide",
   "upload", "finish", "finishEvent"}

\* "done" and "failed": Execute has returned nil or an error; "dead": the
\* worker process died with it.
AttemptPcs == {"idle", "done", "failed", "dead"} \cup ExecutingPcs

Attempt ==
  [pc   : AttemptPcs,
   seen : {"none", "queued", "running"},               \* record.Status
   flag : BOOLEAN,                                     \* cancelRequested
   rep  : Reports \cup {NoReport},                     \* NoReport: err # nil
   fin  : {"none", "complete", "cancel", "error"}]     \* how it will end

\* An attempt without local state: before Execute is called and once it is
\* over.
FreshAttempt(pc) ==
  [pc |-> pc, seen |-> "none", flag |-> FALSE, rep |-> NoReport,
   fin |-> "none"]

CreatePcs ==
  {"new", "queuedEvent", "enqueue", "enqueueEmpty", "enqueueError",
   "errorEvent", "accepted", "rejected", "crashed"}

CancelPcs ==
  {"idle", "request", "finish", "canceledEvent", "accepted", "refused",
   "crashed"}

\* Failures that nobody acts on.  A call that came to nothing: CreateRun,
\* the ErrorRun of createRun, MarkRunStarted, the read after it, the call
\* that finishes a run.  "untold": an outcome was recorded and the event that
\* tells of it was not, because its writer was told of a failure or died.
SlipKinds == {"insert", "enqueueError", "start", "confirm", "finish", "untold"}

\* The type of every variable.
TypeOK ==
  /\ rows \in [Runs -> Row]
  /\ events \in [Runs -> [RunEventTypes -> Nat]]
  /\ blob \in [Runs -> Reports \cup {NoReport}]
  /\ task \in [Runs -> [state : TaskStates, retried : 0 .. MaxRetry]]
  /\ att \in [Runs -> [Attempts -> Attempt]]
  /\ create \in [Runs -> CreatePcs]
  /\ cancel \in [Cancellers -> [pc : CancelPcs, run : Runs,
                                seen : {"none", "queued", "running"}]]
  /\ faults \in 0 .. MaxFaults
  /\ storeFaults \in 0 .. MaxStoreFaults
  /\ slips \in [Runs -> SUBSET SlipKinds]

Init ==
  /\ rows = [r \in Runs |-> NoRow]
  /\ events = [r \in Runs |-> [t \in RunEventTypes |-> 0]]
  /\ blob = [r \in Runs |-> NoReport]
  /\ task = [r \in Runs |-> [state |-> "none", retried |-> 0]]
  /\ att = [r \in Runs |-> [k \in Attempts |-> FreshAttempt("idle")]]
  /\ create = [r \in Runs |-> "new"]
  /\ cancel \in [Cancellers -> [pc : {"idle"}, run : Runs, seen : {"none"}]]
  /\ faults = 0
  /\ storeFaults = 0
  /\ slips = [r \in Runs |-> {}]

-----------------------------------------------------------------------------
(* The store, as its callers meet it.  A query that fails answers "not     *)
(* found" or "not requested".  A write that fails may have happened: the   *)
(* connection or the five seconds of storeContext can end between COMMIT   *)
(* and its answer, and the caller is told of a failure all the same.       *)

Fault ==
  /\ faults < MaxFaults
  /\ faults' = faults + 1

StoreCall(ok) ==
  \/ ok /\ UNCHANGED storeFaults
  \/ ~ok /\ storeFaults < MaxStoreFaults /\ storeFaults' = storeFaults + 1

\* done: the transaction has committed; told: its caller knows.
StoreWrite(done, told) == (told => done) /\ StoreCall(told)

Slip(r, kinds) == slips' = [slips EXCEPT ![r] = @ \cup kinds]

\* What a write of run r's outcome leaves behind: the lost kinds if it comes
\* to nothing, an untold outcome if it is made and its caller does not know.
OutcomeSlip(r, done, told, lost) ==
  Slip(r, IF ~done THEN lost
          ELSE IF ~told /\ isCancelableRunStatus(rows[r].status)
               THEN {"untold"} ELSE {})

IsRunCancelRequested(r) == events[r]["cancel_requested"] > 0

\* One transaction that adds an event to the run's timeline, or loses it.
appendRunEvent(r, type) ==
  \E ok \in BOOLEAN :
    /\ StoreCall(ok)
    /\ events' = IF ok THEN [events EXCEPT ![r][type] = @ + 1] ELSE events
    /\ Slip(r, IF ~ok /\ type \in TerminalEventTypes THEN {"untold"} ELSE {})

\* The event CompleteRun, CancelRun and ErrorRun tell of an outcome with.
TerminalEvent(status) ==
  CASE status = "passed"   -> "run_completed"
    [] status = "canceled" -> "run_canceled"
    [] OTHER               -> "run_failed"

-----------------------------------------------------------------------------
(* POST /v1/runs with a queue (httpapi/server.go, createRun).              *)

\* CreateRun inserts the row; when the insert fails it returns an empty
\* record, and the handler goes on with an empty run ID.
CreateRunRow(r) ==
  /\ create[r] = "new"
  /\ \E done, told \in BOOLEAN :
       /\ StoreWrite(done, told)
       /\ rows' = IF done THEN [rows EXCEPT ![r] = CreateRun] ELSE rows
       /\ create' = [create EXCEPT ![r] = IF told THEN "queuedEvent"
                                                  ELSE "enqueueEmpty"]
       /\ Slip(r, IF told THEN {} ELSE {"insert"})
  /\ UNCHANGED <<events, blob, task, att, cancel, faults>>

QueuedEvent(r) ==
  /\ create[r] = "queuedEvent"
  /\ appendRunEvent(r, "run_queued")
  /\ create' = [create EXCEPT ![r] = "enqueue"]
  /\ UNCHANGED <<rows, blob, task, att, cancel, faults>>

EnqueueRun(r) ==
  /\ create[r] = "enqueue"
  /\ task' = [task EXCEPT ![r].state = "pending"]
  /\ create' = [create EXCEPT ![r] = "accepted"]
  /\ UNCHANGED <<storeVars, blob, att, cancel, faultVars, slips>>

\* The task of an empty run ID is refused by handleRunExecute and reaches no
\* run; the client has been answered 202.
EnqueueEmptyRun(r) ==
  /\ create[r] = "enqueueEmpty"
  /\ create' = [create EXCEPT ![r] = "accepted"]
  /\ UNCHANGED <<storeVars, blob, task, att, cancel, faultVars, slips>>

\* Or the enqueue fails: ErrorRun finds no row under the empty ID, and the
\* client is answered 503.
EnqueueEmptyRunFails(r) ==
  /\ create[r] = "enqueueEmpty"
  /\ Fault
  /\ create' = [create EXCEPT ![r] = "rejected"]
  /\ UNCHANGED <<storeVars, blob, task, att, cancel, storeFaults, slips>>

\* The client may have lost only the answer: the task can be in Redis.
EnqueueRunFails(r) ==
  /\ create[r] = "enqueue"
  /\ Fault
  /\ \E landed \in BOOLEAN :
       task' = IF landed THEN [task EXCEPT ![r].state = "pending"] ELSE task
  /\ create' = [create EXCEPT ![r] = "enqueueError"]
  /\ UNCHANGED <<storeVars, blob, att, cancel, storeFaults, slips>>

RecordEnqueueError(r) ==
  /\ create[r] = "enqueueError"
  /\ \E done, told \in BOOLEAN :
       /\ StoreWrite(done, told)
       /\ rows' = IF done THEN [rows EXCEPT ![r] = ErrorRun(@)] ELSE rows
       /\ create' = [create EXCEPT ![r] =
                       IF told /\ isCancelableRunStatus(rows[r].status)
                       THEN "errorEvent" ELSE "rejected"]
       /\ OutcomeSlip(r, done, told, {"enqueueError"})
  /\ UNCHANGED <<events, blob, task, att, cancel, faults>>

EnqueueErrorEvent(r) ==
  /\ create[r] = "errorEvent"
  /\ appendRunEvent(r, "run_failed")
  /\ create' = [create EXCEPT ![r] = "rejected"]
  /\ UNCHANGED <<rows, blob, task, att, cancel, faults>>

\* A request that the API serves has made run r's outcome and not told of it.
ToldByAPI(r) ==
  \/ create[r] = "errorEvent"
  \/ \E c \in Cancellers : cancel[c].pc = "canceledEvent" /\ cancel[c].run = r

\* The API process dies with every request it is serving.
APICrash ==
  /\ Fault
  /\ create' = [r \in Runs |->
       IF create[r] \in {"new", "accepted", "rejected"}
       THEN create[r] ELSE "crashed"]
  /\ cancel' = [c \in Cancellers |->
       IF cancel[c].pc \in {"idle", "accepted", "refused"}
       THEN cancel[c] ELSE [cancel[c] EXCEPT !.pc = "crashed"]]
  /\ <<create', cancel'>> # <<create, cancel>>
  /\ slips' = [r \in Runs |->
       slips[r] \cup (IF ToldByAPI(r) THEN {"untold"} ELSE {})]
  /\ UNCHANGED <<storeVars, blob, task, att, storeFaults>>

-----------------------------------------------------------------------------
(* POST /v1/runs/{id}/cancel (httpapi/server.go, cancelRun).  With a queue *)
(* no run executes in the API process, so requestRunCancel is always false.*)

CancelLoad(c) ==
  /\ cancel[c].pc = "idle"
  /\ \E ok \in BOOLEAN :
       LET status == rows[cancel[c].run].status IN
       /\ StoreCall(ok)
       /\ cancel' = [cancel EXCEPT ![c] =
            IF ok /\ isCancelableRunStatus(status)
            THEN [@ EXCEPT !.pc = "request", !.seen = status]
            ELSE [@ EXCEPT !.pc = "refused"]]
  /\ UNCHANGED <<storeVars, blob, task, att, create, faults, slips>>

\* One transaction: the row is locked, the request is recorded once.
RequestRunCancel(c) ==
  /\ cancel[c].pc = "request"
  /\ \E done, told \in BOOLEAN :
       LET r == cancel[c].run
           granted == isCancelableRunStatus(rows[r].status)
       IN
       /\ StoreWrite(done, told)
       /\ events' = IF done /\ granted /\ ~IsRunCancelRequested(r)
                    THEN [events EXCEPT ![r]["cancel_requested"] = @ + 1]
                    ELSE events
       /\ cancel' = [cancel EXCEPT ![c].pc = IF told /\ granted
                                             THEN "finish" ELSE "refused"]
  /\ UNCHANGED <<rows, blob, task, att, create, faults, slips>>

CancelFinishLeftToWorker(c) ==
  /\ cancel[c].pc = "finish"
  /\ cancel' = [cancel EXCEPT ![c].pc = "accepted"]
  /\ UNCHANGED <<storeVars, blob, task, att, create, faultVars, slips>>

\* A run that was queued when the request arrived is canceled here, whatever
\* has become of it since; otherwise its worker is left to do it.
CancelFinish(c) ==
  /\ cancel[c].pc = "finish"
  /\ \/ /\ cancel[c].seen = "queued"
        /\ \E done, told \in BOOLEAN :
             LET r == cancel[c].run IN
             /\ StoreWrite(done, told)
             /\ rows' = IF done
                        THEN [rows EXCEPT ![r] =
                                CancelRun(@, canceledReport("before"))]
                        ELSE rows
             /\ cancel' = [cancel EXCEPT ![c].pc =
                             IF told /\ isCancelableRunStatus(rows[r].status)
                             THEN "canceledEvent" ELSE "accepted"]
             /\ OutcomeSlip(r, done, told, {})
     \/ /\ cancel[c].seen = "running"
        /\ cancel' = [cancel EXCEPT ![c].pc = "accepted"]
        /\ UNCHANGED <<rows, storeFaults, slips>>
  /\ UNCHANGED <<events, blob, task, att, create, faults>>

CanceledEvent(c) ==
  /\ cancel[c].pc = "canceledEvent"
  /\ appendRunEvent(cancel[c].run, "run_canceled")
  /\ cancel' = [cancel EXCEPT ![c].pc = "accepted"]
  /\ UNCHANGED <<rows, blob, task, att, create, faults>>

-----------------------------------------------------------------------------
(* Executor.Execute (runexec/executor.go), attempt (r, k).                 *)

ExecUnchanged == UNCHANGED <<task, create, cancel, faults>>

LoadRunIfQueued(r, k) ==
  /\ att[r][k].pc = "load"
  /\ \E ok \in BOOLEAN :
       LET status == rows[r].status IN
       /\ StoreCall(ok)
       /\ att' = [att EXCEPT ![r][k] =
            IF ok /\ status = "queued"
            THEN [@ EXCEPT !.pc = "check", !.seen = status]
            ELSE FreshAttempt(IF ok THEN "done" ELSE "failed")]
  /\ UNCHANGED <<storeVars, blob, slips>> /\ ExecUnchanged

\* A run that already has an outcome is not executed again; a run that is
\* not found fails the attempt.
LoadRun(r, k) ==
  /\ att[r][k].pc = "load"
  /\ \E ok \in BOOLEAN :
       LET status == rows[r].status IN
       /\ StoreCall(ok)
       /\ att' = [att EXCEPT ![r][k] =
            IF ok /\ isCancelableRunStatus(status)
            THEN [@ EXCEPT !.pc = "check", !.seen = status]
            ELSE FreshAttempt(IF ok /\ isTerminalRunStatus(status)
                              THEN "done" ELSE "failed")]
  /\ UNCHANGED <<storeVars, blob, slips>> /\ ExecUnchanged

CheckCancelSkipped(r, k) ==
  /\ att[r][k].pc = "check"
  /\ att' = [att EXCEPT ![r][k].pc = IF att[r][k].seen = "queued"
                                     THEN "start" ELSE "confirm"]
  /\ UNCHANGED <<storeVars, blob, storeFaults, slips>> /\ ExecUnchanged

CheckCancel(r, k) ==
  /\ att[r][k].pc = "check"
  /\ \E ok \in BOOLEAN :
       /\ StoreCall(ok)
       /\ att' = [att EXCEPT ![r][k] =
            IF ok /\ IsRunCancelRequested(r)
            THEN [@ EXCEPT !.pc = "upload", !.fin = "cancel",
                           !.rep = canceledReport("before")]
            ELSE [@ EXCEPT !.pc = IF att[r][k].seen = "queued"
                                  THEN "start" ELSE "confirm"]]
  /\ UNCHANGED <<storeVars, blob, slips>> /\ ExecUnchanged

StartRun(r, k) ==
  /\ att[r][k].pc = "start"
  /\ \E done, told \in BOOLEAN :
       /\ StoreWrite(done, told)
       /\ rows' = IF done THEN [rows EXCEPT ![r] = MarkRunStarted(@)]
                          ELSE rows
       /\ att' = [att EXCEPT ![r][k].pc =
                    IF told /\ isCancelableRunStatus(rows[r].status)
                    THEN "startEvent" ELSE "confirm"]
       /\ Slip(r, IF done THEN {} ELSE {"start"})
  /\ UNCHANGED <<events, blob>> /\ ExecUnchanged

StartedEvent(r, k) ==
  /\ att[r][k].pc = "startEvent"
  /\ appendRunEvent(r, "run_started")
  /\ att' = [att EXCEPT ![r][k].pc = "confirm"]
  /\ UNCHANGED <<rows, blob>> /\ ExecUnchanged

\* Traffic starts only if the run is running now; otherwise Execute returns
\* nil and the task is done.
ConfirmStarted(r, k) ==
  /\ att[r][k].pc = "confirm"
  /\ \E ok \in BOOLEAN :
       /\ StoreCall(ok)
       /\ att' = [att EXCEPT ![r][k] =
            IF ok /\ rows[r].status = "running"
            THEN [@ EXCEPT !.pc = "run"] ELSE FreshAttempt("done")]
       /\ Slip(r, IF ok THEN {} ELSE {"confirm"})
  /\ UNCHANGED <<storeVars, blob>> /\ ExecUnchanged

\* A tick of monitorCancellation that finds the request: it raises the flag
\* and cancels the runner's context.
MonitorCancel(r, k) ==
  /\ att[r][k].pc \in {"run", "decide"}
  /\ ~att[r][k].flag
  /\ IsRunCancelRequested(r)
  /\ att' = [att EXCEPT ![r][k].flag = TRUE]
  /\ UNCHANGED <<storeVars, blob, storeFaults, slips>> /\ ExecUnchanged

\* RunWithOptions returns: a verdict (of partial traffic when its context
\* was canceled or timed out) or an error.
RunnerReturns(r, k) ==
  /\ att[r][k].pc = "run"
  /\ \E rep \in {RunnerReport("passed"), RunnerReport("failed"), NoReport} :
       att' = [att EXCEPT ![r][k].pc = "decide", ![r][k].rep = rep]
  /\ UNCHANGED <<storeVars, blob, storeFaults, slips>> /\ ExecUnchanged

\* Lines 70 to 84 of Execute, for an attempt whose runner has returned.
Decided(a, requested) ==
  CASE a.flag \/ requested ->
         [a EXCEPT !.pc = "upload", !.fin = "cancel",
                   !.rep = IF a.rep = NoReport THEN canceledReport("error")
                                               ELSE a.rep]
    [] ~(a.flag \/ requested) /\ a.rep = NoReport ->
         [a EXCEPT !.pc = "finish", !.fin = "error"]
    [] OTHER ->
         [a EXCEPT !.pc = "upload", !.fin = "complete"]

DecideOnFlag(r, k) ==
  /\ att[r][k].pc = "decide"
  /\ att' = [att EXCEPT ![r][k] = Decided(@, FALSE)]
  /\ UNCHANGED <<storeVars, blob, storeFaults, slips>> /\ ExecUnchanged

Decide(r, k) ==
  /\ att[r][k].pc = "decide"
  /\ \E ok \in BOOLEAN :
       /\ StoreCall(ok)
       /\ att' = [att EXCEPT ![r][k] =
                    Decided(@, ok /\ IsRunCancelRequested(r))]
  /\ UNCHANGED <<storeVars, blob, slips>> /\ ExecUnchanged

\* The blob copy is written before the run is finished, and a failed Put
\* (or an expired task context) is ignored.
UploadReport(r, k) ==
  /\ att[r][k].pc = "upload"
  /\ \E ok \in BOOLEAN :
       blob' = IF ok THEN [blob EXCEPT ![r] = att[r][k].rep] ELSE blob
  /\ att' = [att EXCEPT ![r][k].pc = "finish"]
  /\ UNCHANGED <<storeVars, storeFaults, slips>> /\ ExecUnchanged

\* What Execute returns once it has finished the run.
ReturnPc(fin) == IF fin = "error" THEN "failed" ELSE "done"

FinishedRow(row, a) ==
  CASE a.fin = "complete" -> CompleteRun(row, a.rep)
    [] a.fin = "cancel"   -> CancelRun(row, a.rep)
    [] OTHER              -> ErrorRun(row)

\* The status that the finishing call asks for.
FinishedStatus(a) ==
  CASE a.fin = "complete" -> CompletedStatus(a.rep)
    [] a.fin = "cancel"   -> "canceled"
    [] OTHER              -> "errored"

FinishRunAlwaysTelling(r, k) ==
  /\ att[r][k].pc = "finish"
  /\ rows' = [rows EXCEPT ![r] = FinishedRow(@, att[r][k])]
  /\ att' = [att EXCEPT ![r][k].pc = "finishEvent"]
  /\ UNCHANGED <<events, blob, storeFaults, slips>> /\ ExecUnchanged

FinishRunUntold(r, k) ==
  /\ att[r][k].pc = "finish"
  /\ rows' = [rows EXCEPT ![r] = FinishedRow(@, att[r][k])]
  /\ att' = [att EXCEPT ![r][k] = IF @.fin = "complete"
                                  THEN [@ EXCEPT !.pc = "finishEvent"]
                                  ELSE FreshAttempt(ReturnPc(@.fin))]
  /\ UNCHANGED <<events, blob, storeFaults, slips>> /\ ExecUnchanged

FinishRun(r, k) ==
  /\ att[r][k].pc = "finish"
  /\ \E done, told \in BOOLEAN :
       /\ StoreWrite(done, told)
       /\ rows' = IF done THEN [rows EXCEPT ![r] = FinishedRow(@, att[r][k])]
                          ELSE rows
       /\ att' = [att EXCEPT ![r][k] =
            IF told /\ isCancelableRunStatus(rows[r].status)
            THEN [@ EXCEPT !.pc = "finishEvent"]
            ELSE FreshAttempt(ReturnPc(@.fin))]
       /\ OutcomeSlip(r, done, told, IF ReturnPc(att[r][k].fin) = "done"
                                     THEN {"finish"} ELSE {})
  /\ UNCHANGED <<events, blob>> /\ ExecUnchanged

FinishedEvent(r, k) ==
  /\ att[r][k].pc = "finishEvent"
  /\ appendRunEvent(r, TerminalEvent(FinishedStatus(att[r][k])))
  /\ att' = [att EXCEPT ![r][k] = FreshAttempt(ReturnPc(@.fin))]
  /\ UNCHANGED <<rows, blob>> /\ ExecUnchanged

ExecuteStep(r, k) ==
  \/ LoadRun(r, k) \/ CheckCancel(r, k) \/ StartRun(r, k)
  \/ StartedEvent(r, k) \/ ConfirmStarted(r, k) \/ RunnerReturns(r, k)
  \/ Decide(r, k) \/ UploadReport(r, k) \/ FinishRun(r, k)
  \/ FinishedEvent(r, k)

-----------------------------------------------------------------------------
(* The run's task: Asynq (external) around handleRunExecute and            *)
(* HandleError of worker/worker.go.                                        *)

TaskUnchanged == UNCHANGED <<rows, blob, create, cancel>>

\* The attempt that a worker holds, or will hold, the task for.
Owner(r) == task[r].retried + 1

\* The handler registered with the mux has no event store, so the
\* worker_attempt_started event of handleRunExecute goes nowhere.
handleRunExecute(r) ==
  /\ task[r].state = "pending"
  /\ task' = [task EXCEPT ![r].state = "active"]
  /\ att' = [att EXCEPT ![r][Owner(r)] = FreshAttempt("load")]
  /\ UNCHANGED <<events, faultVars, slips>> /\ TaskUnchanged

TaskSucceeded(r) ==
  /\ task[r].state = "active"
  /\ att[r][Owner(r)].pc = "done"
  /\ task' = [task EXCEPT ![r].state = "completed"]
  /\ UNCHANGED <<events, att, faultVars, slips>> /\ TaskUnchanged

\* HandleError's first event, for an attempt that returned an error ...
AttemptFailed(r) ==
  /\ task[r].state = "active"
  /\ att[r][Owner(r)].pc = "failed"
  /\ appendRunEvent(r, "worker_attempt_failed")
  /\ task' = [task EXCEPT ![r].state = "failing"]
  /\ UNCHANGED <<att, faults>> /\ TaskUnchanged

\* ... or for one whose deadline passed or whose lease was lost: Asynq stops
\* waiting for it, and it goes on.
AttemptAbandoned(r) ==
  /\ task[r].state = "active"
  /\ att[r][Owner(r)].pc \in ExecutingPcs
  /\ Fault
  /\ appendRunEvent(r, "worker_attempt_failed")
  /\ task' = [task EXCEPT ![r].state = "failing"]
  /\ UNCHANGED att /\ TaskUnchanged

HandleErrorEventEarly(r) ==
  IF task[r].retried + 1 >= MaxRetry
  THEN "worker_dead_lettered" ELSE "worker_retry_scheduled"

\* HandleError's second event.
HandleErrorEvent(r) ==
  IF task[r].retried >= MaxRetry
  THEN "worker_dead_lettered" ELSE "worker_retry_scheduled"

HandleError(r) ==
  /\ task[r].state = "failing"
  /\ appendRunEvent(r, HandleErrorEvent(r))
  /\ task' = [task EXCEPT ![r].state = "settling"]
  /\ UNCHANGED <<att, faults>> /\ TaskUnchanged

RetriedUnbounded(t) == [state |-> "pending", retried |-> t.retried + 1]

\* Asynq's own decision, made after HandleError or by its recoverer.
Retried(t) ==
  IF t.retried >= MaxRetry
  THEN [t EXCEPT !.state = "archived"]
  ELSE [state |-> "pending", retried |-> t.retried + 1]

RetryOrArchive(r) ==
  /\ task[r].state = "settling"
  /\ task' = [task EXCEPT ![r] = Retried(@)]
  /\ UNCHANGED <<events, att, faultVars, slips>> /\ TaskUnchanged

\* Attempt (r, k) ends here; it may have been about to tell of an outcome.
UntoldBy(r, k) ==
  Slip(r, IF att[r][k].pc = "finishEvent" THEN {"untold"} ELSE {})

\* A worker that shuts down hands its unfinished task back, uncounted.
WorkerShutdown(r) ==
  /\ task[r].state = "active"
  /\ att[r][Owner(r)].pc \in ExecutingPcs
  /\ Fault
  /\ task' = [task EXCEPT ![r].state = "pending"]
  /\ att' = [att EXCEPT ![r][Owner(r)] = FreshAttempt("idle")]
  /\ UntoldBy(r, Owner(r))
  /\ UNCHANGED <<events, storeFaults>> /\ TaskUnchanged

\* The process of attempt (r, k) dies; if it held the task, the task is lost
\* until its lease expires.
WorkerCrash(r, k) ==
  LET held == k = Owner(r) /\ task[r].state \in HeldStates IN
  /\ held \/ att[r][k].pc \in ExecutingPcs
  /\ Fault
  /\ att' = [att EXCEPT ![r][k] = FreshAttempt("dead")]
  /\ task' = IF held THEN [task EXCEPT ![r].state = "lost"] ELSE task
  /\ UntoldBy(r, k)
  /\ UNCHANGED <<events, storeFaults>> /\ TaskUnchanged

LeaseRecovered(r) ==
  /\ task[r].state = "lost"
  /\ task' = [task EXCEPT ![r] = Retried(@)]
  /\ UNCHANGED <<events, att, faultVars, slips>> /\ TaskUnchanged

-----------------------------------------------------------------------------
CreateStep(r) ==
  \/ QueuedEvent(r) \/ EnqueueRun(r) \/ EnqueueEmptyRun(r)
  \/ RecordEnqueueError(r) \/ EnqueueErrorEvent(r)

CancelStep(c) == RequestRunCancel(c) \/ CancelFinish(c) \/ CanceledEvent(c)

TaskStep(r) ==
  \/ handleRunExecute(r) \/ TaskSucceeded(r) \/ AttemptFailed(r)
  \/ HandleError(r) \/ RetryOrArchive(r) \/ LeaseRecovered(r)

FaultStep ==
  \/ APICrash
  \/ \E r \in Runs :
       \/ EnqueueRunFails(r) \/ EnqueueEmptyRunFails(r)
       \/ AttemptAbandoned(r) \/ WorkerShutdown(r)
       \/ \E k \in Attempts : WorkerCrash(r, k)

Next ==
  \/ \E r \in Runs : CreateRunRow(r) \/ CreateStep(r) \/ TaskStep(r)
  \/ \E r \in Runs, k \in Attempts : ExecuteStep(r, k) \/ MonitorCancel(r, k)
  \/ \E c \in Cancellers : CancelLoad(c) \/ CancelStep(c)
  \/ FaultStep

Spec == Init /\ [][Next]_vars

(***************************************************************************)
(* Fairness.  A request that a handler has started on and an execution are *)
(* goroutines that do not block for ever: store calls time out after five  *)
(* seconds, and RunWithOptions returns because its context has a deadline. *)
(* Asynq keeps polling its queue and recovers expired leases.  Clients owe *)
(* nothing, the monitor may miss every tick, and no fault has to happen.   *)
(***************************************************************************)
Fairness ==
  /\ \A r \in Runs : WF_vars(CreateStep(r)) /\ WF_vars(TaskStep(r))
  /\ \A r \in Runs, k \in Attempts : WF_vars(ExecuteStep(r, k))
  /\ \A c \in Cancellers : WF_vars(CancelStep(c))

FairSpec == Spec /\ Fairness

-----------------------------------------------------------------------------
(* Properties                                                              *)

Terminal(r) == isTerminalRunStatus(rows[r].status)

\* Whatever the deliveries, retries, orphaned executions and cancel requests
\* of a run do to each other, its status behaves as the lifecycle promises:
\* guarded updates in MarkRunStarted, finishRunWithReport and ErrorRun let one
\* outcome in, and only a run that is running gets a verdict of traffic.
Lifecycle == INSTANCE RunLifecycle WITH
  status <- [r \in Runs |-> rows[r].status],
  cancelRequested <- [r \in Runs |-> IsRunCancelRequested(r)]

LifecycleSpec == Lifecycle!Spec

\* The timeline tells of one outcome at most, and of the one the run has,
\* although the event is written in a transaction after the status's.
TerminalEventsAgree ==
  \A r \in Runs :
    \A t \in TerminalEventTypes : events[r][t] > 0 =>
      /\ Terminal(r)
      /\ t = TerminalEvent(rows[r].status)
      /\ events[r][t] = 1

\* A run has a stored report exactly when its outcome comes with one, and the
\* two carry the same status (finishRunWithReport's one transaction).
ReportMatchesStatus ==
  \A r \in Runs :
    IF rows[r].status \in {"passed", "failed", "canceled"}
    THEN rows[r].report \in Reports /\ rows[r].report.status = rows[r].status
    ELSE rows[r].report = NoReport

\* "worker retries exhausted" in the timeline is never followed by another
\* delivery: HandleError's comparison agrees with the one Asynq makes later.
DeadLetterIsFinal ==
  \A r \in Runs : events[r]["worker_dead_lettered"] > 0 =>
    /\ task[r].retried = MaxRetry
    /\ task[r].state \in {"settling", "lost", "archived"}

\* Nobody is left to take run r any further.
LeftBehind(r) ==
  /\ ~Terminal(r)
  /\ create[r] \in {"accepted", "rejected", "crashed"}
  /\ task[r].state \in {"none", "completed", "archived"}
  /\ \A k \in Attempts : att[r][k].pc \notin ExecutingPcs

\* A run that nobody will take any further has an outcome, but for what it
\* has missed itself.  It never got a task: its API process died before
\* EnqueueRun, or the INSERT or the ErrorRun of createRun failed.  Its task is
\* done: Execute returned nil (lines 31, 48, 56, 78, 85) over a failed
\* MarkRunStarted, a failed read after it or a failed finishing call.  Its
\* task is archived: more deliveries were lost than it has retries.
OnlyFaultsLeaveRunsBehind ==
  \A r \in Runs : LeftBehind(r) =>
    CASE task[r].state = "none" ->
           \/ create[r] = "crashed"
           \/ slips[r] \cap {"insert", "enqueueError"} # {}
      [] task[r].state = "completed" ->
           slips[r] \cap {"start", "confirm", "finish"} # {}
      [] OTHER -> faults + storeFaults > MaxRetry

\* Somebody is about to write event t of run r: the handler of the request
\* or the execution that has given the run its outcome.
Telling(r, t) ==
  \/ create[r] = "errorEvent" /\ t = "run_failed"
  \/ \E c \in Cancellers :
       cancel[c].pc = "canceledEvent" /\ cancel[c].run = r /\ t = "run_canceled"
  \/ \E k \in Attempts :
       /\ att[r][k].pc = "finishEvent"
       /\ t = TerminalEvent(FinishedStatus(att[r][k]))

\* Whoever gives a run its outcome tells of it.  The timeline never mentions
\* the outcome only if that very writer was told that its update had failed,
\* or failed to append the event, or died before it could; no other fault, of
\* another attempt, request or run, leaves an outcome untold.
OutcomeTold ==
  \A r \in Runs :
    LET t == TerminalEvent(rows[r].status) IN
    Terminal(r) =>
      events[r][t] > 0 \/ Telling(r, t) \/ "untold" \in slips[r]

LostDeliveries(r) ==
  task[r].retried +
    (IF task[r].state \in {"failing", "settling", "lost", "archived"}
     THEN 1 ELSE 0)

\* A run without an outcome has lost no delivery but to a fault: a scenario
\* that errors is recorded by ErrorRun and uses up no second execution.
RetriesAreFaults ==
  \A r \in Runs : ~Terminal(r) => LostDeliveries(r) <= faults + storeFaults

Verdict(r) == rows[r].status \in {"passed", "failed"}

\* An execution that has passed line 70 of Execute without a cancellation.
Committed(a) == a.fin = "complete" /\ a.pc \in {"upload", "finish"}

CancelPending(r) ==
  /\ IsRunCancelRequested(r)
  /\ ~Verdict(r)
  /\ \A k \in Attempts : ~Committed(att[r][k])

\* A cancellation that is recorded before any execution has decided to
\* complete the run wins over all of them, those of later retries too.
CancelWins ==
  \A r \in Runs :
    [](CancelPending(r) => [](storeFaults = 0 => ~Verdict(r)))

\* A cancellation that is recorded while no execution is between its own
\* check (line 44) and the end of its traffic keeps all traffic away.
NoTrafficAfterCancel ==
  \A r \in Runs :
    [](/\ IsRunCancelRequested(r)
       /\ \A k \in Attempts :
            att[r][k].pc \notin {"start", "startEvent", "confirm", "run"}
       => [](storeFaults = 0 => \A k \in Attempts : att[r][k].pc # "run"))

\* A run whose creation was accepted reaches an outcome, if the store works
\* and fewer deliveries are lost than the task has.
AcceptedRunsFinish ==
  \A r \in Runs : create[r] = "accepted" ~> Terminal(r)

\* So does a run whose cancellation was accepted, even one whose creation
\* never was.
AcceptedCancelSettles ==
  \A c \in Cancellers : cancel[c].pc = "accepted" ~> Terminal(cancel[c].run)

-----------------------------------------------------------------------------
(* What the documents and tests say of queued runs, and the code does not. *)

\* GET /v1/runs/{id}/report: the blob copy, else the stored report.
ServedReport(r) == IF blob[r] # NoReport THEN blob[r] ELSE rows[r].report

\* server_test.go expects the report of a canceled run to say "canceled".
CanceledReportServed ==
  \A r \in Runs :
    rows[r].status = "canceled" => ServedReport(r).status = "canceled"
=============================================================================
