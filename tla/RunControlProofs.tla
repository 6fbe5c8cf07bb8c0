-------------------------- MODULE RunControlProofs --------------------------
(***************************************************************************)
(* Proofs about RunControl, for every set of runs and cancel requests and  *)
(* every bound on retries and faults: its types, that the stored reports   *)
(* match their runs, and that it implements RunLifecycle; then what        *)
(* involves several actors at once: what the deliveries of a run leave     *)
(* behind, which outcomes are told and how, and what a cancellation that   *)
(* is recorded in time guarantees.                                         *)
(***************************************************************************)
EXTENDS RunControl, TLAPS

\* Lemma: the attempt a task is held for is one of the attempts.
LEMMA OwnerType ==
  ASSUME TypeOK, NEW r \in Runs
  PROVE  Owner(r) \in Attempts
BY RunControlAssumption DEF TypeOK, Owner, Attempts

\* Lemma: an attempt without local state is an attempt.
LEMMA FreshAttemptType ==
  ASSUME NEW pc \in AttemptPcs
  PROVE  FreshAttempt(pc) \in Attempt
BY DEF FreshAttempt, Attempt

\* Lemma: the reports that the code builds are reports.
LEMMA BuiltReports ==
  /\ RunnerReport("passed") \in Reports
  /\ RunnerReport("failed") \in Reports
  /\ canceledReport("before") \in Reports
  /\ canceledReport("error") \in Reports
  /\ NoReport \notin Reports
BY DEF RunnerReport, canceledReport, Reports, NoReport

\* Lemma: the store's operations keep a row a row.
LEMMA RowOperations ==
  ASSUME NEW row \in Row
  PROVE  /\ CreateRun \in Row
         /\ MarkRunStarted(row) \in Row
         /\ ErrorRun(row) \in Row
         /\ \A rep \in Reports :
              CompleteRun(row, rep) \in Row /\ CancelRun(row, rep) \in Row
<1>1. \A rep \in Reports, s \in {"passed", "failed", "canceled"} :
        finishRunWithReport(row, s, rep) \in Row
  BY DEF finishRunWithReport, Row, Reports, RunStatus, TerminalStatuses
<1>2. QED
  BY <1>1 DEF CreateRun, MarkRunStarted, ErrorRun, CompleteRun, CancelRun,
    CompletedStatus, Row, RunStatus, TerminalStatuses

\* Lemma: what Asynq does with a failed delivery keeps the retry count.
LEMMA RetriedType ==
  ASSUME NEW t \in [state : TaskStates, retried : 0 .. MaxRetry]
  PROVE  Retried(t) \in [state : TaskStates, retried : 0 .. MaxRetry]
BY RunControlAssumption DEF Retried, TaskStates

-----------------------------------------------------------------------------
(* Types.  TypeOK alone is not inductive: an execution about to complete   *)
(* or cancel its run has to hold a report.                                 *)

\* The steps at which Execute knows how it will finish the run.
FinishingPcs == {"upload", "finish", "finishEvent"}

LocalOK(a) ==
  /\ a.fin # "none" <=> a.pc \in FinishingPcs
  /\ a.fin \in {"complete", "cancel"} => a.rep \in Reports

ReportReady == \A r \in Runs, k \in Attempts : LocalOK(att[r][k])

TypeInv == TypeOK /\ ReportReady

\* Lemma: a system that has served no request is well typed.
LEMMA TypeInit == Init => TypeInv
<1> SUFFICES ASSUME Init PROVE TypeInv
  OBVIOUS
<1>1. rows \in [Runs -> Row] /\ blob \in [Runs -> Reports \cup {NoReport}]
  BY DEF Init, NoRow, Row, RunStatus, TerminalStatuses
<1>2. att \in [Runs -> [Attempts -> Attempt]]
  BY FreshAttemptType DEF Init, AttemptPcs
<1>3. ReportReady
  BY DEF Init, ReportReady, FreshAttempt, LocalOK, FinishingPcs
<1>4. cancel \in [Cancellers -> [pc : CancelPcs, run : Runs,
                                 seen : {"none", "queued", "running"}]]
  BY DEF Init, CancelPcs
<1>5. QED
  BY <1>1, <1>2, <1>3, <1>4, RunControlAssumption
  DEF Init, TypeInv, TypeOK, TaskStates, CreatePcs, SlipKinds

\* Lemma: a store call that fails is counted up to its bound.
LEMMA StoreCallType ==
  ASSUME TypeOK, NEW ok \in BOOLEAN, StoreCall(ok)
  PROVE  storeFaults' \in 0 .. MaxStoreFaults
BY RunControlAssumption DEF TypeOK, StoreCall

\* Lemma: and a write that failed, whether it happened or not.
LEMMA StoreWriteType ==
  ASSUME TypeOK, NEW done \in BOOLEAN, NEW told \in BOOLEAN,
         StoreWrite(done, told)
  PROVE  storeFaults' \in 0 .. MaxStoreFaults
BY StoreCallType DEF StoreWrite

\* Lemma: so is a fault.
LEMMA FaultType ==
  ASSUME TypeOK, Fault
  PROVE  faults' \in 0 .. MaxFaults
BY RunControlAssumption DEF TypeOK, Fault

\* Lemma: one more event is a timeline still.
LEMMA OneMoreEvent ==
  ASSUME TypeOK, NEW r \in Runs, NEW t \in RunEventTypes
  PROVE  [events EXCEPT ![r][t] = @ + 1] \in [Runs -> [RunEventTypes -> Nat]]
BY DEF TypeOK

\* Lemma: appending an event keeps the timelines' type.
LEMMA AppendType ==
  ASSUME TypeOK, NEW r \in Runs, NEW t \in RunEventTypes, appendRunEvent(r, t)
  PROVE  /\ events' \in [Runs -> [RunEventTypes -> Nat]]
         /\ storeFaults' \in 0 .. MaxStoreFaults
<1>1. PICK ok \in BOOLEAN :
        /\ StoreCall(ok)
        /\ events' = IF ok THEN [events EXCEPT ![r][t] = @ + 1] ELSE events
  BY DEF appendRunEvent
<1>2. storeFaults' \in 0 .. MaxStoreFaults
  BY <1>1, StoreCallType
<1>3. QED
  BY <1>1, <1>2, OneMoreEvent DEF TypeOK

\* Slips are of the known kinds, and are never forgotten.
SlipsKept ==
  /\ slips' \in [Runs -> SUBSET SlipKinds]
  /\ \A q \in Runs : slips[q] \subseteq slips'[q]

\* Lemma: adding to a run's slips keeps them all.
LEMMA SlipKeeps ==
  ASSUME TypeOK, NEW r \in Runs, NEW kinds \in SUBSET SlipKinds, Slip(r, kinds)
  PROVE  SlipsKept
BY DEF TypeOK, Slip, SlipsKept

\* Lemma: so does a write of a run's outcome.
LEMMA OutcomeSlipKeeps ==
  ASSUME TypeOK, NEW r \in Runs, NEW done \in BOOLEAN, NEW told \in BOOLEAN,
         NEW lost \in SUBSET SlipKinds, OutcomeSlip(r, done, told, lost)
  PROVE  SlipsKept
<1>1. PICK kinds \in {lost, {"untold"}, {}} : Slip(r, kinds)
  BY DEF OutcomeSlip
<1>2. kinds \in SUBSET SlipKinds
  BY DEF SlipKinds
<1>3. QED
  BY <1>1, <1>2, SlipKeeps

\* Lemma: and an event, written or lost.
LEMMA AppendSlips ==
  ASSUME TypeOK, NEW r \in Runs, NEW t, appendRunEvent(r, t)
  PROVE  SlipsKept
<1>1. PICK kinds \in {{"untold"}, {}} : Slip(r, kinds)
  BY DEF appendRunEvent
<1>2. kinds \in SUBSET SlipKinds
  BY DEF SlipKinds
<1>3. QED
  BY <1>1, <1>2, SlipKeeps

\* Lemma: so does every step.
LEMMA SlipStep ==
  ASSUME TypeOK, Next
  PROVE  SlipsKept
<1>1. CASE UNCHANGED slips
  BY <1>1 DEF TypeOK, SlipsKept
<1>2. ASSUME NEW r \in Runs, CreateRunRow(r) \/ CreateStep(r)
      PROVE  SlipsKept
  <2>1. CASE CreateRunRow(r)
    <3>1. PICK kinds \in {{"insert"}, {}} : Slip(r, kinds)
      BY <2>1 DEF CreateRunRow
    <3>2. QED
      BY <3>1, SlipKeeps DEF SlipKinds
  <2>2. CASE RecordEnqueueError(r)
    BY <2>2, OutcomeSlipKeeps DEF RecordEnqueueError, SlipKinds
  <2>3. CASE QueuedEvent(r) \/ EnqueueErrorEvent(r)
    BY <2>3, AppendSlips DEF QueuedEvent, EnqueueErrorEvent
  <2>4. CASE EnqueueRun(r) \/ EnqueueEmptyRun(r)
    BY <1>1, <2>4 DEF EnqueueRun, EnqueueEmptyRun
  <2>5. QED
    BY <1>2, <2>1, <2>2, <2>3, <2>4 DEF CreateStep
<1>3. ASSUME NEW r \in Runs, TaskStep(r)
      PROVE  SlipsKept
  <2>1. CASE AttemptFailed(r) \/ HandleError(r)
    BY <2>1, AppendSlips DEF AttemptFailed, HandleError
  <2>2. CASE ~(AttemptFailed(r) \/ HandleError(r))
    BY <1>1, <1>3, <2>2 DEF TaskStep, handleRunExecute, TaskSucceeded,
      RetryOrArchive, LeaseRecovered
  <2>3. QED
    BY <2>1, <2>2
<1>4. ASSUME NEW r \in Runs, NEW k \in Attempts,
             ExecuteStep(r, k) \/ MonitorCancel(r, k)
      PROVE  SlipsKept
  <2>1. CASE StartedEvent(r, k) \/ FinishedEvent(r, k)
    BY <2>1, AppendSlips DEF StartedEvent, FinishedEvent
  <2>2. CASE StartRun(r, k) \/ ConfirmStarted(r, k)
    <3>1. PICK kinds \in {{"start"}, {"confirm"}, {}} : Slip(r, kinds)
      BY <2>2 DEF StartRun, ConfirmStarted
    <3>2. QED
      BY <3>1, SlipKeeps DEF SlipKinds
  <2>3. CASE FinishRun(r, k)
    <3>1. \E done, told \in BOOLEAN, lost \in {{"finish"}, {}} :
            OutcomeSlip(r, done, told, lost)
      BY <2>3 DEF FinishRun
    <3>2. QED
      BY <3>1, OutcomeSlipKeeps DEF SlipKinds
  <2>4. CASE \/ LoadRun(r, k) \/ CheckCancel(r, k) \/ RunnerReturns(r, k)
             \/ Decide(r, k) \/ UploadReport(r, k) \/ MonitorCancel(r, k)
    BY <1>1, <2>4 DEF LoadRun, CheckCancel, RunnerReturns, Decide,
      UploadReport, MonitorCancel
  <2>5. QED
    BY <1>4, <2>1, <2>2, <2>3, <2>4 DEF ExecuteStep
<1>5. ASSUME NEW c \in Cancellers, CancelLoad(c) \/ CancelStep(c)
      PROVE  SlipsKept
  <2>1. cancel[c].run \in Runs
    BY DEF TypeOK
  <2>2. CASE CancelLoad(c) \/ RequestRunCancel(c)
    BY <1>1, <2>2 DEF CancelLoad, RequestRunCancel
  <2>3. CASE CancelFinish(c)
    <3>1. UNCHANGED slips \/ \E done, told \in BOOLEAN :
            OutcomeSlip(cancel[c].run, done, told, {})
      BY <2>3 DEF CancelFinish
    <3>2. QED
      BY <1>1, <2>1, <3>1, OutcomeSlipKeeps
  <2>4. CASE CanceledEvent(c)
    BY <2>1, <2>4, AppendSlips DEF CanceledEvent
  <2>5. QED
    BY <1>5, <2>2, <2>3, <2>4 DEF CancelStep
<1>6. ASSUME FaultStep
      PROVE  SlipsKept
  <2>1. CASE APICrash
    BY <2>1 DEF APICrash, TypeOK, SlipsKept, SlipKinds
  <2>2. ASSUME NEW r \in Runs, EnqueueRunFails(r) \/ EnqueueEmptyRunFails(r)
        PROVE  SlipsKept
    BY <1>1, <2>2 DEF EnqueueRunFails, EnqueueEmptyRunFails
  <2>3. ASSUME NEW r \in Runs, AttemptAbandoned(r)
        PROVE  SlipsKept
    BY <2>3, AppendSlips DEF AttemptAbandoned
  <2>4. ASSUME NEW r \in Runs, NEW k, UntoldBy(r, k)
        PROVE  SlipsKept
    <3>1. PICK kinds \in {{"untold"}, {}} : Slip(r, kinds)
      BY <2>4 DEF UntoldBy
    <3>2. QED
      BY <3>1, SlipKeeps DEF SlipKinds
  <2>5. QED
    BY <1>6, <2>1, <2>2, <2>3, <2>4 DEF FaultStep, WorkerShutdown, WorkerCrash
<1>7. QED
  BY <1>2, <1>3, <1>4, <1>5, <1>6 DEF Next

\* Lemma: the handlers of POST /v1/runs keep the types.
LEMMA CreateType ==
  ASSUME TypeInv, NEW r \in Runs, CreateRunRow(r) \/ CreateStep(r)
  PROVE  TypeInv'
<1>s. slips' \in [Runs -> SUBSET SlipKinds]
  <2>1. Next
    BY DEF Next
  <2>2. QED
    BY <2>1, SlipStep DEF TypeInv, SlipsKept
<1>1. CASE CreateRunRow(r)
  <2>1. PICK done \in BOOLEAN, told \in BOOLEAN :
          /\ StoreWrite(done, told)
          /\ rows' = IF done THEN [rows EXCEPT ![r] = CreateRun] ELSE rows
          /\ create' = [create EXCEPT ![r] = IF told THEN "queuedEvent"
                                                   ELSE "enqueueEmpty"]
    BY <1>1 DEF CreateRunRow
  <2>2. storeFaults' \in 0 .. MaxStoreFaults
    BY <2>1, StoreWriteType DEF TypeInv
  <2>3. rows' \in [Runs -> Row]
    BY <2>1, RowOperations DEF TypeInv, TypeOK
  <2>4. QED
    BY <1>s, <1>1, <2>1, <2>2, <2>3
    DEF CreateRunRow, TypeInv, TypeOK, ReportReady, CreatePcs
<1>2. CASE QueuedEvent(r)
  <2>1. "run_queued" \in RunEventTypes
    BY DEF RunEventTypes
  <2>2. QED
    BY <1>s, <1>2, <2>1, AppendType
    DEF QueuedEvent, TypeInv, TypeOK, ReportReady, CreatePcs
<1>3a. CASE EnqueueRun(r)
  <2>1. task' \in [Runs -> [state : TaskStates, retried : 0 .. MaxRetry]]
    BY <1>3a DEF EnqueueRun, TypeInv, TypeOK, TaskStates
  <2>2. create' \in [Runs -> CreatePcs]
    BY <1>3a DEF EnqueueRun, TypeInv, TypeOK, CreatePcs
  <2>3. QED
    BY <1>3a, <2>1, <2>2
    DEF EnqueueRun, storeVars, faultVars, TypeInv, TypeOK, ReportReady
<1>3b. CASE EnqueueEmptyRun(r)
  <2>1. create' \in [Runs -> CreatePcs]
    BY <1>3b DEF EnqueueEmptyRun, TypeInv, TypeOK, CreatePcs
  <2>2. QED
    BY <1>3b, <2>1
    DEF EnqueueEmptyRun, storeVars, faultVars, TypeInv, TypeOK, ReportReady
<1>4. CASE RecordEnqueueError(r)
  <2>1. PICK done \in BOOLEAN, told \in BOOLEAN :
          /\ StoreWrite(done, told)
          /\ rows' = IF done THEN [rows EXCEPT ![r] = ErrorRun(@)] ELSE rows
          /\ create' = [create EXCEPT ![r] =
                          IF told /\ isCancelableRunStatus(rows[r].status)
                          THEN "errorEvent" ELSE "rejected"]
    BY <1>4 DEF RecordEnqueueError
  <2>2. storeFaults' \in 0 .. MaxStoreFaults
    BY <2>1, StoreWriteType DEF TypeInv
  <2>3. rows' \in [Runs -> Row]
    BY <2>1, RowOperations DEF TypeInv, TypeOK
  <2>4. create' \in [Runs -> CreatePcs]
    BY <2>1 DEF TypeInv, TypeOK, CreatePcs
  <2>5. QED
    BY <1>s, <1>4, <2>2, <2>3, <2>4
    DEF RecordEnqueueError, TypeInv, TypeOK, ReportReady
<1>5. CASE EnqueueErrorEvent(r)
  <2>1. "run_failed" \in RunEventTypes
    BY DEF RunEventTypes
  <2>2. QED
    BY <1>s, <1>5, <2>1, AppendType
    DEF EnqueueErrorEvent, TypeInv, TypeOK, ReportReady, CreatePcs
<1>6. QED
  BY <1>1, <1>2, <1>3a, <1>3b, <1>4, <1>5 DEF CreateStep

\* Lemma: replacing one attempt by one that holds what it needs keeps the
\* types of the attempts.
LEMMA AttemptUpdate ==
  ASSUME TypeInv, NEW r \in Runs, NEW k \in Attempts, NEW a \in Attempt,
         LocalOK(a), att' = [att EXCEPT ![r][k] = a]
  PROVE  att' \in [Runs -> [Attempts -> Attempt]] /\ ReportReady'
BY DEF TypeInv, TypeOK, ReportReady

\* Lemma: moving an execution on keeps the types of the attempts.
LEMMA AttemptMoves ==
  ASSUME TypeInv, NEW r \in Runs, NEW k \in Attempts, NEW pc \in AttemptPcs,
         pc \in FinishingPcs <=> att[r][k].pc \in FinishingPcs,
         att' = [att EXCEPT ![r][k].pc = pc]
  PROVE  att' \in [Runs -> [Attempts -> Attempt]] /\ ReportReady'
<1> DEFINE a == [att[r][k] EXCEPT !.pc = pc]
<1>1. att[r][k] \in Attempt /\ LocalOK(att[r][k])
  BY DEF TypeInv, TypeOK, ReportReady
<1>2. a \in Attempt /\ LocalOK(a)
  BY <1>1 DEF Attempt, LocalOK
<1>3. att' = [att EXCEPT ![r][k] = a]
  BY DEF TypeInv, TypeOK
<1>4. QED
  BY <1>2, <1>3, AttemptUpdate

\* Lemma: an execution that ends keeps the types of the attempts.
LEMMA AttemptEnds ==
  ASSUME TypeInv, NEW r \in Runs, NEW k \in Attempts,
         NEW pc \in AttemptPcs \ FinishingPcs,
         att' = [att EXCEPT ![r][k] = FreshAttempt(pc)]
  PROVE  att' \in [Runs -> [Attempts -> Attempt]] /\ ReportReady'
<1>1. LocalOK(FreshAttempt(pc))
  BY DEF FreshAttempt, LocalOK
<1>2. QED
  BY <1>1, AttemptUpdate, FreshAttemptType

\* Lemma: the executor's steps keep the types.
LEMMA ExecuteType ==
  ASSUME TypeInv, NEW r \in Runs, NEW k \in Attempts,
         ExecuteStep(r, k) \/ MonitorCancel(r, k)
  PROVE  TypeInv'
<1> DEFINE attOK == att' \in [Runs -> [Attempts -> Attempt]] /\ ReportReady'
<1> USE DEF FinishingPcs
<1>0. att[r][k] \in Attempt /\ TypeOK /\ LocalOK(att[r][k])
  BY DEF TypeInv, TypeOK, ReportReady
<1>s. slips' \in [Runs -> SUBSET SlipKinds]
  <2>1. Next
    BY DEF Next
  <2>2. QED
    BY <2>1, SlipStep DEF TypeInv, SlipsKept
<1>1. CASE LoadRun(r, k)
  <2>1. PICK ok \in BOOLEAN :
          /\ StoreCall(ok)
          /\ att' = [att EXCEPT ![r][k] =
               IF ok /\ isCancelableRunStatus(rows[r].status)
               THEN [@ EXCEPT !.pc = "check", !.seen = rows[r].status]
               ELSE FreshAttempt(IF ok /\ isTerminalRunStatus(rows[r].status)
                                 THEN "done" ELSE "failed")]
    BY <1>1 DEF LoadRun
  <2>2. attOK
    <3>1. CASE ok /\ isCancelableRunStatus(rows[r].status)
      <4> DEFINE a == [att[r][k] EXCEPT !.pc = "check",
                                        !.seen = rows[r].status]
      <4>1. a \in Attempt /\ LocalOK(a)
        BY <1>0, <1>1, <3>1
        DEF LoadRun, LocalOK, Attempt, AttemptPcs, ExecutingPcs,
          isCancelableRunStatus
      <4>2. att' = [att EXCEPT ![r][k] = a]
        BY <2>1, <3>1, <1>0 DEF TypeOK
      <4>3. QED
        BY <4>1, <4>2, AttemptUpdate
    <3>2. CASE ~(ok /\ isCancelableRunStatus(rows[r].status))
      <4>1. PICK pc \in {"done", "failed"} :
              att' = [att EXCEPT ![r][k] = FreshAttempt(pc)]
        BY <2>1, <3>2
      <4>2. QED
        BY <4>1, AttemptEnds DEF AttemptPcs
    <3>3. QED
      BY <3>1, <3>2
  <2>3. storeFaults' \in 0 .. MaxStoreFaults
    BY <1>0, <2>1, StoreCallType
  <2>4. QED
    BY <1>1, <2>2, <2>3
    DEF LoadRun, ExecUnchanged, storeVars, TypeInv, TypeOK
<1>2. CASE CheckCancel(r, k)
  <2>1. PICK ok \in BOOLEAN :
          /\ StoreCall(ok)
          /\ att' = [att EXCEPT ![r][k] =
               IF ok /\ IsRunCancelRequested(r)
               THEN [@ EXCEPT !.pc = "upload", !.fin = "cancel",
                              !.rep = canceledReport("before")]
               ELSE [@ EXCEPT !.pc = IF att[r][k].seen = "queued"
                                     THEN "start" ELSE "confirm"]]
    BY <1>2 DEF CheckCancel
  <2>2. attOK
    <3>1. CASE ok /\ IsRunCancelRequested(r)
      <4> DEFINE a == [att[r][k] EXCEPT !.pc = "upload", !.fin = "cancel",
                                        !.rep = canceledReport("before")]
      <4>1. a \in Attempt /\ LocalOK(a)
        BY <1>0, BuiltReports DEF LocalOK, Attempt, AttemptPcs, ExecutingPcs
      <4>2. att' = [att EXCEPT ![r][k] = a]
        BY <2>1, <3>1, <1>0 DEF TypeOK
      <4>3. QED
        BY <4>1, <4>2, AttemptUpdate
    <3>2. CASE ~(ok /\ IsRunCancelRequested(r))
      <4>1. PICK pc \in {"start", "confirm"} :
              att' = [att EXCEPT ![r][k] = [@ EXCEPT !.pc = pc]]
        BY <2>1, <3>2
      <4>2. att' = [att EXCEPT ![r][k].pc = pc]
        BY <4>1
      <4>3. QED
        BY <1>2, <4>2, AttemptMoves DEF CheckCancel, AttemptPcs, ExecutingPcs
    <3>3. QED
      BY <3>1, <3>2
  <2>3. storeFaults' \in 0 .. MaxStoreFaults
    BY <1>0, <2>1, StoreCallType
  <2>4. QED
    BY <1>2, <2>2, <2>3
    DEF CheckCancel, ExecUnchanged, storeVars, TypeInv, TypeOK
<1>3. CASE StartRun(r, k)
  <2>1. PICK done \in BOOLEAN, told \in BOOLEAN :
          /\ StoreWrite(done, told)
          /\ rows' = IF done THEN [rows EXCEPT ![r] = MarkRunStarted(@)]
                           ELSE rows
          /\ att' = [att EXCEPT ![r][k].pc =
                       IF told /\ isCancelableRunStatus(rows[r].status)
                       THEN "startEvent" ELSE "confirm"]
    BY <1>3 DEF StartRun
  <2>2. attOK
    BY <1>3, <2>1, AttemptMoves DEF StartRun, AttemptPcs, ExecutingPcs
  <2>3. storeFaults' \in 0 .. MaxStoreFaults
    BY <1>0, <2>1, StoreWriteType
  <2>4. rows' \in [Runs -> Row]
    BY <1>0, <2>1, RowOperations DEF TypeOK
  <2>5. QED
    BY <1>s, <1>3, <2>2, <2>3, <2>4
    DEF StartRun, ExecUnchanged, TypeInv, TypeOK
<1>4. CASE StartedEvent(r, k)
  <2>1. attOK
    BY <1>4, AttemptMoves DEF StartedEvent, AttemptPcs, ExecutingPcs
  <2>2. "run_started" \in RunEventTypes
    BY DEF RunEventTypes
  <2>3. QED
    BY <1>s, <1>0, <1>4, <2>1, <2>2, AppendType
    DEF StartedEvent, ExecUnchanged, TypeInv, TypeOK
<1>5. CASE ConfirmStarted(r, k)
  <2>1. PICK ok \in BOOLEAN :
          /\ StoreCall(ok)
          /\ att' = [att EXCEPT ![r][k] =
               IF ok /\ rows[r].status = "running"
               THEN [@ EXCEPT !.pc = "run"] ELSE FreshAttempt("done")]
    BY <1>5 DEF ConfirmStarted
  <2>2. attOK
    <3>1. CASE ok /\ rows[r].status = "running"
      <4>1. att' = [att EXCEPT ![r][k].pc = "run"]
        BY <2>1, <3>1
      <4>2. QED
        BY <1>5, <4>1, AttemptMoves
        DEF ConfirmStarted, AttemptPcs, ExecutingPcs
    <3>2. CASE ~(ok /\ rows[r].status = "running")
      BY <2>1, <3>2, AttemptEnds DEF AttemptPcs
    <3>3. QED
      BY <3>1, <3>2
  <2>3. storeFaults' \in 0 .. MaxStoreFaults
    BY <1>0, <2>1, StoreCallType
  <2>4. QED
    BY <1>s, <1>5, <2>2, <2>3
    DEF ConfirmStarted, ExecUnchanged, storeVars, TypeInv, TypeOK
<1>6. CASE MonitorCancel(r, k)
  <2> DEFINE a == [att[r][k] EXCEPT !.flag = TRUE]
  <2>1. a \in Attempt /\ LocalOK(a)
    BY <1>0 DEF Attempt, LocalOK
  <2>2. att' = [att EXCEPT ![r][k] = a]
    BY <1>0, <1>6 DEF MonitorCancel, TypeOK
  <2>3. attOK
    BY <2>1, <2>2, AttemptUpdate
  <2>4. QED
    BY <1>6, <2>3
    DEF MonitorCancel, ExecUnchanged, storeVars, TypeInv, TypeOK
<1>7. CASE RunnerReturns(r, k)
  <2>1. PICK rep \in {RunnerReport("passed"), RunnerReport("failed"),
                      NoReport} :
          att' = [att EXCEPT ![r][k].pc = "decide", ![r][k].rep = rep]
    BY <1>7 DEF RunnerReturns
  <2> DEFINE a == [att[r][k] EXCEPT !.pc = "decide", !.rep = rep]
  <2>2. a \in Attempt /\ LocalOK(a)
    BY <1>0, <1>7, BuiltReports
    DEF RunnerReturns, LocalOK, Attempt, AttemptPcs, ExecutingPcs
  <2>3. att' = [att EXCEPT ![r][k] = a]
    BY <1>0, <2>1 DEF TypeOK
  <2>4. attOK
    BY <2>2, <2>3, AttemptUpdate
  <2>5. QED
    BY <1>7, <2>4
    DEF RunnerReturns, ExecUnchanged, storeVars, TypeInv, TypeOK
<1>8. CASE Decide(r, k)
  <2>1. PICK ok \in BOOLEAN :
          /\ StoreCall(ok)
          /\ att' = [att EXCEPT ![r][k] =
                       Decided(@, ok /\ IsRunCancelRequested(r))]
    BY <1>8 DEF Decide
  <2> DEFINE requested == ok /\ IsRunCancelRequested(r)
             a == Decided(att[r][k], requested)
  <2>2. a \in Attempt /\ LocalOK(a)
    BY <1>0, BuiltReports
    DEF Decided, LocalOK, Attempt, AttemptPcs, ExecutingPcs
  <2>3. att' = [att EXCEPT ![r][k] = a]
    BY <2>1
  <2>4. attOK
    BY <2>2, <2>3, AttemptUpdate
  <2>5. storeFaults' \in 0 .. MaxStoreFaults
    BY <1>0, <2>1, StoreCallType
  <2>6. QED
    BY <1>8, <2>4, <2>5
    DEF Decide, ExecUnchanged, storeVars, TypeInv, TypeOK
<1>9. CASE UploadReport(r, k)
  <2>1. blob' \in [Runs -> Reports \cup {NoReport}]
    BY <1>0, <1>9 DEF UploadReport, TypeOK, Attempt
  <2>2. attOK
    BY <1>9, AttemptMoves DEF UploadReport, AttemptPcs, ExecutingPcs
  <2>3. QED
    BY <1>9, <2>1, <2>2
    DEF UploadReport, ExecUnchanged, storeVars, TypeInv, TypeOK
<1>10. CASE FinishRun(r, k)
  <2>1. PICK done \in BOOLEAN, told \in BOOLEAN :
          /\ StoreWrite(done, told)
          /\ rows' = IF done THEN [rows EXCEPT ![r] = FinishedRow(@, att[r][k])]
                           ELSE rows
          /\ att' = [att EXCEPT ![r][k] =
               IF told /\ isCancelableRunStatus(rows[r].status)
               THEN [@ EXCEPT !.pc = "finishEvent"]
               ELSE FreshAttempt(ReturnPc(@.fin))]
    BY <1>10 DEF FinishRun
  <2>2. FinishedRow(rows[r], att[r][k]) \in Row
    BY <1>0, RowOperations DEF FinishedRow, TypeOK, LocalOK
  <2>3. rows' \in [Runs -> Row]
    BY <1>0, <2>1, <2>2 DEF TypeOK
  <2>4. attOK
    <3>1. CASE told /\ isCancelableRunStatus(rows[r].status)
      <4>1. att' = [att EXCEPT ![r][k].pc = "finishEvent"]
        BY <2>1, <3>1
      <4>2. QED
        BY <1>10, <4>1, AttemptMoves DEF FinishRun, AttemptPcs, ExecutingPcs
    <3>2. CASE ~(told /\ isCancelableRunStatus(rows[r].status))
      <4>1. PICK pc \in {"done", "failed"} :
              att' = [att EXCEPT ![r][k] = FreshAttempt(pc)]
        BY <2>1, <3>2 DEF ReturnPc
      <4>2. QED
        BY <4>1, AttemptEnds DEF AttemptPcs
    <3>3. QED
      BY <3>1, <3>2
  <2>5. storeFaults' \in 0 .. MaxStoreFaults
    BY <1>0, <2>1, StoreWriteType
  <2>6. QED
    BY <1>s, <1>10, <2>3, <2>4, <2>5
    DEF FinishRun, ExecUnchanged, TypeInv, TypeOK
<1>11. CASE FinishedEvent(r, k)
  <2>1. PICK pc \in {"done", "failed"} :
          att' = [att EXCEPT ![r][k] = FreshAttempt(pc)]
    BY <1>11 DEF FinishedEvent, ReturnPc
  <2>2. attOK
    BY <2>1, AttemptEnds DEF AttemptPcs
  <2>3. TerminalEvent(FinishedStatus(att[r][k])) \in RunEventTypes
    BY DEF TerminalEvent, RunEventTypes
  <2>4. QED
    BY <1>s, <1>0, <1>11, <2>2, <2>3, AppendType
    DEF FinishedEvent, ExecUnchanged, TypeInv, TypeOK
<1>12. QED
  BY <1>1, <1>2, <1>3, <1>4, <1>5, <1>6, <1>7, <1>8, <1>9, <1>10, <1>11
  DEF ExecuteStep

\* Lemma: moving a cancel request on keeps the type of the requests.
LEMMA CancelMoves ==
  ASSUME TypeOK, NEW c \in Cancellers, NEW pc \in CancelPcs,
         cancel' = [cancel EXCEPT ![c].pc = pc]
  PROVE  cancel' \in [Cancellers -> [pc : CancelPcs, run : Runs,
                                     seen : {"none", "queued", "running"}]]
BY DEF TypeOK

\* Lemma: the cancel handler's steps keep the types.
LEMMA CancelType ==
  ASSUME TypeInv, NEW c \in Cancellers, CancelLoad(c) \/ CancelStep(c)
  PROVE  TypeInv'
<1> DEFINE r == cancel[c].run
           CancelRecords == [pc : CancelPcs, run : Runs,
                             seen : {"none", "queued", "running"}]
           cancelOK == cancel' \in [Cancellers -> CancelRecords]
<1>0. TypeOK /\ r \in Runs /\ rows[r] \in Row /\ cancel[c] \in CancelRecords
  BY DEF TypeInv, TypeOK
<1>s. slips' \in [Runs -> SUBSET SlipKinds]
  <2>1. Next
    BY DEF Next
  <2>2. QED
    BY <2>1, SlipStep DEF TypeInv, SlipsKept
<1>1. CASE CancelLoad(c)
  <2>1. PICK ok \in BOOLEAN :
          /\ StoreCall(ok)
          /\ cancel' = [cancel EXCEPT ![c] =
               IF ok /\ isCancelableRunStatus(rows[r].status)
               THEN [@ EXCEPT !.pc = "request", !.seen = rows[r].status]
               ELSE [@ EXCEPT !.pc = "refused"]]
    BY <1>1 DEF CancelLoad
  <2>2. cancelOK
    BY <1>0, <2>1 DEF TypeOK, CancelPcs, isCancelableRunStatus
  <2>3. storeFaults' \in 0 .. MaxStoreFaults
    BY <1>0, <2>1, StoreCallType
  <2>4. QED
    BY <1>1, <2>2, <2>3
    DEF CancelLoad, storeVars, TypeInv, TypeOK, ReportReady
<1>2. CASE RequestRunCancel(c)
  <2>1. PICK done \in BOOLEAN, told \in BOOLEAN :
          /\ StoreWrite(done, told)
          /\ \/ events' = [events EXCEPT ![r]["cancel_requested"] = @ + 1]
             \/ events' = events
          /\ \/ cancel' = [cancel EXCEPT ![c].pc = "finish"]
             \/ cancel' = [cancel EXCEPT ![c].pc = "refused"]
    BY <1>2 DEF RequestRunCancel
  <2>2. cancelOK
    BY <1>0, <2>1, CancelMoves DEF CancelPcs
  <2>3. events' \in [Runs -> [RunEventTypes -> Nat]]
    <3>1. "cancel_requested" \in RunEventTypes
      BY DEF RunEventTypes
    <3>2. [events EXCEPT ![r]["cancel_requested"] = @ + 1]
            \in [Runs -> [RunEventTypes -> Nat]]
      BY <1>0, <3>1, OneMoreEvent
    <3>3. events \in [Runs -> [RunEventTypes -> Nat]]
      BY <1>0 DEF TypeOK
    <3>4. QED
      BY <2>1, <3>2, <3>3
  <2>4. storeFaults' \in 0 .. MaxStoreFaults
    BY <1>0, <2>1, StoreWriteType
  <2>5. QED
    BY <1>2, <2>2, <2>3, <2>4 DEF RequestRunCancel, TypeInv, TypeOK, ReportReady
<1>3. CASE CancelFinish(c)
  <2>1. \/ cancel' = [cancel EXCEPT ![c].pc = "canceledEvent"]
        \/ cancel' = [cancel EXCEPT ![c].pc = "accepted"]
    BY <1>3 DEF CancelFinish
  <2>2. cancelOK
    BY <1>0, <2>1, CancelMoves DEF CancelPcs
  <2>3. CASE cancel[c].seen = "queued"
    <3>1. PICK done \in BOOLEAN, told \in BOOLEAN :
            /\ StoreWrite(done, told)
            /\ rows' = IF done THEN [rows EXCEPT ![r] =
                                     CancelRun(@, canceledReport("before"))]
                             ELSE rows
      BY <1>3, <2>3 DEF CancelFinish
    <3>2. rows' \in [Runs -> Row]
      BY <1>0, <3>1, RowOperations, BuiltReports DEF TypeOK
    <3>3. storeFaults' \in 0 .. MaxStoreFaults
      BY <1>0, <3>1, StoreWriteType
    <3>4. QED
      BY <1>s, <1>3, <2>2, <3>2, <3>3
      DEF CancelFinish, TypeInv, TypeOK, ReportReady
  <2>4. CASE cancel[c].seen # "queued"
    BY <1>s, <1>3, <2>2, <2>4
    DEF CancelFinish, TypeInv, TypeOK, ReportReady
  <2>5. QED
    BY <2>3, <2>4
<1>4. CASE CanceledEvent(c)
  <2>1. cancelOK
    BY <1>0, <1>4 DEF CanceledEvent, TypeOK, CancelPcs
  <2>2. "run_canceled" \in RunEventTypes
    BY DEF RunEventTypes
  <2>3. QED
    BY <1>s, <1>0, <1>4, <2>1, <2>2, AppendType
    DEF CanceledEvent, TypeInv, TypeOK, ReportReady
<1>5. QED
  BY <1>1, <1>2, <1>3, <1>4 DEF CancelStep

\* Lemma: moving a run's task keeps the type of the tasks.
LEMMA TaskMoves ==
  ASSUME TypeOK, NEW r \in Runs, NEW state \in TaskStates,
         task' = [task EXCEPT ![r].state = state]
  PROVE  task' \in [Runs -> [state : TaskStates, retried : 0 .. MaxRetry]]
BY DEF TypeOK

\* Lemma: the task's steps keep the types.
LEMMA TaskType ==
  ASSUME TypeInv, NEW r \in Runs, TaskStep(r)
  PROVE  TypeInv'
<1> USE DEF TaskUnchanged, storeVars, faultVars
<1>0. TypeOK /\ Owner(r) \in Attempts
  BY OwnerType DEF TypeInv
<1>s. slips' \in [Runs -> SUBSET SlipKinds]
  <2>1. Next
    BY DEF Next
  <2>2. QED
    BY <2>1, SlipStep DEF TypeInv, SlipsKept
<1>1. CASE handleRunExecute(r)
  <2>1. att' \in [Runs -> [Attempts -> Attempt]] /\ ReportReady'
    BY <1>0, <1>1, AttemptEnds
    DEF handleRunExecute, AttemptPcs, ExecutingPcs, FinishingPcs
  <2>2. QED
    BY <1>0, <1>1, <2>1, TaskMoves
    DEF handleRunExecute, TaskStates, TypeInv, TypeOK
<1>2. CASE TaskSucceeded(r)
  BY <1>0, <1>2, TaskMoves
  DEF TaskSucceeded, TaskStates, TypeInv, TypeOK, ReportReady
<1>3. CASE AttemptFailed(r)
  <2>1. "worker_attempt_failed" \in RunEventTypes
    BY DEF RunEventTypes
  <2>2. QED
    BY <1>s, <1>0, <1>3, <2>1, TaskMoves, AppendType
    DEF AttemptFailed, TaskStates, TypeInv, TypeOK, ReportReady
<1>4. CASE HandleError(r)
  <2>1. HandleErrorEvent(r) \in RunEventTypes
    BY DEF RunEventTypes, HandleErrorEvent
  <2>2. QED
    BY <1>s, <1>0, <1>4, <2>1, TaskMoves, AppendType
    DEF HandleError, TaskStates, TypeInv, TypeOK, ReportReady
<1>5. CASE RetryOrArchive(r) \/ LeaseRecovered(r)
  <2>1. task' = [task EXCEPT ![r] = Retried(task[r])]
    BY <1>5 DEF RetryOrArchive, LeaseRecovered
  <2>2. Retried(task[r]) \in [state : TaskStates, retried : 0 .. MaxRetry]
    BY <1>0, RetriedType DEF TypeOK
  <2>3. task' \in [Runs -> [state : TaskStates, retried : 0 .. MaxRetry]]
    BY <1>0, <2>1, <2>2 DEF TypeOK
  <2>4. QED
    BY <1>5, <2>3
    DEF RetryOrArchive, LeaseRecovered, TypeInv, TypeOK, ReportReady
<1>6. QED
  BY <1>1, <1>2, <1>3, <1>4, <1>5 DEF TaskStep

\* Lemma: faults keep the types.
LEMMA FaultStepType ==
  ASSUME TypeInv, FaultStep
  PROVE  TypeInv'
<1> USE DEF TaskUnchanged, storeVars, faultVars
<1>0. TypeOK
  BY DEF TypeInv
<1>s. slips' \in [Runs -> SUBSET SlipKinds]
  <2>1. Next
    BY DEF Next
  <2>2. QED
    BY <2>1, SlipStep DEF TypeInv, SlipsKept
<1>1. CASE APICrash
  <2>1. create' \in [Runs -> CreatePcs]
    BY <1>0, <1>1 DEF APICrash, TypeOK, CreatePcs
  <2>2. cancel' \in [Cancellers -> [pc : CancelPcs, run : Runs,
                                    seen : {"none", "queued", "running"}]]
    BY <1>0, <1>1, ZenonT(30) DEF APICrash, TypeOK, CancelPcs
  <2>3. QED
    BY <1>s, <1>0, <1>1, <2>1, <2>2, FaultType
    DEF APICrash, TypeInv, TypeOK, ReportReady
<1>2. ASSUME NEW r \in Runs, EnqueueRunFails(r)
      PROVE  TypeInv'
  <2>1. task' \in [Runs -> [state : TaskStates, retried : 0 .. MaxRetry]]
    BY <1>0, <1>2, TaskMoves DEF EnqueueRunFails, TypeOK, TaskStates
  <2>2. create' \in [Runs -> CreatePcs]
    BY <1>0, <1>2 DEF EnqueueRunFails, TypeOK, CreatePcs
  <2>3. QED
    BY <1>0, <1>2, <2>1, <2>2, FaultType
    DEF EnqueueRunFails, TypeInv, TypeOK, ReportReady
<1>3. ASSUME NEW r \in Runs, AttemptAbandoned(r)
      PROVE  TypeInv'
  <2>1. "worker_attempt_failed" \in RunEventTypes
    BY DEF RunEventTypes
  <2>2. QED
    BY <1>s, <1>0, <1>3, <2>1, TaskMoves, AppendType, FaultType
    DEF AttemptAbandoned, TaskStates, TypeInv, TypeOK, ReportReady
<1>4. ASSUME NEW r \in Runs, WorkerShutdown(r)
      PROVE  TypeInv'
  <2>1. att' \in [Runs -> [Attempts -> Attempt]] /\ ReportReady'
    BY <1>0, <1>4, OwnerType, AttemptEnds
    DEF WorkerShutdown, AttemptPcs, FinishingPcs
  <2>2. QED
    BY <1>s, <1>0, <1>4, <2>1, TaskMoves, FaultType
    DEF WorkerShutdown, TaskStates, TypeInv, TypeOK
<1>5. ASSUME NEW r \in Runs, NEW k \in Attempts, WorkerCrash(r, k)
      PROVE  TypeInv'
  <2>1. att' \in [Runs -> [Attempts -> Attempt]] /\ ReportReady'
    BY <1>5, AttemptEnds DEF WorkerCrash, AttemptPcs, FinishingPcs
  <2>2. task' \in [Runs -> [state : TaskStates, retried : 0 .. MaxRetry]]
    BY <1>0, <1>5, TaskMoves DEF WorkerCrash, TypeOK, TaskStates
  <2>3. QED
    BY <1>s, <1>0, <1>5, <2>1, <2>2, FaultType
    DEF WorkerCrash, TypeInv, TypeOK
<1>6. ASSUME NEW r \in Runs, EnqueueEmptyRunFails(r)
      PROVE  TypeInv'
  <2>1. create' \in [Runs -> CreatePcs]
    BY <1>0, <1>6 DEF EnqueueEmptyRunFails, TypeOK, CreatePcs
  <2>2. QED
    BY <1>0, <1>6, <2>1, FaultType
    DEF EnqueueEmptyRunFails, TypeInv, TypeOK, ReportReady
<1>7. QED
  BY <1>1, <1>2, <1>3, <1>4, <1>5, <1>6 DEF FaultStep

\* Lemma: every step of the API, the queue, the workers or the faults keeps
\* the types.
LEMMA TypeStep == TypeInv /\ [Next]_vars => TypeInv'
<1> SUFFICES ASSUME TypeInv, [Next]_vars PROVE TypeInv'
  OBVIOUS
<1>1. CASE UNCHANGED vars
  BY <1>1 DEF vars, TypeInv, TypeOK, ReportReady
<1>2. CASE Next
  BY <1>2, CreateType, ExecuteType, CancelType, TaskType, FaultStepType
  DEF Next
<1>3. QED
  BY <1>1, <1>2

\* Theorem: whatever crashes, is lost or is retried, the variables keep their
\* types; in particular no task is delivered more often than MaxRetry allows.
THEOREM TypeCorrect == Spec => []TypeOK
<1>1. TypeInv => TypeOK
  BY DEF TypeInv
<1>2. QED
  BY <1>1, TypeInit, TypeStep, PTL DEF Spec

-----------------------------------------------------------------------------
(* The invariant: what an execution has learnt about its run stays true.   *)

\* A run that no handler has created yet has no row.
NewIsAbsent == \A r \in Runs : create[r] = "new" => rows[r].status = "absent"

\* Traffic, and the wish to record its verdict, come after the run started.
HasStarted(a) == a.pc \in {"run", "decide"} \/ a.fin = "complete"

StartedBeforeVerdict ==
  \A r \in Runs, k \in Attempts :
    HasStarted(att[r][k]) => rows[r].status \notin {"absent", "queued"}

SafetyInv == NewIsAbsent /\ StartedBeforeVerdict /\ ReportMatchesStatus

Inv == TypeInv /\ SafetyInv

-----------------------------------------------------------------------------
(* What the store's operations do to a row.                                *)

\* A row whose report is the one its status calls for.
RowOK(row) ==
  IF row.status \in {"passed", "failed", "canceled"}
  THEN row.report \in Reports /\ row.report.status = row.status
  ELSE row.report = NoReport

\* From one row to the next along the lifecycle, once there is a row.
Advances(row, next) ==
  \/ isCancelableRunStatus(row.status) /\ next.status = "running"
  \/ row.status = "running" /\ next.status \in TerminalStatuses
  \/ row.status = "queued" /\ next.status \in {"errored", "canceled"}

GoodStep(row, next) ==
  next = row \/ (next \in Row /\ RowOK(next) /\ Advances(row, next))

\* Lemma: storing a report with an outcome the run may take now is a step of
\* the lifecycle.
LEMMA FinishIsGood ==
  ASSUME NEW row \in Row, NEW rep \in Reports,
         NEW s \in {"passed", "failed", "canceled"},
         row.status = "queued" => s = "canceled"
  PROVE  GoodStep(row, finishRunWithReport(row, s, rep))
<1>1. CASE isCancelableRunStatus(row.status)
  <2> DEFINE next == finishRunWithReport(row, s, rep)
  <2>1. next.status = s /\ next.report.status = s /\ next.report \in Reports
    BY <1>1 DEF finishRunWithReport, Reports
  <2>2. next \in Row
    BY <1>1 DEF finishRunWithReport, Row, Reports, RunStatus, TerminalStatuses
  <2>3. RowOK(next) /\ Advances(row, next)
    BY <1>1, <2>1
    DEF RowOK, Advances, isCancelableRunStatus, TerminalStatuses
  <2>4. QED
    BY <2>2, <2>3 DEF GoodStep
<1>2. CASE ~isCancelableRunStatus(row.status)
  BY <1>2 DEF GoodStep, finishRunWithReport
<1>3. QED
  BY <1>1, <1>2

\* Lemma: so are the store's operations; CompleteRun needs a run that has
\* started.
LEMMA OperationsAreGood ==
  ASSUME NEW row \in Row, RowOK(row)
  PROVE  /\ GoodStep(row, MarkRunStarted(row))
         /\ GoodStep(row, ErrorRun(row))
         /\ \A rep \in Reports : GoodStep(row, CancelRun(row, rep))
         /\ \A rep \in Reports :
              row.status # "queued" => GoodStep(row, CompleteRun(row, rep))
<1>1. GoodStep(row, MarkRunStarted(row))
  BY DEF GoodStep, MarkRunStarted, Row, RowOK, Advances, RunStatus,
    isCancelableRunStatus
<1>2. GoodStep(row, ErrorRun(row))
  BY DEF GoodStep, ErrorRun, Row, RowOK, Advances, RunStatus,
    isCancelableRunStatus, TerminalStatuses
<1>3. \A rep \in Reports : GoodStep(row, CancelRun(row, rep))
  BY FinishIsGood DEF CancelRun
<1>4. \A rep \in Reports :
        row.status # "queued" => GoodStep(row, CompleteRun(row, rep))
  BY FinishIsGood DEF CompleteRun, CompletedStatus
<1>5. QED
  BY <1>1, <1>2, <1>3, <1>4

\* One run's row takes a step of the lifecycle, and no timeline changes.
RowStep(r) ==
  /\ GoodStep(rows[r], rows'[r])
  /\ rows' = [rows EXCEPT ![r] = rows'[r]]
  /\ UNCHANGED events

\* Lemma: a store operation, or its failure, that leads from one row to a good
\* next one is a RowStep.
LEMMA RowStepIntro ==
  ASSUME TypeOK, NEW r \in Runs, NEW done \in BOOLEAN, NEW next,
         GoodStep(rows[r], next), UNCHANGED events,
         rows' = IF done THEN [rows EXCEPT ![r] = next] ELSE rows
  PROVE  RowStep(r)
<1>1. rows'[r] = next \/ rows'[r] = rows[r]
  BY DEF TypeOK
<1>2. rows' = [rows EXCEPT ![r] = rows'[r]]
  BY DEF TypeOK
<1>3. QED
  BY <1>1, <1>2 DEF RowStep, GoodStep

\* Lemma: every step of the system creates a row, takes one a step along the
\* lifecycle, or leaves the rows alone.
LEMMA RowSteps ==
  ASSUME Inv, Next
  PROVE  UNCHANGED rows \/ \E r \in Runs : RowStep(r) \/ CreateRunRow(r)
<1>0. TypeOK /\ \A r \in Runs : rows[r] \in Row /\ RowOK(rows[r])
  BY DEF Inv, TypeInv, TypeOK, SafetyInv, ReportMatchesStatus, RowOK
<1>1. ASSUME NEW r \in Runs, RecordEnqueueError(r)
      PROVE  RowStep(r)
  <2>1. PICK done \in BOOLEAN :
          rows' = IF done THEN [rows EXCEPT ![r] = ErrorRun(rows[r])] ELSE rows
    BY <1>1 DEF RecordEnqueueError
  <2>2. GoodStep(rows[r], ErrorRun(rows[r]))
    BY <1>0, OperationsAreGood
  <2>3. QED
    BY <1>0, <1>1, <2>1, <2>2, RowStepIntro DEF RecordEnqueueError
<1>2. ASSUME NEW r \in Runs, NEW k \in Attempts, StartRun(r, k)
      PROVE  RowStep(r)
  <2>1. PICK done \in BOOLEAN :
          rows' = IF done THEN [rows EXCEPT ![r] = MarkRunStarted(rows[r])]
                        ELSE rows
    BY <1>2 DEF StartRun
  <2>2. GoodStep(rows[r], MarkRunStarted(rows[r]))
    BY <1>0, OperationsAreGood
  <2>3. QED
    BY <1>0, <1>2, <2>1, <2>2, RowStepIntro DEF StartRun
<1>3. ASSUME NEW r \in Runs, NEW k \in Attempts, FinishRun(r, k)
      PROVE  RowStep(r)
  <2> DEFINE next == FinishedRow(rows[r], att[r][k])
  <2>1. PICK done \in BOOLEAN :
          rows' = IF done THEN [rows EXCEPT ![r] = next] ELSE rows
    BY <1>3 DEF FinishRun
  <2>2. GoodStep(rows[r], next)
    <3>1. LocalOK(att[r][k])
      BY DEF Inv, TypeInv, ReportReady
    <3>2. CASE att[r][k].fin = "complete"
      <4>1. att[r][k].rep \in Reports /\ rows[r].status # "queued"
        BY <3>1, <3>2
        DEF LocalOK, Inv, SafetyInv, StartedBeforeVerdict, HasStarted
      <4>2. QED
        BY <1>0, <3>2, <4>1, OperationsAreGood DEF FinishedRow
    <3>3. CASE att[r][k].fin = "cancel"
      <4>1. att[r][k].rep \in Reports
        BY <3>1, <3>3 DEF LocalOK
      <4>2. QED
        BY <1>0, <3>3, <4>1, OperationsAreGood DEF FinishedRow
    <3>4. CASE att[r][k].fin \notin {"complete", "cancel"}
      BY <1>0, <3>4, OperationsAreGood DEF FinishedRow
    <3>5. QED
      BY <3>2, <3>3, <3>4
  <2>3. QED
    BY <1>0, <1>3, <2>1, <2>2, RowStepIntro DEF FinishRun
<1>4. ASSUME NEW c \in Cancellers, CancelFinish(c)
      PROVE  UNCHANGED rows \/ RowStep(cancel[c].run)
  <2> DEFINE r == cancel[c].run
             next == CancelRun(rows[r], canceledReport("before"))
  <2>1. r \in Runs
    BY <1>0 DEF TypeOK
  <2>2. UNCHANGED rows \/ \E done \in BOOLEAN :
          rows' = IF done THEN [rows EXCEPT ![r] = next] ELSE rows
    BY <1>4 DEF CancelFinish
  <2>3. GoodStep(rows[r], next)
    BY <1>0, <2>1, BuiltReports, OperationsAreGood
  <2>4. QED
    BY <1>0, <1>4, <2>1, <2>2, <2>3, RowStepIntro DEF CancelFinish
<1>5. \A c \in Cancellers : cancel[c].run \in Runs
  BY <1>0 DEF TypeOK
<1>6. ASSUME NEW r \in Runs, CreateStep(r), ~RecordEnqueueError(r)
      PROVE  UNCHANGED rows
  BY <1>6 DEF CreateStep, QueuedEvent, EnqueueRun, EnqueueEmptyRun,
    EnqueueErrorEvent, storeVars
<1>7. ASSUME NEW r \in Runs, TaskStep(r)
      PROVE  UNCHANGED rows
  BY <1>7 DEF TaskStep, handleRunExecute, TaskSucceeded, AttemptFailed,
    HandleError, RetryOrArchive, LeaseRecovered, TaskUnchanged
<1>8. ASSUME NEW r \in Runs, NEW k \in Attempts,
             ExecuteStep(r, k) \/ MonitorCancel(r, k),
             ~StartRun(r, k), ~FinishRun(r, k)
      PROVE  UNCHANGED rows
  BY <1>8 DEF ExecuteStep, LoadRun, CheckCancel, StartedEvent,
    ConfirmStarted, RunnerReturns, Decide, UploadReport, FinishedEvent,
    MonitorCancel, storeVars
<1>9. ASSUME NEW c \in Cancellers, CancelLoad(c) \/ CancelStep(c),
              ~CancelFinish(c)
       PROVE  UNCHANGED rows
  BY <1>9 DEF CancelLoad, CancelStep, RequestRunCancel, CanceledEvent,
    storeVars
<1>10. ASSUME FaultStep
       PROVE  UNCHANGED rows
  BY <1>10 DEF FaultStep, APICrash, EnqueueRunFails, EnqueueEmptyRunFails,
    AttemptAbandoned, WorkerShutdown, WorkerCrash, TaskUnchanged, storeVars
<1>11. QED
  BY <1>1, <1>2, <1>3, <1>4, <1>5, <1>6, <1>7, <1>8, <1>9, <1>10
  DEF Next

\* Lemma: no request goes back to being new.
LEMMA CreateMovesOn ==
  ASSUME TypeOK, Next, NEW q \in Runs, create'[q] = "new"
  PROVE  create[q] = "new" /\ ~CreateRunRow(q)
<1>1. CASE UNCHANGED create
  BY <1>1 DEF CreateRunRow, TypeOK
<1>2. ASSUME NEW r \in Runs, CreateRunRow(r) \/ CreateStep(r)
      PROVE  create[q] = "new" /\ ~CreateRunRow(q)
  BY <1>2 DEF TypeOK, CreateRunRow, CreateStep, QueuedEvent, EnqueueRun,
    EnqueueEmptyRun, RecordEnqueueError, EnqueueErrorEvent
<1>3. ASSUME NEW r \in Runs, EnqueueRunFails(r) \/ EnqueueEmptyRunFails(r)
      PROVE  create[q] = "new" /\ ~CreateRunRow(q)
  BY <1>3 DEF TypeOK, EnqueueRunFails, EnqueueEmptyRunFails, CreateRunRow
<1>4. CASE APICrash
  BY <1>4 DEF TypeOK, APICrash, CreateRunRow
<1>5. ASSUME NEW r \in Runs,
             \/ TaskStep(r) \/ AttemptAbandoned(r) \/ WorkerShutdown(r)
             \/ \E k \in Attempts : WorkerCrash(r, k)
      PROVE  UNCHANGED create
  BY <1>5 DEF TaskStep, handleRunExecute, TaskSucceeded, AttemptFailed,
    HandleError, RetryOrArchive, LeaseRecovered, AttemptAbandoned,
    WorkerShutdown, WorkerCrash, TaskUnchanged
<1>6. ASSUME NEW r \in Runs, NEW k \in Attempts,
             ExecuteStep(r, k) \/ MonitorCancel(r, k)
      PROVE  UNCHANGED create
  BY <1>6 DEF ExecuteStep, LoadRun, CheckCancel, StartRun, StartedEvent,
    ConfirmStarted, RunnerReturns, Decide, UploadReport, FinishRun,
    FinishedEvent, MonitorCancel, ExecUnchanged
<1>7. ASSUME NEW c \in Cancellers, CancelLoad(c) \/ CancelStep(c)
      PROVE  UNCHANGED create
  BY <1>7 DEF CancelLoad, CancelStep, RequestRunCancel, CancelFinish,
    CanceledEvent
<1>8. QED
  BY <1>1, <1>2, <1>3, <1>4, <1>5, <1>6, <1>7 DEF Next, FaultStep

\* Lemma: an execution starts its traffic only by finding the run running.
LEMMA AttemptStarts ==
  ASSUME Inv, Next, NEW q \in Runs, NEW j \in Attempts,
         HasStarted(att'[q][j])
  PROVE  HasStarted(att[q][j]) \/ (rows[q].status = "running" /\ UNCHANGED rows)
<1> USE DEF HasStarted
<1>0. TypeOK /\ att[q][j] \in Attempt /\ LocalOK(att[q][j])
  BY DEF Inv, TypeInv, TypeOK, ReportReady
<1>1. CASE UNCHANGED att
  BY <1>1
<1>2. ASSUME NEW r \in Runs, NEW k \in Attempts,
             ExecuteStep(r, k) \/ MonitorCancel(r, k)
      PROVE  \/ HasStarted(att[q][j])
             \/ rows[q].status = "running" /\ UNCHANGED rows
  <2>1. CASE q # r \/ j # k
    BY <1>0, <1>2, <2>1
    DEF ExecuteStep, LoadRun, CheckCancel, StartRun, StartedEvent,
      ConfirmStarted, RunnerReturns, Decide, UploadReport, FinishRun,
      FinishedEvent, MonitorCancel, TypeOK
  <2>2. CASE q = r /\ j = k
    <3>1. CASE LoadRun(r, k)
      BY <1>0, <2>2, <3>1
      DEF LoadRun, TypeOK, Attempt, FreshAttempt
    <3>2. CASE CheckCancel(r, k)
      BY <1>0, <2>2, <3>2 DEF CheckCancel, TypeOK, Attempt
    <3>3. CASE StartRun(r, k) \/ StartedEvent(r, k)
      <4>1. PICK pc \in {"startEvent", "confirm"} :
              att' = [att EXCEPT ![r][k].pc = pc]
        BY <3>3 DEF StartRun, StartedEvent
      <4>2. QED
        BY <1>0, <2>2, <4>1 DEF TypeOK, Attempt
    <3>4. CASE ConfirmStarted(r, k)
      BY <1>0, <2>2, <3>4
      DEF ConfirmStarted, TypeOK, Attempt, FreshAttempt, storeVars
    <3>5. CASE MonitorCancel(r, k) \/ RunnerReturns(r, k) \/ Decide(r, k)
      BY <2>2, <3>5 DEF MonitorCancel, RunnerReturns, Decide
    <3>6. CASE UploadReport(r, k)
      BY <1>0, <2>2, <3>6 DEF UploadReport, TypeOK, Attempt
    <3>7. CASE FinishRun(r, k)
      BY <1>0, <2>2, <3>7
      DEF FinishRun, TypeOK, Attempt, FreshAttempt, ReturnPc
    <3>8. CASE FinishedEvent(r, k)
      BY <1>0, <2>2, <3>8
      DEF FinishedEvent, TypeOK, FreshAttempt, ReturnPc
    <3>9. QED
      BY <1>2, <3>1, <3>2, <3>3, <3>4, <3>5, <3>6, <3>7, <3>8
      DEF ExecuteStep
  <2>3. QED
    BY <2>1, <2>2
<1>3. ASSUME NEW r \in Runs, handleRunExecute(r) \/ WorkerShutdown(r)
      PROVE  HasStarted(att[q][j])
  <2>1. PICK pc \in {"load", "idle"} :
          att' = [att EXCEPT ![r][Owner(r)] = FreshAttempt(pc)]
    BY <1>3 DEF handleRunExecute, WorkerShutdown
  <2>2. ~HasStarted(FreshAttempt(pc))
    BY DEF FreshAttempt
  <2>3. Owner(r) \in Attempts
    BY <1>0, OwnerType
  <2>4. att'[q][j] = att[q][j] \/ att'[q][j] = FreshAttempt(pc)
    BY <1>0, <2>1, <2>3 DEF TypeOK
  <2>5. QED
    BY <2>2, <2>4
<1>4. ASSUME NEW r \in Runs, NEW k \in Attempts, WorkerCrash(r, k)
      PROVE  HasStarted(att[q][j])
  BY <1>0, <1>4 DEF WorkerCrash, TypeOK, FreshAttempt
<1>5. ASSUME NEW r \in Runs,
             \/ CreateRunRow(r) \/ CreateStep(r) \/ EnqueueRunFails(r)
             \/ EnqueueEmptyRunFails(r) \/ APICrash \/ AttemptAbandoned(r)
      PROVE  UNCHANGED att
  BY <1>5 DEF CreateRunRow, CreateStep, QueuedEvent, EnqueueRun,
    EnqueueEmptyRun, RecordEnqueueError, EnqueueErrorEvent, EnqueueRunFails,
    EnqueueEmptyRunFails, APICrash, AttemptAbandoned
<1>6. ASSUME NEW r \in Runs, TaskStep(r), ~handleRunExecute(r)
      PROVE  UNCHANGED att
  BY <1>6 DEF TaskStep, TaskSucceeded, AttemptFailed, HandleError,
    RetryOrArchive, LeaseRecovered
<1>7. ASSUME NEW c \in Cancellers, CancelLoad(c) \/ CancelStep(c)
      PROVE  UNCHANGED att
  BY <1>7 DEF CancelLoad, CancelStep, RequestRunCancel, CancelFinish,
    CanceledEvent
<1>8. QED
  BY <1>1, <1>2, <1>3, <1>4, <1>5, <1>6, <1>7 DEF Next, FaultStep

-----------------------------------------------------------------------------
(* The invariant holds.                                                    *)

\* Lemma: no run has a row, a report or an execution at first.
LEMMA SafetyInit == Init => SafetyInv
BY DEF Init, SafetyInv, NewIsAbsent, StartedBeforeVerdict, HasStarted,
  ReportMatchesStatus, FreshAttempt, NoRow

\* Lemma: every step keeps the invariant.
LEMMA SafetyStep == Inv /\ [Next]_vars => SafetyInv'
<1> SUFFICES ASSUME Inv, [Next]_vars PROVE SafetyInv'
  OBVIOUS
<1>0. TypeOK
  BY DEF Inv, TypeInv
<1>1. CASE UNCHANGED vars
  BY <1>1 DEF vars, Inv, SafetyInv, NewIsAbsent, StartedBeforeVerdict,
    ReportMatchesStatus
<1>2. CASE Next
  <2>1. UNCHANGED rows \/ \E r \in Runs : RowStep(r) \/ CreateRunRow(r)
    BY <1>2, RowSteps
  <2>2. \A q \in Runs :
          \/ rows'[q] = rows[q]
          \/ rows'[q] \in Row /\ RowOK(rows'[q]) /\ Advances(rows[q], rows'[q])
          \/ CreateRunRow(q) /\ rows'[q] = CreateRun
    <3>1. CASE UNCHANGED rows
      BY <3>1
    <3>2. ASSUME NEW r \in Runs, RowStep(r), NEW q \in Runs
          PROVE  \/ rows'[q] = rows[q]
                 \/ /\ rows'[q] \in Row /\ RowOK(rows'[q])
                    /\ Advances(rows[q], rows'[q])
      BY <1>0, <3>2 DEF RowStep, GoodStep, TypeOK
    <3>3. ASSUME NEW r \in Runs, CreateRunRow(r), NEW q \in Runs
          PROVE  rows'[q] = rows[q] \/ (CreateRunRow(q) /\ rows'[q] = CreateRun)
      BY <1>0, <3>3 DEF CreateRunRow, TypeOK
    <3>4. QED
      BY <2>1, <3>1, <3>2, <3>3
  <2>3. NewIsAbsent'
    <3>1. SUFFICES ASSUME NEW q \in Runs, create'[q] = "new"
                   PROVE  rows'[q].status = "absent"
      BY DEF NewIsAbsent
    <3>2. create[q] = "new" /\ ~CreateRunRow(q)
      BY <1>0, <1>2, <3>1, CreateMovesOn
    <3>3. rows[q].status = "absent"
      BY <3>2 DEF Inv, SafetyInv, NewIsAbsent
    <3>4. QED
      BY <2>2, <3>2, <3>3 DEF Advances, isCancelableRunStatus
  <2>4. StartedBeforeVerdict'
    <3>1. SUFFICES ASSUME NEW q \in Runs, NEW j \in Attempts,
                          HasStarted(att'[q][j])
                   PROVE  rows'[q].status \notin {"absent", "queued"}
      BY DEF StartedBeforeVerdict, HasStarted
    <3>2. CASE rows[q].status = "running" /\ UNCHANGED rows
      BY <3>2
    <3>3. CASE HasStarted(att[q][j])
      <4>1. rows[q].status \notin {"absent", "queued"}
        BY <3>3 DEF Inv, SafetyInv, StartedBeforeVerdict
      <4>2. ~CreateRunRow(q)
        BY <4>1 DEF Inv, SafetyInv, NewIsAbsent, CreateRunRow
      <4>3. QED
        BY <2>2, <4>1, <4>2 DEF Advances, TerminalStatuses
    <3>4. QED
      BY <1>2, <3>1, <3>2, <3>3, AttemptStarts
  <2>5. ReportMatchesStatus'
    <3>1. SUFFICES ASSUME NEW q \in Runs PROVE RowOK(rows'[q])
      BY DEF ReportMatchesStatus, RowOK
    <3>2. RowOK(rows[q]) /\ RowOK(CreateRun)
      BY DEF Inv, SafetyInv, ReportMatchesStatus, RowOK, CreateRun
    <3>3. QED
      BY <2>2, <3>2
  <2>6. QED
    BY <2>3, <2>4, <2>5 DEF SafetyInv
<1>3. QED
  BY <1>1, <1>2

\* Lemma: the inductive invariant.
LEMMA InvAlways == Spec => []Inv
<1>1. Init => Inv
  BY TypeInit, SafetyInit DEF Inv
<1>2. Inv /\ [Next]_vars => Inv'
  BY TypeStep, SafetyStep DEF Inv
<1>3. QED
  BY <1>1, <1>2, PTL DEF Spec

\* Theorem: a run's stored report exists exactly when its outcome has one, and
\* says the same as the run (finishRunWithReport), for any number of
\* overlapping executions, cancel requests, retries and failing store calls.
THEOREM ReportsMatch == Spec => []ReportMatchesStatus
<1>1. Inv => ReportMatchesStatus
  BY DEF Inv, SafetyInv
<1>2. QED
  BY <1>1, InvAlways, PTL

-----------------------------------------------------------------------------
(* RunControl implements RunLifecycle.                                     *)

SameRequests == \A q \in Runs :
  events'[q]["cancel_requested"] = events[q]["cancel_requested"]

\* Lemma: appending any other event requests no cancellation.
LEMMA AppendKeepsRequests ==
  ASSUME TypeOK, NEW r \in Runs, NEW t \in RunEventTypes \ {"cancel_requested"},
         appendRunEvent(r, t)
  PROVE  SameRequests
<1>1. "cancel_requested" \in RunEventTypes
  BY DEF RunEventTypes
<1>2. PICK ok \in BOOLEAN :
        events' = IF ok THEN [events EXCEPT ![r][t] = @ + 1] ELSE events
  BY DEF appendRunEvent
<1>3. QED
  BY <1>1, <1>2 DEF TypeOK, SameRequests

\* Lemma: only RequestRunCancel records a cancellation.
LEMMA EventSteps ==
  ASSUME TypeOK, Next
  PROVE  SameRequests \/ \E c \in Cancellers : RequestRunCancel(c)
<1>0. ASSUME UNCHANGED events PROVE SameRequests
  BY <1>0 DEF SameRequests
<1>1. ASSUME NEW r \in Runs, CreateRunRow(r) \/ CreateStep(r)
      PROVE  SameRequests
  <2>1. CASE QueuedEvent(r) \/ EnqueueErrorEvent(r)
    BY <2>1, AppendKeepsRequests
    DEF QueuedEvent, EnqueueErrorEvent, RunEventTypes
  <2>2. CASE ~(QueuedEvent(r) \/ EnqueueErrorEvent(r))
    BY <1>0, <1>1, <2>2 DEF CreateRunRow, CreateStep, EnqueueRun,
      EnqueueEmptyRun, RecordEnqueueError, storeVars
  <2>3. QED
    BY <2>1, <2>2
<1>2. ASSUME NEW r \in Runs, TaskStep(r)
      PROVE  SameRequests
  <2>1. CASE AttemptFailed(r) \/ HandleError(r)
    BY <2>1, AppendKeepsRequests
    DEF AttemptFailed, HandleError, HandleErrorEvent, RunEventTypes
  <2>2. CASE ~(AttemptFailed(r) \/ HandleError(r))
    BY <1>0, <1>2, <2>2 DEF TaskStep, handleRunExecute, TaskSucceeded,
      RetryOrArchive, LeaseRecovered
  <2>3. QED
    BY <2>1, <2>2
<1>3. ASSUME NEW r \in Runs, NEW k \in Attempts,
             ExecuteStep(r, k) \/ MonitorCancel(r, k)
      PROVE  SameRequests
  <2>1. CASE StartedEvent(r, k) \/ FinishedEvent(r, k)
    BY <2>1, AppendKeepsRequests
    DEF StartedEvent, FinishedEvent, TerminalEvent, RunEventTypes
  <2>2. CASE ~(StartedEvent(r, k) \/ FinishedEvent(r, k))
    BY <1>0, <1>3, <2>2 DEF ExecuteStep, LoadRun, CheckCancel, StartRun,
      ConfirmStarted, RunnerReturns, Decide, UploadReport, FinishRun,
      MonitorCancel, storeVars
  <2>3. QED
    BY <2>1, <2>2
<1>4. ASSUME NEW c \in Cancellers, CancelLoad(c) \/ CancelStep(c),
             ~RequestRunCancel(c)
      PROVE  SameRequests
  <2>1. CASE CanceledEvent(c)
    BY <2>1, AppendKeepsRequests DEF CanceledEvent, RunEventTypes, TypeOK
  <2>2. CASE ~CanceledEvent(c)
    BY <1>0, <1>4, <2>2 DEF CancelLoad, CancelStep, CancelFinish, storeVars
  <2>3. QED
    BY <2>1, <2>2
<1>5. ASSUME NEW r \in Runs, AttemptAbandoned(r)
      PROVE  SameRequests
  BY <1>5, AppendKeepsRequests DEF AttemptAbandoned, RunEventTypes
<1>6. ASSUME FaultStep, \A r \in Runs : ~AttemptAbandoned(r)
      PROVE  SameRequests
  BY <1>0, <1>6 DEF FaultStep, APICrash, EnqueueRunFails,
    EnqueueEmptyRunFails, WorkerShutdown, WorkerCrash, storeVars
<1>7. QED
  BY <1>1, <1>2, <1>3, <1>4, <1>5, <1>6 DEF Next, FaultStep

\* Lemma: every step is a step of the lifecycle, or none that it can see.
LEMMA LifecycleStep ==
  Inv /\ [Next]_vars => [Lifecycle!Next]_(Lifecycle!lifecycleVars)
<1> SUFFICES ASSUME Inv, [Next]_vars
             PROVE  [Lifecycle!Next]_(Lifecycle!lifecycleVars)
  OBVIOUS
<1> DEFINE status == [q \in Runs |-> rows[q].status]
           requested == [q \in Runs |-> IsRunCancelRequested(q)]
<1> USE DEF Lifecycle!lifecycleVars
<1>0. TypeOK
  BY DEF Inv, TypeInv
<1>1. CASE UNCHANGED vars
  BY <1>1 DEF vars, IsRunCancelRequested
<1>2. ASSUME SameRequests
      PROVE  requested' = requested
  BY <1>2 DEF SameRequests, IsRunCancelRequested
<1>3. ASSUME NEW c \in Cancellers, RequestRunCancel(c)
      PROVE  \/ status' = status /\ requested' = requested
             \/ Lifecycle!Next
  <2> DEFINE r == cancel[c].run
  <2>1. r \in Runs /\ "cancel_requested" \in RunEventTypes
    BY <1>0 DEF TypeOK, RunEventTypes
  <2>2. status' = status
    BY <1>3 DEF RequestRunCancel
  <2>3. CASE events' = events
    BY <2>2, <2>3 DEF IsRunCancelRequested
  <2>4. CASE events' # events
    <3>1. /\ isCancelableRunStatus(rows[r].status)
          /\ events' = [events EXCEPT ![r]["cancel_requested"] = @ + 1]
      BY <1>3, <2>4 DEF RequestRunCancel
    <3>2. events[r]["cancel_requested"] \in Nat
      BY <1>0, <2>1 DEF TypeOK
    <3>3. /\ events'[r]["cancel_requested"] > 0
          /\ \A q \in Runs \ {r} : events'[q] = events[q]
      BY <1>0, <2>1, <3>1, <3>2 DEF TypeOK
    <3>4. requested' = [requested EXCEPT ![r] = TRUE]
      BY <2>1, <3>3 DEF IsRunCancelRequested
    <3>5. Lifecycle!RequestCancel(r)
      BY <2>1, <2>2, <3>1, <3>4
      DEF Lifecycle!RequestCancel, isCancelableRunStatus,
        Lifecycle!isCancelableRunStatus
    <3>6. QED
      BY <2>1, <3>5 DEF Lifecycle!Next
  <2>5. QED
    BY <2>3, <2>4
<1>4. ASSUME NEW r \in Runs, RowStep(r)
      PROVE  \/ status' = status /\ requested' = requested
             \/ Lifecycle!Next
  <2>1. requested' = requested
    BY <1>4 DEF RowStep, IsRunCancelRequested
  <2>2. status' = [status EXCEPT ![r] = rows'[r].status]
    BY <1>0, <1>4 DEF RowStep, TypeOK
  <2>3. CASE rows'[r] = rows[r]
    BY <2>1, <2>2, <2>3
  <2>4. CASE Advances(rows[r], rows'[r])
    <3>1. Lifecycle!Start(r) \/ Lifecycle!Finish(r)
      BY <2>1, <2>2, <2>4
      DEF Advances, Lifecycle!Start, Lifecycle!Finish,
        isCancelableRunStatus, Lifecycle!isCancelableRunStatus,
        TerminalStatuses, Lifecycle!TerminalStatuses
    <3>2. QED
      BY <3>1 DEF Lifecycle!Next
  <2>5. QED
    BY <1>4, <2>3, <2>4 DEF RowStep, GoodStep
<1>5. ASSUME NEW r \in Runs, CreateRunRow(r)
      PROVE  \/ status' = status /\ requested' = requested
             \/ Lifecycle!Next
  <2>1. requested' = requested
    BY <1>5 DEF CreateRunRow, IsRunCancelRequested
  <2>2. rows[r].status = "absent"
    BY <1>5 DEF CreateRunRow, Inv, SafetyInv, NewIsAbsent
  <2>3. CASE rows' = rows
    BY <2>1, <2>3
  <2>4. CASE rows' = [rows EXCEPT ![r] = CreateRun]
    <3>1. status' = [status EXCEPT ![r] = "queued"]
      BY <1>0, <2>4 DEF TypeOK, CreateRun
    <3>2. QED
      BY <2>1, <2>2, <3>1 DEF Lifecycle!Next, Lifecycle!Create
  <2>5. QED
    BY <1>5, <2>3, <2>4 DEF CreateRunRow
<1>6. CASE Next
  <2>1. CASE \E c \in Cancellers : RequestRunCancel(c)
    BY <1>3, <2>1
  <2>2. CASE SameRequests
    <3>1. CASE UNCHANGED rows
      BY <1>2, <2>2, <3>1
    <3>2. CASE \E r \in Runs : RowStep(r) \/ CreateRunRow(r)
      BY <1>4, <1>5, <3>2
    <3>3. QED
      BY <1>6, <3>1, <3>2, RowSteps
  <2>3. QED
    BY <1>0, <1>6, <2>1, <2>2, EventSteps
<1>7. QED
  BY <1>1, <1>6

\* Theorem: the queued deployment implements the lifecycle: each run is
\* created once, its outcome is final, a verdict of traffic is given to a
\* running run only, and a cancellation request is never forgotten.
THEOREM ImplementsLifecycle == Spec => LifecycleSpec
<1>1. Init => Lifecycle!Init
  <2> SUFFICES ASSUME Init PROVE Lifecycle!Init
    OBVIOUS
  <2>1. \A r \in Runs : rows[r].status = "absent"
    BY DEF Init, NoRow
  <2>2. \A r \in Runs : events[r]["cancel_requested"] = 0
    BY DEF Init, RunEventTypes
  <2>3. \A r \in Runs : IsRunCancelRequested(r) = FALSE
    BY <2>2 DEF IsRunCancelRequested
  <2>4. QED
    BY <2>1, <2>3, Zenon DEF Lifecycle!Init
<1>2. QED
  BY <1>1, LifecycleStep, InvAlways, PTL DEF Spec, LifecycleSpec, Lifecycle!Spec

-----------------------------------------------------------------------------
(* How a step looks from one run.                                          *)

\* Lemma: an event that is appended changes one count, or a store call has
\* failed.
LEMMA Appended ==
  ASSUME TypeOK, NEW r \in Runs, NEW t \in RunEventTypes, appendRunEvent(r, t)
  PROVE  /\ \A q \in Runs, u \in RunEventTypes :
              q # r \/ u # t => events'[q][u] = events[q][u]
         /\ \/ events'[r][t] = events[r][t] + 1 /\ storeFaults' = storeFaults
            \/ events' = events /\ storeFaults' = storeFaults + 1
<1>1. PICK ok \in BOOLEAN :
        /\ StoreCall(ok)
        /\ events' = IF ok THEN [events EXCEPT ![r][t] = @ + 1] ELSE events
  BY DEF appendRunEvent
<1>2. CASE ok
  BY <1>1, <1>2 DEF TypeOK, StoreCall
<1>3. CASE ~ok
  BY <1>1, <1>3 DEF StoreCall
<1>4. QED
  BY <1>2, <1>3

\* Lemma: the counts of faults are numbers.
LEMMA FaultsAreNumbers ==
  ASSUME TypeOK
  PROVE  faults \in Nat /\ storeFaults \in Nat
BY RunControlAssumption DEF TypeOK

\* Lemma: no step forgets a fault.
LEMMA FaultsGrow ==
  ASSUME TypeOK, Next
  PROVE  faults' >= faults /\ storeFaults' >= storeFaults
<1>0. faults \in Nat /\ storeFaults \in Nat
  BY FaultsAreNumbers
<1>1. \A ok \in BOOLEAN : StoreCall(ok) => storeFaults' >= storeFaults
  BY <1>0 DEF StoreCall
<1>2. ASSUME NEW r \in Runs, NEW t, appendRunEvent(r, t)
      PROVE  storeFaults' >= storeFaults
  BY <1>1, <1>2 DEF appendRunEvent
<1>3. Fault => faults' >= faults
  BY <1>0 DEF Fault
<1>4. UNCHANGED faults => faults' >= faults
  BY <1>0
<1>5. UNCHANGED storeFaults => storeFaults' >= storeFaults
  BY <1>0
<1>6. ASSUME NEW r \in Runs, CreateRunRow(r) \/ CreateStep(r)
      PROVE  faults' >= faults /\ storeFaults' >= storeFaults
  BY <1>1, <1>2, <1>4, <1>5, <1>6
  DEF CreateRunRow, CreateStep, QueuedEvent, EnqueueRun, EnqueueEmptyRun,
    RecordEnqueueError, EnqueueErrorEvent, StoreWrite, faultVars
<1>7. ASSUME NEW r \in Runs, NEW k \in Attempts,
             ExecuteStep(r, k) \/ MonitorCancel(r, k)
      PROVE  faults' >= faults /\ storeFaults' >= storeFaults
  BY <1>1, <1>2, <1>4, <1>5, <1>7
  DEF ExecuteStep, LoadRun, CheckCancel, StartRun, StartedEvent,
    ConfirmStarted, RunnerReturns, Decide, UploadReport, FinishRun,
    FinishedEvent, MonitorCancel, ExecUnchanged, StoreWrite
<1>8. ASSUME NEW c \in Cancellers, CancelLoad(c) \/ CancelStep(c)
      PROVE  faults' >= faults /\ storeFaults' >= storeFaults
  <2>1. cancel[c].run \in Runs
    BY DEF TypeOK
  <2>2. QED
    BY <1>1, <1>2, <1>4, <1>5, <1>8, <2>1
    DEF CancelLoad, CancelStep, RequestRunCancel, CancelFinish,
      CanceledEvent, StoreWrite
<1>9. ASSUME NEW r \in Runs, TaskStep(r)
      PROVE  faults' >= faults /\ storeFaults' >= storeFaults
  BY <1>2, <1>4, <1>5, <1>9
  DEF TaskStep, handleRunExecute, TaskSucceeded, AttemptFailed, HandleError,
    RetryOrArchive, LeaseRecovered, faultVars
<1>10. ASSUME FaultStep
       PROVE  faults' >= faults /\ storeFaults' >= storeFaults
  BY <1>2, <1>3, <1>5, <1>10
  DEF FaultStep, APICrash, EnqueueRunFails, EnqueueEmptyRunFails,
    AttemptAbandoned, WorkerShutdown, WorkerCrash
<1>11. QED
  BY <1>6, <1>7, <1>8, <1>9, <1>10 DEF Next

\* A status moves forward: an outcome stays, a run that has a row keeps it,
\* and only a new row is queued.
StatusStep(s, next) ==
  next # s =>
    /\ ~isTerminalRunStatus(s)
    /\ next # "absent"
    /\ next = "queued" => s = "absent"

\* Lemma: every status does.
LEMMA StatusMoves ==
  ASSUME Inv, Next, NEW q \in Runs
  PROVE  StatusStep(rows[q].status, rows'[q].status)
<1>0. TypeOK
  BY DEF Inv, TypeInv
<1>1. ASSUME NEW r \in Runs, RowStep(r)
      PROVE  StatusStep(rows[q].status, rows'[q].status)
  BY <1>0, <1>1 DEF RowStep, GoodStep, TypeOK, StatusStep, Advances,
    isCancelableRunStatus, isTerminalRunStatus, TerminalStatuses
<1>2. ASSUME NEW r \in Runs, CreateRunRow(r)
      PROVE  StatusStep(rows[q].status, rows'[q].status)
  <2>1. rows[r].status = "absent"
    BY <1>2 DEF CreateRunRow, Inv, SafetyInv, NewIsAbsent
  <2>2. rows' = rows \/ rows' = [rows EXCEPT ![r] = CreateRun]
    BY <1>2 DEF CreateRunRow
  <2>3. QED
    BY <1>0, <2>1, <2>2 DEF TypeOK, CreateRun, StatusStep,
      isTerminalRunStatus, TerminalStatuses
<1>3. QED
  BY <1>1, <1>2, RowSteps DEF StatusStep

\* The task, the executions and the dead letters of run q stay as they are.
DeliveryKept(q) ==
  /\ task'[q] = task[q]
  /\ att'[q] = att[q]
  /\ events'[q]["worker_dead_lettered"] = events[q]["worker_dead_lettered"]

\* Lemma: who moves a run's task and executions.
LEMMA DeliveryMoves ==
  ASSUME TypeOK, Next, NEW q \in Runs
  PROVE  \/ DeliveryKept(q)
         \/ EnqueueRun(q) \/ EnqueueRunFails(q)
         \/ \E k \in Attempts :
              ExecuteStep(q, k) \/ MonitorCancel(q, k) \/ WorkerCrash(q, k)
         \/ TaskStep(q) \/ AttemptAbandoned(q) \/ WorkerShutdown(q)
<1> DEFINE dead == "worker_dead_lettered"
<1>0. dead \in RunEventTypes
  BY DEF RunEventTypes
<1>1. ASSUME UNCHANGED <<task, att, events>>
      PROVE  DeliveryKept(q)
  BY <1>1 DEF DeliveryKept
<1>2. ASSUME NEW r \in Runs, NEW t \in RunEventTypes, appendRunEvent(r, t),
             r # q \/ t # dead
      PROVE  events'[q][dead] = events[q][dead]
  BY <1>0, <1>2, Appended
<1>3. ASSUME NEW r \in Runs, CreateRunRow(r) \/ CreateStep(r),
             ~EnqueueRun(r)
      PROVE  DeliveryKept(q)
  BY <1>2, <1>3
  DEF CreateRunRow, CreateStep, QueuedEvent, EnqueueEmptyRun,
    RecordEnqueueError, EnqueueErrorEvent, storeVars, DeliveryKept,
    RunEventTypes
<1>4. ASSUME NEW c \in Cancellers, CancelLoad(c) \/ CancelStep(c)
      PROVE  DeliveryKept(q)
  <2>1. cancel[c].run \in Runs
    BY DEF TypeOK
  <2>2. CASE RequestRunCancel(c)
    <3>1. \/ events' = events
          \/ events' = [events EXCEPT
                          ![cancel[c].run]["cancel_requested"] = @ + 1]
      BY <2>2 DEF RequestRunCancel
    <3>2. events'[q][dead] = events[q][dead]
      <4>1. events[q] \in [RunEventTypes -> Nat]
        BY DEF TypeOK
      <4>2. "cancel_requested" # dead
        OBVIOUS
      <4>3. CASE events' = [events EXCEPT
                              ![cancel[c].run]["cancel_requested"] = @ + 1]
        BY <1>0, <2>1, <4>1, <4>2, <4>3 DEF TypeOK
      <4>4. QED
        BY <3>1, <4>3
    <3>3. QED
      BY <2>2, <3>2 DEF RequestRunCancel, DeliveryKept
  <2>3. CASE ~RequestRunCancel(c)
    BY <1>2, <1>4, <2>1, <2>3
    DEF CancelLoad, CancelStep, CancelFinish, CanceledEvent, storeVars,
      DeliveryKept, RunEventTypes
  <2>4. QED
    BY <2>2, <2>3
<1>5. ASSUME NEW r \in Runs, EnqueueRun(r) \/ EnqueueRunFails(r), r # q
      PROVE  DeliveryKept(q)
  BY <1>5 DEF EnqueueRun, EnqueueRunFails, storeVars, DeliveryKept, TypeOK
<1>6. ASSUME APICrash
      PROVE  DeliveryKept(q)
  BY <1>6 DEF APICrash, storeVars, DeliveryKept
<1>7. ASSUME NEW r \in Runs, NEW k \in Attempts, r # q,
             ExecuteStep(r, k) \/ MonitorCancel(r, k) \/ WorkerCrash(r, k)
      PROVE  DeliveryKept(q)
  <2>1. task'[q] = task[q]
    BY <1>7
    DEF ExecuteStep, LoadRun, CheckCancel, StartRun, StartedEvent,
      ConfirmStarted, RunnerReturns, Decide, UploadReport, FinishRun,
      FinishedEvent, MonitorCancel, ExecUnchanged, WorkerCrash, TypeOK
  <2>2. att'[q] = att[q]
    BY <1>7
    DEF ExecuteStep, LoadRun, CheckCancel, StartRun, StartedEvent,
      ConfirmStarted, RunnerReturns, Decide, UploadReport, FinishRun,
      FinishedEvent, MonitorCancel, WorkerCrash, TypeOK
  <2>3. events'[q][dead] = events[q][dead]
    BY <1>2, <1>7
    DEF ExecuteStep, LoadRun, CheckCancel, StartRun, StartedEvent,
      ConfirmStarted, RunnerReturns, Decide, UploadReport, FinishRun,
      FinishedEvent, MonitorCancel, WorkerCrash, storeVars, TerminalEvent,
      RunEventTypes
  <2>4. QED
    BY <2>1, <2>2, <2>3 DEF DeliveryKept
<1>8. ASSUME NEW r \in Runs, r # q,
             TaskStep(r) \/ AttemptAbandoned(r) \/ WorkerShutdown(r)
      PROVE  DeliveryKept(q)
  <2>1. task'[q] = task[q] /\ att'[q] = att[q]
    BY <1>8
    DEF TaskStep, handleRunExecute, TaskSucceeded, AttemptFailed,
      HandleError, RetryOrArchive, LeaseRecovered, AttemptAbandoned,
      WorkerShutdown, TypeOK
  <2>2. events'[q][dead] = events[q][dead]
    BY <1>2, <1>8
    DEF TaskStep, handleRunExecute, TaskSucceeded, AttemptFailed,
      HandleError, HandleErrorEvent, RetryOrArchive, LeaseRecovered,
      AttemptAbandoned, WorkerShutdown, RunEventTypes
  <2>3. QED
    BY <2>1, <2>2 DEF DeliveryKept
<1>9. ASSUME NEW r \in Runs, EnqueueEmptyRunFails(r)
      PROVE  DeliveryKept(q)
  BY <1>1, <1>9 DEF EnqueueEmptyRunFails, storeVars
<1>10. QED
  BY <1>3, <1>4, <1>5, <1>6, <1>7, <1>8, <1>9 DEF Next, FaultStep, CreateStep

-----------------------------------------------------------------------------
(* Deliveries.  What a run's task, its executions and its creation know of *)
(* the run, each from what it read or wrote last.                          *)

\* What a run has missed on the way to its task, and in an execution that
\* returned nil.
MissedInCreate(missed) == missed \cap {"insert", "enqueueError"} # {}
MissedInExecute(missed) == missed \cap {"start", "confirm", "finish"} # {}

\* An execution has a row to work on; one that has confirmed the start, or
\* ends without an error, does so because of what the run's status is, unless
\* a call of its run came to nothing.
AttemptKnows(a, status, missed) ==
  /\ a.pc \in ExecutingPcs => status # "absent"
  /\ a.pc = "finishEvent" => status = FinishedStatus(a)
  /\ a.pc = "check" => a.seen \in {"queued", "running"}
  /\ a.seen = "running" => status \notin {"absent", "queued"}
  /\ a.pc = "done" => isTerminalRunStatus(status) \/ MissedInExecute(missed)
  /\ a.pc \in {"startEvent", "confirm"} =>
       status \notin {"absent", "queued"} \/ "start" \in missed

\* The create handler enqueues a run that has a row, and leaves none behind
\* without a task or an outcome, unless a call of its run came to nothing.
CreationKnows(c, t, status, missed) ==
  /\ c \in {"new", "queuedEvent", "enqueue"} => t.state = "none"
  /\ c \in {"queuedEvent", "enqueue", "enqueueError", "errorEvent"} =>
       status # "absent"
  /\ c = "errorEvent" => status = "errored"
  /\ t.state # "none" => status # "absent"
  /\ c = "enqueueEmpty" => "insert" \in missed
  /\ c = "accepted" => t.state # "none" \/ MissedInCreate(missed)
  /\ c = "rejected" => isTerminalRunStatus(status) \/ MissedInCreate(missed)
  /\ t.state = "completed" =>
       isTerminalRunStatus(status) \/ MissedInExecute(missed)

\* HandleError and Asynq count the same retries.
DeliveryOK(t, deadLetters) ==
  /\ t.state = "archived" => t.retried = MaxRetry
  /\ deadLetters > 0 =>
       t.retried = MaxRetry /\ t.state \in {"settling", "lost", "archived"}

\* The deliveries that a worker has begun; the later ones have no execution.
Begun(t) == t.retried + (IF t.state \in {"none", "pending"} THEN 0 ELSE 1)

Untouched(t, A) == \A k \in Attempts : k > Begun(t) => A[k].pc = "idle"

\* The deliveries that ended in an error, the one about to be found failed
\* included: LostDeliveries does not count it yet.
Spent(t, A) ==
  t.retried +
    (IF \/ t.state \in {"failing", "settling", "lost", "archived"}
        \/ t.state = "active" /\ A[t.retried + 1].pc = "failed"
     THEN 1 ELSE 0)

SpentOK(t, A, status, n) == isTerminalRunStatus(status) \/ Spent(t, A) <= n

RunOK(r) ==
  /\ \A k \in Attempts : AttemptKnows(att[r][k], rows[r].status, slips[r])
  /\ CreationKnows(create[r], task[r], rows[r].status, slips[r])
  /\ DeliveryOK(task[r], events[r]["worker_dead_lettered"])
  /\ Untouched(task[r], att[r])
  /\ SpentOK(task[r], att[r], rows[r].status, faults + storeFaults)

ProgressInv == \A r \in Runs : RunOK(r)

-----------------------------------------------------------------------------
(* The invariant about deliveries holds.                                   *)

\* Lemma: the status a finishing call asks for is an outcome.
LEMMA FinishedIsTerminal ==
  ASSUME NEW a
  PROVE  isTerminalRunStatus(FinishedStatus(a))
BY DEF FinishedStatus, CompletedStatus, isTerminalRunStatus, TerminalStatuses

\* Lemma: what a run has missed it has missed for good.
LEMMA MissedOn ==
  ASSUME NEW n, NEW m, n \subseteq m
  PROVE  /\ MissedInCreate(n) => MissedInCreate(m)
         /\ MissedInExecute(n) => MissedInExecute(m)
BY DEF MissedInCreate, MissedInExecute

\* Lemma: what an execution knows stays true while others move the run on.
LEMMA AttemptKnowsOn ==
  ASSUME NEW a, NEW s, NEW next, NEW n, NEW m, n \subseteq m,
         AttemptKnows(a, s, n), StatusStep(s, next)
  PROVE  AttemptKnows(a, next, m)
<1>1. isTerminalRunStatus(s) => next = s
  BY DEF StatusStep
<1>2. s # "absent" => next # "absent"
  BY DEF StatusStep
<1>3. s \notin {"absent", "queued"} => next \notin {"absent", "queued"}
  BY DEF StatusStep
<1>4. QED
  BY <1>1, <1>2, <1>3, MissedOn, FinishedIsTerminal DEF AttemptKnows

\* Lemma: so does what the create handler knows.
LEMMA CreationKnowsOn ==
  ASSUME NEW c, NEW t, NEW s, NEW next, NEW n, NEW m, n \subseteq m,
         CreationKnows(c, t, s, n), StatusStep(s, next)
  PROVE  CreationKnows(c, t, next, m)
<1>1. isTerminalRunStatus(s) => next = s
  BY DEF StatusStep
<1>2. s # "absent" => next # "absent"
  BY DEF StatusStep
<1>3. isTerminalRunStatus("errored")
  BY DEF isTerminalRunStatus, TerminalStatuses
<1>4. QED
  BY <1>1, <1>2, <1>3, MissedOn DEF CreationKnows

\* Lemma: an execution without local state knows nothing but its row.
LEMMA FreshKnows ==
  ASSUME NEW s \in RunStatus, NEW n,
         NEW pc \in {"idle", "dead", "failed"}
  PROVE  AttemptKnows(FreshAttempt(pc), s, n)
BY DEF AttemptKnows, FreshAttempt, ExecutingPcs

\* Lemma: the effect of a store call on the count of faults.
LEMMA StoreCallCounts ==
  ASSUME NEW ok \in BOOLEAN, StoreCall(ok)
  PROVE  /\ ok => storeFaults' = storeFaults
         /\ ~ok => storeFaults' = storeFaults + 1
BY DEF StoreCall

\* What execution (r, k) knows after its step, and when it may fail.
Learns(r, k) ==
  /\ AttemptKnows(att'[r][k], rows'[r].status, slips'[r])
  /\ att'[r][k].pc = "failed" =>
       isTerminalRunStatus(rows'[r].status) \/ storeFaults' = storeFaults + 1

\* Lemma: the store's operations end a run that can be ended.
LEMMA RowsEnd ==
  ASSUME NEW row \in Row, row.status # "absent", NEW a \in Attempt,
         LocalOK(a), a.pc = "finish"
  PROVE  /\ isTerminalRunStatus(FinishedRow(row, a).status)
         /\ isCancelableRunStatus(row.status) =>
              FinishedRow(row, a).status = FinishedStatus(a)
         /\ isTerminalRunStatus(ErrorRun(row).status)
         /\ isCancelableRunStatus(row.status) =>
              ErrorRun(row).status = "errored"
<1>1. row.status \in RunStatus
  BY DEF Row
<1>2. CASE isCancelableRunStatus(row.status)
  <2>1. \A s, rep : finishRunWithReport(row, s, rep).status = s
    BY <1>2 DEF finishRunWithReport
  <2>2. ErrorRun(row).status = "errored"
    BY <1>2 DEF ErrorRun, Row
  <2>3. FinishedRow(row, a).status = FinishedStatus(a)
    BY <2>1, <2>2 DEF FinishedRow, FinishedStatus, CompleteRun, CancelRun
  <2>4. QED
    BY <1>2, <2>2, <2>3, FinishedIsTerminal
    DEF isTerminalRunStatus, TerminalStatuses
<1>3. CASE ~isCancelableRunStatus(row.status)
  BY <1>1, <1>3 DEF FinishedRow, CompleteRun, CancelRun, finishRunWithReport,
    ErrorRun, RunStatus, isCancelableRunStatus, isTerminalRunStatus
<1>4. QED
  BY <1>2, <1>3

\* Lemma: a step of an execution leaves it with true knowledge, and without a
\* failing store call it returns an error only for a run with an outcome.
LEMMA ExecuteLearns ==
  ASSUME Inv, ProgressInv, NEW r \in Runs, NEW k \in Attempts,
         ExecuteStep(r, k) \/ MonitorCancel(r, k)
  PROVE  Learns(r, k)
<1> DEFINE a == att[r][k]
           s == rows[r].status
<1>0. /\ TypeOK /\ a \in Attempt /\ LocalOK(a)
      /\ s \in RunStatus /\ rows[r] \in Row
      /\ storeFaults \in Nat
      /\ AttemptKnows(a, s, slips[r])
      /\ slips \in [Runs -> SUBSET SlipKinds] /\ slips[r] \subseteq slips'[r]
  <2>1. TypeOK /\ LocalOK(a) /\ AttemptKnows(a, s, slips[r])
    BY DEF Inv, TypeInv, ReportReady, ProgressInv, RunOK
  <2>2. slips[r] \subseteq slips'[r]
    BY <2>1, SlipStep DEF Next, SlipsKept
  <2>3. QED
    BY <2>1, <2>2, FaultsAreNumbers DEF TypeOK, Row
<1>1. CASE LoadRun(r, k)
  <2>1. PICK ok \in BOOLEAN :
          /\ StoreCall(ok)
          /\ att' = [att EXCEPT ![r][k] =
               IF ok /\ isCancelableRunStatus(s)
               THEN [@ EXCEPT !.pc = "check", !.seen = s]
               ELSE FreshAttempt(IF ok /\ isTerminalRunStatus(s)
                                 THEN "done" ELSE "failed")]
    BY <1>1 DEF LoadRun
  <2>2. a.pc = "load" /\ rows' = rows /\ s # "absent"
    BY <1>0, <1>1 DEF LoadRun, storeVars, AttemptKnows, ExecutingPcs
  <2>3. CASE ok /\ isCancelableRunStatus(s)
    <3>1. att'[r][k] = [a EXCEPT !.pc = "check", !.seen = s]
      BY <1>0, <2>1, <2>3 DEF TypeOK
    <3>2. att'[r][k].pc = "check" /\ att'[r][k].seen = s
      BY <1>0, <3>1 DEF Attempt
    <3>3. s \in {"queued", "running"}
      BY <2>3 DEF isCancelableRunStatus
    <3>4. QED
      BY <2>2, <3>2, <3>3 DEF Learns, AttemptKnows, ExecutingPcs
  <2>4. CASE ok /\ isTerminalRunStatus(s)
    <3>1. att'[r][k] = FreshAttempt("done")
      BY <1>0, <2>1, <2>4
      DEF TypeOK, isTerminalRunStatus, isCancelableRunStatus, TerminalStatuses
    <3>2. QED
      BY <2>2, <2>4, <3>1 DEF Learns, AttemptKnows, ExecutingPcs, FreshAttempt
  <2>5. CASE ~ok
    <3>1. att'[r][k] = FreshAttempt("failed") /\ storeFaults' = storeFaults + 1
      BY <1>0, <2>1, <2>5, StoreCallCounts DEF TypeOK
    <3>2. QED
      BY <1>0, <2>2, <3>1, FreshKnows DEF Learns
  <2>6. QED
    BY <1>0, <2>2, <2>3, <2>4, <2>5
    DEF RunStatus, isTerminalRunStatus, isCancelableRunStatus
<1>2. CASE CheckCancel(r, k)
  <2>1. PICK ok \in BOOLEAN :
          att' = [att EXCEPT ![r][k] =
               IF ok /\ IsRunCancelRequested(r)
               THEN [@ EXCEPT !.pc = "upload", !.fin = "cancel",
                              !.rep = canceledReport("before")]
               ELSE [@ EXCEPT !.pc = IF att[r][k].seen = "queued"
                                     THEN "start" ELSE "confirm"]]
    BY <1>2 DEF CheckCancel
  <2>2. a.pc = "check" /\ rows' = rows /\ s # "absent"
    BY <1>0, <1>2 DEF CheckCancel, storeVars, AttemptKnows, ExecutingPcs
  <2>3. a.seen \in {"queued", "running"}
    BY <1>0, <2>2 DEF AttemptKnows
  <2>4. /\ att'[r][k].seen = a.seen
        /\ att'[r][k].pc \in {"upload", "start", "confirm"}
        /\ att'[r][k].pc = "confirm" => a.seen # "queued"
    <3>1. CASE ok /\ IsRunCancelRequested(r)
      <4>1. att'[r][k] = [a EXCEPT !.pc = "upload", !.fin = "cancel",
                                   !.rep = canceledReport("before")]
        BY <1>0, <2>1, <3>1 DEF TypeOK
      <4>2. QED
        BY <1>0, <4>1 DEF Attempt
    <3>2. CASE ~(ok /\ IsRunCancelRequested(r))
      <4>1. att'[r][k] = [a EXCEPT !.pc = IF a.seen = "queued"
                                          THEN "start" ELSE "confirm"]
        BY <1>0, <2>1, <3>2 DEF TypeOK
      <4>2. QED
        BY <1>0, <4>1 DEF Attempt
    <3>3. QED
      BY <3>1, <3>2
  <2>5. QED
    BY <1>0, <2>2, <2>3, <2>4 DEF Learns, AttemptKnows, ExecutingPcs
<1>3. CASE StartRun(r, k)
  <2>1. PICK done \in BOOLEAN, told \in BOOLEAN :
          /\ StoreWrite(done, told)
          /\ rows' = IF done THEN [rows EXCEPT ![r] = MarkRunStarted(@)]
                             ELSE rows
          /\ att' = [att EXCEPT ![r][k].pc =
                       IF told /\ isCancelableRunStatus(s)
                       THEN "startEvent" ELSE "confirm"]
          /\ Slip(r, IF done THEN {} ELSE {"start"})
    BY <1>3 DEF StartRun
  <2>2. a.pc = "start" /\ s # "absent"
    BY <1>0, <1>3 DEF StartRun, AttemptKnows, ExecutingPcs
  <2>3. /\ att'[r][k].pc \in {"startEvent", "confirm"}
        /\ att'[r][k].seen = a.seen
    BY <1>0, <2>1 DEF TypeOK, Attempt
  <2>4. MarkRunStarted(rows[r]).status \notin {"absent", "queued"}
    BY <1>0, <2>2 DEF MarkRunStarted, isCancelableRunStatus, Row, RunStatus
  <2>5. /\ rows'[r].status \in {s, MarkRunStarted(rows[r]).status}
        /\ done => rows'[r].status = MarkRunStarted(rows[r]).status
    BY <1>0, <2>1 DEF TypeOK
  <2>6. ~done => "start" \in slips'[r]
    BY <1>0, <2>1 DEF Slip
  <2>7. a.seen = "running" => s \notin {"absent", "queued"}
    BY <1>0 DEF AttemptKnows
  <2>8. rows'[r].status \notin {"absent", "queued"} \/ "start" \in slips'[r]
    BY <2>4, <2>5, <2>6
  <2>9. QED
    BY <2>2, <2>3, <2>4, <2>5, <2>7, <2>8
    DEF Learns, AttemptKnows, ExecutingPcs
<1>4. CASE StartedEvent(r, k)
  <2>1. a.pc = "startEvent" /\ rows' = rows
    BY <1>4 DEF StartedEvent
  <2>2. att'[r][k].pc = "confirm" /\ att'[r][k].seen = a.seen
    BY <1>0, <1>4 DEF StartedEvent, TypeOK, Attempt
  <2>3. QED
    BY <1>0, <2>1, <2>2 DEF Learns, AttemptKnows, ExecutingPcs
<1>5. CASE ConfirmStarted(r, k)
  <2>1. PICK ok \in BOOLEAN :
          /\ StoreCall(ok)
          /\ att' = [att EXCEPT ![r][k] =
               IF ok /\ s = "running"
               THEN [@ EXCEPT !.pc = "run"] ELSE FreshAttempt("done")]
          /\ Slip(r, IF ok THEN {} ELSE {"confirm"})
    BY <1>5 DEF ConfirmStarted
  <2>2. a.pc = "confirm" /\ rows' = rows
    BY <1>5 DEF ConfirmStarted, storeVars
  <2>3. CASE ok /\ s = "running"
    <3>1. att'[r][k].pc = "run" /\ att'[r][k].seen = a.seen
      BY <1>0, <2>1, <2>3 DEF TypeOK, Attempt
    <3>2. QED
      BY <2>2, <2>3, <3>1 DEF Learns, AttemptKnows, ExecutingPcs
  <2>4. CASE ~(ok /\ s = "running")
    <3>1. att'[r][k] = FreshAttempt("done")
      BY <1>0, <2>1, <2>4 DEF TypeOK
    <3>2. ~ok => "confirm" \in slips'[r]
      BY <1>0, <2>1 DEF Slip
    <3>3. isTerminalRunStatus(s) \/ MissedInExecute(slips'[r])
      BY <1>0, <2>2, <2>4, <3>2
      DEF AttemptKnows, RunStatus, isTerminalRunStatus, MissedInExecute
    <3>4. QED
      BY <2>2, <3>1, <3>3 DEF Learns, AttemptKnows, ExecutingPcs, FreshAttempt
  <2>5. QED
    BY <2>3, <2>4
<1>6. CASE \/ MonitorCancel(r, k) \/ RunnerReturns(r, k) \/ Decide(r, k)
           \/ UploadReport(r, k)
  <2>1. /\ a.pc \in {"run", "decide", "upload"}
        /\ rows' = rows
    BY <1>6 DEF MonitorCancel, RunnerReturns, Decide, UploadReport, storeVars
  <2>2. /\ att'[r][k].seen = a.seen
        /\ att'[r][k].pc \in {"run", "decide", "upload", "finish"}
    <3>1. CASE MonitorCancel(r, k)
      BY <1>0, <2>1, <3>1 DEF MonitorCancel, TypeOK, Attempt
    <3>2. CASE RunnerReturns(r, k)
      BY <1>0, <3>2 DEF RunnerReturns, TypeOK, Attempt
    <3>3. CASE Decide(r, k)
      <4>1. PICK req \in BOOLEAN : att' = [att EXCEPT ![r][k] = Decided(@, req)]
        BY <3>3 DEF Decide, IsRunCancelRequested
      <4>2. att'[r][k] = Decided(a, req)
        BY <1>0, <4>1 DEF TypeOK
      <4>3. Decided(a, req).seen = a.seen
            /\ Decided(a, req).pc \in {"upload", "finish"}
        BY <1>0 DEF Decided, Attempt
      <4>4. QED
        BY <4>2, <4>3
    <3>4. CASE UploadReport(r, k)
      BY <1>0, <3>4 DEF UploadReport, TypeOK, Attempt
    <3>5. QED
      BY <1>6, <3>1, <3>2, <3>3, <3>4
  <2>3. QED
    BY <1>0, <2>1, <2>2 DEF Learns, AttemptKnows, ExecutingPcs
<1>7. CASE FinishRun(r, k)
  <2>1. PICK done \in BOOLEAN, told \in BOOLEAN :
          /\ StoreWrite(done, told)
          /\ rows' = IF done THEN [rows EXCEPT ![r] = FinishedRow(@, a)]
                             ELSE rows
          /\ att' = [att EXCEPT ![r][k] =
               IF told /\ isCancelableRunStatus(s)
               THEN [@ EXCEPT !.pc = "finishEvent"]
               ELSE FreshAttempt(ReturnPc(@.fin))]
          /\ OutcomeSlip(r, done, told, IF ReturnPc(a.fin) = "done"
                                        THEN {"finish"} ELSE {})
    BY <1>7 DEF FinishRun
  <2>2. a.pc = "finish" /\ s # "absent"
    BY <1>0, <1>7 DEF FinishRun, AttemptKnows, ExecutingPcs
  <2>3. /\ done => rows'[r].status = FinishedRow(rows[r], a).status
        /\ told => done
        /\ ~told => storeFaults' = storeFaults + 1
    BY <1>0, <2>1, StoreCallCounts DEF TypeOK, StoreWrite
  <2>4. /\ isTerminalRunStatus(FinishedRow(rows[r], a).status)
        /\ isCancelableRunStatus(s) =>
              FinishedRow(rows[r], a).status = FinishedStatus(a)
    BY <1>0, <2>2, RowsEnd
  <2>5. CASE told /\ isCancelableRunStatus(s)
    <3>1. att'[r][k] = [a EXCEPT !.pc = "finishEvent"]
      BY <1>0, <2>1, <2>5 DEF TypeOK
    <3>2. /\ att'[r][k].pc = "finishEvent"
          /\ FinishedStatus(att'[r][k]) = FinishedStatus(a)
      BY <1>0, <3>1 DEF Attempt, FinishedStatus
    <3>3. rows'[r].status = FinishedStatus(a)
      BY <2>3, <2>4, <2>5
    <3>4. rows'[r].status \notin {"absent", "queued"}
      BY <3>3, FinishedIsTerminal DEF isTerminalRunStatus, TerminalStatuses
    <3>5. QED
      BY <3>2, <3>3, <3>4 DEF Learns, AttemptKnows
  <2>6. CASE ~(told /\ isCancelableRunStatus(s))
    <3>1. /\ att'[r][k] = FreshAttempt(ReturnPc(a.fin))
          /\ ReturnPc(a.fin) \in {"done", "failed"}
      BY <1>0, <2>1, <2>6 DEF TypeOK, ReturnPc
    <3>2. isTerminalRunStatus(rows'[r].status) \/ storeFaults' = storeFaults + 1
      BY <2>3, <2>4
    <3>3. \/ isTerminalRunStatus(rows'[r].status)
          \/ ReturnPc(a.fin) = "failed" \/ MissedInExecute(slips'[r])
      <4>1. ~done /\ ReturnPc(a.fin) = "done" => "finish" \in slips'[r]
        BY <1>0, <2>1 DEF OutcomeSlip, Slip
      <4>2. QED
        BY <2>3, <2>4, <3>1, <4>1 DEF MissedInExecute
    <3>4. QED
      BY <3>1, <3>2, <3>3 DEF Learns, AttemptKnows, ExecutingPcs, FreshAttempt
  <2>7. QED
    BY <2>5, <2>6
<1>8. CASE FinishedEvent(r, k)
  <2>1. a.pc = "finishEvent" /\ rows' = rows
    BY <1>8 DEF FinishedEvent
  <2>2. PICK pc \in {"done", "failed"} : att'[r][k] = FreshAttempt(pc)
    BY <1>0, <1>8 DEF FinishedEvent, TypeOK, ReturnPc
  <2>3. isTerminalRunStatus(s)
    BY <1>0, <2>1, FinishedIsTerminal DEF AttemptKnows
  <2>4. QED
    BY <2>1, <2>2, <2>3 DEF Learns, AttemptKnows, ExecutingPcs, FreshAttempt
<1>9. QED
  BY <1>1, <1>2, <1>3, <1>4, <1>5, <1>6, <1>7, <1>8 DEF ExecuteStep

\* Lemma: what a step of an execution leaves alone.
LEMMA ExecuteFrame ==
  ASSUME TypeOK, NEW r \in Runs, NEW k \in Attempts,
         ExecuteStep(r, k) \/ MonitorCancel(r, k)
  PROVE  /\ att[r][k].pc \in ExecutingPcs
         /\ \A j \in Attempts : j # k => att'[r][j] = att[r][j]
         /\ UNCHANGED <<task, create, cancel, faults>>
         /\ events'[r]["worker_dead_lettered"] =
              events[r]["worker_dead_lettered"]
<1>1. att[r][k].pc \in ExecutingPcs
  BY DEF ExecuteStep, LoadRun, CheckCancel, StartRun, StartedEvent,
    ConfirmStarted, RunnerReturns, Decide, UploadReport, FinishRun,
    FinishedEvent, MonitorCancel, ExecutingPcs
<1>2. \A j \in Attempts : j # k => att'[r][j] = att[r][j]
  BY DEF ExecuteStep, LoadRun, CheckCancel, StartRun, StartedEvent,
    ConfirmStarted, RunnerReturns, Decide, UploadReport, FinishRun,
    FinishedEvent, MonitorCancel, TypeOK
<1>3. UNCHANGED <<task, create, cancel, faults>>
  BY DEF ExecuteStep, LoadRun, CheckCancel, StartRun, StartedEvent,
    ConfirmStarted, RunnerReturns, Decide, UploadReport, FinishRun,
    FinishedEvent, MonitorCancel, ExecUnchanged
<1>4. CASE StartedEvent(r, k) \/ FinishedEvent(r, k)
  <2>1. PICK t \in RunEventTypes \ {"worker_dead_lettered"} :
          appendRunEvent(r, t)
    BY <1>4 DEF StartedEvent, FinishedEvent, TerminalEvent, RunEventTypes
  <2>2. QED
    BY <1>1, <1>2, <1>3, <2>1, Appended DEF RunEventTypes
<1>5. CASE ~(StartedEvent(r, k) \/ FinishedEvent(r, k))
  <2>1. UNCHANGED events
    BY <1>5
    DEF ExecuteStep, LoadRun, CheckCancel, StartRun, ConfirmStarted,
      RunnerReturns, Decide, UploadReport, FinishRun, MonitorCancel, storeVars
  <2>2. QED
    BY <1>1, <1>2, <1>3, <2>1
<1>6. QED
  BY <1>4, <1>5

\* Lemma: executions keep knowing.
LEMMA AttemptsKeepKnowing ==
  ASSUME Inv, ProgressInv, Next, NEW q \in Runs, NEW j \in Attempts
  PROVE  AttemptKnows(att'[q][j], rows'[q].status, slips'[q])
<1>0. /\ TypeOK /\ rows[q].status \in RunStatus /\ rows'[q].status \in RunStatus
      /\ slips[q] \subseteq slips'[q]
  <2>1. TypeOK /\ TypeOK'
    BY TypeStep DEF Inv, TypeInv
  <2>2. rows[q].status \in RunStatus /\ rows'[q].status \in RunStatus
    BY <2>1 DEF TypeOK, Row
  <2>3. QED
    BY <2>1, <2>2, SlipStep DEF SlipsKept
<1>1. AttemptKnows(att[q][j], rows[q].status, slips[q])
  BY DEF ProgressInv, RunOK
<1>2. ASSUME att'[q][j] = att[q][j]
      PROVE  AttemptKnows(att'[q][j], rows'[q].status, slips'[q])
  BY <1>0, <1>1, <1>2, StatusMoves, AttemptKnowsOn
<1>3. CASE DeliveryKept(q)
  BY <1>2, <1>3 DEF DeliveryKept
<1>4. CASE EnqueueRun(q) \/ EnqueueRunFails(q) \/ AttemptAbandoned(q)
  BY <1>2, <1>4 DEF EnqueueRun, EnqueueRunFails, AttemptAbandoned
<1>5. ASSUME NEW k \in Attempts, ExecuteStep(q, k) \/ MonitorCancel(q, k)
      PROVE  AttemptKnows(att'[q][j], rows'[q].status, slips'[q])
  <2>1. CASE j = k
    BY <1>5, <2>1, ExecuteLearns DEF Learns
  <2>2. CASE j # k
    BY <1>0, <1>2, <1>5, <2>2, ExecuteFrame
  <2>3. QED
    BY <2>1, <2>2
<1>6. ASSUME NEW k \in Attempts, WorkerCrash(q, k)
      PROVE  AttemptKnows(att'[q][j], rows'[q].status, slips'[q])
  <2>1. att'[q][j] = att[q][j] \/ att'[q][j] = FreshAttempt("dead")
    BY <1>0, <1>6 DEF WorkerCrash, TypeOK
  <2>2. QED
    BY <1>0, <1>2, <2>1, FreshKnows
<1>7. CASE WorkerShutdown(q)
  <2>1. att'[q][j] = att[q][j] \/ att'[q][j] = FreshAttempt("idle")
    BY <1>0, <1>7, OwnerType DEF WorkerShutdown, TypeOK
  <2>2. QED
    BY <1>0, <1>2, <2>1, FreshKnows
<1>8. CASE handleRunExecute(q)
  <2>1. att'[q][j] = att[q][j] \/ att'[q][j] = FreshAttempt("load")
    BY <1>0, <1>8, OwnerType DEF handleRunExecute, TypeOK
  <2>2. rows' = rows /\ task[q].state = "pending"
    BY <1>8 DEF handleRunExecute, TaskUnchanged
  <2>3. rows[q].status # "absent"
    BY <2>2 DEF ProgressInv, RunOK, CreationKnows
  <2>4. AttemptKnows(FreshAttempt("load"), rows[q].status, slips'[q])
    BY <2>3 DEF AttemptKnows, FreshAttempt
  <2>5. QED
    BY <1>2, <2>1, <2>2, <2>4
<1>9. CASE TaskStep(q) /\ ~handleRunExecute(q)
  BY <1>2, <1>9
  DEF TaskStep, TaskSucceeded, AttemptFailed, HandleError, RetryOrArchive,
    LeaseRecovered
<1>10. QED
  BY <1>0, <1>3, <1>4, <1>5, <1>6, <1>7, <1>8, <1>9, DeliveryMoves

\* Lemma: who moves the creation of a run.
LEMMA CreationMoves ==
  ASSUME TypeOK, Next, NEW q \in Runs
  PROVE  \/ create'[q] = create[q]
         \/ CreateRunRow(q) \/ CreateStep(q) \/ EnqueueRunFails(q)
         \/ EnqueueEmptyRunFails(q) \/ APICrash
<1>1. CASE UNCHANGED create
  BY <1>1
<1>2. ASSUME NEW r \in Runs, r # q,
             \/ CreateRunRow(r) \/ CreateStep(r) \/ EnqueueRunFails(r)
             \/ EnqueueEmptyRunFails(r)
      PROVE  create'[q] = create[q]
  BY <1>2 DEF TypeOK, CreateRunRow, CreateStep, QueuedEvent, EnqueueRun,
    EnqueueEmptyRun, RecordEnqueueError, EnqueueErrorEvent, EnqueueRunFails,
    EnqueueEmptyRunFails
<1>3. ASSUME NEW r \in Runs,
             \/ TaskStep(r) \/ AttemptAbandoned(r) \/ WorkerShutdown(r)
             \/ \E k \in Attempts : WorkerCrash(r, k)
      PROVE  UNCHANGED create
  BY <1>3 DEF TaskStep, handleRunExecute, TaskSucceeded, AttemptFailed,
    HandleError, RetryOrArchive, LeaseRecovered, AttemptAbandoned,
    WorkerShutdown, WorkerCrash, TaskUnchanged
<1>4. ASSUME NEW r \in Runs, NEW k \in Attempts,
             ExecuteStep(r, k) \/ MonitorCancel(r, k)
      PROVE  UNCHANGED create
  BY <1>4, ExecuteFrame
<1>5. ASSUME NEW c \in Cancellers, CancelLoad(c) \/ CancelStep(c)
      PROVE  UNCHANGED create
  BY <1>5 DEF CancelLoad, CancelStep, RequestRunCancel, CancelFinish,
    CanceledEvent
<1>6. QED
  BY <1>1, <1>2, <1>3, <1>4, <1>5 DEF Next, FaultStep

\* The moves of run q's task once it is in the queue.
TaskMovesOn(q) ==
  /\ task[q].state # "none" /\ task'[q].state # "none"
  /\ task'[q].state = "completed" =>
       \/ task[q].state = "completed"
       \/ att[q][Owner(q)].pc = "done"

\* Lemma: a task leaves the state "none" by being enqueued, and completes when
\* its execution has returned nil.
LEMMA TaskMovesOnward ==
  ASSUME TypeOK, NEW q \in Runs,
         \/ TaskStep(q) \/ AttemptAbandoned(q) \/ WorkerShutdown(q)
         \/ \E k \in Attempts : WorkerCrash(q, k) /\ task'[q] # task[q]
  PROVE  TaskMovesOn(q)
<1> DEFINE t == task[q]
<1>0. t \in [state : TaskStates, retried : 0 .. MaxRetry]
  BY DEF TypeOK
<1>1. ASSUME NEW state \in TaskStates, task' = [task EXCEPT ![q].state = state]
      PROVE  task'[q].state = state
  BY <1>0, <1>1 DEF TypeOK
<1>2. CASE handleRunExecute(q) \/ AttemptFailed(q) \/ HandleError(q)
           \/ AttemptAbandoned(q) \/ WorkerShutdown(q)
  BY <1>1, <1>2 DEF handleRunExecute, AttemptFailed, HandleError,
    AttemptAbandoned, WorkerShutdown, TaskMovesOn, TaskStates
<1>3. CASE TaskSucceeded(q)
  BY <1>1, <1>3 DEF TaskSucceeded, TaskMovesOn, TaskStates
<1>4. CASE RetryOrArchive(q) \/ LeaseRecovered(q)
  <2>1. task'[q] = Retried(t) /\ t.state \in {"settling", "lost"}
    BY <1>4 DEF RetryOrArchive, LeaseRecovered, TypeOK
  <2>2. Retried(t).state \in {"archived", "pending"}
    BY <1>0 DEF Retried
  <2>3. QED
    BY <2>1, <2>2 DEF TaskMovesOn
<1>5. ASSUME NEW k \in Attempts, WorkerCrash(q, k), task'[q] # task[q]
      PROVE  TaskMovesOn(q)
  <2>1. /\ t.state \in HeldStates
        /\ task' = [task EXCEPT ![q].state = "lost"]
    BY <1>5 DEF WorkerCrash
  <2>2. QED
    BY <1>1, <2>1 DEF TaskMovesOn, TaskStates, HeldStates
<1>6. QED
  BY <1>2, <1>3, <1>4, <1>5 DEF TaskStep

\* Lemma: the create handlers keep knowing.
LEMMA CreationsKeepKnowing ==
  ASSUME Inv, ProgressInv, Next, NEW q \in Runs
  PROVE  CreationKnows(create'[q], task'[q], rows'[q].status, slips'[q])
<1> DEFINE c == create[q]
           t == task[q]
           s == rows[q].status
           Goal == CreationKnows(create'[q], task'[q], rows'[q].status,
                                 slips'[q])
<1>0. /\ TypeOK /\ rows[q] \in Row /\ s \in RunStatus
      /\ t \in [state : TaskStates, retried : 0 .. MaxRetry]
      /\ slips \in [Runs -> SUBSET SlipKinds] /\ slips[q] \subseteq slips'[q]
  <2>1. TypeOK /\ SlipsKept
    BY SlipStep DEF Inv, TypeInv
  <2>2. QED
    BY <2>1 DEF TypeOK, Row, SlipsKept
<1>1. CreationKnows(c, t, s, slips[q])
  BY DEF ProgressInv, RunOK
<1>2. CreationKnows(c, t, rows'[q].status, slips'[q])
  BY <1>0, <1>1, StatusMoves, CreationKnowsOn
<1>3. CASE create'[q] = c /\ task'[q] = t
  BY <1>2, <1>3
<1>4. CASE create'[q] = c /\ TaskMovesOn(q)
  <2>1. ASSUME task'[q].state = "completed"
        PROVE  \/ isTerminalRunStatus(rows'[q].status)
               \/ MissedInExecute(slips'[q])
    <3>1. Owner(q) \in Attempts
      BY <1>0, OwnerType
    <3>2. AttemptKnows(att[q][Owner(q)], s, slips[q])
      BY <3>1 DEF ProgressInv, RunOK
    <3>3. isTerminalRunStatus(s) \/ MissedInExecute(slips[q])
      BY <1>1, <1>4, <2>1, <3>2
      DEF TaskMovesOn, AttemptKnows, CreationKnows
    <3>4. QED
      BY <1>0, <3>3, StatusMoves, MissedOn DEF StatusStep
  <2>2. QED
    BY <1>2, <1>4, <2>1 DEF CreationKnows, TaskMovesOn
<1>5. CASE CreateRunRow(q)
  <2>1. PICK done \in BOOLEAN, told \in BOOLEAN :
          /\ StoreWrite(done, told)
          /\ rows' = IF done THEN [rows EXCEPT ![q] = CreateRun] ELSE rows
          /\ create' = [create EXCEPT ![q] = IF told THEN "queuedEvent"
                                                     ELSE "enqueueEmpty"]
          /\ Slip(q, IF told THEN {} ELSE {"insert"})
    BY <1>5 DEF CreateRunRow
  <2>2. task'[q] = t /\ t.state = "none"
    BY <1>1, <1>5 DEF CreateRunRow, CreationKnows
  <2>3. CASE told
    <3>1. create'[q] = "queuedEvent" /\ rows'[q].status = "queued"
      BY <1>0, <2>1, <2>3 DEF TypeOK, StoreWrite, CreateRun
    <3>2. QED
      BY <2>2, <3>1 DEF CreationKnows
  <2>4. CASE ~told
    <3>1. create'[q] = "enqueueEmpty" /\ "insert" \in slips'[q]
      BY <1>0, <2>1, <2>4 DEF TypeOK, Slip
    <3>2. QED
      BY <2>2, <3>1 DEF CreationKnows
  <2>5. QED
    BY <2>3, <2>4
<1>6. CASE QueuedEvent(q)
  <2>1. /\ c = "queuedEvent" /\ create'[q] = "enqueue"
        /\ task' = task /\ rows' = rows
    BY <1>0, <1>6 DEF QueuedEvent, TypeOK
  <2>2. QED
    BY <1>2, <2>1 DEF CreationKnows
<1>7. CASE EnqueueRun(q) \/ EnqueueEmptyRun(q)
  <2>1. create'[q] = "accepted" /\ rows' = rows
    BY <1>0, <1>7 DEF EnqueueRun, EnqueueEmptyRun, TypeOK, storeVars
  <2>2. CASE EnqueueRun(q)
    <3>1. c = "enqueue" /\ task'[q].state = "pending"
      BY <1>0, <2>2 DEF EnqueueRun, TypeOK
    <3>2. QED
      BY <1>2, <2>1, <3>1 DEF CreationKnows
  <2>3. CASE EnqueueEmptyRun(q)
    <3>1. c = "enqueueEmpty" /\ task' = task
      BY <2>3 DEF EnqueueEmptyRun
    <3>2. QED
      BY <1>2, <2>1, <3>1 DEF CreationKnows, MissedInCreate
  <2>4. QED
    BY <1>7, <2>2, <2>3
<1>8. CASE EnqueueRunFails(q)
  <2>1. /\ c = "enqueue" /\ create'[q] = "enqueueError" /\ rows' = rows
        /\ task'[q].state \in {"pending", t.state}
    BY <1>0, <1>8 DEF EnqueueRunFails, TypeOK, storeVars
  <2>2. QED
    BY <1>2, <2>1 DEF CreationKnows
<1>9. CASE RecordEnqueueError(q)
  <2>1. PICK done \in BOOLEAN, told \in BOOLEAN :
          /\ StoreWrite(done, told)
          /\ rows' = IF done THEN [rows EXCEPT ![q] = ErrorRun(@)] ELSE rows
          /\ create' = [create EXCEPT ![q] =
                          IF told /\ isCancelableRunStatus(s)
                          THEN "errorEvent" ELSE "rejected"]
          /\ OutcomeSlip(q, done, told, {"enqueueError"})
    BY <1>9 DEF RecordEnqueueError
  <2>2. c = "enqueueError" /\ task' = task
    BY <1>9 DEF RecordEnqueueError
  <2>3. s # "absent"
    BY <1>1, <2>2 DEF CreationKnows
  <2>4. /\ done => rows'[q].status = ErrorRun(rows[q]).status
        /\ told => done
        /\ ~done => "enqueueError" \in slips'[q]
    BY <1>0, <2>1 DEF TypeOK, StoreWrite, OutcomeSlip, Slip
  <2>5. /\ isTerminalRunStatus(ErrorRun(rows[q]).status)
        /\ isCancelableRunStatus(s) => ErrorRun(rows[q]).status = "errored"
    BY <1>0, <2>3 DEF ErrorRun, Row, RunStatus, isCancelableRunStatus,
      isTerminalRunStatus, TerminalStatuses
  <2>6. CASE told /\ isCancelableRunStatus(s)
    <3>1. create'[q] = "errorEvent" /\ rows'[q].status = "errored"
      BY <1>0, <2>1, <2>4, <2>5, <2>6 DEF TypeOK
    <3>2. QED
      BY <1>2, <2>2, <3>1
      DEF CreationKnows, isTerminalRunStatus, TerminalStatuses
  <2>7. CASE ~(told /\ isCancelableRunStatus(s))
    <3>1. create'[q] = "rejected"
      BY <1>0, <2>1, <2>7 DEF TypeOK
    <3>2. isTerminalRunStatus(rows'[q].status) \/ MissedInCreate(slips'[q])
      BY <2>4, <2>5 DEF MissedInCreate
    <3>3. QED
      BY <1>2, <2>2, <3>1, <3>2 DEF CreationKnows
  <2>8. QED
    BY <2>6, <2>7
<1>10. CASE EnqueueErrorEvent(q)
  <2>1. /\ c = "errorEvent" /\ create'[q] = "rejected"
        /\ task' = task /\ rows' = rows
    BY <1>0, <1>10 DEF EnqueueErrorEvent, TypeOK
  <2>2. QED
    BY <1>2, <2>1 DEF CreationKnows, isTerminalRunStatus, TerminalStatuses
<1>11. CASE APICrash
  <2>1. (create'[q] = c \/ create'[q] = "crashed") /\ task' = task
    BY <1>11 DEF APICrash
  <2>2. QED
    BY <1>2, <2>1 DEF CreationKnows
<1>12. CASE create'[q] = c
  <2>1. CASE DeliveryKept(q)
    BY <1>3, <1>12, <2>1 DEF DeliveryKept
  <2>2. CASE EnqueueRun(q) \/ EnqueueRunFails(q)
    BY <1>7, <1>8, <2>2
  <2>3. ASSUME NEW k \in Attempts, ExecuteStep(q, k) \/ MonitorCancel(q, k)
        PROVE  Goal
    BY <1>0, <1>3, <1>12, <2>3, ExecuteFrame
  <2>4. ASSUME NEW k \in Attempts, WorkerCrash(q, k)
        PROVE  Goal
    BY <1>0, <1>3, <1>4, <1>12, <2>4, TaskMovesOnward
  <2>5. CASE TaskStep(q) \/ AttemptAbandoned(q) \/ WorkerShutdown(q)
    BY <1>0, <1>4, <1>12, <2>5, TaskMovesOnward
  <2>6. QED
    BY <1>0, <2>1, <2>2, <2>3, <2>4, <2>5, DeliveryMoves
<1>13. CASE EnqueueEmptyRunFails(q)
  <2>1. /\ c = "enqueueEmpty" /\ create'[q] = "rejected"
        /\ task' = task /\ rows' = rows
    BY <1>0, <1>13 DEF EnqueueEmptyRunFails, TypeOK, storeVars
  <2>2. QED
    BY <1>2, <2>1 DEF CreationKnows, MissedInCreate
<1>14. QED
  BY <1>0, <1>5, <1>6, <1>7, <1>8, <1>9, <1>10, <1>11, <1>12, <1>13,
    CreationMoves DEF CreateStep

\* Lemma: dead letters stay final.
LEMMA DeliveriesStayOK ==
  ASSUME Inv, ProgressInv, Next, NEW q \in Runs
  PROVE  DeliveryOK(task'[q], events'[q]["worker_dead_lettered"])
<1> DEFINE t == task[q]
           dead == "worker_dead_lettered"
           Goal == DeliveryOK(task'[q], events'[q][dead])
<1>0. /\ TypeOK /\ dead \in RunEventTypes
      /\ t \in [state : TaskStates, retried : 0 .. MaxRetry]
      /\ events[q][dead] \in Nat
      /\ DeliveryOK(t, events[q][dead])
  BY DEF Inv, TypeInv, TypeOK, RunEventTypes, ProgressInv, RunOK
<1>1. ASSUME NEW state \in TaskStates, task' = [task EXCEPT ![q].state = state]
      PROVE  task'[q] = [state |-> state, retried |-> t.retried]
  BY <1>0, <1>1 DEF TypeOK
<1>2. ASSUME NEW u \in RunEventTypes, u # dead, appendRunEvent(q, u)
      PROVE  events'[q][dead] = events[q][dead]
  BY <1>0, <1>2, Appended
<1>3. CASE DeliveryKept(q)
  BY <1>0, <1>3 DEF DeliveryKept
<1>4. CASE EnqueueRun(q) \/ EnqueueRunFails(q)
  <2>1. create[q] = "enqueue" /\ events' = events
    BY <1>4 DEF EnqueueRun, EnqueueRunFails, storeVars
  <2>2. t.state = "none"
    BY <2>1 DEF ProgressInv, RunOK, CreationKnows
  <2>3. task'[q] = t \/ task'[q].state = "pending"
    BY <1>1, <1>4 DEF EnqueueRun, EnqueueRunFails, TaskStates
  <2>4. QED
    BY <1>0, <2>1, <2>2, <2>3 DEF DeliveryOK
<1>5. ASSUME NEW k \in Attempts, ExecuteStep(q, k) \/ MonitorCancel(q, k)
      PROVE  Goal
  BY <1>0, <1>5, ExecuteFrame
<1>6. ASSUME NEW k \in Attempts, WorkerCrash(q, k)
      PROVE  Goal
  <2>1. \/ task'[q] = t
        \/ /\ t.state \in HeldStates
           /\ task'[q] = [state |-> "lost", retried |-> t.retried]
    BY <1>1, <1>6 DEF WorkerCrash, TaskStates
  <2>2. events' = events
    BY <1>6 DEF WorkerCrash
  <2>3. QED
    BY <1>0, <2>1, <2>2 DEF DeliveryOK, HeldStates
<1>7. CASE handleRunExecute(q) \/ TaskSucceeded(q) \/ WorkerShutdown(q)
  <2>1. /\ t.state \in {"pending", "active"} /\ events' = events
        /\ task'[q].state \in {"active", "completed", "pending"}
    BY <1>1, <1>7 DEF handleRunExecute, TaskSucceeded, WorkerShutdown,
    TaskStates
  <2>2. QED
    BY <1>0, <2>1 DEF DeliveryOK
<1>8. CASE AttemptFailed(q) \/ AttemptAbandoned(q)
  <2>1. t.state = "active" /\ task'[q].state = "failing"
    BY <1>1, <1>8 DEF AttemptFailed, AttemptAbandoned, TaskStates
  <2>2. events'[q][dead] = events[q][dead]
    BY <1>2, <1>8 DEF AttemptFailed, AttemptAbandoned, RunEventTypes
  <2>3. QED
    BY <1>0, <2>1, <2>2 DEF DeliveryOK
<1>9. CASE HandleError(q)
  <2>1. /\ t.state = "failing"
        /\ task'[q] = [state |-> "settling", retried |-> t.retried]
    BY <1>1, <1>9 DEF HandleError, TaskStates
  <2>2. CASE t.retried >= MaxRetry
    BY <1>0, <2>1, <2>2, RunControlAssumption DEF DeliveryOK
  <2>3. CASE ~(t.retried >= MaxRetry)
    <3>1. appendRunEvent(q, "worker_retry_scheduled")
      BY <1>9, <2>3 DEF HandleError, HandleErrorEvent
    <3>2. events'[q][dead] = events[q][dead]
      BY <1>2, <3>1 DEF RunEventTypes
    <3>3. QED
      BY <1>0, <2>1, <3>2 DEF DeliveryOK
  <2>4. QED
    BY <2>2, <2>3
<1>10. CASE RetryOrArchive(q) \/ LeaseRecovered(q)
  <2>1. task'[q] = Retried(t) /\ events' = events
    BY <1>0, <1>10 DEF RetryOrArchive, LeaseRecovered, TypeOK
  <2>2. CASE t.retried >= MaxRetry
    <3>1. Retried(t) = [state |-> "archived", retried |-> t.retried]
      BY <1>0, <2>2 DEF Retried
    <3>2. t.retried = MaxRetry
      BY <1>0, <2>2, RunControlAssumption
    <3>3. QED
      BY <2>1, <3>1, <3>2 DEF DeliveryOK
  <2>3. CASE ~(t.retried >= MaxRetry)
    <3>1. Retried(t).state = "pending" /\ t.retried # MaxRetry
      BY <1>0, <2>3, RunControlAssumption DEF Retried
    <3>2. QED
      BY <1>0, <2>1, <3>1 DEF DeliveryOK
  <2>4. QED
    BY <2>2, <2>3
<1>11. QED
  BY <1>0, <1>3, <1>4, <1>5, <1>6, <1>7, <1>8, <1>9, <1>10, DeliveryMoves
  DEF TaskStep

\* Lemma: what Asynq makes of a delivery that is over.
LEMMA RetriedMoves ==
  ASSUME NEW t \in [state : TaskStates, retried : 0 .. MaxRetry]
  PROVE  \/ Retried(t) = [state |-> "archived", retried |-> t.retried]
         \/ Retried(t) = [state |-> "pending", retried |-> t.retried + 1]
BY DEF Retried

\* Lemma: deliveries that have not begun have no execution.
LEMMA UntouchedStays ==
  ASSUME Inv, ProgressInv, Next, NEW q \in Runs
  PROVE  Untouched(task'[q], att'[q])
<1> DEFINE t == task[q]
           Goal == Untouched(task'[q], att'[q])
<1>0. /\ TypeOK /\ Untouched(t, att[q])
      /\ t \in [state : TaskStates, retried : 0 .. MaxRetry]
      /\ t.retried \in Nat /\ \A k \in Attempts : k \in Nat
  BY DEF Inv, TypeInv, TypeOK, ProgressInv, RunOK, Attempts
<1>1. ASSUME NEW state \in TaskStates, task' = [task EXCEPT ![q].state = state]
      PROVE  task'[q] = [state |-> state, retried |-> t.retried]
  BY <1>0, <1>1 DEF TypeOK
<1>2. ASSUME Begun(task'[q]) = Begun(t),
             \A j \in Attempts : att'[q][j] = att[q][j] \/ j <= Begun(t)
      PROVE  Goal
  BY <1>0, <1>2 DEF Untouched, Begun
<1>3. \A k \in Attempts : att[q][k].pc # "idle" => k <= Begun(t)
  BY <1>0 DEF Untouched, Begun
<1>4. CASE DeliveryKept(q)
  BY <1>0, <1>4 DEF DeliveryKept
<1>5. CASE EnqueueRun(q) \/ EnqueueRunFails(q)
  <2>1. create[q] = "enqueue" /\ att' = att
    BY <1>5 DEF EnqueueRun, EnqueueRunFails
  <2>2. t.state = "none"
    BY <2>1 DEF ProgressInv, RunOK, CreationKnows
  <2>3. \/ task'[q] = t
        \/ task'[q] = [state |-> "pending", retried |-> t.retried]
    BY <1>1, <1>5 DEF EnqueueRun, EnqueueRunFails, TaskStates
  <2>4. Begun(task'[q]) = Begun(t)
    BY <2>2, <2>3 DEF Begun
  <2>5. QED
    BY <1>2, <2>1, <2>4
<1>6. ASSUME NEW k \in Attempts, ExecuteStep(q, k) \/ MonitorCancel(q, k)
      PROVE  Goal
  <2>1. /\ att[q][k].pc \in ExecutingPcs /\ task' = task
        /\ \A j \in Attempts : j # k => att'[q][j] = att[q][j]
    BY <1>0, <1>6, ExecuteFrame
  <2>2. k <= Begun(t)
    BY <1>3, <2>1 DEF ExecutingPcs
  <2>3. QED
    BY <1>2, <2>1, <2>2
<1>7. ASSUME NEW k \in Attempts, WorkerCrash(q, k)
      PROVE  Goal
  <2>1. \A j \in Attempts : j # k => att'[q][j] = att[q][j]
    BY <1>0, <1>7 DEF WorkerCrash, TypeOK
  <2>2. CASE k = Owner(q) /\ t.state \in HeldStates
    <3>1. task'[q] = [state |-> "lost", retried |-> t.retried]
      BY <1>1, <1>7, <2>2 DEF WorkerCrash, TaskStates
    <3>2. Begun(t) = t.retried + 1 /\ Begun(task'[q]) = t.retried + 1
      BY <2>2, <3>1 DEF Begun, HeldStates
    <3>3. k <= Begun(t)
      BY <1>0, <2>2, <3>2 DEF Owner
    <3>4. QED
      BY <1>2, <2>1, <3>2, <3>3
  <2>3. CASE ~(k = Owner(q) /\ t.state \in HeldStates)
    <3>1. att[q][k].pc \in ExecutingPcs /\ task' = task
      BY <1>7, <2>3 DEF WorkerCrash
    <3>2. k <= Begun(t)
      BY <1>3, <3>1 DEF ExecutingPcs
    <3>3. QED
      BY <1>2, <2>1, <3>1, <3>2
  <2>4. QED
    BY <2>2, <2>3
<1>8. CASE handleRunExecute(q)
  <2>1. /\ task'[q] = [state |-> "active", retried |-> t.retried]
        /\ t.state = "pending"
        /\ \A j \in Attempts : j # t.retried + 1 => att'[q][j] = att[q][j]
    BY <1>0, <1>1, <1>8, OwnerType
    DEF handleRunExecute, TaskStates, TypeOK, Owner
  <2>2. Begun(task'[q]) = t.retried + 1 /\ Begun(t) = t.retried
    BY <1>0, <2>1 DEF Begun
  <2>3. QED
    BY <1>0, <2>1, <2>2 DEF Untouched
<1>9. CASE WorkerShutdown(q)
  <2>1. /\ task'[q] = [state |-> "pending", retried |-> t.retried]
        /\ t.state = "active"
        /\ \A j \in Attempts : j # t.retried + 1 => att'[q][j] = att[q][j]
        /\ att'[q][t.retried + 1] = FreshAttempt("idle")
    BY <1>0, <1>1, <1>9, OwnerType
    DEF WorkerShutdown, TaskStates, TypeOK, Owner
  <2>2. Begun(task'[q]) = t.retried /\ Begun(t) = t.retried + 1
    BY <1>0, <2>1 DEF Begun
  <2>3. QED
    BY <1>0, <2>1, <2>2 DEF Untouched, FreshAttempt
<1>10. CASE \/ TaskSucceeded(q) \/ AttemptFailed(q) \/ HandleError(q)
            \/ AttemptAbandoned(q)
  <2>1. /\ t.state \in {"active", "failing"} /\ att' = att
        /\ task'[q].state \in {"completed", "failing", "settling"}
        /\ task'[q].retried = t.retried
    BY <1>1, <1>10
    DEF TaskSucceeded, AttemptFailed, HandleError, AttemptAbandoned, TaskStates
  <2>2. Begun(task'[q]) = Begun(t)
    BY <2>1 DEF Begun
  <2>3. QED
    BY <1>2, <2>1, <2>2
<1>11. CASE RetryOrArchive(q) \/ LeaseRecovered(q)
  <2>1. task'[q] = Retried(t) /\ att' = att /\ t.state \in {"settling", "lost"}
    BY <1>0, <1>11 DEF RetryOrArchive, LeaseRecovered, TypeOK
  <2>2. Begun(Retried(t)) = t.retried + 1 /\ Begun(t) = t.retried + 1
    BY <1>0, <2>1, RetriedMoves DEF Begun
  <2>3. QED
    BY <1>2, <2>1, <2>2
<1>12. QED
  BY <1>0, <1>4, <1>5, <1>6, <1>7, <1>8, <1>9, <1>10, <1>11, DeliveryMoves
  DEF TaskStep

\* Lemma: the deliveries that count as spent.
LEMMA SpentValue ==
  ASSUME NEW t, t.retried \in Nat, NEW A
  PROVE  /\ t.state \in {"failing", "settling", "lost", "archived"} =>
              Spent(t, A) = t.retried + 1
         /\ t.state = "active" =>
              Spent(t, A) = t.retried
                + (IF A[t.retried + 1].pc = "failed" THEN 1 ELSE 0)
         /\ t.state \in {"none", "pending", "completed"} =>
              Spent(t, A) = t.retried
         /\ Spent(t, A) \in Nat
         /\ t.retried <= Spent(t, A) /\ Spent(t, A) <= t.retried + 1
BY DEF Spent

\* Lemma: a run without an outcome spends a delivery on a fault only.
LEMMA SpentStays ==
  ASSUME Inv, ProgressInv, Next, NEW q \in Runs
  PROVE  SpentOK(task'[q], att'[q], rows'[q].status, faults' + storeFaults')
<1>1. CASE isTerminalRunStatus(rows'[q].status)
  BY <1>1 DEF SpentOK
<1>2. CASE ~isTerminalRunStatus(rows'[q].status)
  <2> DEFINE t == task[q]
             n == t.retried
             Goal == Spent(task'[q], att'[q]) <= faults' + storeFaults'
  <2> SUFFICES Goal
    BY DEF SpentOK
  <2>0. /\ TypeOK
        /\ t \in [state : TaskStates, retried : 0 .. MaxRetry]
        /\ n \in Nat
        /\ Spent(t, att[q]) <= faults + storeFaults
        /\ faults \in Nat /\ storeFaults \in Nat
        /\ faults' \in Nat /\ storeFaults' \in Nat
        /\ faults' >= faults /\ storeFaults' >= storeFaults
    <3>1. TypeOK /\ TypeOK'
      BY TypeStep DEF Inv, TypeInv
    <3>2. faults' \in Nat /\ storeFaults' \in Nat
      BY <3>1, RunControlAssumption DEF TypeOK
    <3>3. ~isTerminalRunStatus(rows[q].status)
      BY <1>2, StatusMoves DEF StatusStep
    <3>4. Spent(t, att[q]) <= faults + storeFaults
      BY <3>3 DEF ProgressInv, RunOK, SpentOK
    <3>5. t \in [state : TaskStates, retried : 0 .. MaxRetry] /\ n \in Nat
      BY <3>1 DEF TypeOK
    <3>6. QED
      BY <3>1, <3>2, <3>4, <3>5, FaultsAreNumbers, FaultsGrow
  <2>1. ASSUME NEW state \in TaskStates,
               task' = [task EXCEPT ![q].state = state]
        PROVE  task'[q] = [state |-> state, retried |-> n]
    BY <2>0, <2>1 DEF TypeOK
  <2>2. /\ t.state \in {"failing", "settling", "lost", "archived"} =>
             n + 1 <= faults + storeFaults
        /\ t.state = "active" /\ att[q][n + 1].pc = "failed" =>
             n + 1 <= faults + storeFaults
        /\ n <= faults + storeFaults
    BY <2>0, SpentValue
  <2>3. ASSUME task'[q] = t, att'[q] = att[q]
        PROVE  Goal
    BY <2>0, <2>3, SpentValue
  <2>4. CASE DeliveryKept(q)
    BY <2>3, <2>4 DEF DeliveryKept
  <2>5. CASE EnqueueRun(q) \/ EnqueueRunFails(q)
    <3>1. \/ task'[q] = t /\ att'[q] = att[q]
          \/ task'[q] = [state |-> "pending", retried |-> n]
      BY <2>1, <2>5 DEF EnqueueRun, EnqueueRunFails, TaskStates
    <3>2. CASE task'[q] = [state |-> "pending", retried |-> n]
      <4>1. Spent(task'[q], att'[q]) = n
        BY <2>0, <3>2, SpentValue
      <4>2. QED
        BY <2>0, <2>2, <4>1
    <3>3. QED
      BY <2>3, <3>1, <3>2
  <2>6. ASSUME NEW k \in Attempts, ExecuteStep(q, k) \/ MonitorCancel(q, k)
        PROVE  Goal
    <3>1. /\ att[q][k].pc \in ExecutingPcs /\ task'[q] = t
          /\ \A j \in Attempts : j # k => att'[q][j] = att[q][j]
      BY <2>0, <2>6, ExecuteFrame
    <3>2. att'[q][k].pc = "failed" => storeFaults' = storeFaults + 1
      BY <1>2, <2>6, ExecuteLearns DEF Learns
    <3>3. n + 1 \in Attempts
      BY <2>0, OwnerType DEF Owner
    <3>4. CASE t.state = "active" /\ att'[q][n + 1].pc = "failed"
      <4>1. CASE n + 1 = k
        <5>1. storeFaults' = storeFaults + 1
          BY <3>2, <3>4, <4>1
        <5>2. Spent(task'[q], att'[q]) <= n + 1
          BY <2>0, <3>1, SpentValue
        <5>3. Spent(task'[q], att'[q]) \in Nat
          BY <2>0, <3>1, SpentValue
        <5>4. QED
          BY <2>0, <2>2, <5>1, <5>2, <5>3
      <4>2. CASE n + 1 # k
        <5>1. att'[q][n + 1] = att[q][n + 1]
          BY <3>1, <3>3, <4>2
        <5>2. Spent(task'[q], att'[q]) = n + 1
          BY <2>0, <3>1, <3>4, SpentValue
        <5>3. QED
          BY <2>0, <2>2, <3>4, <5>1, <5>2
      <4>3. QED
        BY <4>1, <4>2
    <3>5. CASE ~(t.state = "active" /\ att'[q][n + 1].pc = "failed")
      <4>1. CASE t.state \in {"failing", "settling", "lost", "archived"}
        <5>1. Spent(t, att'[q]) = n + 1
          BY <2>0, <4>1, SpentValue
        <5>2. QED
          BY <2>0, <2>2, <3>1, <4>1, <5>1
      <4>2. CASE t.state \notin {"failing", "settling", "lost", "archived"}
        <5>1. Spent(t, att'[q]) = n
          BY <3>5, <4>2, <2>0 DEF Spent
        <5>2. QED
          BY <2>0, <2>2, <3>1, <5>1
      <4>3. QED
        BY <4>1, <4>2
    <3>6. QED
      BY <3>4, <3>5
  <2>7. ASSUME faults' = faults + 1, task'[q].retried = n
        PROVE  Goal
    <3>1. /\ Spent(task'[q], att'[q]) <= n + 1
          /\ Spent(task'[q], att'[q]) \in Nat
      BY <2>0, <2>7, SpentValue
    <3>2. QED
      BY <2>0, <2>2, <2>7, <3>1
  <2>8. ASSUME NEW k \in Attempts, WorkerCrash(q, k)
        PROVE  Goal
    <3>1. task'[q].retried = n
      BY <2>0, <2>1, <2>8 DEF WorkerCrash, TaskStates
    <3>2. QED
      BY <2>7, <2>8, <3>1 DEF WorkerCrash, Fault
  <2>9. CASE AttemptAbandoned(q) \/ WorkerShutdown(q)
    BY <2>1, <2>7, <2>9
    DEF AttemptAbandoned, WorkerShutdown, Fault, TaskStates
  <2>10. CASE handleRunExecute(q)
    <3>1. /\ task'[q] = [state |-> "active", retried |-> n]
          /\ att'[q][n + 1] = FreshAttempt("load")
      BY <2>0, <2>1, <2>10, OwnerType
      DEF handleRunExecute, TaskStates, TypeOK, Owner
    <3>2. Spent(task'[q], att'[q]) = n
      BY <2>0, <3>1, SpentValue DEF FreshAttempt
    <3>3. QED
      BY <2>0, <2>2, <3>2
  <2>11. CASE TaskSucceeded(q)
    <3>1. task'[q] = [state |-> "completed", retried |-> n]
      BY <2>1, <2>11 DEF TaskSucceeded, TaskStates
    <3>2. Spent(task'[q], att'[q]) = n
      BY <2>0, <3>1, SpentValue
    <3>3. QED
      BY <2>0, <2>2, <3>2
  <2>12. CASE AttemptFailed(q) \/ HandleError(q)
    <3>1. n + 1 <= faults + storeFaults
      BY <2>2, <2>12 DEF AttemptFailed, HandleError, Owner
    <3>2. /\ task'[q].state \in {"failing", "settling"}
          /\ task'[q].retried = n
      BY <2>1, <2>12 DEF AttemptFailed, HandleError, TaskStates
    <3>3. Spent(task'[q], att'[q]) = n + 1
      BY <2>0, <3>2, SpentValue
    <3>4. QED
      BY <2>0, <3>1, <3>3
  <2>13. CASE RetryOrArchive(q) \/ LeaseRecovered(q)
    <3>1. task'[q] = Retried(t) /\ t.state \in {"settling", "lost"}
      BY <2>0, <2>13 DEF RetryOrArchive, LeaseRecovered, TypeOK
    <3>2. Spent(Retried(t), att'[q]) = n + 1
      <4>1. CASE Retried(t) = [state |-> "archived", retried |-> n]
        BY <2>0, <4>1, SpentValue
      <4>2. CASE Retried(t) = [state |-> "pending", retried |-> n + 1]
        BY <2>0, <4>2, SpentValue
      <4>3. QED
        BY <2>0, <4>1, <4>2, RetriedMoves
    <3>3. QED
      BY <2>0, <2>2, <3>1, <3>2
  <2>14. QED
    BY <2>0, <2>4, <2>5, <2>6, <2>8, <2>9, <2>10, <2>11, <2>12, <2>13,
      DeliveryMoves DEF TaskStep
<1>3. QED
  BY <1>1, <1>2

\* Lemma: no run has been created or delivered at first.
LEMMA ProgressInit == Init => ProgressInv
<1> SUFFICES ASSUME Init, NEW r \in Runs PROVE RunOK(r)
  BY DEF ProgressInv
<1>1. /\ rows[r].status = "absent" /\ create[r] = "new"
      /\ task[r] = [state |-> "none", retried |-> 0]
      /\ \A k \in Attempts : att[r][k] = FreshAttempt("idle")
      /\ faults = 0 /\ storeFaults = 0
      /\ events[r]["worker_dead_lettered"] = 0
  BY DEF Init, NoRow, RunEventTypes
<1>2. \A k \in Attempts : AttemptKnows(att[r][k], rows[r].status, slips[r])
  BY <1>1, FreshKnows DEF RunStatus
<1>3. Untouched(task[r], att[r])
  BY <1>1 DEF Untouched, FreshAttempt
<1>4. Spent(task[r], att[r]) = 0
  BY <1>1, SpentValue
<1>5. QED
  BY <1>1, <1>2, <1>3, <1>4 DEF RunOK, CreationKnows, DeliveryOK, SpentOK

\* Lemma: every step keeps the invariant about deliveries.
LEMMA ProgressStep == Inv /\ ProgressInv /\ [Next]_vars => ProgressInv'
<1> SUFFICES ASSUME Inv, ProgressInv, [Next]_vars PROVE ProgressInv'
  OBVIOUS
<1>1. CASE UNCHANGED vars
  BY <1>1 DEF vars, ProgressInv, RunOK
<1>2. CASE Next
  <2>1. SUFFICES ASSUME NEW q \in Runs PROVE RunOK(q)'
    BY DEF ProgressInv
  <2>2. QED
    BY <1>2, AttemptsKeepKnowing, CreationsKeepKnowing, DeliveriesStayOK,
      UntouchedStays, SpentStays DEF RunOK
<1>3. QED
  BY <1>1, <1>2

\* Lemma: the inductive invariant about deliveries.
LEMMA ProgressAlways == Spec => [](Inv /\ ProgressInv)
<1>1. Init => ProgressInv
  BY ProgressInit
<1>2. QED
  BY <1>1, ProgressStep, InvAlways, PTL DEF Spec

\* Theorem: "worker retries exhausted" is never followed by another delivery:
\* HandleError and Asynq count alike, for every number of retries and
\* whatever crashes between the two.
THEOREM DeadLettersAreFinal == Spec => []DeadLetterIsFinal
<1>1. ProgressInv => DeadLetterIsFinal
  BY DEF ProgressInv, RunOK, DeliveryOK, DeadLetterIsFinal
<1>2. QED
  BY <1>1, ProgressAlways, PTL

\* Theorem: a run without an outcome has lost no delivery but to a fault.
THEOREM RetriesNeedFaults == Spec => []RetriesAreFaults
<1>1. Inv /\ ProgressInv => RetriesAreFaults
  <2> SUFFICES ASSUME Inv, ProgressInv, NEW r \in Runs, ~Terminal(r)
               PROVE  LostDeliveries(r) <= faults + storeFaults
    BY DEF RetriesAreFaults
  <2>1. task[r].retried \in Nat /\ faults \in Nat /\ storeFaults \in Nat
    BY FaultsAreNumbers DEF Inv, TypeInv, TypeOK
  <2>2. Spent(task[r], att[r]) <= faults + storeFaults
    BY DEF ProgressInv, RunOK, SpentOK, Terminal
  <2>3. LostDeliveries(r) \in Nat /\ LostDeliveries(r) <= Spent(task[r], att[r])
    BY <2>1 DEF LostDeliveries, Spent
  <2>4. QED
    BY <2>1, <2>2, <2>3, SpentValue
<1>2. QED
  BY <1>1, ProgressAlways, PTL

\* Theorem: a run that nobody will take any further has its outcome, but for
\* three cases, for any number of runs, requests, retries and faults.  It has
\* no task because its API process died first or a call of its own creation
\* failed; its task is done over a failed call of its own execution; or its
\* task is archived and there were more faults than it has retries.
THEOREM NoRunLeftBehind == Spec => []OnlyFaultsLeaveRunsBehind
<1>1. Inv /\ ProgressInv => OnlyFaultsLeaveRunsBehind
  <2> SUFFICES ASSUME Inv, ProgressInv, NEW r \in Runs, LeftBehind(r)
      PROVE  CASE task[r].state = "none" ->
                    \/ create[r] = "crashed"
                    \/ slips[r] \cap {"insert", "enqueueError"} # {}
               [] task[r].state = "completed" ->
                    slips[r] \cap {"start", "confirm", "finish"} # {}
               [] OTHER -> faults + storeFaults > MaxRetry
    BY DEF OnlyFaultsLeaveRunsBehind
  <2>1. /\ create[r] \in {"accepted", "rejected", "crashed"}
        /\ task[r].state \in {"none", "completed", "archived"}
        /\ ~isTerminalRunStatus(rows[r].status)
    BY DEF LeftBehind, Terminal
  <2>2. CreationKnows(create[r], task[r], rows[r].status, slips[r])
    BY DEF ProgressInv, RunOK
  <2>3. CASE task[r].state = "none"
    BY <2>1, <2>2, <2>3 DEF CreationKnows, MissedInCreate
  <2>4. CASE task[r].state = "completed"
    BY <2>1, <2>2, <2>4 DEF CreationKnows, MissedInExecute
  <2>5. CASE task[r].state = "archived"
    <3>1. faults \in Nat /\ storeFaults \in Nat
      BY FaultsAreNumbers DEF Inv, TypeInv
    <3>2. task[r].retried = MaxRetry
      BY <2>5 DEF ProgressInv, RunOK, DeliveryOK
    <3>3. Spent(task[r], att[r]) = MaxRetry + 1
      BY <2>5, <3>2, SpentValue, RunControlAssumption
    <3>4. Spent(task[r], att[r]) <= faults + storeFaults
      BY <2>1 DEF ProgressInv, RunOK, SpentOK
    <3>5. faults + storeFaults > MaxRetry
      BY <3>1, <3>3, <3>4, RunControlAssumption
    <3>6. QED
      BY <2>5, <3>5
  <2>6. QED
    BY <2>1, <2>3, <2>4, <2>5
<1>2. QED
  BY <1>1, ProgressAlways, PTL

-----------------------------------------------------------------------------
(* Telling of the outcome.  The event follows in a transaction of its own, *)
(* so what has to be shown is that the one who gave the run its outcome is *)
(* the only one about to tell of it, and stays so until it has.            *)

\* The three that may be about to write the event of run r's outcome: the
\* create handler, a cancel request, an execution.
CreateTells(r) == create[r] = "errorEvent"
CancelTells(c, r) == cancel[c].pc = "canceledEvent" /\ cancel[c].run = r
AttemptTells(k, r) == att[r][k].pc = "finishEvent"

NobodyTells(r) ==
  /\ ~CreateTells(r)
  /\ \A c \in Cancellers : ~CancelTells(c, r)
  /\ \A k \in Attempts : ~AttemptTells(k, r)

OneTells(r) ==
  /\ CreateTells(r) =>
       /\ \A c \in Cancellers : ~CancelTells(c, r)
       /\ \A k \in Attempts : ~AttemptTells(k, r)
  /\ \A c \in Cancellers : CancelTells(c, r) =>
       /\ rows[r].status = "canceled"
       /\ \A d \in Cancellers : CancelTells(d, r) => d = c
       /\ \A k \in Attempts : ~AttemptTells(k, r)
  /\ \A j, k \in Attempts : AttemptTells(j, r) /\ AttemptTells(k, r) => j = k

\* No event tells of an outcome while somebody is still about to, or of
\* another outcome than the run's, or twice.
ToldOnce(r) ==
  \A t \in TerminalEventTypes : events[r][t] > 0 =>
    /\ Terminal(r)
    /\ t = TerminalEvent(rows[r].status)
    /\ events[r][t] = 1
    /\ NobodyTells(r)

\* The one who gave run r its outcome has failed to tell of it.
Untold(r) == "untold" \in slips[r]

\* An outcome has been told or is about to be, unless its teller has failed.
Heard(r) ==
  Terminal(r) =>
    \/ events[r][TerminalEvent(rows[r].status)] > 0
    \/ ~NobodyTells(r)
    \/ Untold(r)

TellingInv == \A r \in Runs : OneTells(r) /\ ToldOnce(r) /\ Heard(r)

\* The step gives run q no outcome and tells of none.
Mute(q) ==
  /\ ~RecordEnqueueError(q) /\ ~EnqueueErrorEvent(q)
  /\ \A c \in Cancellers :
       cancel[c].run = q => ~CancelFinish(c) /\ ~CanceledEvent(c)
  /\ \A k \in Attempts : ~FinishRun(q, k) /\ ~FinishedEvent(q, k)

OutcomeEventsKept(q) ==
  \A t \in TerminalEventTypes : events'[q][t] = events[q][t]

\* Lemma: the events of outcomes are events, and an outcome's event is one.
LEMMA TerminalEventTypesAre ==
  /\ TerminalEventTypes \subseteq RunEventTypes
  /\ \A s : TerminalEvent(s) \in TerminalEventTypes
BY DEF TerminalEventTypes, RunEventTypes, TerminalEvent

\* Lemma: no other step writes the event of an outcome.
LEMMA MuteKeepsEvents ==
  ASSUME TypeOK, Next, NEW q \in Runs, Mute(q)
  PROVE  OutcomeEventsKept(q)
<1>1. CASE UNCHANGED events
  BY <1>1 DEF OutcomeEventsKept
<1>2. ASSUME NEW r \in Runs, NEW t \in RunEventTypes, appendRunEvent(r, t),
             r # q \/ t \notin TerminalEventTypes
      PROVE  OutcomeEventsKept(q)
  BY <1>2, Appended, TerminalEventTypesAre DEF OutcomeEventsKept
<1>3. ASSUME NEW r \in Runs, CreateRunRow(r) \/ CreateStep(r)
      PROVE  OutcomeEventsKept(q)
  <2>1. CASE QueuedEvent(r)
    BY <1>2, <2>1 DEF QueuedEvent, RunEventTypes, TerminalEventTypes
  <2>2. CASE EnqueueErrorEvent(r)
    <3>1. r # q
      BY <2>2 DEF Mute
    <3>2. QED
      BY <1>2, <2>2, <3>1 DEF EnqueueErrorEvent, RunEventTypes
  <2>3. CASE ~QueuedEvent(r) /\ ~EnqueueErrorEvent(r)
    BY <1>1, <1>3, <2>3 DEF CreateRunRow, CreateStep, EnqueueRun,
      EnqueueEmptyRun, RecordEnqueueError, storeVars
  <2>4. QED
    BY <2>1, <2>2, <2>3
<1>4. ASSUME NEW r \in Runs,
             \/ TaskStep(r) \/ AttemptAbandoned(r) \/ WorkerShutdown(r)
             \/ \E k \in Attempts : WorkerCrash(r, k)
      PROVE  OutcomeEventsKept(q)
  <2>1. CASE AttemptFailed(r) \/ HandleError(r) \/ AttemptAbandoned(r)
    <3>1. PICK t \in RunEventTypes \ TerminalEventTypes : appendRunEvent(r, t)
      BY <2>1 DEF AttemptFailed, HandleError, HandleErrorEvent,
        AttemptAbandoned, RunEventTypes, TerminalEventTypes
    <3>2. QED
      BY <1>2, <3>1
  <2>2. CASE ~(AttemptFailed(r) \/ HandleError(r) \/ AttemptAbandoned(r))
    BY <1>1, <1>4, <2>2 DEF TaskStep, handleRunExecute, TaskSucceeded,
      RetryOrArchive, LeaseRecovered, WorkerShutdown, WorkerCrash
  <2>3. QED
    BY <2>1, <2>2
<1>5. ASSUME NEW r \in Runs, NEW k \in Attempts,
             ExecuteStep(r, k) \/ MonitorCancel(r, k)
      PROVE  OutcomeEventsKept(q)
  <2>1. CASE StartedEvent(r, k)
    BY <1>2, <2>1 DEF StartedEvent, RunEventTypes, TerminalEventTypes
  <2>2. CASE FinishedEvent(r, k)
    <3>1. r # q
      BY <2>2 DEF Mute
    <3>2. QED
      BY <1>2, <2>2, <3>1, TerminalEventTypesAre DEF FinishedEvent
  <2>3. CASE ~StartedEvent(r, k) /\ ~FinishedEvent(r, k)
    BY <1>1, <1>5, <2>3 DEF ExecuteStep, LoadRun, CheckCancel, StartRun,
      ConfirmStarted, RunnerReturns, Decide, UploadReport, FinishRun,
      MonitorCancel, storeVars
  <2>4. QED
    BY <2>1, <2>2, <2>3
<1>6. ASSUME NEW c \in Cancellers, CancelLoad(c) \/ CancelStep(c)
      PROVE  OutcomeEventsKept(q)
  <2>1. cancel[c].run \in Runs
    BY DEF TypeOK
  <2>2. CASE RequestRunCancel(c)
    <3>1. \/ events' = events
          \/ events' = [events EXCEPT
                          ![cancel[c].run]["cancel_requested"] = @ + 1]
      BY <2>2 DEF RequestRunCancel
    <3>2. events[q] \in [RunEventTypes -> Nat]
      BY DEF TypeOK
    <3>3. CASE events' = [events EXCEPT
                            ![cancel[c].run]["cancel_requested"] = @ + 1]
      BY <2>1, <3>2, <3>3 DEF TypeOK, OutcomeEventsKept, TerminalEventTypes
    <3>4. QED
      BY <1>1, <3>1, <3>3
  <2>3. CASE CanceledEvent(c)
    <3>1. cancel[c].run # q
      BY <2>3 DEF Mute
    <3>2. QED
      BY <1>2, <2>1, <2>3, <3>1 DEF CanceledEvent, RunEventTypes
  <2>4. CASE ~RequestRunCancel(c) /\ ~CanceledEvent(c)
    BY <1>1, <1>6, <2>4 DEF CancelLoad, CancelStep, CancelFinish, storeVars
  <2>5. QED
    BY <2>2, <2>3, <2>4
<1>7. ASSUME NEW r \in Runs,
             APICrash \/ EnqueueRunFails(r) \/ EnqueueEmptyRunFails(r)
      PROVE  OutcomeEventsKept(q)
  BY <1>1, <1>7 DEF APICrash, EnqueueRunFails, EnqueueEmptyRunFails, storeVars
<1>8. QED
  BY <1>3, <1>4, <1>5, <1>6, <1>7 DEF Next, FaultStep

\* Lemma: no other step gives run q an outcome.
LEMMA MuteKeepsOutcome ==
  ASSUME Inv, Next, NEW q \in Runs, Mute(q),
         isTerminalRunStatus(rows'[q].status)
  PROVE  rows'[q] = rows[q]
<1>0. TypeOK
  BY DEF Inv, TypeInv
<1>1. CASE UNCHANGED rows
  BY <1>1
<1>2. ASSUME NEW r \in Runs, CreateRunRow(r)
      PROVE  rows'[q] = rows[q]
  <2>1. rows' = rows \/ rows' = [rows EXCEPT ![r] = CreateRun]
    BY <1>2 DEF CreateRunRow
  <2>2. QED
    BY <1>0, <2>1 DEF TypeOK, CreateRun, isTerminalRunStatus, TerminalStatuses
<1>3. ASSUME NEW r \in Runs, NEW k \in Attempts, StartRun(r, k)
      PROVE  rows'[q] = rows[q]
  <2>1. rows' = rows \/ rows' = [rows EXCEPT ![r] = MarkRunStarted(@)]
    BY <1>3 DEF StartRun
  <2>2. \/ MarkRunStarted(rows[r]) = rows[r]
        \/ ~isTerminalRunStatus(MarkRunStarted(rows[r]).status)
    BY <1>0 DEF MarkRunStarted, TypeOK, Row, isTerminalRunStatus,
      TerminalStatuses
  <2>3. QED
    BY <1>0, <2>1, <2>2 DEF TypeOK
<1>4. ASSUME NEW r \in Runs, NEW k \in Attempts,
             RecordEnqueueError(r) \/ FinishRun(r, k)
      PROVE  rows'[q] = rows[q]
  <2>1. r # q
    BY <1>4 DEF Mute
  <2>2. QED
    BY <1>0, <1>4, <2>1 DEF RecordEnqueueError, FinishRun, TypeOK
<1>5. ASSUME NEW c \in Cancellers, CancelFinish(c)
      PROVE  rows'[q] = rows[q]
  <2>1. cancel[c].run # q
    BY <1>5 DEF Mute
  <2>2. QED
    BY <1>0, <1>5, <2>1 DEF CancelFinish, TypeOK
<1>6. ASSUME NEW r \in Runs, CreateStep(r), ~RecordEnqueueError(r)
      PROVE  UNCHANGED rows
  BY <1>6 DEF CreateStep, QueuedEvent, EnqueueRun, EnqueueEmptyRun,
    EnqueueErrorEvent, storeVars
<1>7. ASSUME NEW r \in Runs, TaskStep(r)
      PROVE  UNCHANGED rows
  BY <1>7 DEF TaskStep, handleRunExecute, TaskSucceeded, AttemptFailed,
    HandleError, RetryOrArchive, LeaseRecovered, TaskUnchanged
<1>8. ASSUME NEW r \in Runs, NEW k \in Attempts,
             ExecuteStep(r, k) \/ MonitorCancel(r, k),
             ~StartRun(r, k), ~FinishRun(r, k)
      PROVE  UNCHANGED rows
  BY <1>8 DEF ExecuteStep, LoadRun, CheckCancel, StartedEvent,
    ConfirmStarted, RunnerReturns, Decide, UploadReport, FinishedEvent,
    MonitorCancel, storeVars
<1>9. ASSUME NEW c \in Cancellers, CancelLoad(c) \/ CancelStep(c),
              ~CancelFinish(c)
       PROVE  UNCHANGED rows
  BY <1>9 DEF CancelLoad, CancelStep, RequestRunCancel, CanceledEvent,
    storeVars
<1>10. ASSUME FaultStep
       PROVE  UNCHANGED rows
  BY <1>10 DEF FaultStep, APICrash, EnqueueRunFails, EnqueueEmptyRunFails,
    AttemptAbandoned, WorkerShutdown, WorkerCrash, TaskUnchanged, storeVars
<1>11. Attempts # {}
  BY RunControlAssumption DEF Attempts
<1>12. QED
  BY <1>1, <1>2, <1>3, <1>4, <1>5, <1>6, <1>7, <1>8, <1>9, <1>10, <1>11
  DEF Next

\* Nobody new is about to tell of run q's outcome, and nobody gives up but for
\* a crash of its own.
TellersKept(q) ==
  /\ CreateTells(q)' => CreateTells(q)
  /\ \A c \in Cancellers : CancelTells(c, q)' => CancelTells(c, q)
  /\ \A k \in Attempts : AttemptTells(k, q)' => AttemptTells(k, q)
  /\ \/ Untold(q)'
     \/ /\ CreateTells(q) => CreateTells(q)'
        /\ \A c \in Cancellers : CancelTells(c, q) => CancelTells(c, q)'
        /\ \A k \in Attempts : AttemptTells(k, q) => AttemptTells(k, q)'

\* Lemma: an API process that dies before a request it serves has told of run
\* q's outcome leaves that outcome untold.
LEMMA CrashUntold ==
  ASSUME TypeOK, NEW q \in Runs, APICrash, ToldByAPI(q)
  PROVE  Untold(q)'
BY DEF APICrash, TypeOK, Untold

\* Lemma: the create handler of run q keeps telling, or has nothing to tell.
LEMMA MuteKeepsCreate ==
  ASSUME TypeOK, Next, NEW q \in Runs, Mute(q)
  PROVE  /\ create'[q] = "errorEvent" => create[q] = "errorEvent"
         /\ \/ Untold(q)'
            \/ create[q] = "errorEvent" => create'[q] = "errorEvent"
<1>1. CASE create'[q] = create[q]
  BY <1>1
<1>2. CASE \/ CreateRunRow(q) \/ CreateStep(q) \/ EnqueueRunFails(q)
           \/ EnqueueEmptyRunFails(q)
  <2>1. ~RecordEnqueueError(q) /\ ~EnqueueErrorEvent(q)
    BY DEF Mute
  <2>2. QED
    BY <1>2, <2>1 DEF TypeOK, CreateRunRow, CreateStep, QueuedEvent,
      EnqueueRun, EnqueueEmptyRun, EnqueueRunFails, EnqueueEmptyRunFails
<1>3. CASE APICrash
  BY <1>3, CrashUntold DEF APICrash, ToldByAPI
<1>4. QED
  BY <1>1, <1>2, <1>3, CreationMoves

\* Lemma: who moves a cancel request.
LEMMA CancelMovesBy ==
  ASSUME TypeOK, Next, NEW c \in Cancellers
  PROVE  cancel'[c] = cancel[c] \/ CancelLoad(c) \/ CancelStep(c) \/ APICrash
<1>1. CASE UNCHANGED cancel
  BY <1>1
<1>2. ASSUME NEW d \in Cancellers, d # c, CancelLoad(d) \/ CancelStep(d)
      PROVE  cancel'[c] = cancel[c]
  BY <1>2 DEF TypeOK, CancelLoad, CancelStep, RequestRunCancel, CancelFinish,
    CanceledEvent
<1>3. ASSUME NEW r \in Runs,
             \/ CreateRunRow(r) \/ CreateStep(r) \/ EnqueueRunFails(r)
             \/ EnqueueEmptyRunFails(r)
             \/ TaskStep(r) \/ AttemptAbandoned(r) \/ WorkerShutdown(r)
             \/ \E k \in Attempts : WorkerCrash(r, k)
      PROVE  UNCHANGED cancel
  BY <1>3 DEF CreateRunRow, CreateStep, QueuedEvent, EnqueueRun,
    EnqueueEmptyRun, RecordEnqueueError, EnqueueErrorEvent, EnqueueRunFails,
    EnqueueEmptyRunFails, TaskStep, handleRunExecute, TaskSucceeded,
    AttemptFailed, HandleError, RetryOrArchive, LeaseRecovered,
    AttemptAbandoned, WorkerShutdown, WorkerCrash, TaskUnchanged
<1>4. ASSUME NEW r \in Runs, NEW k \in Attempts,
             ExecuteStep(r, k) \/ MonitorCancel(r, k)
      PROVE  UNCHANGED cancel
  BY <1>4, ExecuteFrame
<1>5. QED
  BY <1>1, <1>2, <1>3, <1>4 DEF Next, FaultStep

\* Lemma: so does every cancel request of run q.
LEMMA MuteKeepsCancel ==
  ASSUME TypeOK, Next, NEW q \in Runs, Mute(q), NEW c \in Cancellers
  PROVE  /\ CancelTells(c, q)' => CancelTells(c, q)
         /\ Untold(q)' \/ (CancelTells(c, q) => CancelTells(c, q)')
<1> USE DEF CancelTells
<1>0. cancel[c] \in [pc : CancelPcs, run : Runs,
                     seen : {"none", "queued", "running"}]
  BY DEF TypeOK
<1>1. CASE cancel'[c] = cancel[c]
  BY <1>1
<1>2. CASE CancelLoad(c)
  <2>1. cancel[c].pc = "idle" /\ cancel'[c].pc \in {"request", "refused"}
    BY <1>0, <1>2 DEF CancelLoad, TypeOK
  <2>2. QED
    BY <2>1
<1>3. CASE RequestRunCancel(c)
  <2>1. cancel[c].pc = "request" /\ cancel'[c].pc \in {"finish", "refused"}
    BY <1>0, <1>3 DEF RequestRunCancel, TypeOK
  <2>2. QED
    BY <2>1
<1>4. CASE CancelFinish(c) \/ CanceledEvent(c)
  <2>1. cancel[c].run # q
    BY <1>4 DEF Mute
  <2>2. cancel'[c].run = cancel[c].run
    BY <1>0, <1>4 DEF CancelFinish, CanceledEvent, TypeOK
  <2>3. QED
    BY <2>1, <2>2
<1>5. CASE APICrash
  <2>1. \/ cancel'[c] = cancel[c]
        \/ cancel'[c] = [cancel[c] EXCEPT !.pc = "crashed"]
    BY <1>5 DEF APICrash
  <2>2. cancel'[c] = cancel[c] \/ cancel'[c].pc = "crashed"
    BY <1>0, <2>1
  <2>3. CancelTells(c, q) => Untold(q)'
    BY <1>5, CrashUntold DEF ToldByAPI
  <2>4. QED
    BY <2>2, <2>3
<1>6. QED
  BY <1>1, <1>2, <1>3, <1>4, <1>5, CancelMovesBy DEF CancelStep

\* Lemma: and every execution.
LEMMA MuteKeepsAttempts ==
  ASSUME Inv, ProgressInv, Next, NEW q \in Runs, Mute(q), NEW j \in Attempts
  PROVE  /\ AttemptTells(j, q)' => AttemptTells(j, q)
         /\ Untold(q)' \/ (AttemptTells(j, q) => AttemptTells(j, q)')
<1> DEFINE Goal == /\ AttemptTells(j, q)' => AttemptTells(j, q)
                   /\ Untold(q)' \/ (AttemptTells(j, q) => AttemptTells(j, q)')
<1> SUFFICES Goal
  OBVIOUS
<1> USE DEF AttemptTells
<1>0. TypeOK /\ att[q][j] \in Attempt
  BY DEF Inv, TypeInv, TypeOK
<1>1. CASE att'[q][j] = att[q][j]
  BY <1>1
<1>2. CASE DeliveryKept(q)
  BY <1>1, <1>2 DEF DeliveryKept
<1>3. CASE \/ EnqueueRun(q) \/ EnqueueRunFails(q) \/ AttemptAbandoned(q)
           \/ TaskStep(q) /\ ~handleRunExecute(q)
  BY <1>1, <1>3 DEF EnqueueRun, EnqueueRunFails, AttemptAbandoned, TaskStep,
    TaskSucceeded, AttemptFailed, HandleError, RetryOrArchive, LeaseRecovered
<1>4. ASSUME NEW k \in Attempts, ExecuteStep(q, k) \/ MonitorCancel(q, k)
      PROVE  Goal
  <2>1. CASE j # k
    BY <1>0, <1>1, <1>4, <2>1, ExecuteFrame
  <2>2. CASE j = k
    <3>1. ~FinishRun(q, j) /\ ~FinishedEvent(q, j)
      BY DEF Mute
    <3>2. att[q][j].pc # "finishEvent"
      BY <1>4, <2>2, <3>1 DEF ExecuteStep, LoadRun, CheckCancel, StartRun,
        StartedEvent, ConfirmStarted, RunnerReturns, Decide, UploadReport,
        MonitorCancel
    <3>3. att'[q][j].pc # "finishEvent"
      <4>1. CASE LoadRun(q, j)
        BY <1>0, <4>1 DEF LoadRun, TypeOK, Attempt, FreshAttempt
      <4>2. CASE CheckCancel(q, j)
        BY <1>0, <4>2 DEF CheckCancel, TypeOK, Attempt
      <4>3. CASE StartRun(q, j)
        BY <1>0, <4>3 DEF StartRun, TypeOK, Attempt
      <4>4. CASE StartedEvent(q, j)
        BY <1>0, <4>4 DEF StartedEvent, TypeOK, Attempt
      <4>5. CASE ConfirmStarted(q, j)
        BY <1>0, <4>5 DEF ConfirmStarted, TypeOK, Attempt, FreshAttempt
      <4>6. CASE MonitorCancel(q, j)
        BY <1>0, <3>2, <4>6 DEF MonitorCancel, TypeOK, Attempt
      <4>7. CASE RunnerReturns(q, j)
        BY <1>0, <4>7 DEF RunnerReturns, TypeOK, Attempt
      <4>8. CASE Decide(q, j)
        <5>1. PICK req \in BOOLEAN :
                att' = [att EXCEPT ![q][j] = Decided(@, req)]
          BY <4>8 DEF Decide, IsRunCancelRequested
        <5>2. att'[q][j] = Decided(att[q][j], req)
          BY <1>0, <5>1 DEF TypeOK
        <5>3. Decided(att[q][j], req).pc \in {"upload", "finish"}
          BY <1>0 DEF Decided, Attempt
        <5>4. QED
          BY <5>2, <5>3
      <4>9. CASE UploadReport(q, j)
        BY <1>0, <4>9 DEF UploadReport, TypeOK, Attempt
      <4>10. QED
        BY <1>4, <2>2, <3>1, <4>1, <4>2, <4>3, <4>4, <4>5, <4>6, <4>7, <4>8,
          <4>9 DEF ExecuteStep
    <3>4. QED
      BY <3>2, <3>3
  <2>3. QED
    BY <2>1, <2>2
<1>5. ASSUME NEW k \in Attempts, WorkerCrash(q, k)
      PROVE  Goal
  <2>1. att'[q][j] = att[q][j] \/ att'[q][j] = FreshAttempt("dead")
    BY <1>0, <1>5 DEF WorkerCrash, TypeOK
  <2>2. att'[q][j] = att[q][j] \/ j = k
    BY <1>0, <1>5 DEF WorkerCrash, TypeOK
  <2>3. att[q][k].pc = "finishEvent" => Untold(q)'
    BY <1>0, <1>5 DEF WorkerCrash, UntoldBy, Slip, Untold, TypeOK
  <2>4. QED
    BY <2>1, <2>2, <2>3 DEF FreshAttempt
<1>6. CASE WorkerShutdown(q)
  <2>1. att'[q][j] = att[q][j] \/ att'[q][j] = FreshAttempt("idle")
    BY <1>0, <1>6, OwnerType DEF WorkerShutdown, TypeOK
  <2>2. att'[q][j] = att[q][j] \/ j = Owner(q)
    BY <1>0, <1>6, OwnerType DEF WorkerShutdown, TypeOK
  <2>3. att[q][Owner(q)].pc = "finishEvent" => Untold(q)'
    BY <1>0, <1>6 DEF WorkerShutdown, UntoldBy, Slip, Untold, TypeOK
  <2>4. QED
    BY <2>1, <2>2, <2>3 DEF FreshAttempt
<1>7. CASE handleRunExecute(q)
  <2>1. Owner(q) \in Attempts /\ task[q].state = "pending"
    BY <1>0, <1>7, OwnerType DEF handleRunExecute
  <2>2. Owner(q) > Begun(task[q])
    BY <1>0, <2>1 DEF Owner, Begun, TypeOK
  <2>3. att[q][Owner(q)].pc = "idle"
    BY <2>1, <2>2 DEF ProgressInv, RunOK, Untouched
  <2>4. IF j = Owner(q) THEN att'[q][j] = FreshAttempt("load")
                        ELSE att'[q][j] = att[q][j]
    BY <1>0, <1>7, <2>1 DEF handleRunExecute, TypeOK
  <2>5. QED
    BY <2>3, <2>4 DEF FreshAttempt
<1>8. QED
  BY <1>0, <1>2, <1>3, <1>4, <1>5, <1>6, <1>7, DeliveryMoves

\* Lemma: all tellers do.
LEMMA MuteKeepsTellers ==
  ASSUME Inv, ProgressInv, Next, NEW q \in Runs, Mute(q)
  PROVE  TellersKept(q)
<1>1. TypeOK
  BY DEF Inv, TypeInv
<1>2. /\ CreateTells(q)' => CreateTells(q)
      /\ Untold(q)' \/ (CreateTells(q) => CreateTells(q)')
  BY <1>1, MuteKeepsCreate DEF CreateTells
<1>3. \A c \in Cancellers :
        /\ CancelTells(c, q)' => CancelTells(c, q)
        /\ Untold(q)' \/ (CancelTells(c, q) => CancelTells(c, q)')
  BY <1>1, MuteKeepsCancel
<1>4. \A k \in Attempts :
        /\ AttemptTells(k, q)' => AttemptTells(k, q)
        /\ Untold(q)' \/ (AttemptTells(k, q) => AttemptTells(k, q)')
  BY MuteKeepsAttempts
<1>5. QED
  BY <1>2, <1>3, <1>4 DEF TellersKept

TellingOK(q) == OneTells(q) /\ ToldOnce(q) /\ Heard(q)

\* Lemma: nobody tells of the outcome of a run that has none.
LEMMA SilentBefore ==
  ASSUME ProgressInv, TellingInv, NEW q \in Runs, ~Terminal(q)
  PROVE  /\ NobodyTells(q)
         /\ \A t \in TerminalEventTypes : ~(events[q][t] > 0)
<1>1. ~CreateTells(q)
  BY DEF CreateTells, ProgressInv, RunOK, CreationKnows, Terminal,
    isTerminalRunStatus, TerminalStatuses
<1>2. \A c \in Cancellers : ~CancelTells(c, q)
  BY DEF TellingInv, OneTells, Terminal, isTerminalRunStatus, TerminalStatuses
<1>3. \A k \in Attempts : ~AttemptTells(k, q)
  BY FinishedIsTerminal DEF AttemptTells, ProgressInv, RunOK, AttemptKnows,
    Terminal
<1>4. QED
  BY <1>1, <1>2, <1>3 DEF NobodyTells, TellingInv, ToldOnce

\* Lemma: a step after which nobody new is about to tell.
LEMMA QuietStep ==
  ASSUME Inv, ProgressInv, TellingInv, Next, NEW q \in Runs,
         OutcomeEventsKept(q),
         CreateTells(q)' => CreateTells(q),
         \A c \in Cancellers : CancelTells(c, q)' => CancelTells(c, q),
         \A k \in Attempts : AttemptTells(k, q)' => AttemptTells(k, q),
         Terminal(q)' =>
           \/ Terminal(q) /\ (NobodyTells(q)' => NobodyTells(q))
           \/ Untold(q)'
  PROVE  TellingOK(q)'
<1> DEFINE s == rows[q].status
           next == rows'[q].status
<1>0. OneTells(q) /\ ToldOnce(q) /\ Heard(q)
  BY DEF TellingInv
<1>1. NobodyTells(q) => NobodyTells(q)'
  BY DEF NobodyTells
<1>2. Terminal(q) => next = s
  BY StatusMoves DEF StatusStep, Terminal
<1>3. CASE ~Terminal(q)
  <2>1. NobodyTells(q)' /\ \A t \in TerminalEventTypes : ~(events'[q][t] > 0)
    BY <1>1, <1>3, SilentBefore DEF OutcomeEventsKept
  <2>2. OneTells(q)'
    BY <2>1 DEF OneTells, NobodyTells
  <2>3. ToldOnce(q)'
    BY <2>1 DEF ToldOnce
  <2>4. Heard(q)'
    BY <1>3 DEF Heard
  <2>5. QED
    BY <2>2, <2>3, <2>4 DEF TellingOK
<1>4. CASE Terminal(q)
  <2>1. next = s /\ Terminal(q)'
    BY <1>2, <1>4 DEF Terminal
  <2>2. OneTells(q)'
    BY <1>0, <2>1 DEF OneTells
  <2>3. ToldOnce(q)'
    BY <1>0, <1>1, <2>1 DEF ToldOnce, OutcomeEventsKept
  <2>4. Heard(q)'
    <3>1. CASE Untold(q)'
      BY <3>1 DEF Heard
    <3>2. CASE ~Untold(q)'
      <4>1. NobodyTells(q)' => NobodyTells(q)
        BY <2>1, <3>2
      <4>2. ~Untold(q)
        BY <3>2, SlipStep DEF Untold, SlipsKept, Inv, TypeInv
      <4>3. events[q][TerminalEvent(s)] > 0 \/ ~NobodyTells(q)
        BY <1>0, <1>4, <4>2 DEF Heard
      <4>4. events'[q][TerminalEvent(s)] = events[q][TerminalEvent(s)]
        BY TerminalEventTypesAre DEF OutcomeEventsKept
      <4>5. QED
        BY <2>1, <4>1, <4>3, <4>4 DEF Heard
    <3>3. QED
      BY <3>1, <3>2
  <2>5. QED
    BY <2>2, <2>3, <2>4 DEF TellingOK
<1>5. QED
  BY <1>3, <1>4

\* Lemma: a step that gives run q its outcome, and makes one actor tell.
LEMMA BeginStep ==
  ASSUME ProgressInv, TellingInv, NEW q \in Runs, ~Terminal(q),
         OutcomeEventsKept(q), OneTells(q)', ~NobodyTells(q)'
  PROVE  TellingOK(q)'
<1>1. \A t \in TerminalEventTypes : ~(events'[q][t] > 0)
  BY SilentBefore DEF OutcomeEventsKept
<1>2. QED
  BY <1>1 DEF TellingOK, ToldOnce, Heard

\* Lemma: a step that tells of run q's outcome.
LEMMA TellStep ==
  ASSUME TypeOK, TellingInv, NEW q \in Runs, Terminal(q), ~NobodyTells(q),
         NobodyTells(q)', UNCHANGED rows,
         appendRunEvent(q, TerminalEvent(rows[q].status))
  PROVE  TellingOK(q)'
<1> DEFINE te == TerminalEvent(rows[q].status)
<1> HIDE DEF te
<1>0. /\ te \in TerminalEventTypes /\ TerminalEventTypes \subseteq RunEventTypes
      /\ te = TerminalEvent(rows[q].status)
  BY TerminalEventTypesAre DEF te
<1>1. \A t \in TerminalEventTypes : events[q][t] \in Nat /\ ~(events[q][t] > 0)
  BY <1>0 DEF TellingInv, ToldOnce, TypeOK
<1>2. \A t \in TerminalEventTypes : events[q][t] = 0
  BY <1>1
<1>3. /\ \A t \in TerminalEventTypes : t # te => events'[q][t] = 0
      /\ \/ events'[q][te] = 1
         \/ events'[q][te] = 0 /\ Untold(q)'
  <2>1. appendRunEvent(q, te)
    BY <1>0
  <2>2. PICK ok \in BOOLEAN :
          /\ events' = IF ok THEN [events EXCEPT ![q][te] = @ + 1] ELSE events
          /\ Slip(q, IF ~ok /\ te \in TerminalEventTypes THEN {"untold"}
                                                        ELSE {})
    BY <2>1 DEF appendRunEvent
  <2>3. CASE ok
    <3>1. events'[q] = [events[q] EXCEPT ![te] = @ + 1]
      BY <2>2, <2>3 DEF TypeOK
    <3>2. events[q] \in [RunEventTypes -> Nat]
      BY DEF TypeOK
    <3>3. QED
      BY <1>0, <1>2, <3>1, <3>2
  <2>4. CASE ~ok
    <3>1. events' = events /\ Slip(q, {"untold"})
      BY <1>0, <2>2, <2>4
    <3>2. Untold(q)'
      BY <3>1 DEF Slip, Untold, TypeOK
    <3>3. QED
      BY <1>0, <1>2, <3>1, <3>2
  <2>5. QED
    BY <2>3, <2>4
<1>4. Terminal(q)' /\ te = TerminalEvent(rows'[q].status)
  BY <1>0 DEF Terminal
<1>5. OneTells(q)'
  BY DEF OneTells, NobodyTells
<1>6. ToldOnce(q)'
  <2>1. \A t \in TerminalEventTypes :
          events'[q][t] > 0 => t = te /\ events'[q][t] = 1
    BY <1>3
  <2>2. QED
    BY <1>4, <2>1 DEF ToldOnce
<1>7. Heard(q)'
  BY <1>3, <1>4 DEF Heard
<1>8. QED
  BY <1>5, <1>6, <1>7 DEF TellingOK

\* Lemma: an outcome that is recorded without its writer's knowledge is
\* untold.
LEMMA UntoldOutcome ==
  ASSUME TypeOK, NEW q \in Runs, NEW lost, OutcomeSlip(q, TRUE, FALSE, lost),
         isCancelableRunStatus(rows[q].status)
  PROVE  Untold(q)'
BY DEF OutcomeSlip, Slip, Untold, TypeOK

\* Lemma: the error handler of POST /v1/runs tells of the outcome it gave.
LEMMA RecordErrorTells ==
  ASSUME Inv, ProgressInv, TellingInv, Next, NEW q \in Runs,
         RecordEnqueueError(q)
  PROVE  TellingOK(q)'
<1>0. TypeOK
  BY DEF Inv, TypeInv
<1>1. PICK done \in BOOLEAN, told \in BOOLEAN :
        /\ StoreWrite(done, told)
        /\ rows' = IF done THEN [rows EXCEPT ![q] = ErrorRun(@)] ELSE rows
        /\ create' = [create EXCEPT ![q] =
                        IF told /\ isCancelableRunStatus(rows[q].status)
                        THEN "errorEvent" ELSE "rejected"]
        /\ OutcomeSlip(q, done, told, {"enqueueError"})
  BY DEF RecordEnqueueError
<1>2. /\ create[q] = "enqueueError"
      /\ UNCHANGED <<events, att, cancel>>
  BY DEF RecordEnqueueError
<1>3. OutcomeEventsKept(q)
  BY <1>2 DEF OutcomeEventsKept
<1>4. CASE told /\ isCancelableRunStatus(rows[q].status)
  <2>1. ~Terminal(q)
    BY <1>4 DEF Terminal, isTerminalRunStatus, isCancelableRunStatus,
      TerminalStatuses
  <2>2. CreateTells(q)'
    BY <1>0, <1>1, <1>4 DEF TypeOK, CreateTells
  <2>3. OneTells(q)' /\ ~NobodyTells(q)'
    BY <1>2, <2>1, <2>2, SilentBefore
    DEF OneTells, NobodyTells, CancelTells, AttemptTells
  <2>4. QED
    BY <1>3, <2>1, <2>3, BeginStep
<1>5. CASE ~(told /\ isCancelableRunStatus(rows[q].status))
  <2>1. create'[q] = "rejected"
    BY <1>0, <1>1, <1>5 DEF TypeOK
  <2>2. Terminal(q)' => Terminal(q) \/ Untold(q)'
    <3>1. CASE ~done \/ ~isCancelableRunStatus(rows[q].status)
      BY <1>0, <1>1, <3>1 DEF TypeOK, ErrorRun, Terminal
    <3>2. CASE done /\ isCancelableRunStatus(rows[q].status)
      BY <1>0, <1>1, <1>5, <3>2, UntoldOutcome
    <3>3. QED
      BY <3>1, <3>2
  <2>3. NobodyTells(q)' => NobodyTells(q)
    BY <1>2, <2>1 DEF NobodyTells, CreateTells, CancelTells, AttemptTells
  <2>4. QED
    BY <1>2, <1>3, <2>1, <2>2, <2>3, QuietStep
    DEF CreateTells, CancelTells, AttemptTells
<1>6. QED
  BY <1>4, <1>5

\* Lemma: so does a cancel request.
LEMMA CancelFinishTells ==
  ASSUME Inv, ProgressInv, TellingInv, Next, NEW q \in Runs,
         NEW c \in Cancellers, CancelFinish(c), cancel[c].run = q
  PROVE  TellingOK(q)'
<1> DEFINE s == rows[q].status
<1>0. /\ TypeOK
      /\ cancel[c] \in [pc : CancelPcs, run : Runs,
                        seen : {"none", "queued", "running"}]
  BY DEF Inv, TypeInv, TypeOK
<1>1. /\ cancel[c].pc = "finish"
      /\ UNCHANGED <<events, att, create>>
  BY DEF CancelFinish
<1>2. ASSUME NEW pc, cancel' = [cancel EXCEPT ![c].pc = pc]
      PROVE  /\ cancel'[c].pc = pc /\ cancel'[c].run = q
             /\ \A d \in Cancellers : d # c => cancel'[d] = cancel[d]
  BY <1>0, <1>2 DEF TypeOK
<1>3. OutcomeEventsKept(q)
  BY <1>1 DEF OutcomeEventsKept
<1>4. ASSUME cancel' = [cancel EXCEPT ![c].pc = "accepted"],
             Terminal(q)' => Terminal(q) \/ Untold(q)'
      PROVE  TellingOK(q)'
  <2>1. /\ cancel'[c].pc = "accepted" /\ cancel'[c].run = q
        /\ \A d \in Cancellers : d # c => cancel'[d] = cancel[d]
    BY <1>2, <1>4
  <2>2. /\ CreateTells(q)' <=> CreateTells(q)
        /\ \A d \in Cancellers : CancelTells(d, q)' <=> CancelTells(d, q)
        /\ \A k \in Attempts : AttemptTells(k, q)' <=> AttemptTells(k, q)
    <3>1. \A d \in Cancellers : CancelTells(d, q)' <=> CancelTells(d, q)
      <4> TAKE d \in Cancellers
      <4>1. CASE d = c
        BY <1>1, <2>1, <4>1 DEF CancelTells
      <4>2. CASE d # c
        BY <2>1, <4>2 DEF CancelTells
      <4>3. QED
        BY <4>1, <4>2
    <3>2. QED
      BY <1>1, <3>1 DEF CreateTells, AttemptTells
  <2>3. NobodyTells(q)' => NobodyTells(q)
    BY <2>2 DEF NobodyTells
  <2>4. QED
    BY <1>0, <1>3, <1>4, <2>2, <2>3, QuietStep
<1>5. ASSUME NEW done \in BOOLEAN, NEW told \in BOOLEAN,
             StoreWrite(done, told),
             rows' = IF done
                     THEN [rows EXCEPT ![q] =
                             CancelRun(@, canceledReport("before"))]
                     ELSE rows,
             cancel' = [cancel EXCEPT ![c].pc =
                          IF told /\ isCancelableRunStatus(s)
                          THEN "canceledEvent" ELSE "accepted"],
             OutcomeSlip(q, done, told, {})
      PROVE  TellingOK(q)'
  <2>1. CASE told /\ isCancelableRunStatus(s)
    <3>1. /\ cancel'[c].pc = "canceledEvent" /\ cancel'[c].run = q
          /\ \A d \in Cancellers : d # c => cancel'[d] = cancel[d]
      BY <1>2, <1>5, <2>1
    <3>2. ~Terminal(q)
      BY <2>1 DEF Terminal, isTerminalRunStatus, isCancelableRunStatus,
        TerminalStatuses
    <3>3. rows'[q].status = "canceled"
      BY <1>0, <1>5, <2>1 DEF TypeOK, StoreWrite, CancelRun,
        finishRunWithReport
    <3>4. NobodyTells(q)
      BY <1>0, <3>2, SilentBefore
    <3>5. /\ CancelTells(c, q)'
          /\ \A d \in Cancellers : d # c => ~CancelTells(d, q)'
          /\ ~CreateTells(q)'
          /\ \A k \in Attempts : ~AttemptTells(k, q)'
      BY <1>1, <3>1, <3>4 DEF NobodyTells, CreateTells, CancelTells,
        AttemptTells
    <3>6. OneTells(q)' /\ ~NobodyTells(q)'
      BY <3>3, <3>5 DEF OneTells, NobodyTells
    <3>7. QED
      BY <1>0, <1>3, <3>2, <3>6, BeginStep
  <2>2. CASE ~(told /\ isCancelableRunStatus(s))
    <3>1. CASE ~done \/ ~isCancelableRunStatus(s)
      BY <1>0, <1>4, <1>5, <2>2, <3>1
      DEF TypeOK, CancelRun, finishRunWithReport, Terminal
    <3>2. CASE done /\ isCancelableRunStatus(s)
      BY <1>0, <1>4, <1>5, <2>2, <3>2, UntoldOutcome
    <3>3. QED
      BY <3>1, <3>2
  <2>3. QED
    BY <2>1, <2>2
<1>6. CASE UNCHANGED rows /\ cancel' = [cancel EXCEPT ![c].pc = "accepted"]
  BY <1>4, <1>6 DEF Terminal
<1>7. QED
  BY <1>5, <1>6 DEF CancelFinish

\* Lemma: and an execution.
LEMMA FinishRunTells ==
  ASSUME Inv, ProgressInv, TellingInv, Next, NEW q \in Runs,
         NEW k \in Attempts, FinishRun(q, k)
  PROVE  TellingOK(q)'
<1> DEFINE a == att[q][k]
           s == rows[q].status
<1>0. /\ TypeOK /\ a \in Attempt /\ LocalOK(a) /\ rows[q] \in Row
      /\ AttemptKnows(a, s, slips[q])
  BY DEF Inv, TypeInv, TypeOK, ReportReady, ProgressInv, RunOK
<1>1. PICK done \in BOOLEAN, told \in BOOLEAN :
        /\ StoreWrite(done, told)
        /\ rows' = IF done THEN [rows EXCEPT ![q] = FinishedRow(@, a)]
                           ELSE rows
        /\ att' = [att EXCEPT ![q][k] =
             IF told /\ isCancelableRunStatus(s)
             THEN [@ EXCEPT !.pc = "finishEvent"]
             ELSE FreshAttempt(ReturnPc(@.fin))]
        /\ OutcomeSlip(q, done, told, IF ReturnPc(a.fin) = "done"
                                      THEN {"finish"} ELSE {})
  BY DEF FinishRun
<1>2. /\ a.pc = "finish"
      /\ UNCHANGED <<events, create, cancel>>
  BY DEF FinishRun, ExecUnchanged
<1>3. OutcomeEventsKept(q)
  BY <1>2 DEF OutcomeEventsKept
<1>4. \A j \in Attempts : j # k => att'[q][j] = att[q][j]
  BY <1>0, <1>1 DEF TypeOK
<1>5. CASE told /\ isCancelableRunStatus(s)
  <2>1. ~Terminal(q)
    BY <1>5 DEF Terminal, isTerminalRunStatus, isCancelableRunStatus,
      TerminalStatuses
  <2>2. AttemptTells(k, q)'
    BY <1>0, <1>1, <1>5 DEF TypeOK, AttemptTells, Attempt
  <2>3. NobodyTells(q)
    BY <2>1, SilentBefore
  <2>4. /\ ~CreateTells(q)'
        /\ \A c \in Cancellers : ~CancelTells(c, q)'
        /\ \A j \in Attempts : j # k => ~AttemptTells(j, q)'
    BY <1>2, <1>4, <2>3 DEF NobodyTells, CreateTells, CancelTells,
      AttemptTells
  <2>5. OneTells(q)' /\ ~NobodyTells(q)'
    BY <2>2, <2>4 DEF OneTells, NobodyTells
  <2>6. QED
    BY <1>3, <2>1, <2>5, BeginStep
<1>6. CASE ~(told /\ isCancelableRunStatus(s))
  <2>1. att'[q][k].pc \in {"done", "failed"}
    BY <1>0, <1>1, <1>6 DEF TypeOK, ReturnPc, FreshAttempt
  <2>2. Terminal(q)' => Terminal(q) \/ Untold(q)'
    <3>1. CASE ~done
      BY <1>1, <3>1 DEF Terminal
    <3>2. CASE ~isCancelableRunStatus(s)
      <4>1. FinishedRow(rows[q], a) = rows[q]
        BY <3>2 DEF FinishedRow, CompleteRun, CancelRun, ErrorRun,
          finishRunWithReport
      <4>2. QED
        BY <1>0, <1>1, <4>1 DEF TypeOK, Terminal
    <3>3. CASE done /\ isCancelableRunStatus(s)
      BY <1>0, <1>1, <1>6, <3>3, UntoldOutcome
    <3>4. QED
      BY <3>1, <3>2, <3>3
  <2>3. /\ CreateTells(q)' <=> CreateTells(q)
        /\ \A c \in Cancellers : CancelTells(c, q)' <=> CancelTells(c, q)
        /\ \A j \in Attempts : AttemptTells(j, q)' <=> AttemptTells(j, q)
    BY <1>2, <1>4, <2>1 DEF CreateTells, CancelTells, AttemptTells
  <2>4. NobodyTells(q)' => NobodyTells(q)
    BY <2>3 DEF NobodyTells
  <2>5. QED
    BY <1>3, <2>2, <2>3, <2>4, QuietStep
<1>7. QED
  BY <1>5, <1>6

\* Lemma: every step keeps the invariant about telling.
LEMMA TellingStep ==
  Inv /\ ProgressInv /\ TellingInv /\ [Next]_vars => TellingInv'
<1> SUFFICES ASSUME Inv, ProgressInv, TellingInv, [Next]_vars
             PROVE  TellingInv'
  OBVIOUS
<1>1. CASE UNCHANGED vars
  BY <1>1 DEF vars, TellingInv, OneTells, ToldOnce, Heard, NobodyTells,
    CreateTells, CancelTells, AttemptTells, Terminal, Untold
<1>2. CASE Next
  <2>1. SUFFICES ASSUME NEW q \in Runs PROVE TellingOK(q)'
    BY DEF TellingInv, TellingOK
  <2>0. TypeOK /\ OneTells(q)
    BY DEF Inv, TypeInv, TellingInv
  <2>2. CASE Mute(q)
    <3>1. TellersKept(q) /\ OutcomeEventsKept(q)
      BY <1>2, <2>0, <2>2, MuteKeepsTellers, MuteKeepsEvents
    <3>2. Terminal(q)' => Terminal(q)
      BY <1>2, <2>2, MuteKeepsOutcome DEF Terminal
    <3>3. ~Untold(q)' => (NobodyTells(q)' => NobodyTells(q))
      BY <3>1 DEF TellersKept, NobodyTells
    <3>4. QED
      BY <1>2, <3>1, <3>2, <3>3, QuietStep DEF TellersKept
  <2>3. CASE RecordEnqueueError(q)
    BY <1>2, <2>3, RecordErrorTells
  <2>4. ASSUME NEW c \in Cancellers, CancelFinish(c), cancel[c].run = q
        PROVE  TellingOK(q)'
    BY <1>2, <2>4, CancelFinishTells
  <2>5. ASSUME NEW k \in Attempts, FinishRun(q, k)
        PROVE  TellingOK(q)'
    BY <1>2, <2>5, FinishRunTells
  <2>6. CASE EnqueueErrorEvent(q)
    <3>1. /\ CreateTells(q) /\ create'[q] = "rejected"
          /\ UNCHANGED <<rows, cancel, att>>
          /\ appendRunEvent(q, "run_failed")
      BY <2>0, <2>6 DEF EnqueueErrorEvent, CreateTells, TypeOK
    <3>2. rows[q].status = "errored"
      BY <3>1 DEF CreateTells, ProgressInv, RunOK, CreationKnows
    <3>3. Terminal(q) /\ TerminalEvent(rows[q].status) = "run_failed"
      BY <3>2 DEF Terminal, isTerminalRunStatus, TerminalStatuses,
        TerminalEvent
    <3>4. ~NobodyTells(q) /\ NobodyTells(q)'
      BY <2>0, <3>1 DEF OneTells, NobodyTells, CreateTells, CancelTells,
        AttemptTells
    <3>5. QED
      BY <2>0, <3>1, <3>3, <3>4, TellStep
  <2>7. ASSUME NEW c \in Cancellers, CanceledEvent(c), cancel[c].run = q
        PROVE  TellingOK(q)'
    <3>1. /\ CancelTells(c, q) /\ cancel'[c].pc = "accepted"
          /\ \A d \in Cancellers : d # c => cancel'[d] = cancel[d]
          /\ UNCHANGED <<rows, create, att>>
          /\ appendRunEvent(q, "run_canceled")
      BY <2>0, <2>7 DEF CanceledEvent, CancelTells, TypeOK
    <3>2. rows[q].status = "canceled"
      BY <2>0, <3>1 DEF OneTells
    <3>3. Terminal(q) /\ TerminalEvent(rows[q].status) = "run_canceled"
      BY <3>2 DEF Terminal, isTerminalRunStatus, TerminalStatuses,
        TerminalEvent
    <3>4. ~NobodyTells(q)
      BY <3>1 DEF NobodyTells
    <3>5. NobodyTells(q)'
      <4>1. \A d \in Cancellers : ~CancelTells(d, q)'
        <5> TAKE d \in Cancellers
        <5>1. CASE d = c
          BY <3>1, <5>1 DEF CancelTells
        <5>2. CASE d # c
          <6>1. ~CancelTells(d, q)
            BY <2>0, <3>1, <5>2 DEF OneTells
          <6>2. QED
            BY <3>1, <5>2, <6>1 DEF CancelTells
        <5>3. QED
          BY <5>1, <5>2
      <4>2. ~CreateTells(q) /\ \A k \in Attempts : ~AttemptTells(k, q)
        BY <2>0, <3>1 DEF OneTells
      <4>3. QED
        BY <3>1, <4>1, <4>2 DEF NobodyTells, CreateTells, AttemptTells
    <3>6. QED
      BY <2>0, <3>1, <3>3, <3>4, <3>5, TellStep
  <2>8. ASSUME NEW k \in Attempts, FinishedEvent(q, k)
        PROVE  TellingOK(q)'
    <3>1. /\ AttemptTells(k, q) /\ att'[q][k].pc \in {"done", "failed"}
          /\ \A j \in Attempts : j # k => att'[q][j] = att[q][j]
          /\ UNCHANGED <<rows, create, cancel>>
          /\ appendRunEvent(q, TerminalEvent(FinishedStatus(att[q][k])))
      BY <2>0, <2>8 DEF FinishedEvent, AttemptTells, TypeOK, FreshAttempt,
        ReturnPc, ExecUnchanged
    <3>2. rows[q].status = FinishedStatus(att[q][k])
      BY <3>1 DEF AttemptTells, ProgressInv, RunOK, AttemptKnows
    <3>3. Terminal(q) /\ appendRunEvent(q, TerminalEvent(rows[q].status))
      BY <3>1, <3>2, FinishedIsTerminal DEF Terminal
    <3>4. ~NobodyTells(q)
      BY <3>1 DEF NobodyTells
    <3>5. NobodyTells(q)'
      <4>1. \A j \in Attempts : j # k => ~AttemptTells(j, q)
        BY <2>0, <3>1 DEF OneTells
      <4>2. \A j \in Attempts : ~AttemptTells(j, q)'
        BY <3>1, <4>1 DEF AttemptTells
      <4>3. ~CreateTells(q) /\ \A c \in Cancellers : ~CancelTells(c, q)
        BY <2>0, <3>1 DEF OneTells
      <4>4. QED
        BY <3>1, <4>2, <4>3 DEF NobodyTells, CreateTells, CancelTells
    <3>6. QED
      BY <2>0, <3>1, <3>3, <3>4, <3>5, TellStep
  <2>9. QED
    BY <2>2, <2>3, <2>4, <2>5, <2>6, <2>7, <2>8 DEF Mute
<1>3. QED
  BY <1>1, <1>2

\* Lemma: at first there is nothing to tell.
LEMMA TellingInit == Init => TellingInv
<1> SUFFICES ASSUME Init, NEW r \in Runs
             PROVE  OneTells(r) /\ ToldOnce(r) /\ Heard(r)
  BY DEF TellingInv
<1>1. ~Terminal(r)
  BY DEF Init, NoRow, Terminal, isTerminalRunStatus, TerminalStatuses
<1>2. \A t \in TerminalEventTypes : ~(events[r][t] > 0)
  BY TerminalEventTypesAre DEF Init
<1>3. NobodyTells(r)
  BY DEF Init, NobodyTells, CreateTells, CancelTells, AttemptTells,
    FreshAttempt
<1>4. QED
  BY <1>1, <1>2, <1>3 DEF OneTells, ToldOnce, Heard, NobodyTells

\* Lemma: the inductive invariant about telling.
LEMMA TellingAlways == Spec => [](Inv /\ ProgressInv /\ TellingInv)
<1>1. Init => TellingInv
  BY TellingInit
<1>2. QED
  BY <1>1, TellingStep, ProgressAlways, PTL DEF Spec

\* Theorem: the timeline tells of at most one outcome, once, and of the one
\* the run has, although status and event are two transactions and any number
\* of requests, deliveries and orphaned executions race for the outcome.
THEOREM TimelineAgrees == Spec => []TerminalEventsAgree
<1>1. TellingInv => TerminalEventsAgree
  BY DEF TellingInv, ToldOnce, TerminalEventsAgree
<1>2. QED
  BY <1>1, TellingAlways, PTL

\* Theorem: whoever gives a run its outcome tells of it, unless that very
\* writer is told that its update failed, fails to append the event, or dies
\* before it could.  No other fault, of another attempt, request or run,
\* leaves an outcome untold, however many there are.
THEOREM OutcomesAreTold == Spec => []OutcomeTold
<1>1. Inv /\ ProgressInv /\ TellingInv => OutcomeTold
  <2> SUFFICES ASSUME Inv, ProgressInv, TellingInv, NEW r \in Runs,
                      Terminal(r)
               PROVE  LET t == TerminalEvent(rows[r].status) IN
                      \/ events[r][t] > 0 \/ Telling(r, t)
                      \/ "untold" \in slips[r]
    BY DEF OutcomeTold
  <2> DEFINE te == TerminalEvent(rows[r].status)
  <2>1. ~NobodyTells(r) => Telling(r, te)
    <3>1. CASE CreateTells(r)
      BY <3>1 DEF CreateTells, Telling, ProgressInv, RunOK, CreationKnows,
        TerminalEvent
    <3>2. ASSUME NEW c \in Cancellers, CancelTells(c, r)
          PROVE  Telling(r, te)
      <4>1. rows[r].status = "canceled"
        BY <3>2 DEF TellingInv, OneTells
      <4>2. QED
        BY <3>2, <4>1 DEF CancelTells, Telling, TerminalEvent
    <3>3. ASSUME NEW k \in Attempts, AttemptTells(k, r)
          PROVE  Telling(r, te)
      <4>1. rows[r].status = FinishedStatus(att[r][k])
        BY <3>3 DEF AttemptTells, ProgressInv, RunOK, AttemptKnows
      <4>2. QED
        BY <3>3, <4>1 DEF AttemptTells, Telling
    <3>4. QED
      BY <3>1, <3>2, <3>3 DEF NobodyTells
  <2>2. QED
    BY <2>1 DEF TellingInv, Heard, Untold
<1>2. QED
  BY <1>1, TellingAlways, PTL

-----------------------------------------------------------------------------
(* Cancellation.  Both promises are of the form [](P => []Q); each is kept *)
(* by a predicate that P starts and every step preserves.                  *)

\* Lemma: a recorded cancellation stays recorded.
LEMMA RequestStays ==
  ASSUME TypeOK, Next, NEW r \in Runs, IsRunCancelRequested(r)
  PROVE  IsRunCancelRequested(r)'
<1> USE DEF IsRunCancelRequested
<1>1. CASE SameRequests
  BY <1>1 DEF SameRequests
<1>2. ASSUME NEW c \in Cancellers, RequestRunCancel(c)
      PROVE  IsRunCancelRequested(r)'
  <2>1. cancel[c].run \in Runs
    BY DEF TypeOK
  <2>2. \/ events' = events
        \/ /\ cancel[c].run # r
           /\ events' = [events EXCEPT
                           ![cancel[c].run]["cancel_requested"] = @ + 1]
    BY <1>2 DEF RequestRunCancel
  <2>3. events'[r] = events[r]
    BY <2>1, <2>2 DEF TypeOK
  <2>4. QED
    BY <2>3
<1>3. QED
  BY <1>1, <1>2, EventSteps

\* The steps between an execution's check and the end of its traffic.
TrafficPcs == {"start", "startEvent", "confirm", "run"}

\* Lemma: an execution commits to a verdict in line 70 only, and comes to its
\* traffic through line 44 only.
LEMMA AttemptPaths ==
  ASSUME Inv, Next, NEW q \in Runs, NEW j \in Attempts
  PROVE  /\ Committed(att'[q][j]) => Committed(att[q][j]) \/ Decide(q, j)
         /\ att'[q][j].pc \in TrafficPcs =>
              att[q][j].pc \in TrafficPcs \/ CheckCancel(q, j)
<1> DEFINE a == att[q][j]
           Goal ==
             /\ Committed(att'[q][j]) => Committed(a) \/ Decide(q, j)
             /\ att'[q][j].pc \in TrafficPcs =>
                  a.pc \in TrafficPcs \/ CheckCancel(q, j)
<1> SUFFICES Goal
  OBVIOUS
<1>0. TypeOK /\ a \in Attempt /\ LocalOK(a)
  BY DEF Inv, TypeInv, TypeOK, ReportReady
<1>1. CASE att'[q][j] = a
  BY <1>1
<1>2. ASSUME NEW pc \in {"idle", "load", "done", "failed", "dead"},
             att'[q][j] = FreshAttempt(pc)
      PROVE  Goal
  BY <1>2 DEF FreshAttempt, Committed, TrafficPcs
<1>3. CASE DeliveryKept(q)
  BY <1>1, <1>3 DEF DeliveryKept
<1>4. CASE \/ EnqueueRun(q) \/ EnqueueRunFails(q) \/ AttemptAbandoned(q)
           \/ TaskStep(q) /\ ~handleRunExecute(q)
  BY <1>1, <1>4 DEF EnqueueRun, EnqueueRunFails, AttemptAbandoned, TaskStep,
    TaskSucceeded, AttemptFailed, HandleError, RetryOrArchive, LeaseRecovered
<1>5. CASE handleRunExecute(q) \/ WorkerShutdown(q)
  <2>1. PICK pc \in {"load", "idle"} :
          att' = [att EXCEPT ![q][Owner(q)] = FreshAttempt(pc)]
    BY <1>5 DEF handleRunExecute, WorkerShutdown
  <2>2. att'[q][j] = a \/ att'[q][j] = FreshAttempt(pc)
    BY <1>0, <2>1, OwnerType DEF TypeOK
  <2>3. QED
    BY <1>1, <1>2, <2>2
<1>6. ASSUME NEW k \in Attempts, WorkerCrash(q, k)
      PROVE  Goal
  <2>1. att'[q][j] = a \/ att'[q][j] = FreshAttempt("dead")
    BY <1>0, <1>6 DEF WorkerCrash, TypeOK
  <2>2. QED
    BY <1>1, <1>2, <2>1
<1>7. ASSUME NEW k \in Attempts, ExecuteStep(q, k) \/ MonitorCancel(q, k)
      PROVE  Goal
  <2>1. CASE j # k
    BY <1>0, <1>1, <1>7, <2>1, ExecuteFrame
  <2>2. CASE j = k
    <3>1. CASE LoadRun(q, j)
      <4>1. \/ att'[q][j].pc = "check"
            \/ att'[q][j] = FreshAttempt("done")
            \/ att'[q][j] = FreshAttempt("failed")
        BY <1>0, <3>1 DEF LoadRun, TypeOK, Attempt
      <4>2. QED
        BY <1>2, <4>1 DEF Committed, TrafficPcs
    <3>2. CASE CheckCancel(q, j)
      <4>1. \/ att'[q][j].pc \in TrafficPcs
            \/ att'[q][j].fin = "cancel"
        BY <1>0, <3>2 DEF CheckCancel, TypeOK, Attempt, TrafficPcs
      <4>2. QED
        BY <3>2, <4>1 DEF Committed, TrafficPcs
    <3>3. CASE StartRun(q, j) \/ StartedEvent(q, j)
      <4>1. a.pc \in TrafficPcs /\ att'[q][j].pc \in {"startEvent", "confirm"}
        BY <1>0, <3>3 DEF StartRun, StartedEvent, TypeOK, Attempt, TrafficPcs
      <4>2. QED
        BY <4>1 DEF Committed
    <3>4. CASE ConfirmStarted(q, j)
      <4>1. a.pc \in TrafficPcs
        BY <3>4 DEF ConfirmStarted, TrafficPcs
      <4>2. att'[q][j].pc \in {"run", "done"}
        BY <1>0, <3>4 DEF ConfirmStarted, TypeOK, Attempt, FreshAttempt
      <4>3. QED
        BY <4>1, <4>2 DEF Committed
    <3>5. CASE MonitorCancel(q, j)
      <4>1. att'[q][j].pc = a.pc /\ att'[q][j].fin = a.fin
        BY <1>0, <3>5 DEF MonitorCancel, TypeOK, Attempt
      <4>2. QED
        BY <4>1 DEF Committed
    <3>6. CASE RunnerReturns(q, j)
      <4>1. att'[q][j].pc = "decide"
        BY <1>0, <3>6 DEF RunnerReturns, TypeOK, Attempt
      <4>2. QED
        BY <4>1 DEF Committed, TrafficPcs
    <3>7. CASE Decide(q, j)
      <4>1. PICK req \in BOOLEAN :
              att' = [att EXCEPT ![q][j] = Decided(@, req)]
        BY <3>7 DEF Decide, IsRunCancelRequested
      <4>2. att'[q][j] = Decided(a, req)
        BY <1>0, <4>1 DEF TypeOK
      <4>3. Decided(a, req).pc \in {"upload", "finish"}
        BY <1>0 DEF Decided, Attempt
      <4>4. QED
        BY <3>7, <4>2, <4>3 DEF TrafficPcs
    <3>8. CASE UploadReport(q, j)
      <4>1. /\ a.pc = "upload" /\ att'[q][j].pc = "finish"
            /\ att'[q][j].fin = a.fin
        BY <1>0, <3>8 DEF UploadReport, TypeOK, Attempt
      <4>2. QED
        BY <4>1 DEF Committed, TrafficPcs
    <3>9. CASE FinishRun(q, j) \/ FinishedEvent(q, j)
      <4>1. \/ att'[q][j].pc = "finishEvent"
            \/ att'[q][j] = FreshAttempt("done")
            \/ att'[q][j] = FreshAttempt("failed")
        BY <1>0, <3>9 DEF FinishRun, FinishedEvent, TypeOK, Attempt, ReturnPc
      <4>2. QED
        BY <1>2, <4>1 DEF Committed, TrafficPcs
    <3>10. QED
      BY <1>7, <2>2, <3>1, <3>2, <3>3, <3>4, <3>5, <3>6, <3>7, <3>8, <3>9
      DEF ExecuteStep
  <2>3. QED
    BY <2>1, <2>2
<1>8. QED
  BY <1>0, <1>3, <1>4, <1>5, <1>6, <1>7, DeliveryMoves

\* Lemma: a verdict is given by an execution that was committed to it.
LEMMA VerdictSteps ==
  ASSUME Inv, Next, NEW r \in Runs, Verdict(r)'
  PROVE  Verdict(r) \/ \E k \in Attempts : Committed(att[r][k])
<1> USE DEF Verdict
<1>0. TypeOK
  BY DEF Inv, TypeInv
<1>1. CASE Mute(r)
  <2>1. isTerminalRunStatus(rows'[r].status)
    BY DEF isTerminalRunStatus, TerminalStatuses
  <2>2. QED
    BY <1>1, <2>1, MuteKeepsOutcome
<1>2. CASE RecordEnqueueError(r)
  BY <1>0, <1>2 DEF RecordEnqueueError, TypeOK, ErrorRun, Row
<1>3. ASSUME NEW c \in Cancellers, CancelFinish(c), cancel[c].run = r
      PROVE  Verdict(r)
  BY <1>0, <1>3 DEF CancelFinish, TypeOK, CancelRun, finishRunWithReport
<1>4. ASSUME NEW k \in Attempts, FinishRun(r, k)
      PROVE  Verdict(r) \/ Committed(att[r][k])
  <2>1. CASE att[r][k].fin = "complete"
    BY <1>4, <2>1 DEF FinishRun, Committed
  <2>2. CASE att[r][k].fin # "complete"
    <3>1. rows'[r] = rows[r] \/ rows'[r] = FinishedRow(rows[r], att[r][k])
      BY <1>0, <1>4 DEF FinishRun, TypeOK
    <3>2. rows[r] \in Row
      BY <1>0 DEF TypeOK
    <3>3. \/ FinishedRow(rows[r], att[r][k]) = rows[r]
          \/ FinishedRow(rows[r], att[r][k]).status \in {"canceled", "errored"}
      BY <2>2, <3>2 DEF FinishedRow, CancelRun, finishRunWithReport, ErrorRun,
        Row
    <3>4. QED
      BY <3>1, <3>3
  <2>3. QED
    BY <2>1, <2>2
<1>5. ASSUME \/ EnqueueErrorEvent(r)
             \/ \E c \in Cancellers : CanceledEvent(c)
             \/ \E k \in Attempts : FinishedEvent(r, k)
      PROVE  Verdict(r)
  BY <1>5 DEF EnqueueErrorEvent, CanceledEvent, FinishedEvent
<1>6. QED
  BY <1>1, <1>2, <1>3, <1>4, <1>5 DEF Mute

\* What CancelWins rests on: the cancellation is still ahead of every
\* execution, unless a store call has failed.
Ahead(r) == storeFaults > 0 \/ CancelPending(r)

\* Lemma: it stays so.
LEMMA AheadStays ==
  ASSUME NEW r \in Runs
  PROVE  Inv /\ Ahead(r) /\ [Next]_vars => Ahead(r)'
<1> SUFFICES ASSUME Inv, Ahead(r), [Next]_vars PROVE Ahead(r)'
  OBVIOUS
<1>0. TypeOK /\ storeFaults \in Nat
  BY FaultsAreNumbers DEF Inv, TypeInv
<1>1. CASE UNCHANGED vars
  BY <1>1 DEF vars, Ahead, CancelPending, IsRunCancelRequested, Verdict
<1>2. CASE Next /\ storeFaults > 0
  <2>1. storeFaults' >= storeFaults
    BY <1>0, <1>2, FaultsGrow
  <2>2. storeFaults' \in Nat
    <3>1. TypeOK'
      BY <1>2, TypeStep DEF Inv, TypeInv
    <3>2. QED
      BY <3>1, RunControlAssumption DEF TypeOK
  <2>3. QED
    BY <1>0, <1>2, <2>1, <2>2 DEF Ahead
<1>3. CASE Next /\ CancelPending(r)
  <2>1. IsRunCancelRequested(r) /\ ~Verdict(r)
        /\ \A k \in Attempts : ~Committed(att[r][k])
    BY <1>3 DEF CancelPending
  <2>2. IsRunCancelRequested(r)' /\ ~Verdict(r)'
    BY <1>0, <1>3, <2>1, RequestStays, VerdictSteps
  <2>3. ASSUME NEW k \in Attempts, Committed(att'[r][k])
        PROVE  storeFaults' > 0
    <3>1. Decide(r, k)
      BY <1>3, <2>1, <2>3, AttemptPaths
    <3>2. PICK ok \in BOOLEAN :
            /\ StoreCall(ok)
            /\ att' = [att EXCEPT ![r][k] =
                         Decided(@, ok /\ IsRunCancelRequested(r))]
      BY <3>1 DEF Decide
    <3>3. CASE ok
      <4>1. att'[r][k] = Decided(att[r][k], TRUE)
        BY <1>0, <2>1, <3>2, <3>3 DEF TypeOK
      <4>2. att[r][k] \in Attempt
        BY <1>0 DEF TypeOK
      <4>3. Decided(att[r][k], TRUE).fin = "cancel"
        BY <4>2 DEF Decided, Attempt
      <4>4. QED
        BY <2>3, <4>1, <4>3 DEF Committed
    <3>4. CASE ~ok
      BY <1>0, <3>2, <3>4, StoreCallCounts
    <3>5. QED
      BY <3>3, <3>4
  <2>4. QED
    BY <2>2, <2>3 DEF Ahead, CancelPending
<1>4. QED
  BY <1>1, <1>2, <1>3 DEF Ahead

\* Theorem: a cancellation that is recorded before any execution has decided
\* to complete the run wins, whatever the retries and overlapping executions.
THEOREM CancellationWins == Spec => CancelWins
<1> SUFFICES ASSUME NEW r \in Runs
             PROVE  Spec => [](CancelPending(r) =>
                                 [](storeFaults = 0 => ~Verdict(r)))
  BY DEF CancelWins
<1>1. CancelPending(r) => Ahead(r)
  BY DEF Ahead
<1>2. Ahead(r) => (storeFaults = 0 => ~Verdict(r))
  BY DEF Ahead, CancelPending
<1>3. Inv /\ Ahead(r) /\ [Next]_vars => Ahead(r)'
  BY AheadStays
<1>4. QED
  BY <1>1, <1>2, <1>3, InvAlways, PTL DEF Spec

\* What NoTrafficAfterCancel rests on.
KeptAway(r) ==
  \/ storeFaults > 0
  \/ /\ IsRunCancelRequested(r)
     /\ \A k \in Attempts : att[r][k].pc \notin TrafficPcs

\* Lemma: traffic stays away.
LEMMA KeptAwayStays ==
  ASSUME NEW r \in Runs
  PROVE  Inv /\ KeptAway(r) /\ [Next]_vars => KeptAway(r)'
<1> SUFFICES ASSUME Inv, KeptAway(r), [Next]_vars PROVE KeptAway(r)'
  OBVIOUS
<1>0. TypeOK /\ storeFaults \in Nat
  BY FaultsAreNumbers DEF Inv, TypeInv
<1>1. CASE UNCHANGED vars
  BY <1>1 DEF vars, KeptAway, IsRunCancelRequested
<1>2. CASE Next /\ storeFaults > 0
  <2>1. storeFaults' >= storeFaults
    BY <1>0, <1>2, FaultsGrow
  <2>2. storeFaults' \in Nat
    <3>1. TypeOK'
      BY <1>2, TypeStep DEF Inv, TypeInv
    <3>2. QED
      BY <3>1, RunControlAssumption DEF TypeOK
  <2>3. QED
    BY <1>0, <1>2, <2>1, <2>2 DEF KeptAway
<1>3. CASE /\ Next /\ IsRunCancelRequested(r)
           /\ \A k \in Attempts : att[r][k].pc \notin TrafficPcs
  <2>1. IsRunCancelRequested(r)'
    BY <1>0, <1>3, RequestStays
  <2>2. ASSUME NEW k \in Attempts, att'[r][k].pc \in TrafficPcs
        PROVE  storeFaults' > 0
    <3>1. CheckCancel(r, k)
      BY <1>3, <2>2, AttemptPaths
    <3>2. PICK ok \in BOOLEAN :
            /\ StoreCall(ok)
            /\ att' = [att EXCEPT ![r][k] =
                 IF ok /\ IsRunCancelRequested(r)
                 THEN [@ EXCEPT !.pc = "upload", !.fin = "cancel",
                                !.rep = canceledReport("before")]
                 ELSE [@ EXCEPT !.pc = IF att[r][k].seen = "queued"
                                       THEN "start" ELSE "confirm"]]
      BY <3>1 DEF CheckCancel
    <3>3. CASE ok
      <4>1. att'[r][k].pc = "upload"
        BY <1>0, <1>3, <3>2, <3>3 DEF TypeOK, Attempt
      <4>2. QED
        BY <2>2, <4>1 DEF TrafficPcs
    <3>4. CASE ~ok
      BY <1>0, <3>2, <3>4, StoreCallCounts
    <3>5. QED
      BY <3>3, <3>4
  <2>3. QED
    BY <2>1, <2>2 DEF KeptAway
<1>4. QED
  BY <1>1, <1>2, <1>3 DEF KeptAway

\* Theorem: a cancellation that is recorded while no execution is between its
\* check and the end of its traffic keeps all later traffic away.
THEOREM CancellationStopsTraffic == Spec => NoTrafficAfterCancel
<1> DEFINE Clear(r) ==
      /\ IsRunCancelRequested(r)
      /\ \A k \in Attempts :
           att[r][k].pc \notin {"start", "startEvent", "confirm", "run"}
<1> SUFFICES ASSUME NEW r \in Runs
             PROVE  Spec =>
               [](Clear(r) => [](storeFaults = 0 =>
                                   \A k \in Attempts : att[r][k].pc # "run"))
  BY DEF NoTrafficAfterCancel
<1>1. Clear(r) => KeptAway(r)
  BY DEF KeptAway, TrafficPcs
<1>2. KeptAway(r) =>
        (storeFaults = 0 => \A k \in Attempts : att[r][k].pc # "run")
  BY DEF KeptAway, TrafficPcs
<1>3. Inv /\ KeptAway(r) /\ [Next]_vars => KeptAway(r)'
  BY KeptAwayStays
<1>4. QED
  BY <1>1, <1>2, <1>3, InvAlways, PTL DEF Spec
=============================================================================
