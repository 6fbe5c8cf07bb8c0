------------------------ MODULE InProcessRunProofs --------------------------
(***************************************************************************)
(* The theorems of InProcessRun: types, the maps that forget, the          *)
(* cancellations that win or settle, and that it implements RunLifecycle.  *)
(***************************************************************************)
EXTENDS InProcessRun, TLAPS

CancelType ==
  [pc : CancelPcs, run : Runs, seen : {"none", "queued", "running"}]

\* The steps at which executeRun is in the maps.
RegisteredPcs == {"start", "confirm", "abandon", "run", "unregister"}

\* RegistryForgets alone is not inductive: "finish" has to be outside.
Registered ==
  /\ cancelRequests \subseteq runCancels
  /\ \A r \in runCancels : exec[r].pc \in RegisteredPcs

\* The statuses a run can have while its execution is at pc.  Only the last
\* step of executeRun gives an outcome other than "canceled", and only a run
\* that was canceled is abandoned.
StatusesAt(pc) ==
  CASE pc = "none" -> {"absent"}
    [] pc \in {"register", "start"} -> {"queued", "canceled"}
    [] pc \in {"confirm", "run", "unregister", "finish"} ->
         {"running", "canceled"}
    [] pc = "abandon" -> {"canceled"}
    [] OTHER -> TerminalStatuses

StatusFollows == \A r \in Runs : rows[r].status \in StatusesAt(exec[r].pc)

Inv == TypeOK /\ Registered /\ StatusFollows

-----------------------------------------------------------------------------
(* Rows                                                                    *)

\* Lemma: the reports that executeRun and cancelRun make are reports.
LEMMA ReportTypes ==
  /\ RunnerReport("passed") \in Reports
  /\ RunnerReport("failed") \in Reports
  /\ canceledReport("error") \in Reports
  /\ canceledReport("before") \in Reports
BY DEF RunnerReport, canceledReport, Reports

\* Lemma: the store's operations make rows of rows, and change the status of
\* a row that has no outcome.
LEMMA RowOperations ==
  ASSUME NEW row \in Row, NEW rep \in Reports
  PROVE  /\ CreateRun \in Row /\ CreateRun.status = "queued"
         /\ MarkRunStarted(row) \in Row
         /\ MarkRunStarted(row).status =
              (IF isCancelableRunStatus(row.status) THEN "running"
               ELSE row.status)
         /\ CompleteRun(row, rep) \in Row
         /\ row.status \in {"running", "canceled"} =>
              CompleteRun(row, rep).status \in TerminalStatuses
         /\ CancelRun(row, rep) \in Row
         /\ CancelRun(row, rep).status =
              (IF isCancelableRunStatus(row.status) THEN "canceled"
               ELSE row.status)
         /\ ErrorRun(row) \in Row
         /\ row.status \in {"running", "canceled"} =>
              ErrorRun(row).status \in TerminalStatuses
<1>1. ASSUME NEW s \in {"passed", "failed", "canceled"}
      PROVE  /\ finishRunWithReport(row, s, rep) \in Row
             /\ finishRunWithReport(row, s, rep).status =
                  (IF isCancelableRunStatus(row.status) THEN s
                   ELSE row.status)
  <2>1. [rep EXCEPT !.status = s] \in Reports
    BY DEF Reports
  <2>2. QED
    BY <2>1 DEF finishRunWithReport, Row, RunStatus, TerminalStatuses
<1>2. /\ CompleteRun(row, rep) \in Row
      /\ row.status \in {"running", "canceled"} =>
           CompleteRun(row, rep).status \in TerminalStatuses
      /\ CancelRun(row, rep) \in Row
      /\ CancelRun(row, rep).status =
           (IF isCancelableRunStatus(row.status) THEN "canceled"
            ELSE row.status)
  BY <1>1 DEF CompleteRun, CancelRun, CompletedStatus, TerminalStatuses,
              isCancelableRunStatus
<1>3. QED
  BY <1>2 DEF CreateRun, MarkRunStarted, ErrorRun, Row, RunStatus,
              TerminalStatuses, isCancelableRunStatus

\* Lemma: an execution finishes its run, and cancels it if it was asked to.
LEMMA FinishedRowType ==
  ASSUME TypeOK, NEW r \in Runs
  PROVE  /\ FinishedRow(r) \in Row
         /\ rows[r].status \in {"running", "canceled"} =>
              /\ FinishedRow(r).status \in TerminalStatuses
              /\ exec[r].canceled => FinishedRow(r).status = "canceled"
<1>1. rows[r] \in Row /\ exec[r].rep \in Reports \cup {NoReport}
  BY DEF TypeOK, Exec
<1>2. CASE exec[r].canceled
  <2>1. PICK rep \in Reports : FinishedRow(r) = CancelRun(rows[r], rep)
    BY <1>1, <1>2, ReportTypes DEF FinishedRow
  <2>2. /\ CancelRun(rows[r], rep) \in Row
        /\ CancelRun(rows[r], rep).status =
             (IF isCancelableRunStatus(rows[r].status) THEN "canceled"
              ELSE rows[r].status)
    BY <1>1, RowOperations
  <2>3. QED
    BY <2>1, <2>2 DEF isCancelableRunStatus, TerminalStatuses
<1>3. CASE ~exec[r].canceled
  <2>1. \/ FinishedRow(r) = ErrorRun(rows[r])
        \/ \E rep \in Reports : FinishedRow(r) = CompleteRun(rows[r], rep)
    BY <1>1, <1>3 DEF FinishedRow
  <2>2. QED
    BY <1>1, <1>3, <2>1, ReportTypes, RowOperations
<1>4. QED
  BY <1>2, <1>3

-----------------------------------------------------------------------------
(* The invariant                                                           *)

\* Lemma: a server that has served no request satisfies the invariant.
LEMMA InvInit == Init => Inv
<1> SUFFICES ASSUME Init PROVE Inv
  OBVIOUS
<1>1. NoRow \in Row /\ NoRow.status = "absent"
  BY DEF NoRow, Row, RunStatus
<1>2. cancel \in [Cancellers -> CancelType]
  BY DEF Init, CancelType, CancelPcs
<1>3. TypeOK /\ Registered
  BY <1>1, <1>2 DEF Init, TypeOK, Registered, Exec, ExecPcs, CancelType
<1>4. StatusFollows
  BY <1>1 DEF Init, StatusFollows, StatusesAt
<1>5. QED
  BY <1>3, <1>4 DEF Inv

\* Lemma: what executeRun does to its local state keeps the type.
LEMMA ExecUpdates ==
  ASSUME exec \in [Runs -> Exec], NEW r \in Runs, NEW pc \in ExecPcs,
         NEW rep \in Reports \cup {NoReport}, NEW b \in BOOLEAN
  PROVE  /\ [exec EXCEPT ![r].pc = pc] \in [Runs -> Exec]
         /\ [exec EXCEPT ![r].pc = pc, ![r].rep = rep] \in [Runs -> Exec]
         /\ [exec EXCEPT ![r].pc = pc, ![r].canceled = b] \in [Runs -> Exec]
<1>1. exec[r] \in Exec
  OBVIOUS
<1>2. /\ [exec[r] EXCEPT !.pc = pc] \in Exec
      /\ [exec[r] EXCEPT !.pc = pc, !.rep = rep] \in Exec
      /\ [exec[r] EXCEPT !.pc = pc, !.canceled = b] \in Exec
  BY <1>1 DEF Exec
<1>3. QED
  BY <1>2

\* Lemma: a step of an execution keeps the types and the maps.
LEMMA RegisteredExec ==
  ASSUME TypeOK, Registered, NEW r \in Runs,
         CreateAndGo(r) \/ ExecStep(r) \/ ContextEnds(r)
  PROVE  TypeOK' /\ Registered'
<1> USE DEF TypeOK, Registered, RegisteredPcs, Exec, ExecPcs, At, Goto,
            MapsUnchanged
<1>1. CASE CreateAndGo(r)
  BY <1>1, ZenonT(30) DEF CreateAndGo, CreateRun, Row, RunStatus
<1>2. CASE registerRunCancel(r)
  BY <1>2, SMTT(20) DEF registerRunCancel
<1>3. CASE StartRun(r)
  <2>1. MarkRunStarted(rows[r]) \in Row
    BY ReportTypes, RowOperations
  <2>2. QED
    BY <1>3, <2>1 DEF StartRun
<1>4. CASE ConfirmStarted(r)
  <2>1. PICK pc \in {"run", "abandon"} : exec' = [exec EXCEPT ![r].pc = pc]
    BY <1>4 DEF ConfirmStarted
  <2>2. exec' \in [Runs -> Exec]
    BY <2>1, ExecUpdates
  <2>3. QED
    BY <1>4, <2>1, <2>2 DEF ConfirmStarted
<1>5. CASE RunnerReturns(r)
  <2>1. PICK rep \in Reports \cup {NoReport} :
          exec' = [exec EXCEPT ![r].pc = "unregister", ![r].rep = rep]
    BY <1>5, ReportTypes DEF RunnerReturns
  <2>2. exec' \in [Runs -> Exec]
    <3> HIDE DEF Exec
    <3>1. "unregister" \in ExecPcs
      OBVIOUS
    <3>2. QED
      BY <2>1, <3>1, ExecUpdates
  <2>3. \A q \in Runs : exec'[q].pc \in {exec[q].pc, "unregister"}
    BY <2>1
  <2>4. QED
    BY <1>5, <2>2, <2>3 DEF RunnerReturns
<1>6. CASE Abandon(r)
  <2>1. exec' \in [Runs -> Exec]
    BY <1>6 DEF Abandon
  <2>2. Registered'
    BY <1>6 DEF Abandon, finishRunCancel
  <2>3. QED
    BY <1>6, <2>1, <2>2 DEF Abandon, finishRunCancel
<1>7. CASE Unregister(r)
  <2>1. exec' \in [Runs -> Exec]
    <3> HIDE DEF Exec
    <3>1. "finish" \in ExecPcs /\ (r \in cancelRequests) \in BOOLEAN
      OBVIOUS
    <3>2. QED
      BY <1>7, <3>1, ExecUpdates DEF Unregister
  <2>2. Registered'
    BY <1>7 DEF Unregister, finishRunCancel
  <2>3. QED
    BY <1>7, <2>1, <2>2 DEF Unregister, finishRunCancel
<1>8. CASE FinishRun(r)
  <2>1. rows' \in [Runs -> Row] /\ exec' \in [Runs -> Exec]
    BY <1>8, FinishedRowType DEF FinishRun
  <2>2. r \notin runCancels
    BY <1>8 DEF FinishRun
  <2>3. Registered'
    BY <1>8, <2>2 DEF FinishRun
  <2>4. QED
    BY <1>8, <2>1, <2>3 DEF FinishRun
<1>9. CASE ContextEnds(r)
  BY <1>9 DEF ContextEnds
<1>10. QED
  BY <1>1, <1>2, <1>3, <1>4, <1>5, <1>6, <1>7, <1>8, <1>9 DEF ExecStep

\* Lemma: a step of a cancel request does so too.
LEMMA RegisteredCancel ==
  ASSUME TypeOK, Registered, NEW c \in Cancellers,
         CancelLoad(c) \/ CancelStep(c)
  PROVE  TypeOK' /\ Registered'
<1> USE DEF TypeOK, Registered, CancelPcs, CancelAt, CancelGoto,
            MapsUnchanged
<1>1. CASE CancelLoad(c)
  BY <1>1 DEF CancelLoad, isCancelableRunStatus
<1>2. CASE RequestRunCancel(c)
  BY <1>2 DEF RequestRunCancel
<1>3. CASE requestRunCancel(c)
  BY <1>3 DEF requestRunCancel
<1>4. CASE StopContext(c)
  BY <1>4 DEF StopContext
<1>5. CASE CancelFinish(c)
  <2> DEFINE r == cancel[c].run
             row == CancelRun(rows[r], canceledReport("before"))
  <2>1. r \in Runs /\ rows[r] \in Row
    OBVIOUS
  <2>2. row \in Row
    BY <2>1, ReportTypes, RowOperations
  <2> HIDE DEF row
  <2>3. rows' = [rows EXCEPT ![r] = row]
    BY <1>5 DEF CancelFinish, row
  <2>4. QED
    BY <1>5, <2>1, <2>2, <2>3 DEF CancelFinish
<1>6. QED
  BY <1>1, <1>2, <1>3, <1>4, <1>5 DEF CancelStep

-----------------------------------------------------------------------------
(* Statuses, and the cancellations that win                                *)

\* A run that was asked to stop while it was registered: the wish is in the
\* map, or with the execution, or carried out.
Signaled(r) ==
  \/ r \in cancelRequests
  \/ exec[r].pc = "finish" /\ exec[r].canceled
  \/ rows[r].status = "canceled"

\* Lemma: what a step may do to one run; all others are left alone.
LEMMA StatusExec ==
  ASSUME Inv, NEW r \in Runs, NEW q \in Runs,
         CreateAndGo(q) \/ ExecStep(q) \/ ContextEnds(q)
  PROVE  /\ rows'[r].status \in StatusesAt(exec'[r].pc)
         /\ Signaled(r) => Signaled(r)'
<1> USE DEF Inv, TypeOK, Exec, At, Goto, MapsUnchanged, Signaled
<1>0. rows[r].status \in StatusesAt(exec[r].pc)
  BY DEF StatusFollows
<1>1. CASE r # q
  <2>1. /\ rows'[r] = rows[r] /\ exec'[r] = exec[r]
        /\ r \in cancelRequests => r \in cancelRequests'
    BY <1>1 DEF CreateAndGo, ExecStep, ContextEnds, registerRunCancel,
       StartRun, ConfirmStarted, RunnerReturns, Abandon, Unregister,
       FinishRun, finishRunCancel
  <2>2. QED
    BY <1>0, <2>1
<1>2. CASE r = q /\ CreateAndGo(r)
  BY <1>0, <1>2 DEF CreateAndGo, CreateRun, StatusesAt, Registered,
                    RegisteredPcs
<1>3. CASE r = q /\ registerRunCancel(r)
  BY <1>0, <1>3 DEF registerRunCancel, StatusesAt
<1>4. CASE r = q /\ StartRun(r)
  <2>1. MarkRunStarted(rows[r]).status =
          (IF isCancelableRunStatus(rows[r].status) THEN "running"
           ELSE rows[r].status)
    BY ReportTypes, RowOperations
  <2>2. QED
    BY <1>0, <1>4, <2>1 DEF StartRun, StatusesAt, isCancelableRunStatus
<1>5. CASE r = q /\ ConfirmStarted(r)
  BY <1>0, <1>5 DEF ConfirmStarted, StatusesAt
<1>6. CASE r = q /\ RunnerReturns(r)
  BY <1>0, <1>6 DEF RunnerReturns, StatusesAt
<1>7. CASE r = q /\ Abandon(r)
  BY <1>0, <1>7 DEF Abandon, finishRunCancel, StatusesAt, TerminalStatuses
<1>8. CASE r = q /\ Unregister(r)
  BY <1>0, <1>8 DEF Unregister, finishRunCancel, StatusesAt
<1>9. CASE r = q /\ FinishRun(r)
  <2>1. rows[r].status \in {"running", "canceled"}
    BY <1>0, <1>9 DEF FinishRun, StatusesAt
  <2>2. /\ FinishedRow(r).status \in TerminalStatuses
        /\ exec[r].canceled => FinishedRow(r).status = "canceled"
    BY <2>1, FinishedRowType
  <2>3. rows[r].status = "canceled" => FinishedRow(r).status = "canceled"
    BY DEF FinishedRow, CancelRun, CompleteRun, ErrorRun,
           finishRunWithReport, isCancelableRunStatus
  <2>4. rows'[r].status = FinishedRow(r).status /\ exec'[r].pc = "done"
    BY <1>9 DEF FinishRun
  <2>5. r \notin cancelRequests
    BY <1>9 DEF FinishRun, Registered, RegisteredPcs
  <2>6. QED
    BY <2>2, <2>3, <2>4, <2>5 DEF StatusesAt
<1>10. CASE r = q /\ ContextEnds(r)
  BY <1>0, <1>10 DEF ContextEnds
<1>11. QED
  BY <1>1, <1>2, <1>3, <1>4, <1>5, <1>6, <1>7, <1>8, <1>9, <1>10
  DEF ExecStep

\* Lemma: the same of a cancel request's step.
LEMMA StatusCancel ==
  ASSUME Inv, NEW r \in Runs, NEW c \in Cancellers,
         CancelLoad(c) \/ CancelStep(c)
  PROVE  /\ rows'[r].status \in StatusesAt(exec'[r].pc)
         /\ Signaled(r) => Signaled(r)'
<1> USE DEF Inv, TypeOK, CancelAt, CancelGoto, MapsUnchanged, Signaled
<1>0. rows[r].status \in StatusesAt(exec[r].pc)
  BY DEF StatusFollows
<1>1. CASE CancelFinish(c)
  <2> DEFINE q == cancel[c].run
             row == CancelRun(rows[q], canceledReport("before"))
  <2>1. /\ row.status = (IF isCancelableRunStatus(rows[q].status)
                         THEN "canceled" ELSE rows[q].status)
        /\ q \in Runs
    BY ReportTypes, RowOperations
  <2> HIDE DEF row
  <2>2. rows' = [rows EXCEPT ![q] = row]
    BY <1>1 DEF CancelFinish, row
  <2>3. \/ rows'[r].status = rows[r].status
        \/ /\ isCancelableRunStatus(rows[r].status)
           /\ rows'[r].status = "canceled"
    <3> HIDE DEF q
    <3>1. DOMAIN rows = Runs
      OBVIOUS
    <3>2. rows'[r] = IF r = q THEN row ELSE rows[r]
      BY <2>2, <3>1
    <3>3. QED
      BY <2>1, <3>2
  <2>4. rows'[r].status \in StatusesAt(exec[r].pc)
    BY <1>0, <2>3 DEF StatusesAt, isCancelableRunStatus, TerminalStatuses
  <2>5. QED
    BY <1>1, <2>3, <2>4 DEF CancelFinish, isCancelableRunStatus
<1>2. CASE ~CancelFinish(c)
  BY <1>0, <1>2 DEF CancelLoad, CancelStep, RequestRunCancel,
                    requestRunCancel, StopContext
<1>3. QED
  BY <1>1, <1>2

\* Lemma: every step keeps the invariant and the wishes to cancel.
LEMMA InvNext ==
  ASSUME Inv, [Next]_vars
  PROVE  Inv' /\ (\A r \in Runs : Signaled(r) => Signaled(r)')
<1>1. CASE UNCHANGED vars
  BY <1>1 DEF vars, Inv, TypeOK, Registered, StatusFollows, Signaled
<1>2. CASE Next
  <2>1. TypeOK' /\ Registered'
    BY <1>2, RegisteredExec, RegisteredCancel DEF Next, Inv
  <2>2. \A r \in Runs : /\ rows'[r].status \in StatusesAt(exec'[r].pc)
                        /\ Signaled(r) => Signaled(r)'
    BY <1>2, StatusExec, StatusCancel DEF Next
  <2>3. QED
    BY <2>1, <2>2 DEF Inv, StatusFollows
<1>3. QED
  BY <1>1, <1>2

\* Theorem: the variables have their types, for every number of runs and of
\* cancel requests.
THEOREM TypeCorrect == Spec => []TypeOK
<1>1. Inv => TypeOK
  BY DEF Inv
<1>2. QED
  BY <1>1, InvInit, InvNext, PTL DEF Spec

\* Theorem: neither map keeps a run whose execution has returned, although
\* cancelRun and executeRun meet in them at any moment.
THEOREM MapsForget == Spec => []RegistryForgets
<1>1. Inv => RegistryForgets
  BY DEF Inv, Registered, RegistryForgets, RegisteredPcs
<1>2. QED
  BY <1>1, InvInit, InvNext, PTL DEF Spec

\* Theorem: a cancellation that finds the execution registered wins over
\* whatever the runner returns.
THEOREM SignalWins == Spec => SignaledRunsEndCanceled
<1> SUFFICES ASSUME NEW r \in Runs
             PROVE  Spec => [](r \in cancelRequests =>
                      [](Terminal(r) => rows[r].status = "canceled"))
  BY DEF SignaledRunsEndCanceled
<1>1. r \in cancelRequests => Signaled(r)
  BY DEF Signaled
<1>2. Inv /\ Signaled(r) => (Terminal(r) => rows[r].status = "canceled")
  BY DEF Inv, TypeOK, Registered, RegisteredPcs, StatusFollows, StatusesAt,
         Signaled, Terminal, isTerminalRunStatus, TerminalStatuses
<1>3. Inv /\ [Next]_vars => Inv' /\ (Signaled(r) => Signaled(r)')
  BY InvNext
<1>4. QED
  BY <1>1, <1>2, <1>3, InvInit, PTL DEF Spec

-----------------------------------------------------------------------------
(* How a status changes                                                    *)

\* The steps of a status that RunLifecycle allows, and standing still.
StatusStep(s, next) ==
  \/ next = s
  \/ s = "absent" /\ next = "queued"
  \/ isCancelableRunStatus(s) /\ next = "running"
  \/ s = "running" /\ next \in TerminalStatuses
  \/ s = "queued" /\ next = "canceled"

\* One run's row makes such a step.
RowStep(r) ==
  /\ rows' = [rows EXCEPT ![r] = rows'[r]]
  /\ StatusStep(rows[r].status, rows'[r].status)
  /\ UNCHANGED requested

\* Lemma: a step of an execution changes no row but its own, and that one as
\* the lifecycle allows; it requests no cancellation.
LEMMA RowExec ==
  ASSUME Inv, NEW r \in Runs,
         CreateAndGo(r) \/ ExecStep(r) \/ ContextEnds(r)
  PROVE  RowStep(r)
<1> USE DEF Inv, TypeOK, At, RowStep
<1>0. rows[r].status \in StatusesAt(exec[r].pc)
  BY DEF StatusFollows
<1>1. CASE CreateAndGo(r)
  BY <1>0, <1>1 DEF CreateAndGo, CreateRun, StatusesAt, StatusStep
<1>2. CASE StartRun(r)
  <2>1. MarkRunStarted(rows[r]).status =
          (IF isCancelableRunStatus(rows[r].status) THEN "running"
           ELSE rows[r].status)
    BY ReportTypes, RowOperations
  <2>2. QED
    BY <1>2, <2>1 DEF StartRun, StatusStep
<1>3. CASE FinishRun(r)
  <2>1. rows[r].status \in {"running", "canceled"}
    BY <1>0, <1>3 DEF FinishRun, StatusesAt
  <2>2. FinishedRow(r).status \in TerminalStatuses
    BY <2>1, FinishedRowType
  <2>3. rows[r].status = "canceled" => FinishedRow(r).status = "canceled"
    BY DEF FinishedRow, CancelRun, CompleteRun, ErrorRun,
           finishRunWithReport, isCancelableRunStatus
  <2>4. rows' = [rows EXCEPT ![r] = FinishedRow(r)] /\ UNCHANGED requested
    BY <1>3 DEF FinishRun
  <2>5. QED
    BY <2>1, <2>2, <2>3, <2>4 DEF StatusStep
<1>4. CASE UNCHANGED <<rows, requested>>
  BY <1>4 DEF StatusStep
<1>5. QED
  BY <1>1, <1>2, <1>3, <1>4 DEF ExecStep, ContextEnds, registerRunCancel,
     ConfirmStarted, RunnerReturns, Abandon, Unregister

\* Lemma: a cancel request changes a row only when it finishes the run itself.
LEMMA RowCancel ==
  ASSUME Inv, NEW c \in Cancellers, CancelFinish(c)
  PROVE  RowStep(cancel[c].run)
<1> DEFINE r == cancel[c].run
           row == CancelRun(rows[r], canceledReport("before"))
<1>1. r \in Runs /\ rows \in [Runs -> Row]
  BY DEF Inv, TypeOK
<1>2. row.status = (IF isCancelableRunStatus(rows[r].status)
                    THEN "canceled" ELSE rows[r].status)
  BY <1>1, ReportTypes, RowOperations
<1>3. rows' = [rows EXCEPT ![r] = row] /\ UNCHANGED requested
  BY DEF CancelFinish
<1> HIDE DEF r, row
<1>4. rows'[r] = row /\ rows' = [rows EXCEPT ![r] = rows'[r]]
  BY <1>1, <1>3
<1>5. StatusStep(rows[r].status, row.status)
  BY <1>2 DEF StatusStep, isCancelableRunStatus, TerminalStatuses
<1>6. RowStep(r)
  BY <1>3, <1>4, <1>5 DEF RowStep
<1>7. QED
  BY <1>6 DEF r

\* Lemma: every step is a step of one row, or leaves all rows alone.
LEMMA RowSteps ==
  ASSUME Inv, Next
  PROVE  (\E r \in Runs : RowStep(r)) \/ UNCHANGED rows
<1>1. ASSUME NEW c \in Cancellers, CancelFinish(c)
      PROVE  \E r \in Runs : RowStep(r)
  <2>1. cancel[c].run \in Runs
    BY DEF Inv, TypeOK
  <2>2. QED
    BY <1>1, <2>1, RowCancel
<1>2. ASSUME NEW c \in Cancellers, CancelLoad(c) \/ CancelStep(c),
             ~CancelFinish(c)
      PROVE  UNCHANGED rows
  BY <1>2 DEF CancelLoad, CancelStep, RequestRunCancel, requestRunCancel,
              StopContext
<1>3. QED
  BY <1>1, <1>2, RowExec DEF Next

\* Lemma: a run that exists goes on existing, and keeps its outcome.
LEMMA StatusKept ==
  ASSUME Inv, Next, NEW r \in Runs
  PROVE  /\ rows[r].status # "absent" => rows'[r].status # "absent"
         /\ Terminal(r) => rows'[r].status = rows[r].status
<1>1. StatusStep(rows[r].status, rows'[r].status)
  <2>1. CASE UNCHANGED rows
    BY <2>1 DEF StatusStep
  <2>2. ASSUME NEW q \in Runs, RowStep(q)
        PROVE  StatusStep(rows[r].status, rows'[r].status)
    BY <2>2 DEF RowStep, StatusStep, Inv, TypeOK
  <2>3. QED
    BY <2>1, <2>2, RowSteps
<1>2. QED
  BY <1>1 DEF StatusStep, Terminal, isTerminalRunStatus, TerminalStatuses,
              isCancelableRunStatus

-----------------------------------------------------------------------------
(* Cancellations of queued runs                                            *)

\* QueuedCancelSettles needs to know that a request has found its run: only
\* of a run that exists does CancelRun make one that is over.
Settled(c) ==
  LET r == cancel[c].run IN
  /\ cancel[c].pc # "idle" => rows[r].status # "absent"
  /\ cancel[c].pc = "accepted" /\ cancel[c].seen = "queued" =>
       Terminal(r) \/ r \in stopped

\* Lemma: no step forgets a request for a queued run.
LEMMA SettledStep ==
  ASSUME Inv, Next, NEW c \in Cancellers, Settled(c)
  PROVE  Settled(c)'
<1> DEFINE r == cancel[c].run
<1>1. r \in Runs /\ cancel \in [Cancellers -> CancelType]
  BY DEF Inv, TypeOK, CancelType
<1>2. /\ rows[r].status # "absent" => rows'[r].status # "absent"
      /\ Terminal(r) => rows'[r].status = rows[r].status
  BY <1>1, StatusKept
<1>3. stopped \subseteq stopped'
  BY DEF Next, CreateAndGo, ExecStep, ContextEnds, registerRunCancel,
     StartRun, ConfirmStarted, RunnerReturns, Abandon, Unregister, FinishRun,
     CancelLoad, CancelStep, RequestRunCancel, requestRunCancel, StopContext,
     CancelFinish
<1>4. CASE cancel'[c] = cancel[c]
  BY <1>2, <1>3, <1>4 DEF Settled, Terminal
<1>5. ASSUME NEW d \in Cancellers, CancelLoad(d) \/ CancelStep(d),
             cancel'[c] # cancel[c]
      PROVE  d = c
  BY <1>1, <1>5 DEF CancelLoad, CancelStep, RequestRunCancel,
     requestRunCancel, StopContext, CancelFinish, CancelGoto, CancelType
<1>6. CASE CancelLoad(c)
  <2>1. rows' = rows /\ rows[r].status # "absent"
    BY <1>6 DEF CancelLoad
  <2>2. cancel'[c].run = r /\ cancel'[c].pc # "accepted"
    BY <1>1, <1>6 DEF CancelLoad, CancelGoto, CancelType
  <2>3. QED
    BY <2>1, <2>2 DEF Settled
<1>7. CASE RequestRunCancel(c) \/ requestRunCancel(c)
  <2>1. /\ rows' = rows /\ cancel[c].pc # "idle"
    BY <1>7 DEF RequestRunCancel, requestRunCancel, CancelAt
  <2>2. /\ cancel'[c].run = r /\ cancel'[c].seen = cancel[c].seen
        /\ cancel'[c].pc = "accepted" => cancel[c].seen # "queued"
    BY <1>1, <1>7 DEF RequestRunCancel, requestRunCancel, CancelGoto,
                      CancelType
  <2>3. QED
    BY <2>1, <2>2 DEF Settled
<1>8. CASE StopContext(c)
  <2>1. rows' = rows /\ cancel[c].pc # "idle" /\ r \in stopped'
    BY <1>8 DEF StopContext, CancelAt
  <2>2. cancel'[c].run = r
    BY <1>1, <1>8 DEF StopContext, CancelGoto, CancelType
  <2>3. QED
    BY <2>1, <2>2 DEF Settled
<1>9. CASE CancelFinish(c)
  <2>1. rows[r] \in Row /\ rows[r].status # "absent"
    BY <1>1, <1>9 DEF CancelFinish, CancelAt, Settled, Inv, TypeOK
  <2>2. CancelRun(rows[r], canceledReport("before")).status
          \in TerminalStatuses
    BY <2>1, ReportTypes, RowOperations
    DEF Row, RunStatus, isCancelableRunStatus, TerminalStatuses
  <2>3. rows'[r].status \in TerminalStatuses
    BY <1>1, <1>9, <2>2 DEF CancelFinish, Inv, TypeOK
  <2>4. cancel'[c].run = r
    BY <1>1, <1>9 DEF CancelFinish, CancelGoto, CancelType
  <2>5. QED
    BY <2>3, <2>4 DEF Settled, Terminal, isTerminalRunStatus,
                      TerminalStatuses
<1>10. CASE \E q \in Runs : CreateAndGo(q) \/ ExecStep(q) \/ ContextEnds(q)
  <2>1. cancel' = cancel
    BY <1>10 DEF CreateAndGo, ExecStep, ContextEnds, registerRunCancel,
       StartRun, ConfirmStarted, RunnerReturns, Abandon, Unregister,
       FinishRun
  <2>2. QED
    BY <1>4, <2>1
<1>11. QED
  BY <1>4, <1>5, <1>6, <1>7, <1>8, <1>9, <1>10 DEF Next, CancelStep

\* Theorem: a cancellation of a queued run is not dropped between the two
\* maps and the store, however many requests race the start of the run: once
\* it is accepted, the run or its context is over.
THEOREM QueuedCancelsSettle == Spec => []QueuedCancelSettles
<1> DEFINE AllSettled == \A c \in Cancellers : Settled(c)
<1>1. Init => AllSettled
  BY DEF Init, Settled
<1>2. Inv /\ AllSettled /\ [Next]_vars => AllSettled'
  <2> SUFFICES ASSUME Inv, AllSettled, [Next]_vars,
                      NEW c \in Cancellers
               PROVE  Settled(c)'
    OBVIOUS
  <2>1. CASE UNCHANGED vars
    BY <2>1 DEF vars, Settled, Terminal
  <2>2. CASE Next
    BY <2>2, SettledStep
  <2>3. QED
    BY <2>1, <2>2
<1>3. AllSettled => QueuedCancelSettles
  BY DEF Settled, QueuedCancelSettles
<1>4. QED
  BY <1>1, <1>2, <1>3, InvInit, InvNext, PTL DEF Spec

-----------------------------------------------------------------------------
(* InProcessRun implements RunLifecycle.                                   *)

\* Lemma: every step is a step of the lifecycle, or none that it can see.
LEMMA LifecycleStep ==
  Inv /\ [Next]_vars => [Lifecycle!Next]_(Lifecycle!lifecycleVars)
<1> SUFFICES ASSUME Inv, [Next]_vars
             PROVE  [Lifecycle!Next]_(Lifecycle!lifecycleVars)
  OBVIOUS
<1> DEFINE status == [q \in Runs |-> rows[q].status]
           wanted == [q \in Runs |-> q \in requested]
<1> USE DEF Lifecycle!lifecycleVars
<1>0. rows \in [Runs -> Row]
  BY DEF Inv, TypeOK
<1>1. CASE UNCHANGED vars
  BY <1>1 DEF vars
<1>2. ASSUME NEW c \in Cancellers, RequestRunCancel(c)
      PROVE  \/ status' = status /\ wanted' = wanted
             \/ Lifecycle!Next
  <2>0. PICK r \in Runs : r = cancel[c].run
    BY DEF Inv, TypeOK
  <2>1. status' = status
    BY <1>2 DEF RequestRunCancel
  <2>2. CASE requested' = requested
    BY <2>1, <2>2
  <2>3. CASE requested' # requested
    <3>1. /\ isCancelableRunStatus(rows[r].status)
          /\ requested' = requested \cup {r}
      BY <1>2, <2>0, <2>3 DEF RequestRunCancel
    <3>2. wanted' = [wanted EXCEPT ![r] = TRUE]
      <4>1. \A q \in Runs : /\ (r \in requested') = TRUE
                            /\ q # r => (q \in requested') = (q \in requested)
        BY <3>1
      <4>2. \A q \in Runs :
              wanted'[q] = [wanted EXCEPT ![r] = TRUE][q]
        BY <4>1, Zenon
      <4>3. QED
        BY <4>2
    <3>3. Lifecycle!RequestCancel(r)
      BY <2>1, <3>1, <3>2 DEF Lifecycle!RequestCancel,
        isCancelableRunStatus, Lifecycle!isCancelableRunStatus
    <3>4. QED
      BY <2>1, <3>3 DEF Lifecycle!Next
  <2>4. QED
    BY <2>2, <2>3
<1>3. ASSUME NEW r \in Runs, RowStep(r)
      PROVE  \/ status' = status /\ wanted' = wanted
             \/ Lifecycle!Next
  <2>1. wanted' = wanted
    BY <1>3 DEF RowStep
  <2>2. status' = [status EXCEPT ![r] = rows'[r].status]
    BY <1>0, <1>3 DEF RowStep
  <2>3. CASE rows'[r].status = rows[r].status
    BY <2>1, <2>2, <2>3
  <2>4. CASE rows'[r].status # rows[r].status
    <3>1. Lifecycle!Create(r) \/ Lifecycle!Start(r) \/ Lifecycle!Finish(r)
      BY <1>3, <2>1, <2>2, <2>4
      DEF RowStep, StatusStep, Lifecycle!Create, Lifecycle!Start,
        Lifecycle!Finish, isCancelableRunStatus,
        Lifecycle!isCancelableRunStatus, TerminalStatuses,
        Lifecycle!TerminalStatuses
    <3>2. QED
      BY <3>1 DEF Lifecycle!Next
  <2>5. QED
    BY <2>3, <2>4
<1>4. ASSUME Next, UNCHANGED rows,
             \A c \in Cancellers : ~RequestRunCancel(c)
      PROVE  status' = status /\ wanted' = wanted
  <2>1. requested' = requested
    BY <1>4 DEF Next, CreateAndGo, ExecStep, ContextEnds, registerRunCancel,
       StartRun, ConfirmStarted, RunnerReturns, Abandon, Unregister,
       FinishRun, CancelLoad, CancelStep, requestRunCancel, StopContext,
       CancelFinish
  <2>2. QED
    BY <1>4, <2>1
<1>5. QED
  BY <1>1, <1>2, <1>3, <1>4, RowSteps

\* Theorem: the deployment without a queue implements the lifecycle too: each
\* run is created once, its outcome is final whoever gives it, a verdict of
\* traffic is given to a running run only, and a request is never forgotten.
THEOREM ImplementsLifecycle == Spec => LifecycleSpec
<1>1. Init => Lifecycle!Init
  <2> SUFFICES ASSUME Init PROVE Lifecycle!Init
    OBVIOUS
  <2>1. \A r \in Runs : rows[r].status = "absent"
    BY DEF Init, NoRow
  <2>2. \A r \in Runs : (r \in requested) = FALSE
    BY DEF Init
  <2>3. QED
    BY <2>1, <2>2, Zenon DEF Lifecycle!Init
<1>2. QED
  BY <1>1, LifecycleStep, InvInit, InvNext, PTL
  DEF Spec, LifecycleSpec, Lifecycle!Spec
=============================================================================
