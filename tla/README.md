# Wreckr, verified

Wreckr runs resilience scenarios against HTTP APIs: a client posts a run, a
worker sends its traffic, and the run ends with a verdict and a report. This
directory holds TLA+ models of the program, the TLC runs that check them on
small instances, and theorems that TLAPS proves for every instance.
`PROJECT.json` says, definition by definition, which lines of `src/` a model
stands for.

    tlc -workers 2 -config MCRunControl_control.cfg MCRunControl
    tlapm RunControlProofs.tla

## 1. The system

Paths are under `src/apps/api/internal/` unless they say otherwise.

| component | code | state it keeps | operations |
|---|---|---|---|
| run records | `store/memory.go`, `store/postgres.go` | row, report and timeline of each run | CreateRun, MarkRunStarted, CompleteRun, CancelRun, ErrorRun, RequestRunCancel, AppendRunEvent |
| run endpoints | `httpapi/server.go` | one goroutine per request | create, cancel, read, report, events, stream |
| run queue | `runqueue/asynq.go`, Asynq, Redis | one task per run, with its retry count | enqueue, deliver, retry, archive, recover |
| worker | `worker/worker.go`, `cmd/worker` | one delivery at a time | handleRunExecute, HandleError |
| executor | `runexec/executor.go` | the attempt's local state, the monitor's flag | Execute, monitorCancellation, uploadReport |
| blob store | `blob/` | `runs/<id>/report.json` | Put, Get |
| in-process execution | `httpapi/server.go` | two maps under `cancelMu` | executeRun, cancelRun, requestRunCancel, finishRunCancel |
| event log | `store/postgres.go`, migrations | `run_events` with a number per run, locks | appendRunEvent, RequestRunCancel, finishRunWithReport |
| event stream | `httpapi/server.go`, `src/apps/web/components/run-console.tsx` | `lastSequence` of a handler, `Last-Event-ID` of a browser | streamRunEvents, EventSource |
| catalog | `httpapi/server.go`, `store/postgres.go` | targets, scenarios, their versions | create, update, delete; the references a run takes |
| scenario runner | `runner/runner.go` | goroutines, collector, limiter | hooks, runParallel, runRace, checks |
| reports | `report/report.go` | none | Build, Summarize, percentile |
| k6 runner | `runner/k6_runner.go`, `k6script/` | an external process and the summary it leaves | Compile, RunWithOptions, reconstructRecords, parseThresholds |
| scenario schema, guardrails | `scenario/`, `guardrails/` | none; environment and limits of the process | WithEnv, Normalized, Validate; guardrails.Validate |
| configuration, commands, console forms | `config/`, `cmd/`, `src/apps/web` | environment, flags, forms | start up, render |

How they interact. The API inserts a run and puts a task into Redis; a worker
takes the task and calls `Execute`, which talks to the store only: it marks the
run as started, runs the scenario, polls the store for a cancellation, uploads
the report and records the outcome. The cancel endpoint never reaches a worker
directly; it leaves an event in the run's timeline. Without a queue
(`httpapi.New`, which the tests use; `cmd/api` always has the queue) the same
handlers start `executeRun` in their own process and share two maps with it.
Consoles follow the timeline over server-sent events. A scenario is expanded,
completed and checked by the endpoint that saves it, by the one that makes a run
of it, and by the worker, which runs it with the Go engine or, when
`WRECKR_RUNNER_ENGINE` is `k6`, compiles it for k6 and imports what k6 counted.

What is hard here. Asynq gives up on a delivery whose deadline or lease is over
while its goroutine goes on, so executions of one run overlap. Every handler is
several store calls with other handlers in between. Postgres writes a status and
the event that tells of it in two transactions. Processes die between any two
calls, store calls fail without their callers noticing or succeed although they
report a failure, connections break with events on their way, and environment,
limits and targets change between the moments a scenario is checked. `PROJECT.json` lists each of these as a hazard, at its
line.

What makes each part correct:

* run records: one outcome, final, with the report that belongs to it;
* queue, worker, executor: accepted runs finish; only faults leave one behind, or
  its outcome untold; retries are used for faults only; a dead letter is final;
* cancellation: one that is recorded in time wins over every execution, those
  of retries too, and is recorded once;
* event log: numbered without a gap, in the order of commits;
* event stream: in order, complete, and it ends;
* catalog: a numbered history whose pointer is at the latest, and references
  that exist;
* admission: what is sent is what was accepted, within the limits of that moment;
  what could be saved can be run;
* runner: everything planned is sent, once and in order, between the hooks; the
  pool returns;
* k6 engine and reports: the same traffic and the same verdict as the Go engine's;
  a limit on a percentile that bounds a number of records.

## 2. The modules

| module | what it is |
|---|---|
| `RunRecord` | a run's row and the store's operations on it, as functions from row to row |
| `RunLifecycle` | abstract: what the run endpoints promise about status and cancellation |
| `RunControl` | the queued deployment: endpoints, queue, worker, executor, store, blob store |
| `InProcessRun` | the deployment without a queue |
| `Timeline` | abstract: what the events endpoint promises |
| `EventLog` | the Postgres transactions behind a timeline, statement by statement |
| `EventStream` | the stream handler, the console, and the connection between them |
| `Catalog` | targets, scenario versions, and the references of a run |
| `Runner` | hooks, goroutine pool, races, limiter, checks and verdict |
| `Admission` | targets, saved scenarios and runs: templates, defaults, validation, guardrails, and the worker's second look |
| `Report` | summaries, percentiles, checks and verdict, as operators on a list of records without its order |
| `K6Run` | the compiled script as k6 runs it, and the import of its summary |
| `RunControlProofs` | theorems about `RunControl`: types, reports, `RunLifecycle` implemented; deliveries, outcomes and who tells of them, cancellations |
| `InProcessRunProofs`, `EventLogProofs`, `EventStreamProofs`, `CatalogProofs`, `RunnerProofs`, `AdmissionProofs` | theorems about the module of that name |
| `K6RunProofs` | theorems about `K6Run` and `Report` |
| `MC...` | what the `.cfg` files are checked with |

`RunControl` and `InProcessRun` both extend `RunRecord` and both implement
`RunLifecycle`; `K6Run` extends `Report`; `EventLog` implements `Timeline`, and `EventStream` reads a
timeline that grows as `Timeline` says. Names with an ending that says what is
wrong with them (`...Unguarded`, `...Skipped`, `...Early`, `...Plain`) are
plausible bugs in the definition that follows them: each property fails with
the bug that `PROJECT.json` pairs it with.

### RunControl

`rows[r]` is the row with its report, `events[r]` counts the events of each
type, `blob[r]` is the blob copy of the report, `task[r]` the Asynq task,
`att[r][k]` the execution that belongs to the k-th delivery, `create[r]` and
`cancel[c]` where a request's goroutine is. An action is one call that someone
else can observe.

| code | actions |
|---|---|
| `createRun` | CreateRunRow, QueuedEvent, EnqueueRun or EnqueueRunFails, RecordEnqueueError, EnqueueErrorEvent; EnqueueEmptyRun or EnqueueEmptyRunFails after an insert that failed |
| `cancelRun` | CancelLoad, RequestRunCancel, CancelFinish, CanceledEvent |
| `Execute` | LoadRun, CheckCancel, StartRun, StartedEvent, ConfirmStarted, RunnerReturns, Decide, UploadReport, FinishRun, FinishedEvent; MonitorCancel is the ticker's goroutine |
| Asynq, `HandleError` | handleRunExecute, TaskSucceeded, AttemptFailed, HandleError, RetryOrArchive, LeaseRecovered |
| faults | APICrash, WorkerCrash, WorkerShutdown, AttemptAbandoned, and any store call (`StoreCall`) |

`HandleError` runs before Asynq counts the retry, so "failing" (its first event
is written), "settling" (its second is) and the move to "pending" or "archived"
are separate states. The handler that `cmd/worker` registers is a
different object from the one whose `HandleError` Asynq calls; only the second
has an event store, so no action writes `worker_attempt_started`.

A store call that fails leaves its caller to go on as the code does: a failed
read looks like "not found" or "not requested", a failed `CompleteRun` like
success. A write that fails may have been committed all the same, its answer
being lost (`StoreWrite(done, told)`): the row changes and the caller takes the
path of a failure.

`slips[r]` is no state of the program. It remembers which step of which call went
wrong for run `r`: its insert, the `ErrorRun` after a failed enqueue, its start or
the confirmation of it, the write of its outcome, and an outcome that the goroutine
which won it could not tell of, because it died first, its event was lost, or it
was told that its write had failed. The properties about runs left behind and
outcomes untold are excused by the slip in question and by no other fault.

`WorkerShutdown` is one step: Asynq pushes the tasks back and the process ends.
Between the two the execution may go on for a moment, as it does after
AttemptAbandoned; what it would write then is what an abandoned execution writes.

### InProcessRun

Every section under a mutex is an action: of the memory store, which changes
status and timeline together, or of `cancelMu`. `runCancels` and
`cancelRequests` are the keys of the two maps, `stopped` the runs whose context
is over. `executeRun` is registerRunCancel, StartRun, ConfirmStarted,
RunnerReturns (or Abandon), Unregister, FinishRun.

### EventLog

Each of `appendRunEvent`, `RequestRunCancel` and `finishRunWithReport` is a
sequence of statements with Postgres's locks: the advisory lock on the run,
`FOR UPDATE` and the update's lock on the row, the foreign key's share lock, and
the wait for an uncommitted number in the UNIQUE index. A transaction in a cycle
of waiters can be made the victim; any can run into `storeContext`'s five
seconds. `finished` hides which of the outcomes it was.

### EventStream

The handler is `list`, `send`, `check`, `wait`; the browser is `fetch`,
`connect`, `open`, `done`, with what is on its way in `wire`. Both stores are
modelled: the memory store shows status and event together, Postgres the status
first, and it may lose the event. The console does not listen to the worker's
events, and it closes the stream when it gets an event that tells of an outcome.
A read of Postgres may fail, `MaxReadFaults` times: `GetRun` before the events or
the stream, which is answered 404, after which the EventSource gives up for good
(`refused`); `ListRunEvents`, which then shows none or the first of them; `GetRun`
in the loop, which ends the handler.

### Catalog

A definition is named by the request that brought it. Single statements are
atomic; `UpdateScenario` reads the maximum, inserts and commits in three steps,
a second insert of one number waits for the first and then fails, and
`createRun` reads the scenario, resolves the target and inserts the run in three
steps. Deleting a target clears the runs' references (ON DELETE SET NULL).

### Runner

`RunWithOptions` is `setup`, `dispatch`, `join`, `checks`, `teardown`, `done`.
`runParallel` hands iterations to workers over an unbuffered channel; `runRace`
lets all racers loose on one request. The context may end at any moment, and
where a `select` has two ready cases either may be taken. Load, burst and spike
share their code and are one mode. A hook may still try a request when the context
is over, because the limiter's `select` may take the tick; it fails. A response is a
record with or without an error; what a probe, a count or a threshold makes of the
records is left open here (`Report` and `K6Run` have it).

### Admission

A text stands for a string; constants say what the code finds out about it:
what `os.ExpandEnv` makes of it in a process, what `url.Parse` sees in it, how
long it is, and for a JSON text what a JSONB column makes of it (`Jsonb`, any
function on JSON texts: the memory store's is the identity). A scenario keeps the
fields some check looks at; `checksOK` stands for the others. `Stored` is what is
read back: `definition` and `scenario_snapshot` are JSONB, so JSON bodies come back
with other spaces and escapes, their keys in another order and none of them twice. A host name is the sequence of its labels from the right, so
that a wildcard entry of the allowlist is a prefix. The endpoints' reads and
writes of the store are steps of their own, so a target can change between
them. `Restart` gives the API other limits and another environment; the worker
has its own environment and no limits. `LeftToExpand` is the case in which the
worker's expansion has something to do: the value of a variable was itself a
template, or JSONB shows a `$` that was escaped in what was accepted.

### Report and K6Run

Records are a function on a finite set, which is a list but for its order;
durations are whole milliseconds, percentiles and rates hundredths, where the
code's interpolation is exact. The responses of a script are a set in which those
that look alike are numbered, so that every count of the code is the size of a
set. Requests may share a name, and then share k6's counters. `K6Run` executes the
script that `Compile` writes: setup, iterations that the VUs share, teardown,
with a check per response. k6 itself is external and is what the script and the
importer rely on; the form of the summary is the one of `k6_runner_test.go`. A
request without `expect.status` is compiled with `expected_statuses: null`, and
its check throws. The summary may be missing, because k6 was killed, could not
start or refused its options. `GoVerdict` and `GoSends` are what
`runner/runner.go` makes of the same scenario and the same responses.

## 3. What TLC checks

Times are minutes and seconds with two workers.

| run | instance | states | time | shows |
|---|---|---|---|---|
| `control` | one run, one cancel request, one retry, one fault, one failing or ambiguous store call | 537,169 | 1:10 | `TypeOK`. `TerminalEventsAgree`, `ReportMatchesStatus`: one outcome, told as it is, with its report. `OnlyFaultsLeaveRunsBehind`, `OutcomeTold`: what is missing at the end is missing because of a fault of the very step that should have seen to it. `DeadLetterIsFinal`, `RetriesAreFaults`: Asynq's bookkeeping and the run's agree. `CancelWins`, `NoTrafficAfterCancel`: what a recorded cancellation guarantees. `LifecycleSpec`: `RunLifecycle` is implemented |
| `live` | the same with a working store | 75,091 | 0:12 | `AcceptedRunsFinish`, `AcceptedCancelSettles` |
| `timeline` | two events, two cancel requests, one outcome, one timeout | 10,284 | 0:06 | `TimelineSpec`: the committed rows implement `Timeline`. `NumbersAreFree`, `OneRequest`, `OutcomeNeverVictim`: what the locks are for. `CallsReturn` |
| `stream` | four events, two broken connections, two failing reads | 297,598 | 0:38 | `StreamsInOrder`, `ShownComplete`, `OutcomeReachesReaders`, `StreamsEnd` |
| `versions` | one scenario, three updates, one target, one run | 80,220 | 0:03 | `HistoryIsNumbered`, `CurrentIsLatest`, `RunReferences` |
| `inprocess` | one run, three cancel requests | 40,802 | 0:09 | `LifecycleSpec`, `RegistryForgets`, `QueuedCancelSettles`, `SignaledRunsEndCanceled`, `RunsFinish` |
| `traffic` | two goroutines, three iterations of two requests, two attempts, two setup requests | 568,692 | 0:55 | `SentInOrder`, `SentCompletely`, `StopsPromptly`, `HooksAroundTraffic`, `Returns` |
| `admission` | one target, one save, one run, one restart; eighteen texts, two environments, five sets of limits | 1,355,156 | 1:26 | `SentWithinLimits`, `AcceptedIsExecuted`, `SavedScenariosRun` |
| `k6` | six scenarios of up to four responses, five statuses, three durations | 819,684 | 1:03 | `K6SendsPlan`, `EnginesAgree`, `RankGuaranteed` |
| `served`, `log_persisted`, `stopped` | the smallest that shows it | | | section 5 |

All runs but `k6` say `CHECK_DEADLOCK FALSE`: these systems stop when their
requests are answered and their faults are used up. Where stopping too early is a
hazard, a liveness property says so.

**Bounds.** Runs share no state in `RunControl` and `InProcessRun`, so one is
enough, and a scenario's history concerns one scenario. One retry makes two
deliveries, the least that overlap; a fault plus a failing store call exhausts
them, which is what a dead letter needs. Two cancel requests are the least that
race each other: `timeline` and `inprocess` have two and three. In `control` a
cancel request races the worker, which also finishes runs as canceled. Two
broken connections let a reader resume from a resumed stream, and two failing reads
let one come after another. Three updates let
a third come after one has won and one has lost. More iterations than workers
let the dispatcher find all workers gone. `MaxEdits` only keeps the revisions of
a target finite. In `admission` one restart is the least that puts other limits
between a save and a run, and a run's endpoint and the worker share nothing with
those of another run; the environments bring in a variable, and the JSON bodies
are one that outgrows the limit in the store and one that shows a `$` there. In `k6` the statuses are one of each kind: no answer, one
that is counted only when expected, one that is always counted, a server error,
and a server error that nobody counts; four records put the 50th, 95th and 99th
percentile between two durations.

**Fairness.** Weak, for what is on its way: a goroutine goes on (store calls
end after five seconds, the runner's context has a deadline, the HTTP client a
timeout, a ticker ticks), Asynq polls its queue and recovers expired leases,
Postgres grants a free lock and breaks a deadlock, the browser delivers and
reconnects. Clients owe nothing, the cancellation monitor may miss every tick,
contexts and connections need not end, and no fault has to happen. In `live`
there are fewer faults than deliveries and the store works; section 6 says what
happens otherwise.

## 4. What is proved

TLAPS proves every invariant and every refinement that the passing runs check, and
the action and cancellation properties with them: for any sets of runs, requests,
readers, targets, scenarios, updates, statuses and durations, any sizes of a
scenario, and any number of retries, faults and broken connections. Each theorem follows
from an inductive invariant. The property itself is hardly ever inductive; what
has to be added is what an actor has read or locked and still relies on.

### RunControl

From `RunControlAssumption`: the bounds on retries, faults and store faults are
natural numbers.

* `TypeCorrect`. `TypeOK` alone is not inductive: an execution that is about to
  finish must have a report to finish with. `TypeInv` adds that as `ReportReady`.
* `ReportsMatch` (`ReportMatchesStatus`) and `ImplementsLifecycle`
  (`LifecycleSpec`). `SafetyInv` has three parts. `NewIsAbsent`: before its
  creation a run has no row, so that `CreateRun` is a step from "absent".
  `StartedBeforeVerdict`: an execution that is in its traffic, or means to record
  its verdict, belongs to a run that is past "queued"; a row never goes back, so
  what the execution has learnt stays true however many others there are.
  `ReportMatchesStatus` itself. The lemma `OperationsAreGood` says what each store
  operation does to one row, `RowSteps` that every step of the system is such an
  operation on one row or leaves all rows alone, and the refinement follows from
  the two, with `EventSteps` for the cancellation's mark.
* `DeadLettersAreFinal`, `RetriesNeedFaults` and `NoRunLeftBehind`
  (`DeadLetterIsFinal`, `RetriesAreFaults`, `OnlyFaultsLeaveRunsBehind`) from
  `ProgressInv`, which says for every run what its executions know of the row
  (`AttemptKnows`), what the create handler knows of row and task
  (`CreationKnows`), each of the two unless a step of its own has gone wrong
  (`MissedInExecute`, `MissedInCreate`), that `HandleError` and Asynq count alike (`DeliveryOK`), that
  a delivery which has not begun has no execution (`Untouched`), and that the
  deliveries used up are paid for by faults (`SpentOK`). `SpentOK` has to count a
  delivery already when its execution has failed, which `RetriesAreFaults` does
  not: between the two there is a moment when the error is on its way to Asynq.
* `TimelineAgrees` and `OutcomesAreTold` (`TerminalEventsAgree`, `OutcomeTold`)
  from `TellingInv`: status and event are two transactions, so between them
  there is exactly one goroutine, of the create handler, a cancel request or an
  execution, that owes the event (`OneTells`); an event that tells of an outcome
  is of the row's outcome, is there once, and leaves nobody who owes it
  (`ToldOnce`); and an outcome is told or owed unless the one who owed it could not
  tell (`Heard`, `Untold`). Steps that give no outcome and tell of none are treated together
  (`Mute`).
* `CancellationWins` (`CancelWins`) and `CancellationStopsTraffic`
  (`NoTrafficAfterCancel`), properties of whole behaviours: `Ahead` and
  `KeptAway` hold when the cancellation is recorded in time, and every later step
  keeps them.

### InProcessRun

Without any assumption. `TypeCorrect`, `MapsForget` (`RegistryForgets`),
`SignalWins` (`SignaledRunsEndCanceled`), `QueuedCancelsSettle`
(`QueuedCancelSettles`) and `ImplementsLifecycle` (`LifecycleSpec`). `Registered`
says at which steps of `executeRun` a run may be in the maps, `StatusFollows`
which statuses it may have at each step. `SignalWins` needs that a run which has
been signaled stays so (`Signaled`): the wish is in the map, or with the execution
that is about to finish, or carried out. `QueuedCancelsSettle` needs that a
request has found its run (`Settled`). `RowSteps` reduces the refinement to the
statuses of one run, as in `RunControl`.

### EventLog

From `EventLogAssumption`: the calls of the three methods are different calls.
`TypeCorrect`, `NumbersStayFree` (`NumbersAreFree`), `OneRequestWritten`
(`OneRequest`), `OutcomeKept` (`OutcomeNeverVictim`) and `ImplementsTimeline`
(`TimelineSpec`). The invariant says what the locks are for: who is between the
advisory lock and the commit holds it, alone, and has read a maximum that still is
one (`NumberReserved`); FOR UPDATE excludes every other lock on the row
(`RowHeld`); what was read under it is still so (`ReadStillHolds`). The event that
tells of the outcome is in no cycle of waiters: its transaction holds nothing when
it asks for the advisory lock, and when it inserts the run is finished, so that no
request has the row FOR UPDATE.

### EventStream

From `EventStreamAssumption`. `TypeCorrect`, `StreamsStayInOrder`
(`StreamsInOrder`) and `ShownStaysComplete` (`ShownComplete`). `Continues`: the
numbers received, those on their way and the handler's `lastSequence` continue
each other, and `Last-Event-ID` is where the received ones end; a connection that
breaks takes away what is on its way and the handler with it, and a list that is
cut short by a failing read is still a beginning of the timeline. `Shows` and
`Complete` relate that to the console.

### Catalog

From `CatalogAssumption`; `Updates` is finite, which bounds a version number.
`TypeCorrect`, `HistoryStaysNumbered` (`HistoryIsNumbered`), `CurrentStaysLatest`
(`CurrentIsLatest`) and `ReferencesHold` (`RunReferences`). A number read without a
lock may be stale, but never ahead of the next one, and the index lets one update
at a time through to its commit (`NumbersRead`). `CreationReads`: what a creation
has read is still there, targets excepted, because versions are never deleted.

### Runner

From `RunnerAssumption`: sizes that `Normalized` and `Validate` leave positive.
`TypeCorrect`, `SendsInOrder` (`SentInOrder`), `SendsCompletely`
(`SentCompletely`), `StopsInTime` (`StopsPromptly`) and `TrafficBetweenHooks`
(`HooksAroundTraffic`). A goroutine works on what is not recorded yet, behind the
dispatcher, with all that comes before it recorded (`WorkInOrder`); no two share an
iteration (`WorkApart`); until the context is over, what was dispatched is recorded
or owed by a goroutine (`NothingLost`); after that, the requests that were begun
late and the goroutines that still may begin one are no more than `Concurrency`
(`LateBegins`, a sum because every late request uses up one of them). When setup
was cut short the context is over before the first goroutine starts, and none gets
past its check of it (`SetupFirst`); teardown begins when the pool has returned
(`TeardownLast`, with `Phases`).

### Admission

From `AdmissionAssumption`: posted bodies have the shape that JSON decoding gives
them, and what JSONB makes of a JSON text is one. Nothing is assumed of the values of
variables, nor of how long the text that JSONB gives back is.
`ExecutesWhatWasAccepted` (`AcceptedIsExecuted`), `KeepsToLimits`
(`SentWithinLimits`) and `SavedRunsAgain` (`SavedScenariosRun`). The invariant says
what has been done to a scenario by the time it is stored: nothing in it is left to
complete and it is valid (`Settled`), nothing is left to expand if no value of the
environment brought something in (`Clean`), and it is within the limits of its run
(`Admitted`) or the origin of its save (`Saved`). The lemmas say that the store
keeps all of it but the text of JSON bodies (`StoredFields`, `Reread`), and that
`WithEnv` and `Normalized` leave a scenario alone in any environment when it is
settled and `Plain`, which is why the worker's second look changes nothing then.
Goroutines and rate it leaves alone in any case (`Executed`).

### K6Run and Report

From `K6Assumption`: sizes that `Normalized` and `Validate` leave positive, at
least one request, statuses, durations and limits that are natural numbers, and an
option that is not given differs from every number. `SendsPlan` (`K6SendsPlan`),
`VerdictsAgree` (`EnginesAgree`) and `PercentilesRank` (`RankGuaranteed`).

* `SendsPlan`. What a script has sent can only be compared to the plan at its end,
  so the invariant says it for every state (`SentSoFar`): the responses with a name
  are those of the iterations that are over, each of them with all requests of that
  name, and those of the iterations under way, each with as many as its VU has
  come past (`Underway`). An iteration under way is counted once, when its VU takes
  it, and turns into one that is over without a change in the count when its last
  request is sent; that makes the sum the same whichever VU takes what. The
  equality holds while nothing was thrown and nothing was cut short, which no step
  takes back. `SlotsSize` says that the attempts of a retry storm, which go through
  the requests again and again, come by each of them equally often.
* `VerdictsAgree`. The importer has a list with as many entries for each name and
  status as k6 counted. `Regrouped` shows, with a bijection, that such a list has
  as many entries with any property of name and status as there were responses with
  it, and so a response count comes out the same (`SameCounts`). Without hooks all
  responses are traffic (`NoHooks`), and the latency threshold, which k6 takes from
  the durations themselves, is that of the records (`SameLatency`). The average
  that every imported record carries plays no part, and the proof does not look
  into it. What remains is the error of a single response: if no answer was
  unexpected neither engine has an error (`AllExpected`), and an unexpected one
  that is counted as an error fails the run under both (`OneUnexpected`). The
  invariant for it is that every response is one to a request of the scenario
  (`Asked`), of the section it says, and that what was reported is what `Import`
  makes of the responses (`Judged`).
* `PercentilesRank`. Sorting is not executed: that sorted[n] is within a limit
  exactly when more than n records are (`SortedAtRank`) is all that is needed of
  it, and the order of two positions follows. A percentile lies between
  the two durations around its position (`Between`); comparing it to a limit
  compares the limit to one of them, and the bound on how many records are within it
follows: on a rank among n records, counted from 0 to n - 1, not on a share of n.

### Only model-checked

* Liveness, which needs fairness and is out of the prover's reach:
  `AcceptedRunsFinish`, `AcceptedCancelSettles`, `CallsReturn`, `StreamsEnd`,
  `OutcomeReachesReaders`, `RunsFinish`, `Returns`.

## 5. Where the code and its documents disagree

Three runs end in a counterexample. Each is listed in `PROJECT.json` with the
sentence it contradicts.

* `served`: `Execute` uploads the runner's report before the store decides the
  outcome, so the report that is served for a canceled run can say passed.
* `log_persisted`: `RequestRunCancel` and `appendRunEvent` take the row's lock
  and the advisory lock in opposite orders; Postgres breaks the deadlock, and
  one of the two is lost. `OutcomeNeverVictim` shows that it is never the event
  that tells of the outcome.
* `stopped`: a run whose deadline falls between two requests is passed although
  part of its traffic was never sent. When it falls into setup, none of the traffic
  is sent (`HooksAroundTraffic`), and the run is passed all the same.

The models have further behaviours that a reader may not expect. They follow
from the actions named, and no run is devoted to them.

* A cancellation recorded after `Execute`'s last check (line 70) is answered
  "canceled" and the run ends passed or failed; `CancelWins` draws the line.
  In process the same happens between Unregister and FinishRun.
* A cancellation that read the run as queued finishes it with the report
  "run canceled before worker execution" although its traffic has begun
  (CancelFinish); in process nobody then stops that traffic.
* An insert that fails is answered 202 with an empty run ID (EnqueueEmptyRun);
  a target that is deleted between resolveScenarioTarget and the insert is one
  way to get there (`Catalog`'s CreateRun).
* No attempt's start is in the timeline: see `RunControl` above.
* A stream can close without the event that tells of the outcome (Check reads a
  status that is newer than the list); the console reconnects and gets it. When
  that reconnect, or the console's first request, meets a `GetRun` that fails, it is
  answered 404 and the console shows a run that goes on for ever (Refused).
* The losers of concurrent updates of a scenario are told 404 (UpdateFails).
* A run that is posted with a scenario ID and an inline scenario is linked to a
  version that it does not execute (LoadScenario), and so is one whose scenario
  is updated between `createRun`'s read of the definition and `CreateRun`'s read
  of the current version (`docs/ADR/adr-006` line 14 promises the link).
  `RunReferences` is what holds: versions exist, and a pinned one is the one
  executed.
* A served report never carries its scenario's version: the blob copy is made
  before the version is added, and the stored one is read with a query on
  `runs.scenario_version_number`, a column that no migration creates, whose error
  is ignored.
* `WRECKR_ALLOW_METADATA_TARGETS` admits a base URL but no request: the path's
  check does not get it (validatePathTarget), although `docs/GUARDRAILS.md`
  line 35 says that the protection is bypassed.
* A target's headers are copied into a scenario when it is saved and then win
  over those of the target it is run with (mergeHeaders).
* A target's base URL is checked as it is written, a template in it included;
  expansion comes with the scenario.
* A variable whose value contains `$` is expanded a second time by the worker, in
  the worker's environment and after the last check: hosts and sizes can be others
  than those accepted, and a name or a JSON body can turn invalid there. The same
  goes for a `$` that is escaped as `\u0024` in a JSON body, which JSONB shows as it
  is (`LeftToExpand`). A saved scenario with such a text is expanded further when it
  is run, and may be refused.
* JSONB writes a space after every colon and comma, sorts keys and keeps the last of
  two that are equal: `{"a":1,"b":2}` is accepted at 13 bytes and sent at 16. A body
  at `MaxRequestBodyBytes` is sent longer than the limit (`Grown` in
  `SentWithinLimits`), and a saved scenario with such a body is refused when it is
  run under the limits it was saved under (`SavedScenariosRun`).
* The p-th percentile is at p % of the way from the first record to the last, not at
  a share of them: of durations 0 and 100 the 95th percentile is 95, with half of
  the records within it. `RankGuaranteed` says what a limit on it means.
* `MaxRunDuration` limits runs in process only; a queued run has the worker's
  timeout.
* A `max_error_rate` above 0 saves no run with the Go engine: Build fails a run
  for any record with an error.
* Under k6: a request without `expect.status` throws, and the rest of its
  iteration, or of setup, is not sent (Throws); an unexpected answer below 500 is
  forgiven unless `max_error_rate` is 0 (`EnginesAgree`); answers with a status
  that is neither common nor expected leave no record, a 501 included, which is
  forgiven in the same way; requests of hooks are
  records, and count; an expected 5xx is an error; traffic is sent although setup
  has failed; a script that maxDuration cuts short is imported as complete.

## 6. What is not modelled

* What becomes of a run that is left behind: `OnlyFaultsLeaveRunsBehind` says
  when that happens (a task archived after crashes, a `CompleteRun` that fails
  unnoticed); nothing in the code finds such a run again.
* Time: deadlines, leases and tickers are events that may come at any moment.
  `finished_at >= started_at`, a CHECK of the schema, is compared with
  transaction start times and could refuse an outcome. Run IDs of the memory store
  are the clock's nanoseconds: two runs created in one tick would share a row.
* The HTTP exchange of a request (headers, bodies, redirects, the preview of a
  body), JSON paths, S3, the k6 program and the form of its summary, parsing of
  environment and flags, forms, and the demo API. `PROJECT.json` gives the reason
  for each.
* Names: a name with a quotation mark does not match the importer's expression.
  Limits with more decimals than the script prints are rounded there.
* JSON that Postgres refuses as JSONB (a `\u0000`) makes the insert fail, which is
  `RunControl`'s failed insert.
* The memory store hands out scenarios that share maps and slices with its own
  (`scenario/schema.go` line 266 writes into them). The values are those that are
  there already, so no model would show it; the Go runtime may.

## 7. Plan

1. Done: run records, lifecycle, the queued deployment, its first theorems.
2. Done: in-process execution with theorems, event log, event stream, catalog,
   runner.
3. Done: ambiguous commits in `RunControl`; `Admission`; `Report` and `K6Run`.
4. Done: proofs of all invariants, refinements and cancellation properties, those
   of `K6Run` included.
5. Left: the steps of the liveness arguments that are safety (what each waiter
   waits for can move).
