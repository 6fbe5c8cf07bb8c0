------------------------------- MODULE Runner -------------------------------
(***************************************************************************)
(* RunWithOptions (runner/runner.go): setup requests, traffic, checks and  *)
(* teardown requests of one scenario, under a context that may end at any  *)
(* moment (timeout, cancellation, shutdown).                               *)
(*                                                                         *)
(* Traffic is a pool of goroutines.  runParallel hands iterations to its   *)
(* workers over an unbuffered channel; runRace lets all of them loose on   *)
(* one request and waits for the last.  A response is a record that has an *)
(* error or has none; what makes it one is executeRequest's business.  The *)
(* scenario is one that Validate accepts.                                  *)
(***************************************************************************)
EXTENDS Naturals, FiniteSets

CONSTANTS Concurrency, Iterations, Requests,   \* traffic of the scenario
          Attempts,                            \* retry.attempts
          SetupSize, TeardownSize              \* requests of the hooks

ASSUME RunnerAssumption ==
  /\ {Concurrency, Iterations, Requests, Attempts} \subseteq Nat \ {0}
  /\ SetupSize \in Nat /\ TeardownSize \in Nat

VARIABLES scenario,   \* what the scenario asks for besides its sizes
          over,       \* whether the context is over
          phase,      \* where RunWithOptions is
          setup,      \* requests of setup that have succeeded
          teardown,   \* requests of teardown that have succeeded
          next,       \* what is dispatched next: iteration and request
          worker,     \* the goroutines of the traffic
          records,    \* collector: records of each request that was planned
          errored,    \* whether one of them has an error
          late,       \* requests begun after the context was over
          failed,     \* whether a check has failed
          verdict     \* the report's status

poolVars == <<next, worker, records, errored, late>>
vars == <<scenario, over, phase, setup, teardown, next, worker, records,
          errored, late, failed, verdict>>

Workers == 1 .. Concurrency

\* A threshold on errors or latency, a response_count, an http_probe.
Checks == {"threshold", "count", "probe"}

\* "load" stands for burst and spike too: all three run the same code.
Scenario == [mode : {"load", "retry_storm", "race"},
             limited : BOOLEAN,          \* rate_per_second > 0
             checks : SUBSET Checks]

attempts ==
  CASE scenario.mode = "retry_storm" -> Attempts
    [] scenario.mode = "race"        -> Concurrency
    [] OTHER                         -> 1

\* Iteration, request, attempt (or racer).
AnySlot ==
  (1 .. Iterations) \X (1 .. Requests)
    \X (1 .. (IF Attempts > Concurrency THEN Attempts ELSE Concurrency))

Planned == {s \in AnySlot : s[3] <= attempts}

FirstSlot == <<1, 1, 1>>

WorkerPcs == {"recv", "check", "wait", "begin", "send", "gone"}

Assigned(slot) == [pc |-> "check", slot |-> slot, doomed |-> FALSE]

Unassigned(pc) == [pc |-> pc, slot |-> FirstSlot, doomed |-> FALSE]

\* The type of every variable.
TypeOK ==
  /\ scenario \in Scenario
  /\ over \in BOOLEAN
  /\ phase \in {"setup", "dispatch", "join", "checks", "teardown", "done"}
  /\ setup \in 0 .. SetupSize /\ teardown \in 0 .. TeardownSize
  /\ next \in (1 .. (Iterations + 1)) \X (1 .. Requests)
  /\ worker \in [Workers -> [pc : WorkerPcs, slot : AnySlot,
                             doomed : BOOLEAN]]
  /\ records \in [AnySlot -> Nat]
  /\ errored \in BOOLEAN
  /\ late \in Nat
  /\ failed \in BOOLEAN
  /\ verdict \in {"none", "passed", "failed"}

Init ==
  /\ scenario \in Scenario
  /\ over = FALSE
  /\ phase = "setup"
  /\ setup = 0 /\ teardown = 0
  /\ next = <<1, 1>>
  /\ worker = [w \in Workers |->
                 Unassigned(IF scenario.mode = "race" THEN "gone"
                                                      ELSE "recv")]
  /\ records = [s \in AnySlot |-> 0]
  /\ errored = FALSE
  /\ late = 0
  /\ failed = FALSE
  /\ verdict = "none"

-----------------------------------------------------------------------------
(* The report                                                              *)

Build(checkFailed, recordFailed) ==
  /\ phase' = "done"
  /\ verdict' = IF checkFailed \/ recordFailed THEN "failed" ELSE "passed"

-----------------------------------------------------------------------------
(* Setup: a request that fails is the end of the run                       *)

\* A request that is on its way when the context ends, or that a tick of the
\* limiter lets through after that, fails.
SetupRequest(ok) ==
  /\ phase = "setup" /\ setup < SetupSize
  /\ ok => ~over
  /\ \/ /\ ok
        /\ setup' = setup + 1
        /\ UNCHANGED <<phase, failed, verdict>>
     \/ /\ ~ok
        /\ failed' = TRUE
        /\ Build(TRUE, TRUE)
        /\ UNCHANGED setup
  /\ UNCHANGED <<scenario, over, teardown>> /\ UNCHANGED poolVars

\* Setup that the context cut short has no failed check.
SetupEnds ==
  /\ phase = "setup"
  /\ setup = SetupSize \/ over
  /\ phase' = "dispatch"
  /\ UNCHANGED <<scenario, over, setup, teardown, failed, verdict>>
  /\ UNCHANGED poolVars

-----------------------------------------------------------------------------
(* Dispatch                                                                *)

RestUnchanged ==
  UNCHANGED <<scenario, over, setup, teardown, failed, verdict>>

AllGone == \A w \in Workers : worker[w].pc = "gone"

\* runParallel: jobs <- iteration.  The select may choose it although the
\* context is over.
SendJob(w) ==
  /\ phase = "dispatch" /\ scenario.mode # "race"
  /\ next[1] <= Iterations
  /\ worker[w].pc = "recv"
  /\ worker' = [worker EXCEPT ![w] = Assigned(<<next[1], 1, 1>>)]
  /\ next' = <<next[1] + 1, 1>>
  /\ UNCHANGED <<phase, records, errored, late>> /\ RestUnchanged

CloseJobsEarly ==
  /\ phase = "dispatch" /\ scenario.mode # "race"
  /\ next[1] >= Iterations \/ over
  /\ phase' = "join"
  /\ RestUnchanged /\ UNCHANGED poolVars

CloseJobsAtEnd ==
  /\ phase = "dispatch" /\ scenario.mode # "race"
  /\ next[1] > Iterations
  /\ phase' = "join"
  /\ RestUnchanged /\ UNCHANGED poolVars

\* close(jobs): after the last iteration, or when the context is over.
CloseJobs ==
  /\ phase = "dispatch" /\ scenario.mode # "race"
  /\ next[1] > Iterations \/ over
  /\ phase' = "join"
  /\ RestUnchanged /\ UNCHANGED poolVars

RangeEnds(w) ==
  /\ phase = "join" /\ worker[w].pc = "recv"
  /\ worker' = [worker EXCEPT ![w].pc = "gone"]
  /\ UNCHANGED <<phase, next, records, errored, late>> /\ RestUnchanged

StartRaceEagerly ==
  /\ phase = "dispatch" /\ scenario.mode = "race"
  /\ next[1] <= Iterations /\ ~over
  /\ worker' = [w \in Workers |->
                  IF worker[w].pc = "gone"
                  THEN Assigned(<<next[1], next[2], w>>) ELSE worker[w]]
  /\ next' = IF next[2] < Requests THEN <<next[1], next[2] + 1>>
                                   ELSE <<next[1] + 1, 1>>
  /\ UNCHANGED <<phase, records, errored, late>> /\ RestUnchanged

\* runRace: all racers on one request; the last has to be back.
StartRace ==
  /\ phase = "dispatch" /\ scenario.mode = "race"
  /\ AllGone /\ next[1] <= Iterations /\ ~over
  /\ worker' = [w \in Workers |-> Assigned(<<next[1], next[2], w>>)]
  /\ next' = IF next[2] < Requests THEN <<next[1], next[2] + 1>>
                                   ELSE <<next[1] + 1, 1>>
  /\ UNCHANGED <<phase, records, errored, late>> /\ RestUnchanged

EndRaces ==
  /\ phase = "dispatch" /\ scenario.mode = "race"
  /\ AllGone /\ (next[1] > Iterations \/ over)
  /\ phase' = "join"
  /\ RestUnchanged /\ UNCHANGED poolVars

-----------------------------------------------------------------------------
(* A worker or racer                                                       *)

WorkerGoes(w, pc) ==
  /\ worker' = [worker EXCEPT ![w].pc = pc]
  /\ UNCHANGED <<phase, next, records, errored, late>> /\ RestUnchanged

WorkerReturns(w) ==
  /\ worker' = [worker EXCEPT ![w] = Unassigned("gone")]
  /\ UNCHANGED <<phase, next, records, errored, late>> /\ RestUnchanged

CheckContext(w) ==
  /\ worker[w].pc = "check"
  /\ IF over THEN WorkerReturns(w) ELSE WorkerGoes(w, "wait")

\* With a ticker the select may choose the tick although the context is over.
limiterWait(w) ==
  /\ worker[w].pc = "wait"
  /\ \/ /\ over => scenario.limited
        /\ WorkerGoes(w, "begin")
     \/ over /\ WorkerReturns(w)

\* A request that is begun when the context is over fails without being sent.
BeginRequest(w) ==
  /\ worker[w].pc = "begin"
  /\ worker' = [worker EXCEPT ![w].pc = "send", ![w].doomed = over]
  /\ late' = late + (IF over THEN 1 ELSE 0)
  /\ UNCHANGED <<phase, next, records, errored>> /\ RestUnchanged

ContinuedUnchecked(state) ==
  LET it == state.slot[1]  rq == state.slot[2]  at == state.slot[3] IN
  CASE scenario.mode = "race" -> Unassigned("gone")
    [] scenario.mode # "race" /\ at < attempts ->
         [Assigned(<<it, rq, at + 1>>) EXCEPT !.pc = "wait"]
    [] scenario.mode # "race" /\ at >= attempts /\ rq < Requests ->
         [Assigned(<<it, rq + 1, 1>>) EXCEPT !.pc = "wait"]
    [] OTHER -> Unassigned("recv")

\* The nested loops over requests and attempts, and back to the channel.
Continued(state) ==
  LET it == state.slot[1]  rq == state.slot[2]  at == state.slot[3] IN
  CASE scenario.mode = "race" -> Unassigned("gone")
    [] scenario.mode # "race" /\ at < attempts -> Assigned(<<it, rq, at + 1>>)
    [] scenario.mode # "race" /\ at >= attempts /\ rq < Requests ->
         Assigned(<<it, rq + 1, 1>>)
    [] OTHER -> Unassigned("recv")

\* executeRequest returns and its record is added.
EndRequest(w, ok) ==
  LET s == worker[w].slot IN
  /\ worker[w].pc = "send"
  /\ ok => ~worker[w].doomed
  /\ records' = [records EXCEPT ![s] = @ + 1]
  /\ errored' = (errored \/ ~ok)
  /\ worker' = [worker EXCEPT ![w] = Continued(@)]
  /\ UNCHANGED <<phase, next, late>> /\ RestUnchanged

JoinAtOnce ==
  /\ phase = "join"
  /\ phase' = "checks"
  /\ RestUnchanged /\ UNCHANGED poolVars

Join ==
  /\ phase = "join" /\ AllGone
  /\ phase' = "checks"
  /\ RestUnchanged /\ UNCHANGED poolVars

-----------------------------------------------------------------------------
(* Checks and teardown                                                     *)

Recorded == {s \in AnySlot : records[s] > 0}

\* good: what the measured values, the number of responses of one kind or the
\* probe's answer are like.  The summary of no records has no errors and no
\* latency.  A response_count may ask for anything, also for none (its filters
\* and bounds: Report).  A probe needs the context.
CheckFails(check, good) ==
  CASE check = "threshold" -> Recorded # {} /\ ~good
    [] check = "count"     -> ~good
    [] OTHER               -> over \/ ~good

Evaluate(good) ==
  /\ phase = "checks"
  /\ failed' = \E check \in scenario.checks : CheckFails(check, good[check])
  /\ phase' = "teardown"
  /\ UNCHANGED <<scenario, over, setup, teardown, verdict>>
  /\ UNCHANGED poolVars

TeardownRequest(ok) ==
  /\ phase = "teardown" /\ teardown < TeardownSize
  /\ ok => ~over
  /\ \/ /\ ok
        /\ teardown' = teardown + 1
        /\ UNCHANGED <<phase, failed, verdict>>
     \/ /\ ~ok
        /\ failed' = TRUE
        /\ Build(TRUE, TRUE)
        /\ UNCHANGED teardown
  /\ UNCHANGED <<scenario, over, setup>> /\ UNCHANGED poolVars

TeardownEnds ==
  /\ phase = "teardown"
  /\ teardown = TeardownSize \/ over
  /\ Build(failed, errored)
  /\ UNCHANGED <<scenario, over, setup, teardown, failed>>
  /\ UNCHANGED poolVars

ContextEnds ==
  /\ ~over /\ phase # "done"
  /\ over' = TRUE
  /\ UNCHANGED <<scenario, phase, setup, teardown, failed, verdict>>
  /\ UNCHANGED poolVars

WorkerStep(w) ==
  \/ CheckContext(w) \/ limiterWait(w) \/ BeginRequest(w)
  \/ \E ok \in BOOLEAN : EndRequest(w, ok)

MainStep ==
  \/ \E ok \in BOOLEAN : SetupRequest(ok) \/ TeardownRequest(ok)
  \/ SetupEnds \/ CloseJobs \/ StartRace \/ EndRaces \/ Join
  \/ \E w \in Workers : SendJob(w) \/ RangeEnds(w)
  \/ \E good \in [Checks -> BOOLEAN] : Evaluate(good)
  \/ TeardownEnds

Next == MainStep \/ (\E w \in Workers : WorkerStep(w)) \/ ContextEnds

Spec == Init /\ [][Next]_vars

(***************************************************************************)
(* Fairness: goroutines go on, the HTTP client has a timeout, a ticker     *)
(* ticks.  The context need not end.                                       *)
(***************************************************************************)
FairSpec ==
  Spec /\ WF_vars(MainStep) /\ \A w \in Workers : WF_vars(WorkerStep(w))

-----------------------------------------------------------------------------
(* Properties                                                              *)

\* No request is sent that is not planned, or twice, or out of its order: of
\* one iteration and request an attempt begins when the one before is recorded,
\* and a request when the one before has had all its attempts, in a race those
\* of all racers.  Racers have no order among them.
SentInOrder ==
  /\ \A w \in Workers : worker[w].slot \in Planned
  /\ \A s \in AnySlot :
       /\ records[s] <= 1
       /\ records[s] = 1 =>
            \A e \in Planned :
              e[1] = s[1] /\ (e[2] < s[2] \/ (e[2] = s[2] /\ e[3] < s[3])) =>
                \/ records[e] = 1
                \/ scenario.mode = "race" /\ e[2] = s[2]

\* Traffic that the context let finish has sent all that was planned, whichever
\* worker took which iteration.
SentCompletely ==
  phase \in {"checks", "teardown"} /\ ~over =>
    \A s \in Planned : records[s] = 1

\* Once the context is over each goroutine of the traffic begins one more
\* request at most.
StopsPromptly == late <= Concurrency

\* Traffic stays between the hooks.  No request of it is sent unless setup has
\* succeeded to its last request: setup that the context cuts short has no
\* failed check, and the code goes on to the traffic.  And when teardown has
\* begun or a report is built, no goroutine is at a request that teardown
\* would undo or the report would miss.
HooksAroundTraffic ==
  /\ \/ setup = SetupSize
     \/ /\ Recorded = {} /\ late = 0
        /\ \A w \in Workers : worker[w].pc \notin {"wait", "begin", "send"}
  /\ teardown > 0 \/ verdict # "none" =>
       \A w \in Workers : worker[w].pc \in {"recv", "gone"}

\* RunWithOptions returns: no worker and no dispatcher waits for the other.
Returns == <>(phase = "done")

\* server_test.go: a run that its duration limit has stopped is failed.
StoppedRunsFail ==
  phase = "done" /\ over /\ Recorded # Planned => verdict = "failed"
=============================================================================
