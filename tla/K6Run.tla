-------------------------------- MODULE K6Run -------------------------------
(***************************************************************************)
(* K6Runner.RunWithOptions (runner/k6_runner.go): a scenario is compiled   *)
(* to a script (k6script/compiler.go), k6 runs it, and a report is built   *)
(* from the summary that k6 leaves behind.                                 *)
(*                                                                         *)
(* k6 is external.  It is modelled by what the script and the importer     *)
(* rely on: the setup function, iterations that the VUs share, the         *)
(* teardown function, checks that count passes and failures, an exception  *)
(* that ends the function it comes out of, maxDuration, and a summary that *)
(* is there or not.  The script is the program the actions below execute.  *)
(* Backoff and rate only delay.                                            *)
(***************************************************************************)
EXTENDS Report, Sequences, FiniteSetsExt

CONSTANTS Scenarios,    \* what Compile's Validate accepts
          Names,        \* of requests
          Statuses,     \* what the target may answer; 0: no answer
          Durations     \* in milliseconds

ASSUME K6Assumption ==
  /\ Statuses \subseteq Nat /\ Durations \subseteq Nat /\ None \notin Nat
  /\ \A sc \in Scenarios :
       /\ {sc.concurrency, sc.iterations, sc.attempts} \subseteq Nat \ {0}
       /\ \A section \in {sc.setup, sc.requests, sc.teardown} :
            section \in Seq([name : Names, expect : SUBSET Nat])
       /\ sc.requests # <<>>
       /\ {sc.maxErrorRate, sc.p95} \subseteq Nat \cup {None}

VARIABLES sc,         \* the scenario
          probe,      \* whether the target satisfies its http_probe
          phase,      \* where the script, then the importer is
          hook,       \* requests of the current hook that were sent
          left,       \* iterations that no VU has taken
          vu,         \* requests each VU has sent of its iteration
          responses,  \* all responses, those that look alike numbered
          thrown,     \* whether an exception came out of the script
          cut,        \* whether maxDuration was reached
          exported,   \* whether the summary was written
          verdict     \* the report's status, or "error"

vars == <<sc, probe, phase, hook, left, vu, responses, thrown, cut, exported,
          verdict>>

-----------------------------------------------------------------------------
(* k6script/compiler.go                                                    *)

k6IterationsPlain(s) == s.iterations

k6Iterations(s) ==
  IF s.type = "race" THEN s.concurrency * s.iterations ELSE s.iterations

\* writeDefault: what one iteration sends.  A retry storm goes through all
\* requests once per attempt.
Passes(s) == IF s.type = "retry_storm" THEN s.attempts ELSE 1

IterationLength(s) == Passes(s) * Len(s.requests)

RequestAt(s, i) == s.requests[((i - 1) % Len(s.requests)) + 1]

statusCodesCommon(req) ==
  {0, 200, 201, 204, 400, 401, 403, 404, 409, 500, 502, 503, 504}

statusCodesToTrack(req) ==
  {0, 200, 201, 204, 400, 401, 403, 404, 409, 500, 502, 503, 504} \cup req.expect

AllRequests(s) ==
  UNION {{section[i] : i \in DOMAIN section} :
           section \in {s.setup, s.requests, s.teardown}}

\* The counters k6 keeps by name and status code, one per dummy threshold.
k6Thresholds(s) ==
  UNION {{q.name} \X statusCodesToTrack(q) : q \in AllRequests(s)}

-----------------------------------------------------------------------------
(* The script                                                              *)

\* A request without expect.status is compiled with expected_statuses null.
Throws(req) == req.expect = {}

\* One call of runRequest: the response, and its check before the exception.
Responses(req, section) ==
  [name : {req.name}, section : {section}, expect : {req.expect},
   status : Statuses, ms : Durations]

Checked(r) == r.status \in r.expect

VUs == 1 .. sc.concurrency

Init ==
  /\ sc \in Scenarios
  /\ probe \in BOOLEAN
  /\ phase = "setup"
  /\ hook = 0
  /\ left = k6Iterations(sc)
  /\ vu = [v \in VUs |-> 0]
  /\ responses = {}
  /\ thrown = FALSE /\ cut = FALSE /\ exported = FALSE
  /\ verdict = "none"

Alike(r) == {c \in responses : c[1] = r}

runRequest(req, section) ==
  /\ \E r \in Responses(req, section) :
       responses' = responses \cup {<<r, Cardinality(Alike(r)) + 1>>}
  /\ thrown' = (thrown \/ Throws(req))

RunUnchanged == UNCHANGED <<sc, probe, exported, verdict>>

\* An exception in setup or teardown ends the test.
Lifecycle(section, requests, after) ==
  /\ phase = section
  /\ \/ /\ hook < Len(requests)
        /\ runRequest(requests[hook + 1], section)
        /\ phase' = IF Throws(requests[hook + 1]) THEN "exit" ELSE phase
        /\ hook' = hook + 1
     \/ /\ hook = Len(requests)
        /\ phase' = after
        /\ hook' = 0
        /\ UNCHANGED <<responses, thrown>>
  /\ UNCHANGED <<left, vu, cut>> /\ RunUnchanged

Setup == Lifecycle("setup", sc.setup, "traffic")

Teardown == Lifecycle("teardown", sc.teardown, "exit")

\* A VU that is between iterations takes another one; an exception ends the
\* iteration only.
VURequest(v) ==
  LET req == RequestAt(sc, vu[v] + 1) IN
  /\ phase = "traffic"
  /\ vu[v] > 0 \/ left > 0
  /\ left' = IF vu[v] = 0 THEN left - 1 ELSE left
  /\ runRequest(req, "requests")
  /\ vu' = [vu EXCEPT ![v] =
       IF Throws(req) \/ vu[v] + 1 = IterationLength(sc) THEN 0 ELSE vu[v] + 1]
  /\ UNCHANGED <<phase, hook, cut>> /\ RunUnchanged

\* No more iterations; those that do not end in time are interrupted.
MaxDuration ==
  /\ phase = "traffic" /\ ~cut
  /\ cut' = TRUE
  /\ left' = 0
  /\ \E slow \in SUBSET VUs :
       vu' = [v \in VUs |-> IF v \in slow THEN 0 ELSE vu[v]]
  /\ UNCHANGED <<phase, hook, responses, thrown>> /\ RunUnchanged

TrafficEnds ==
  /\ phase = "traffic"
  /\ left = 0 /\ \A v \in VUs : vu[v] = 0
  /\ phase' = "teardown"
  /\ UNCHANGED <<hook, left, vu, responses, thrown, cut>> /\ RunUnchanged

\* k6 exits, whatever its code; after an exception it may leave no summary.
Exit ==
  /\ phase = "exit"
  /\ phase' = "import"
  /\ exported' \in {TRUE} \cup (IF thrown THEN {FALSE} ELSE {})
  /\ UNCHANGED <<sc, probe, hook, left, vu, responses, thrown, cut, verdict>>

\* k6 cannot be started, refuses its options, or is killed because the context
\* is over: the file stays as CreateTemp made it.
Killed ==
  /\ phase \in {"setup", "traffic", "teardown", "exit"}
  /\ phase' = "import"
  /\ UNCHANGED <<sc, probe, hook, left, vu, responses, thrown, cut, exported,
                 verdict>>

-----------------------------------------------------------------------------
(* runner/k6_runner.go: from the summary to the report                     *)

CountOf(name, code) ==
  Cardinality({c \in responses : c[1].name = name /\ c[1].status = code})

avgDuration ==
  MapThenSumSet(LAMBDA c : c[1].ms, responses) \div Cardinality(responses)

\* As many records as each counter says, all of average duration.  A response
\* whose status nobody counts leaves no record.
reconstructRecords ==
  [c \in UNION {{k} \X (1 .. CountOf(k[1], k[2])) : k \in k6Thresholds(sc)} |->
     [name |-> c[1][1], status |-> c[1][2], ms |-> avgDuration,
      error |-> c[1][2] = 0 \/ c[1][2] >= 500]]

Samples == [c \in responses |-> c[1]]

\* What k6 found of the two thresholds, over all responses, hooks included; a
\* metric without samples passes.
parseThresholds(s) ==
  {ErrorRateWithin(Cardinality({c \in responses : ~Checked(c[1])}),
                   Cardinality(responses), rate)
     : rate \in {s.maxErrorRate} \ {None}}
    \cup {responses = {} \/ percentile(Samples, 95) <= 100 * ms
            : ms \in {s.p95} \ {None}}

Import ==
  /\ phase = "import"
  /\ phase' = "returned"
  /\ verdict' = IF ~exported THEN "error"
                ELSE Build(reconstructRecords, parseThresholds(sc),
                           evaluateInvariants(sc, reconstructRecords, probe))
  /\ UNCHANGED <<sc, probe, hook, left, vu, responses, thrown, cut, exported>>

Returned == phase = "returned" /\ UNCHANGED vars

Next ==
  \/ Setup \/ Teardown \/ MaxDuration \/ TrafficEnds \/ Exit \/ Killed
  \/ Import \/ Returned
  \/ \E v \in VUs : VURequest(v)

Spec == Init /\ [][Next]_vars

-----------------------------------------------------------------------------
(* The Go engine on the same responses (runner/runner.go)                  *)

\* executeRequest: what makes a response an error.
ErrorOf(r) ==
  \/ r.status = 0
  \/ IF r.expect # {} THEN r.status \notin r.expect ELSE r.status >= 500

GoRecords ==
  [c \in {d \in responses : d[1].section = "requests"} |->
     [name |-> c[1].name, status |-> c[1].status, ms |-> c[1].ms,
      error |-> ErrorOf(c[1])]]

HookFailed ==
  \E c \in responses : c[1].section # "requests" /\ ErrorOf(c[1])

\* RunWithOptions: records of hooks are not traffic; a hook that fails is a
\* failed check.
GoVerdict ==
  Build(GoRecords, evaluateThresholds(sc, GoRecords) \cup {~HookFailed},
        evaluateInvariants(sc, GoRecords, probe))

\* How often runParallel and runRace send each of the scenario's requests.
GoSends ==
  CASE sc.type = "race"        -> sc.concurrency * sc.iterations
    [] sc.type = "retry_storm" -> sc.attempts * sc.iterations
    [] OTHER                   -> sc.iterations

-----------------------------------------------------------------------------
(* Properties                                                              *)

Imported == phase = "returned" /\ exported /\ ~cut

SentOf(section, name) ==
  Cardinality({c \in responses : c[1].section = section /\ c[1].name = name})

Named(requests, name) == {i \in DOMAIN requests : requests[i].name = name}

\* A script that runs to its end, without exceptions, has sent each request as
\* often as the Go engine does for the same scenario, whichever VU took which
\* iteration, and each hook once.  Requests may share a name.
K6SendsPlan ==
  Imported /\ ~thrown =>
    \A name \in Names :
      /\ SentOf("requests", name)
           = GoSends * Cardinality(Named(sc.requests, name))
      /\ SentOf("setup", name) = Cardinality(Named(sc.setup, name))
      /\ SentOf("teardown", name) = Cardinality(Named(sc.teardown, name))

\* Every request says which answers it expects, none of them an error to the
\* importer; and nothing that is counted over all responses meets hooks.
Comparable ==
  /\ \A q \in AllRequests(sc) :
       q.expect # {} /\ \A status \in q.expect : status \in 1 .. 499
  /\ sc.setup \o sc.teardown # <<>> =>
       /\ sc.p95 = None
       /\ \A inv \in sc.invariants : inv.type = "http_probe"

\* The k6 engine comes to the verdict that the Go engine comes to on the same
\* responses, although it sees only counters.  It is more lenient in one case:
\* an unexpected answer that is no error to the importer, or has a status that
\* nobody counts, when max_error_rate is not 0.
EnginesAgree ==
  Imported /\ Comparable =>
    \/ verdict = GoVerdict
    \/ /\ verdict = "passed" /\ sc.maxErrorRate # 0
       /\ \E c \in responses :
            ~Checked(c[1]) /\ c[1].status \notin {0, 500, 502, 503, 504}

\* What a latency threshold means, at every number of records: a percentile is
\* interpolated at p % of the last index.  If it is within the limit, more
\* records are than p % of the last index (the p % of all records, or less than
\* one short of it); if it is beyond, fewer are than one more than that.  So it
\* is no share of the records: of durations 0 and 100 the p95 is 95, and one of
\* the two is within it.  And the report's percentiles are in order.
RankGuaranteed ==
  phase = "returned" /\ DOMAIN GoRecords # {} =>
    LET s == Summarize(GoRecords)
        last == s.total - 1
    IN
    /\ s.min <= s.p50 /\ s.p50 <= s.p95 /\ s.p95 <= s.p99 /\ s.p99 <= s.max
    /\ \A p \in {50, 95, 99}, limit \in 0 .. (s.max \div 100) :
         IF percentile(GoRecords, p) <= 100 * limit
         THEN 100 * Within(GoRecords, limit) > p * last
         ELSE 100 * (Within(GoRecords, limit) - 1) < p * last
=============================================================================
