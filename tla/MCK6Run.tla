------------------------------ MODULE MCK6Run -------------------------------
(* Six scenarios: all traffic shapes, hooks, both thresholds, counts of      *)
(* statuses that are tracked by default and not, requests that share a name, *)
(* and a request that says nothing about the answer.                         *)
EXTENDS K6Run

req(name, expect) == [name |-> name, expect |-> expect]

plain == [type |-> "load", concurrency |-> 2, iterations |-> 1, attempts |-> 1,
          setup |-> <<>>, requests |-> <<req("a", {404})>>, teardown |-> <<>>,
          maxErrorRate |-> 0, p95 |-> None, invariants |-> {}]

count(name, status, equals, min, max) ==
  [type |-> "response_count", request |-> name, status |-> status,
   equals |-> equals, min |-> min, max |-> max]

aProbe == [type |-> "http_probe"]

MCScenarios == {
  [plain EXCEPT !.iterations = 4, !.p95 = 2,
                !.requests = <<req("a", {202, 404})>>,
                !.invariants = {count("a", 202, None, 1, 3)}],
  [plain EXCEPT !.type = "race", !.setup = <<req("h", {202})>>,
                !.invariants = {aProbe}],
  [plain EXCEPT !.type = "retry_storm", !.attempts = 2, !.iterations = 2,
                !.requests = <<req("a", {404})>>, !.maxErrorRate = 50,
                !.p95 = 1],
  [plain EXCEPT !.iterations = 2, !.maxErrorRate = None,
                !.requests = <<req("a", {404}), req("a", {202})>>,
                !.invariants = {count(None, 404, 2, None, None)}],
  [plain EXCEPT !.iterations = 2,
                !.requests = <<req("a", {}), req("b", {404})>>,
                !.teardown = <<req("t", {202})>>],
  [plain EXCEPT !.setup = <<req("h", {})>>]}
=============================================================================
