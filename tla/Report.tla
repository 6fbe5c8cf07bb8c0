------------------------------- MODULE Report -------------------------------
(***************************************************************************)
(* What a run's records add up to: Summarize, percentile and Build         *)
(* (report/report.go) and the checks both engines share (runner/runner.go).*)
(*                                                                         *)
(* Records are a function on some finite set: a list, but for its order,   *)
(* on which no check depends.  Durations are whole milliseconds; a         *)
(* percentile and a rate, which are fractions in the code, are kept in     *)
(* hundredths, where both are exact.                                       *)
(***************************************************************************)
EXTENDS Integers, FiniteSets

CONSTANT None   \* an option that is not given

Total(records) == Cardinality(DOMAIN records)

Within(records, ms) ==
  Cardinality({i \in DOMAIN records : records[i].ms <= ms})

\* sorted[n] of the durations, counted from 0.
SortedAt(records, n) ==
  CHOOSE d \in {records[i].ms : i \in DOMAIN records} :
    Within(records, d - 1) <= n /\ n < Within(records, d)

percentileSwapped(records, p) ==
  IF DOMAIN records = {} THEN 0
  ELSE LET pos == p * (Total(records) - 1)
           lower == pos \div 100
           weight == pos % 100
           upper == IF weight = 0 THEN lower ELSE lower + 1
       IN SortedAt(records, lower) * weight
            + SortedAt(records, upper) * (100 - weight)

\* The p-th percentile, in hundredths of a millisecond: between the two
\* durations around position p% of the last index.
percentile(records, p) ==
  IF DOMAIN records = {} THEN 0
  ELSE LET pos == p * (Total(records) - 1)
           lower == pos \div 100
           weight == pos % 100
           upper == IF weight = 0 THEN lower ELSE lower + 1
       IN SortedAt(records, lower) * (100 - weight)
            + SortedAt(records, upper) * weight

\* The counts of status codes and the average are left out: no check uses them.
Summarize(records) ==
  [total |-> Total(records),
   failed |-> Cardinality({i \in DOMAIN records : records[i].error}),
   min |-> IF DOMAIN records = {} THEN 0 ELSE 100 * SortedAt(records, 0),
   p50 |-> percentile(records, 50),
   p95 |-> percentile(records, 95),
   p99 |-> percentile(records, 99),
   max |-> IF DOMAIN records = {} THEN 0
           ELSE 100 * SortedAt(records, Total(records) - 1)]

-----------------------------------------------------------------------------
(* Checks, each by whether it passed                                       *)

\* max_error_rate in hundredths; the rate of no record is 0.
ErrorRateWithin(failed, total, limit) == 100 * failed <= limit * total

evaluateThresholds(sc, records) ==
  LET s == Summarize(records) IN
  {ErrorRateWithin(s.failed, s.total, rate) : rate \in {sc.maxErrorRate} \ {None}}
    \cup {s.p95 <= 100 * ms : ms \in {sc.p95} \ {None}}

evaluateResponseCount(inv, records) ==
  LET count ==
        Cardinality({i \in DOMAIN records :
          /\ inv.request # None => records[i].name = inv.request
          /\ inv.status # None => records[i].status = inv.status})
  IN
  /\ inv.equals # None => count = inv.equals
  /\ inv.min # None => count >= inv.min
  /\ inv.max # None => count <= inv.max

\* probe: what the target answers to the scenario's http_probe.
evaluateInvariants(sc, records, probe) ==
  {IF inv.type = "http_probe" THEN probe ELSE evaluateResponseCount(inv, records)
     : inv \in sc.invariants}

\* Any failed check and any record with an error fails the run.
Build(records, thresholds, invariants) ==
  IF \/ FALSE \in thresholds \cup invariants
     \/ \E i \in DOMAIN records : records[i].error
  THEN "failed" ELSE "passed"
=============================================================================
