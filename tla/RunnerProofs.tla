----------------------------- MODULE RunnerProofs ---------------------------
(***************************************************************************)
(* The theorems of Runner: what is sent and in which order, what a context *)
(* that ends leaves undone, and that traffic stays between the hooks, for  *)
(* any number of goroutines, iterations, requests, attempts and requests   *)
(* of the hooks.                                                           *)
(***************************************************************************)
EXTENDS Runner, FiniteSetTheorems, TLAPS

MaxAttempt == IF Attempts > Concurrency THEN Attempts ELSE Concurrency

\* What has to be recorded before s begins.
Ahead(mode, e, s) ==
  /\ e[1] = s[1]
  /\ \/ e[2] < s[2]
     \/ mode # "race" /\ e[2] = s[2] /\ e[3] < s[3]

\* The dispatcher is past it.
Dispatched(n, s) == s[1] < n[1] \/ (s[1] = n[1] /\ s[2] < n[2])

Busy(state) == state.pc \in {"check", "wait", "begin", "send"}

\* The goroutine will record s, unless the context ends.
Owes(mode, state, s) ==
  /\ Busy(state)
  /\ state.slot = s \/ (mode # "race" /\ Ahead(mode, state.slot, s))

\* What a goroutine works on is not recorded yet, and all before it is.
WorkInOrder ==
  \A w \in Workers :
    /\ worker[w].slot \in Planned
    /\ Busy(worker[w]) =>
         /\ records[worker[w].slot] = 0
         /\ Dispatched(next, worker[w].slot)
         /\ \A e \in Planned :
              Ahead(scenario.mode, e, worker[w].slot) => records[e] = 1

\* Two goroutines never share an iteration or, in a race, an attempt.
WorkApart ==
  \A w \in Workers : Busy(worker[w]) =>
    /\ scenario.mode = "race" => worker[w].slot[3] = w
    /\ scenario.mode # "race" =>
         \A v \in Workers : Busy(worker[v]) /\ v # w =>
           worker[v].slot[1] # worker[w].slot[1]

RecordsInOrder ==
  \A s \in AnySlot :
    /\ records[s] <= 1
    /\ records[s] = 1 =>
         /\ s \in Planned /\ Dispatched(next, s)
         /\ \A e \in Planned : Ahead(scenario.mode, e, s) => records[e] = 1

\* While the context lasts nothing that was dispatched is lost.
NothingLost ==
  ~over => \A s \in Planned : Dispatched(next, s) =>
             \/ records[s] = 1
             \/ \E w \in Workers : Owes(scenario.mode, worker[w], s)

Phases ==
  /\ scenario.mode # "race" => next[2] = 1
  /\ scenario.mode = "race" => \A w \in Workers : worker[w].pc # "recv"
  /\ phase \notin {"dispatch", "join"} => \A w \in Workers : ~Busy(worker[w])
  /\ phase \in {"join", "checks", "teardown"} => next[1] > Iterations \/ over
  /\ phase \in {"checks", "teardown"} => AllGone

\* The goroutines that may still begin a request after the context is over.
Waiting == {w \in Workers : worker[w].pc \in {"wait", "begin"}}

LateBegins ==
  /\ over => late + Cardinality(Waiting) <= Concurrency
  /\ ~over => late = 0

\* Only a context that is over lets the run go on with setup cut short, and
\* then no goroutine gets past its check of the context.
SetupFirst ==
  /\ phase \in {"dispatch", "join", "checks", "teardown"} =>
       setup = SetupSize \/ over
  /\ setup # SetupSize =>
       /\ late = 0 /\ \A s \in AnySlot : records[s] = 0
       /\ \A w \in Workers : worker[w].pc \notin {"wait", "begin", "send"}

TeardownLast ==
  teardown > 0 \/ verdict # "none" => phase \in {"teardown", "done"}

Inv ==
  /\ TypeOK /\ WorkInOrder /\ WorkApart /\ RecordsInOrder /\ NothingLost
  /\ Phases /\ LateBegins /\ SetupFirst /\ TeardownLast

-----------------------------------------------------------------------------
(* Slots                                                                   *)

\* Lemma: the sizes of the scenario are natural numbers.
LEMMA Sizes ==
  /\ Concurrency \in Nat /\ Concurrency >= 1
  /\ Iterations \in Nat /\ Iterations >= 1
  /\ Requests \in Nat /\ Requests >= 1
  /\ Attempts \in Nat /\ Attempts >= 1
  /\ MaxAttempt \in Nat /\ MaxAttempt >= Attempts /\ MaxAttempt >= Concurrency
BY RunnerAssumption DEF MaxAttempt

\* Lemma: a slot is its iteration, request and attempt.
LEMMA Slots ==
  /\ \A s \in AnySlot :
       /\ s[1] \in 1 .. Iterations /\ s[2] \in 1 .. Requests
       /\ s[3] \in 1 .. MaxAttempt /\ s = <<s[1], s[2], s[3]>>
  /\ \A i \in 1 .. Iterations, r \in 1 .. Requests, k \in 1 .. MaxAttempt :
       <<i, r, k>> \in AnySlot
BY DEF AnySlot, MaxAttempt

\* Lemma: how many attempts a request has.
LEMMA AttemptsOfMode ==
  ASSUME scenario \in Scenario
  PROVE  /\ attempts \in 1 .. MaxAttempt
         /\ scenario.mode = "race" => attempts = Concurrency
         /\ FirstSlot \in Planned
<1>1. scenario.mode \in {"load", "retry_storm", "race"}
  BY DEF Scenario
<1>2. /\ attempts \in {Attempts, Concurrency, 1}
      /\ scenario.mode = "race" => attempts = Concurrency
  BY <1>1 DEF attempts
<1>3. attempts \in 1 .. MaxAttempt
  BY <1>2, Sizes
<1>4. FirstSlot \in AnySlot /\ FirstSlot[3] = 1
  BY Sizes, Slots DEF FirstSlot
<1>5. FirstSlot[3] <= attempts
  BY <1>3, <1>4
<1>6. QED
  BY <1>2, <1>3, <1>4, <1>5 DEF Planned

\* Lemma: the order of slots has no cycles.
LEMMA AheadDiffers ==
  ASSUME NEW mode, NEW e \in AnySlot, NEW s \in AnySlot, Ahead(mode, e, s)
  PROVE  e # s
BY Slots, Sizes DEF Ahead

\* Lemma: after its slot a goroutine goes on to the one that is next in order,
\* and returns to the channel after the last; a racer has one slot.
LEMMA Continues ==
  ASSUME scenario \in Scenario,
         NEW state, state.slot \in Planned
  PROVE  LET x == Continued(state)
             s == state.slot
         IN
         /\ x \in [pc : WorkerPcs, slot : AnySlot, doomed : BOOLEAN]
         /\ x.slot \in Planned
         /\ x.pc \in {"check", "recv", "gone"}
         /\ scenario.mode = "race" => x.pc = "gone"
         /\ scenario.mode # "race" =>
              /\ Busy(x) =>
                   /\ x.slot[1] = s[1] /\ Ahead(scenario.mode, s, x.slot)
                   /\ \A e \in Planned : Ahead(scenario.mode, e, x.slot) =>
                        e = s \/ Ahead(scenario.mode, e, s)
              /\ \A e \in Planned : Ahead(scenario.mode, s, e) =>
                   Owes(scenario.mode, x, e)
<1> DEFINE x == Continued(state)
           s == state.slot
           mode == scenario.mode
<1>1. /\ s \in AnySlot /\ s[1] \in 1 .. Iterations /\ s[2] \in 1 .. Requests
      /\ s[3] \in 1 .. attempts /\ attempts \in 1 .. MaxAttempt
  BY Slots, Sizes, AttemptsOfMode DEF Planned
<1>2. ASSUME NEW p \in {"recv", "gone"}
      PROVE  /\ Unassigned(p) \in [pc : WorkerPcs, slot : AnySlot,
                                   doomed : BOOLEAN]
             /\ Unassigned(p).slot \in Planned /\ Unassigned(p).pc = p
             /\ ~Busy(Unassigned(p))
  <2>1. FirstSlot \in Planned /\ FirstSlot \in AnySlot
    BY AttemptsOfMode DEF Planned
  <2>2. QED
    BY <1>2, <2>1 DEF Unassigned, WorkerPcs, Busy
<1>3. ASSUME NEW z \in Planned
      PROVE  /\ Assigned(z) \in [pc : WorkerPcs, slot : AnySlot,
                                 doomed : BOOLEAN]
             /\ Assigned(z).slot = z /\ Assigned(z).pc = "check"
             /\ Busy(Assigned(z))
  BY <1>3 DEF Assigned, WorkerPcs, Busy, Planned
<1>4. CASE mode = "race"
  <2>1. x = Unassigned("gone")
    BY <1>4 DEF Continued
  <2>2. QED
    BY <1>2, <1>4, <2>1
<1>5. CASE mode # "race" /\ s[3] < attempts
  <2> DEFINE z == <<s[1], s[2], s[3] + 1>>
  <2>1. x = Assigned(z)
    BY <1>1, <1>5 DEF Continued
  <2>2. /\ z \in Planned
        /\ z[1] = s[1] /\ z[2] = s[2] /\ z[3] = s[3] + 1
    <3>1. s[3] + 1 \in 1 .. MaxAttempt /\ s[3] + 1 <= attempts
      BY <1>1, <1>5, Sizes
    <3>2. z \in AnySlot /\ z[3] = s[3] + 1
      BY <1>1, <3>1, Slots
    <3>3. QED
      BY <3>1, <3>2 DEF Planned
  <2> HIDE DEF z
  <2>3. Ahead(mode, s, z)
    BY <1>1, <1>5, <2>2, Sizes DEF Ahead
  <2>4. ASSUME NEW e \in Planned, Ahead(mode, e, z)
        PROVE  e = s \/ Ahead(mode, e, s)
    BY <1>1, <1>5, <2>2, <2>4, Sizes, Slots DEF Ahead, Planned
  <2>5. ASSUME NEW e \in Planned, Ahead(mode, s, e)
        PROVE  e = z \/ Ahead(mode, z, e)
    <3>1. e[1] \in Int /\ e[2] \in Int /\ e[3] \in Int /\ e[3] >= 1
      BY Slots, Sizes DEF Planned
    <3>2. e = <<e[1], e[2], e[3]>>
      BY Slots DEF Planned
    <3>3. Ahead(mode, z, e) \/ (e[1] = s[1] /\ e[2] = s[2] /\ e[3] = s[3] + 1)
      BY <1>1, <1>5, <2>2, <2>5, <3>1 DEF Ahead
    <3>4. QED
      BY <3>2, <3>3 DEF z
  <2> HIDE DEF x
  <2>6. QED
    BY <1>3, <1>5, <2>1, <2>2, <2>3, <2>4, <2>5 DEF Owes, x
<1>6. CASE mode # "race" /\ s[3] >= attempts /\ s[2] < Requests
  <2> DEFINE z == <<s[1], s[2] + 1, 1>>
  <2>1. x = Assigned(z)
    BY <1>1, <1>6 DEF Continued
  <2>2. /\ z \in Planned
        /\ z[1] = s[1] /\ z[2] = s[2] + 1 /\ z[3] = 1
    BY <1>1, <1>6, Sizes, Slots DEF Planned
  <2> HIDE DEF z
  <2>3. Ahead(mode, s, z)
    BY <1>1, <1>6, <2>2, Sizes DEF Ahead
  <2>4. ASSUME NEW e \in Planned, Ahead(mode, e, z)
        PROVE  e = s \/ Ahead(mode, e, s)
    <3>1. /\ e[1] \in Int /\ e[2] \in Int /\ e[3] \in Int
          /\ e[3] >= 1 /\ e[3] <= attempts
      BY Slots, Sizes DEF Planned
    <3>2. e = <<e[1], e[2], e[3]>> /\ s = <<s[1], s[2], s[3]>>
      BY <1>1, Slots DEF Planned
    <3>3. \/ Ahead(mode, e, s)
          \/ e[1] = s[1] /\ e[2] = s[2] /\ e[3] = s[3]
      BY <1>1, <1>6, <2>2, <2>4, <3>1 DEF Ahead
    <3>4. QED
      BY <3>2, <3>3
  <2>5. ASSUME NEW e \in Planned, Ahead(mode, s, e)
        PROVE  e = z \/ Ahead(mode, z, e)
    <3>1. /\ e[1] \in Int /\ e[2] \in Int /\ e[3] \in Int
          /\ e[3] >= 1 /\ e[3] <= attempts
      BY Slots, Sizes DEF Planned
    <3>2. e = <<e[1], e[2], e[3]>>
      BY Slots DEF Planned
    <3>3. Ahead(mode, z, e) \/ (e[1] = s[1] /\ e[2] = s[2] + 1 /\ e[3] = 1)
      BY <1>1, <1>6, <2>2, <2>5, <3>1 DEF Ahead
    <3>4. QED
      BY <3>2, <3>3 DEF z
  <2> HIDE DEF x
  <2>6. QED
    BY <1>3, <1>6, <2>1, <2>2, <2>3, <2>4, <2>5 DEF Owes, x
<1>7. CASE mode # "race" /\ s[3] >= attempts /\ s[2] >= Requests
  <2>1. x = Unassigned("recv")
    BY <1>1, <1>7, Sizes DEF Continued
  <2>2. \A e \in Planned : ~Ahead(mode, s, e)
    BY <1>1, <1>7, Sizes, Slots DEF Ahead, Planned
  <2> HIDE DEF x
  <2>3. QED
    BY <1>2, <1>7, <2>1, <2>2 DEF x
<1>8. QED
  BY <1>1, <1>4, <1>5, <1>6, <1>7, Sizes

-----------------------------------------------------------------------------
(* Late requests                                                           *)

\* Lemma: the goroutines that wait are finitely many.
LEMMA WaitingFinite ==
  ASSUME NEW S \in SUBSET Workers
  PROVE  /\ IsFiniteSet(S) /\ Cardinality(S) \in Nat
         /\ Cardinality(S) <= Concurrency
<1>1. IsFiniteSet(Workers) /\ Cardinality(Workers) = Concurrency
  BY Sizes, FS_Interval DEF Workers
<1>2. IsFiniteSet(S) /\ Cardinality(S) <= Cardinality(Workers)
  BY <1>1, FS_Subset
<1>3. QED
  BY <1>1, <1>2, FS_CardinalityType

\* Lemma: once the context is over, a step after which no more goroutines wait
\* than before leaves the bound as it is.
LEMMA LateKept ==
  ASSUME TypeOK, LateBegins, UNCHANGED <<over, late>>,
         over => Waiting' \subseteq Waiting
  PROVE  LateBegins'
<1>1. CASE ~over
  BY <1>1 DEF LateBegins
<1>2. CASE over
  <2> DEFINE A == Waiting
             B == Waiting'
  <2>1. A \in SUBSET Workers /\ B \subseteq A /\ B \in SUBSET Workers
    BY <1>2 DEF Waiting
  <2>2. late + Cardinality(A) <= Concurrency /\ late \in Nat
    BY <1>2 DEF LateBegins, TypeOK
  <2> HIDE DEF A, B
  <2>3. /\ Cardinality(B) <= Cardinality(A)
        /\ Cardinality(A) \in Nat /\ Cardinality(B) \in Nat
    BY <2>1, WaitingFinite, FS_Subset
  <2>4. late + Cardinality(B) <= Concurrency
    BY <2>2, <2>3, Sizes
  <2>5. QED
    BY <1>2, <2>4 DEF LateBegins, B
<1>3. QED
  BY <1>1, <1>2

\* Lemma: beginning a request late takes a goroutine out of those that wait.
LEMMA LateBegin ==
  ASSUME TypeOK, LateBegins, over, UNCHANGED over, late' = late + 1,
         NEW w \in Waiting, Waiting' = Waiting \ {w}
  PROVE  LateBegins'
<1> DEFINE A == Waiting
           B == Waiting'
<1>1. A \in SUBSET Workers /\ B = A \ {w} /\ w \in A
  BY DEF Waiting
<1>2. late + Cardinality(A) <= Concurrency /\ late \in Nat
  BY DEF LateBegins, TypeOK
<1> HIDE DEF A, B
<1>3. IsFiniteSet(A) /\ Cardinality(A) \in Nat
  BY <1>1, WaitingFinite
<1>4. Cardinality(B) = Cardinality(A) - 1
  BY <1>1, <1>3, FS_RemoveElement
<1>5. (late + 1) + Cardinality(B) <= Concurrency
  BY <1>2, <1>3, <1>4, Sizes
<1>6. QED
  BY <1>5 DEF LateBegins, B

\* Lemma: when the context ends, each goroutine may begin one more request.
LEMMA LateStarts ==
  ASSUME TypeOK, LateBegins, ~over, UNCHANGED <<late, worker>>
  PROVE  late' + Cardinality(Waiting') <= Concurrency
<1> DEFINE A == Waiting
<1>1. A \in SUBSET Workers /\ Waiting' = A /\ late' = 0
  BY DEF Waiting, LateBegins
<1> HIDE DEF A
<1>2. Cardinality(A) \in Nat /\ Cardinality(A) <= Concurrency
  BY <1>1, WaitingFinite
<1>3. QED
  BY <1>1, <1>2, Sizes

-----------------------------------------------------------------------------
(* Steps of RunWithOptions that leave the goroutines alone                 *)

\* Lemma: what does not concern the pool keeps its part of the invariant.
LEMMA PoolKept ==
  ASSUME Inv, UNCHANGED <<scenario, over>>, UNCHANGED poolVars
  PROVE  /\ WorkInOrder' /\ WorkApart' /\ RecordsInOrder' /\ NothingLost'
         /\ LateBegins'
<1>1. UNCHANGED <<scenario, over, next, worker, records, errored, late>>
  BY DEF poolVars
<1>2. Planned' = Planned
  BY <1>1 DEF Planned, attempts
<1>3. WorkInOrder' /\ WorkApart' /\ RecordsInOrder' /\ NothingLost'
  BY <1>1, <1>2 DEF Inv, WorkInOrder, WorkApart, RecordsInOrder, NothingLost
<1>4. LateBegins'
  BY <1>1, LateKept DEF Inv, Waiting
<1>5. QED
  BY <1>3, <1>4

\* Lemma: a run that its setup ends has failed.
LEMMA SetupRequestStep ==
  ASSUME Inv, NEW ok \in BOOLEAN, SetupRequest(ok)
  PROVE  Inv'
<1>1. /\ UNCHANGED <<scenario, over>> /\ UNCHANGED poolVars
      /\ phase = "setup" /\ setup < SetupSize /\ UNCHANGED teardown
      /\ \/ setup' = setup + 1 /\ UNCHANGED <<phase, failed, verdict>>
         \/ setup' = setup /\ failed' = TRUE /\ phase' = "done"
            /\ verdict' = "failed"
  BY DEF SetupRequest, Build
<1>2. UNCHANGED <<next, worker, records, errored, late>>
  BY <1>1 DEF poolVars
<1>3. TypeOK'
  <2>1. setup' \in 0 .. SetupSize
    BY <1>1, RunnerAssumption DEF Inv, TypeOK
  <2>2. QED
    BY <1>1, <1>2, <2>1 DEF Inv, TypeOK
<1>4. Phases'
  BY <1>1, <1>2 DEF Inv, Phases, AllGone
<1>5. SetupFirst'
  BY <1>1, <1>2, RunnerAssumption DEF Inv, SetupFirst, TypeOK
<1>6. TeardownLast'
  BY <1>1, <1>2 DEF Inv, TeardownLast
<1>7. QED
  BY <1>1, <1>3, <1>4, <1>5, <1>6, PoolKept DEF Inv

\* Lemma: the run goes on to its traffic.
LEMMA SetupEndsStep ==
  ASSUME Inv, SetupEnds
  PROVE  Inv'
<1>1. /\ UNCHANGED <<scenario, over, failed, verdict>> /\ UNCHANGED poolVars
      /\ phase = "setup" /\ phase' = "dispatch"
      /\ UNCHANGED <<setup, teardown>> /\ (setup = SetupSize \/ over)
  BY DEF SetupEnds
<1>2. UNCHANGED <<next, worker, records, errored, late>>
  BY <1>1 DEF poolVars
<1>3. TypeOK'
  BY <1>1, <1>2, RunnerAssumption DEF Inv, TypeOK
<1>4. Phases'
  BY <1>1, <1>2 DEF Inv, Phases, AllGone
<1>5. SetupFirst'
  BY <1>1, <1>2, RunnerAssumption DEF Inv, SetupFirst, TypeOK
<1>6. TeardownLast'
  BY <1>1, <1>2 DEF Inv, TeardownLast
<1>7. QED
  BY <1>1, <1>3, <1>4, <1>5, <1>6, PoolKept DEF Inv

\* Lemma: the dispatcher stops after the last iteration or with the context,
\* and waits for the goroutines.
LEMMA DispatchEndsStep ==
  ASSUME Inv, CloseJobs \/ EndRaces \/ Join
  PROVE  Inv'
<1>1. /\ UNCHANGED <<scenario, over, setup, teardown, failed, verdict>>
      /\ UNCHANGED poolVars
      /\ \/ /\ phase = "dispatch" /\ phase' = "join"
            /\ next[1] > Iterations \/ over
         \/ phase = "join" /\ phase' = "checks" /\ AllGone
  BY DEF CloseJobs, EndRaces, Join, RestUnchanged
<1>2. UNCHANGED <<next, worker, records, errored, late>>
  BY <1>1 DEF poolVars
<1>3. TypeOK'
  BY <1>1, <1>2 DEF Inv, TypeOK
<1>4. Phases'
  <2>1. AllGone => \A w \in Workers : ~Busy(worker[w])
    BY DEF AllGone, Busy
  <2>2. AllGone' = AllGone
    BY <1>2 DEF AllGone
  <2>3. QED
    BY <1>1, <1>2, <2>1, <2>2 DEF Inv, Phases
<1>5. SetupFirst'
  BY <1>1, <1>2, RunnerAssumption DEF Inv, SetupFirst, TypeOK
<1>6. TeardownLast'
  BY <1>1, <1>2 DEF Inv, TeardownLast
<1>7. QED
  BY <1>1, <1>3, <1>4, <1>5, <1>6, PoolKept DEF Inv

\* Lemma: the checks have an outcome.
LEMMA EvaluateStep ==
  ASSUME Inv, NEW good \in [Checks -> BOOLEAN], Evaluate(good)
  PROVE  Inv'
<1>1. /\ UNCHANGED <<scenario, over, setup, teardown, verdict>>
      /\ UNCHANGED poolVars
      /\ phase = "checks" /\ phase' = "teardown"
      /\ failed' = \E check \in scenario.checks : CheckFails(check, good[check])
  BY DEF Evaluate
<1>2. UNCHANGED <<next, worker, records, errored, late>>
  BY <1>1 DEF poolVars
<1>3. TypeOK'
  <2>1. failed' \in BOOLEAN
    BY <1>1
  <2>2. QED
    BY <1>1, <1>2, <2>1 DEF Inv, TypeOK
<1>4. Phases'
  BY <1>1, <1>2 DEF Inv, Phases, AllGone
<1>5. SetupFirst'
  BY <1>1, <1>2, RunnerAssumption DEF Inv, SetupFirst, TypeOK
<1>6. TeardownLast'
  BY <1>1, <1>2 DEF Inv, TeardownLast
<1>7. QED
  BY <1>1, <1>3, <1>4, <1>5, <1>6, PoolKept DEF Inv

\* Lemma: traffic that the context let finish is complete.
LEMMA Completeness ==
  ASSUME Inv, phase \in {"checks", "teardown"}, ~over
  PROVE  \A s \in Planned : records[s] = 1
<1> SUFFICES ASSUME NEW s \in Planned PROVE records[s] = 1
  OBVIOUS
<1>1. next[1] > Iterations /\ \A w \in Workers : worker[w].pc = "gone"
  BY DEF Inv, Phases, AllGone
<1>2. s \in AnySlot /\ s[1] \in 1 .. Iterations
  BY Slots DEF Planned
<1>3. next[1] \in Nat
  BY Sizes DEF Inv, TypeOK
<1>4. Dispatched(next, s)
  BY <1>1, <1>2, <1>3, Sizes DEF Dispatched
<1>5. \A w \in Workers : ~Owes(scenario.mode, worker[w], s)
  BY <1>1 DEF Owes, Busy
<1>6. QED
  BY <1>4, <1>5 DEF Inv, NothingLost

\* Lemma: a run that teardown ends has failed.
LEMMA TeardownRequestStep ==
  ASSUME Inv, NEW ok \in BOOLEAN, TeardownRequest(ok)
  PROVE  Inv'
<1>1. /\ UNCHANGED <<scenario, over>> /\ UNCHANGED poolVars
      /\ phase = "teardown" /\ teardown < TeardownSize /\ UNCHANGED setup
      /\ \/ teardown' = teardown + 1 /\ UNCHANGED <<phase, failed, verdict>>
         \/ teardown' = teardown /\ failed' = TRUE /\ phase' = "done"
            /\ verdict' = "failed"
  BY DEF TeardownRequest, Build
<1>2. UNCHANGED <<next, worker, records, errored, late>>
  BY <1>1 DEF poolVars
<1>3. TypeOK'
  <2>1. teardown' \in 0 .. TeardownSize
    BY <1>1, RunnerAssumption DEF Inv, TypeOK
  <2>2. QED
    BY <1>1, <1>2, <2>1 DEF Inv, TypeOK
<1>4. Phases'
  BY <1>1, <1>2 DEF Inv, Phases, AllGone
<1>5. SetupFirst'
  BY <1>1, <1>2, RunnerAssumption DEF Inv, SetupFirst, TypeOK
<1>6. TeardownLast'
  BY <1>1, <1>2 DEF Inv, TeardownLast
<1>7. QED
  BY <1>1, <1>3, <1>4, <1>5, <1>6, PoolKept DEF Inv

\* Lemma: the verdict.
LEMMA TeardownEndsStep ==
  ASSUME Inv, TeardownEnds
  PROVE  Inv'
<1>1. /\ UNCHANGED <<scenario, over, setup, teardown, failed>>
      /\ UNCHANGED poolVars
      /\ phase = "teardown" /\ phase' = "done"
      /\ verdict' = IF failed \/ errored THEN "failed" ELSE "passed"
  BY DEF TeardownEnds, Build
<1>2. UNCHANGED <<next, worker, records, errored, late>>
  BY <1>1 DEF poolVars
<1>3. TypeOK'
  BY <1>1, <1>2 DEF Inv, TypeOK
<1>4. Phases'
  BY <1>1, <1>2 DEF Inv, Phases, AllGone, Busy
<1>5. SetupFirst'
  BY <1>1, <1>2, RunnerAssumption DEF Inv, SetupFirst, TypeOK
<1>6. TeardownLast'
  BY <1>1, <1>2 DEF Inv, TeardownLast
<1>7. QED
  BY <1>1, <1>3, <1>4, <1>5, <1>6, PoolKept DEF Inv

\* Lemma: the context may end at any moment.
LEMMA ContextEndsStep ==
  ASSUME Inv, ContextEnds
  PROVE  Inv'
<1>1. /\ ~over /\ phase # "done" /\ over' = TRUE
      /\ UNCHANGED <<scenario, phase, setup, teardown, failed, verdict>>
      /\ UNCHANGED <<next, worker, records, errored, late>>
  BY DEF ContextEnds, poolVars
<1>2. Planned' = Planned /\ Recorded' = Recorded /\ AllGone' = AllGone
  BY <1>1 DEF Planned, attempts, Recorded, AllGone
<1>3. TypeOK'
  BY <1>1 DEF Inv, TypeOK
<1>4. WorkInOrder' /\ WorkApart' /\ RecordsInOrder' /\ NothingLost'
  BY <1>1, <1>2 DEF Inv, WorkInOrder, WorkApart, RecordsInOrder, NothingLost
<1>5. LateBegins'
  BY <1>1, LateStarts DEF Inv, LateBegins
<1>6. Phases'
  BY <1>1, <1>2 DEF Inv, Phases
<1>7. SetupFirst' /\ TeardownLast'
  BY <1>1, <1>2 DEF Inv, SetupFirst, TeardownLast
<1>8. QED
  BY <1>3, <1>4, <1>5, <1>6, <1>7 DEF Inv

-----------------------------------------------------------------------------
(* Steps of the goroutines                                                 *)

WorkerType == [pc : WorkerPcs, slot : AnySlot, doomed : BOOLEAN]

\* Lemma: a goroutine goes on with its slot, or gives it up when the context
\* is over.
LEMMA WorkerMoved ==
  ASSUME Inv, NEW w \in Workers, NEW x \in WorkerType,
         worker' = [worker EXCEPT ![w] = x],
         UNCHANGED <<phase, next, records, errored>>, RestUnchanged,
         late' \in Nat, LateBegins', x.pc # "recv",
         setup = SetupSize \/ (UNCHANGED late /\ x.pc = "gone"),
         \/ x.slot = worker[w].slot /\ Busy(worker[w]) /\ Busy(x)
         \/ x.slot \in Planned /\ ~Busy(x) /\ (over \/ ~Busy(worker[w]))
  PROVE  Inv'
<1>1. UNCHANGED <<scenario, over, setup, teardown, failed, verdict>>
  BY DEF RestUnchanged
<1>2. /\ \A v \in Workers : worker'[v] = IF v = w THEN x ELSE worker[v]
      /\ worker' \in [Workers -> WorkerType]
  BY DEF Inv, TypeOK, WorkerType
<1>3. /\ Planned' = Planned /\ Recorded' = Recorded
      /\ worker[w].slot \in Planned
  BY <1>1 DEF Planned, attempts, Recorded, Inv, WorkInOrder
<1>4. TypeOK'
  BY <1>1, <1>2 DEF Inv, TypeOK, WorkerType
<1>5. WorkInOrder'
  BY <1>1, <1>2, <1>3 DEF Inv, WorkInOrder
<1>6. WorkApart'
  BY <1>1, <1>2 DEF Inv, WorkApart
<1>7. RecordsInOrder'
  BY <1>1, <1>3 DEF Inv, RecordsInOrder
<1>8. NothingLost'
  <2> SUFFICES ASSUME ~over, NEW s \in Planned, Dispatched(next, s),
                      records[s] # 1
               PROVE  \E v \in Workers : Owes(scenario.mode, worker'[v], s)
    BY <1>1, <1>3 DEF NothingLost
  <2>1. PICK v \in Workers : Owes(scenario.mode, worker[v], s)
    BY DEF Inv, NothingLost
  <2>2. CASE v # w
    BY <1>2, <2>1, <2>2
  <2>3. CASE v = w
    BY <1>2, <2>1, <2>3 DEF Owes
  <2>4. QED
    BY <2>2, <2>3
<1>9. Phases'
  <2>1. ASSUME NEW v \in Workers, ~Busy(worker[v])
        PROVE  ~Busy(worker'[v])
    BY <1>2, <2>1
  <2>2. AllGone => AllGone'
    <3>1. ~Busy(x) => x.pc = "gone"
      BY DEF Busy, WorkerType, WorkerPcs
    <3>2. AllGone => ~Busy(worker[w])
      BY DEF AllGone, Busy
    <3>3. QED
      BY <1>2, <3>1, <3>2 DEF AllGone
  <2>3. \A v \in Workers : worker[v].pc # "recv" => worker'[v].pc # "recv"
    BY <1>2
  <2>4. QED
    BY <1>1, <2>1, <2>2, <2>3 DEF Inv, Phases
<1>10. SetupFirst' /\ TeardownLast'
  BY <1>1, <1>2 DEF Inv, SetupFirst, TeardownLast
<1>11. QED
  BY <1>4, <1>5, <1>6, <1>7, <1>8, <1>9, <1>10 DEF Inv

\* Lemma: a move that does not bring a goroutine to its next request.
LEMMA WaitingKept ==
  ASSUME Inv, NEW w \in Workers, NEW x, worker' = [worker EXCEPT ![w] = x],
         UNCHANGED <<over, late>>,
         over /\ x.pc \in {"wait", "begin"} => w \in Waiting
  PROVE  LateBegins'
<1>1. \A v \in Workers : worker'[v] = IF v = w THEN x ELSE worker[v]
  BY DEF Inv, TypeOK
<1>2. over => Waiting' \subseteq Waiting
  BY <1>1 DEF Waiting
<1>3. QED
  BY <1>2, LateKept DEF Inv

\* Lemma: a goroutine goes on, or returns when the context is over.
LEMMA WorkerGoesStep ==
  ASSUME Inv, NEW w \in Workers,
         \/ \E pc \in {"wait", "begin"} :
              /\ WorkerGoes(w, pc) /\ Busy(worker[w]) /\ setup = SetupSize
              /\ over => w \in Waiting
         \/ WorkerReturns(w) /\ over
         \/ RangeEnds(w)
  PROVE  Inv'
<1>1. worker \in [Workers -> WorkerType] /\ late \in Nat
  BY DEF Inv, TypeOK, WorkerType
<1>2. ASSUME NEW pc \in {"wait", "begin"}, WorkerGoes(w, pc), Busy(worker[w]),
             setup = SetupSize, over => w \in Waiting
      PROVE  Inv'
  <2> DEFINE x == [worker[w] EXCEPT !.pc = pc]
  <2>1. /\ worker' = [worker EXCEPT ![w] = x]
        /\ UNCHANGED <<phase, next, records, errored, late>> /\ RestUnchanged
    BY <1>2 DEF WorkerGoes
  <2>2. x \in WorkerType /\ x.pc = pc /\ x.slot = worker[w].slot
    BY <1>1 DEF WorkerType, WorkerPcs
  <2> HIDE DEF x
  <2>3. Busy(x) /\ x.pc # "recv"
    BY <2>2 DEF Busy
  <2>4. LateBegins'
    BY <1>2, <2>1, WaitingKept DEF RestUnchanged
  <2>5. QED
    BY <1>1, <1>2, <2>1, <2>2, <2>3, <2>4, WorkerMoved
<1>3. ASSUME WorkerReturns(w), over
      PROVE  Inv'
  <2> DEFINE x == Unassigned("gone")
  <2>1. /\ worker' = [worker EXCEPT ![w] = x]
        /\ UNCHANGED <<phase, next, records, errored, late>> /\ RestUnchanged
    BY <1>3 DEF WorkerReturns
  <2>2. FirstSlot \in Planned /\ FirstSlot \in AnySlot
    BY AttemptsOfMode DEF Inv, TypeOK, Planned
  <2>3. x \in WorkerType /\ x.pc = "gone" /\ x.slot \in Planned
    BY <2>2 DEF WorkerType, WorkerPcs, Unassigned
  <2> HIDE DEF x
  <2>4. ~Busy(x)
    BY <2>3 DEF Busy
  <2>5. LateBegins'
    BY <2>1, <2>3, WaitingKept DEF RestUnchanged
  <2>6. QED
    BY <1>1, <1>3, <2>1, <2>3, <2>4, <2>5, WorkerMoved
<1>4. ASSUME RangeEnds(w)
      PROVE  Inv'
  <2> DEFINE x == [worker[w] EXCEPT !.pc = "gone"]
  <2>1. /\ worker' = [worker EXCEPT ![w] = x]
        /\ UNCHANGED <<phase, next, records, errored, late>> /\ RestUnchanged
        /\ worker[w].pc = "recv"
    BY <1>4 DEF RangeEnds
  <2>2. x \in WorkerType /\ x.pc = "gone" /\ x.slot = worker[w].slot
    BY <1>1 DEF WorkerType, WorkerPcs
  <2> HIDE DEF x
  <2>3. ~Busy(x) /\ ~Busy(worker[w]) /\ x.slot \in Planned
    BY <2>1, <2>2 DEF Busy, Inv, WorkInOrder
  <2>4. LateBegins'
    BY <2>1, <2>2, WaitingKept DEF RestUnchanged
  <2>5. QED
    BY <1>1, <2>1, <2>2, <2>3, <2>4, WorkerMoved
<1>5. QED
  BY <1>2, <1>3, <1>4

\* Lemma: the checks of the context on the way to a request.
LEMMA ContextCheckedStep ==
  ASSUME Inv, NEW w \in Workers, CheckContext(w) \/ limiterWait(w)
  PROVE  Inv'
<1>1. CASE CheckContext(w)
  <2>1. Busy(worker[w])
    BY <1>1 DEF CheckContext, Busy
  <2>2. (over /\ WorkerReturns(w)) \/ (~over /\ WorkerGoes(w, "wait"))
    BY <1>1 DEF CheckContext
  <2>3. setup = SetupSize \/ over
    BY <2>1 DEF Inv, Phases, SetupFirst
  <2>4. QED
    BY <2>1, <2>2, <2>3, WorkerGoesStep
<1>2. CASE limiterWait(w)
  <2>1. Busy(worker[w]) /\ w \in Waiting /\ setup = SetupSize
    BY <1>2 DEF limiterWait, Busy, Waiting, Inv, SetupFirst
  <2>2. (over /\ WorkerReturns(w)) \/ WorkerGoes(w, "begin")
    BY <1>2 DEF limiterWait
  <2>3. QED
    BY <2>1, <2>2, WorkerGoesStep
<1>3. QED
  BY <1>1, <1>2

\* Lemma: a request is begun.
LEMMA BeginRequestStep ==
  ASSUME Inv, NEW w \in Workers, BeginRequest(w)
  PROVE  Inv'
<1> DEFINE x == [worker[w] EXCEPT !.pc = "send", !.doomed = over]
<1>1. worker \in [Workers -> WorkerType] /\ late \in Nat /\ over \in BOOLEAN
  BY DEF Inv, TypeOK, WorkerType
<1>2. /\ worker' = [worker EXCEPT ![w] = x]
      /\ UNCHANGED <<phase, next, records, errored>> /\ RestUnchanged
      /\ UNCHANGED over
      /\ worker[w].pc = "begin" /\ late' = late + (IF over THEN 1 ELSE 0)
  BY <1>1 DEF BeginRequest, WorkerType, RestUnchanged
<1>3. x \in WorkerType /\ x.pc = "send" /\ x.slot = worker[w].slot
  BY <1>1 DEF WorkerType, WorkerPcs
<1> HIDE DEF x
<1>4. Busy(x) /\ Busy(worker[w]) /\ late' \in Nat
  BY <1>1, <1>2, <1>3 DEF Busy
<1>5. setup = SetupSize
  BY <1>2 DEF Inv, SetupFirst
<1>6. LateBegins'
  <2>1. CASE ~over
    BY <1>1, <1>2, <2>1 DEF Inv, LateBegins
  <2>2. CASE over
    <3>1. \A v \in Workers : worker'[v] = IF v = w THEN x ELSE worker[v]
      BY <1>1, <1>2
    <3>2. w \in Waiting /\ Waiting' = Waiting \ {w}
      BY <1>2, <1>3, <3>1 DEF Waiting
    <3>3. late' = late + 1
      BY <1>2, <2>2
    <3>4. QED
      BY <1>2, <2>2, <3>2, <3>3, LateBegin DEF Inv
  <2>3. QED
    BY <2>1, <2>2
<1>7. QED
  BY <1>2, <1>3, <1>4, <1>5, <1>6, WorkerMoved

\* Lemma: a record is added once, after those before it, and the goroutine
\* still owes what is left of its iteration.
LEMMA EndRequestStep ==
  ASSUME Inv, NEW w \in Workers, NEW ok \in BOOLEAN, EndRequest(w, ok)
  PROVE  Inv'
<1> DEFINE s == worker[w].slot
           x == Continued(worker[w])
           mode == scenario.mode
<1>1. worker \in [Workers -> WorkerType] /\ records \in [AnySlot -> Nat]
  BY DEF Inv, TypeOK, WorkerType
<1>2. /\ worker[w].pc = "send"
      /\ worker' = [worker EXCEPT ![w] = x]
      /\ records' = [records EXCEPT ![s] = records[s] + 1]
      /\ errored' = (errored \/ ~ok)
      /\ UNCHANGED <<phase, next, late>>
      /\ UNCHANGED <<scenario, over, setup, teardown, failed, verdict>>
  BY DEF EndRequest, RestUnchanged
<1>3. Busy(worker[w]) /\ phase \in {"dispatch", "join"}
  BY <1>2 DEF Busy, Inv, Phases
<1>4. /\ s \in Planned /\ s \in AnySlot /\ records[s] = 0 /\ Dispatched(next, s)
      /\ \A e \in Planned : Ahead(mode, e, s) => records[e] = 1
  BY <1>3 DEF Inv, WorkInOrder, Planned
<1>5. Planned' = Planned
  BY <1>2 DEF Planned, attempts
<1>6. /\ x \in WorkerType /\ x.slot \in Planned
      /\ x.pc \in {"check", "recv", "gone"}
      /\ mode = "race" => x.pc = "gone"
      /\ mode # "race" =>
           /\ Busy(x) =>
                /\ x.slot[1] = s[1] /\ Ahead(mode, s, x.slot)
                /\ \A e \in Planned : Ahead(mode, e, x.slot) =>
                     e = s \/ Ahead(mode, e, s)
           /\ \A e \in Planned : Ahead(mode, s, e) => Owes(mode, x, e)
  BY <1>4, Continues DEF Inv, TypeOK, WorkerType
<1> HIDE DEF x
<1>7. /\ worker' \in [Workers -> WorkerType]
      /\ \A v \in Workers : worker'[v] = IF v = w THEN x ELSE worker[v]
  BY <1>1, <1>2, <1>6
<1>8. /\ records' \in [AnySlot -> Nat]
      /\ \A e \in AnySlot : records'[e] = IF e = s THEN 1 ELSE records[e]
  BY <1>1, <1>2, <1>4
<1>9. \A e \in Planned : e \in AnySlot /\ (records[e] = 1 => records'[e] = 1)
  BY <1>4, <1>8 DEF Planned
<1>10. Busy(x) => mode # "race" /\ x.pc = "check"
  BY <1>6 DEF Busy
<1>11. TypeOK'
  BY <1>2, <1>7, <1>8 DEF Inv, TypeOK, WorkerType
<1>12. WorkInOrder'
  <2> SUFFICES ASSUME NEW v \in Workers
               PROVE  /\ worker'[v].slot \in Planned
                      /\ Busy(worker'[v]) =>
                           /\ records'[worker'[v].slot] = 0
                           /\ Dispatched(next, worker'[v].slot)
                           /\ \A e \in Planned :
                                Ahead(mode, e, worker'[v].slot) =>
                                  records'[e] = 1
    BY <1>2, <1>5 DEF WorkInOrder
  <2>1. CASE v = w
    <3>1. SUFFICES ASSUME Busy(x)
                   PROVE  /\ records'[x.slot] = 0 /\ Dispatched(next, x.slot)
                          /\ \A e \in Planned : Ahead(mode, e, x.slot) =>
                               records'[e] = 1
      BY <1>6, <1>7, <2>1
    <3>2. /\ mode # "race" /\ x.slot[1] = s[1] /\ Ahead(mode, s, x.slot)
          /\ \A e \in Planned : Ahead(mode, e, x.slot) =>
               e = s \/ Ahead(mode, e, s)
      BY <1>6, <1>10, <3>1
    <3>3. records'[x.slot] = 0
      <4>1. x.slot # s /\ x.slot \in AnySlot
        BY <1>4, <1>6, <3>2, AheadDiffers DEF Planned
      <4>2. records[x.slot] # 1
        BY <1>4, <3>2, <4>1 DEF Inv, RecordsInOrder
      <4>3. records[x.slot] \in Nat /\ records[x.slot] <= 1
        BY <1>1, <4>1 DEF Inv, RecordsInOrder
      <4>4. records[x.slot] = 0
        BY <4>2, <4>3
      <4>5. QED
        BY <1>8, <4>1, <4>4
    <3>4. Dispatched(next, x.slot)
      <4>1. next[2] = 1 /\ next[1] \in Nat
        BY <3>2, Sizes DEF Inv, Phases, TypeOK
      <4>2. s[1] \in Nat /\ s[2] \in Nat /\ s[2] >= 1
        BY <1>4, Slots, Sizes
      <4>3. QED
        BY <1>4, <3>2, <4>1, <4>2 DEF Dispatched
    <3>5. \A e \in Planned : Ahead(mode, e, x.slot) => records'[e] = 1
      BY <1>4, <1>8, <1>9, <3>2
    <3>6. QED
      BY <3>3, <3>4, <3>5
  <2>2. CASE v # w
    <3>1. worker'[v] = worker[v] /\ worker[v].slot \in Planned
      BY <1>7, <2>2 DEF Inv, WorkInOrder
    <3>2. Busy(worker[v]) => worker[v].slot # s
      BY <1>3, <2>2 DEF Inv, WorkApart
    <3>3. QED
      BY <1>8, <1>9, <3>1, <3>2 DEF Inv, WorkInOrder
  <2>3. QED
    BY <2>1, <2>2
<1>13. WorkApart'
  <2>1. ASSUME NEW v \in Workers, Busy(worker'[v])
        PROVE  Busy(worker[v]) /\ worker'[v].slot[1] = worker[v].slot[1]
               /\ (mode = "race" => worker'[v] = worker[v])
    BY <1>3, <1>6, <1>7, <1>10, <2>1
  <2>2. QED
    BY <1>2, <2>1 DEF Inv, WorkApart
<1>14. RecordsInOrder'
  <2> SUFFICES ASSUME NEW e \in AnySlot
               PROVE  /\ records'[e] <= 1
                      /\ records'[e] = 1 =>
                           /\ e \in Planned /\ Dispatched(next, e)
                           /\ \A d \in Planned : Ahead(mode, d, e) =>
                                records'[d] = 1
    BY <1>2, <1>5 DEF RecordsInOrder
  <2>1. CASE e = s
    BY <1>4, <1>8, <1>9, <2>1
  <2>2. CASE e # s
    BY <1>8, <1>9, <2>2 DEF Inv, RecordsInOrder
  <2>3. QED
    BY <2>1, <2>2
<1>15. NothingLost'
  <2> SUFFICES ASSUME ~over, NEW e \in Planned, Dispatched(next, e),
                      records'[e] # 1
               PROVE  \E v \in Workers : Owes(mode, worker'[v], e)
    BY <1>2, <1>5 DEF NothingLost
  <2>1. e # s /\ records[e] # 1
    BY <1>4, <1>8, <1>9
  <2>2. PICK v \in Workers : Owes(mode, worker[v], e)
    BY <2>1 DEF Inv, NothingLost
  <2>3. CASE v # w
    BY <1>7, <2>2, <2>3
  <2>4. CASE v = w
    <3>1. mode # "race" /\ Ahead(mode, s, e)
      BY <2>1, <2>2, <2>4 DEF Owes
    <3>2. Owes(mode, x, e)
      BY <1>6, <3>1
    <3>3. QED
      BY <1>7, <3>2
  <2>5. QED
    BY <2>3, <2>4
<1>16. Phases'
  <2>1. mode = "race" => \A v \in Workers : worker'[v].pc # "recv"
    BY <1>6, <1>7 DEF Inv, Phases
  <2>2. QED
    BY <1>2, <1>3, <2>1 DEF Inv, Phases
<1>17. LateBegins'
  BY <1>2, <1>6, WaitingKept
<1>18. SetupFirst' /\ TeardownLast'
  BY <1>2, <1>3 DEF Inv, SetupFirst, TeardownLast
<1>19. QED
  BY <1>11, <1>12, <1>13, <1>14, <1>15, <1>16, <1>17, <1>18 DEF Inv

-----------------------------------------------------------------------------
(* Dispatch                                                                *)

\* Lemma: an assignment.
LEMMA AssignedFields ==
  ASSUME scenario \in Scenario, NEW z \in Planned
  PROVE  /\ Assigned(z) \in WorkerType /\ Assigned(z).slot = z
         /\ Assigned(z).pc = "check" /\ Busy(Assigned(z))
BY DEF Assigned, WorkerType, WorkerPcs, Busy, Planned

\* Lemma: what is not dispatched is not recorded, and no goroutine is at it.
LEMMA Untouched ==
  ASSUME Inv, NEW z \in AnySlot, ~Dispatched(next, z)
  PROVE  records[z] = 0
<1>1. records[z] \in Nat /\ records[z] <= 1 /\ records[z] # 1
  BY DEF Inv, TypeOK, RecordsInOrder
<1>2. QED
  BY <1>1

\* Lemma: a worker that takes an iteration owes all of it, and nobody else
\* is at it.
LEMMA SendJobStep ==
  ASSUME Inv, NEW w \in Workers, SendJob(w)
  PROVE  Inv'
<1> DEFINE z == <<next[1], 1, 1>>
           x == Assigned(z)
           mode == scenario.mode
<1>1. /\ phase = "dispatch" /\ mode # "race" /\ next[1] <= Iterations
      /\ worker[w].pc = "recv"
      /\ worker' = [worker EXCEPT ![w] = x]
      /\ next' = <<next[1] + 1, 1>>
      /\ UNCHANGED <<phase, records, errored, late>>
      /\ UNCHANGED <<scenario, over, setup, teardown, failed, verdict>>
  BY DEF SendJob, RestUnchanged
<1>2. worker \in [Workers -> WorkerType] /\ scenario \in Scenario
  BY DEF Inv, TypeOK, WorkerType
<1>3. next[1] \in 1 .. Iterations /\ next[2] = 1 /\ next[1] \in Nat
  BY <1>1, Sizes DEF Inv, TypeOK, Phases
<1>4. z \in Planned /\ z \in AnySlot /\ z[1] = next[1] /\ z[2] = 1 /\ z[3] = 1
  <2>1. z \in AnySlot
    BY <1>3, Sizes, Slots
  <2>2. attempts \in 1 .. MaxAttempt
    BY <1>2, AttemptsOfMode
  <2>3. z[3] <= attempts
    BY <2>2, Sizes
  <2>4. QED
    BY <2>1, <2>3 DEF Planned
<1> HIDE DEF z
<1>5. x \in WorkerType /\ x.slot = z /\ x.pc = "check" /\ Busy(x)
  BY <1>2, <1>4, AssignedFields
<1> HIDE DEF x
<1>6. /\ worker' \in [Workers -> WorkerType]
      /\ \A v \in Workers : worker'[v] = IF v = w THEN x ELSE worker[v]
  BY <1>1, <1>2, <1>5
<1>7. Planned' = Planned /\ Recorded' = Recorded
  BY <1>1 DEF Planned, attempts, Recorded
<1>8. next'[1] = next[1] + 1 /\ next'[2] = 1
  BY <1>1
<1>9. \A s \in AnySlot :
        /\ Dispatched(next, s) <=> s[1] < next[1]
        /\ Dispatched(next', s) <=> s[1] < next[1] \/ s[1] = next[1]
  BY <1>3, <1>8, Slots, Sizes DEF Dispatched
<1>10. ~Busy(worker[w])
  BY <1>1 DEF Busy
<1>11. TypeOK'
  <2>1. next' \in (1 .. (Iterations + 1)) \X (1 .. Requests)
    BY <1>1, <1>3, Sizes
  <2>2. QED
    BY <1>1, <1>6, <2>1 DEF Inv, TypeOK, WorkerType
<1>12. WorkInOrder'
  <2> SUFFICES ASSUME NEW v \in Workers
               PROVE  /\ worker'[v].slot \in Planned
                      /\ Busy(worker'[v]) =>
                           /\ records[worker'[v].slot] = 0
                           /\ Dispatched(next', worker'[v].slot)
                           /\ \A e \in Planned :
                                Ahead(mode, e, worker'[v].slot) =>
                                  records[e] = 1
    BY <1>1, <1>7 DEF WorkInOrder
  <2>1. CASE v = w
    <3>1. records[z] = 0 /\ Dispatched(next', z)
      BY <1>3, <1>4, <1>9, Untouched
    <3>2. \A e \in Planned : ~Ahead(mode, e, z)
      BY <1>4, Slots, Sizes DEF Ahead, Planned
    <3>3. QED
      BY <1>4, <1>5, <1>6, <2>1, <3>1, <3>2
  <2>2. CASE v # w
    <3>1. worker'[v] = worker[v] /\ worker[v].slot \in AnySlot
      BY <1>2, <1>6, <2>2 DEF WorkerType
    <3>2. QED
      BY <1>9, <3>1 DEF Inv, WorkInOrder
  <2>3. QED
    BY <2>1, <2>2
<1>13. WorkApart'
  <2>1. ASSUME NEW v \in Workers, Busy(worker[v])
        PROVE  worker[v].slot[1] # next[1]
    <3>1. worker[v].slot \in AnySlot /\ Dispatched(next, worker[v].slot)
      BY <1>2, <2>1 DEF Inv, WorkInOrder, WorkerType
    <3>2. worker[v].slot[1] < next[1] /\ worker[v].slot[1] \in Int
      BY <1>9, <3>1, Slots, Sizes
    <3>3. QED
      BY <1>3, <3>2
  <2>2. QED
    BY <1>1, <1>4, <1>5, <1>6, <2>1 DEF Inv, WorkApart
<1>14. RecordsInOrder'
  BY <1>1, <1>7, <1>9 DEF Inv, RecordsInOrder
<1>15. NothingLost'
  <2> SUFFICES ASSUME ~over, NEW s \in Planned, Dispatched(next', s),
                      records[s] # 1
               PROVE  \E v \in Workers : Owes(mode, worker'[v], s)
    BY <1>1, <1>7 DEF NothingLost
  <2>1. CASE Dispatched(next, s)
    <3>1. PICK v \in Workers : Owes(mode, worker[v], s)
      BY <2>1 DEF Inv, NothingLost
    <3>2. v # w
      BY <1>10, <3>1 DEF Owes
    <3>3. QED
      BY <1>6, <3>1, <3>2
  <2>2. CASE ~Dispatched(next, s)
    <3>1. s \in AnySlot /\ s[1] = next[1]
      BY <1>9, <2>2 DEF Planned
    <3>2. s = z \/ Ahead(mode, z, s)
      <4>1. s = <<s[1], s[2], s[3]>>
        BY <3>1, Slots
      <4>2. /\ s[2] \in Nat /\ s[2] >= 1 /\ s[3] \in Nat /\ s[3] >= 1
        BY <3>1, Slots, Sizes
      <4>3. CASE s[2] = 1 /\ s[3] = 1
        BY <3>1, <4>1, <4>3 DEF z
      <4>4. CASE ~(s[2] = 1 /\ s[3] = 1)
        BY <1>1, <1>4, <3>1, <4>2, <4>4 DEF Ahead
      <4>5. QED
        BY <4>3, <4>4
    <3>3. Owes(mode, x, s)
      BY <1>1, <1>5, <3>2 DEF Owes
    <3>4. QED
      BY <1>6, <3>3
  <2>3. QED
    BY <2>1, <2>2
<1>16. Phases'
  BY <1>1, <1>8 DEF Inv, Phases
<1>17. LateBegins'
  BY <1>1, <1>5, WaitingKept
<1>18. SetupFirst' /\ TeardownLast'
  BY <1>1, <1>5, <1>6 DEF Inv, SetupFirst, TeardownLast
<1>19. QED
  BY <1>11, <1>12, <1>13, <1>14, <1>15, <1>16, <1>17, <1>18 DEF Inv

\* Lemma: a race starts when all before it is recorded.
LEMMA StartRaceStep ==
  ASSUME Inv, StartRace
  PROVE  Inv'
<1> DEFINE z(w) == <<next[1], next[2], w>>
           mode == scenario.mode
<1>1. /\ phase = "dispatch" /\ mode = "race" /\ AllGone
      /\ next[1] <= Iterations /\ ~over
      /\ worker' = [w \in Workers |-> Assigned(z(w))]
      /\ next' = IF next[2] < Requests THEN <<next[1], next[2] + 1>>
                                       ELSE <<next[1] + 1, 1>>
      /\ UNCHANGED <<phase, records, errored, late>>
      /\ UNCHANGED <<scenario, over, setup, teardown, failed, verdict>>
  BY DEF StartRace, RestUnchanged
<1>2. scenario \in Scenario
  BY DEF Inv, TypeOK
<1>3. /\ next[1] \in 1 .. Iterations /\ next[2] \in 1 .. Requests
      /\ next[1] \in Nat /\ next[2] \in Nat
  BY <1>1, Sizes DEF Inv, TypeOK
<1>4. attempts = Concurrency /\ Workers = 1 .. Concurrency
  BY <1>1, <1>2, AttemptsOfMode DEF Workers
<1>5. ASSUME NEW w \in Workers
      PROVE  /\ z(w) \in Planned /\ z(w) \in AnySlot
             /\ z(w)[1] = next[1] /\ z(w)[2] = next[2] /\ z(w)[3] = w
  <2>1. w \in 1 .. MaxAttempt /\ w <= attempts
    BY <1>4, Sizes
  <2>2. z(w) \in AnySlot
    BY <1>3, <2>1, Slots
  <2>3. QED
    BY <2>1, <2>2 DEF Planned
<1>6. ASSUME NEW w \in Workers
      PROVE  /\ worker'[w] = Assigned(z(w)) /\ worker'[w] \in WorkerType
             /\ worker'[w].slot = z(w)
             /\ worker'[w].pc = "check" /\ Busy(worker'[w])
  <2>1. worker'[w] = Assigned(z(w))
    BY <1>1
  <2>2. z(w) \in Planned
    BY <1>5
  <2> HIDE DEF z
  <2>3. QED
    BY <1>2, <2>1, <2>2, AssignedFields
<1>7. Planned' = Planned /\ Recorded' = Recorded
  BY <1>1 DEF Planned, attempts, Recorded
<1>8. \A s \in AnySlot :
        Dispatched(next', s) <=>
          Dispatched(next, s) \/ (s[1] = next[1] /\ s[2] = next[2])
  <2>1. SUFFICES ASSUME NEW s \in AnySlot
                 PROVE  Dispatched(next', s) <=>
                          \/ Dispatched(next, s)
                          \/ s[1] = next[1] /\ s[2] = next[2]
    OBVIOUS
  <2>2. s[1] \in Nat /\ s[2] \in Nat /\ s[2] >= 1 /\ s[2] <= Requests
    BY Slots, Sizes
  <2>3. CASE next[2] < Requests
    <3>1. next'[1] = next[1] /\ next'[2] = next[2] + 1
      BY <1>1, <2>3
    <3>2. QED
      BY <1>3, <2>2, <3>1 DEF Dispatched
  <2>4. CASE ~(next[2] < Requests)
    <3>1. next'[1] = next[1] + 1 /\ next'[2] = 1 /\ next[2] = Requests
      BY <1>1, <1>3, <2>4, Sizes
    <3>2. QED
      BY <1>3, <2>2, <3>1, Sizes DEF Dispatched
  <2>5. QED
    BY <2>3, <2>4
<1>9. \A s \in Planned : Dispatched(next, s) => records[s] = 1
  <2>1. \A w \in Workers : \A s \in Planned : ~Owes(mode, worker[w], s)
    BY <1>1 DEF AllGone, Owes, Busy
  <2>2. QED
    BY <1>1, <2>1 DEF Inv, NothingLost
<1>10. TypeOK'
  <2>1. next' \in (1 .. (Iterations + 1)) \X (1 .. Requests)
    BY <1>1, <1>3, Sizes
  <2>2. worker' \in [Workers -> WorkerType]
    BY <1>1, <1>6
  <2>3. QED
    BY <1>1, <2>1, <2>2 DEF Inv, TypeOK, WorkerType
<1>11. WorkInOrder'
  <2> SUFFICES ASSUME NEW w \in Workers
               PROVE  /\ worker'[w].slot \in Planned
                      /\ records[worker'[w].slot] = 0
                      /\ Dispatched(next', worker'[w].slot)
                      /\ \A e \in Planned :
                           Ahead(mode, e, worker'[w].slot) => records[e] = 1
    BY <1>1, <1>7 DEF WorkInOrder
  <2> DEFINE y == z(w)
  <2>1. /\ y \in Planned /\ y \in AnySlot
        /\ y[1] = next[1] /\ y[2] = next[2] /\ worker'[w].slot = y
    BY <1>5, <1>6
  <2> HIDE DEF y
  <2>2. ~Dispatched(next, y) /\ Dispatched(next', y)
    BY <1>3, <1>8, <2>1 DEF Dispatched
  <2>3. records[y] = 0
    BY <2>1, <2>2, Untouched
  <2>4. ASSUME NEW e \in Planned, Ahead(mode, e, y)
        PROVE  records[e] = 1
    <3>1. e[1] = next[1] /\ e[2] < next[2]
      BY <1>1, <2>1, <2>4 DEF Ahead
    <3>2. Dispatched(next, e)
      BY <3>1 DEF Dispatched
    <3>3. QED
      BY <1>9, <3>2
  <2>5. QED
    BY <2>1, <2>2, <2>3, <2>4
<1>12. WorkApart'
  BY <1>1, <1>5, <1>6 DEF WorkApart
<1>13. RecordsInOrder'
  BY <1>1, <1>7, <1>8 DEF Inv, RecordsInOrder
<1>14. NothingLost'
  <2> SUFFICES ASSUME NEW s \in Planned, Dispatched(next', s), records[s] # 1
               PROVE  \E v \in Workers : Owes(mode, worker'[v], s)
    BY <1>1, <1>7 DEF NothingLost
  <2>1. /\ s \in AnySlot /\ s[1] = next[1] /\ s[2] = next[2]
    BY <1>8, <1>9 DEF Planned
  <2>2. s[3] \in Workers /\ s = <<s[1], s[2], s[3]>>
    BY <1>4, <2>1, Slots, Sizes DEF Planned
  <2>3. s = z(s[3])
    BY <2>1, <2>2
  <2>4. worker'[s[3]].slot = s /\ Busy(worker'[s[3]])
    BY <1>6, <2>2, <2>3
  <2>5. QED
    BY <2>2, <2>4 DEF Owes
<1>15. Phases'
  BY <1>1, <1>6 DEF Inv, Phases
<1>16. LateBegins'
  BY <1>1, LateKept DEF Inv
<1>17. SetupFirst' /\ TeardownLast'
  BY <1>1, <1>7 DEF Inv, SetupFirst, TeardownLast
<1>18. QED
  BY <1>10, <1>11, <1>12, <1>13, <1>14, <1>15, <1>16, <1>17 DEF Inv

-----------------------------------------------------------------------------
(* The invariant                                                           *)

\* Lemma: the invariant holds initially.
LEMMA InvInit == Init => Inv
<1> SUFFICES ASSUME Init PROVE Inv
  OBVIOUS
<1>1. FirstSlot \in Planned /\ FirstSlot \in AnySlot
  BY AttemptsOfMode DEF Init, Planned
<1>2. ASSUME NEW w \in Workers
      PROVE  /\ worker[w] \in WorkerType /\ worker[w].slot = FirstSlot
             /\ worker[w].pc = IF scenario.mode = "race" THEN "gone" ELSE "recv"
             /\ ~Busy(worker[w])
  BY <1>1, <1>2 DEF Init, Unassigned, WorkerType, WorkerPcs, Busy
<1>3. next[1] = 1 /\ next[2] = 1 /\ \A s \in AnySlot : records[s] = 0
  BY DEF Init
<1>4. TypeOK
  <2>1. worker \in [Workers -> WorkerType]
    BY <1>2 DEF Init
  <2>2. next \in (1 .. (Iterations + 1)) \X (1 .. Requests)
    BY Sizes DEF Init
  <2>3. records \in [AnySlot -> Nat]
    BY DEF Init
  <2>4. setup \in 0 .. SetupSize /\ teardown \in 0 .. TeardownSize
    BY RunnerAssumption DEF Init
  <2>5. QED
    BY <2>1, <2>2, <2>3, <2>4 DEF Init, TypeOK, WorkerType
<1>5. WorkInOrder /\ WorkApart /\ RecordsInOrder
  BY <1>1, <1>2, <1>3 DEF WorkInOrder, WorkApart, RecordsInOrder
<1>6. NothingLost
  <2>1. \A s \in Planned : ~Dispatched(next, s)
    BY <1>3, Slots, Sizes DEF Dispatched, Planned
  <2>2. QED
    BY <2>1 DEF NothingLost
<1>7. Phases
  BY <1>2, <1>3 DEF Init, Phases
<1>8. LateBegins /\ SetupFirst /\ TeardownLast
  BY <1>2, <1>3 DEF Init, LateBegins, SetupFirst, TeardownLast
<1>9. QED
  BY <1>4, <1>5, <1>6, <1>7, <1>8 DEF Inv

\* Lemma: every step preserves the invariant.
LEMMA InvNext == Inv /\ [Next]_vars => Inv'
<1> SUFFICES ASSUME Inv, [Next]_vars PROVE Inv'
  OBVIOUS
<1>1. CASE MainStep
  <2>1. ASSUME NEW ok \in BOOLEAN, SetupRequest(ok) \/ TeardownRequest(ok)
        PROVE  Inv'
    BY <2>1, SetupRequestStep, TeardownRequestStep
  <2>2. CASE SetupEnds \/ CloseJobs \/ StartRace \/ EndRaces \/ Join
    BY <2>2, SetupEndsStep, DispatchEndsStep, StartRaceStep
  <2>3. ASSUME NEW w \in Workers, SendJob(w) \/ RangeEnds(w)
        PROVE  Inv'
    BY <2>3, SendJobStep, WorkerGoesStep
  <2>4. ASSUME NEW good \in [Checks -> BOOLEAN], Evaluate(good)
        PROVE  Inv'
    BY <2>4, EvaluateStep
  <2>5. CASE TeardownEnds
    BY <2>5, TeardownEndsStep
  <2>6. QED
    BY <1>1, <2>1, <2>2, <2>3, <2>4, <2>5 DEF MainStep
<1>2. ASSUME NEW w \in Workers, WorkerStep(w)
      PROVE  Inv'
  BY <1>2, ContextCheckedStep, BeginRequestStep, EndRequestStep DEF WorkerStep
<1>3. CASE ContextEnds
  BY <1>3, ContextEndsStep
<1>4. CASE UNCHANGED vars
  <2>1. UNCHANGED <<scenario, over>> /\ UNCHANGED poolVars
        /\ UNCHANGED <<phase, setup, teardown, failed, verdict>>
        /\ UNCHANGED <<next, worker, records, errored, late>>
    BY <1>4 DEF vars, poolVars
  <2>2. Planned' = Planned /\ Recorded' = Recorded /\ AllGone' = AllGone
    BY <2>1 DEF Planned, attempts, Recorded, AllGone
  <2>3. TypeOK' /\ Phases'
    BY <2>1, <2>2 DEF Inv, TypeOK, Phases
  <2>4. SetupFirst' /\ TeardownLast'
    BY <2>1, <2>2 DEF Inv, SetupFirst, TeardownLast
  <2>5. QED
    BY <2>1, <2>3, <2>4, PoolKept DEF Inv
<1>5. QED
  BY <1>1, <1>2, <1>3, <1>4 DEF Next

\* Lemma: the invariant holds in every state.
LEMMA Invariant == Spec => []Inv
BY InvInit, InvNext, PTL DEF Spec

-----------------------------------------------------------------------------
(* Theorems                                                                *)

\* Theorem: every variable of RunWithOptions has its type.
THEOREM TypeCorrect == Spec => []TypeOK
<1>1. Inv => TypeOK
  BY DEF Inv
<1>2. QED
  BY <1>1, Invariant, PTL

\* Theorem: runParallel and runRace send nothing that is not planned, nothing
\* twice and nothing out of its order, for any number of goroutines.
THEOREM SendsInOrder == Spec => []SentInOrder
<1>1. Inv => SentInOrder
  <2> SUFFICES ASSUME Inv PROVE SentInOrder
    OBVIOUS
  <2>1. \A w \in Workers : worker[w].slot \in Planned
    BY DEF Inv, WorkInOrder
  <2>2. ASSUME NEW s \in AnySlot, records[s] = 1, NEW e \in Planned,
               e[1] = s[1], e[2] < s[2] \/ (e[2] = s[2] /\ e[3] < s[3])
        PROVE  records[e] = 1 \/ (scenario.mode = "race" /\ e[2] = s[2])
    BY <2>2 DEF Inv, RecordsInOrder, Ahead
  <2>3. QED
    BY <2>1, <2>2 DEF Inv, RecordsInOrder, SentInOrder
<1>2. QED
  BY <1>1, Invariant, PTL

\* Theorem: traffic that the context let finish is complete: no iteration is
\* lost between the dispatcher and the workers.
THEOREM SendsCompletely == Spec => []SentCompletely
<1>1. Inv => SentCompletely
  BY Completeness DEF SentCompletely
<1>2. QED
  BY <1>1, Invariant, PTL

\* Theorem: after the context is over, as many requests are begun as there are
\* goroutines, at most: each has one check of the context behind it.
THEOREM StopsInTime == Spec => []StopsPromptly
<1>1. Inv => StopsPromptly
  <2> SUFFICES ASSUME Inv PROVE late <= Concurrency
    BY DEF StopsPromptly
  <2>1. CASE ~over
    BY <2>1, Sizes DEF Inv, LateBegins
  <2>2. CASE over
    <3>1. late + Cardinality(Waiting) <= Concurrency /\ late \in Nat
      BY <2>2 DEF Inv, LateBegins, TypeOK
    <3>2. Cardinality(Waiting) \in Nat
      BY WaitingFinite DEF Waiting
    <3>3. QED
      BY <3>1, <3>2, Sizes
  <2>3. QED
    BY <2>1, <2>2
<1>2. QED
  BY <1>1, Invariant, PTL

\* Theorem: no request of the traffic is sent before the last request of setup
\* has succeeded, and none after teardown has begun or the report is built,
\* wherever the context ends (runner.go: RunWithOptions, runControlRequests).
THEOREM TrafficBetweenHooks == Spec => []HooksAroundTraffic
<1>1. Inv => HooksAroundTraffic
  <2> SUFFICES ASSUME Inv PROVE HooksAroundTraffic
    OBVIOUS
  <2>1. setup # SetupSize => Recorded = {}
    BY DEF Inv, SetupFirst, Recorded
  <2>2. teardown > 0 \/ verdict # "none" =>
          \A w \in Workers : worker[w].pc \in {"recv", "gone"}
    BY DEF Inv, TeardownLast, Phases, Busy, TypeOK, WorkerPcs
  <2>3. QED
    BY <2>1, <2>2 DEF Inv, SetupFirst, HooksAroundTraffic
<1>2. QED
  BY <1>1, Invariant, PTL
=============================================================================
