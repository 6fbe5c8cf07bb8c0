---------------------------- MODULE CatalogProofs ---------------------------
(***************************************************************************)
(* The theorems of Catalog: the numbering of a scenario's versions, the    *)
(* pointer to the current one and the references of runs, for any number   *)
(* of targets, scenarios, updates and creations.                           *)
(***************************************************************************)
EXTENDS Catalog, FunctionTheorems, FiniteSetTheorems, TLAPS

UpdateType ==
  [pc : {"max", "insert", "commit", "done", "refused"},
   scenario : Scenarios, number : {0} \cup 2 .. MaxVersions]

\* A scenario's rows are finite in number, and numbered from 1.
Numbered ==
  \A s \in Scenarios :
    /\ IsFiniteSet(versions[s])
    /\ Numbers(s) = 1 .. Cardinality(versions[s])
    /\ current[s] = Cardinality(versions[s])

\* Every version but the first is the work of an update that is done, so that
\* an update under way can always be given a number.
Authored ==
  \A s \in Scenarios : \A v \in versions[s] : v.number # 1 =>
    \E w \in Updates : update[w].pc = "done" /\ update[w].number = v.number

\* UpdateScenario reads the maximum without a lock, so its number may be
\* stale by the time of the insert; the index lets the next number through,
\* once at a time.
NumbersRead ==
  /\ \A u \in Updates : update[u].pc = "insert" =>
       update[u].number \in 2 .. current[update[u].scenario] + 1
  /\ \A u \in Updates : update[u].pc = "commit" =>
       /\ current[update[u].scenario] # 0
       /\ update[u].number = current[update[u].scenario] + 1
  /\ \A u, w \in Updates :
       /\ update[u].pc = "commit" /\ update[w].pc = "commit"
       /\ update[u].scenario = update[w].scenario
       => u = w

\* What a creation has read so far is still there.
Reads(c) ==
  /\ c.scenario = None => c.source = "inline" /\ c.version = 0
  /\ c.scenario # None /\ c.version # 0 => c.version \in Numbers(c.scenario)
  /\ c.pc \in {"target", "version", "insert"} => c.definition \in Definitions
  /\ c.pc = "version" => c.scenario # None /\ c.source # "pinned"
  /\ c.source = "pinned" /\ c.pc \in {"target", "insert"} =>
       [number |-> c.version, definition |-> c.definition]
         \in versions[c.scenario]

CreationReads == \A m \in Creations : Reads(creation[m])

Inv ==
  /\ TypeOK
  /\ Numbered
  /\ Authored
  /\ NumbersRead
  /\ CreationReads
  /\ RunReferences

-----------------------------------------------------------------------------
(* Versions and their numbers                                              *)

\* Lemma: the bound on the versions of a scenario is a number.
LEMMA BoundType == Cardinality(Updates) \in Nat /\ MaxVersions \in Nat \ {0}
BY CatalogAssumption, FS_CardinalityType DEF MaxVersions

\* Lemma: the largest of the numbers 1 to n is n.
LEMMA MaxOfInterval ==
  ASSUME NEW n \in Nat \ {0}
  PROVE  (CHOOSE m \in 1 .. n : \A k \in 1 .. n : k <= m) = n
<1>1. n \in 1 .. n /\ \A k \in 1 .. n : k <= n
  OBVIOUS
<1>2. \A m \in 1 .. n : (\A k \in 1 .. n : k <= m) => m = n
  BY <1>1
<1>3. QED
  BY <1>1, <1>2

\* Lemma: the number UpdateScenario reads is the scenario's current one.
LEMMA CurrentIsMax ==
  ASSUME Numbered, NEW s \in Scenarios
  PROVE  /\ current[s] \in Nat
         /\ Numbers(s) = 1 .. current[s]
         /\ MaxNumber(s) = current[s]
         /\ versions[s] = {} <=> current[s] = 0
<1>1. /\ IsFiniteSet(versions[s])
      /\ Numbers(s) = 1 .. current[s]
      /\ current[s] = Cardinality(versions[s])
  BY DEF Numbered
<1>2. current[s] \in Nat /\ (versions[s] = {} <=> current[s] = 0)
  BY <1>1, FS_CardinalityType, FS_EmptySet
<1>3. CASE versions[s] = {}
  BY <1>1, <1>2, <1>3 DEF MaxNumber
<1>4. CASE versions[s] # {}
  <2>1. MaxNumber(s) = CHOOSE n \in 1 .. current[s] :
                         \A k \in 1 .. current[s] : k <= n
    BY <1>1, <1>4 DEF MaxNumber
  <2>2. QED
    BY <1>1, <1>2, <1>4, <2>1, MaxOfInterval
<1>5. QED
  BY <1>3, <1>4

\* Lemma: a scenario has no more versions than updates that are done, and
\* the one it was created with.
LEMMA RoomForUpdate ==
  ASSUME TypeOK, Numbered, Authored, NEW u \in Updates,
         update[u].pc # "done", NEW s \in Scenarios
  PROVE  current[s] + 1 \in 1 .. MaxVersions
<1>1. current[s] \in Nat /\ Numbers(s) = 1 .. current[s]
  BY CurrentIsMax
<1> DEFINE Others == Updates \ {u}
           S == 2 .. current[s]
           f == [k \in S |-> CHOOSE w \in Others : update[w].number = k]
<1>2. ASSUME NEW k \in S
      PROVE  \E w \in Others : update[w].number = k
  <2>1. k \in Numbers(s) /\ k # 1
    BY <1>1
  <2>2. PICK v \in versions[s] : v.number = k
    BY <2>1 DEF Numbers
  <2>3. QED
    BY <2>1, <2>2 DEF Authored
<1>3. \A k \in S : f[k] \in Others /\ update[f[k]].number = k
  BY <1>2
<1>4. f \in Injection(S, Others)
  BY <1>3, ZenonT(30) DEF Injection, IsInjective
<1>5. /\ IsFiniteSet(Others)
      /\ Cardinality(Others) = Cardinality(Updates) - 1
  BY CatalogAssumption, FS_RemoveElement
<1>6. Cardinality(S) <= Cardinality(Others)
  BY <1>4, <1>5, FS_Injection
<1>7. Cardinality(S) = IF 2 > current[s] THEN 0 ELSE current[s] - 2 + 1
  BY <1>1, FS_Interval
<1>8. QED
  BY <1>1, <1>5, <1>6, <1>7, BoundType DEF MaxVersions

\* Lemma: a row with the next number keeps a scenario's history numbered.
LEMMA NumbersGrow ==
  ASSUME Numbered, NEW s \in Scenarios, NEW d,
         versions'[s] = versions[s]
           \cup {[number |-> current[s] + 1, definition |-> d]},
         current'[s] = current[s] + 1
  PROVE  /\ IsFiniteSet(versions'[s])
         /\ Numbers(s)' = 1 .. current'[s]
         /\ current'[s] = Cardinality(versions'[s])
<1> DEFINE v == [number |-> current[s] + 1, definition |-> d]
<1>1. /\ current[s] \in Nat /\ Numbers(s) = 1 .. current[s]
      /\ IsFiniteSet(versions[s]) /\ current[s] = Cardinality(versions[s])
  BY CurrentIsMax DEF Numbered
<1>2. v.number = current[s] + 1
  OBVIOUS
<1>3. versions'[s] = versions[s] \cup {v}
  OBVIOUS
<1> HIDE DEF v
<1>4. v \notin versions[s]
  <2>1. current[s] + 1 \notin Numbers(s)
    BY <1>1
  <2>2. QED
    BY <1>2, <2>1 DEF Numbers
<1>5. /\ IsFiniteSet(versions'[s])
      /\ Cardinality(versions'[s]) = Cardinality(versions[s]) + 1
  <2>1. /\ IsFiniteSet(versions[s] \cup {v})
        /\ Cardinality(versions[s] \cup {v}) =
             IF v \in versions[s] THEN Cardinality(versions[s])
                                  ELSE Cardinality(versions[s]) + 1
    BY <1>1, FS_AddElement
  <2>2. QED
    BY <1>3, <1>4, <2>1
<1>6. \A k : k \in Numbers(s)' <=> k \in Numbers(s) \/ k = current[s] + 1
  BY <1>2, <1>3 DEF Numbers
<1>7. Numbers(s)' = 1 .. current[s] + 1
  <2>1. \A k : k \in 1 .. current[s] + 1 <=>
               k \in 1 .. current[s] \/ k = current[s] + 1
    BY <1>1
  <2>2. \A k : k \in Numbers(s)' <=> k \in 1 .. current[s] + 1
    BY <1>1, <1>6, <2>1, Zenon
  <2>3. QED
    BY <2>2, Zenon
<1>8. QED
  BY <1>1, <1>5, <1>7

\* Lemma: what a creation or a run refers to stays while versions are added.
LEMMA ReferencesStay ==
  ASSUME TypeOK, CreationReads, RunReferences,
         \A s \in Scenarios : versions[s] \subseteq versions'[s],
         UNCHANGED <<creation, runs, targets>>
  PROVE  CreationReads' /\ RunReferences'
<1>1. \A s \in Scenarios : Numbers(s) \subseteq Numbers(s)'
  BY DEF Numbers
<1>2. \A m \in Creations : creation[m].scenario \in Scenarios \cup {None}
  BY DEF TypeOK, Creation
<1>3. \A m \in Creations : runs[m] # NoRun =>
        runs[m].scenario \in Scenarios \cup {None}
  BY DEF TypeOK, Run
<1>4. CreationReads'
  BY <1>1, <1>2 DEF CreationReads, Reads
<1>5. \A m \in Creations : creation[m].source = "pinned" =>
        creation[m].scenario \in Scenarios
  BY <1>2 DEF CreationReads, Reads
<1>6. RunReferences'
  BY <1>1, <1>3, <1>5 DEF RunReferences
<1>7. QED
  BY <1>4, <1>6

-----------------------------------------------------------------------------
(* The invariant                                                           *)

\* Lemma: the empty tables and the requests satisfy the invariant.
LEMMA InvInit == Init => Inv
<1> SUFFICES ASSUME Init PROVE Inv
  OBVIOUS
<1>1. MaxVersions \in Nat \ {0} /\ MaxEdits \in Nat
  BY BoundType, CatalogAssumption
<1>2. \A u \in Updates :
        update[u] \in [pc : {"max"}, scenario : Scenarios, number : {0}]
  BY DEF Init
<1>3. \A m \in Creations :
        creation[m] \in
          [pc : {"load"}, source : {"current", "pinned", "inline"},
           scenario : Scenarios \cup {None}, target : Targets \cup {None},
           definition : {"none"}, version : {0}]
  BY DEF Init
<1>4. TypeOK
  <2>1. targets \in [Targets -> 0 .. (MaxEdits + 1)]
    BY <1>1 DEF Init
  <2>2. /\ versions \in [Scenarios -> SUBSET Version]
        /\ current \in [Scenarios -> 0 .. MaxVersions]
        /\ runs \in [Creations -> Run \cup {NoRun}]
    BY <1>1 DEF Init
  <2>3. update \in [Updates -> UpdateType]
    BY DEF Init, UpdateType
  <2>4. \A m \in Creations : creation[m] \in Creation
    BY <1>1, <1>3 DEF Creation
  <2>5. creation \in [Creations -> Creation]
    BY <2>4 DEF Init
  <2>6. QED
    BY <2>1, <2>2, <2>3, <2>5 DEF TypeOK, UpdateType
<1>5. Numbered
  <2> SUFFICES ASSUME NEW s \in Scenarios
               PROVE  /\ IsFiniteSet(versions[s])
                      /\ Numbers(s) = 1 .. Cardinality(versions[s])
                      /\ current[s] = Cardinality(versions[s])
    BY DEF Numbered
  <2>1. versions[s] = {} /\ current[s] = 0
    BY DEF Init
  <2>2. Numbers(s) = {}
    BY <2>1 DEF Numbers
  <2>3. QED
    BY <2>1, <2>2, FS_EmptySet
<1>6. Authored
  BY DEF Init, Authored
<1>7. NumbersRead
  BY <1>2 DEF NumbersRead
<1>8. CreationReads
  BY <1>3 DEF Init, CreationReads, Reads
<1>9. RunReferences
  BY DEF Init, RunReferences
<1>10. QED
  BY <1>4, <1>5, <1>6, <1>7, <1>8, <1>9 DEF Inv

\* Lemma: the tables of scenarios are left alone.
LEMMA ScenariosUnchanged ==
  ASSUME Numbered, Authored, NumbersRead, UNCHANGED <<versions, current, update>>
  PROVE  Numbered' /\ Authored' /\ NumbersRead'
BY DEF Numbered, Authored, NumbersRead, Numbers

\* Lemma: the target endpoints keep the invariant; deleting a target clears
\* the references to it.
LEMMA TargetStep ==
  ASSUME Inv, NEW t \in Targets,
         CreateTarget(t) \/ UpdateTarget(t) \/ DeleteTarget(t)
  PROVE  Inv'
<1>1. /\ UNCHANGED <<versions, current, update, creation>>
      /\ Numbered' /\ Authored' /\ NumbersRead'
  BY ScenariosUnchanged
  DEF CreateTarget, UpdateTarget, DeleteTarget, Inv
<1>2. CreationReads'
  BY <1>1 DEF Inv, CreationReads, Reads, Numbers
<1>3. t # None /\ MaxEdits \in Nat /\ targets \in [Targets -> 0 .. MaxEdits + 1]
  BY CatalogAssumption DEF Inv, TypeOK
<1>4. CASE CreateTarget(t) \/ UpdateTarget(t)
  <2>1. /\ UNCHANGED runs
        /\ targets' \in [Targets -> 0 .. MaxEdits + 1]
        /\ \A x \in Targets : targets[x] # 0 => targets'[x] # 0
    BY <1>3, <1>4 DEF CreateTarget, UpdateTarget
  <2>2. \A m \in Creations : runs[m] # NoRun =>
          runs[m].target \in Targets \cup {None}
    BY DEF Inv, TypeOK, Run
  <2>3. RunReferences'
    BY <1>1, <2>1, <2>2 DEF Inv, RunReferences, Numbers
  <2>4. TypeOK'
    BY <1>1, <2>1 DEF Inv, TypeOK
  <2>5. QED
    BY <1>1, <1>2, <2>3, <2>4 DEF Inv
<1>5. CASE DeleteTarget(t)
  <2>1. /\ targets' = [targets EXCEPT ![t] = 0]
        /\ targets' \in [Targets -> 0 .. MaxEdits + 1]
    BY <1>3, <1>5 DEF DeleteTarget
  <2>2. ASSUME NEW m \in Creations
        PROVE  /\ runs'[m] \in Run \cup {NoRun}
               /\ runs'[m] # NoRun =>
                    /\ runs[m] # NoRun
                    /\ runs'[m].target # t
                    /\ runs'[m].target # None =>
                         runs'[m].target = runs[m].target
                    /\ runs'[m].version = runs[m].version
                    /\ runs'[m].definition = runs[m].definition
                    /\ runs'[m].scenario = runs[m].scenario
    <3>1. runs'[m] = IF runs[m].target = t
                       THEN [runs[m] EXCEPT !.target = None] ELSE runs[m]
      BY <1>5 DEF DeleteTarget
    <3>2. CASE runs[m] = NoRun
      BY <1>3, <3>1, <3>2 DEF NoRun
    <3>3. CASE runs[m] # NoRun
      <4>1. runs[m] \in Run
        BY <3>3 DEF Inv, TypeOK
      <4>2. QED
        BY <1>3, <3>1, <3>3, <4>1 DEF Run
    <3>4. QED
      BY <3>2, <3>3
  <2>3. TypeOK'
    <3>1. runs' = [m \in Creations |-> runs'[m]]
      BY <1>5 DEF DeleteTarget
    <3>2. QED
      BY <1>1, <2>1, <2>2, <3>1 DEF Inv, TypeOK
  <2>4. RunReferences'
    BY <1>1, <1>3, <2>1, <2>2, ZenonT(30)
    DEF Inv, RunReferences, Numbers, TypeOK, Run
  <2>5. QED
    BY <1>1, <1>2, <2>3, <2>4 DEF Inv
<1>6. QED
  BY <1>4, <1>5
\* Lemma: creating a scenario gives it its first version; no update is
\* beyond its first statement on a scenario that is not there.
LEMMA ScenarioStep ==
  ASSUME Inv, NEW s \in Scenarios, CreateScenario(s)
  PROVE  Inv'
<1>1. /\ current[s] = 0 /\ versions[s] = {}
      /\ \A x \in Scenarios : current[x] \in Nat
  BY CurrentIsMax DEF CreateScenario, Inv
<1>2. /\ versions' = [versions EXCEPT ![s] =
                        {[number |-> 1, definition |-> "first"]}]
      /\ current' = [current EXCEPT ![s] = 1]
      /\ UNCHANGED <<targets, update, creation, runs>>
      /\ versions \in [Scenarios -> SUBSET Version]
      /\ current \in [Scenarios -> 0 .. MaxVersions]
  BY DEF CreateScenario, Inv, TypeOK
<1>3. TypeOK'
  <2>1. [number |-> 1, definition |-> "first"] \in Version
    BY BoundType DEF Version, Definitions
  <2>2. /\ versions' \in [Scenarios -> SUBSET Version]
        /\ current' \in [Scenarios -> 0 .. MaxVersions]
    BY <1>2, <2>1, BoundType
  <2>3. QED
    BY <1>2, <2>2 DEF Inv, TypeOK
<1>4. Numbered'
  <2>1. /\ versions'[s] = versions[s]
             \cup {[number |-> current[s] + 1, definition |-> "first"]}
        /\ current'[s] = current[s] + 1
    BY <1>1, <1>2
  <2>2. /\ IsFiniteSet(versions'[s])
        /\ Numbers(s)' = 1 .. current'[s]
        /\ current'[s] = Cardinality(versions'[s])
    BY <2>1, NumbersGrow DEF Inv
  <2>3. \A x \in Scenarios : x # s =>
          /\ versions'[x] = versions[x] /\ current'[x] = current[x]
          /\ Numbers(x)' = Numbers(x)
    BY <1>2 DEF Numbers
  <2>4. QED
    BY <2>2, <2>3 DEF Inv, Numbered
<1>5. Authored'
  BY <1>2 DEF Inv, Authored
<1>6. \A u \in Updates : update[u].scenario = s =>
        update[u].pc \notin {"insert", "commit"}
  BY <1>1 DEF Inv, NumbersRead
<1>7. NumbersRead'
  <2>1. \A u \in Updates : update[u].scenario \in Scenarios
    BY DEF Inv, TypeOK
  <2>2. \A x \in Scenarios : x # s => current'[x] = current[x]
    BY <1>2
  <2>3. QED
    BY <1>2, <1>6, <2>1, <2>2 DEF Inv, NumbersRead
<1>8. CreationReads' /\ RunReferences'
  <2>1. \A x \in Scenarios : versions[x] \subseteq versions'[x]
    BY <1>1, <1>2
  <2>2. QED
    BY <1>2, <2>1, ReferencesStay DEF Inv
<1>9. QED
  BY <1>3, <1>4, <1>5, <1>7, <1>8 DEF Inv

\* Lemma: an update that only moves leaves tables and references alone.
LEMMA UpdateMoves ==
  ASSUME Inv, NEW u \in Updates, update[u].pc # "done", NEW w \in UpdateType,
         update' = [update EXCEPT ![u] = w],
         UNCHANGED <<targets, versions, current, creation, runs>>
  PROVE  /\ TypeOK' /\ Numbered' /\ Authored'
         /\ CreationReads' /\ RunReferences'
         /\ \A x \in Updates : update'[x] = IF x = u THEN w ELSE update[x]
<1>1. update \in [Updates -> UpdateType]
  BY DEF Inv, TypeOK, UpdateType
<1>2. \A x \in Updates : update'[x] = IF x = u THEN w ELSE update[x]
  BY <1>1
<1>3. TypeOK'
  <2>1. update' \in [Updates -> UpdateType]
    BY <1>1
  <2>2. QED
    BY <2>1 DEF Inv, TypeOK, UpdateType
<1>4. Numbered'
  BY DEF Inv, Numbered, Numbers
<1>5. Authored'
  BY <1>2 DEF Inv, Authored
<1>6. CreationReads' /\ RunReferences'
  BY ReferencesStay DEF Inv
<1>7. QED
  BY <1>2, <1>3, <1>4, <1>5, <1>6

\* Lemma: the statements of UpdateScenario before its commit keep the
\* invariant.
LEMMA UpdateStep ==
  ASSUME Inv, NEW u \in Updates,
         ReadMax(u) \/ InsertVersion(u) \/ UpdateFails(u)
  PROVE  Inv'
<1>1. /\ update \in [Updates -> UpdateType] /\ update[u] \in UpdateType
      /\ update[u].scenario \in Scenarios
      /\ \A x \in Updates : update[x].number \in Nat
  BY BoundType DEF Inv, TypeOK, UpdateType
<1>2. \A s \in Scenarios : /\ current[s] \in Nat /\ MaxNumber(s) = current[s]
                          /\ Numbers(s) = 1 .. current[s]
  BY CurrentIsMax DEF Inv
<1>3. CASE ReadMax(u)
  <2> DEFINE n == current[update[u].scenario] + 1
             w == IF n = 1 THEN [update[u] EXCEPT !.pc = "refused"]
                  ELSE [update[u] EXCEPT !.pc = "insert", !.number = n]
  <2>1. n \in 1 .. MaxVersions
    BY <1>1, <1>3, RoomForUpdate DEF Inv, ReadMax
  <2>2. w \in UpdateType
    <3>1. [update[u] EXCEPT !.pc = "refused"] \in UpdateType
      BY <1>1 DEF UpdateType
    <3>2. n # 1 => n \in 2 .. MaxVersions
      BY <2>1, BoundType
    <3>3. n # 1 => [update[u] EXCEPT !.pc = "insert", !.number = n]
                     \in UpdateType
      BY <1>1, <3>2 DEF UpdateType
    <3>4. QED
      BY <3>1, <3>3
  <2>3. /\ update' = [update EXCEPT ![u] = w] /\ update[u].pc = "max"
        /\ UNCHANGED <<targets, versions, current, creation, runs>>
    <3>1. MaxNumber(update[u].scenario) + 1 = n
      BY <1>1, <1>2
    <3>2. QED
      BY <1>1, <1>3, <3>1 DEF ReadMax
  <2>4. /\ w.scenario = update[u].scenario
        /\ w.pc = "refused" \/ (w.pc = "insert" /\ w.number = n /\ n # 1)
    BY <1>1 DEF UpdateType
  <2>5. n \in Nat \ {0} /\ w.pc # "commit"
    BY <1>1, <1>2, <2>4
  <2> HIDE DEF w
  <2>6. /\ TypeOK' /\ Numbered' /\ Authored'
        /\ CreationReads' /\ RunReferences'
        /\ \A x \in Updates : update'[x] = IF x = u THEN w ELSE update[x]
    BY <2>2, <2>3, UpdateMoves
  <2>7. NumbersRead'
    BY <2>3, <2>4, <2>5, <2>6 DEF Inv, NumbersRead
  <2>8. QED
    BY <2>6, <2>7 DEF Inv
<1>4. CASE InsertVersion(u)
  <2> DEFINE s == update[u].scenario
             n == update[u].number
             p == IF n \in Numbers(s) THEN "refused" ELSE "commit"
             w == [update[u] EXCEPT !.pc = p]
  <2>1. w \in UpdateType
    BY <1>1 DEF UpdateType
  <2>2. /\ update' = [update EXCEPT ![u] = w] /\ update[u].pc = "insert"
        /\ UNCHANGED <<targets, versions, current, creation, runs>>
        /\ \A x \in Updates : ~(/\ update[x].pc = "commit"
                                /\ update[x].scenario = s
                                /\ update[x].number = n)
    BY <1>1, <1>4 DEF InsertVersion
  <2>3. w.scenario = s /\ w.number = n /\ w.pc = p
    BY <1>1 DEF UpdateType
  <2>4. p = "commit" => current[s] # 0 /\ n = current[s] + 1
    BY <1>1, <1>2, <2>2 DEF Inv, NumbersRead
  <2>5. p \in {"refused", "commit"}
    OBVIOUS
  <2> HIDE DEF w, p
  <2>6. /\ TypeOK' /\ Numbered' /\ Authored'
        /\ CreationReads' /\ RunReferences'
        /\ \A x \in Updates : update'[x] = IF x = u THEN w ELSE update[x]
    BY <2>1, <2>2, UpdateMoves
  <2>7. NumbersRead'
    <3>1. \A x \in Updates : update'[x].pc = "insert" =>
            update'[x].number \in 2 .. current'[update'[x].scenario] + 1
      BY <2>2, <2>3, <2>5, <2>6 DEF Inv, NumbersRead
    <3>2. \A x \in Updates : update'[x].pc = "commit" =>
            /\ current'[update'[x].scenario] # 0
            /\ update'[x].number = current'[update'[x].scenario] + 1
      BY <2>2, <2>3, <2>4, <2>6 DEF Inv, NumbersRead
    <3>3. p = "commit" => \A x \in Updates :
            ~(update[x].pc = "commit" /\ update[x].scenario = s)
      BY <2>2, <2>4 DEF Inv, NumbersRead
    <3>4. \A x, y \in Updates :
            /\ update'[x].pc = "commit" /\ update'[y].pc = "commit"
            /\ update'[x].scenario = update'[y].scenario
            => x = y
      BY <2>3, <2>6, <3>3 DEF Inv, NumbersRead
    <3>5. QED
      BY <3>1, <3>2, <3>4 DEF NumbersRead
  <2>8. QED
    BY <2>6, <2>7 DEF Inv
<1>5. CASE UpdateFails(u)
  <2> DEFINE w == [update[u] EXCEPT !.pc = "refused"]
  <2>1. w \in UpdateType /\ w.pc = "refused"
    BY <1>1 DEF UpdateType
  <2>2. /\ update' = [update EXCEPT ![u] = w] /\ update[u].pc # "done"
        /\ UNCHANGED <<targets, versions, current, creation, runs>>
    BY <1>1, <1>5 DEF UpdateFails
  <2> HIDE DEF w
  <2>3. /\ TypeOK' /\ Numbered' /\ Authored'
        /\ CreationReads' /\ RunReferences'
        /\ \A x \in Updates : update'[x] = IF x = u THEN w ELSE update[x]
    BY <2>1, <2>2, UpdateMoves
  <2>4. NumbersRead'
    BY <2>1, <2>2, <2>3 DEF Inv, NumbersRead
  <2>5. QED
    BY <2>3, <2>4 DEF Inv
<1>6. QED
  BY <1>3, <1>4, <1>5
\* Lemma: the commit of UpdateScenario keeps the invariant: the number is
\* still the next one.
LEMMA CommitStep ==
  ASSUME Inv, NEW u \in Updates, CommitVersion(u)
  PROVE  Inv'
<1> DEFINE s == update[u].scenario
           n == update[u].number
           v == [number |-> n, definition |-> u]
           w == [update[u] EXCEPT !.pc = "done"]
<1>1. /\ update \in [Updates -> UpdateType] /\ update[u] \in UpdateType
      /\ \A x \in Updates : update[x].scenario \in Scenarios
      /\ versions \in [Scenarios -> SUBSET Version]
      /\ current \in [Scenarios -> 0 .. MaxVersions]
  BY DEF Inv, TypeOK, UpdateType
<1>2. /\ update[u].pc = "commit"
      /\ versions' = [versions EXCEPT ![s] = versions[s] \cup {v}]
      /\ current' = [current EXCEPT ![s] = n]
      /\ update' = [update EXCEPT ![u] = w]
      /\ UNCHANGED <<targets, creation, runs>>
  BY <1>1 DEF CommitVersion
<1>3. s \in Scenarios /\ n = current[s] + 1 /\ current[s] # 0
  BY <1>1, <1>2 DEF Inv, NumbersRead
<1>4. n \in 2 .. MaxVersions /\ current[s] \in Nat
  BY <1>1, <1>3, BoundType, CurrentIsMax DEF UpdateType, Inv
<1>5. /\ w \in UpdateType /\ w.pc = "done" /\ w.number = n
      /\ v \in Version /\ v.number = n /\ v.definition = u
  BY <1>1, <1>4, BoundType DEF UpdateType, Version, Definitions
<1>6. /\ versions'[s] = versions[s] \cup {v} /\ current'[s] = n
      /\ \A x \in Scenarios : x # s =>
           versions'[x] = versions[x] /\ current'[x] = current[x]
      /\ \A x \in Updates : update'[x] = IF x = u THEN w ELSE update[x]
  BY <1>1, <1>2, <1>3
<1>7. TypeOK'
  <2>1. /\ versions' \in [Scenarios -> SUBSET Version]
        /\ current' \in [Scenarios -> 0 .. MaxVersions]
        /\ update' \in [Updates -> UpdateType]
    <3> HIDE DEF v, w
    <3>1. QED
      BY <1>1, <1>2, <1>4, <1>5
  <2>2. QED
    BY <1>2, <2>1 DEF Inv, TypeOK, UpdateType
<1>8. Numbered'
  <2>1. ASSUME NEW x \in Scenarios, x = s
        PROVE  /\ IsFiniteSet(versions'[x])
               /\ Numbers(x)' = 1 .. current'[x]
               /\ current'[x] = Cardinality(versions'[x])
    <3>1. /\ versions'[x] = versions[x]
               \cup {[number |-> current[x] + 1, definition |-> u]}
          /\ current'[x] = current[x] + 1
      BY <1>3, <1>6, <2>1
    <3>2. QED
      BY <3>1, NumbersGrow DEF Inv
  <2>2. \A x \in Scenarios : x # s =>
          /\ versions'[x] = versions[x] /\ current'[x] = current[x]
          /\ Numbers(x)' = Numbers(x)
    BY <1>6 DEF Numbers
  <2>3. QED
    BY <2>1, <2>2 DEF Inv, Numbered
<1>9. Authored'
  <2> SUFFICES ASSUME NEW x \in Scenarios, NEW y \in versions'[x],
                      y.number # 1
               PROVE  \E z \in Updates : /\ update'[z].pc = "done"
                                         /\ update'[z].number = y.number
    BY DEF Authored
  <2>1. CASE y \in versions[x]
    <3>1. PICK z \in Updates : /\ update[z].pc = "done"
                               /\ update[z].number = y.number
      BY <2>1 DEF Inv, Authored
    <3>2. z # u
      BY <1>2, <3>1
    <3>3. QED
      BY <1>6, <3>1, <3>2
  <2>2. CASE y \notin versions[x]
    BY <1>5, <1>6, <2>2
  <2>3. QED
    BY <2>1, <2>2
<1>10. NumbersRead'
  <2>1. \A x \in Updates : update'[x].pc # "done" =>
          x # u /\ update'[x] = update[x]
    BY <1>5, <1>6
  <2>2. \A x \in Updates : update'[x].pc = "commit" =>
          current'[update'[x].scenario] = current[update[x].scenario]
    BY <1>1, <1>2, <1>6, <2>1 DEF Inv, NumbersRead
  <2>3. \A x \in Scenarios : /\ current[x] \in Nat /\ current'[x] \in Nat
                            /\ current[x] <= current'[x]
    BY <1>3, <1>4, <1>6, CurrentIsMax DEF Inv
  <2>4. \A x \in Updates : update'[x].pc = "insert" =>
          update'[x].number \in 2 .. current'[update'[x].scenario] + 1
    <3> SUFFICES ASSUME NEW x \in Updates, update'[x].pc = "insert"
                 PROVE  update'[x].number
                          \in 2 .. current'[update'[x].scenario] + 1
      OBVIOUS
    <3>1. /\ update'[x] = update[x] /\ update[x].scenario \in Scenarios
          /\ update[x].number \in 2 .. current[update[x].scenario] + 1
      BY <1>1, <2>1 DEF Inv, NumbersRead
    <3>2. QED
      BY <2>3, <3>1
  <2>5. QED
    BY <2>1, <2>2, <2>4 DEF Inv, NumbersRead
<1>11. CreationReads' /\ RunReferences'
  <2>1. \A x \in Scenarios : versions[x] \subseteq versions'[x]
    BY <1>6
  <2>2. QED
    BY <1>2, <2>1, ReferencesStay DEF Inv
<1>12. QED
  BY <1>7, <1>8, <1>9, <1>10, <1>11 DEF Inv

\* Lemma: what createRun does to its local state keeps the type.
LEMMA CreationUpdates ==
  ASSUME TypeOK, NEW m \in Creations,
         NEW pc \in {"target", "version", "insert", "accepted", "rejected"},
         NEW d \in Definitions, NEW n \in 0 .. MaxVersions
  PROVE  /\ [creation EXCEPT ![m].pc = pc] \in [Creations -> Creation]
         /\ [creation EXCEPT ![m].pc = pc, ![m].version = n]
              \in [Creations -> Creation]
         /\ [creation EXCEPT ![m].pc = pc, ![m].definition = d]
              \in [Creations -> Creation]
         /\ [creation EXCEPT ![m].pc = pc, ![m].definition = d,
                             ![m].version = n]
              \in [Creations -> Creation]
<1>1. creation[m] \in Creation /\ creation \in [Creations -> Creation]
  BY DEF TypeOK
<1>2. /\ [creation[m] EXCEPT !.pc = pc] \in Creation
      /\ [creation[m] EXCEPT !.pc = pc, !.version = n] \in Creation
      /\ [creation[m] EXCEPT !.pc = pc, !.definition = d] \in Creation
      /\ [creation[m] EXCEPT !.pc = pc, !.definition = d, !.version = n]
           \in Creation
  BY <1>1 DEF Creation
<1>3. QED
  BY <1>1, <1>2
\* Lemma: a creation that moves before its insert keeps the invariant if what
\* it has read is there.
LEMMA CreationMoves ==
  ASSUME Inv, NEW m \in Creations, CreationUnchanged, UNCHANGED runs,
         creation' \in [Creations -> Creation],
         \A x \in Creations : x # m => creation'[x] = creation[x],
         creation'[m].source = creation[m].source,
         creation'[m].scenario = creation[m].scenario,
         Reads(creation'[m])
  PROVE  Inv'
<1>1. TypeOK'
  BY DEF Inv, TypeOK, CreationUnchanged
<1>2. Numbered' /\ Authored' /\ NumbersRead'
  BY ScenariosUnchanged DEF Inv, CreationUnchanged
<1>3. CreationReads'
  <2>1. \A x \in Creations : Reads(creation'[x])
    BY DEF Inv, CreationReads
  <2>2. QED
    BY <2>1 DEF CreationReads, Reads, Numbers, CreationUnchanged
<1>4. RunReferences'
  <2>1. \A x \in Creations : /\ creation'[x].source = creation[x].source
                            /\ creation'[x].scenario = creation[x].scenario
    OBVIOUS
  <2>2. \A s : Numbers(s)' = Numbers(s)
    BY DEF Numbers, CreationUnchanged
  <2>3. QED
    BY <2>1, <2>2 DEF Inv, RunReferences, CreationUnchanged
<1>5. QED
  BY <1>1, <1>2, <1>3, <1>4 DEF Inv

\* Lemma: loading the scenario keeps the invariant.
LEMMA LoadStep ==
  ASSUME Inv, NEW m \in Creations, LoadScenario(m)
  PROVE  Inv'
<1>1. /\ creation[m].pc = "load" /\ CreationUnchanged /\ UNCHANGED runs
      /\ creation[m] \in Creation /\ Reads(creation[m])
      /\ 0 \in 0 .. MaxVersions /\ "inline" \in Definitions
      /\ creation \in [Creations -> Creation]
  <2>1. creation[m].pc = "load" /\ CreationUnchanged /\ UNCHANGED runs
    BY DEF LoadScenario
  <2>2. 0 \in 0 .. MaxVersions /\ "inline" \in Definitions
    BY BoundType DEF Definitions
  <2>3. QED
    BY <2>1, <2>2 DEF Inv, TypeOK, CreationReads
<1>2. CASE /\ creation[m].source = "inline"
           /\ creation' = [creation EXCEPT ![m].pc = "target",
                                           ![m].definition = "inline"]
  <2>1. creation' \in [Creations -> Creation]
    BY <1>1, <1>2, CreationUpdates DEF Inv
  <2>2. /\ \A x \in Creations : x # m => creation'[x] = creation[x]
        /\ creation'[m].pc = "target"
        /\ creation'[m].definition = "inline"
        /\ creation'[m].source = creation[m].source
        /\ creation'[m].scenario = creation[m].scenario
        /\ creation'[m].version = creation[m].version
    BY <1>1, <1>2 DEF Creation
  <2>3. Reads(creation'[m])
    BY <1>1, <1>2, <2>2 DEF Reads
  <2>4. QED
    BY <1>1, <2>1, <2>2, <2>3, CreationMoves
<1>3. CASE creation' = [creation EXCEPT ![m].pc = "rejected"]
  <2>1. creation' \in [Creations -> Creation]
    BY <1>1, <1>3, CreationUpdates DEF Inv
  <2>2. /\ \A x \in Creations : x # m => creation'[x] = creation[x]
        /\ creation'[m].pc = "rejected"
        /\ creation'[m].source = creation[m].source
        /\ creation'[m].scenario = creation[m].scenario
        /\ creation'[m].version = creation[m].version
    BY <1>1, <1>3 DEF Creation
  <2>3. Reads(creation'[m])
    BY <1>1, <2>2 DEF Reads
  <2>4. QED
    BY <1>1, <2>1, <2>2, <2>3, CreationMoves
<1>4. ASSUME creation[m].source # "inline",
             NEW v \in versions[creation[m].scenario],
             creation' = [creation EXCEPT
               ![m].pc = "target", ![m].definition = v.definition,
               ![m].version = IF creation[m].source = "pinned" THEN v.number
                                                               ELSE 0]
      PROVE  Inv'
  <2>1. creation[m].scenario \in Scenarios
    BY <1>1, <1>4 DEF Creation, Reads
  <2>2. v \in Version
    BY <2>1 DEF Inv, TypeOK
  <2>3. /\ v.definition \in Definitions /\ v.number \in 0 .. MaxVersions
        /\ v = [number |-> v.number, definition |-> v.definition]
        /\ v.number \in Numbers(creation[m].scenario)
    BY <2>2, BoundType DEF Version, Numbers
  <2>4. creation' \in [Creations -> Creation]
    <3>1. PICK n \in 0 .. MaxVersions :
            n = IF creation[m].source = "pinned" THEN v.number ELSE 0
      BY <1>1, <2>3
    <3>2. PICK d \in Definitions : d = v.definition
      BY <2>3
    <3>3. [creation EXCEPT ![m].pc = "target", ![m].definition = d,
                           ![m].version = n] \in [Creations -> Creation]
      BY CreationUpdates DEF Inv
    <3>4. QED
      BY <1>4, <3>1, <3>2, <3>3
  <2>5. /\ \A x \in Creations : x # m => creation'[x] = creation[x]
        /\ creation'[m].pc = "target"
        /\ creation'[m].definition = v.definition
        /\ creation'[m].source = creation[m].source
        /\ creation'[m].scenario = creation[m].scenario
        /\ creation'[m].version =
             IF creation[m].source = "pinned" THEN v.number ELSE 0
    BY <1>1, <1>4 DEF Creation
  <2>6. Reads(creation'[m])
    BY <1>1, <1>4, <2>1, <2>3, <2>5, CatalogAssumption DEF Reads
  <2>7. QED
    BY <1>1, <2>4, <2>5, <2>6, CreationMoves
<1>5. QED
  BY <1>2, <1>3, <1>4 DEF LoadScenario, Moved

\* Lemma: resolving the target and the current version keeps the invariant.
LEMMA ResolveStep ==
  ASSUME Inv, NEW m \in Creations,
         ResolveTarget(m) \/ currentScenarioVersion(m)
  PROVE  Inv'
<1>1. /\ CreationUnchanged /\ UNCHANGED runs
      /\ creation[m] \in Creation /\ Reads(creation[m])
      /\ 0 \in 0 .. MaxVersions /\ "inline" \in Definitions
      /\ creation \in [Creations -> Creation]
  BY BoundType DEF ResolveTarget, currentScenarioVersion, Inv, TypeOK,
                   CreationReads, Definitions
<1>2. CASE ResolveTarget(m)
  <2>1. PICK pc \in {"rejected", "insert", "version"} :
          /\ creation' = [creation EXCEPT ![m].pc = pc]
          /\ pc = "version" => /\ creation[m].scenario # None
                               /\ creation[m].source # "pinned"
    <3> DEFINE p == CASE creation[m].target # None
                           /\ targets[creation[m].target] = 0 -> "rejected"
                      [] creation[m].source = "pinned"        -> "insert"
                      [] creation[m].scenario = None          -> "insert"
                      [] OTHER                                -> "version"
    <3>1. creation' = [creation EXCEPT ![m].pc = p]
      BY <1>2 DEF ResolveTarget, Moved
    <3>2. p = "version" => /\ creation[m].scenario # None
                           /\ creation[m].source # "pinned"
      OBVIOUS
    <3>3. p \in {"rejected", "insert", "version"}
      OBVIOUS
    <3>4. QED
      BY <3>1, <3>2, <3>3
  <2>2. creation' \in [Creations -> Creation]
    BY <1>1, <2>1, CreationUpdates DEF Inv
  <2>3. /\ \A x \in Creations : x # m => creation'[x] = creation[x]
        /\ creation'[m].pc = pc
        /\ creation'[m].definition = creation[m].definition
        /\ creation'[m].source = creation[m].source
        /\ creation'[m].scenario = creation[m].scenario
        /\ creation'[m].version = creation[m].version
    BY <1>1, <2>1 DEF Creation
  <2>4. creation[m].pc = "target"
    BY <1>2 DEF ResolveTarget
  <2>5. Reads(creation'[m])
    BY <1>1, <2>1, <2>3, <2>4 DEF Reads
  <2>6. QED
    BY <1>1, <2>2, <2>3, <2>5, CreationMoves
<1>3. CASE currentScenarioVersion(m)
  <2> DEFINE s == creation[m].scenario
             n == current[s]
  <2>1. /\ creation[m].pc = "version"
        /\ creation' = [creation EXCEPT ![m].pc = "insert", ![m].version = n]
    BY <1>3 DEF currentScenarioVersion
  <2>2. s \in Scenarios /\ s # None /\ creation[m].source # "pinned"
    BY <1>1, <2>1 DEF Reads, Creation
  <2>3. n \in 0 .. MaxVersions /\ (n # 0 => n \in Numbers(s))
    BY <2>2, CurrentIsMax DEF Inv, TypeOK
  <2>4. creation' \in [Creations -> Creation]
    BY <1>1, <2>1, <2>3, CreationUpdates DEF Inv
  <2>5. /\ \A x \in Creations : x # m => creation'[x] = creation[x]
        /\ creation'[m].pc = "insert"
        /\ creation'[m].definition = creation[m].definition
        /\ creation'[m].source = creation[m].source
        /\ creation'[m].scenario = creation[m].scenario
        /\ creation'[m].version = n
    BY <1>1, <2>1 DEF Creation
  <2>6. Reads(creation'[m])
    BY <1>1, <2>1, <2>2, <2>3, <2>5 DEF Reads
  <2>7. QED
    BY <1>1, <2>4, <2>5, <2>6, CreationMoves
<1>4. QED
  BY <1>2, <1>3
\* Lemma: the insert of the run keeps the invariant: the foreign keys refuse
\* a target that has gone.
LEMMA CreateRunStep ==
  ASSUME Inv, NEW m \in Creations, CreateRun(m)
  PROVE  Inv'
<1> DEFINE c == creation[m]
           r == [definition |-> c.definition, version |-> c.version,
                 scenario |-> IF c.version = 0 THEN None ELSE c.scenario,
                 target |-> c.target]
<1>1. /\ c.pc = "insert" /\ CreationUnchanged
      /\ creation' = [creation EXCEPT ![m].pc = "accepted"]
      /\ runs' = IF c.target # None /\ targets[c.target] = 0 THEN runs
                 ELSE [runs EXCEPT ![m] = r]
  BY DEF CreateRun, Moved
<1>2. /\ c \in Creation /\ Reads(c)
      /\ creation \in [Creations -> Creation]
      /\ runs \in [Creations -> Run \cup {NoRun}]
  BY DEF Inv, TypeOK, CreationReads
<1>3. creation' \in [Creations -> Creation]
  <2>1. 0 \in 0 .. MaxVersions /\ "inline" \in Definitions
    BY BoundType DEF Definitions
  <2>2. QED
    BY <1>1, <2>1, CreationUpdates DEF Inv
<1>4. /\ \A x \in Creations : x # m => creation'[x] = creation[x]
      /\ creation'[m].pc = "accepted"
      /\ creation'[m].definition = c.definition
      /\ creation'[m].source = c.source
      /\ creation'[m].scenario = c.scenario
      /\ creation'[m].version = c.version
  BY <1>1, <1>2 DEF Creation
<1>5. /\ c.definition \in Definitions /\ c.version \in 0 .. MaxVersions
      /\ c.scenario \in Scenarios \cup {None}
      /\ c.target \in Targets \cup {None}
  BY <1>1, <1>2 DEF Creation, Reads
<1>6. /\ r.definition = c.definition /\ r.version = c.version
      /\ r.scenario = IF c.version = 0 THEN None ELSE c.scenario
      /\ r.target = c.target
      /\ r \in Run
  BY <1>5 DEF Run
<1> HIDE DEF r
<1>7. TypeOK'
  <2>1. runs' \in [Creations -> Run \cup {NoRun}]
    BY <1>1, <1>2, <1>6
  <2>2. QED
    BY <1>1, <1>3, <2>1 DEF Inv, TypeOK, CreationUnchanged
<1>8. Numbered' /\ Authored' /\ NumbersRead'
  BY <1>1, ScenariosUnchanged DEF Inv, CreationUnchanged
<1>9. CreationReads'
  <2>1. Reads(creation'[m])
    BY <1>2, <1>4 DEF Reads
  <2>2. \A x \in Creations : Reads(creation'[x])
    BY <1>4, <2>1 DEF Inv, CreationReads
  <2>3. QED
    BY <1>1, <2>2 DEF CreationReads, Reads, Numbers, CreationUnchanged
<1>10. RunReferences'
  <2>1. /\ \A s : Numbers(s)' = Numbers(s)
        /\ versions' = versions /\ targets' = targets
        /\ \A x \in Creations : /\ creation'[x].source = creation[x].source
                               /\ creation'[x].scenario = creation[x].scenario
    BY <1>1, <1>4 DEF Numbers, CreationUnchanged
  <2>2. \A x \in Creations :
          \/ runs'[x] = runs[x]
          \/ /\ x = m /\ runs'[x] = r
             /\ c.target # None => targets[c.target] # 0
    BY <1>1, <1>2
  <2>3. /\ r.scenario # None => r.version \in Numbers(r.scenario)
        /\ c.source = "pinned" =>
             [number |-> r.version, definition |-> r.definition]
               \in versions[c.scenario]
    BY <1>1, <1>2, <1>6 DEF Reads
  <2>4. ASSUME NEW x \in Creations, runs'[x] # NoRun
        PROVE  /\ runs'[x].target # None => targets'[runs'[x].target] # 0
               /\ runs'[x].scenario # None =>
                    runs'[x].version \in Numbers(runs'[x].scenario)
               /\ creation'[x].source = "pinned" =>
                    [number |-> runs'[x].version,
                     definition |-> runs'[x].definition]
                      \in versions'[creation'[x].scenario]
    <3>1. CASE runs'[x] = runs[x]
      BY <2>1, <2>4, <3>1 DEF Inv, RunReferences
    <3>2. CASE /\ x = m /\ runs'[x] = r
               /\ c.target # None => targets[c.target] # 0
      <4>1. /\ creation'[x].source = c.source
            /\ creation'[x].scenario = c.scenario
        BY <1>4, <3>2
      <4>2. r.target # None => targets[r.target] # 0
        BY <1>6, <3>2
      <4>3. QED
        BY <2>1, <2>3, <3>2, <4>1, <4>2
    <3>3. QED
      BY <2>2, <3>1, <3>2
  <2>5. QED
    BY <2>1, <2>4 DEF RunReferences
<1>11. QED
  BY <1>7, <1>8, <1>9, <1>10 DEF Inv

\* Lemma: Inv is inductive.
LEMMA InvNext == Inv /\ [Next]_vars => Inv'
<1> SUFFICES ASSUME Inv, [Next]_vars PROVE Inv'
  OBVIOUS
<1>1. CASE Next
  BY <1>1, TargetStep, ScenarioStep, UpdateStep, CommitStep, LoadStep,
     ResolveStep, CreateRunStep
  DEF Next
<1>2. CASE UNCHANGED vars
  BY <1>2 DEF vars, Inv, TypeOK, Numbered, Authored, NumbersRead,
              CreationReads, Reads, RunReferences, Numbers
<1>3. QED
  BY <1>1, <1>2

-----------------------------------------------------------------------------
(* Theorems                                                                *)

\* Theorem: the variables keep their types; a scenario never has more than
\* one version for each update and the one it was created with.
THEOREM TypeCorrect == Spec => []TypeOK
<1>1. Inv => TypeOK
  BY DEF Inv
<1>2. QED
  BY <1>1, InvInit, InvNext, PTL DEF Spec

\* Theorem: although UpdateScenario reads the maximum without a lock, a
\* scenario's history is numbered from 1 without gap or duplicate.
THEOREM HistoryStaysNumbered == Spec => []HistoryIsNumbered
<1>1. Inv => HistoryIsNumbered
  BY DEF Inv, Numbered, HistoryIsNumbered
<1>2. QED
  BY <1>1, InvInit, InvNext, PTL DEF Spec

\* Theorem: updates that race each other leave the scenario pointing at its
\* latest version.
THEOREM CurrentStaysLatest == Spec => []CurrentIsLatest
<1>1. Inv => CurrentIsLatest
  BY CurrentIsMax DEF Inv, CurrentIsLatest
<1>2. QED
  BY <1>1, InvInit, InvNext, PTL DEF Spec

\* Theorem: whatever is deleted or updated between the store calls of
\* createRun and after them, a run's references are good, and a run of a
\* pinned version executes that version's definition.
THEOREM ReferencesHold == Spec => []RunReferences
<1>1. Inv => RunReferences
  BY DEF Inv
<1>2. QED
  BY <1>1, InvInit, InvNext, PTL DEF Spec
=============================================================================
