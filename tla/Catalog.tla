------------------------------ MODULE Catalog -------------------------------
(***************************************************************************)
(* Targets, scenarios with their immutable versions, and the references a  *)
(* run takes to them: the target, scenario and run endpoints of            *)
(* httpapi/server.go over store/postgres.go and its schema.                *)
(*                                                                         *)
(* A definition is named by the request that brought it.  Validation and   *)
(* guardrails only refuse requests, so the requests here are valid ones.   *)
(* Single statements are atomic; UpdateScenario's transaction and the      *)
(* store calls of createRun are steps of their own.                        *)
(***************************************************************************)
EXTENDS Naturals, FiniteSets

CONSTANTS Targets,      \* target IDs
          Scenarios,    \* scenario IDs
          Updates,      \* PUT /v1/scenarios/{id}
          Creations,    \* POST /v1/runs
          None,         \* no ID
          MaxEdits      \* PUT /v1/targets/{id} per target

ASSUME CatalogAssumption ==
  /\ None \notin Targets \cup Scenarios
  /\ IsFiniteSet(Updates)
  /\ MaxEdits \in Nat

VARIABLES targets,    \* table targets: 0 for no row, else its revision
          versions,   \* table scenario_versions
          current,    \* scenarios.current_version_id, as a number; 0: no row
          update,     \* where each update is
          creation,   \* where each creation is
          runs        \* table runs

vars == <<targets, versions, current, update, creation, runs>>

MaxVersions == 1 + Cardinality(Updates)

\* "first" is the definition a scenario is created with, "inline" one that
\* came with the run's request.
Definitions == Updates \cup {"first", "inline"}

Version == [number : 1 .. MaxVersions, definition : Definitions]

NoRun == [definition |-> "none", version |-> 0, scenario |-> None,
          target |-> None]

Run == [definition : Definitions,          \* scenario_snapshot
        version    : 0 .. MaxVersions,     \* scenario_version_id
        scenario   : Scenarios \cup {None},
        target     : Targets \cup {None}]

Creation ==
  [pc         : {"load", "target", "version", "insert", "accepted",
                 "rejected"},
   source     : {"current", "pinned", "inline"},
   scenario   : Scenarios \cup {None},
   target     : Targets \cup {None},
   definition : Definitions \cup {"none"},
   version    : 0 .. MaxVersions]

\* The type of every variable; an update that has its number has not the first.
TypeOK ==
  /\ targets \in [Targets -> 0 .. (MaxEdits + 1)]
  /\ versions \in [Scenarios -> SUBSET Version]
  /\ current \in [Scenarios -> 0 .. MaxVersions]
  /\ update \in [Updates -> [pc : {"max", "insert", "commit", "done",
                                   "refused"},
                             scenario : Scenarios,
                             number : {0} \cup 2 .. MaxVersions]]
  /\ creation \in [Creations -> Creation]
  /\ runs \in [Creations -> Run \cup {NoRun}]

\* The requests: which scenario, version and target each one names.
Init ==
  /\ targets = [t \in Targets |-> 0]
  /\ versions = [s \in Scenarios |-> {}]
  /\ current = [s \in Scenarios |-> 0]
  /\ update \in [Updates -> [pc : {"max"}, scenario : Scenarios,
                             number : {0}]]
  /\ creation \in [Creations ->
       [pc : {"load"}, source : {"current", "pinned", "inline"},
        scenario : Scenarios \cup {None}, target : Targets \cup {None},
        definition : {"none"}, version : {0}]]
  /\ \A m \in Creations :
       creation[m].scenario = None => creation[m].source = "inline"
  /\ runs = [m \in Creations |-> NoRun]

-----------------------------------------------------------------------------
(* Targets                                                                 *)

CreateTarget(t) ==
  /\ targets[t] = 0
  /\ targets' = [targets EXCEPT ![t] = 1]
  /\ UNCHANGED <<versions, current, update, creation, runs>>

UpdateTarget(t) ==
  /\ targets[t] \in 1 .. MaxEdits
  /\ targets' = [targets EXCEPT ![t] = @ + 1]
  /\ UNCHANGED <<versions, current, update, creation, runs>>

DeleteTargetOnly(t) ==
  /\ targets[t] # 0
  /\ targets' = [targets EXCEPT ![t] = 0]
  /\ UNCHANGED <<versions, current, update, creation, runs>>

\* ON DELETE SET NULL clears the runs' references in the same statement.
DeleteTarget(t) ==
  /\ targets[t] # 0
  /\ targets' = [targets EXCEPT ![t] = 0]
  /\ runs' = [m \in Creations |->
                IF runs[m].target = t THEN [runs[m] EXCEPT !.target = None]
                                      ELSE runs[m]]
  /\ UNCHANGED <<versions, current, update, creation>>

-----------------------------------------------------------------------------
(* Scenarios                                                               *)

CreateScenario(s) ==
  /\ current[s] = 0
  /\ versions' = [versions EXCEPT ![s] =
                    {[number |-> 1, definition |-> "first"]}]
  /\ current' = [current EXCEPT ![s] = 1]
  /\ UNCHANGED <<targets, update, creation, runs>>

Numbers(s) == {v.number : v \in versions[s]}

MaxNumber(s) ==
  IF versions[s] = {} THEN 0
  ELSE CHOOSE n \in Numbers(s) : \A k \in Numbers(s) : k <= n

\* A scenario without a version is one that does not exist.
ReadMax(u) ==
  LET next == MaxNumber(update[u].scenario) + 1 IN
  /\ update[u].pc = "max"
  /\ update' = [update EXCEPT ![u] =
       IF next = 1 THEN [@ EXCEPT !.pc = "refused"]
                   ELSE [@ EXCEPT !.pc = "insert", !.number = next]]
  /\ UNCHANGED <<targets, versions, current, creation, runs>>

InsertVersionAnyway(u) ==
  /\ update[u].pc = "insert"
  /\ update' = [update EXCEPT ![u].pc = "commit"]
  /\ UNCHANGED <<targets, versions, current, creation, runs>>

\* UNIQUE (scenario_id, version_number): the insert waits for a transaction
\* that has inserted the same number, and fails if that one commits.
InsertVersion(u) ==
  LET s == update[u].scenario
      n == update[u].number
  IN
  /\ update[u].pc = "insert"
  /\ \A w \in Updates :
       ~(update[w].pc = "commit" /\ update[w].scenario = s
           /\ update[w].number = n)
  /\ update' = [update EXCEPT ![u].pc = IF n \in Numbers(s) THEN "refused"
                                                            ELSE "commit"]
  /\ UNCHANGED <<targets, versions, current, creation, runs>>

CommitVersionOnly(u) ==
  /\ update[u].pc = "commit"
  /\ versions' = [versions EXCEPT ![update[u].scenario] =
       @ \cup {[number |-> update[u].number, definition |-> u]}]
  /\ update' = [update EXCEPT ![u].pc = "done"]
  /\ UNCHANGED <<targets, current, creation, runs>>

\* The scenario's row is pointed at the version, and both are committed.
CommitVersion(u) ==
  LET s == update[u].scenario IN
  /\ update[u].pc = "commit"
  /\ versions' = [versions EXCEPT ![s] =
       @ \cup {[number |-> update[u].number, definition |-> u]}]
  /\ current' = [current EXCEPT ![s] = update[u].number]
  /\ update' = [update EXCEPT ![u].pc = "done"]
  /\ UNCHANGED <<targets, creation, runs>>

\* A transaction that fails on the way leaves nothing behind.
UpdateFails(u) ==
  /\ update[u].pc \in {"max", "insert", "commit"}
  /\ update' = [update EXCEPT ![u].pc = "refused"]
  /\ UNCHANGED <<targets, versions, current, creation, runs>>

-----------------------------------------------------------------------------
(* POST /v1/runs                                                           *)

Moved(m, pc) == creation' = [creation EXCEPT ![m].pc = pc]

CreationUnchanged == UNCHANGED <<targets, versions, current, update>>

\* GetScenario or GetScenarioVersion.
LoadScenario(m) ==
  LET s == creation[m].scenario
      source == creation[m].source
  IN
  /\ creation[m].pc = "load"
  /\ \/ /\ source = "inline"
        /\ creation' = [creation EXCEPT ![m].pc = "target",
                                        ![m].definition = "inline"]
     \/ /\ source # "inline" /\ versions[s] # {}
        /\ \E v \in versions[s] :
             /\ source = "current" => v.number = current[s]
             /\ creation' = [creation EXCEPT
                  ![m].pc = "target", ![m].definition = v.definition,
                  ![m].version = IF source = "pinned" THEN v.number ELSE 0]
     \/ /\ source # "inline"
        /\ source = "current" => versions[s] = {}
        /\ Moved(m, "rejected")
  /\ CreationUnchanged /\ UNCHANGED runs

ResolveTargetUnpinned(m) ==
  LET t == creation[m].target IN
  /\ creation[m].pc = "target"
  /\ Moved(m, CASE t # None /\ targets[t] = 0  -> "rejected"
                [] creation[m].scenario = None -> "insert"
                [] OTHER                       -> "version")
  /\ CreationUnchanged /\ UNCHANGED runs

\* resolveScenarioTarget.
ResolveTarget(m) ==
  LET t == creation[m].target IN
  /\ creation[m].pc = "target"
  /\ Moved(m, CASE t # None /\ targets[t] = 0            -> "rejected"
                [] creation[m].source = "pinned"         -> "insert"
                [] creation[m].scenario = None           -> "insert"
                [] OTHER                                 -> "version")
  /\ CreationUnchanged /\ UNCHANGED runs

\* CreateRun without a version asks for the scenario's current one, whatever
\* the definition it was given.
currentScenarioVersion(m) ==
  /\ creation[m].pc = "version"
  /\ creation' = [creation EXCEPT ![m].pc = "insert",
                    ![m].version = current[creation[m].scenario]]
  /\ CreationUnchanged /\ UNCHANGED runs

\* A scenario that does not exist is not referred to; a target that does not
\* fails the insert, and the empty record is accepted all the same.
CreateRun(m) ==
  LET c == creation[m] IN
  /\ c.pc = "insert"
  /\ runs' = IF c.target # None /\ targets[c.target] = 0 THEN runs
             ELSE [runs EXCEPT ![m] =
                    [definition |-> c.definition, version |-> c.version,
                     scenario |-> IF c.version = 0 THEN None ELSE c.scenario,
                     target |-> c.target]]
  /\ Moved(m, "accepted")
  /\ CreationUnchanged

Next ==
  \/ \E t \in Targets : CreateTarget(t) \/ UpdateTarget(t) \/ DeleteTarget(t)
  \/ \E s \in Scenarios : CreateScenario(s)
  \/ \E u \in Updates :
       ReadMax(u) \/ InsertVersion(u) \/ CommitVersion(u) \/ UpdateFails(u)
  \/ \E m \in Creations :
       \/ LoadScenario(m) \/ ResolveTarget(m) \/ currentScenarioVersion(m)
       \/ CreateRun(m)

Spec == Init /\ [][Next]_vars

-----------------------------------------------------------------------------
(* Properties                                                              *)

\* A scenario's history is numbered from 1 without gap or duplicate, although
\* UpdateScenario reads the maximum without a lock.
HistoryIsNumbered ==
  \A s \in Scenarios : Numbers(s) = 1 .. Cardinality(versions[s])

\* The version that GetScenario serves is the latest: two updates cannot leave
\* the pointer on the earlier one.
CurrentIsLatest == \A s \in Scenarios : current[s] = MaxNumber(s)

\* A run never refers to a target or a version that is not there, although
\* targets are deleted between the handler's store calls and after them.  A run
\* that was asked to use a version is linked to that one and executes its
\* definition, whatever updates come in between.
RunReferences ==
  \A m \in Creations :
    LET run == runs[m] IN
    run # NoRun =>
      /\ run.target # None => targets[run.target] # 0
      /\ run.scenario # None => run.version \in Numbers(run.scenario)
      /\ creation[m].source = "pinned" =>
           [number |-> run.version, definition |-> run.definition]
             \in versions[creation[m].scenario]
=============================================================================
