----------------------------- MODULE Admission ------------------------------
(***************************************************************************)
(* From the JSON of a scenario to the traffic a worker sends for it: the   *)
(* target, scenario and run endpoints (httpapi/server.go), templates,      *)
(* defaults and validation (scenario/schema.go), the guardrails            *)
(* (guardrails/guardrails.go) and what RunWithOptions does with the        *)
(* snapshot before it sends anything.                                      *)
(*                                                                         *)
(* A scenario is expanded, completed and checked where it is saved, again  *)
(* where a run of it is made, and again in the worker, each time against   *)
(* the environment, the limits and the targets of that moment.             *)
(*                                                                         *)
(* A text stands for any string: a name, a URL, a path, a header's value,  *)
(* a body.  What the code finds out about it is given by constants.        *)
(***************************************************************************)
EXTENDS Integers, Sequences

CONSTANTS Texts,
          Templates,      \* texts with a $VARIABLE
          Envs,           \* what os.ExpandEnv makes of them in a process
          Parse,          \* url.Parse of every text
          Size,           \* length of every text
          JSONTexts,      \* texts that are JSON
          Jsonb,          \* each as Postgres gives it back from a JSONB column
          MetadataHosts,  \* the names isMetadataHost knows
          Targets,        \* target IDs
          TargetBodies,   \* bodies of POST and PUT /v1/targets
          Posted,         \* bodies of POST and PUT /v1/scenarios
          Configs,        \* limits the API may be started with
          Savers,         \* requests that save the scenario
          Creators,       \* POST /v1/runs
          None,
          MaxRestarts     \* restarts of the API

IsHeaders(h) == DOMAIN h \subseteq Texts /\ h \in [DOMAIN h -> Texts]

IsRequest(q) ==
  /\ q \in [section : {q.section}, name : Texts, path : Texts,
            body : Texts, json : BOOLEAN, headers : {q.headers}]
  /\ IsHeaders(q.headers)

IsScenario(sc) ==
  /\ sc \in [version : Int, name : Texts, type : {sc.type},
             concurrency : Int, iterations : Int, rate : Int, attempts : Int,
             target : Targets \cup {None}, base : Texts,
             headers : {sc.headers}, requests : {sc.requests},
             checksOK : BOOLEAN]
  /\ IsHeaders(sc.headers)
  /\ \A q \in sc.requests : IsRequest(q)

\* A variable of the environment may stand for a text with a $VARIABLE in it,
\* and JSONB may show one that was escaped.
ASSUME AdmissionAssumption ==
  /\ Templates \subseteq Texts
  /\ Envs \subseteq [Templates -> Texts]
  /\ JSONTexts \subseteq Texts /\ Jsonb \in [JSONTexts -> JSONTexts]
  /\ None \notin Targets
  /\ MaxRestarts \in Nat
  /\ \A sc \in Posted : IsScenario(sc)
  /\ \A body \in TargetBodies :
       body.base \in Texts /\ IsHeaders(body.headers)
  /\ \A limits \in Configs : limits.maxRate \in Int

VARIABLES cfg,        \* config.Guardrails of the API
          env,        \* the API's environment
          workerEnv,  \* the worker's
          targets,    \* the target records
          saved,      \* the scenario's current version, as it is read
          saver,      \* where each request that saves is
          creator,    \* where each POST /v1/runs is
          runs,       \* the snapshot of each run, as it is read; what was
                      \* accepted, under which limits and environment
          sent,       \* what the worker sends for it
          restarts

vars == <<cfg, env, workerEnv, targets, saved, saver, creator, runs, sent,
          restarts>>

-----------------------------------------------------------------------------
(* scenario/schema.go                                                      *)

CurrentVersion == 1

TrafficTypes == {"load", "burst", "spike", "race", "retry_storm"}

Expand(e, t) == IF t \in Templates THEN e[t] ELSE t

ExpandValues(e, headers) == [k \in DOMAIN headers |-> Expand(e, headers[k])]

WithEnv(sc, e) ==
  [sc EXCEPT
     !.name = Expand(e, @), !.base = Expand(e, @),
     !.headers = ExpandValues(e, @),
     !.requests = {[q EXCEPT !.name = Expand(e, @), !.path = Expand(e, @),
                             !.body = Expand(e, @),
                             !.headers = ExpandValues(e, @)] : q \in @}]

AtLeastOne(n) == IF n <= 0 THEN 1 ELSE n

Normalized(sc) ==
  LET type == IF sc.type = "" THEN "load" ELSE sc.type IN
  [sc EXCEPT
     !.version = IF @ = 0 THEN CurrentVersion ELSE @,
     !.type = type,
     !.concurrency = AtLeastOne(@),
     !.iterations = AtLeastOne(@),
     !.attempts = IF type = "retry_storm" /\ @ <= 0 THEN 3 ELSE @]

Web == {"http", "https"}

parseHTTPURL(t) == Parse[t].scheme \in Web /\ Parse[t].host # <<>>

\* A scenario's requests are those of its hooks, its traffic and its probes, each
\* with one body, as JSON or as text.  checksOK stands for what no other step
\* looks at: the backoff, and the fields of an invariant that have no template.
Validate(sc) ==
  /\ sc.version = CurrentVersion
  /\ Size[sc.name] > 0
  /\ parseHTTPURL(sc.base)
  /\ \E q \in sc.requests : q.section = "requests"
  /\ sc.type \in TrafficTypes
  /\ sc.concurrency >= 1 /\ sc.iterations >= 1
  /\ sc.rate >= 0 /\ sc.attempts >= 0
  /\ \A q \in sc.requests : /\ Size[q.name] > 0 /\ Size[q.path] > 0
                            /\ q.json => q.body \in JSONTexts
  /\ sc.checksOK

-----------------------------------------------------------------------------
(* guardrails/guardrails.go                                                *)

\* An entry of the allowlist: "*", "*.name", "name:port" or "name".  A name is
\* the sequence of its labels, the last one first: what follows "*." is a suffix
\* of the name at a dot, and a prefix of its labels.
Matches(u, entry) ==
  CASE entry.kind = "any"      -> TRUE
    [] entry.kind = "suffix"   ->
         /\ Len(entry.host) <= Len(u.host)
         /\ SubSeq(u.host, 1, Len(entry.host)) = entry.host
    [] entry.kind = "hostport" -> entry.host = u.host /\ entry.port = u.port
    [] OTHER                   -> entry.host = u.host

matchesAllowlist(u, allowlist) == \E entry \in allowlist : Matches(u, entry)

isMetadataHost(u) == u.host \in MetadataHosts

validateTargetURL(u, limits, allowMetadata) ==
  /\ u.scheme \in Web
  /\ u.host # <<>>
  /\ ~u.credentials
  /\ isMetadataHost(u) =>
       allowMetadata \/ matchesAllowlist(u, limits.allowlist)
  /\ limits.allowlist # {} => matchesAllowlist(u, limits.allowlist)

\* url.URL.ResolveReference: a path may bring a host of its own.
resolveURL(base, rel) ==
  CASE rel.scheme = "" /\ rel.host = <<>> -> base
    [] rel.scheme = "" /\ rel.host # <<>> -> [rel EXCEPT !.scheme = base.scheme]
    [] OTHER -> rel

sameOrigin(u, v) == <<u.scheme, u.host, u.port>> = <<v.scheme, v.host, v.port>>

validatePathTargetBySchemeOnly(base, path, limits) ==
  LET u == resolveURL(base, Parse[path]) IN
  /\ Parse[path].scheme # "invalid"
  /\ validateTargetURL(u, limits, FALSE)
  /\ Parse[path].scheme # "" /\ limits.allowlist = {} => sameOrigin(base, u)

validatePathTarget(base, path, limits) ==
  LET u == resolveURL(base, Parse[path])
      absolute == Parse[path].scheme # "" \/ Parse[path].host # <<>>
  IN
  /\ Parse[path].scheme # "invalid"
  /\ validateTargetURL(u, limits, FALSE)
  /\ absolute /\ limits.allowlist = {} => sameOrigin(base, u)

WithinMax(n, max) == max > 0 => n <= max

\* Bodies of probes do not exist; their text is empty.
GuardrailsValidate(sc, limits) ==
  /\ WithinMax(sc.concurrency, limits.maxConcurrency)
  /\ WithinMax(sc.rate, limits.maxRate)
  /\ \A q \in sc.requests : WithinMax(Size[q.body], limits.maxBody)
  /\ validateTargetURL(Parse[sc.base], limits, limits.allowMetadata)
  /\ \A q \in sc.requests : validatePathTarget(Parse[sc.base], q.path, limits)

ValidateTargetBaseURL(t, limits) ==
  Size[t] > 0 /\ validateTargetURL(Parse[t], limits, limits.allowMetadata)

-----------------------------------------------------------------------------
(* store/postgres.go                                                       *)

\* definition and scenario_snapshot are JSONB: a JSON body is read back with
\* other spaces, other escapes, its keys in another order and none of them
\* twice.  The memory store keeps it as it is (Jsonb is the identity).
Stored(sc) ==
  [sc EXCEPT !.requests =
     {[q EXCEPT !.body = IF q.json THEN Jsonb[@] ELSE @] : q \in @}]

-----------------------------------------------------------------------------
(* State                                                                   *)

NoTarget == [base |-> "none", headers |-> <<>>]

\* origin: the limits, environment and target a scenario was saved under.
NoOrigin == [cfg |-> None, env |-> None, target |-> NoTarget]

Idle == [pc |-> "idle", sc |-> None, target |-> None, origin |-> NoOrigin]

At(pc, sc, target, origin) ==
  [pc |-> pc, sc |-> sc, target |-> target, origin |-> origin]

Refused == [Idle EXCEPT !.pc = "refused"]

NoRun == [sc |-> None, accepted |-> None, cfg |-> None, env |-> None]

Init ==
  /\ cfg \in Configs
  /\ env \in Envs /\ workerEnv \in Envs
  /\ targets = [t \in Targets |-> NoTarget]
  /\ saved = [sc |-> None, origin |-> NoOrigin]
  /\ saver = [w \in Savers |-> Idle]
  /\ creator = [m \in Creators |-> Idle]
  /\ runs = [m \in Creators |-> NoRun]
  /\ sent = [m \in Creators |-> [sc |-> None, ok |-> FALSE]]
  /\ restarts = 0

-----------------------------------------------------------------------------
(* Targets: the base URL is checked as it is written, before any template  *)
(* in it is expanded.                                                      *)

validateTargetRecord(body) ==
  /\ Size[body.name] > 0
  /\ body.environment \in {"", "local", "development", "staging", "production"}
  /\ ValidateTargetBaseURL(body.base, cfg)
  /\ \A k \in DOMAIN body.headers : Size[k] > 0

Record(body) == [base |-> body.base, headers |-> body.headers]

TargetUnchanged ==
  UNCHANGED <<cfg, env, workerEnv, saved, saver, creator, runs, sent, restarts>>

CreateTarget(t, body) ==
  /\ targets[t] = NoTarget
  /\ validateTargetRecord(body)
  /\ targets' = [targets EXCEPT ![t] = Record(body)]
  /\ TargetUnchanged

\* The record is replaced as a whole.
UpdateTarget(t, body) ==
  /\ targets[t] # NoTarget
  /\ validateTargetRecord(body)
  /\ targets' = [targets EXCEPT ![t] = Record(body)]
  /\ TargetUnchanged

DeleteTarget(t) ==
  /\ targets[t] # NoTarget
  /\ targets' = [targets EXCEPT ![t] = NoTarget]
  /\ TargetUnchanged

mergeHeaders(targetHeaders, scenarioHeaders) ==
  [k \in DOMAIN targetHeaders \cup DOMAIN scenarioHeaders |->
     IF k \in DOMAIN scenarioHeaders THEN scenarioHeaders[k]
                                     ELSE targetHeaders[k]]

TargetOf(sc, explicit) == IF explicit # None THEN explicit ELSE sc.target

\* A target that does not exist refuses the request.
Resolvable(sc, explicit) ==
  TargetOf(sc, explicit) = None \/ targets[TargetOf(sc, explicit)] # NoTarget

resolveScenarioTarget(sc, explicit) ==
  LET id == TargetOf(sc, explicit) IN
  IF id = None THEN sc
  ELSE [sc EXCEPT !.target = id, !.base = targets[id].base,
                  !.headers = mergeHeaders(targets[id].headers, @)]

TargetNow(sc, explicit) ==
  IF TargetOf(sc, explicit) = None THEN NoTarget
  ELSE targets[TargetOf(sc, explicit)]

-----------------------------------------------------------------------------
(* createScenario, updateScenario                                          *)

CompletedUnexpanded(sc, explicit) ==
  Normalized(resolveScenarioTarget(sc, explicit))

\* What the three endpoints make of a scenario before they check it.
Completed(sc, explicit) ==
  Normalized(WithEnv(resolveScenarioTarget(sc, explicit), env))

Acceptable(sc) == Validate(sc) /\ GuardrailsValidate(sc, cfg)

SaveScenarioUnlimited(w, sc) ==
  LET complete == Completed(sc, None) IN
  /\ saver[w].pc = "idle"
  /\ saver' = [saver EXCEPT ![w] =
       IF Resolvable(sc, None) /\ Validate(complete)
       THEN At("store", complete, None,
               [cfg |-> cfg, env |-> env, target |-> TargetNow(sc, None)])
       ELSE Refused]
  /\ UNCHANGED <<cfg, env, workerEnv, targets, saved, creator, runs, sent,
                 restarts>>

SaveScenario(w, sc) ==
  LET complete == Completed(sc, None) IN
  /\ saver[w].pc = "idle"
  /\ saver' = [saver EXCEPT ![w] =
       IF Resolvable(sc, None) /\ Acceptable(complete)
       THEN At("store", complete, None,
               [cfg |-> cfg, env |-> env, target |-> TargetNow(sc, None)])
       ELSE Refused]
  /\ UNCHANGED <<cfg, env, workerEnv, targets, saved, creator, runs, sent,
                 restarts>>

\* CreateScenario or UpdateScenario of the store: the latest wins.
StoreScenario(w) ==
  /\ saver[w].pc = "store"
  /\ saved' = [sc |-> Stored(saver[w].sc), origin |-> saver[w].origin]
  /\ saver' = [saver EXCEPT ![w] = [Idle EXCEPT !.pc = "done"]]
  /\ UNCHANGED <<cfg, env, workerEnv, targets, creator, runs, sent, restarts>>

-----------------------------------------------------------------------------
(* createRun                                                               *)

RunUnchanged ==
  UNCHANGED <<cfg, env, workerEnv, targets, saved, saver, restarts>>

LoadInline(m, sc, target) ==
  /\ creator[m].pc = "idle"
  /\ creator' = [creator EXCEPT ![m] = At("admit", sc, target, NoOrigin)]
  /\ RunUnchanged /\ UNCHANGED <<runs, sent>>

LoadSaved(m, target) ==
  /\ creator[m].pc = "idle"
  /\ creator' = [creator EXCEPT ![m] =
       IF saved.sc = None THEN Refused
       ELSE At("admit", saved.sc, target, saved.origin)]
  /\ RunUnchanged /\ UNCHANGED <<runs, sent>>

applyRunGuardrails(sc) ==
  IF cfg.maxRate > 0 /\ sc.rate = 0 THEN [sc EXCEPT !.rate = cfg.maxRate]
                                    ELSE sc

AdmitRun(m) ==
  LET c == creator[m]
      complete == Completed(c.sc, c.target)
  IN
  /\ c.pc = "admit"
  /\ creator' = [creator EXCEPT ![m] =
       IF Resolvable(c.sc, c.target) /\ Acceptable(complete)
       THEN At("insert", applyRunGuardrails(complete), None, NoOrigin)
       ELSE Refused]
  /\ RunUnchanged /\ UNCHANGED <<runs, sent>>

InsertRun(m) ==
  /\ creator[m].pc = "insert"
  /\ runs' = [runs EXCEPT ![m] =
       [sc |-> Stored(creator[m].sc), accepted |-> creator[m].sc,
        cfg |-> cfg, env |-> env]]
  /\ creator' = [creator EXCEPT ![m] = [Idle EXCEPT !.pc = "accepted"]]
  /\ RunUnchanged /\ UNCHANGED sent

\* RunWithOptions in the worker, which knows no limits; a scenario that is not
\* valid is an error of the run.
ExecuteRun(m) ==
  LET sc == Normalized(WithEnv(runs[m].sc, workerEnv)) IN
  /\ runs[m].sc # None /\ sent[m].sc = None
  /\ sent' = [sent EXCEPT ![m] = [sc |-> sc, ok |-> Validate(sc)]]
  /\ RunUnchanged /\ UNCHANGED <<creator, runs>>

\* The API is stopped and started with other limits or another environment;
\* the requests it was serving are gone.
Stopped(h) == IF h.pc \in {"idle", "done", "accepted"} THEN h ELSE Refused

Restart ==
  /\ restarts < MaxRestarts
  /\ restarts' = restarts + 1
  /\ cfg' \in Configs /\ env' \in Envs
  /\ saver' = [w \in Savers |-> Stopped(saver[w])]
  /\ creator' = [m \in Creators |-> Stopped(creator[m])]
  /\ UNCHANGED <<workerEnv, targets, saved, runs, sent>>

Next ==
  \/ \E t \in Targets :
       \/ DeleteTarget(t)
       \/ \E body \in TargetBodies :
            CreateTarget(t, body) \/ UpdateTarget(t, body)
  \/ \E w \in Savers :
       StoreScenario(w) \/ \E sc \in Posted : SaveScenario(w, sc)
  \/ \E m \in Creators :
       \/ \E t \in Targets \cup {None} :
            LoadSaved(m, t) \/ \E sc \in Posted : LoadInline(m, sc, t)
       \/ AdmitRun(m) \/ InsertRun(m) \/ ExecuteRun(m)
  \/ Restart

Spec == Init /\ [][Next]_vars

-----------------------------------------------------------------------------
(* Properties                                                              *)

\* joinURL of the runner: where a request goes.
joinURL(sc, q) == resolveURL(Parse[sc.base], Parse[q.path])

Reachable(u, sc, limits) ==
  /\ u.scheme \in Web /\ ~u.credentials
  /\ IF limits.allowlist = {}
     THEN sameOrigin(u, Parse[sc.base]) /\ ~isMetadataHost(u)
     ELSE matchesAllowlist(u, limits.allowlist)

\* Nothing in it is left to expand.
PlainHeaders(h) == \A k \in DOMAIN h : h[k] \notin Templates

PlainRequest(q) ==
  /\ {q.name, q.path, q.body} \cap Templates = {}
  /\ PlainHeaders(q.headers)

Plain(sc) ==
  /\ sc.name \notin Templates /\ sc.base \notin Templates
  /\ PlainHeaders(sc.headers)
  /\ \A q \in sc.requests : PlainRequest(q)

\* The worker has something left to expand: a variable of the API brought
\* another one in, or JSONB shows one that was escaped when it was accepted.
LeftToExpand(run) ==
  IF Plain(run.accepted) THEN ~Plain(run.sc)
                         ELSE \E t \in Templates : run.env[t] \in Templates

\* What was accepted is what is executed: the worker's own expansion, defaults
\* and validation, in an environment of its own, neither change nor refuse it.
\* Only its JSON bodies are those that the store gives back, and only a variable
\* that another one or JSONB brought in is expanded by the worker.
AcceptedIsExecuted ==
  \A m \in Creators :
    sent[m].sc # None =>
      \/ LeftToExpand(runs[m])
      \/ sent[m].ok /\ sent[m].sc = Stored(runs[m].accepted)

\* A body that outgrew the limit in the store.
Grown(q, run) ==
  \E a \in run.accepted.requests :
    /\ q.json /\ a.json /\ q.body = Jsonb[a.body]
    /\ WithinMax(Size[a.body], run.cfg.maxBody)

\* Traffic keeps to the limits its run was accepted under, although the worker
\* that expands and sends it checks none: goroutines and rate always; unless
\* the worker has something left to expand, also the hosts of all requests,
\* those of hooks and probes and those whose path names a host of its own, and
\* their bodies, as they were before the store gave them back.
SentWithinLimits ==
  \A m \in Creators :
    LET sc == sent[m].sc
        limits == runs[m].cfg
    IN
    sc # None =>
      /\ WithinMax(sc.concurrency, limits.maxConcurrency)
      /\ limits.maxRate > 0 => sc.rate \in 1 .. limits.maxRate
      /\ \/ LeftToExpand(runs[m])
         \/ \A q \in sc.requests :
              /\ WithinMax(Size[q.body], limits.maxBody) \/ Grown(q, runs[m])
              /\ Reachable(joinURL(sc, q), sc, limits)

\* A scenario that could be saved can be run: a run of it is refused only when
\* it names another target, the limits, the environment or the target have
\* changed since, it still has a variable that the environment or JSONB brought
\* in, or JSONB made one of its bodies longer than the limit.
SavedScenariosRun ==
  [][\A m \in Creators :
       LET c == creator[m] IN
       /\ c.pc = "admit" /\ creator'[m] = Refused /\ restarts' = restarts
       /\ c.origin # NoOrigin
       => \/ c.target # None
          \/ c.origin # [cfg |-> cfg, env |-> env,
                         target |-> TargetNow(c.sc, None)]
          \/ ~Plain(c.sc)
          \/ \E q \in c.sc.requests :
               q.json /\ ~WithinMax(Size[q.body], cfg.maxBody)]_vars
=============================================================================
