--------------------------- MODULE AdmissionProofs --------------------------
(***************************************************************************)
(* The theorems of Admission: what a worker sends is what was accepted and *)
(* keeps to the limits it was accepted under, and a saved scenario is run  *)
(* again, for any texts, targets, scenarios, limits and environments, and  *)
(* any form JSONB gives a body.                                            *)
(***************************************************************************)
EXTENDS Admission, TLAPS

\* The values of an environment's variables name no variable.
Clean(e) == \A t \in Templates : e[t] \notin Templates

\* The one default that Validate does not ask for.
RetriesSet(sc) == sc.type = "retry_storm" => sc.attempts > 0

\* A scenario that Normalized leaves alone and Validate accepts; WithEnv leaves
\* it alone when it is plain.
Settled(sc) == IsScenario(sc) /\ RetriesSet(sc) /\ Validate(sc)

\* A scenario that may be run under these limits, completed in this environment.
Admitted(sc, limits, e) ==
  /\ Settled(sc)
  /\ Clean(e) => Plain(sc)
  /\ GuardrailsValidate(sc, limits)
  /\ limits.maxRate > 0 => sc.rate \in 1 .. limits.maxRate

\* A scenario that was checked under this origin: its target's base URL and
\* headers are in it.
Saved(sc, origin) ==
  /\ Settled(sc)
  /\ GuardrailsValidate(sc, origin.cfg)
  /\ sc.target # None =>
       /\ origin.target # NoTarget
       /\ sc.base = Expand(origin.env, origin.target.base)
       /\ DOMAIN origin.target.headers \subseteq DOMAIN sc.headers

\* The same as the store gives it back.
Reread(sc, origin) == \E a : sc = Stored(a) /\ Saved(a, origin)

\* The records of targets are the bodies that were checked.
TargetsKnown ==
  targets \in [Targets -> {Record(body) : body \in TargetBodies} \cup {NoTarget}]

SavesHold ==
  /\ \A w \in Savers : saver[w].pc = "store" =>
       Saved(saver[w].sc, saver[w].origin)
  /\ saved.sc # None => Reread(saved.sc, saved.origin)

\* A request is served by one process, so its limits are the current ones
\* until the run is inserted.
CreationsHold ==
  \A m \in Creators :
    /\ creator[m].pc = "admit" =>
         /\ IsScenario(creator[m].sc)
         /\ creator[m].target \in Targets \cup {None}
         /\ creator[m].origin # NoOrigin =>
              Reread(creator[m].sc, creator[m].origin)
    /\ creator[m].pc = "insert" => Admitted(creator[m].sc, cfg, env)

\* The snapshot is what was accepted, as the store gives it back.
Accepted(run) ==
  /\ Admitted(run.accepted, run.cfg, run.env)
  /\ run.sc = Stored(run.accepted)

\* What is sent for a run.
Executed(s, run) ==
  /\ s.sc.concurrency = run.accepted.concurrency
  /\ s.sc.rate = run.accepted.rate
  /\ LeftToExpand(run) \/ (s.ok /\ s.sc = run.sc)

RunsHold ==
  \A m \in Creators :
    /\ runs[m].sc # None => Accepted(runs[m]) /\ creator[m].pc = "accepted"
    /\ sent[m].sc # None => runs[m].sc # None /\ Executed(sent[m], runs[m])

Inv ==
  /\ cfg \in Configs /\ env \in Envs /\ workerEnv \in Envs
  /\ restarts \in Nat
  /\ TargetsKnown
  /\ DOMAIN saver = Savers /\ DOMAIN creator = Creators
  /\ DOMAIN runs = Creators /\ DOMAIN sent = Creators
  /\ SavesHold
  /\ CreationsHold
  /\ RunsHold

-----------------------------------------------------------------------------
(* WithEnv                                                                 *)

\* Lemma: expansion leaves no template that no value brings in, and a text
\* without one alone.
LEMMA ExpandText ==
  ASSUME NEW e \in Envs, NEW t \in Texts
  PROVE  /\ Expand(e, t) \in Texts
         /\ Clean(e) => Expand(e, t) \notin Templates
         /\ t \notin Templates => Expand(e, t) = t
BY AdmissionAssumption DEF Expand, Clean

\* Lemma: the same for the values of headers.
LEMMA ExpandHeaders ==
  ASSUME NEW e \in Envs, NEW h, IsHeaders(h)
  PROVE  /\ IsHeaders(ExpandValues(e, h))
         /\ Clean(e) => PlainHeaders(ExpandValues(e, h))
         /\ DOMAIN ExpandValues(e, h) = DOMAIN h
         /\ PlainHeaders(h) => ExpandValues(e, h) = h
<1>1. ASSUME NEW D, NEW g \in [D -> Texts]
      PROVE  LET x == [k \in D |-> Expand(e, g[k])] IN
             /\ x \in [D -> Texts]
             /\ Clean(e) => x \in [D -> Texts \ Templates]
             /\ (\A k \in D : g[k] \notin Templates) => x = g
  <2>1. \A k \in D : /\ Expand(e, g[k]) \in Texts
                     /\ Clean(e) => Expand(e, g[k]) \in Texts \ Templates
                     /\ g[k] \notin Templates => Expand(e, g[k]) = g[k]
    BY <1>1, ExpandText
  <2> DEFINE x == [k \in D |-> Expand(e, g[k])]
  <2>2. x \in [D -> Texts]
    BY <2>1
  <2>3. Clean(e) => x \in [D -> Texts \ Templates]
    BY <2>1
  <2>4. (\A k \in D : g[k] \notin Templates) => x = g
    BY <1>1, <2>1
  <2>5. QED
    BY <2>2, <2>3, <2>4
<1> DEFINE D == DOMAIN h
           x == [k \in D |-> Expand(e, h[k])]
<1>2. h \in [D -> Texts] /\ D \subseteq Texts
  BY DEF IsHeaders
<1>3. ExpandValues(e, h) = x
  BY DEF ExpandValues
<1> HIDE DEF D
<1>4. /\ x \in [D -> Texts]
      /\ Clean(e) => x \in [D -> Texts \ Templates]
      /\ (\A k \in D : h[k] \notin Templates) => x = h
  BY <1>1, <1>2
<1> HIDE DEF x
<1>5. DOMAIN x = D
  BY <1>4
<1>6. IsHeaders(x)
  BY <1>2, <1>4, <1>5 DEF IsHeaders
<1>7. Clean(e) => PlainHeaders(x)
  BY <1>4, <1>5 DEF PlainHeaders
<1>8. PlainHeaders(h) => x = h
  BY <1>4 DEF PlainHeaders, D
<1>9. QED
  BY <1>3, <1>5, <1>6, <1>7, <1>8 DEF D

ExpandRequest(e, q) ==
  [q EXCEPT !.name = Expand(e, @), !.path = Expand(e, @),
            !.body = Expand(e, @), !.headers = ExpandValues(e, @)]

\* Lemma: the fields of a request, and the request of the fields.
LEMMA RequestFields ==
  ASSUME NEW q, IsRequest(q)
  PROVE  /\ q.name \in Texts /\ q.path \in Texts /\ q.body \in Texts
         /\ q.json \in BOOLEAN /\ IsHeaders(q.headers)
         /\ q = [section |-> q.section, name |-> q.name, path |-> q.path,
                 body |-> q.body, json |-> q.json, headers |-> q.headers]
BY DEF IsRequest

\* Lemma: the same for a request.
LEMMA ExpandRequestFields ==
  ASSUME NEW e \in Envs, NEW q, IsRequest(q)
  PROVE  LET r == ExpandRequest(e, q) IN
         /\ IsRequest(r) /\ r.section = q.section
         /\ Clean(e) => PlainRequest(r)
         /\ PlainRequest(q) => r = q
<1> DEFINE r == ExpandRequest(e, q)
<1>1. /\ q.name \in Texts /\ q.path \in Texts /\ q.body \in Texts
      /\ q.json \in BOOLEAN /\ IsHeaders(q.headers)
      /\ q = [section |-> q.section, name |-> q.name, path |-> q.path,
              body |-> q.body, json |-> q.json, headers |-> q.headers]
  BY RequestFields
<1>2. r = [section |-> q.section, name |-> Expand(e, q.name),
           path |-> Expand(e, q.path), body |-> Expand(e, q.body),
           json |-> q.json, headers |-> ExpandValues(e, q.headers)]
  <2>1. r = [q EXCEPT !.name = Expand(e, q.name), !.path = Expand(e, q.path),
                      !.body = Expand(e, q.body),
                      !.headers = ExpandValues(e, q.headers)]
    BY <1>1 DEF ExpandRequest
  <2> HIDE DEF r
  <2>2. QED
    BY <1>1, <2>1
<1> HIDE DEF r
<1>3. /\ r.section = q.section /\ r.name = Expand(e, q.name)
      /\ r.path = Expand(e, q.path) /\ r.body = Expand(e, q.body)
      /\ r.json = q.json /\ r.headers = ExpandValues(e, q.headers)
  BY <1>2
<1>4. /\ r.name \in Texts /\ r.path \in Texts /\ r.body \in Texts
      /\ IsHeaders(r.headers)
      /\ Clean(e) => /\ r.name \notin Templates /\ r.path \notin Templates
                     /\ r.body \notin Templates /\ PlainHeaders(r.headers)
  BY <1>1, <1>3, ExpandText, ExpandHeaders
<1>5. IsRequest(r)
  BY <1>1, <1>2, <1>3, <1>4 DEF IsRequest
<1>6. Clean(e) => PlainRequest(r)
  BY <1>4 DEF PlainRequest
<1>7. PlainRequest(q) => r = q
  <2> SUFFICES ASSUME PlainRequest(q) PROVE r = q
    OBVIOUS
  <2>0. /\ q.name \notin Templates /\ q.path \notin Templates
        /\ q.body \notin Templates /\ PlainHeaders(q.headers)
    BY DEF PlainRequest
  <2>1. /\ Expand(e, q.name) = q.name /\ Expand(e, q.path) = q.path
        /\ Expand(e, q.body) = q.body
        /\ ExpandValues(e, q.headers) = q.headers
    BY <1>1, <2>0, ExpandText, ExpandHeaders
  <2>2. QED
    BY <1>1, <1>2, <2>1
<1>8. QED
  BY <1>3, <1>5, <1>6, <1>7 DEF r

\* Lemma: the fields of a scenario, and the scenario of the fields.
LEMMA ScenarioFields ==
  ASSUME NEW sc, IsScenario(sc)
  PROVE  /\ sc.version \in Int /\ sc.name \in Texts
         /\ sc.concurrency \in Int /\ sc.iterations \in Int
         /\ sc.rate \in Int /\ sc.attempts \in Int
         /\ sc.target \in Targets \cup {None} /\ sc.base \in Texts
         /\ sc.checksOK \in BOOLEAN /\ IsHeaders(sc.headers)
         /\ \A q \in sc.requests : IsRequest(q)
         /\ sc = [version |-> sc.version, name |-> sc.name, type |-> sc.type,
                  concurrency |-> sc.concurrency,
                  iterations |-> sc.iterations, rate |-> sc.rate,
                  attempts |-> sc.attempts, target |-> sc.target,
                  base |-> sc.base, headers |-> sc.headers,
                  requests |-> sc.requests, checksOK |-> sc.checksOK]
BY DEF IsScenario

\* Lemma: what WithEnv makes of each field.
LEMMA WithEnvRecord ==
  ASSUME NEW e \in Envs, NEW sc, IsScenario(sc)
  PROVE  WithEnv(sc, e) =
           [version |-> sc.version, name |-> Expand(e, sc.name),
            type |-> sc.type, concurrency |-> sc.concurrency,
            iterations |-> sc.iterations, rate |-> sc.rate,
            attempts |-> sc.attempts, target |-> sc.target,
            base |-> Expand(e, sc.base),
            headers |-> ExpandValues(e, sc.headers),
            requests |-> {ExpandRequest(e, q) : q \in sc.requests},
            checksOK |-> sc.checksOK]
<1> DEFINE x == WithEnv(sc, e)
           R == {ExpandRequest(e, q) : q \in sc.requests}
<1>1. x = [sc EXCEPT !.name = Expand(e, sc.name), !.base = Expand(e, sc.base),
                     !.headers = ExpandValues(e, sc.headers), !.requests = R]
  BY ScenarioFields DEF WithEnv, ExpandRequest
<1> HIDE DEF R, x
<1>2. x = [version |-> sc.version, name |-> Expand(e, sc.name),
           type |-> sc.type, concurrency |-> sc.concurrency,
           iterations |-> sc.iterations, rate |-> sc.rate,
           attempts |-> sc.attempts, target |-> sc.target,
           base |-> Expand(e, sc.base),
           headers |-> ExpandValues(e, sc.headers),
           requests |-> R, checksOK |-> sc.checksOK]
  <2>1. sc = [version |-> sc.version, name |-> sc.name, type |-> sc.type,
              concurrency |-> sc.concurrency,
              iterations |-> sc.iterations, rate |-> sc.rate,
              attempts |-> sc.attempts, target |-> sc.target,
              base |-> sc.base, headers |-> sc.headers,
              requests |-> sc.requests, checksOK |-> sc.checksOK]
    BY ScenarioFields
  <2>2. QED
    BY <1>1, <2>1
<1>3. QED
  BY <1>2 DEF x, R

\* Lemma: requests without templates stay as they are, all others lose theirs.
LEMMA ExpandRequests ==
  ASSUME NEW e \in Envs, NEW Q, \A q \in Q : IsRequest(q)
  PROVE  /\ \A r \in {ExpandRequest(e, q) : q \in Q} :
              IsRequest(r) /\ (Clean(e) => PlainRequest(r))
         /\ (\A q \in Q : PlainRequest(q)) =>
              {ExpandRequest(e, q) : q \in Q} = Q
<1>1. \A q \in Q : /\ IsRequest(ExpandRequest(e, q))
                   /\ Clean(e) => PlainRequest(ExpandRequest(e, q))
                   /\ PlainRequest(q) => ExpandRequest(e, q) = q
  BY ExpandRequestFields
<1>2. QED
  BY <1>1

\* Lemma: WithEnv expands a scenario, and leaves one without templates alone.
LEMMA WithEnvFields ==
  ASSUME NEW e \in Envs, NEW sc, IsScenario(sc)
  PROVE  LET x == WithEnv(sc, e) IN
         /\ IsScenario(x) /\ (Clean(e) => Plain(x))
         /\ x.concurrency = sc.concurrency /\ x.rate = sc.rate
         /\ x.target = sc.target /\ x.base = Expand(e, sc.base)
         /\ DOMAIN x.headers = DOMAIN sc.headers
         /\ Plain(sc) => x = sc
<1> DEFINE x == WithEnv(sc, e)
           R == {ExpandRequest(e, q) : q \in sc.requests}
<1>1. /\ sc.version \in Int /\ sc.name \in Texts
      /\ sc.concurrency \in Int /\ sc.iterations \in Int
      /\ sc.rate \in Int /\ sc.attempts \in Int
      /\ sc.target \in Targets \cup {None} /\ sc.base \in Texts
      /\ sc.checksOK \in BOOLEAN /\ IsHeaders(sc.headers)
      /\ \A q \in sc.requests : IsRequest(q)
      /\ sc = [version |-> sc.version, name |-> sc.name, type |-> sc.type,
               concurrency |-> sc.concurrency,
               iterations |-> sc.iterations, rate |-> sc.rate,
               attempts |-> sc.attempts, target |-> sc.target,
               base |-> sc.base, headers |-> sc.headers,
               requests |-> sc.requests, checksOK |-> sc.checksOK]
  BY ScenarioFields
<1>3. x = [version |-> sc.version, name |-> Expand(e, sc.name),
           type |-> sc.type, concurrency |-> sc.concurrency,
           iterations |-> sc.iterations, rate |-> sc.rate,
           attempts |-> sc.attempts, target |-> sc.target,
           base |-> Expand(e, sc.base),
           headers |-> ExpandValues(e, sc.headers),
           requests |-> R, checksOK |-> sc.checksOK]
  BY WithEnvRecord
<1>5. /\ Expand(e, sc.name) \in Texts /\ Expand(e, sc.base) \in Texts
      /\ IsHeaders(ExpandValues(e, sc.headers))
      /\ Clean(e) => /\ Expand(e, sc.name) \notin Templates
                     /\ Expand(e, sc.base) \notin Templates
                     /\ PlainHeaders(ExpandValues(e, sc.headers))
      /\ DOMAIN ExpandValues(e, sc.headers) = DOMAIN sc.headers
  BY <1>1, ExpandText, ExpandHeaders
<1>6. /\ \A r \in R : IsRequest(r) /\ (Clean(e) => PlainRequest(r))
      /\ Plain(sc) => R = sc.requests
  BY <1>1, ExpandRequests DEF Plain
<1> HIDE DEF R, x
<1>4. /\ x.version = sc.version /\ x.name = Expand(e, sc.name)
      /\ x.type = sc.type /\ x.concurrency = sc.concurrency
      /\ x.iterations = sc.iterations /\ x.rate = sc.rate
      /\ x.attempts = sc.attempts /\ x.target = sc.target
      /\ x.base = Expand(e, sc.base)
      /\ x.headers = ExpandValues(e, sc.headers)
      /\ x.requests = R /\ x.checksOK = sc.checksOK
  BY <1>3
<1>8. IsScenario(x)
  BY <1>1, <1>3, <1>4, <1>5, <1>6 DEF IsScenario
<1>9. Clean(e) => Plain(x)
  BY <1>4, <1>5, <1>6 DEF Plain
<1>10. Plain(sc) => x = sc
  <2> SUFFICES ASSUME Plain(sc) PROVE x = sc
    OBVIOUS
  <2>1. /\ Expand(e, sc.name) = sc.name /\ Expand(e, sc.base) = sc.base
        /\ ExpandValues(e, sc.headers) = sc.headers
    BY <1>1, ExpandText, ExpandHeaders DEF Plain
  <2>2. QED
    BY <1>1, <1>3, <1>6, <2>1
<1>11. QED
  BY <1>4, <1>5, <1>8, <1>9, <1>10 DEF x

-----------------------------------------------------------------------------
(* Normalized                                                              *)

\* Lemma: defaults fill a scenario in; they touch neither its texts nor a
\* scenario that is settled.
LEMMA NormalizedFields ==
  ASSUME NEW sc, IsScenario(sc)
  PROVE  LET x == Normalized(sc) IN
         /\ IsScenario(x) /\ RetriesSet(x)
         /\ Plain(sc) => Plain(x)
         /\ x.target = sc.target /\ x.base = sc.base /\ x.headers = sc.headers
         /\ x.rate = sc.rate
         /\ sc.concurrency >= 1 => x.concurrency = sc.concurrency
         /\ Settled(sc) => x = sc
<1> DEFINE x == Normalized(sc)
           version == IF sc.version = 0 THEN CurrentVersion ELSE sc.version
           type == IF sc.type = "" THEN "load" ELSE sc.type
           attempts == IF type = "retry_storm" /\ sc.attempts <= 0 THEN 3
                       ELSE sc.attempts
<1>1. /\ sc.version \in Int /\ sc.name \in Texts
      /\ sc.concurrency \in Int /\ sc.iterations \in Int
      /\ sc.rate \in Int /\ sc.attempts \in Int
      /\ sc.target \in Targets \cup {None} /\ sc.base \in Texts
      /\ sc.checksOK \in BOOLEAN /\ IsHeaders(sc.headers)
      /\ \A q \in sc.requests : IsRequest(q)
      /\ sc = [version |-> sc.version, name |-> sc.name, type |-> sc.type,
               concurrency |-> sc.concurrency,
               iterations |-> sc.iterations, rate |-> sc.rate,
               attempts |-> sc.attempts, target |-> sc.target,
               base |-> sc.base, headers |-> sc.headers,
               requests |-> sc.requests, checksOK |-> sc.checksOK]
  BY ScenarioFields
<1>2. /\ version \in Int /\ attempts \in Int
      /\ AtLeastOne(sc.concurrency) \in Int
      /\ AtLeastOne(sc.iterations) \in Int
      /\ type = "retry_storm" => attempts > 0
  <2>1. \A n \in Int : AtLeastOne(n) \in Int
    BY DEF AtLeastOne
  <2>2. ASSUME NEW t, NEW n \in Int
        PROVE  LET k == IF t = "retry_storm" /\ n <= 0 THEN 3 ELSE n IN
               k \in Int /\ (t = "retry_storm" => k > 0)
    OBVIOUS
  <2>3. sc.attempts \in Int /\ sc.version \in Int
    BY <1>1
  <2>4. version \in Int
    BY <2>3 DEF CurrentVersion
  <2> HIDE DEF type
  <2>5. attempts \in Int /\ (type = "retry_storm" => attempts > 0)
    BY <2>2, <2>3
  <2>6. QED
    BY <1>1, <2>1, <2>4, <2>5
<1>3. Settled(sc) =>
        /\ version = sc.version /\ type = sc.type /\ attempts = sc.attempts
        /\ AtLeastOne(sc.concurrency) = sc.concurrency
        /\ AtLeastOne(sc.iterations) = sc.iterations
  <2> SUFFICES ASSUME Settled(sc)
               PROVE  /\ version = sc.version /\ type = sc.type
                      /\ attempts = sc.attempts
                      /\ AtLeastOne(sc.concurrency) = sc.concurrency
                      /\ AtLeastOne(sc.iterations) = sc.iterations
    OBVIOUS
  <2>1. /\ sc.version = 1 /\ sc.type \in TrafficTypes
        /\ sc.concurrency >= 1 /\ sc.iterations >= 1
        /\ sc.type = "retry_storm" => sc.attempts > 0
    BY DEF Settled, Validate, RetriesSet, CurrentVersion
  <2>2. sc.type # ""
    BY <2>1 DEF TrafficTypes
  <2>3. \A n \in Int : n >= 1 => AtLeastOne(n) = n
    BY DEF AtLeastOne
  <2>7. version = sc.version
    BY <2>1
  <2>8. type = sc.type
    BY <2>2
  <2>4. version = sc.version /\ type = sc.type
    BY <2>7, <2>8, Zenon
  <2>5. attempts = sc.attempts
    <3>1. \A n \in Int : n > 0 => ~(n <= 0)
      OBVIOUS
    <3>2. sc.attempts \in Int
      BY <1>1
    <3>3. type = "retry_storm" => ~(sc.attempts <= 0)
      BY <2>1, <2>4, <3>1, <3>2
    <3>4. QED
      BY <3>3
  <2>6. QED
    BY <1>1, <2>1, <2>3, <2>4, <2>5
<1>4. x = [sc EXCEPT !.version = version, !.type = type,
                     !.concurrency = AtLeastOne(sc.concurrency),
                     !.iterations = AtLeastOne(sc.iterations),
                     !.attempts = attempts]
  BY <1>1 DEF Normalized
<1> HIDE DEF x, version, type, attempts
<1>5. x = [version |-> version, name |-> sc.name, type |-> type,
           concurrency |-> AtLeastOne(sc.concurrency),
           iterations |-> AtLeastOne(sc.iterations), rate |-> sc.rate,
           attempts |-> attempts, target |-> sc.target,
           base |-> sc.base, headers |-> sc.headers,
           requests |-> sc.requests, checksOK |-> sc.checksOK]
  BY <1>1, <1>4
<1>6. /\ x.version = version /\ x.name = sc.name
      /\ x.type = type /\ x.concurrency = AtLeastOne(sc.concurrency)
      /\ x.iterations = AtLeastOne(sc.iterations) /\ x.rate = sc.rate
      /\ x.attempts = attempts /\ x.target = sc.target
      /\ x.base = sc.base /\ x.headers = sc.headers
      /\ x.requests = sc.requests /\ x.checksOK = sc.checksOK
  BY <1>5
<1>7. IsScenario(x)
  BY <1>1, <1>2, <1>5, <1>6 DEF IsScenario
<1>8. RetriesSet(x) /\ (Plain(sc) => Plain(x))
  BY <1>2, <1>6 DEF RetriesSet, Plain
<1>9. Settled(sc) => x = sc
  BY <1>1, <1>3, <1>5
<1>11. sc.concurrency >= 1 => x.concurrency = sc.concurrency
  BY <1>1, <1>6 DEF AtLeastOne
<1>10. QED
  BY <1>6, <1>7, <1>8, <1>9, <1>11 DEF x

\* Lemma: a settled scenario that is plain passes through the worker as it is.
LEMMA SettledStays ==
  ASSUME NEW e \in Envs, NEW sc, Settled(sc), Plain(sc)
  PROVE  Normalized(WithEnv(sc, e)) = sc
<1>1. WithEnv(sc, e) = sc
  BY WithEnvFields DEF Settled
<1>2. QED
  BY <1>1, NormalizedFields DEF Settled

-----------------------------------------------------------------------------
(* The store                                                               *)

StoredRequest(q) == [q EXCEPT !.body = IF q.json THEN Jsonb[@] ELSE @]

\* Lemma: a valid request as the store gives it back.
LEMMA StoredRequestFields ==
  ASSUME NEW q, IsRequest(q), q.json => q.body \in JSONTexts
  PROVE  LET r == StoredRequest(q) IN
         /\ IsRequest(r) /\ r.section = q.section /\ r.name = q.name
         /\ r.path = q.path /\ r.json = q.json
         /\ r.json => r.body \in JSONTexts /\ r.body = Jsonb[q.body]
         /\ ~r.json => r.body = q.body
<1> DEFINE r == StoredRequest(q)
           b == IF q.json THEN Jsonb[q.body] ELSE q.body
<1>1. /\ q.name \in Texts /\ q.path \in Texts /\ q.body \in Texts
      /\ q.json \in BOOLEAN /\ IsHeaders(q.headers)
      /\ q = [section |-> q.section, name |-> q.name, path |-> q.path,
              body |-> q.body, json |-> q.json, headers |-> q.headers]
  BY RequestFields
<1>2. b \in Texts /\ (q.json => b \in JSONTexts)
  BY <1>1, AdmissionAssumption
<1>3. r = [q EXCEPT !.body = b]
  BY <1>1 DEF StoredRequest
<1>4. (q.json => b = Jsonb[q.body]) /\ (~q.json => b = q.body)
  OBVIOUS
<1> HIDE DEF r, b
<1>5. r = [section |-> q.section, name |-> q.name, path |-> q.path,
           body |-> b, json |-> q.json, headers |-> q.headers]
  BY <1>1, <1>3
<1>6. /\ r.section = q.section /\ r.name = q.name /\ r.path = q.path
      /\ r.body = b /\ r.json = q.json /\ r.headers = q.headers
  BY <1>5
<1>7. IsRequest(r)
  BY <1>1, <1>2, <1>5, <1>6 DEF IsRequest
<1>8. QED
  BY <1>2, <1>4, <1>6, <1>7 DEF r

\* Lemma: a settled scenario as the store gives it back is settled, with the
\* same fields and for each of its requests one that was there.
LEMMA StoredFields ==
  ASSUME NEW sc, Settled(sc)
  PROVE  LET x == Stored(sc) IN
         /\ Settled(x)
         /\ x.concurrency = sc.concurrency /\ x.rate = sc.rate
         /\ x.target = sc.target /\ x.base = sc.base /\ x.headers = sc.headers
         /\ \A r \in x.requests : \E q \in sc.requests :
              /\ r.path = q.path /\ r.json = q.json
              /\ r.json => r.body = Jsonb[q.body]
              /\ ~r.json => r.body = q.body
<1> DEFINE x == Stored(sc)
           R == {StoredRequest(q) : q \in sc.requests}
<1>0. IsScenario(sc) /\ RetriesSet(sc) /\ Validate(sc)
  BY DEF Settled
<1>1. /\ sc.version \in Int /\ sc.name \in Texts
      /\ sc.concurrency \in Int /\ sc.iterations \in Int
      /\ sc.rate \in Int /\ sc.attempts \in Int
      /\ sc.target \in Targets \cup {None} /\ sc.base \in Texts
      /\ sc.checksOK \in BOOLEAN /\ IsHeaders(sc.headers)
      /\ \A q \in sc.requests : IsRequest(q)
      /\ sc = [version |-> sc.version, name |-> sc.name, type |-> sc.type,
               concurrency |-> sc.concurrency,
               iterations |-> sc.iterations, rate |-> sc.rate,
               attempts |-> sc.attempts, target |-> sc.target,
               base |-> sc.base, headers |-> sc.headers,
               requests |-> sc.requests, checksOK |-> sc.checksOK]
  BY <1>0, ScenarioFields
<1>2. \A q \in sc.requests : /\ Size[q.name] > 0 /\ Size[q.path] > 0
                             /\ q.json => q.body \in JSONTexts
  BY <1>0 DEF Validate
<1>3. \A q \in sc.requests :
        LET r == StoredRequest(q) IN
        /\ IsRequest(r) /\ r.section = q.section /\ r.name = q.name
        /\ r.path = q.path /\ r.json = q.json
        /\ r.json => r.body \in JSONTexts /\ r.body = Jsonb[q.body]
        /\ ~r.json => r.body = q.body
  BY <1>1, <1>2, StoredRequestFields
<1>4. \A r \in R : \E q \in sc.requests :
        /\ IsRequest(r) /\ r.section = q.section /\ r.name = q.name
        /\ r.path = q.path /\ r.json = q.json
        /\ r.json => r.body \in JSONTexts /\ r.body = Jsonb[q.body]
        /\ ~r.json => r.body = q.body
  BY <1>3
<1>5. \A q \in sc.requests : \E r \in R : r.section = q.section
  BY <1>3
<1>6. x = [sc EXCEPT !.requests = R]
  BY <1>1 DEF Stored, StoredRequest
<1> HIDE DEF x, R
<1>7. x = [version |-> sc.version, name |-> sc.name, type |-> sc.type,
           concurrency |-> sc.concurrency,
           iterations |-> sc.iterations, rate |-> sc.rate,
           attempts |-> sc.attempts, target |-> sc.target,
           base |-> sc.base, headers |-> sc.headers,
           requests |-> R, checksOK |-> sc.checksOK]
  BY <1>1, <1>6
<1>8. /\ x.version = sc.version /\ x.name = sc.name
      /\ x.type = sc.type /\ x.concurrency = sc.concurrency
      /\ x.iterations = sc.iterations /\ x.rate = sc.rate
      /\ x.attempts = sc.attempts /\ x.target = sc.target
      /\ x.base = sc.base /\ x.headers = sc.headers
      /\ x.requests = R /\ x.checksOK = sc.checksOK
  BY <1>7
<1>9. \A r \in R : IsRequest(r)
  BY <1>4
<1>10. IsScenario(x)
  BY <1>1, <1>7, <1>8, <1>9 DEF IsScenario
<1>11. RetriesSet(x)
  BY <1>0, <1>8 DEF RetriesSet
<1>12. Validate(x)
  <2>1. \A r \in R : /\ Size[r.name] > 0 /\ Size[r.path] > 0
                     /\ r.json => r.body \in JSONTexts
    BY <1>2, <1>4
  <2>2. \E r \in R : r.section = "requests"
    BY <1>0, <1>5 DEF Validate
  <2>3. QED
    BY <1>0, <1>8, <2>1, <2>2 DEF Validate
<1>13. QED
  BY <1>4, <1>8, <1>10, <1>11, <1>12 DEF Settled, x

\* Lemma: it keeps to the limits but for JSON bodies that have grown.
LEMMA StoredKeepsToLimits ==
  ASSUME NEW sc, Settled(sc), NEW limits, GuardrailsValidate(sc, limits),
         \A q \in Stored(sc).requests :
           q.json => WithinMax(Size[q.body], limits.maxBody)
  PROVE  GuardrailsValidate(Stored(sc), limits)
<1> DEFINE x == Stored(sc)
<1>1. /\ x.concurrency = sc.concurrency /\ x.rate = sc.rate
      /\ x.base = sc.base
      /\ \A r \in x.requests : \E q \in sc.requests :
           /\ r.path = q.path /\ r.json = q.json
           /\ ~r.json => r.body = q.body
  BY StoredFields
<1> HIDE DEF x
<1>2. \A r \in x.requests : WithinMax(Size[r.body], limits.maxBody)
  BY <1>1 DEF GuardrailsValidate, x
<1>3. \A r \in x.requests :
        validatePathTarget(Parse[x.base], r.path, limits)
  BY <1>1 DEF GuardrailsValidate
<1>4. GuardrailsValidate(x, limits)
  BY <1>1, <1>2, <1>3 DEF GuardrailsValidate
<1>5. QED
  BY <1>4 DEF x

-----------------------------------------------------------------------------
(* Targets                                                                 *)

\* Lemma: merged headers are the scenario's where both have one.
LEMMA MergedHeaders ==
  ASSUME NEW a, NEW b, IsHeaders(a), IsHeaders(b)
  PROVE  /\ IsHeaders(mergeHeaders(a, b))
         /\ DOMAIN a \subseteq DOMAIN mergeHeaders(a, b)
         /\ DOMAIN a \subseteq DOMAIN b => mergeHeaders(a, b) = b
<1>1. ASSUME NEW A, NEW B, NEW f \in [A -> Texts], NEW g \in [B -> Texts]
      PROVE  LET x == [k \in A \cup B |-> IF k \in B THEN g[k] ELSE f[k]] IN
             x \in [A \cup B -> Texts] /\ (A \subseteq B => x = g)
  <2> DEFINE x == [k \in A \cup B |-> IF k \in B THEN g[k] ELSE f[k]]
  <2>1. x \in [A \cup B -> Texts]
    BY <1>1
  <2>2. A \subseteq B => x = g
    <3> SUFFICES ASSUME A \subseteq B PROVE x = g
      OBVIOUS
    <3>1. A \cup B = B
      OBVIOUS
    <3>2. x = [k \in B |-> g[k]]
      BY <3>1
    <3>3. QED
      BY <1>1, <3>2
  <2>3. QED
    BY <2>1, <2>2
<1> DEFINE A == DOMAIN a
           B == DOMAIN b
           x == [k \in A \cup B |-> IF k \in B THEN b[k] ELSE a[k]]
<1>2. /\ a \in [A -> Texts] /\ A \subseteq Texts
      /\ b \in [B -> Texts] /\ B \subseteq Texts
  BY DEF IsHeaders
<1>3. mergeHeaders(a, b) = x
  BY DEF mergeHeaders
<1> HIDE DEF A, B
<1>4. x \in [A \cup B -> Texts] /\ (A \subseteq B => x = b)
  BY <1>1, <1>2
<1> HIDE DEF x
<1>5. DOMAIN x = A \cup B
  BY <1>4
<1>6. IsHeaders(x)
  BY <1>2, <1>4, <1>5 DEF IsHeaders
<1>7. QED
  BY <1>3, <1>4, <1>5, <1>6 DEF A, B

\* Lemma: what a resolved scenario takes from its target.
LEMMA ResolvedFields ==
  ASSUME TargetsKnown, NEW sc, IsScenario(sc),
         NEW explicit \in Targets \cup {None}, Resolvable(sc, explicit)
  PROVE  LET x == resolveScenarioTarget(sc, explicit)
             t == TargetNow(sc, explicit)
         IN
         /\ IsScenario(x)
         /\ x.target # None =>
              /\ t # NoTarget /\ t.base \in Texts /\ x.base = t.base
              /\ DOMAIN t.headers \subseteq DOMAIN x.headers
<1> DEFINE x == resolveScenarioTarget(sc, explicit)
           t == TargetNow(sc, explicit)
           id == TargetOf(sc, explicit)
<1>1. /\ sc.version \in Int /\ sc.name \in Texts
      /\ sc.concurrency \in Int /\ sc.iterations \in Int
      /\ sc.rate \in Int /\ sc.attempts \in Int
      /\ sc.target \in Targets \cup {None} /\ sc.base \in Texts
      /\ sc.checksOK \in BOOLEAN /\ IsHeaders(sc.headers)
      /\ \A q \in sc.requests : IsRequest(q)
      /\ sc = [version |-> sc.version, name |-> sc.name, type |-> sc.type,
               concurrency |-> sc.concurrency,
               iterations |-> sc.iterations, rate |-> sc.rate,
               attempts |-> sc.attempts, target |-> sc.target,
               base |-> sc.base, headers |-> sc.headers,
               requests |-> sc.requests, checksOK |-> sc.checksOK]
  BY ScenarioFields
<1>2. id \in Targets \cup {None}
  BY <1>1 DEF TargetOf
<1>3. CASE id = None
  <2>1. x = sc /\ sc.target = None
    BY <1>3 DEF resolveScenarioTarget, TargetOf
  <2>2. QED
    BY <2>1
<1>4. CASE id # None
  <2>1. t = targets[id] /\ id \in Targets /\ t # NoTarget
    BY <1>2, <1>4 DEF TargetNow, Resolvable
  <2>2. t.base \in Texts /\ IsHeaders(t.headers)
    <3>1. PICK body \in TargetBodies : t = Record(body)
      BY <2>1 DEF TargetsKnown
    <3>2. t.base = body.base /\ t.headers = body.headers
      BY <3>1 DEF Record
    <3>3. QED
      BY <3>2, AdmissionAssumption
  <2> DEFINE h == mergeHeaders(t.headers, sc.headers)
  <2>3. IsHeaders(h) /\ DOMAIN t.headers \subseteq DOMAIN h
    BY <1>1, <2>2, MergedHeaders
  <2>4. x = [sc EXCEPT !.target = id, !.base = t.base, !.headers = h]
    BY <1>1, <1>4, <2>1 DEF resolveScenarioTarget
  <2> HIDE DEF h, x, t, id
  <2>5. x = [version |-> sc.version, name |-> sc.name, type |-> sc.type,
             concurrency |-> sc.concurrency,
             iterations |-> sc.iterations, rate |-> sc.rate,
             attempts |-> sc.attempts, target |-> id,
             base |-> t.base, headers |-> h,
             requests |-> sc.requests, checksOK |-> sc.checksOK]
    BY <1>1, <2>4
  <2>6. /\ x.version = sc.version /\ x.name = sc.name
        /\ x.type = sc.type /\ x.concurrency = sc.concurrency
        /\ x.iterations = sc.iterations /\ x.rate = sc.rate
        /\ x.attempts = sc.attempts /\ x.target = id
        /\ x.base = t.base /\ x.headers = h
        /\ x.requests = sc.requests /\ x.checksOK = sc.checksOK
    BY <2>5
  <2>7. IsScenario(x)
    BY <1>1, <1>2, <2>2, <2>3, <2>5, <2>6 DEF IsScenario
  <2>8. QED
    BY <2>1, <2>2, <2>3, <2>6, <2>7 DEF x, t
<1>5. QED
  BY <1>3, <1>4

\* Lemma: what is checked has all of its defaults, and no template left that no
\* value brought in.
LEMMA CompletedFields ==
  ASSUME TargetsKnown, env \in Envs, NEW sc, IsScenario(sc),
         NEW explicit \in Targets \cup {None}, Resolvable(sc, explicit)
  PROVE  LET x == Completed(sc, explicit)
             t == TargetNow(sc, explicit)
         IN
         /\ IsScenario(x) /\ RetriesSet(x) /\ (Clean(env) => Plain(x))
         /\ x.target # None =>
              /\ t # NoTarget /\ x.base = Expand(env, t.base)
              /\ DOMAIN t.headers \subseteq DOMAIN x.headers
<1> DEFINE r == resolveScenarioTarget(sc, explicit)
           y == WithEnv(r, env)
           x == Completed(sc, explicit)
<1>1. /\ IsScenario(r)
      /\ r.target # None =>
           /\ TargetNow(sc, explicit) # NoTarget
           /\ r.base = TargetNow(sc, explicit).base
           /\ DOMAIN TargetNow(sc, explicit).headers \subseteq DOMAIN r.headers
  BY ResolvedFields
<1> HIDE DEF r
<1>2. /\ IsScenario(y) /\ (Clean(env) => Plain(y))
      /\ y.target = r.target /\ y.base = Expand(env, r.base)
      /\ DOMAIN y.headers = DOMAIN r.headers
  BY <1>1, WithEnvFields
<1> HIDE DEF y
<1>3. /\ IsScenario(Normalized(y)) /\ RetriesSet(Normalized(y))
      /\ Clean(env) => Plain(Normalized(y))
      /\ Normalized(y).target = y.target /\ Normalized(y).base = y.base
      /\ Normalized(y).headers = y.headers
  BY <1>2, NormalizedFields
<1>4. x = Normalized(y)
  BY DEF Completed, y, r
<1> HIDE DEF x
<1>5. QED
  BY <1>1, <1>2, <1>3, <1>4 DEF x

\* Lemma: a saved scenario is completed to itself, and accepted, while limits,
\* environment and target are those it was saved under, if it is plain and its
\* bodies have not outgrown the limit.
LEMMA SavedAgain ==
  ASSUME TargetsKnown, env \in Envs, NEW sc, NEW origin, Reread(sc, origin),
         origin = [cfg |-> cfg, env |-> env, target |-> TargetNow(sc, None)],
         Plain(sc),
         \A q \in sc.requests :
           q.json => WithinMax(Size[q.body], cfg.maxBody)
  PROVE  Resolvable(sc, None) /\ Acceptable(Completed(sc, None))
<1> DEFINE r == resolveScenarioTarget(sc, None)
           t == TargetNow(sc, None)
<1>1. /\ origin.cfg = cfg /\ origin.env = env /\ origin.target = t
  OBVIOUS
<1>2. /\ Settled(sc) /\ GuardrailsValidate(sc, cfg)
      /\ sc.target # None =>
           /\ t # NoTarget /\ sc.base = Expand(env, t.base)
           /\ DOMAIN t.headers \subseteq DOMAIN sc.headers
  <2>1. PICK a : sc = Stored(a) /\ Saved(a, origin)
    BY DEF Reread
  <2>2. /\ Settled(a) /\ GuardrailsValidate(a, cfg)
        /\ a.target # None =>
             /\ t # NoTarget /\ a.base = Expand(env, t.base)
             /\ DOMAIN t.headers \subseteq DOMAIN a.headers
    BY <1>1, <2>1 DEF Saved
  <2>3. /\ Settled(sc) /\ sc.target = a.target /\ sc.base = a.base
        /\ sc.headers = a.headers
    BY <2>1, <2>2, StoredFields
  <2>4. GuardrailsValidate(sc, cfg)
    BY <2>1, <2>2, StoredKeepsToLimits
  <2>5. QED
    BY <2>2, <2>3, <2>4
<1>3. TargetOf(sc, None) = sc.target
  BY DEF TargetOf
<1>4. Resolvable(sc, None)
  BY <1>2, <1>3 DEF Resolvable, TargetNow
<1>5. /\ sc.version \in Int /\ sc.name \in Texts
      /\ sc.concurrency \in Int /\ sc.iterations \in Int
      /\ sc.rate \in Int /\ sc.attempts \in Int
      /\ sc.target \in Targets \cup {None} /\ sc.base \in Texts
      /\ sc.checksOK \in BOOLEAN /\ IsHeaders(sc.headers)
      /\ \A q \in sc.requests : IsRequest(q)
      /\ sc = [version |-> sc.version, name |-> sc.name, type |-> sc.type,
               concurrency |-> sc.concurrency,
               iterations |-> sc.iterations, rate |-> sc.rate,
               attempts |-> sc.attempts, target |-> sc.target,
               base |-> sc.base, headers |-> sc.headers,
               requests |-> sc.requests, checksOK |-> sc.checksOK]
  BY <1>2, ScenarioFields DEF Settled
<1>6. /\ Expand(env, sc.name) = sc.name
      /\ ExpandValues(env, sc.headers) = sc.headers
      /\ {ExpandRequest(env, q) : q \in sc.requests} = sc.requests
  BY <1>2, <1>5, ExpandText, ExpandHeaders, ExpandRequests DEF Settled, Plain
<1>7. WithEnv(r, env) = sc
  <2>1. CASE sc.target = None
    <3>1. r = sc
      BY <1>3, <2>1 DEF resolveScenarioTarget
    <3>2. QED
      BY <1>2, <3>1, WithEnvFields DEF Settled
  <2>2. CASE sc.target # None
    <3>1. t = targets[sc.target] /\ sc.target \in Targets /\ t # NoTarget
      BY <1>2, <1>3, <1>5, <2>2 DEF TargetNow
    <3>2. t.base \in Texts /\ IsHeaders(t.headers)
      <4>1. PICK body \in TargetBodies : t = Record(body)
        BY <3>1 DEF TargetsKnown
      <4>2. t.base = body.base /\ t.headers = body.headers
        BY <4>1 DEF Record
      <4>3. QED
        BY <4>2, AdmissionAssumption
    <3>3. mergeHeaders(t.headers, sc.headers) = sc.headers
      BY <1>2, <1>5, <2>2, <3>2, MergedHeaders
    <3>4. r = [sc EXCEPT !.target = sc.target, !.base = t.base,
                         !.headers = sc.headers]
      BY <1>3, <1>5, <2>2, <3>1, <3>3 DEF resolveScenarioTarget
    <3>5. IsScenario(r)
      BY <1>2, <1>3, <1>4, ResolvedFields DEF Settled
    <3> HIDE DEF r, t
    <3>6. r = [version |-> sc.version, name |-> sc.name, type |-> sc.type,
               concurrency |-> sc.concurrency,
               iterations |-> sc.iterations, rate |-> sc.rate,
               attempts |-> sc.attempts, target |-> sc.target,
               base |-> t.base, headers |-> sc.headers,
               requests |-> sc.requests, checksOK |-> sc.checksOK]
      BY <1>5, <3>4
    <3>7. /\ r.version = sc.version /\ r.name = sc.name
          /\ r.type = sc.type /\ r.concurrency = sc.concurrency
          /\ r.iterations = sc.iterations /\ r.rate = sc.rate
          /\ r.attempts = sc.attempts /\ r.target = sc.target
          /\ r.base = t.base /\ r.headers = sc.headers
          /\ r.requests = sc.requests /\ r.checksOK = sc.checksOK
      BY <3>6
    <3>8. WithEnv(r, env) =
            [version |-> sc.version, name |-> Expand(env, sc.name),
             type |-> sc.type, concurrency |-> sc.concurrency,
             iterations |-> sc.iterations, rate |-> sc.rate,
             attempts |-> sc.attempts, target |-> sc.target,
             base |-> Expand(env, t.base),
             headers |-> ExpandValues(env, sc.headers),
             requests |-> {ExpandRequest(env, q) : q \in sc.requests},
             checksOK |-> sc.checksOK]
      BY <3>5, <3>7, WithEnvRecord
    <3>9. QED
      BY <1>2, <1>5, <1>6, <2>2, <3>8
  <2>3. QED
    BY <2>1, <2>2
<1>8. Completed(sc, None) = sc
  BY <1>2, <1>7, NormalizedFields DEF Completed, Settled
<1>9. QED
  BY <1>2, <1>4, <1>8 DEF Acceptable, Settled

-----------------------------------------------------------------------------
(* Guardrails                                                              *)

\* Lemma: the rate that a run without one is given keeps it within limits.
LEMMA RunAdmitted ==
  ASSUME cfg \in Configs, NEW sc, IsScenario(sc), RetriesSet(sc),
         Clean(env) => Plain(sc), Acceptable(sc)
  PROVE  Admitted(applyRunGuardrails(sc), cfg, env)
<1> DEFINE x == applyRunGuardrails(sc)
<1>1. sc.rate \in Int /\ cfg.maxRate \in Int /\ sc.rate >= 0
  BY ScenarioFields, AdmissionAssumption DEF Acceptable, Validate
<1>2. Settled(sc) /\ GuardrailsValidate(sc, cfg)
  BY DEF Settled, Acceptable
<1>3. CASE cfg.maxRate > 0 /\ sc.rate = 0
  <2>1. x = [sc EXCEPT !.rate = cfg.maxRate]
    BY <1>3 DEF applyRunGuardrails
  <2>2. /\ sc.version \in Int /\ sc.name \in Texts
        /\ sc.concurrency \in Int /\ sc.iterations \in Int
        /\ sc.rate \in Int /\ sc.attempts \in Int
        /\ sc.target \in Targets \cup {None} /\ sc.base \in Texts
        /\ sc.checksOK \in BOOLEAN /\ IsHeaders(sc.headers)
        /\ \A q \in sc.requests : IsRequest(q)
        /\ sc = [version |-> sc.version, name |-> sc.name, type |-> sc.type,
                 concurrency |-> sc.concurrency,
                 iterations |-> sc.iterations, rate |-> sc.rate,
                 attempts |-> sc.attempts, target |-> sc.target,
                 base |-> sc.base, headers |-> sc.headers,
                 requests |-> sc.requests, checksOK |-> sc.checksOK]
    BY ScenarioFields
  <2> HIDE DEF x
  <2>3. x = [version |-> sc.version, name |-> sc.name, type |-> sc.type,
             concurrency |-> sc.concurrency,
             iterations |-> sc.iterations, rate |-> cfg.maxRate,
             attempts |-> sc.attempts, target |-> sc.target,
             base |-> sc.base, headers |-> sc.headers,
             requests |-> sc.requests, checksOK |-> sc.checksOK]
    BY <2>1, <2>2
  <2>4. /\ x.version = sc.version /\ x.name = sc.name
        /\ x.type = sc.type /\ x.concurrency = sc.concurrency
        /\ x.iterations = sc.iterations /\ x.rate = cfg.maxRate
        /\ x.attempts = sc.attempts /\ x.target = sc.target
        /\ x.base = sc.base /\ x.headers = sc.headers
        /\ x.requests = sc.requests /\ x.checksOK = sc.checksOK
    BY <2>3
  <2>5. IsScenario(x)
    BY <1>1, <2>2, <2>3, <2>4 DEF IsScenario
  <2>6. (Clean(env) => Plain(x)) /\ RetriesSet(x)
    BY <2>4 DEF Plain, RetriesSet
  <2>7. cfg.maxRate >= 0 /\ cfg.maxRate \in 1 .. cfg.maxRate
    BY <1>1, <1>3
  <2>8. Validate(x)
    <3>1. Validate(sc)
      BY DEF Acceptable
    <3>2. QED
      BY <2>4, <2>7, <3>1 DEF Validate
  <2>9. GuardrailsValidate(x, cfg)
    <3>1. WithinMax(cfg.maxRate, cfg.maxRate)
      BY <1>1 DEF WithinMax
    <3>2. QED
      BY <1>2, <2>4, <3>1 DEF GuardrailsValidate
  <2>10. QED
    BY <2>4, <2>5, <2>6, <2>7, <2>8, <2>9 DEF Admitted, Settled, x
<1>4. CASE ~(cfg.maxRate > 0 /\ sc.rate = 0)
  <2>1. x = sc
    BY <1>4 DEF applyRunGuardrails
  <2>2. cfg.maxRate > 0 => sc.rate \in 1 .. cfg.maxRate
    <3>1. WithinMax(sc.rate, cfg.maxRate)
      BY <1>2 DEF GuardrailsValidate
    <3>2. QED
      BY <1>1, <1>4, <3>1 DEF WithinMax
  <2>3. QED
    BY <1>2, <2>1, <2>2 DEF Admitted
<1>5. QED
  BY <1>3, <1>4

\* Lemma: where the checked path of a request leads.
LEMMA PathReachable ==
  ASSUME NEW sc, NEW limits, NEW q \in sc.requests,
         GuardrailsValidate(sc, limits)
  PROVE  /\ WithinMax(Size[q.body], limits.maxBody)
         /\ Reachable(joinURL(sc, q), sc, limits)
<1> DEFINE base == Parse[sc.base]
           rel == Parse[q.path]
           u == resolveURL(base, rel)
<1>1. /\ WithinMax(Size[q.body], limits.maxBody)
      /\ validatePathTarget(base, q.path, limits)
  BY DEF GuardrailsValidate
<1>2. /\ validateTargetURL(u, limits, FALSE)
      /\ (rel.scheme # "" \/ rel.host # <<>>) /\ limits.allowlist = {} =>
           sameOrigin(base, u)
  BY <1>1 DEF validatePathTarget
<1>3. rel.scheme = "" /\ rel.host = <<>> => u = base
  BY DEF resolveURL
<1>4. joinURL(sc, q) = u
  BY DEF joinURL
<1> HIDE DEF u, base, rel
<1>5. /\ u.scheme \in Web /\ ~u.credentials
      /\ isMetadataHost(u) => matchesAllowlist(u, limits.allowlist)
      /\ limits.allowlist # {} => matchesAllowlist(u, limits.allowlist)
  BY <1>2 DEF validateTargetURL
<1>6. limits.allowlist = {} => sameOrigin(u, base)
  BY <1>2, <1>3 DEF sameOrigin
<1>7. limits.allowlist = {} => ~isMetadataHost(u)
  BY <1>5 DEF matchesAllowlist
<1>8. Reachable(u, sc, limits)
  BY <1>5, <1>6, <1>7 DEF Reachable, base
<1>9. QED
  BY <1>1, <1>4, <1>8

-----------------------------------------------------------------------------
(* The invariant                                                           *)

\* Lemma: the states of a request.
LEMMA Positions ==
  /\ Idle.pc = "idle" /\ Refused.pc = "refused"
  /\ [Idle EXCEPT !.pc = "done"].pc = "done"
  /\ [Idle EXCEPT !.pc = "accepted"].pc = "accepted"
  /\ \A pc, sc, target, origin :
       /\ At(pc, sc, target, origin).pc = pc
       /\ At(pc, sc, target, origin).sc = sc
       /\ At(pc, sc, target, origin).target = target
       /\ At(pc, sc, target, origin).origin = origin
BY DEF Idle, Refused, At

\* Lemma: the invariant holds initially.
LEMMA InvInit == Init => Inv
<1> SUFFICES ASSUME Init PROVE Inv
  OBVIOUS
<1>1. TargetsKnown
  BY DEF Init, TargetsKnown
<1>2. SavesHold /\ CreationsHold
  <2>1. /\ \A w \in Savers : saver[w].pc = "idle"
        /\ \A m \in Creators : creator[m].pc = "idle"
        /\ saved.sc = None
    BY Positions DEF Init
  <2>2. QED
    BY <2>1 DEF SavesHold, CreationsHold
<1>3. RunsHold
  BY DEF Init, RunsHold, NoRun
<1>4. QED
  BY <1>1, <1>2, <1>3 DEF Init, Inv

\* Lemma: what the endpoints of targets write.
LEMMA TargetStep ==
  ASSUME Inv, NEW t \in Targets, TargetUnchanged,
         \/ targets' = [targets EXCEPT ![t] = NoTarget]
         \/ \E body \in TargetBodies :
              targets' = [targets EXCEPT ![t] = Record(body)]
  PROVE  Inv'
<1>1. TargetsKnown'
  BY DEF Inv, TargetsKnown
<1>2. SavesHold' /\ CreationsHold' /\ RunsHold'
  BY DEF Inv, SavesHold, CreationsHold, RunsHold, TargetUnchanged
<1>3. QED
  BY <1>1, <1>2 DEF Inv, TargetUnchanged

\* Lemma: what is checked is what is stored, with its origin.
LEMMA SaveScenarioStep ==
  ASSUME Inv, NEW w \in Savers, NEW sc \in Posted, SaveScenario(w, sc)
  PROVE  Inv'
<1> DEFINE x == Completed(sc, None)
           o == [cfg |-> cfg, env |-> env, target |-> TargetNow(sc, None)]
<1>1. /\ UNCHANGED <<cfg, env, workerEnv, targets, saved, creator, runs, sent,
                     restarts>>
      /\ saver' = [saver EXCEPT ![w] =
           IF Resolvable(sc, None) /\ Acceptable(x)
           THEN At("store", x, None, o) ELSE Refused]
  BY DEF SaveScenario
<1>2. Resolvable(sc, None) /\ Acceptable(x) => Saved(x, o)
  <2> SUFFICES ASSUME Resolvable(sc, None), Acceptable(x) PROVE Saved(x, o)
    OBVIOUS
  <2>1. /\ IsScenario(x) /\ RetriesSet(x)
        /\ x.target # None =>
             /\ TargetNow(sc, None) # NoTarget
             /\ x.base = Expand(env, TargetNow(sc, None).base)
             /\ DOMAIN TargetNow(sc, None).headers \subseteq DOMAIN x.headers
    BY CompletedFields, AdmissionAssumption DEF Inv
  <2>2. o.cfg = cfg /\ o.env = env /\ o.target = TargetNow(sc, None)
    OBVIOUS
  <2> HIDE DEF x, o
  <2>3. QED
    BY <2>1, <2>2 DEF Saved, Settled, Acceptable
<1> HIDE DEF x, o
<1>3. /\ DOMAIN saver' = Savers
      /\ \A v \in Savers : saver'[v] =
           IF v = w
           THEN IF Resolvable(sc, None) /\ Acceptable(x)
                THEN At("store", x, None, o) ELSE Refused
           ELSE saver[v]
  BY <1>1 DEF Inv
<1>4. SavesHold'
  <2>1. ASSUME NEW v \in Savers, saver'[v].pc = "store"
        PROVE  Saved(saver'[v].sc, saver'[v].origin)
    <3>1. CASE v # w
      BY <1>3, <2>1, <3>1 DEF Inv, SavesHold
    <3>2. CASE v = w
      BY <1>2, <1>3, <2>1, <3>2, Positions
    <3>3. QED
      BY <3>1, <3>2
  <2>2. saved'.sc # None => Reread(saved'.sc, saved'.origin)
    BY <1>1 DEF Inv, SavesHold
  <2>3. QED
    BY <2>1, <2>2 DEF SavesHold
<1>5. TargetsKnown' /\ CreationsHold' /\ RunsHold'
  BY <1>1 DEF Inv, TargetsKnown, CreationsHold, RunsHold
<1>6. QED
  BY <1>1, <1>3, <1>4, <1>5 DEF Inv

\* Lemma: storing a scenario.
LEMMA StoreScenarioStep ==
  ASSUME Inv, NEW w \in Savers, StoreScenario(w)
  PROVE  Inv'
<1> DEFINE done == [Idle EXCEPT !.pc = "done"]
<1>1. /\ UNCHANGED <<cfg, env, workerEnv, targets, creator, runs, sent,
                     restarts>>
      /\ saver[w].pc = "store"
      /\ saved' = [sc |-> Stored(saver[w].sc), origin |-> saver[w].origin]
      /\ saver' = [saver EXCEPT ![w] = done]
  BY DEF StoreScenario
<1>2. done.pc = "done"
  BY Positions
<1> HIDE DEF done
<1>3. /\ DOMAIN saver' = Savers
      /\ \A v \in Savers : saver'[v] = IF v = w THEN done ELSE saver[v]
  BY <1>1 DEF Inv
<1>4. SavesHold'
  <2>1. saved'.sc = Stored(saver[w].sc) /\ saved'.origin = saver[w].origin
    BY <1>1
  <2>2. Reread(Stored(saver[w].sc), saver[w].origin)
    BY <1>1 DEF Inv, SavesHold, Reread
  <2>3. \A v \in Savers : saver'[v].pc = "store" => saver'[v] = saver[v]
    BY <1>2, <1>3
  <2>4. QED
    BY <2>1, <2>2, <2>3 DEF Inv, SavesHold
<1>5. TargetsKnown' /\ CreationsHold' /\ RunsHold'
  BY <1>1 DEF Inv, TargetsKnown, CreationsHold, RunsHold
<1>6. QED
  BY <1>1, <1>3, <1>4, <1>5 DEF Inv

\* Lemma: a step of one creator that inserts no run.
LEMMA CreatorStep ==
  ASSUME Inv, NEW m \in Creators, NEW v, RunUnchanged, UNCHANGED <<runs, sent>>,
         creator' = [creator EXCEPT ![m] = v],
         creator[m].pc # "accepted",
         v.pc = "admit" =>
           /\ IsScenario(v.sc) /\ v.target \in Targets \cup {None}
           /\ v.origin # NoOrigin => Reread(v.sc, v.origin),
         v.pc = "insert" => Admitted(v.sc, cfg, env)
  PROVE  Inv'
<1>1. UNCHANGED <<cfg, env, workerEnv, targets, saved, saver, restarts,
                  runs, sent>>
  BY DEF RunUnchanged
<1>2. /\ DOMAIN creator' = Creators
      /\ \A k \in Creators : creator'[k] = IF k = m THEN v ELSE creator[k]
  BY DEF Inv
<1>3. CreationsHold'
  <2> SUFFICES ASSUME NEW k \in Creators
               PROVE  /\ creator'[k].pc = "admit" =>
                           /\ IsScenario(creator'[k].sc)
                           /\ creator'[k].target \in Targets \cup {None}
                           /\ creator'[k].origin # NoOrigin =>
                                Reread(creator'[k].sc, creator'[k].origin)
                      /\ creator'[k].pc = "insert" =>
                           Admitted(creator'[k].sc, cfg, env)
    BY <1>1 DEF CreationsHold
  <2>1. CASE k = m
    BY <1>2, <2>1
  <2>2. CASE k # m
    BY <1>2, <2>2 DEF Inv, CreationsHold
  <2>3. QED
    BY <2>1, <2>2
<1>4. RunsHold'
  <2>1. \A k \in Creators : runs[k].sc # None => k # m
    BY DEF Inv, RunsHold
  <2>2. QED
    BY <1>1, <1>2, <2>1 DEF Inv, RunsHold
<1>5. TargetsKnown' /\ SavesHold'
  BY <1>1 DEF Inv, TargetsKnown, SavesHold
<1>6. QED
  BY <1>1, <1>2, <1>3, <1>4, <1>5 DEF Inv

\* Lemma: a run is inserted as it was admitted, under the same limits and in
\* the same environment.
LEMMA InsertRunStep ==
  ASSUME Inv, NEW m \in Creators, InsertRun(m)
  PROVE  Inv'
<1> DEFINE accepted == [Idle EXCEPT !.pc = "accepted"]
           run == [sc |-> Stored(creator[m].sc), accepted |-> creator[m].sc,
                   cfg |-> cfg, env |-> env]
<1>1. /\ UNCHANGED <<cfg, env, workerEnv, targets, saved, saver, restarts, sent>>
      /\ creator[m].pc = "insert"
      /\ runs' = [runs EXCEPT ![m] = run]
      /\ creator' = [creator EXCEPT ![m] = accepted]
  BY DEF InsertRun, RunUnchanged
<1>2. /\ accepted.pc = "accepted" /\ run.sc = Stored(creator[m].sc)
      /\ run.accepted = creator[m].sc /\ run.cfg = cfg /\ run.env = env
  BY Positions
<1> HIDE DEF accepted, run
<1>3. /\ DOMAIN creator' = Creators /\ DOMAIN runs' = Creators
      /\ \A k \in Creators :
           /\ creator'[k] = IF k = m THEN accepted ELSE creator[k]
           /\ runs'[k] = IF k = m THEN run ELSE runs[k]
  BY <1>1 DEF Inv
<1>4. CreationsHold'
  <2>1. \A k \in Creators : creator'[k].pc \in {"admit", "insert"} =>
          creator'[k] = creator[k]
    BY <1>2, <1>3
  <2>2. QED
    BY <1>1, <2>1 DEF Inv, CreationsHold
<1>5. RunsHold'
  <2>1. Accepted(run)
    BY <1>1, <1>2 DEF Inv, CreationsHold, Accepted
  <2>2. runs[m].sc = None /\ sent[m].sc = None
    BY <1>1 DEF Inv, RunsHold
  <2>3. ASSUME NEW k \in Creators
        PROVE  /\ runs'[k].sc # None => /\ Accepted(runs'[k])
                                        /\ creator'[k].pc = "accepted"
               /\ sent[k].sc # None => /\ runs'[k].sc # None
                                       /\ Executed(sent[k], runs'[k])
    <3>1. CASE k = m
      BY <1>2, <1>3, <2>1, <2>2, <3>1
    <3>2. CASE k # m
      BY <1>3, <3>2 DEF Inv, RunsHold
    <3>3. QED
      BY <3>1, <3>2
  <2>4. QED
    BY <1>1, <2>3 DEF RunsHold
<1>6. TargetsKnown' /\ SavesHold'
  BY <1>1 DEF Inv, TargetsKnown, SavesHold
<1>7. QED
  BY <1>1, <1>3, <1>4, <1>5, <1>6 DEF Inv

\* Lemma: the worker sends what was inserted, unless it has something left to
\* expand; goroutines and rate it never changes.
LEMMA ExecuteRunStep ==
  ASSUME Inv, NEW m \in Creators, ExecuteRun(m)
  PROVE  Inv'
<1> DEFINE x == Normalized(WithEnv(runs[m].sc, workerEnv))
           s == [sc |-> x, ok |-> Validate(x)]
<1>1. /\ UNCHANGED <<cfg, env, workerEnv, targets, saved, saver, restarts,
                     creator, runs>>
      /\ runs[m].sc # None
      /\ sent' = [sent EXCEPT ![m] = s]
  BY DEF ExecuteRun, RunUnchanged
<1> DEFINE run == runs[m]
<1>2. /\ Settled(run.accepted) /\ run.sc = Stored(run.accepted)
      /\ Clean(run.env) => Plain(run.accepted)
  BY <1>1 DEF Inv, RunsHold, Accepted, Admitted
<1>3. /\ Settled(run.sc)
      /\ run.sc.concurrency = run.accepted.concurrency
      /\ run.sc.rate = run.accepted.rate
  BY <1>2, StoredFields
<1>4. Executed(s, run)
  <2>1. /\ IsScenario(run.sc) /\ Validate(run.sc) /\ run.sc.concurrency >= 1
        /\ workerEnv \in Envs
    BY <1>3 DEF Settled, Validate, Inv
  <2> HIDE DEF run
  <2> DEFINE y == WithEnv(run.sc, workerEnv)
  <2>2. /\ IsScenario(y) /\ y.concurrency = run.sc.concurrency
        /\ y.rate = run.sc.rate
    BY <2>1, WithEnvFields
  <2> HIDE DEF y
  <2>3. /\ Normalized(y).rate = y.rate
        /\ y.concurrency >= 1 => Normalized(y).concurrency = y.concurrency
    BY <2>2, NormalizedFields
  <2>4. x = Normalized(y)
    BY DEF y, run
  <2>5. s.sc = x /\ s.ok = Validate(x)
    OBVIOUS
  <2>6. Plain(run.sc) => x = run.sc
    BY <1>3, <2>1, <2>4, SettledStays DEF y
  <2> HIDE DEF x, s
  <2>7. ~Plain(run.sc) => LeftToExpand(run)
    BY <1>2 DEF LeftToExpand, Clean
  <2>8. Plain(run.sc) => s.ok /\ s.sc = run.sc
    BY <2>1, <2>5, <2>6
  <2>9. /\ s.sc.concurrency = run.accepted.concurrency
        /\ s.sc.rate = run.accepted.rate
    BY <1>3, <2>1, <2>2, <2>3, <2>4, <2>5
  <2>10. QED
    BY <2>7, <2>8, <2>9 DEF Executed
<1> HIDE DEF s
<1>5. /\ DOMAIN sent' = Creators
      /\ \A k \in Creators : sent'[k] = IF k = m THEN s ELSE sent[k]
  BY <1>1 DEF Inv
<1>6. RunsHold'
  <2>1. ASSUME NEW k \in Creators, sent'[k].sc # None
        PROVE  runs[k].sc # None /\ Executed(sent'[k], runs[k])
    <3>1. CASE k = m
      BY <1>1, <1>4, <1>5, <3>1
    <3>2. CASE k # m
      BY <1>5, <2>1, <3>2 DEF Inv, RunsHold
    <3>3. QED
      BY <3>1, <3>2
  <2>2. QED
    BY <1>1, <2>1 DEF Inv, RunsHold
<1>7. TargetsKnown' /\ SavesHold' /\ CreationsHold'
  BY <1>1 DEF Inv, TargetsKnown, SavesHold, CreationsHold
<1>8. QED
  BY <1>1, <1>5, <1>6, <1>7 DEF Inv

\* Lemma: a restart ends the requests, and with them what rests on the limits
\* of the process.
LEMMA RestartStep ==
  ASSUME Inv, Restart
  PROVE  Inv'
<1>1. /\ restarts' = restarts + 1 /\ cfg' \in Configs /\ env' \in Envs
      /\ UNCHANGED <<workerEnv, targets, saved, runs, sent>>
      /\ saver' = [w \in Savers |-> Stopped(saver[w])]
      /\ creator' = [m \in Creators |-> Stopped(creator[m])]
  BY DEF Restart
<1>2. ASSUME NEW h
      PROVE  /\ Stopped(h).pc \notin {"store", "admit", "insert"}
             /\ h.pc = "accepted" => Stopped(h) = h
  BY Positions DEF Stopped
<1>3. /\ \A w \in Savers : saver'[w].pc # "store"
      /\ \A m \in Creators :
           /\ creator'[m].pc # "admit" /\ creator'[m].pc # "insert"
           /\ creator[m].pc = "accepted" => creator'[m] = creator[m]
  BY <1>1, <1>2
<1>4. SavesHold' /\ CreationsHold' /\ RunsHold' /\ TargetsKnown'
  BY <1>1, <1>3 DEF Inv, SavesHold, CreationsHold, RunsHold, TargetsKnown
<1>5. restarts' \in Nat /\ workerEnv' \in Envs
  BY <1>1 DEF Inv
<1>6. DOMAIN saver' = Savers /\ DOMAIN creator' = Creators
  BY <1>1
<1>7. QED
  BY <1>1, <1>4, <1>5, <1>6 DEF Inv

\* Lemma: the two ways a creator gets its scenario, and what becomes of it.
LEMMA CreateRunStep ==
  ASSUME Inv, NEW m \in Creators,
         \/ \E t \in Targets \cup {None} :
              LoadSaved(m, t) \/ \E sc \in Posted : LoadInline(m, sc, t)
         \/ AdmitRun(m)
  PROVE  Inv'
<1>1. ASSUME NEW t \in Targets \cup {None}, LoadSaved(m, t)
      PROVE  Inv'
  <2> DEFINE v == IF saved.sc = None THEN Refused
                  ELSE At("admit", saved.sc, t, saved.origin)
  <2>1. /\ RunUnchanged /\ UNCHANGED <<runs, sent>>
        /\ creator' = [creator EXCEPT ![m] = v]
        /\ creator[m].pc # "accepted"
    BY <1>1 DEF LoadSaved
  <2>2. saved.sc # None =>
          Reread(saved.sc, saved.origin) /\ IsScenario(saved.sc)
    BY StoredFields DEF Inv, SavesHold, Reread, Saved, Settled
  <2>3. /\ v.pc = "admit" =>
             /\ IsScenario(v.sc) /\ v.target \in Targets \cup {None}
             /\ v.origin # NoOrigin => Reread(v.sc, v.origin)
        /\ v.pc # "insert"
    BY <2>2, Positions
  <2> HIDE DEF v
  <2>4. QED
    BY <2>1, <2>3, CreatorStep
<1>2. ASSUME NEW t \in Targets \cup {None}, NEW sc \in Posted,
             LoadInline(m, sc, t)
      PROVE  Inv'
  <2> DEFINE v == At("admit", sc, t, NoOrigin)
  <2>1. /\ RunUnchanged /\ UNCHANGED <<runs, sent>>
        /\ creator' = [creator EXCEPT ![m] = v]
        /\ creator[m].pc # "accepted"
    BY <1>2 DEF LoadInline
  <2>2. /\ v.pc = "admit" /\ IsScenario(v.sc)
        /\ v.target \in Targets \cup {None} /\ v.origin = NoOrigin
    BY AdmissionAssumption, Positions
  <2> HIDE DEF v
  <2>3. QED
    BY <2>1, <2>2, CreatorStep
<1>3. ASSUME AdmitRun(m)
      PROVE  Inv'
  <2> DEFINE c == creator[m]
             x == Completed(c.sc, c.target)
             ok == Resolvable(c.sc, c.target) /\ Acceptable(x)
             v == IF ok THEN At("insert", applyRunGuardrails(x), None, NoOrigin)
                  ELSE Refused
  <2>1. /\ RunUnchanged /\ UNCHANGED <<runs, sent>>
        /\ creator' = [creator EXCEPT ![m] = v]
        /\ c.pc = "admit"
    BY <1>3 DEF AdmitRun
  <2>2. IsScenario(c.sc) /\ c.target \in Targets \cup {None}
    BY <2>1 DEF Inv, CreationsHold
  <2>3. ok => Admitted(applyRunGuardrails(x), cfg, env)
    <3> SUFFICES ASSUME ok PROVE Admitted(applyRunGuardrails(x), cfg, env)
      OBVIOUS
    <3> HIDE DEF c
    <3>1. IsScenario(x) /\ RetriesSet(x) /\ (Clean(env) => Plain(x))
      BY <2>2, CompletedFields DEF Inv
    <3> HIDE DEF x
    <3>2. QED
      BY <3>1, RunAdmitted DEF Inv
  <2> HIDE DEF ok, x
  <2>4. v.pc # "admit" /\ (v.pc = "insert" => Admitted(v.sc, cfg, env))
    BY <2>3, Positions
  <2> HIDE DEF v
  <2>5. QED
    BY <2>1, <2>4, CreatorStep
<1>4. QED
  BY <1>1, <1>2, <1>3

\* Lemma: every step preserves the invariant.
LEMMA InvNext == Inv /\ [Next]_vars => Inv'
<1> SUFFICES ASSUME Inv, [Next]_vars PROVE Inv'
  OBVIOUS
<1>1. ASSUME NEW t \in Targets,
             \/ DeleteTarget(t)
             \/ \E body \in TargetBodies :
                  CreateTarget(t, body) \/ UpdateTarget(t, body)
      PROVE  Inv'
  BY <1>1, TargetStep DEF DeleteTarget, CreateTarget, UpdateTarget
<1>2. ASSUME NEW w \in Savers,
             StoreScenario(w) \/ \E sc \in Posted : SaveScenario(w, sc)
      PROVE  Inv'
  BY <1>2, StoreScenarioStep, SaveScenarioStep
<1>3. ASSUME NEW m \in Creators,
             \/ \E t \in Targets \cup {None} :
                  LoadSaved(m, t) \/ \E sc \in Posted : LoadInline(m, sc, t)
             \/ AdmitRun(m) \/ InsertRun(m) \/ ExecuteRun(m)
      PROVE  Inv'
  BY <1>3, CreateRunStep, InsertRunStep, ExecuteRunStep
<1>4. CASE Restart
  BY <1>4, RestartStep
<1>5. CASE UNCHANGED vars
  BY <1>5 DEF vars, Inv, TargetsKnown, SavesHold, CreationsHold, RunsHold
<1>6. QED
  BY <1>1, <1>2, <1>3, <1>4, <1>5 DEF Next

\* Lemma: the invariant holds in every state.
LEMMA Invariant == Spec => []Inv
BY InvInit, InvNext, PTL DEF Spec

-----------------------------------------------------------------------------
(* Theorems                                                                *)

\* Theorem: what ExecuteRun sends is what createRun accepted, its JSON bodies as
\* the store gives them back: expansion and defaults are settled once, by the
\* API, for any two environments, unless a value of the API's environment or
\* JSONB brings in a variable.
THEOREM ExecutesWhatWasAccepted == Spec => []AcceptedIsExecuted
<1>1. Inv => AcceptedIsExecuted
  <2> SUFFICES ASSUME Inv, NEW m \in Creators, sent[m].sc # None
               PROVE  \/ LeftToExpand(runs[m])
                      \/ sent[m].ok /\ sent[m].sc = Stored(runs[m].accepted)
    BY DEF AcceptedIsExecuted
  <2>1. Executed(sent[m], runs[m]) /\ runs[m].sc = Stored(runs[m].accepted)
    BY DEF Inv, RunsHold, Accepted
  <2>2. QED
    BY <2>1 DEF Executed
<1>2. QED
  BY <1>1, Invariant, PTL

\* Theorem: goroutines and rate of what is sent keep to the limits createRun
\* checked, and so do hosts and bodies unless something was left to expand, the
\* bodies as they were before the store gave them back, whatever targets, limits
\* and environment were changed to in between.
THEOREM KeepsToLimits == Spec => []SentWithinLimits
<1>1. Inv => SentWithinLimits
  <2> SUFFICES ASSUME Inv, NEW m \in Creators, sent[m].sc # None
               PROVE  LET sc == sent[m].sc
                          limits == runs[m].cfg
                      IN
                      /\ WithinMax(sc.concurrency, limits.maxConcurrency)
                      /\ limits.maxRate > 0 => sc.rate \in 1 .. limits.maxRate
                      /\ \/ LeftToExpand(runs[m])
                         \/ \A q \in sc.requests :
                              /\ \/ WithinMax(Size[q.body], limits.maxBody)
                                 \/ Grown(q, runs[m])
                              /\ Reachable(joinURL(sc, q), sc, limits)
    BY DEF SentWithinLimits
  <2> DEFINE run == runs[m]
             a == run.accepted
             sc == sent[m].sc
             limits == run.cfg
  <2>1. /\ Settled(a) /\ GuardrailsValidate(a, limits)
        /\ limits.maxRate > 0 => a.rate \in 1 .. limits.maxRate
        /\ run.sc = Stored(a)
        /\ sc.concurrency = a.concurrency /\ sc.rate = a.rate
        /\ LeftToExpand(run) \/ sc = run.sc
    BY DEF Inv, RunsHold, Accepted, Admitted, Executed
  <2> HIDE DEF run, a, sc, limits
  <2>2. WithinMax(sc.concurrency, limits.maxConcurrency)
    BY <2>1 DEF GuardrailsValidate
  <2>3. ASSUME sc = Stored(a), NEW q \in sc.requests
        PROVE  /\ WithinMax(Size[q.body], limits.maxBody) \/ Grown(q, run)
               /\ Reachable(joinURL(sc, q), sc, limits)
    <3>1. sc.base = a.base
      BY <2>1, <2>3, StoredFields
    <3>2. PICK p \in a.requests :
            /\ q.path = p.path /\ q.json = p.json
            /\ q.json => q.body = Jsonb[p.body]
            /\ ~q.json => q.body = p.body
      BY <2>1, <2>3, StoredFields
    <3>3. /\ WithinMax(Size[p.body], limits.maxBody)
          /\ Reachable(joinURL(a, p), a, limits)
      BY <2>1, PathReachable
    <3>4. Reachable(joinURL(sc, q), sc, limits)
      BY <3>1, <3>2, <3>3 DEF Reachable, joinURL
    <3>5. q.json => Grown(q, run)
      BY <3>2, <3>3 DEF Grown, a, limits
    <3>6. QED
      BY <3>2, <3>3, <3>4, <3>5
  <2>4. \/ LeftToExpand(run)
        \/ \A q \in sc.requests :
             /\ WithinMax(Size[q.body], limits.maxBody) \/ Grown(q, run)
             /\ Reachable(joinURL(sc, q), sc, limits)
    BY <2>1, <2>3
  <2>5. limits.maxRate > 0 => sc.rate \in 1 .. limits.maxRate
    BY <2>1
  <2>6. QED
    BY <2>2, <2>4, <2>5 DEF run, sc, limits
<1>2. QED
  BY <1>1, Invariant, PTL

\* Lemma: what a step does to a request that was about to be admitted.
LEMMA RefusalStep ==
  ASSUME Inv, Next, NEW m \in Creators, creator[m].pc = "admit",
         creator'[m] = Refused, restarts' = restarts
  PROVE  LET c == creator[m] IN
         ~(Resolvable(c.sc, c.target) /\ Acceptable(Completed(c.sc, c.target)))
<1>1. creator'[m] # creator[m]
  BY Positions
<1>2. creator' # creator
  BY <1>1
<1>3. ~Restart
  BY DEF Restart, Inv
<1>4. PICK k \in Creators :
        \/ \E t \in Targets \cup {None} :
             LoadSaved(k, t) \/ \E sc \in Posted : LoadInline(k, sc, t)
        \/ AdmitRun(k) \/ InsertRun(k)
  <2>1. \A t \in Targets, body \in TargetBodies :
          ~DeleteTarget(t) /\ ~CreateTarget(t, body) /\ ~UpdateTarget(t, body)
    BY <1>2 DEF DeleteTarget, CreateTarget, UpdateTarget, TargetUnchanged
  <2>2. \A t \in Targets : ~DeleteTarget(t)
    BY <1>2 DEF DeleteTarget, TargetUnchanged
  <2>3. \A w \in Savers, sc \in Posted :
          ~StoreScenario(w) /\ ~SaveScenario(w, sc)
    BY <1>2 DEF StoreScenario, SaveScenario
  <2>4. \A w \in Savers : ~StoreScenario(w)
    BY <1>2 DEF StoreScenario
  <2>5. \A k \in Creators : ~ExecuteRun(k)
    BY <1>2 DEF ExecuteRun
  <2>6. QED
    BY <1>3, <2>1, <2>2, <2>3, <2>4, <2>5 DEF Next
<1>5. \E v : creator' = [creator EXCEPT ![k] = v]
  BY <1>4 DEF LoadSaved, LoadInline, AdmitRun, InsertRun
<1>6. k = m
  BY <1>1, <1>5 DEF Inv
<1>7. AdmitRun(m)
  BY <1>4, <1>6 DEF LoadSaved, LoadInline, InsertRun
<1> DEFINE c == creator[m]
           x == Completed(c.sc, c.target)
           ok == Resolvable(c.sc, c.target) /\ Acceptable(x)
<1>8. creator' = [creator EXCEPT ![m] =
        IF ok THEN At("insert", applyRunGuardrails(x), None, NoOrigin)
        ELSE Refused]
  BY <1>7 DEF AdmitRun
<1> HIDE DEF ok, x
<1>9. creator'[m] =
        IF ok THEN At("insert", applyRunGuardrails(x), None, NoOrigin)
        ELSE Refused
  BY <1>8 DEF Inv
<1>10. ~ok
  BY <1>9, Positions
<1>11. QED
  BY <1>10 DEF ok, x

\* Theorem: createRun refuses a saved scenario only when the request names
\* another target, limits, environment or target are no longer those the
\* scenario was saved under, a value or JSONB brought in a variable, or a JSON
\* body outgrew the limit in the store.
THEOREM SavedRunsAgain == Spec => SavedScenariosRun
<1> DEFINE A(m) ==
      LET c == creator[m] IN
      /\ c.pc = "admit" /\ creator'[m] = Refused /\ restarts' = restarts
      /\ c.origin # NoOrigin
      => \/ c.target # None
         \/ c.origin # [cfg |-> cfg, env |-> env,
                        target |-> TargetNow(c.sc, None)]
         \/ ~Plain(c.sc)
         \/ \E q \in c.sc.requests :
              q.json /\ ~WithinMax(Size[q.body], cfg.maxBody)
<1>1. Inv /\ [Next]_vars => [\A m \in Creators : A(m)]_vars
  <2> SUFFICES ASSUME Inv, Next, NEW m \in Creators, ~A(m) PROVE FALSE
    OBVIOUS
  <2> DEFINE c == creator[m]
  <2>1. /\ c.pc = "admit" /\ creator'[m] = Refused /\ restarts' = restarts
        /\ c.origin # NoOrigin /\ c.target = None
        /\ c.origin = [cfg |-> cfg, env |-> env,
                       target |-> TargetNow(c.sc, None)]
        /\ Plain(c.sc)
        /\ \A q \in c.sc.requests :
             q.json => WithinMax(Size[q.body], cfg.maxBody)
    OBVIOUS
  <2>2. Reread(c.sc, c.origin)
    BY <2>1 DEF Inv, CreationsHold
  <2>3. ~(Resolvable(c.sc, None) /\ Acceptable(Completed(c.sc, None)))
    BY <2>1, RefusalStep
  <2>4. Resolvable(c.sc, None) /\ Acceptable(Completed(c.sc, None))
    <3> HIDE DEF c
    <3>1. QED
      BY <2>1, <2>2, SavedAgain DEF Inv
  <2>5. QED
    BY <2>3, <2>4
<1>2. QED
  BY <1>1, Invariant, PTL DEF Spec, SavedScenariosRun
=============================================================================
