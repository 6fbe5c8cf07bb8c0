-------------------------- MODULE EventStreamProofs -------------------------
(***************************************************************************)
(* The theorems of EventStream: what a reader is sent over all its         *)
(* connections and what its console shows, for any number of readers,      *)
(* events and broken connections.                                          *)
(***************************************************************************)
EXTENDS EventStream, SequenceTheorems, TLAPS

ClientType == [pc : ClientPcs, lastId : 0 .. MaxEvents]

\* The numbers a reader has received, the ones on their way to it and the
\* handler's lastSequence continue each other, and Last-Event-ID is where the
\* received ones end: what a broken connection loses, the next one repeats.
Continues(c) ==
  /\ Len(got[c]) <= Len(timeline)
  /\ \A i \in 1 .. Len(got[c]) : got[c][i] = i
  /\ \A i \in 1 .. Len(wire[c]) : wire[c][i] = Len(got[c]) + i
  /\ client[c].lastId = Len(got[c])
  /\ server[c].listed <= Len(timeline)
  /\ server[c].pc # "off" <=> client[c].pc = "open"
  /\ IF client[c].pc = "open"
     THEN /\ server[c].last = Len(got[c]) + Len(wire[c])
          /\ server[c].last <= Len(timeline)
     ELSE wire[c] = <<>>

\* The console shows what it has received and listens to; before the first
\* fetch it has received nothing.
Shows(c) ==
  /\ client[c].pc = "fetch" => got[c] = <<>>
  /\ \A i \in 1 .. Len(got[c]) : Listened(i) => i \in shown[c]

\* ShownComplete for one reader.
Complete(c) ==
  client[c].pc = "done" =>
    \E n \in 1 .. Len(timeline) :
      /\ timeline[n] = "outcome"
      /\ \A i \in 1 .. n : Listened(i) => i \in shown[c]

Good(c) == Continues(c) /\ Shows(c) /\ Complete(c)

Inv == TypeOK /\ \A c \in Readers : Good(c)

-----------------------------------------------------------------------------
(* The invariant                                                           *)

\* Lemma: a run that nobody has looked at satisfies the invariant.
LEMMA InvInit == Init => Inv
<1> SUFFICES ASSUME Init PROVE Inv
  OBVIOUS
<1>1. MaxEvents \in Nat /\ MaxDrops \in Nat /\ MaxReadFaults \in Nat
  BY EventStreamAssumption
<1>2. Off \in Server /\ [pc |-> "fetch", lastId |-> 0] \in ClientType
  BY <1>1 DEF Off, Server, ServerPcs, ClientType, ClientPcs
<1>3. TypeOK
  BY <1>1, <1>2 DEF Init, TypeOK, ClientType
<1>4. ASSUME NEW c \in Readers PROVE Good(c)
  BY DEF Init, Off, Good, Continues, Shows, Complete
<1>5. QED
  BY <1>3, <1>4 DEF Inv

\* Lemma: the timeline grows at its end, so what readers know of it stays.
LEMMA RunStep ==
  ASSUME Inv, StreamUnchanged, NEW kind \in EventKinds,
         \/ UNCHANGED timeline
         \/ Len(timeline) < MaxEvents /\ timeline' = Append(timeline, kind),
         backend' \in {"memory", "postgres"},
         outcome' \in {"none", "untold", "told", "lost"}
  PROVE  Inv'
<1>1. /\ timeline' \in Seq(EventKinds) /\ Len(timeline') <= MaxEvents
      /\ Len(timeline) \in Nat /\ Len(timeline') \in Nat
      /\ Len(timeline) <= Len(timeline')
      /\ \A i \in 1 .. Len(timeline) : timeline'[i] = timeline[i]
  <2>1. /\ timeline \in Seq(EventKinds) /\ Len(timeline) <= MaxEvents
        /\ Len(timeline) \in Nat /\ MaxEvents \in Nat
    BY EventStreamAssumption DEF Inv, TypeOK
  <2>2. CASE UNCHANGED timeline
    BY <2>1, <2>2
  <2>3. CASE Len(timeline) < MaxEvents /\ timeline' = Append(timeline, kind)
    <3>1. /\ Append(timeline, kind) \in Seq(EventKinds)
          /\ Len(Append(timeline, kind)) = Len(timeline) + 1
          /\ \A i \in 1 .. Len(timeline) :
               Append(timeline, kind)[i] = timeline[i]
      BY <2>1, AppendProperties
    <3>2. QED
      BY <2>1, <2>3, <3>1
  <2>4. QED
    BY <2>2, <2>3
<1>2. TypeOK'
  BY <1>1 DEF Inv, TypeOK, StreamUnchanged
<1>3. ASSUME NEW c \in Readers PROVE Good(c)'
  <2>1. /\ Good(c) /\ server[c] \in Server /\ Len(got[c]) \in Nat
        /\ server[c].last \in Nat /\ server[c].listed \in Nat
    BY EventStreamAssumption DEF Inv, TypeOK, Server
  <2>2. Continues(c)'
    <3>1. /\ Len(got[c]) <= Len(timeline) /\ server[c].listed <= Len(timeline)
          /\ client[c].pc = "open" => server[c].last <= Len(timeline)
      BY <2>1 DEF Good, Continues
    <3>2. /\ Len(got[c]) <= Len(timeline') /\ server[c].listed <= Len(timeline')
          /\ client[c].pc = "open" => server[c].last <= Len(timeline')
      BY <1>1, <2>1, <3>1
    <3>3. QED
      BY <2>1, <3>2 DEF Good, Continues, StreamUnchanged
  <2>3. Shows(c)'
    BY <1>1, <2>1 DEF Good, Continues, Shows, Listened, StreamUnchanged
  <2>4. Complete(c)'
    <3> SUFFICES ASSUME client[c].pc = "done"
                 PROVE  \E n \in 1 .. Len(timeline') :
                          /\ timeline'[n] = "outcome"
                          /\ \A i \in 1 .. n : timeline'[i] # "worker" =>
                               i \in shown[c]
      BY DEF Complete, Listened, StreamUnchanged
    <3>1. PICK n \in 1 .. Len(timeline) :
            /\ timeline[n] = "outcome"
            /\ \A i \in 1 .. n : timeline[i] # "worker" => i \in shown[c]
      BY <2>1 DEF Good, Complete, Listened
    <3>2. QED
      BY <1>1, <3>1
  <2>5. QED
    BY <2>2, <2>3, <2>4 DEF Good
<1>4. QED
  BY <1>2, <1>3 DEF Inv

\* Lemma: a step that concerns one reader keeps the invariant if it keeps
\* the reader's part and the types.
LEMMA OneReader ==
  ASSUME Inv, NEW c \in Readers, RunUnchanged, TypeOK', Good(c)',
         \A d \in Readers : d # c =>
           /\ server'[d] = server[d] /\ wire'[d] = wire[d]
           /\ client'[d] = client[d] /\ got'[d] = got[d]
           /\ shown'[d] = shown[d]
  PROVE  Inv'
<1>1. ASSUME NEW d \in Readers, d # c PROVE Good(d)'
  <2>1. Good(d)
    BY DEF Inv
  <2>2. QED
    BY <1>1, <2>1 DEF Good, Continues, Shows, Complete, Listened, RunUnchanged
<1>2. QED
  BY <1>1 DEF Inv

\* Lemma: a read, whether it fails or not, keeps to the bound on failures.
LEMMA ReadsType ==
  ASSUME Inv, UNCHANGED readFaults \/ ReadFails
  PROVE  readFaults' \in 0 .. MaxReadFaults
BY EventStreamAssumption DEF Inv, TypeOK, ReadFails

\* Lemma: the facts about one reader that its steps need.
LEMMA ReaderFacts ==
  ASSUME Inv, NEW c \in Readers
  PROVE  /\ Good(c) /\ server[c] \in Server /\ client[c] \in ClientType
         /\ wire[c] \in Seq(1 .. MaxEvents) /\ got[c] \in Seq(1 .. MaxEvents)
         /\ Len(got[c]) \in Nat /\ Len(wire[c]) \in Nat
         /\ Len(timeline) \in Nat /\ Len(timeline) <= MaxEvents
         /\ server[c].last \in Nat /\ server[c].listed \in Nat
         /\ server \in [Readers -> Server] /\ client \in [Readers -> ClientType]
         /\ wire \in [Readers -> Seq(1 .. MaxEvents)]
         /\ got \in [Readers -> Seq(1 .. MaxEvents)]
         /\ MaxEvents \in Nat
BY EventStreamAssumption DEF Inv, TypeOK, Server, ClientType

\* Lemma: the handler's steps keep the invariant.
LEMMA StreamStepInv ==
  ASSUME Inv, NEW c \in Readers, StreamStep(c)
  PROVE  Inv'
<1>1. /\ Good(c) /\ server[c] \in Server
      /\ wire[c] \in Seq(1 .. MaxEvents)
      /\ Len(got[c]) \in Nat /\ Len(wire[c]) \in Nat
      /\ Len(timeline) \in Nat /\ Len(timeline) <= MaxEvents
      /\ server[c].last \in Nat /\ server[c].listed \in Nat
      /\ server \in [Readers -> Server]
      /\ wire \in [Readers -> Seq(1 .. MaxEvents)]
      /\ MaxEvents \in Nat
  BY ReaderFacts
<1>2. RunUnchanged /\ UNCHANGED <<client, got, shown, drops>>
  BY DEF StreamStep, List, Send, Check, Tick
<1>R. readFaults' \in 0 .. MaxReadFaults
  <2>1. UNCHANGED readFaults \/ ReadFails
    BY DEF StreamStep, List, Send, Check, Tick, ListRunEvents, GetRun
  <2>2. QED
    BY <2>1, ReadsType
<1>3. CASE List(c) \/ Check(c) \/ Tick(c)
  <2>1. PICK w \in Server :
          /\ server' = [server EXCEPT ![c] = w]
          /\ w.pc # "off" /\ w.last = server[c].last
          /\ w.listed <= Len(timeline)
          /\ server[c].pc # "off" /\ wire' = wire
    <3>1. server[c].listed <= Len(timeline)
      BY <1>1 DEF Good, Continues
    <3>2. CASE List(c)
      <4>0. PICK n \in 0 .. Len(timeline) :
              server' = [server EXCEPT ![c].pc = "send", ![c].listed = n]
        BY <3>2 DEF List
      <4> DEFINE v == [server[c] EXCEPT !.pc = "send", !.listed = n]
      <4>1. n \in 0 .. MaxEvents /\ n <= Len(timeline)
        BY <1>1
      <4>2. v \in Server /\ v.pc = "send" /\ v.last = server[c].last
              /\ v.listed = n
        BY <1>1, <4>1 DEF Server, ServerPcs
      <4>3. server' = [server EXCEPT ![c] = v]
        BY <4>0
      <4>4. server[c].pc # "off" /\ wire' = wire
        BY <3>2 DEF List
      <4> HIDE DEF v
      <4>5. v.pc # "off" /\ v.listed <= Len(timeline)
        BY <4>1, <4>2
      <4>6. QED
        BY <4>2, <4>3, <4>4, <4>5
    <3>3. CASE Check(c) \/ Tick(c)
      <4>1. PICK p \in {"closed", "wait", "list"} :
              server' = [server EXCEPT ![c].pc = p]
        BY <3>3 DEF Check, Tick
      <4> DEFINE v == [server[c] EXCEPT !.pc = p]
      <4>2. v \in Server /\ v.pc = p /\ v.last = server[c].last
              /\ v.listed = server[c].listed
        BY <1>1 DEF Server, ServerPcs
      <4>3. server' = [server EXCEPT ![c] = v]
        BY <4>1
      <4>4. QED
        BY <3>1, <3>3, <4>2, <4>3 DEF Check, Tick
    <3>4. QED
      BY <1>3, <3>2, <3>3
  <2>2. server'[c] = w /\ server' \in [Readers -> Server]
    BY <1>1, <2>1
  <2>3. TypeOK'
    BY <1>2, <1>R, <2>1, <2>2 DEF Inv, TypeOK, RunUnchanged
  <2>4. Good(c)'
    BY <1>1, <1>2, <2>1, <2>2
    DEF Good, Continues, Shows, Complete, Listened, RunUnchanged
  <2>5. QED
    BY <1>1, <1>2, <2>1, <2>3, <2>4, OneReader
<1>4. CASE Send(c) /\ server[c].last < server[c].listed
  <2> DEFINE w == [server[c] EXCEPT !.last = server[c].last + 1]
             n == server[c].last + 1
  <2>1. /\ server' = [server EXCEPT ![c] = w]
        /\ wire' = [wire EXCEPT ![c] = Append(wire[c], n)]
        /\ server[c].pc = "send"
    BY <1>1, <1>4 DEF Send
  <2>2. /\ n \in 1 .. MaxEvents /\ n <= Len(timeline)
        /\ n = Len(got[c]) + Len(wire[c]) + 1
        /\ client[c].pc = "open"
    BY <1>1, <1>4, <2>1 DEF Good, Continues
  <2>3. w \in Server /\ w.pc = "send" /\ w.last = n
          /\ w.listed = server[c].listed
    <3>1. n \in 0 .. MaxEvents
      BY <2>2
    <3>2. QED
      BY <1>1, <2>1, <3>1 DEF Server
  <2> HIDE DEF w, n
  <2>A. n = Len(got[c]) + (Len(wire[c]) + 1)
    <3>1. \A a, b \in Nat : a + b + 1 = a + (b + 1)
      OBVIOUS
    <3>2. QED
      BY <1>1, <2>2, <3>1
  <2>4. /\ Append(wire[c], n) \in Seq(1 .. MaxEvents)
        /\ Len(Append(wire[c], n)) = Len(wire[c]) + 1
        /\ \A i \in 1 .. Len(wire[c]) : Append(wire[c], n)[i] = wire[c][i]
        /\ Append(wire[c], n)[Len(wire[c]) + 1] = n
    BY <1>1, <2>2, AppendProperties
  <2>5. /\ server'[c] = w /\ server' \in [Readers -> Server]
        /\ wire'[c] = Append(wire[c], n)
        /\ wire' \in [Readers -> Seq(1 .. MaxEvents)]
    BY <1>1, <2>1, <2>3, <2>4
  <2>6. TypeOK'
    BY <1>2, <1>R, <2>5 DEF Inv, TypeOK, RunUnchanged
  <2>7. Continues(c)'
    <3>1. \A i \in 1 .. Len(wire[c]) : wire[c][i] = Len(got[c]) + i
      BY <1>1 DEF Good, Continues
    <3>2. \A i \in 1 .. Len(wire'[c]) : wire'[c][i] = Len(got[c]) + i
      <4> SUFFICES ASSUME NEW i \in 1 .. Len(wire[c]) + 1
                   PROVE  Append(wire[c], n)[i] = Len(got[c]) + i
        BY <2>4, <2>5
      <4>1. CASE i = Len(wire[c]) + 1
        <5>1. n = Len(got[c]) + i
          BY <2>A, <4>1
        <5>2. QED
          BY <2>4, <4>1, <5>1
      <4>2. CASE i \in 1 .. Len(wire[c])
        BY <2>4, <3>1, <4>2
      <4>3. QED
        BY <1>1, <4>1, <4>2
    <3>3. Len(wire'[c]) = Len(wire[c]) + 1
      BY <2>4, <2>5
    <3>4. /\ server'[c].last = Len(got[c]) + Len(wire'[c])
          /\ server'[c].last <= Len(timeline) /\ server'[c].pc # "off"
          /\ server'[c].listed = server[c].listed
      <4>1. Len(got[c]) + Len(wire'[c]) = n
        BY <2>A, <3>3
      <4>2. QED
        BY <2>2, <2>3, <2>5, <4>1
    <3>5. QED
      BY <1>1, <1>2, <2>2, <3>2, <3>4 DEF Good, Continues, RunUnchanged
  <2>8. Shows(c)' /\ Complete(c)'
    BY <1>1, <1>2 DEF Good, Shows, Complete, Listened, RunUnchanged
  <2>9. QED
    BY <1>1, <1>2, <2>1, <2>6, <2>7, <2>8, OneReader DEF Good
<1>5. CASE Send(c) /\ server[c].last >= server[c].listed
  <2> DEFINE w == [server[c] EXCEPT !.pc = "check"]
  <2>1. server' = [server EXCEPT ![c] = w] /\ wire' = wire
          /\ server[c].pc = "send"
    BY <1>1, <1>5 DEF Send
  <2>2. w \in Server /\ w.pc = "check" /\ w.last = server[c].last
          /\ w.listed = server[c].listed
    BY <1>1 DEF Server, ServerPcs
  <2> HIDE DEF w
  <2>3. server'[c] = w /\ server' \in [Readers -> Server]
    BY <1>1, <2>1, <2>2
  <2>4. TypeOK'
    BY <1>2, <1>R, <2>1, <2>3 DEF Inv, TypeOK, RunUnchanged
  <2>5. Good(c)'
    BY <1>1, <1>2, <2>1, <2>2, <2>3
    DEF Good, Continues, Shows, Complete, Listened, RunUnchanged
  <2>6. QED
    BY <1>1, <1>2, <2>1, <2>4, <2>5, OneReader
<1>6. QED
  BY <1>1, <1>3, <1>4, <1>5 DEF StreamStep, Send
\* Lemma: the first fetch shows all there is, and keeps the invariant.
LEMMA FetchInv ==
  ASSUME Inv, NEW c \in Readers, Fetch(c)
  PROVE  Inv'
<1>1. /\ Good(c) /\ client[c] \in ClientType
      /\ Len(timeline) \in Nat /\ Len(timeline) <= MaxEvents
      /\ client \in [Readers -> ClientType]
      /\ shown \in [Readers -> SUBSET (1 .. MaxEvents)]
      /\ MaxEvents \in Nat
  BY ReaderFacts DEF Inv, TypeOK
<1>2. /\ RunUnchanged /\ UNCHANGED <<server, wire, got, drops>>
      /\ client[c].pc = "fetch" /\ got[c] = <<>>
      /\ UNCHANGED readFaults \/ ReadFails
  BY <1>1 DEF Fetch, Good, Shows, Refused, GetRun, ListRunEvents
<1>3. PICK p \in {"done", "connect", "refused"}, n \in 0 .. Len(timeline) :
        /\ client' = [client EXCEPT ![c].pc = p]
        /\ \/ p = "refused" /\ UNCHANGED shown
           \/ /\ shown' = [shown EXCEPT ![c] = 1 .. n]
              /\ p = "done" => hasTerminalEvent(n)
  <2>1. CASE Refused(c) /\ UNCHANGED shown
    <3>1. 0 \in 0 .. Len(timeline)
      BY <1>1
    <3>2. QED
      BY <2>1, <3>1 DEF Refused
  <2>2. CASE \E n \in 0 .. Len(timeline) :
               /\ shown' = [shown EXCEPT ![c] = 1 .. n]
               /\ client' = [client EXCEPT ![c].pc =
                    IF hasTerminalEvent(n) THEN "done" ELSE "connect"]
    BY <2>2
  <2>3. QED
    BY <2>1, <2>2 DEF Fetch
<1> DEFINE v == [client[c] EXCEPT !.pc = p]
<1>4. v \in ClientType /\ v.pc = p /\ v.lastId = client[c].lastId
  BY <1>1 DEF ClientType, ClientPcs
<1>5. client' = [client EXCEPT ![c] = v]
  BY <1>3
<1> HIDE DEF v
<1>6. client'[c] = v /\ client' \in [Readers -> ClientType]
  BY <1>1, <1>4, <1>5
<1>7. /\ shown' \in [Readers -> SUBSET (1 .. MaxEvents)]
      /\ \A d \in Readers : d # c => shown'[d] = shown[d]
      /\ p = "done" => shown'[c] = 1 .. n
  BY <1>1, <1>3
<1>8. TypeOK'
  <2>1. readFaults' \in 0 .. MaxReadFaults
    BY <1>2, ReadsType
  <2>2. QED
    BY <1>2, <1>6, <1>7, <2>1 DEF Inv, TypeOK, ClientType, RunUnchanged
<1>9. Continues(c)'
  BY <1>1, <1>2, <1>4, <1>6 DEF Good, Continues, RunUnchanged
<1>10. Shows(c)'
  BY <1>2, <1>4, <1>6 DEF Shows, RunUnchanged
<1>11. Complete(c)'
  <2> SUFFICES ASSUME p = "done"
               PROVE  \E k \in 1 .. Len(timeline) :
                        /\ timeline[k] = "outcome"
                        /\ \A i \in 1 .. k : Listened(i) => i \in shown'[c]
    BY <1>2, <1>4, <1>6 DEF Complete, Listened, RunUnchanged
  <2>1. PICK k \in 1 .. n : timeline[k] = "outcome"
    BY <1>3 DEF hasTerminalEvent
  <2>2. k \in 1 .. Len(timeline) /\ \A i \in 1 .. k : i \in 1 .. n
    BY <1>1, <2>1
  <2>3. QED
    BY <1>7, <2>1, <2>2
<1>12. QED
  BY <1>1, <1>2, <1>5, <1>7, <1>8, <1>9, <1>10, <1>11, OneReader DEF Good

\* Lemma: a reader that is refused keeps what it has.
LEMMA RefusedInv ==
  ASSUME Inv, NEW c \in Readers, Connect(c), ~(UNCHANGED readFaults)
  PROVE  Inv'
<1>0. /\ Refused(c) /\ client[c].pc = "connect"
      /\ RunUnchanged /\ UNCHANGED <<server, wire, got, shown, drops>>
  BY DEF Connect, GetRun
<1>1. /\ Good(c) /\ client[c] \in ClientType
      /\ client \in [Readers -> ClientType]
  BY ReaderFacts
<1> DEFINE v == [client[c] EXCEPT !.pc = "refused"]
<1>2. v \in ClientType /\ v.pc = "refused" /\ v.lastId = client[c].lastId
  BY <1>1 DEF ClientType, ClientPcs
<1>3. client' = [client EXCEPT ![c] = v]
  BY <1>0 DEF Refused
<1> HIDE DEF v
<1>4. client'[c] = v /\ client' \in [Readers -> ClientType]
  BY <1>1, <1>2, <1>3
<1>5. TypeOK'
  <2>1. readFaults' \in 0 .. MaxReadFaults
    BY <1>0, ReadsType DEF Refused, GetRun
  <2>2. QED
    BY <1>0, <1>4, <2>1 DEF Inv, TypeOK, ClientType, RunUnchanged
<1>6. Good(c)'
  BY <1>0, <1>1, <1>2, <1>4
  DEF Good, Continues, Shows, Complete, Listened, RunUnchanged
<1>7. QED
  BY <1>0, <1>1, <1>3, <1>5, <1>6, OneReader

\* Lemma: a connection resumes after the last number received.
LEMMA ConnectInv ==
  ASSUME Inv, NEW c \in Readers, Connect(c), UNCHANGED readFaults
  PROVE  Inv'
<1>1. /\ Good(c) /\ client[c] \in ClientType
      /\ Len(timeline) \in Nat
      /\ client \in [Readers -> ClientType] /\ server \in [Readers -> Server]
      /\ MaxEvents \in Nat /\ Len(got[c]) \in Nat
  BY ReaderFacts
<1>2. /\ RunUnchanged /\ UNCHANGED <<wire, got, shown, drops>>
      /\ client[c].pc = "connect" /\ ~Refused(c)
  BY DEF Connect, Refused, GetRun, ReadFails, Inv, TypeOK
<1> DEFINE v == [client[c] EXCEPT !.pc = "open"]
           w == [pc |-> "list", last |-> client[c].lastId, listed |-> 0]
<1>3. v \in ClientType /\ v.pc = "open" /\ v.lastId = client[c].lastId
  BY <1>1 DEF ClientType, ClientPcs
<1>4. /\ w \in Server /\ w.pc = "list" /\ w.last = client[c].lastId
      /\ w.listed = 0
  BY <1>1 DEF Server, ServerPcs, ClientType
<1>5. client' = [client EXCEPT ![c] = v] /\ server' = [server EXCEPT ![c] = w]
  BY <1>2 DEF Connect, lastEventSequence
<1> HIDE DEF v, w
<1>6. /\ client'[c] = v /\ client' \in [Readers -> ClientType]
      /\ server'[c] = w /\ server' \in [Readers -> Server]
  BY <1>1, <1>3, <1>4, <1>5
<1>7. TypeOK'
  BY <1>2, <1>6 DEF Inv, TypeOK, ClientType, RunUnchanged
<1>8. Continues(c)'
  <2>1. /\ wire[c] = <<>> /\ client[c].lastId = Len(got[c])
        /\ Len(got[c]) <= Len(timeline)
    BY <1>1, <1>2 DEF Good, Continues
  <2>2. Len(wire[c]) = 0 /\ Len(got[c]) + 0 = Len(got[c])
    BY <1>1, <2>1
  <2>3. QED
    BY <1>1, <1>2, <1>3, <1>4, <1>6, <2>1, <2>2
    DEF Good, Continues, RunUnchanged
<1>9. Shows(c)' /\ Complete(c)'
  BY <1>1, <1>2, <1>3, <1>6 DEF Good, Shows, Complete, Listened, RunUnchanged
<1>10. QED
  BY <1>1, <1>2, <1>5, <1>7, <1>8, <1>9, OneReader DEF Good

\* Lemma: the end of a stream and a broken connection lose what is on its way
\* and nothing else.
LEMMA BreakInv ==
  ASSUME Inv, NEW c \in Readers, StreamEnds(c) \/ Drop(c)
  PROVE  Inv'
<1>1. /\ Good(c) /\ client[c] \in ClientType
      /\ Len(timeline) \in Nat
      /\ client \in [Readers -> ClientType] /\ server \in [Readers -> Server]
      /\ wire \in [Readers -> Seq(1 .. MaxEvents)]
      /\ MaxEvents \in Nat /\ MaxDrops \in Nat
  BY ReaderFacts, EventStreamAssumption
<1> DEFINE v == [client[c] EXCEPT !.pc = "connect"]
<1>2. /\ RunUnchanged /\ UNCHANGED <<got, shown, readFaults>>
      /\ client[c].pc = "open"
      /\ client' = [client EXCEPT ![c] = v]
      /\ server' = [server EXCEPT ![c] = Off]
  BY DEF StreamEnds, Drop, Reconnect
<1>3. v \in ClientType /\ v.pc = "connect" /\ v.lastId = client[c].lastId
  BY <1>1 DEF ClientType, ClientPcs
<1>4. /\ Off \in Server /\ Off.pc = "off" /\ Off.listed = 0
  BY <1>1 DEF Off, Server, ServerPcs
<1>5. /\ wire'[c] = <<>>
      /\ \A d \in Readers : d # c => wire'[d] = wire[d]
      /\ wire' \in [Readers -> Seq(1 .. MaxEvents)]
  <2>1. <<>> \in Seq(1 .. MaxEvents)
    BY EmptySeq
  <2>2. \/ wire' = wire /\ wire[c] = <<>>
        \/ wire' = [wire EXCEPT ![c] = <<>>]
    BY DEF StreamEnds, Drop
  <2>3. QED
    BY <1>1, <2>1, <2>2
<1>6. drops' \in 0 .. MaxDrops
  BY <1>1 DEF StreamEnds, Drop, Inv, TypeOK
<1> HIDE DEF v
<1>7. /\ client'[c] = v /\ client' \in [Readers -> ClientType]
      /\ server'[c] = Off /\ server' \in [Readers -> Server]
  BY <1>1, <1>2, <1>3, <1>4
<1>8. TypeOK'
  BY <1>2, <1>5, <1>6, <1>7 DEF Inv, TypeOK, ClientType, RunUnchanged
<1>9. Continues(c)'
  BY <1>1, <1>2, <1>3, <1>4, <1>5, <1>7 DEF Good, Continues, RunUnchanged
<1>10. Shows(c)' /\ Complete(c)'
  BY <1>1, <1>2, <1>3, <1>7 DEF Good, Shows, Complete, Listened, RunUnchanged
<1>11. QED
  BY <1>1, <1>2, <1>5, <1>8, <1>9, <1>10, OneReader DEF Good
\* Lemma: the number received is the next one, and it must have been listed.
LEMMA ReceivedIsNext ==
  ASSUME Inv, NEW c \in Readers, client[c].pc = "open", wire[c] # <<>>
  PROVE  LET i == Head(wire[c]) IN
         /\ i = Len(got[c]) + 1
         /\ i \in 1 .. Len(timeline) /\ i \in 1 .. MaxEvents
         /\ Append(got[c], i) \in Seq(1 .. MaxEvents)
         /\ Len(Append(got[c], i)) = Len(got[c]) + 1
         /\ \A j \in 1 .. Len(got[c]) + 1 : Append(got[c], i)[j] = j
         /\ Tail(wire[c]) \in Seq(1 .. MaxEvents)
         /\ Len(Tail(wire[c])) = Len(wire[c]) - 1
         /\ \A j \in 1 .. Len(wire[c]) - 1 :
              Tail(wire[c])[j] = Len(got[c]) + 1 + j
<1> DEFINE i == Head(wire[c])
<1>1. /\ Good(c)
      /\ wire[c] \in Seq(1 .. MaxEvents) /\ got[c] \in Seq(1 .. MaxEvents)
      /\ Len(got[c]) \in Nat /\ Len(wire[c]) \in Nat
      /\ Len(timeline) \in Nat /\ Len(timeline) <= MaxEvents
      /\ MaxEvents \in Nat
  BY ReaderFacts
<1>2. /\ \A j \in 1 .. Len(wire[c]) : wire[c][j] = Len(got[c]) + j
      /\ \A j \in 1 .. Len(got[c]) : got[c][j] = j
      /\ Len(got[c]) + Len(wire[c]) <= Len(timeline)
  BY <1>1 DEF Good, Continues
<1>3. Len(wire[c]) \in Nat \ {0}
  BY <1>1, EmptySeq
<1>4. i = wire[c][1] /\ 1 \in 1 .. Len(wire[c])
  BY <1>1, <1>3
<1>5. i = Len(got[c]) + 1
  BY <1>2, <1>4
<1>6. i \in 1 .. Len(timeline) /\ i \in 1 .. MaxEvents
  <2>1. \A g, t, m \in Nat : \A k \in Nat \ {0} :
          g + k <= t /\ t <= m => g + 1 \in 1 .. t /\ g + 1 \in 1 .. m
    OBVIOUS
  <2>2. QED
    BY <1>1, <1>2, <1>3, <1>5, <2>1
<1> HIDE DEF i
<1>7. /\ Append(got[c], i) \in Seq(1 .. MaxEvents)
      /\ Len(Append(got[c], i)) = Len(got[c]) + 1
      /\ \A j \in 1 .. Len(got[c]) : Append(got[c], i)[j] = got[c][j]
      /\ Append(got[c], i)[Len(got[c]) + 1] = i
  BY <1>1, <1>6, AppendProperties
<1>8. ASSUME NEW j \in 1 .. Len(got[c]) + 1
      PROVE  Append(got[c], i)[j] = j
  <2>1. CASE j = Len(got[c]) + 1
    BY <1>5, <1>7, <2>1
  <2>2. CASE j \in 1 .. Len(got[c])
    BY <1>2, <1>7, <2>2
  <2>3. QED
    BY <1>1, <2>1, <2>2
<1>9. /\ Tail(wire[c]) \in Seq(1 .. MaxEvents)
      /\ Len(Tail(wire[c])) = Len(wire[c]) - 1
      /\ \A j \in 1 .. Len(wire[c]) - 1 : Tail(wire[c])[j] = wire[c][j + 1]
  <2>1. /\ Tail(wire[c]) \in Seq(1 .. MaxEvents)
        /\ Len(Tail(wire[c])) = Len(wire[c]) - 1
        /\ \A j \in 1 .. Len(Tail(wire[c])) : Tail(wire[c])[j] = wire[c][j + 1]
    BY <1>1, HeadTailProperties
  <2>2. QED
    BY <2>1
<1>10. ASSUME NEW j \in 1 .. Len(wire[c]) - 1
       PROVE  Tail(wire[c])[j] = Len(got[c]) + 1 + j
  <2>1. j + 1 \in 1 .. Len(wire[c])
    BY <1>3
  <2>2. Tail(wire[c])[j] = Len(got[c]) + (j + 1)
    BY <1>2, <1>9, <2>1
  <2>3. \A a, b \in Nat : a + (b + 1) = a + 1 + b
    OBVIOUS
  <2>4. j \in Nat
    BY <1>3
  <2>5. QED
    BY <1>1, <2>2, <2>3, <2>4
<1>11. QED
  BY <1>5, <1>6, <1>7, <1>8, <1>9, <1>10 DEF i
\* Lemma: receiving an event keeps the invariant; the console closes its
\* source on the outcome, and has shown everything before it by then.
LEMMA ReceiveInv ==
  ASSUME Inv, NEW c \in Readers, Receive(c)
  PROVE  Inv'
<1> DEFINE i == Head(wire[c])
<1>1. /\ Good(c) /\ server[c] \in Server /\ client[c] \in ClientType
      /\ wire[c] \in Seq(1 .. MaxEvents) /\ got[c] \in Seq(1 .. MaxEvents)
      /\ Len(got[c]) \in Nat /\ Len(wire[c]) \in Nat
      /\ Len(timeline) \in Nat /\ Len(timeline) <= MaxEvents
      /\ server \in [Readers -> Server] /\ client \in [Readers -> ClientType]
      /\ wire \in [Readers -> Seq(1 .. MaxEvents)]
      /\ got \in [Readers -> Seq(1 .. MaxEvents)]
      /\ shown \in [Readers -> SUBSET (1 .. MaxEvents)]
      /\ MaxEvents \in Nat
  BY ReaderFacts DEF Inv, TypeOK
<1>2. /\ client[c].pc = "open" /\ wire[c] # <<>>
      /\ RunUnchanged /\ UNCHANGED <<drops, readFaults>>
      /\ got' = [got EXCEPT ![c] = Append(got[c], i)]
      /\ shown' = [shown EXCEPT ![c] = IF Listened(i) THEN shown[c] \cup {i}
                                                      ELSE shown[c]]
  BY DEF Receive
<1>3. /\ i = Len(got[c]) + 1
      /\ i \in 1 .. Len(timeline) /\ i \in 1 .. MaxEvents
      /\ Append(got[c], i) \in Seq(1 .. MaxEvents)
      /\ Len(Append(got[c], i)) = Len(got[c]) + 1
      /\ \A j \in 1 .. Len(got[c]) + 1 : Append(got[c], i)[j] = j
      /\ Tail(wire[c]) \in Seq(1 .. MaxEvents)
      /\ Len(Tail(wire[c])) = Len(wire[c]) - 1
      /\ \A j \in 1 .. Len(wire[c]) - 1 :
           Tail(wire[c])[j] = Len(got[c]) + 1 + j
  BY <1>2, ReceivedIsNext
<1>4. \/ /\ timeline[i] = "outcome"
         /\ client' = [client EXCEPT ![c] = [pc |-> "done", lastId |-> i]]
         /\ wire' = [wire EXCEPT ![c] = <<>>]
         /\ server' = [server EXCEPT ![c] = Off]
      \/ /\ timeline[i] # "outcome"
         /\ client' = [client EXCEPT ![c] = [client[c] EXCEPT !.lastId = i]]
         /\ wire' = [wire EXCEPT ![c] = Tail(wire[c])]
         /\ server' = server
  BY DEF Receive
<1> HIDE DEF i
<1>5. /\ got' \in [Readers -> Seq(1 .. MaxEvents)]
      /\ got'[c] = Append(got[c], i)
      /\ shown' \in [Readers -> SUBSET (1 .. MaxEvents)]
      /\ shown[c] \subseteq shown'[c] /\ (Listened(i) => i \in shown'[c])
  BY <1>1, <1>2, <1>3
<1>6. \A j \in 1 .. i : Listened(j) => j \in shown'[c]
  <2>1. \A j \in 1 .. Len(got[c]) : Listened(j) => j \in shown[c]
    BY <1>1 DEF Good, Shows
  <2>2. \A j \in 1 .. i : j = i \/ j \in 1 .. Len(got[c])
    BY <1>1, <1>3
  <2>3. QED
    BY <1>5, <2>1, <2>2
<1>7. Shows(c)'
  <2>1. client'[c].pc # "fetch"
    <3>1. /\ [pc |-> "done", lastId |-> i].pc = "done"
          /\ [client[c] EXCEPT !.lastId = i].pc = "open"
      BY <1>1, <1>2 DEF ClientType
    <3>2. \/ client'[c] = [pc |-> "done", lastId |-> i]
          \/ client'[c] = [client[c] EXCEPT !.lastId = i]
      BY <1>1, <1>4
    <3>3. QED
      BY <3>1, <3>2
  <2>2. Len(got'[c]) = i
    BY <1>3, <1>5
  <2>3. QED
    BY <1>2, <1>6, <2>1, <2>2 DEF Shows, Listened, RunUnchanged
<1>8. CASE timeline[i] = "outcome"
  <2> DEFINE v == [pc |-> "done", lastId |-> i]
  <2>1. /\ client' = [client EXCEPT ![c] = v]
        /\ wire' = [wire EXCEPT ![c] = <<>>]
        /\ server' = [server EXCEPT ![c] = Off]
    BY <1>4, <1>8
  <2>2. i \in 0 .. MaxEvents
    BY <1>3
  <2>3. /\ v \in ClientType /\ v.pc = "done" /\ v.lastId = i
        /\ Off \in Server /\ Off.pc = "off" /\ Off.listed = 0
        /\ <<>> \in Seq(1 .. MaxEvents)
    <3>1. v \in ClientType /\ v.pc = "done" /\ v.lastId = i
      BY <2>2 DEF ClientType, ClientPcs
    <3>2. Off \in Server /\ Off.pc = "off" /\ Off.listed = 0
      BY <1>1 DEF Off, Server, ServerPcs
    <3>3. QED
      BY <3>1, <3>2, EmptySeq
  <2> HIDE DEF v
  <2>4. /\ client'[c] = v /\ client' \in [Readers -> ClientType]
        /\ server'[c] = Off /\ server' \in [Readers -> Server]
        /\ wire'[c] = <<>> /\ wire' \in [Readers -> Seq(1 .. MaxEvents)]
    BY <1>1, <2>1, <2>3
  <2>5. TypeOK'
    BY <1>2, <1>5, <2>4 DEF Inv, TypeOK, ClientType, RunUnchanged
  <2>6. Continues(c)'
    <3>1. /\ Len(got'[c]) = i /\ i <= Len(timeline)
          /\ \A j \in 1 .. i : got'[c][j] = j
      BY <1>1, <1>3, <1>5
    <3>2. QED
      BY <1>1, <1>2, <2>3, <2>4, <3>1, SMTT(20) DEF Continues, RunUnchanged
  <2>7. Complete(c)'
    BY <1>2, <1>3, <1>6, <1>8 DEF Complete, Listened, RunUnchanged
  <2>8. QED
    BY <1>1, <1>2, <1>7, <2>1, <2>5, <2>6, <2>7, OneReader DEF Good
<1>9. CASE timeline[i] # "outcome"
  <2> DEFINE v == [client[c] EXCEPT !.lastId = i]
  <2>1. /\ client' = [client EXCEPT ![c] = v]
        /\ wire' = [wire EXCEPT ![c] = Tail(wire[c])]
        /\ server' = server
    BY <1>4, <1>9
  <2>2. i \in 0 .. MaxEvents
    BY <1>3
  <2>3. v \in ClientType /\ v.pc = "open" /\ v.lastId = i
    BY <1>1, <1>2, <2>2 DEF ClientType
  <2> HIDE DEF v
  <2>4. /\ client'[c] = v /\ client' \in [Readers -> ClientType]
        /\ wire'[c] = Tail(wire[c])
        /\ wire' \in [Readers -> Seq(1 .. MaxEvents)]
    BY <1>1, <1>3, <2>1, <2>3
  <2>5. TypeOK'
    BY <1>2, <1>5, <2>1, <2>4 DEF Inv, TypeOK, ClientType, RunUnchanged
  <2>6. Continues(c)'
    <3>1. /\ Len(got'[c]) = i /\ i <= Len(timeline)
          /\ \A j \in 1 .. i : got'[c][j] = j
      BY <1>1, <1>3, <1>5
    <3>2. \A j \in 1 .. Len(wire'[c]) : wire'[c][j] = i + j
      BY <1>3, <2>4
    <3>3. /\ server[c].last = Len(got[c]) + Len(wire[c])
          /\ server[c].last <= Len(timeline)
          /\ server[c].listed <= Len(timeline) /\ server[c].pc # "off"
      BY <1>1, <1>2 DEF Good, Continues
    <3>4. server[c].last = i + Len(wire'[c])
      <4>1. \A g, k \in Nat : g + k = (g + 1) + (k - 1)
        OBVIOUS
      <4>2. QED
        BY <1>1, <1>3, <2>4, <3>3, <4>1
    <3>5. QED
      BY <1>2, <2>1, <2>3, <2>4, <3>1, <3>2, <3>3, <3>4
      DEF Continues, RunUnchanged
  <2>7. Complete(c)'
    BY <2>3, <2>4 DEF Complete
  <2>8. QED
    BY <1>1, <1>2, <1>7, <2>1, <2>5, <2>6, <2>7, OneReader DEF Good
<1>10. QED
  BY <1>8, <1>9

\* Lemma: Inv is inductive.
LEMMA InvNext == Inv /\ [Next]_vars => Inv'
<1> SUFFICES ASSUME Inv, [Next]_vars PROVE Inv'
  OBVIOUS
<1>0. /\ backend \in {"memory", "postgres"}
      /\ outcome \in {"none", "untold", "told", "lost"}
      /\ Len(timeline) \in Nat /\ MaxEvents \in Nat
  BY EventStreamAssumption DEF Inv, TypeOK
<1>1. ASSUME NEW kind \in {"progress", "worker"}, AppendEvent(kind)
      PROVE  Inv'
  <2>1. /\ StreamUnchanged /\ UNCHANGED <<backend, outcome>>
        /\ timeline' = Append(timeline, kind) /\ kind \in EventKinds
    BY <1>1 DEF AppendEvent, EventKinds
  <2>2. Len(timeline) < MaxEvents
    BY <1>0, <1>1 DEF AppendEvent
  <2>3. QED
    BY <1>0, <2>1, <2>2, RunStep
<1>2. CASE Finish \/ TellOutcome
  <2>1. /\ StreamUnchanged /\ UNCHANGED backend
        /\ outcome' \in {"none", "untold", "told", "lost"}
        /\ \/ UNCHANGED timeline
           \/ /\ Len(timeline) < MaxEvents
              /\ timeline' = Append(timeline, "outcome")
        /\ "outcome" \in EventKinds
    BY <1>2 DEF Finish, TellOutcome, EventKinds
  <2>2. QED
    BY <1>0, <2>1, RunStep
<1>3. ASSUME NEW c \in Readers,
             StreamStep(c) \/ ClientStep(c) \/ Fetch(c) \/ Drop(c)
      PROVE  Inv'
  BY <1>3, StreamStepInv, FetchInv, RefusedInv, ConnectInv, ReceiveInv,
     BreakInv
  DEF ClientStep
<1>4. CASE UNCHANGED vars
  BY <1>4 DEF vars, Inv, TypeOK, Good, Continues, Shows, Complete, Listened
<1>5. QED
  BY <1>1, <1>2, <1>3, <1>4 DEF Next

-----------------------------------------------------------------------------
(* Theorems                                                                *)

\* Theorem: the variables keep their types.
THEOREM TypeCorrect == Spec => []TypeOK
<1>1. Inv => TypeOK
  BY DEF Inv
<1>2. QED
  BY <1>1, InvInit, InvNext, PTL DEF Spec

\* Theorem: however often a connection breaks or the handler returns, a
\* reader is sent the timeline from its start, in order, nothing twice and
\* nothing skipped.
THEOREM StreamsStayInOrder == Spec => []StreamsInOrder
<1>1. Inv => StreamsInOrder
  BY DEF Inv, Good, Continues, StreamsInOrder
<1>2. QED
  BY <1>1, InvInit, InvNext, PTL DEF Spec

\* Theorem: a console that has closed its source shows every event up to the
\* outcome that it listens to.
THEOREM ShownStaysComplete == Spec => []ShownComplete
<1>1. Inv => ShownComplete
  BY DEF Inv, Good, Complete, ShownComplete
<1>2. QED
  BY <1>1, InvInit, InvNext, PTL DEF Spec
=============================================================================
