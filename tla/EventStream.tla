---------------------------- MODULE EventStream -----------------------------
(***************************************************************************)
(* The live timeline of one run: streamRunEvents (httpapi/server.go) at    *)
(* one end, the console's EventSource (web/components/run-console.tsx) at  *)
(* the other, a connection that can break between them.                    *)
(*                                                                         *)
(* The timeline is the one EventLog implements: it grows at its end.  The  *)
(* memory store makes a run's outcome visible together with the event that *)
(* tells of it; Postgres makes the status visible first, and may lose the  *)
(* event.  Events may follow the outcome: HandleError's, and those of an   *)
(* execution that has not noticed.  Reads of Postgres can fail; what the   *)
(* store then returns looks like a run that is not there or has no events. *)
(***************************************************************************)
EXTENDS Naturals, Sequences

CONSTANTS Readers,      \* consoles that look at the run
          MaxEvents,    \* events of the run
          MaxDrops,     \* connections that break
          MaxReadFaults \* reads of the store that fail

ASSUME EventStreamAssumption ==
  MaxEvents \in Nat /\ MaxDrops \in Nat /\ MaxReadFaults \in Nat

VARIABLES backend,    \* the store: "memory" or "postgres"
          outcome,    \* "none", "untold" (status only), "told" or "lost"
          timeline,   \* the types of the run's events, in order
          server,     \* the handler that serves each reader
          wire,       \* numbers sent and not yet received
          client,     \* each reader's EventSource
          got,        \* numbers received over streams, over all connections
          shown,      \* numbers that the reader displays
          drops,      \* connections that have broken
          readFaults  \* reads that have failed

vars == <<backend, outcome, timeline, server, wire, client, got, shown, drops,
          readFaults>>

EventKinds == {"progress", "worker", "outcome"}

\* "closed": the handler has returned, and the connection drains.
ServerPcs == {"off", "list", "send", "check", "wait", "closed"}

Server ==
  [pc : ServerPcs,
   last : 0 .. MaxEvents,      \* lastSequence
   listed : 0 .. MaxEvents]    \* how much of the timeline ListRunEvents saw

\* "fetch": about to GET the events; "connect": the EventSource is connecting
\* or reconnecting; "done": the source is closed; "refused": a request was
\* answered with an error, after which neither the source nor the console tries
\* again.
ClientPcs == {"fetch", "connect", "open", "done", "refused"}

\* The type of every variable.
TypeOK ==
  /\ backend \in {"memory", "postgres"}
  /\ outcome \in {"none", "untold", "told", "lost"}
  /\ timeline \in Seq(EventKinds) /\ Len(timeline) <= MaxEvents
  /\ server \in [Readers -> Server]
  /\ wire \in [Readers -> Seq(1 .. MaxEvents)]
  /\ client \in [Readers -> [pc : ClientPcs, lastId : 0 .. MaxEvents]]
  /\ got \in [Readers -> Seq(1 .. MaxEvents)]
  /\ shown \in [Readers -> SUBSET (1 .. MaxEvents)]
  /\ drops \in 0 .. MaxDrops /\ readFaults \in 0 .. MaxReadFaults

Off == [pc |-> "off", last |-> 0, listed |-> 0]

Init ==
  /\ backend \in {"memory", "postgres"}
  /\ outcome = "none"
  /\ timeline = <<>>
  /\ server = [c \in Readers |-> Off]
  /\ wire = [c \in Readers |-> <<>>]
  /\ client = [c \in Readers |-> [pc |-> "fetch", lastId |-> 0]]
  /\ got = [c \in Readers |-> <<>>]
  /\ shown = [c \in Readers |-> {}]
  /\ drops = 0 /\ readFaults = 0

-----------------------------------------------------------------------------
(* The run                                                                 *)

RunUnchanged == UNCHANGED <<backend, outcome, timeline>>
StreamUnchanged ==
  UNCHANGED <<server, wire, client, got, shown, drops, readFaults>>

\* Room is left for the outcome's event, whoever writes before it.
AppendEvent(kind) ==
  /\ Len(timeline) + (IF outcome \in {"none", "untold"} THEN 1 ELSE 0)
       < MaxEvents
  /\ timeline' = Append(timeline, kind)
  /\ UNCHANGED <<backend, outcome>> /\ StreamUnchanged

Finish ==
  /\ outcome = "none"
  /\ \/ /\ backend = "memory"
        /\ Len(timeline) < MaxEvents
        /\ outcome' = "told"
        /\ timeline' = Append(timeline, "outcome")
     \/ /\ backend = "postgres"
        /\ outcome' = "untold"
        /\ UNCHANGED timeline
  /\ UNCHANGED backend /\ StreamUnchanged

TellOutcome ==
  /\ outcome = "untold"
  /\ \/ /\ Len(timeline) < MaxEvents
        /\ outcome' = "told"
        /\ timeline' = Append(timeline, "outcome")
     \/ outcome' = "lost" /\ UNCHANGED timeline
  /\ UNCHANGED backend /\ StreamUnchanged

isTerminalRunStatus == outcome # "none"

hasTerminalEvent(n) == \E i \in 1 .. n : timeline[i] = "outcome"

-----------------------------------------------------------------------------
(* The store's reads                                                       *)

ReadFails ==
  /\ backend = "postgres" /\ readFaults < MaxReadFaults
  /\ readFaults' = readFaults + 1

\* GetRun of the run; a read that fails is a run that is not there.
GetRun(ok) == IF ok THEN UNCHANGED readFaults ELSE ReadFails

\* The first n events: all there are or, when the query fails, none or the rows
\* that had come.
ListRunEvents(n) ==
  \/ n = Len(timeline) /\ UNCHANGED readFaults
  \/ n \in 0 .. Len(timeline) - 1 /\ ReadFails

-----------------------------------------------------------------------------
(* streamRunEvents                                                         *)

List(c) ==
  /\ server[c].pc = "list"
  /\ \E n \in 0 .. Len(timeline) :
       /\ ListRunEvents(n)
       /\ server' = [server EXCEPT ![c].pc = "send", ![c].listed = n]
  /\ RunUnchanged /\ UNCHANGED <<wire, client, got, shown, drops>>

\* The next listed event after lastSequence, or the end of the loop.
Send(c) ==
  /\ server[c].pc = "send"
  /\ \/ /\ server[c].last < server[c].listed
        /\ wire' = [wire EXCEPT ![c] = Append(@, server[c].last + 1)]
        /\ server' = [server EXCEPT ![c].last = @ + 1]
     \/ /\ server[c].last >= server[c].listed
        /\ server' = [server EXCEPT ![c].pc = "check"]
        /\ UNCHANGED wire
  /\ RunUnchanged /\ UNCHANGED <<client, got, shown, drops, readFaults>>

CheckEventOnly(c) ==
  /\ server[c].pc = "check"
  /\ \E ok \in BOOLEAN :
       /\ GetRun(ok)
       /\ server' = [server EXCEPT ![c].pc =
            IF ~ok \/ hasTerminalEvent(server[c].listed)
            THEN "closed" ELSE "wait"]
  /\ RunUnchanged /\ UNCHANGED <<wire, client, got, shown, drops>>

\* GetRun comes after ListRunEvents: it may know more.
Check(c) ==
  /\ server[c].pc = "check"
  /\ \E ok \in BOOLEAN :
       /\ GetRun(ok)
       /\ server' = [server EXCEPT ![c].pc =
            IF ~ok \/ isTerminalRunStatus \/ hasTerminalEvent(server[c].listed)
            THEN "closed" ELSE "wait"]
  /\ RunUnchanged /\ UNCHANGED <<wire, client, got, shown, drops>>

Tick(c) ==
  /\ server[c].pc = "wait"
  /\ server' = [server EXCEPT ![c].pc = "list"]
  /\ RunUnchanged /\ UNCHANGED <<wire, client, got, shown, drops, readFaults>>

-----------------------------------------------------------------------------
(* The console                                                             *)

\* The request is answered with an error.
Refused(c) ==
  /\ GetRun(FALSE)
  /\ client' = [client EXCEPT ![c].pc = "refused"]

\* GET /v1/runs/{id}/events; a run that has told its outcome needs no stream.
Fetch(c) ==
  /\ client[c].pc = "fetch"
  /\ \/ Refused(c) /\ UNCHANGED shown
     \/ \E n \in 0 .. Len(timeline) :
          /\ ListRunEvents(n)
          /\ shown' = [shown EXCEPT ![c] = 1 .. n]
          /\ client' = [client EXCEPT ![c].pc =
               IF hasTerminalEvent(n) THEN "done" ELSE "connect"]
  /\ RunUnchanged /\ UNCHANGED <<server, wire, got, drops>>

lastEventSequenceIgnored(c) == 0

\* The Last-Event-ID header of a reconnecting EventSource.
lastEventSequence(c) == client[c].lastId

Connect(c) ==
  /\ client[c].pc = "connect"
  /\ \/ Refused(c) /\ UNCHANGED server
     \/ /\ GetRun(TRUE)
        /\ client' = [client EXCEPT ![c].pc = "open"]
        /\ server' = [server EXCEPT ![c] =
             [pc |-> "list", last |-> lastEventSequence(c), listed |-> 0]]
  /\ RunUnchanged /\ UNCHANGED <<wire, got, shown, drops>>

\* The console has no listener for the events of the worker's attempts.
Listened(i) == timeline[i] # "worker"

Receive(c) ==
  /\ client[c].pc = "open" /\ wire[c] # <<>>
  /\ LET i == Head(wire[c]) IN
     /\ got' = [got EXCEPT ![c] = Append(@, i)]
     /\ shown' = [shown EXCEPT ![c] = IF Listened(i) THEN @ \cup {i} ELSE @]
     /\ \/ /\ timeline[i] = "outcome"
           /\ client' = [client EXCEPT ![c] = [pc |-> "done", lastId |-> i]]
           /\ wire' = [wire EXCEPT ![c] = <<>>]
           /\ server' = [server EXCEPT ![c] = Off]
        \/ /\ timeline[i] # "outcome"
           /\ client' = [client EXCEPT ![c].lastId = i]
           /\ wire' = [wire EXCEPT ![c] = Tail(@)]
           /\ UNCHANGED server
  /\ RunUnchanged /\ UNCHANGED <<drops, readFaults>>

ReconnectNever(c) == "done"

\* onerror leaves the source alone, so that it reconnects by itself.
Reconnect(c) == "connect"

StreamEnds(c) ==
  /\ client[c].pc = "open" /\ server[c].pc = "closed" /\ wire[c] = <<>>
  /\ client' = [client EXCEPT ![c].pc = Reconnect(c)]
  /\ server' = [server EXCEPT ![c] = Off]
  /\ RunUnchanged /\ UNCHANGED <<wire, got, shown, drops, readFaults>>

\* The connection breaks, with whatever is on its way.
Drop(c) ==
  /\ client[c].pc = "open"
  /\ drops < MaxDrops
  /\ drops' = drops + 1
  /\ client' = [client EXCEPT ![c].pc = Reconnect(c)]
  /\ server' = [server EXCEPT ![c] = Off]
  /\ wire' = [wire EXCEPT ![c] = <<>>]
  /\ RunUnchanged /\ UNCHANGED <<got, shown, readFaults>>

StreamStep(c) == List(c) \/ Send(c) \/ Check(c) \/ Tick(c)

ClientStep(c) == Connect(c) \/ Receive(c) \/ StreamEnds(c)

Next ==
  \/ \E kind \in {"progress", "worker"} : AppendEvent(kind)
  \/ Finish \/ TellOutcome
  \/ \E c \in Readers : StreamStep(c) \/ ClientStep(c) \/ Fetch(c) \/ Drop(c)

Spec == Init /\ [][Next]_vars

(***************************************************************************)
(* Fairness: the handler's loop has a ticker, the browser delivers what    *)
(* arrives and reconnects.  The run owes nothing, and nothing has to break *)
(* or fail.                                                                *)
(***************************************************************************)
FairSpec ==
  Spec /\ \A c \in Readers : WF_vars(StreamStep(c)) /\ WF_vars(ClientStep(c))

-----------------------------------------------------------------------------
(* Properties                                                              *)

\* Over all its connections a reader is sent the timeline, from its start, in
\* order, nothing twice and nothing skipped (Last-Event-ID against lastSequence).
StreamsInOrder == \A c \in Readers : \A i \in 1 .. Len(got[c]) : got[c][i] = i

\* A console that has closed its stream displays every event up to the outcome
\* that it listens to, whether it came with the first fetch or a stream.
ShownComplete ==
  \A c \in Readers : client[c].pc = "done" =>
    \E n \in 1 .. Len(timeline) :
      /\ timeline[n] = "outcome"
      /\ \A i \in 1 .. n : Listened(i) => i \in shown[c]

OutcomeShown(c) == \E i \in shown[c] : timeline[i] = "outcome"

\* An outcome in the timeline reaches every reader that has begun to look,
\* although its stream may have been closed before the event was there, or
\* because a read failed.  Only a reader whose request was answered with an
\* error goes without: it does not ask again.
OutcomeReachesReaders ==
  \A c \in Readers :
    outcome = "told" /\ client[c].pc # "fetch" ~>
      OutcomeShown(c) \/ client[c].pc = "refused"

\* The handler's loop ends once the run has, even if the event that tells of
\* it is lost.
StreamsEnd ==
  \A c \in Readers : isTerminalRunStatus ~> server[c].pc \in {"off", "closed"}
=============================================================================
