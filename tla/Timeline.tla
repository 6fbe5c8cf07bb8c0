------------------------------ MODULE Timeline ------------------------------
(***************************************************************************)
(* What GET /v1/runs/{id}/events promises: a run's timeline only ever grows *)
(* at its end, and a call adds one event at most.  A reader that remembers *)
(* the sequence number of the last event it has seen has seen all before.  *)
(***************************************************************************)
EXTENDS Naturals, Sequences

CONSTANT Calls       \* calls that add an event

VARIABLE timeline    \* the events in order: position i has sequence i

Init == timeline = <<>>

AppendEvent(c) ==
  /\ \A i \in 1 .. Len(timeline) : timeline[i] # c
  /\ timeline' = Append(timeline, c)

Next == \E c \in Calls : AppendEvent(c)

Spec == Init /\ [][Next]_timeline
=============================================================================
