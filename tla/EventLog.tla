------------------------------ MODULE EventLog ------------------------------
(***************************************************************************)
(* The timeline of one run as Postgres keeps it: the transactions of       *)
(* store/postgres.go that write run_events or lock the run's row, one      *)
(* statement a step, at READ COMMITTED.                                    *)
(*                                                                         *)
(* Locks are Postgres's: pg_advisory_xact_lock on the run ID; on the row,  *)
(* SELECT FOR UPDATE takes "update", an UPDATE that leaves the key alone   *)
(* takes "nokeyupdate", and the foreign key of an inserted event takes     *)
(* "keyshare", which only "update" excludes.  All are held to the end of   *)
(* the transaction.  A transaction in a cycle of waiters may be chosen as  *)
(* the victim; any other may run into the five seconds of storeContext.    *)
(***************************************************************************)
EXTENDS Naturals, FiniteSets

CONSTANTS Appenders,     \* calls of AppendRunEvent
          Requests,      \* calls of RequestRunCancel
          Finishers,     \* calls of CompleteRun, CancelRun or ErrorRun
          NoCall,        \* nobody
          MaxTimeouts    \* store calls that time out

Calls == Appenders \cup Requests \cup Finishers

ASSUME EventLogAssumption ==
  /\ NoCall \notin Calls
  /\ Appenders \cap Requests = {}
  /\ Appenders \cap Finishers = {}
  /\ Requests \cap Finishers = {}
  /\ MaxTimeouts \in Nat

VARIABLES finished,   \* whether the run's status is terminal
          log,        \* committed rows of run_events
          pc,         \* the statement each call is about to make
          seq,        \* the sequence number it has read
          advisory,   \* who holds the run's advisory lock
          rowLock,    \* the lock each call holds on the run's row
          timeouts    \* store calls that have timed out

vars == <<finished, log, pc, seq, advisory, rowLock, timeouts>>

\* "lost": the call gave up, and the event it was to write with it.
Returned == {"done", "refused", "lost"}

AppendPcs == {"lock", "max", "insert", "commit"}

\* The type of every variable.
TypeOK ==
  /\ finished \in BOOLEAN
  /\ log \subseteq [seq : Nat \ {0}, by : Calls]
  /\ pc \in [Calls -> {"row", "exists", "update", "commitStatus"}
                        \cup AppendPcs \cup Returned]
  /\ seq \in [Calls -> Nat]
  /\ advisory \in Calls \cup {NoCall}
  /\ rowLock \in [Calls -> {"none", "keyshare", "nokeyupdate", "update"}]
  /\ timeouts \in 0 .. MaxTimeouts

Init ==
  /\ finished = FALSE
  /\ log = {}
  /\ pc = [c \in Calls |-> CASE c \in Requests  -> "row"
                             [] c \in Finishers -> "update"
                             [] OTHER           -> "lock"]
  /\ seq = [c \in Calls |-> 0]
  /\ advisory = NoCall
  /\ rowLock = [c \in Calls |-> "none"]
  /\ timeouts = 0

-----------------------------------------------------------------------------
(* Locks                                                                   *)

Excludes(held, wanted) ==
  CASE wanted = "update"      -> held # "none"
    [] wanted = "nokeyupdate" -> held \in {"nokeyupdate", "update"}
    [] OTHER                  -> held = "update"

\* The lock on the row that a call's next statement needs.
Wants(c) ==
  CASE pc[c] = "row"    -> "update"
    [] pc[c] = "update" -> "nokeyupdate"
    [] pc[c] = "insert" -> "keyshare"
    [] OTHER            -> "none"

WaitsForRow(c, d) ==
  d # c /\ Wants(c) # "none" /\ Excludes(rowLock[d], Wants(c))

\* UNIQUE (run_id, sequence): an insert waits for one of the same number.
WaitsForIndex(c, d) ==
  d # c /\ pc[c] = "insert" /\ pc[d] = "commit" /\ seq[d] = seq[c]

WaitsFor(c, d) ==
  \/ WaitsForRow(c, d)
  \/ WaitsForIndex(c, d)
  \/ d # c /\ pc[c] = "lock" /\ advisory = d

Waiting(c) == \E d \in Calls : WaitsFor(c, d)

Deadlocked(c) == \E d \in Calls : WaitsFor(c, d) /\ WaitsFor(d, c)

\* As with pg_advisory_lock, which outlives the transaction.
ReleasedForgetful(c) ==
  rowLock' = [rowLock EXCEPT ![c] = "none"] /\ UNCHANGED advisory

\* The end of a transaction.
Released(c) ==
  /\ rowLock' = [rowLock EXCEPT ![c] = "none"]
  /\ advisory' = IF advisory = c THEN NoCall ELSE advisory

-----------------------------------------------------------------------------
(* RequestRunCancel, up to its event                                       *)

LockRowOnly(c) ==
  /\ pc[c] = "row"
  /\ ~Waiting(c)
  /\ rowLock' = [rowLock EXCEPT ![c] = "update"]
  /\ pc' = [pc EXCEPT ![c] = "exists"]
  /\ UNCHANGED <<finished, log, seq, advisory, timeouts>>

LockRowUnlocked(c) ==
  /\ pc[c] = "row"
  /\ pc' = [pc EXCEPT ![c] = IF finished THEN "refused" ELSE "exists"]
  /\ UNCHANGED <<finished, log, seq, advisory, rowLock, timeouts>>

\* SELECT status ... FOR UPDATE, and the status check.
LockRow(c) ==
  /\ pc[c] = "row"
  /\ ~Waiting(c)
  /\ \/ /\ finished
        /\ pc' = [pc EXCEPT ![c] = "refused"]
        /\ Released(c)
     \/ /\ ~finished
        /\ pc' = [pc EXCEPT ![c] = "exists"]
        /\ rowLock' = [rowLock EXCEPT ![c] = "update"]
        /\ UNCHANGED advisory
  /\ UNCHANGED <<finished, log, seq, timeouts>>

alreadyRequested == \E e \in log : e.by \in Requests

CheckRequested(c) ==
  /\ pc[c] = "exists"
  /\ \/ /\ alreadyRequested
        /\ pc' = [pc EXCEPT ![c] = "done"]
        /\ Released(c)
     \/ /\ ~alreadyRequested
        /\ pc' = [pc EXCEPT ![c] = "lock"]
        /\ UNCHANGED <<rowLock, advisory>>
  /\ UNCHANGED <<finished, log, seq, timeouts>>

-----------------------------------------------------------------------------
(* finishRunWithReport and ErrorRun                                        *)

UpdateStatus(c) ==
  /\ pc[c] = "update"
  /\ ~Waiting(c)
  /\ \/ /\ finished
        /\ pc' = [pc EXCEPT ![c] = "refused"]
        /\ UNCHANGED rowLock
     \/ /\ ~finished
        /\ pc' = [pc EXCEPT ![c] = "commitStatus"]
        /\ rowLock' = [rowLock EXCEPT ![c] = "nokeyupdate"]
  /\ UNCHANGED <<finished, log, seq, advisory, timeouts>>

\* The status is committed before the event is begun.
CommitStatus(c) ==
  /\ pc[c] = "commitStatus"
  /\ finished' = TRUE
  /\ pc' = [pc EXCEPT ![c] = "lock"]
  /\ Released(c)
  /\ UNCHANGED <<log, seq, timeouts>>

-----------------------------------------------------------------------------
(* appendRunEvent, and the same statements at the end of RequestRunCancel  *)

AdvisoryLockMissing(c) ==
  /\ pc[c] = "lock"
  /\ pc' = [pc EXCEPT ![c] = "max"]
  /\ UNCHANGED <<finished, log, seq, advisory, rowLock, timeouts>>

AdvisoryLock(c) ==
  /\ pc[c] = "lock"
  /\ ~Waiting(c)
  /\ advisory' = c
  /\ pc' = [pc EXCEPT ![c] = "max"]
  /\ UNCHANGED <<finished, log, seq, rowLock, timeouts>>

Sequences == {e.seq : e \in log}

MaxSequence ==
  IF log = {} THEN 0
  ELSE CHOOSE m \in Sequences : \A s \in Sequences : s <= m

\* A number taken when the transaction began, as a sequence object would.
ReadMaxOfBegun(c) ==
  /\ pc[c] = "max"
  /\ seq' = [seq EXCEPT ![c] =
               1 + Cardinality({d \in Calls : seq[d] > 0})]
  /\ pc' = [pc EXCEPT ![c] = "insert"]
  /\ UNCHANGED <<finished, log, advisory, rowLock, timeouts>>

ReadMax(c) ==
  /\ pc[c] = "max"
  /\ seq' = [seq EXCEPT ![c] = MaxSequence + 1]
  /\ pc' = [pc EXCEPT ![c] = "insert"]
  /\ UNCHANGED <<finished, log, advisory, rowLock, timeouts>>

Insert(c) ==
  /\ pc[c] = "insert"
  /\ ~Waiting(c)
  /\ \/ /\ seq[c] \in Sequences
        /\ pc' = [pc EXCEPT ![c] = "lost"]
        /\ Released(c)
     \/ /\ seq[c] \notin Sequences
        /\ pc' = [pc EXCEPT ![c] = "commit"]
        /\ rowLock' = [rowLock EXCEPT ![c] = IF @ = "none" THEN "keyshare"
                                                           ELSE @]
        /\ UNCHANGED advisory
  /\ UNCHANGED <<finished, log, seq, timeouts>>

Commit(c) ==
  /\ pc[c] = "commit"
  /\ log' = log \cup {[seq |-> seq[c], by |-> c]}
  /\ pc' = [pc EXCEPT ![c] = "done"]
  /\ Released(c)
  /\ UNCHANGED <<finished, seq, timeouts>>

-----------------------------------------------------------------------------
(* A transaction that ends without its event                               *)

DeadlockVictim(c) ==
  /\ Deadlocked(c)
  /\ pc' = [pc EXCEPT ![c] = "lost"]
  /\ Released(c)
  /\ UNCHANGED <<finished, log, seq, timeouts>>

TimeOut(c) ==
  /\ pc[c] \notin Returned
  /\ timeouts < MaxTimeouts
  /\ timeouts' = timeouts + 1
  /\ pc' = [pc EXCEPT ![c] = "lost"]
  /\ Released(c)
  /\ UNCHANGED <<finished, log, seq>>

CallStep(c) ==
  \/ LockRow(c) \/ CheckRequested(c) \/ UpdateStatus(c) \/ CommitStatus(c)
  \/ AdvisoryLock(c) \/ ReadMax(c) \/ Insert(c) \/ Commit(c)
  \/ DeadlockVictim(c)

Next == \E c \in Calls : CallStep(c) \/ TimeOut(c)

Spec == Init /\ [][Next]_vars

(***************************************************************************)
(* Fairness: a statement that waits for nobody is executed, and Postgres   *)
(* breaks a deadlock after deadlock_timeout, before the five seconds are   *)
(* over.  A lock may be granted to others first, but not for ever: every   *)
(* call makes finitely many statements.                                    *)
(***************************************************************************)
FairSpec == Spec /\ \A c \in Calls : WF_vars(CallStep(c))

-----------------------------------------------------------------------------
(* Properties                                                              *)

\* The call whose event is committed under number i.
EventAt(i) ==
  IF i \in Sequences THEN (CHOOSE e \in log : e.seq = i).by ELSE NoCall

\* The committed events are a timeline: numbered from 1 without a gap at
\* every moment, and committed in the order of their numbers, so that a
\* reader that asks for what comes after its last number misses nothing.
TimelineOf == INSTANCE Timeline WITH
  timeline <- [i \in 1 .. MaxSequence |-> EventAt(i)]

TimelineSpec == TimelineOf!Spec

\* The advisory lock is taken before the maximum is read, so the number an
\* event is inserted under is free: no event is lost to the UNIQUE constraint.
NumbersAreFree ==
  \A c \in Calls : pc[c] \in {"insert", "commit"} => seq[c] \notin Sequences

\* Requests that race each other write one cancel_requested event: the row is
\* locked from before the check until after the insert.
OneRequest ==
  \A e, f \in log : e.by \in Requests /\ f.by \in Requests => e = f

\* The event that tells of an outcome is never chosen as a deadlock's victim:
\* by the time it is written the status is terminal, and RequestRunCancel lets
\* go of the row before it asks for the advisory lock.
OutcomeNeverVictim == \A c \in Finishers : ~Deadlocked(c)

\* Every call returns, whatever it has to wait for.
CallsReturn == \A c \in Calls : <>(pc[c] \in Returned)

\* PROJECT_STATUS.md: run event timelines are persistent, for request and
\* cancellation events among others.  Nothing fails here but the locks.
EventsPersisted == \A c \in Calls : pc[c] # "lost"
=============================================================================
