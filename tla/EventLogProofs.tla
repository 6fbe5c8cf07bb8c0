--------------------------- MODULE EventLogProofs ---------------------------
(***************************************************************************)
(* The theorems of EventLog: the numbers of a run's events, the single     *)
(* cancellation request, the outcome's event and the refinement of         *)
(* Timeline, for any number of calls and of timeouts.                      *)
(***************************************************************************)
EXTENDS EventLog, Sequences, TLAPS

\* The committed rows are numbered from 1 without a gap; a number and a call
\* have one row each, and a call with a row has returned.
Numbered ==
  /\ MaxSequence \in Nat /\ Sequences = 1 .. MaxSequence
  /\ \A e, f \in log : e.seq = f.seq \/ e.by = f.by => e = f
  /\ \A e \in log : pc[e.by] = "done"

\* The advisory lock is held from before the maximum is read to the end of
\* the transaction, and the number read is the next one all that time.
NumberReserved ==
  /\ \A c \in Calls : pc[c] \in {"max", "insert", "commit"} <=> advisory = c
  /\ \A c \in Calls :
       pc[c] \in {"insert", "commit"} => seq[c] = MaxSequence + 1

\* The statements a call makes are those of its method.
StatementsOf ==
  /\ \A c \in Calls : pc[c] \in {"row", "exists"} => c \in Requests
  /\ \A c \in Calls : pc[c] \in {"update", "commitStatus"} => c \in Finishers

\* A call keeps the row it has locked, FOR UPDATE excludes every other lock
\* on it, and what has not locked the row holds nothing.
RowHeld ==
  /\ \A c \in Requests : pc[c] \in {"exists"} \cup AppendPcs =>
                           rowLock[c] = "update"
  /\ \A c \in Finishers :
       /\ pc[c] = "commitStatus" => rowLock[c] = "nokeyupdate"
       /\ pc[c] \in {"update", "lock"} => rowLock[c] = "none"
  /\ \A c, d \in Calls : rowLock[c] = "update" /\ d # c =>
                           rowLock[d] = "none"

\* What was read of the run while the row was locked is still so: nobody
\* has finished it, and nobody has asked for its cancellation.
ReadStillHolds ==
  /\ \A c \in Calls : rowLock[c] = "update" => ~finished
  /\ \A c \in Requests : pc[c] \in AppendPcs => ~alreadyRequested
  /\ \A c \in Finishers : pc[c] \in AppendPcs => finished

Inv ==
  /\ TypeOK
  /\ Numbered
  /\ NumberReserved
  /\ StatementsOf
  /\ RowHeld
  /\ ReadStillHolds
  /\ OneRequest

-----------------------------------------------------------------------------
(* The maximum that appendRunEvent reads                                   *)

\* Lemma: the largest of the numbers 1 to n is n.
LEMMA MaxOfInterval ==
  ASSUME NEW n \in Nat \ {0}
  PROVE  (CHOOSE m \in 1 .. n : \A s \in 1 .. n : s <= m) = n
<1>1. n \in 1 .. n /\ \A s \in 1 .. n : s <= n
  OBVIOUS
<1>2. \A m \in 1 .. n : (\A s \in 1 .. n : s <= m) => m = n
  BY <1>1
<1>3. QED
  BY <1>1, <1>2

\* Lemma: a committed event takes the next number, and one place at the end.
LEMMA CommitGrows ==
  ASSUME TypeOK, Numbered, NumberReserved, NEW c \in Calls, Commit(c)
  PROVE  /\ seq[c] = MaxSequence + 1
         /\ Sequences' = 1 .. MaxSequence + 1
         /\ MaxSequence' = MaxSequence + 1
<1>1. MaxSequence \in Nat /\ Sequences = 1 .. MaxSequence
  BY DEF Numbered
<1>2. seq[c] = MaxSequence + 1
  BY DEF Commit, NumberReserved
<1>3. Sequences' = Sequences \cup {seq[c]}
  <2>1. log' = log \cup {[seq |-> seq[c], by |-> c]}
    BY DEF Commit
  <2>2. \A s : s \in Sequences' <=> \E e \in log' : s = e.seq
    BY DEF Sequences
  <2>3. \A s : s \in Sequences <=> \E e \in log : s = e.seq
    BY DEF Sequences
  <2>4. \A s : s \in Sequences' <=> s \in Sequences \/ s = seq[c]
    <3> DEFINE e0 == [seq |-> seq[c], by |-> c]
    <3>1. e0.seq = seq[c]
      OBVIOUS
    <3> HIDE DEF e0
    <3>2. QED
      BY <2>1, <2>2, <2>3, <3>1 DEF e0
  <2>5. QED
    BY <2>4
<1>4. Sequences' = 1 .. MaxSequence + 1
  BY <1>1, <1>2, <1>3
<1>5. log' # {}
  BY DEF Commit
<1>6. MaxSequence' = CHOOSE m \in 1 .. MaxSequence + 1 :
                       \A s \in 1 .. MaxSequence + 1 : s <= m
  BY <1>4, <1>5 DEF MaxSequence
<1>7. MaxSequence' = MaxSequence + 1
  BY <1>1, <1>6, MaxOfInterval
<1>8. QED
  BY <1>2, <1>4, <1>7

\* Lemma: what leaves run_events alone leaves its numbers alone.
LEMMA LogUnchanged ==
  ASSUME UNCHANGED log
  PROVE  /\ Sequences' = Sequences
         /\ MaxSequence' = MaxSequence
         /\ alreadyRequested' = alreadyRequested
BY DEF Sequences, MaxSequence, alreadyRequested

\* Lemma: a call whose next number is reserved does not meet it in the table.
LEMMA ReservedIsFree ==
  ASSUME Numbered, NumberReserved
  PROVE  NumbersAreFree
BY DEF Numbered, NumberReserved, NumbersAreFree

-----------------------------------------------------------------------------
(* The invariant                                                           *)

\* Lemma: a run without events and without calls satisfies the invariant.
LEMMA InvInit == Init => Inv
<1> SUFFICES ASSUME Init PROVE Inv
  OBVIOUS
<1>1. \A c \in Calls : pc[c] = CASE c \in Requests  -> "row"
                                 [] c \in Finishers -> "update"
                                 [] OTHER           -> "lock"
  BY DEF Init
<1>2. TypeOK
  <2>1. \A c \in Calls : pc[c] \in {"row", "update", "lock"}
    BY <1>1
  <2>2. pc \in [Calls -> {"row", "update", "lock"}]
    BY <2>1 DEF Init
  <2>3. pc \in [Calls -> {"row", "exists", "update", "commitStatus"}
                            \cup AppendPcs \cup Returned]
    BY <2>2 DEF AppendPcs
  <2>4. timeouts \in 0 .. MaxTimeouts
    BY EventLogAssumption DEF Init
  <2>5. QED
    BY <2>3, <2>4 DEF Init, TypeOK
<1>3. Numbered
  BY DEF Init, Numbered, Sequences, MaxSequence
<1>4. NumberReserved
  BY <1>1, EventLogAssumption DEF Init, NumberReserved
<1>5. StatementsOf
  BY <1>1 DEF StatementsOf
<1>6. RowHeld
  BY <1>1, EventLogAssumption DEF Init, RowHeld, AppendPcs, Calls
<1>7. ReadStillHolds
  BY <1>1, EventLogAssumption DEF Init, ReadStillHolds, AppendPcs, Calls
<1>8. QED
  BY <1>2, <1>3, <1>4, <1>5, <1>6, <1>7 DEF Inv, OneRequest, Init

\* Lemma: every step keeps the types.
LEMMA TypeStep ==
  ASSUME TypeOK, Numbered, NumberReserved, NEW c \in Calls,
         CallStep(c) \/ TimeOut(c)
  PROVE  TypeOK'
<1> USE DEF TypeOK, Released, AppendPcs, Returned
<1>1. CASE LockRow(c)
  BY <1>1 DEF LockRow
<1>2. CASE CheckRequested(c)
  BY <1>2 DEF CheckRequested
<1>3. CASE UpdateStatus(c)
  BY <1>3 DEF UpdateStatus
<1>4. CASE CommitStatus(c)
  BY <1>4 DEF CommitStatus
<1>5. CASE AdvisoryLock(c)
  BY <1>5 DEF AdvisoryLock
<1>6. CASE ReadMax(c)
  <2>1. MaxSequence + 1 \in Nat
    BY DEF Numbered
  <2>2. QED
    BY <1>6, <2>1 DEF ReadMax
<1>7. CASE Insert(c)
  BY <1>7 DEF Insert
<1>8. CASE Commit(c)
  <2>1. seq[c] \in Nat \ {0}
    BY <1>8 DEF Commit, NumberReserved, Numbered
  <2>2. QED
    BY <1>8, <2>1 DEF Commit
<1>9. CASE DeadlockVictim(c)
  BY <1>9 DEF DeadlockVictim
<1>10. CASE TimeOut(c)
  BY <1>10, EventLogAssumption DEF TimeOut
<1>11. QED
  BY <1>1, <1>2, <1>3, <1>4, <1>5, <1>6, <1>7, <1>8, <1>9, <1>10
  DEF CallStep

\* Lemma: every step but Commit leaves run_events alone.
LEMMA OnlyCommitWrites ==
  ASSUME NEW c \in Calls, CallStep(c) \/ TimeOut(c), ~Commit(c)
  PROVE  UNCHANGED log
BY DEF CallStep, LockRow, CheckRequested, UpdateStatus, CommitStatus,
       AdvisoryLock, ReadMax, Insert, DeadlockVictim, TimeOut

\* Lemma: a step changes the place of one call, which had not returned.
LEMMA OneCallMoves ==
  ASSUME TypeOK, NEW c \in Calls, CallStep(c) \/ TimeOut(c)
  PROVE  /\ pc[c] \notin Returned
         /\ pc' = [pc EXCEPT ![c] = pc'[c]]
         /\ \A d \in Calls : d # c => pc'[d] = pc[d]
<1>1. PICK p : pc' = [pc EXCEPT ![c] = p]
  BY DEF CallStep, LockRow, CheckRequested, UpdateStatus, CommitStatus,
         AdvisoryLock, ReadMax, Insert, Commit, DeadlockVictim, TimeOut
<1>2. pc[c] \notin Returned
  BY DEF CallStep, LockRow, CheckRequested, UpdateStatus, CommitStatus,
         AdvisoryLock, ReadMax, Insert, Commit, DeadlockVictim, TimeOut,
         Returned, Deadlocked, WaitsFor, WaitsForRow, WaitsForIndex, Wants
<1>3. QED
  BY <1>1, <1>2 DEF TypeOK

\* Lemma: every step keeps the numbering.
LEMMA NumberedStep ==
  ASSUME TypeOK, Numbered, NumberReserved, NEW c \in Calls,
         CallStep(c) \/ TimeOut(c)
  PROVE  Numbered'
<1>1. /\ pc[c] \notin Returned
      /\ \A d \in Calls : d # c => pc'[d] = pc[d]
  BY OneCallMoves
<1>2. \A e \in log : e.by \in Calls /\ e.by # c
  BY <1>1 DEF Numbered, Returned, TypeOK
<1>3. CASE Commit(c)
  <2>1. /\ seq[c] = MaxSequence + 1
        /\ Sequences' = 1 .. MaxSequence + 1
        /\ MaxSequence' = MaxSequence + 1
        /\ MaxSequence \in Nat
    BY <1>3, CommitGrows DEF Numbered
  <2>2. /\ log' = log \cup {[seq |-> seq[c], by |-> c]}
        /\ pc'[c] = "done"
    BY <1>3 DEF Commit, TypeOK
  <2>3. \A e \in log : e.seq # seq[c]
    BY <1>3, ReservedIsFree DEF NumbersAreFree, Commit, Sequences
  <2>4. \A e, f \in log' : e.seq = f.seq \/ e.by = f.by => e = f
    BY <1>2, <2>2, <2>3 DEF Numbered
  <2>5. \A e \in log' : pc'[e.by] = "done"
    BY <1>1, <1>2, <2>2 DEF Numbered
  <2>6. QED
    BY <2>1, <2>4, <2>5 DEF Numbered
<1>4. CASE ~Commit(c)
  <2>1. log' = log /\ Sequences' = Sequences /\ MaxSequence' = MaxSequence
    BY <1>4, OnlyCommitWrites, LogUnchanged
  <2>2. \A e \in log : pc'[e.by] = "done"
    BY <1>1, <1>2 DEF Numbered
  <2>3. QED
    BY <2>1, <2>2 DEF Numbered
<1>5. QED
  BY <1>3, <1>4

\* Lemma: every step keeps a reserved number reserved.
LEMMA ReservedStep ==
  ASSUME TypeOK, Numbered, NumberReserved, NEW c \in Calls,
         CallStep(c) \/ TimeOut(c)
  PROVE  NumberReserved'
<1>0. /\ \A d \in Calls : d # NoCall
      /\ \A d \in Calls : d # c => pc'[d] = pc[d]
  BY OneCallMoves, EventLogAssumption
<1>1. CASE Commit(c)
  <2>1. advisory = c /\ advisory' = NoCall /\ pc'[c] = "done"
    BY <1>1 DEF Commit, Released, NumberReserved, TypeOK
  <2>2. QED
    BY <1>0, <2>1 DEF NumberReserved
<1> SUFFICES ASSUME ~Commit(c) PROVE NumberReserved'
  BY <1>1
<1>2. MaxSequence' = MaxSequence
  BY OnlyCommitWrites, LogUnchanged
<1>3. CASE AdvisoryLock(c)
  <2>1. advisory \in {c, NoCall}
    BY <1>3 DEF AdvisoryLock, Waiting, WaitsFor, TypeOK
  <2>2. QED
    BY <1>0, <1>2, <1>3, <2>1 DEF AdvisoryLock, NumberReserved, TypeOK
<1>4. CASE ReadMax(c)
  BY <1>0, <1>2, <1>4 DEF ReadMax, NumberReserved, TypeOK
<1>5. CASE Insert(c)
  BY <1>0, <1>2, <1>5 DEF Insert, Released, NumberReserved, TypeOK
<1>6. CASE LockRow(c) \/ CheckRequested(c) \/ UpdateStatus(c)
             \/ CommitStatus(c)
  <2>1. /\ pc[c] \notin {"max", "insert", "commit"}
        /\ pc'[c] \notin {"max", "insert", "commit"}
        /\ seq' = seq
        /\ advisory' = advisory \/ advisory = c
    BY <1>6 DEF LockRow, CheckRequested, UpdateStatus, CommitStatus,
                Released, TypeOK
  <2>2. advisory # c
    BY <2>1 DEF NumberReserved
  <2>3. QED
    BY <1>0, <1>2, <2>1, <2>2 DEF NumberReserved
<1>7. CASE DeadlockVictim(c) \/ TimeOut(c)
  <2>1. /\ pc'[c] = "lost"
        /\ seq' = seq
        /\ advisory' = IF advisory = c THEN NoCall ELSE advisory
    BY <1>7 DEF DeadlockVictim, TimeOut, Released, TypeOK
  <2>2. QED
    BY <1>0, <1>2, <2>1 DEF NumberReserved
<1>8. QED
  BY <1>3, <1>4, <1>5, <1>6, <1>7 DEF CallStep

\* Lemma: every step keeps to the statements of its method.
LEMMA StatementsStep ==
  ASSUME TypeOK, StatementsOf, NEW c \in Calls, CallStep(c) \/ TimeOut(c)
  PROVE  StatementsOf'
<1>1. \A d \in Calls : d # c => pc'[d] = pc[d]
  BY OneCallMoves
<1>2. \/ pc'[c] \notin {"row", "exists", "update", "commitStatus"}
      \/ pc[c] = "row" /\ pc'[c] = "exists"
      \/ pc[c] = "update" /\ pc'[c] = "commitStatus"
  BY DEF CallStep, LockRow, CheckRequested, UpdateStatus, CommitStatus,
         AdvisoryLock, ReadMax, Insert, Commit, DeadlockVictim, TimeOut,
         TypeOK
<1>3. QED
  BY <1>1, <1>2 DEF StatementsOf

\* Lemma: every step changes the lock of one call.
LEMMA OneLockMoves ==
  ASSUME TypeOK, NEW c \in Calls, CallStep(c) \/ TimeOut(c)
  PROVE  \A d \in Calls : d # c => rowLock'[d] = rowLock[d]
BY DEF CallStep, LockRow, CheckRequested, UpdateStatus, CommitStatus,
       AdvisoryLock, ReadMax, Insert, Commit, DeadlockVictim, TimeOut,
       Released, TypeOK

\* Lemma: a lock on the row is granted only if no other call excludes it.
LEMMA Granted ==
  ASSUME TypeOK, NEW c \in Calls, ~Waiting(c)
  PROVE  /\ pc[c] = "row" => \A d \in Calls : d # c => rowLock[d] = "none"
         /\ pc[c] \in {"update", "insert"} =>
              \A d \in Calls : d # c => rowLock[d] # "update"
         /\ pc[c] = "update" =>
              \A d \in Calls : d # c => rowLock[d] # "nokeyupdate"
BY DEF Waiting, WaitsFor, WaitsForRow, Wants, Excludes

\* Lemma: every step keeps the discipline of the row's locks.
LEMMA RowHeldStep ==
  ASSUME TypeOK, StatementsOf, RowHeld, NEW c \in Calls,
         CallStep(c) \/ TimeOut(c)
  PROVE  RowHeld'
<1>0. /\ \A d \in Calls : d # c => pc'[d] = pc[d] /\ rowLock'[d] = rowLock[d]
      /\ Requests \subseteq Calls /\ Finishers \subseteq Calls
      /\ Requests \cap Finishers = {}
  BY OneCallMoves, OneLockMoves, EventLogAssumption DEF Calls
<1>1. CASE LockRow(c)
  <2>1. \/ pc'[c] = "refused" /\ rowLock'[c] = "none"
        \/ /\ pc'[c] = "exists" /\ rowLock'[c] = "update"
           /\ \A d \in Calls : d # c => rowLock[d] = "none"
    BY <1>1, Granted DEF LockRow, Released, TypeOK
  <2>2. c \in Requests
    BY <1>1 DEF LockRow, StatementsOf
  <2>3. QED
    BY <1>0, <2>1, <2>2 DEF RowHeld, AppendPcs
<1>2. CASE UpdateStatus(c)
  <2>1. /\ \/ pc'[c] = "refused" /\ rowLock'[c] = rowLock[c]
           \/ pc'[c] = "commitStatus" /\ rowLock'[c] = "nokeyupdate"
        /\ \A d \in Calls : d # c => rowLock[d] # "update"
        /\ pc[c] = "update"
    BY <1>2, Granted DEF UpdateStatus, TypeOK
  <2>2. c \in Finishers
    BY <2>1 DEF StatementsOf
  <2>3. QED
    BY <1>0, <2>1, <2>2 DEF RowHeld, AppendPcs
<1>3. CASE Insert(c)
  <2>1. /\ pc[c] = "insert"
        /\ pc'[c] = "commit" \/ pc'[c] = "lost"
        /\ \/ pc'[c] = "lost" /\ rowLock'[c] = "none"
           \/ rowLock[c] = "none" /\ rowLock'[c] = "keyshare"
           \/ rowLock'[c] = rowLock[c]
        /\ \A d \in Calls : d # c => rowLock[d] # "update"
    BY <1>3, Granted DEF Insert, Released, TypeOK
  <2>2. QED
    BY <1>0, <2>1 DEF RowHeld, AppendPcs
<1>4. CASE CommitStatus(c)
  <2>1. pc'[c] = "lock" /\ rowLock'[c] = "none" /\ c \in Finishers
    BY <1>4 DEF CommitStatus, Released, TypeOK, StatementsOf
  <2>2. QED
    BY <1>0, <2>1 DEF RowHeld, AppendPcs
<1>5. CASE \/ CheckRequested(c) \/ AdvisoryLock(c) \/ ReadMax(c)
  <2>1. \/ pc'[c] = "done" /\ rowLock'[c] = "none"
        \/ /\ pc[c] = "exists" /\ pc'[c] = "lock"
           /\ rowLock'[c] = rowLock[c]
        \/ /\ pc[c] \in AppendPcs /\ pc'[c] \in {"max", "insert"}
           /\ rowLock'[c] = rowLock[c]
    BY <1>5 DEF CheckRequested, AdvisoryLock, ReadMax, Released, TypeOK,
                AppendPcs
  <2>2. pc[c] = "exists" => c \in Requests
    BY DEF StatementsOf
  <2>3. QED
    BY <1>0, <2>1, <2>2 DEF RowHeld, AppendPcs
<1>6. CASE Commit(c) \/ DeadlockVictim(c) \/ TimeOut(c)
  <2>1. pc'[c] \in Returned /\ rowLock'[c] = "none"
    BY <1>6 DEF Commit, DeadlockVictim, TimeOut, Released, TypeOK, Returned
  <2>2. QED
    BY <1>0, <2>1 DEF RowHeld, AppendPcs, Returned
<1>7. QED
  BY <1>1, <1>2, <1>3, <1>4, <1>5, <1>6 DEF CallStep
\* Lemma: every step keeps true what a lock on the row protects.
LEMMA ReadsStep ==
  ASSUME TypeOK, StatementsOf, RowHeld, ReadStillHolds, NEW c \in Calls,
         CallStep(c) \/ TimeOut(c)
  PROVE  ReadStillHolds'
<1>0. /\ \A d \in Calls : d # c => pc'[d] = pc[d] /\ rowLock'[d] = rowLock[d]
      /\ Requests \subseteq Calls /\ Finishers \subseteq Calls
      /\ Requests \cap Finishers = {}
  BY OneCallMoves, OneLockMoves, EventLogAssumption DEF Calls
<1>1. CASE Commit(c)
  <2>1. /\ pc[c] = "commit" /\ pc'[c] = "done" /\ rowLock'[c] = "none"
        /\ finished' = finished
        /\ log' = log \cup {[seq |-> seq[c], by |-> c]}
    BY <1>1 DEF Commit, Released, TypeOK
  <2>2. ASSUME c \in Requests
        PROVE  \A d \in Requests : pc'[d] \notin AppendPcs
    BY <1>0, <2>1, <2>2 DEF RowHeld, AppendPcs
  <2>3. ASSUME c \notin Requests
        PROVE  alreadyRequested' = alreadyRequested
    BY <2>1, <2>3 DEF alreadyRequested
  <2>4. QED
    BY <1>0, <2>1, <2>2, <2>3 DEF ReadStillHolds, AppendPcs
<1> SUFFICES ASSUME ~Commit(c) PROVE ReadStillHolds'
  BY <1>1
<1>2. alreadyRequested' = alreadyRequested
  BY OnlyCommitWrites, LogUnchanged
<1>3. CASE CommitStatus(c)
  <2>1. /\ rowLock[c] = "nokeyupdate" /\ rowLock'[c] = "none"
        /\ pc'[c] = "lock" /\ finished' = TRUE /\ c \in Finishers
    BY <1>3 DEF CommitStatus, Released, TypeOK, StatementsOf, RowHeld
  <2>2. \A d \in Calls : rowLock'[d] # "update"
    BY <1>0, <2>1 DEF RowHeld
  <2>3. QED
    BY <1>0, <1>2, <2>1, <2>2 DEF ReadStillHolds
<1>4. CASE LockRow(c) \/ UpdateStatus(c)
  <2>1. /\ pc'[c] \notin AppendPcs /\ finished' = finished
        /\ rowLock'[c] = "update" => rowLock[c] = "update" \/ ~finished
    BY <1>4 DEF LockRow, UpdateStatus, Released, TypeOK, AppendPcs
  <2>2. QED
    BY <1>0, <1>2, <2>1 DEF ReadStillHolds
<1>5. CASE CheckRequested(c)
  <2>1. /\ finished' = finished /\ c \in Requests
        /\ pc'[c] \in AppendPcs => ~alreadyRequested
        /\ rowLock'[c] = "none" \/ rowLock'[c] = rowLock[c]
    BY <1>5 DEF CheckRequested, Released, TypeOK, AppendPcs, StatementsOf
  <2>2. QED
    BY <1>0, <1>2, <2>1 DEF ReadStillHolds
<1>6. CASE \/ AdvisoryLock(c) \/ ReadMax(c) \/ Insert(c)
           \/ DeadlockVictim(c) \/ TimeOut(c)
  <2>1. /\ finished' = finished
        /\ pc'[c] \in AppendPcs => pc[c] \in AppendPcs
        /\ rowLock'[c] = "update" => rowLock[c] = "update"
    BY <1>6 DEF AdvisoryLock, ReadMax, Insert, DeadlockVictim, TimeOut,
                Released, TypeOK, AppendPcs
  <2>2. QED
    BY <1>0, <1>2, <2>1 DEF ReadStillHolds
<1>7. QED
  BY <1>3, <1>4, <1>5, <1>6 DEF CallStep

\* Lemma: every step keeps the request for cancellation the only one.
LEMMA OneRequestStep ==
  ASSUME TypeOK, ReadStillHolds, OneRequest, NEW c \in Calls,
         CallStep(c) \/ TimeOut(c)
  PROVE  OneRequest'
<1>1. CASE Commit(c)
  <2>1. log' = log \cup {[seq |-> seq[c], by |-> c]}
    BY <1>1 DEF Commit
  <2>2. c \in Requests => \A e \in log : e.by \notin Requests
    BY <1>1 DEF Commit, ReadStillHolds, AppendPcs, alreadyRequested
  <2>3. QED
    BY <2>1, <2>2 DEF OneRequest
<1>2. CASE ~Commit(c)
  BY <1>2, OnlyCommitWrites DEF OneRequest
<1>3. QED
  BY <1>1, <1>2

\* Lemma: Inv is inductive.
LEMMA InvNext == Inv /\ [Next]_vars => Inv'
<1> SUFFICES ASSUME Inv, [Next]_vars PROVE Inv'
  OBVIOUS
<1>1. CASE Next
  <2>1. PICK c \in Calls : CallStep(c) \/ TimeOut(c)
    BY <1>1 DEF Next
  <2>2. QED
    BY <2>1, TypeStep, NumberedStep, ReservedStep, StatementsStep,
       RowHeldStep, ReadsStep, OneRequestStep
    DEF Inv
<1>2. CASE UNCHANGED vars
  BY <1>2, SMTT(20)
  DEF vars, Inv, TypeOK, Numbered, NumberReserved, StatementsOf, RowHeld,
      ReadStillHolds, OneRequest, Sequences, MaxSequence, alreadyRequested
<1>3. QED
  BY <1>1, <1>2

-----------------------------------------------------------------------------
(* Theorems                                                                *)

\* Theorem: the variables keep their types.
THEOREM TypeCorrect == Spec => []TypeOK
<1>1. Inv => TypeOK
  BY DEF Inv
<1>2. QED
  BY <1>1, InvInit, InvNext, PTL DEF Spec

\* Theorem: however appendRunEvent's transactions interleave, time out or
\* deadlock, none is refused by UNIQUE (run_id, sequence).
THEOREM NumbersStayFree == Spec => []NumbersAreFree
<1>1. Inv => NumbersAreFree
  BY ReservedIsFree DEF Inv
<1>2. QED
  BY <1>1, InvInit, InvNext, PTL DEF Spec

\* Theorem: any number of RequestRunCancel calls write one event.
THEOREM OneRequestWritten == Spec => []OneRequest
<1>1. Inv => OneRequest
  BY DEF Inv
<1>2. QED
  BY <1>1, InvInit, InvNext, PTL DEF Spec

\* Lemma: while a call that writes an outcome's event waits for the row or for
\* the advisory lock it holds nothing, and at the insert it has nobody to wait
\* for: the run is finished, so no request has the row FOR UPDATE.
LEMMA OutcomeIsLast ==
  ASSUME Inv
  PROVE  OutcomeNeverVictim
<1> SUFFICES ASSUME NEW c \in Finishers, NEW d \in Calls,
                    WaitsFor(c, d), WaitsFor(d, c)
             PROVE  FALSE
  BY DEF OutcomeNeverVictim, Deadlocked
<1>1. c \in Calls /\ c \notin Requests /\ d # c
  BY EventLogAssumption DEF Calls, WaitsFor, WaitsForRow, WaitsForIndex
<1>2. pc[c] \in {"update", "insert", "lock"}
  BY <1>1 DEF WaitsFor, WaitsForRow, WaitsForIndex, Wants, Inv, StatementsOf
<1>3. CASE pc[c] \in {"update", "lock"}
  <2>1. rowLock[c] = "none" /\ advisory # c /\ pc[c] # "commit"
    BY <1>1, <1>3 DEF Inv, RowHeld, NumberReserved
  <2>2. QED
    BY <2>1 DEF WaitsFor, WaitsForRow, WaitsForIndex, Excludes
<1>4. CASE pc[c] = "insert"
  <2>1. finished
    BY <1>4 DEF Inv, ReadStillHolds, AppendPcs
  <2>2. rowLock[d] # "update"
    BY <2>1 DEF Inv, ReadStillHolds
  <2>3. pc[d] # "commit"
    BY <1>1, <1>4 DEF Inv, NumberReserved
  <2>4. QED
    BY <1>4, <2>2, <2>3
    DEF WaitsFor, WaitsForRow, WaitsForIndex, Wants, Excludes
<1>5. QED
  BY <1>2, <1>3, <1>4

\* Theorem: Postgres never breaks a deadlock by giving up the event that
\* tells of the outcome of a run.
THEOREM OutcomeKept == Spec => []OutcomeNeverVictim
<1>1. Inv => OutcomeNeverVictim
  BY OutcomeIsLast
<1>2. QED
  BY <1>1, InvInit, InvNext, PTL DEF Spec

-----------------------------------------------------------------------------
(* The refinement of Timeline                                              *)

\* The timeline that the committed rows stand for.
Events == [i \in 1 .. MaxSequence |-> EventAt(i)]

\* Lemma: the timeline is a sequence of calls.
LEMMA EventsType ==
  ASSUME TypeOK, Numbered
  PROVE  /\ Events \in Seq(Calls)
         /\ Len(Events) = MaxSequence
         /\ \A i \in 1 .. MaxSequence : \E e \in log :
              e.seq = i /\ EventAt(i) = e.by
<1>1. MaxSequence \in Nat /\ Sequences = 1 .. MaxSequence
  BY DEF Numbered
<1>2. ASSUME NEW i \in 1 .. MaxSequence
      PROVE  \E e \in log : e.seq = i /\ EventAt(i) = e.by
  <2>1. i \in Sequences
    BY <1>1
  <2>2. PICK e \in log : e.seq = i
    BY <2>1 DEF Sequences
  <2>3. (CHOOSE f \in log : f.seq = i) \in {f \in log : f.seq = i}
    BY <2>2
  <2>4. QED
    BY <2>1, <2>3 DEF EventAt
<1>3. \A i \in 1 .. MaxSequence : EventAt(i) \in Calls
  BY <1>2 DEF TypeOK
<1>4. Events \in [1 .. MaxSequence -> Calls]
  BY <1>3 DEF Events
<1>5. QED
  BY <1>1, <1>2, <1>4 DEF Events

\* Lemma: a committed event is appended to the timeline.
LEMMA CommitAppends ==
  ASSUME Inv, NEW c \in Calls, Commit(c)
  PROVE  TimelineOf!AppendEvent(c)
<1>1. /\ seq[c] = MaxSequence + 1
      /\ Sequences' = 1 .. MaxSequence + 1
      /\ MaxSequence' = MaxSequence + 1
      /\ MaxSequence \in Nat /\ Sequences = 1 .. MaxSequence
  BY CommitGrows DEF Inv, Numbered
<1>2. /\ log' = log \cup {[seq |-> seq[c], by |-> c]}
      /\ pc[c] = "commit"
  BY DEF Commit
<1>3. Events \in Seq(Calls) /\ Len(Events) = MaxSequence
  BY EventsType DEF Inv
<1>4. Numbered'
  BY NumberedStep DEF Inv, CallStep
<1>5. ASSUME NEW i \in 1 .. MaxSequence
      PROVE  EventAt(i)' = EventAt(i) /\ EventAt(i) # c
  <2>1. PICK e \in log : e.seq = i /\ EventAt(i) = e.by
    BY EventsType DEF Inv
  <2>2. (CHOOSE f \in log' : f.seq = i) = e
    BY <1>2, <1>4, <2>1 DEF Numbered
  <2>3. i \in Sequences'
    BY <1>1
  <2>4. EventAt(i)' = e.by
    BY <2>2, <2>3 DEF EventAt
  <2>5. pc[e.by] = "done"
    BY DEF Inv, Numbered
  <2>6. QED
    BY <1>2, <2>1, <2>4, <2>5
<1>6. ASSUME NEW i, i = MaxSequence + 1
      PROVE  EventAt(i)' = c
  <2> DEFINE e == [seq |-> seq[c], by |-> c]
  <2>1. e \in log' /\ e.seq = i /\ e.by = c
    BY <1>1, <1>2, <1>6
  <2> HIDE DEF e
  <2>2. (CHOOSE f \in log' : f.seq = i) = e
    BY <1>4, <2>1 DEF Numbered
  <2>3. i \in Sequences'
    BY <1>1, <1>6
  <2>4. QED
    BY <2>1, <2>2, <2>3 DEF EventAt
<1>7. Events' = Append(Events, c)
  <2>1. Events' = [i \in 1 .. MaxSequence + 1 |-> EventAt(i)']
    BY <1>1 DEF Events
  <2>2. \A i \in 1 .. MaxSequence : Events'[i] = Events[i]
    BY <1>1, <1>5, <2>1 DEF Events
  <2>3. Events'[MaxSequence + 1] = c
    BY <1>1, <1>6, <2>1
  <2>4. /\ DOMAIN Append(Events, c) = 1 .. MaxSequence + 1
        /\ \A i \in 1 .. MaxSequence : Append(Events, c)[i] = Events[i]
        /\ Append(Events, c)[MaxSequence + 1] = c
        /\ Append(Events, c) \in Seq(Calls)
    BY <1>1, <1>3
  <2>5. \A i \in 1 .. MaxSequence + 1 : Events'[i] = Append(Events, c)[i]
    BY <1>1, <2>2, <2>3, <2>4
  <2>6. \A f \in Seq(Calls) : f = [i \in DOMAIN f |-> f[i]]
    OBVIOUS
  <2>7. QED
    BY <1>1, <2>1, <2>4, <2>5, <2>6
<1>8. \A i \in 1 .. Len(Events) : Events[i] # c
  BY <1>3, <1>5 DEF Events
<1>9. QED
  BY <1>7, <1>8 DEF Events, TimelineOf!AppendEvent

\* Theorem: the committed rows of run_events implement Timeline, so that a
\* reader which asks for what comes after its last number misses no event.
THEOREM ImplementsTimeline == Spec => TimelineSpec
<1>1. Init => TimelineOf!Init
  BY DEF Init, TimelineOf!Init, MaxSequence
<1>2. Inv /\ [Next]_vars => [TimelineOf!Next]_Events
  <2> SUFFICES ASSUME Inv, [Next]_vars PROVE [TimelineOf!Next]_Events
    OBVIOUS
  <2>1. CASE UNCHANGED log
    BY <2>1 DEF Events, MaxSequence, EventAt, Sequences
  <2>2. CASE \E c \in Calls : Commit(c)
    BY <2>2, CommitAppends DEF TimelineOf!Next
  <2>3. QED
    BY <2>1, <2>2, OnlyCommitWrites DEF Next, vars
<1>3. QED
  BY <1>1, <1>2, InvInit, InvNext, PTL DEF Spec, TimelineSpec,
     TimelineOf!Spec, Events
=============================================================================
