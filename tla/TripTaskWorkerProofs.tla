------------------------ MODULE TripTaskWorkerProofs ------------------------
(***************************************************************************)
(* Proofs about the task queue.  The tables of TripTaskStore, for any number*)
(* of tasks, workers, users, keys and requests, either backend, and callers*)
(* that call anything at any time; then TripTaskWorker: the workers, their *)
(* heartbeats and the clients use the tables as TripTaskStore allows, a    *)
(* client sees the life TaskLifecycle promises, and, as long as no lease   *)
(* lapses under a process that renews it, a task has one executor and one  *)
(* consistent checkpoint.                                                  *)
(***************************************************************************)
EXTENDS TripTaskWorker, FiniteSetTheorems, TLAPS

-----------------------------------------------------------------------------
(* The tables.                                                             *)

LEMMA TerminalEventsAre ==
    /\ TerminalEvents = {"task_succeeded", "task_failed", "task_cancelled", "task_timed_out"}
    /\ \A s \in Terminal : TerminalEvent(s) \in TerminalEvents
BY DEF TerminalEvents, TerminalEvent, Terminal

LEMMA DrawnInNat == Cardinality(Drawn) \in Nat
<1>1. Drawn \subseteq Tasks
  BY DEF Drawn
<1> QED
  BY <1>1, TasksAssumption, FS_Subset, FS_CardinalityType

\* A transaction that writes a well-formed row and event keeps the types.
LEMMA CommitType ==
    ASSUME TypeOK, NEW t \in Tasks, NEW row \in Rows, NEW type \in EventTypes,
           NEW by \in Workers \cup {None}, Commit(t, row, type, by)
    PROVE  TypeOK'
<1>1. row.progress \in 0..100
  BY DEF Rows
<1>2. [type |-> type, progress |-> row.progress, by |-> by] \in Events
  BY <1>1 DEF Events
<1>3. tasks' \in [Tasks -> Rows]
  BY DEF TypeOK, Commit
<1>4. events' \in [Tasks -> Seq(Events)]
  BY <1>2 DEF TypeOK, Commit
<1> QED
  BY <1>3, <1>4 DEF TypeOK

\* What each transaction writes, one fact per operation, for use below.
LEMMA AbsentRowType == AbsentRow \in Rows
BY DEF AbsentRow, Rows, Statuses

LEMMA RowUpdates ==
    ASSUME NEW r \in Rows
    PROVE  /\ \A x \in Statuses : [r EXCEPT !.status = x] \in Rows
           /\ \A x \in Workers \cup {None} : [r EXCEPT !.worker = x] \in Rows
           /\ \A x \in {"none", "valid", "expired"} : [r EXCEPT !.lease = x] \in Rows
           /\ \A x \in Nat : [r EXCEPT !.attempt = x] \in Rows
           /\ \A x \in Nat : [r EXCEPT !.recoveries = x] \in Rows
           /\ \A x \in 0..100 : [r EXCEPT !.progress = x] \in Rows
           /\ \A x \in BOOLEAN : [r EXCEPT !.cancel = x] \in Rows
<1>1. \A x \in Statuses : [r EXCEPT !.status = x] \in Rows
  BY Zenon DEF Rows
<1>2. \A x \in Workers \cup {None} : [r EXCEPT !.worker = x] \in Rows
  BY Zenon DEF Rows
<1>3. \A x \in {"none", "valid", "expired"} : [r EXCEPT !.lease = x] \in Rows
  BY Zenon DEF Rows
<1>4. \A x \in Nat : [r EXCEPT !.attempt = x] \in Rows
  BY Zenon DEF Rows
<1>5. \A x \in Nat : [r EXCEPT !.recoveries = x] \in Rows
  BY Zenon DEF Rows
<1>6. \A x \in 0..100 : [r EXCEPT !.progress = x] \in Rows
  BY Zenon DEF Rows
<1>7. \A x \in BOOLEAN : [r EXCEPT !.cancel = x] \in Rows
  BY Zenon DEF Rows
<1> QED
  BY <1>1, <1>2, <1>3, <1>4, <1>5, <1>6, <1>7

LEMMA InitType == Init => TypeOK
BY AbsentRowType DEF Init, TypeOK

LEMMA NextType == TypeOK /\ [Next]_storeVars => TypeOK'
<1> SUFFICES ASSUME TypeOK, [Next]_storeVars
             PROVE  TypeOK'
  OBVIOUS
<1> USE DEF EventTypes, ClaimEvents, ProgressEvents
<1>row. \A t \in Tasks : tasks[t] \in Rows
  BY DEF TypeOK
<1>1. ASSUME NEW t \in Tasks, NEW u \in Users, NEW k \in Keys, NEW f \in Requests,
             CreateTask(t, u, k, f)
      PROVE  TypeOK'
  <2> DEFINE row == [AbsentRow EXCEPT !.status = "queued", !.user = u, !.key = k,
                                      !.fp = f, !.created = Cardinality(Drawn)]
  <2>1. row \in Rows
    BY DrawnInNat, AbsentRowType DEF Rows, Statuses, Active
  <2> QED
    BY <1>1, <2>1, CommitType DEF CreateTask
<1>2. ASSUME NEW t \in Tasks, RequestCancel(t)
      PROVE  TypeOK'
  <2>1. CASE tasks[t].status = "queued"
    <3> DEFINE row == [tasks[t] EXCEPT !.cancel = TRUE, !.status = "cancelled",
                                       !.worker = None, !.lease = "none"]
    <3>a. [tasks[t] EXCEPT !.cancel = TRUE] \in Rows
      BY <1>row, RowUpdates
    <3>b. [tasks[t] EXCEPT !.cancel = TRUE, !.status = "cancelled"] \in Rows
      BY <3>a, RowUpdates DEF Statuses, Terminal
    <3>c. [tasks[t] EXCEPT !.cancel = TRUE, !.status = "cancelled", !.worker = None] \in Rows
      BY <3>b, RowUpdates
    <3>1. row \in Rows
      BY <3>c, RowUpdates
    <3> QED
      BY <1>2, <2>1, <3>1, CommitType, TerminalEventsAre DEF RequestCancel
  <2>2. CASE tasks[t].status # "queued"
    <3> DEFINE row == [tasks[t] EXCEPT !.cancel = TRUE]
    <3>1. row \in Rows
      BY <1>row, RowUpdates
    <3> QED
      BY <1>2, <2>2, <3>1, CommitType DEF RequestCancel
  <2> QED
    BY <2>1, <2>2
<1>3. ASSUME NEW t \in Tasks, DeleteTask(t)
      PROVE  TypeOK'
  <2>1. [AbsentRow EXCEPT !.status = "deleted"] \in Rows
    BY AbsentRowType DEF Rows, Statuses
  <2>2. <<>> \in Seq(Events)
    OBVIOUS
  <2>3. /\ tasks \in [Tasks -> Rows]
        /\ events \in [Tasks -> Seq(Events)]
    BY DEF TypeOK
  <2> HIDE DEF EventTypes
  <2>4. /\ tasks' \in [Tasks -> Rows]
        /\ events' \in [Tasks -> Seq(Events)]
    BY <1>3, <2>1, <2>2, <2>3, Zenon DEF DeleteTask
  <2> QED
    BY <2>4 DEF TypeOK
<1>4. ASSUME NEW t \in Tasks, NEW w \in Workers, ClaimNext(w, t)
      PROVE  TypeOK'
  <2> DEFINE recovering == tasks[t].status = "running"
             att == tasks[t].attempt + 1
             rec == tasks[t].recoveries + (IF recovering THEN 1 ELSE 0)
             prog == Larger(tasks[t].progress, 1)
             row == [tasks[t] EXCEPT !.status = "running", !.worker = w, !.lease = "valid",
                                     !.attempt = att, !.recoveries = rec, !.progress = prog]
             type == IF recovering THEN "task_recovered" ELSE "task_started"
  <2>a. att \in Nat /\ rec \in Nat /\ prog \in 0..100
    BY <1>row DEF Rows, Larger
  <2>z. Commit(t, row, type, w)
    BY <1>4 DEF ClaimNext
  <2> HIDE DEF att, rec, prog
  <2>b. [tasks[t] EXCEPT !.status = "running"] \in Rows
    BY <1>row, RowUpdates DEF Statuses, Active
  <2>c. [tasks[t] EXCEPT !.status = "running", !.worker = w] \in Rows
    BY <2>b, RowUpdates
  <2>d. [tasks[t] EXCEPT !.status = "running", !.worker = w, !.lease = "valid"] \in Rows
    BY <2>c, RowUpdates
  <2>e. [tasks[t] EXCEPT !.status = "running", !.worker = w, !.lease = "valid",
                         !.attempt = att] \in Rows
    BY <2>a, <2>d, RowUpdates
  <2>f. [tasks[t] EXCEPT !.status = "running", !.worker = w, !.lease = "valid",
                         !.attempt = att, !.recoveries = rec] \in Rows
    BY <2>a, <2>e, RowUpdates
  <2>1. row \in Rows
    BY <2>a, <2>f, RowUpdates
  <2> HIDE DEF row
  <2> QED
    BY <2>1, <2>z, CommitType
<1>5. ASSUME NEW t \in Tasks, NEW w \in Workers, Heartbeat(t, w)
      PROVE  TypeOK'
  <2>1. [tasks[t] EXCEPT !.lease = "valid"] \in Rows
    BY <1>row DEF Rows
  <2> QED
    BY <1>5, <2>1 DEF Heartbeat, TypeOK
<1>6. ASSUME NEW t \in Tasks, NEW w \in Workers, NEW type \in ProgressEvents,
             NEW mark \in Marks, RecordProgress(t, w, type, mark)
      PROVE  TypeOK'
  <2> DEFINE row == [tasks[t] EXCEPT !.progress = Larger(@, Smaller(99, mark))]
  <2>1. mark \in 0..100
    BY MarksAssumption
  <2>2. row \in Rows
    BY <1>row, <2>1 DEF Rows, Larger, Smaller
  <2>3. Commit(t, row, type, w)
    BY <1>6 DEF RecordProgress
  <2> HIDE DEF row
  <2> QED
    BY <2>2, <2>3, CommitType
<1>7. ASSUME NEW t \in Tasks, NEW w \in Workers, NEW status \in Terminal,
             MarkTerminal(t, w, status)
      PROVE  TypeOK'
  <2> DEFINE row == [tasks[t] EXCEPT !.status = status, !.worker = None, !.lease = "none",
                                     !.progress = IF status = "succeeded" THEN 100 ELSE @]
  <2>a. 100 \in 0..100
    OBVIOUS
  <2>b. [tasks[t] EXCEPT !.status = status] \in Rows
    BY <1>row, RowUpdates DEF Statuses
  <2>c. [tasks[t] EXCEPT !.status = status, !.worker = None] \in Rows
    BY <2>b, RowUpdates
  <2>d. [tasks[t] EXCEPT !.status = status, !.worker = None, !.lease = "none"] \in Rows
    BY <2>c, RowUpdates
  <2>e. (IF status = "succeeded" THEN 100 ELSE tasks[t].progress) \in 0..100
    BY <1>row DEF Rows
  <2>1. row \in Rows
    BY <2>d, <2>e, RowUpdates
  <2>2. Commit(t, row, TerminalEvent(status), w)
    BY <1>7 DEF MarkTerminal
  <2> HIDE DEF row
  <2> QED
    BY <2>1, <2>2, CommitType, TerminalEventsAre
<1>8. ASSUME NEW t \in Tasks, LeaseExpires(t)
      PROVE  TypeOK'
  <2>1. [tasks[t] EXCEPT !.lease = "expired"] \in Rows
    BY <1>row DEF Rows
  <2> QED
    BY <1>8, <2>1 DEF LeaseExpires, TypeOK
<1>9. CASE UNCHANGED storeVars
  BY <1>9 DEF storeVars, TypeOK
<1> QED
  BY <1>1, <1>2, <1>3, <1>4, <1>5, <1>6, <1>7, <1>8, <1>9
     DEF Next, ClientNext, WorkerNext

\* Every row and every event of the two tables stays well formed.
THEOREM StoreTypeCorrect == Spec => []TypeOK
BY InitType, NextType, PTL DEF Spec

----------------------------------------------------------------------------
(* Every transaction that logs an event is sound in the sense below, given   *)
(* the types and OwnedIffRunning; the invariants on rows and logs then need  *)
(* no case distinction on operations.                                       *)

SameIdentity(r, s) == r.user = s.user /\ r.key = s.key /\ r.fp = s.fp

SoundRow(row) ==
    /\ row \in Rows
    /\ row.status \notin {"absent", "deleted"}
    /\ row.status = "running" <=> row.worker # None
    /\ row.status = "running" <=> row.lease # "none"
    /\ row.status = "queued" => row.attempt = 0

SoundWrite(t, row, type, by) ==
    /\ SoundRow(row)
    /\ type \in EventTypes
    /\ by \in Workers \cup {None}
    /\ tasks[t].status \in Active \cup {"absent"}
    /\ tasks[t].progress <= row.progress
    /\ type \in TerminalEvents =>
          row.status \in Terminal /\ type = TerminalEvent(row.status)
    /\ row.status \in Terminal => type \in TerminalEvents
    /\ type \in ClaimEvents => row.worker = by
    /\ type \notin ClaimEvents /\ by # None => tasks[t].worker = by
    /\ type \notin ClaimEvents /\ row.worker # None => tasks[t].worker = row.worker
    /\ \/ tasks[t].status \in Active /\ SameIdentity(row, tasks[t])
       \/ /\ tasks[t].status = "absent"
          /\ KeyHits(row.user, row.key) = {}
          /\ ActiveHits(row.user, row.fp) = {}

\* The steps that log nothing only move a lease of a running row.
LeaseOnly ==
    /\ UNCHANGED events
    /\ \A s \in Tasks :
          \/ tasks'[s] = tasks[s]
          \/ /\ tasks[s].status = "running"
             /\ \E x \in {"valid", "expired"} : tasks'[s] = [tasks[s] EXCEPT !.lease = x]

LEMMA CreateSound ==
    ASSUME TypeOK, UnbornEmpty, NEW t \in Tasks,
           NEW u \in Users, NEW k \in Keys, NEW f \in Requests, CreateTask(t, u, k, f)
    PROVE  \E row, type, by : Commit(t, row, type, by) /\ SoundWrite(t, row, type, by)
<1> DEFINE row == [AbsentRow EXCEPT !.status = "queued", !.user = u, !.key = k,
                                    !.fp = f, !.created = Cardinality(Drawn)]
<1>1. row \in Rows
  BY DrawnInNat, AbsentRowType DEF Rows, Statuses, Active
<1>2. /\ row.status = "queued" /\ row.worker = None /\ row.lease = "none"
      /\ row.attempt = 0 /\ row.progress = 0
      /\ row.user = u /\ row.key = k /\ row.fp = f
  BY DEF AbsentRow
<1>3. tasks[t].status = "absent" /\ tasks[t].progress = 0
  BY DEF CreateTask, UnbornEmpty
<1>4. Commit(t, row, "task_queued", None)
  BY DEF CreateTask
<1>5. KeyHits(u, k) = {} /\ ActiveHits(u, f) = {}
  BY DEF CreateTask
<1> HIDE DEF row
<1>6. SoundRow(row)
  BY <1>1, <1>2 DEF SoundRow
<1>7. SoundWrite(t, row, "task_queued", None)
  BY <1>2, <1>3, <1>5, <1>6, TerminalEventsAre
     DEF SoundWrite, EventTypes, ClaimEvents, Terminal
<1> QED
  BY <1>4, <1>7

LEMMA CancelSound ==
    ASSUME TypeOK, OwnedIffRunning, NEW t \in Tasks, RequestCancel(t)
    PROVE  \E row, type, by : Commit(t, row, type, by) /\ SoundWrite(t, row, type, by)
<1>0. tasks[t] \in Rows /\ tasks[t].status \in Active
  BY DEF TypeOK, RequestCancel
<1>1. CASE tasks[t].status = "queued"
  <2> DEFINE row == [tasks[t] EXCEPT !.cancel = TRUE, !.status = "cancelled",
                                     !.worker = None, !.lease = "none"]
  <2>a. [tasks[t] EXCEPT !.cancel = TRUE] \in Rows
    BY <1>0, RowUpdates
  <2>b. [tasks[t] EXCEPT !.cancel = TRUE, !.status = "cancelled"] \in Rows
    BY <2>a, RowUpdates DEF Statuses, Terminal
  <2>c. [tasks[t] EXCEPT !.cancel = TRUE, !.status = "cancelled", !.worker = None] \in Rows
    BY <2>b, RowUpdates
  <2>1. row \in Rows
    BY <2>c, RowUpdates
  <2>2. /\ row.status = "cancelled" /\ row.worker = None /\ row.lease = "none"
        /\ row.progress = tasks[t].progress /\ SameIdentity(row, tasks[t])
    BY <1>0 DEF Rows, SameIdentity
  <2>3. Commit(t, row, "task_cancelled", None)
    BY <1>1 DEF RequestCancel
  <2> HIDE DEF row
  <2>4. SoundRow(row)
    BY <2>1, <2>2 DEF SoundRow
  <2>5. tasks[t].progress <= row.progress
    BY <1>0, <2>2 DEF Rows
  <2>6. SoundWrite(t, row, "task_cancelled", None)
    BY <1>0, <2>2, <2>4, <2>5, TerminalEventsAre
       DEF SoundWrite, EventTypes, ClaimEvents, Terminal, TerminalEvent
  <2> QED
    BY <2>3, <2>6
<1>2. CASE tasks[t].status # "queued"
  <2> DEFINE row == [tasks[t] EXCEPT !.cancel = TRUE]
  <2>1. row \in Rows
    BY <1>0, RowUpdates
  <2>2. /\ row.status = tasks[t].status /\ row.worker = tasks[t].worker
        /\ row.lease = tasks[t].lease
        /\ row.progress = tasks[t].progress /\ SameIdentity(row, tasks[t])
    BY <1>0 DEF Rows, SameIdentity
  <2>3. Commit(t, row, "cancellation_requested", None)
    BY <1>2 DEF RequestCancel
  <2>4. tasks[t].status = "running"
    BY <1>0, <1>2 DEF Active
  <2>5. tasks[t].worker # None /\ tasks[t].lease # "none"
    BY <2>4 DEF OwnedIffRunning
  <2> HIDE DEF row
  <2>6. SoundRow(row)
    BY <2>1, <2>2, <2>4, <2>5 DEF SoundRow
  <2>7. tasks[t].progress <= row.progress
    BY <1>0, <2>2 DEF Rows
  <2>8. SoundWrite(t, row, "cancellation_requested", None)
    BY <1>0, <2>2, <2>4, <2>6, <2>7, TerminalEventsAre
       DEF SoundWrite, EventTypes, ClaimEvents, Terminal
  <2> QED
    BY <2>3, <2>8
<1> QED
  BY <1>1, <1>2

LEMMA ClaimSound ==
    ASSUME TypeOK, NEW t \in Tasks, NEW w \in Workers, ClaimNext(w, t)
    PROVE  \E row, type, by : Commit(t, row, type, by) /\ SoundWrite(t, row, type, by)
<1> DEFINE recovering == tasks[t].status = "running"
           att == tasks[t].attempt + 1
           rec == tasks[t].recoveries + (IF recovering THEN 1 ELSE 0)
           prog == Larger(tasks[t].progress, 1)
           row == [tasks[t] EXCEPT !.status = "running", !.worker = w, !.lease = "valid",
                                   !.attempt = att, !.recoveries = rec, !.progress = prog]
           type == IF recovering THEN "task_recovered" ELSE "task_started"
<1>0. tasks[t] \in Rows /\ tasks[t].status \in Active
  BY DEF TypeOK, ClaimNext, MayPick, Claimable, Active
<1>a. att \in Nat /\ rec \in Nat /\ prog \in 0..100 /\ tasks[t].progress <= prog
  BY <1>0 DEF Rows, Larger
<1>z. Commit(t, row, type, w)
  BY DEF ClaimNext
<1> HIDE DEF att, rec, prog
<1>b. [tasks[t] EXCEPT !.status = "running"] \in Rows
  BY <1>0, RowUpdates DEF Statuses, Active
<1>c. [tasks[t] EXCEPT !.status = "running", !.worker = w] \in Rows
  BY <1>b, RowUpdates
<1>d. [tasks[t] EXCEPT !.status = "running", !.worker = w, !.lease = "valid"] \in Rows
  BY <1>c, RowUpdates
<1>e. [tasks[t] EXCEPT !.status = "running", !.worker = w, !.lease = "valid",
                       !.attempt = att] \in Rows
  BY <1>a, <1>d, RowUpdates
<1>f. [tasks[t] EXCEPT !.status = "running", !.worker = w, !.lease = "valid",
                       !.attempt = att, !.recoveries = rec] \in Rows
  BY <1>a, <1>e, RowUpdates
<1>1. row \in Rows
  BY <1>a, <1>f, RowUpdates
<1>2. /\ row.status = "running" /\ row.worker = w /\ row.lease = "valid"
      /\ row.progress = prog /\ SameIdentity(row, tasks[t])
  BY <1>0 DEF Rows, SameIdentity
<1>3. type \in ClaimEvents
  BY DEF ClaimEvents
<1> HIDE DEF row, type
<1>4. w # None
  BY NoneAssumption
<1>5. SoundRow(row)
  BY <1>1, <1>2, <1>4 DEF SoundRow
<1>6. SoundWrite(t, row, type, w)
  BY <1>0, <1>a, <1>2, <1>3, <1>5, TerminalEventsAre
     DEF SoundWrite, EventTypes, ClaimEvents, Terminal
<1> QED
  BY <1>z, <1>6

LEMMA ProgressSound ==
    ASSUME TypeOK, OwnedIffRunning, NEW t \in Tasks, NEW w \in Workers,
           NEW type \in ProgressEvents, NEW mark \in 0..100, RecordProgress(t, w, type, mark)
    PROVE  \E row, by : Commit(t, row, type, by) /\ SoundWrite(t, row, type, by)
<1> DEFINE prog == Larger(tasks[t].progress, Smaller(99, mark))
           row == [tasks[t] EXCEPT !.progress = prog]
<1>0. /\ tasks[t] \in Rows
      /\ tasks[t].status = "running" /\ tasks[t].worker = w /\ tasks[t].lease = "valid"
  BY DEF TypeOK, RecordProgress, HasValidLease
<1>1. prog \in 0..100 /\ tasks[t].progress <= prog
  BY <1>0 DEF Rows, Larger, Smaller
<1>2. Commit(t, row, type, w)
  BY DEF RecordProgress
<1> HIDE DEF prog
<1>3. row \in Rows
  BY <1>0, <1>1, RowUpdates
<1>4. /\ row.status = "running" /\ row.worker = w /\ row.lease = "valid"
      /\ row.progress = prog /\ SameIdentity(row, tasks[t])
  BY <1>0 DEF Rows, SameIdentity
<1> HIDE DEF row
<1>5. SoundRow(row)
  BY <1>3, <1>4, NoneAssumption DEF SoundRow
<1>6. SoundWrite(t, row, type, w)
  BY <1>0, <1>1, <1>4, <1>5, TerminalEventsAre
     DEF SoundWrite, EventTypes, ProgressEvents, ClaimEvents, Terminal, Active
<1> QED
  BY <1>2, <1>6

LEMMA MarkSound ==
    ASSUME TypeOK, OwnedIffRunning, NEW t \in Tasks, NEW w \in Workers,
           NEW status \in Terminal, MarkTerminal(t, w, status)
    PROVE  \E row, type, by : Commit(t, row, type, by) /\ SoundWrite(t, row, type, by)
<1> DEFINE prog == IF status = "succeeded" THEN 100 ELSE tasks[t].progress
           row == [tasks[t] EXCEPT !.status = status, !.worker = None,
                                   !.lease = "none", !.progress = prog]
<1>0. tasks[t] \in Rows /\ tasks[t].status \in Active /\ tasks[t].worker = w
  BY DEF TypeOK, MarkTerminal, MayMark, HasValidLease
<1>a. prog \in 0..100 /\ tasks[t].progress <= prog
  BY <1>0 DEF Rows
<1>b. [tasks[t] EXCEPT !.status = status] \in Rows
  BY <1>0, RowUpdates DEF Statuses
<1>c. [tasks[t] EXCEPT !.status = status, !.worker = None] \in Rows
  BY <1>b, RowUpdates
<1>d. [tasks[t] EXCEPT !.status = status, !.worker = None, !.lease = "none"] \in Rows
  BY <1>c, RowUpdates
<1>1. row \in Rows
  BY <1>a, <1>d, RowUpdates
<1>2. Commit(t, row, TerminalEvent(status), w)
  BY <1>0 DEF MarkTerminal, Rows
<1> HIDE DEF prog
<1>3. /\ row.status = status /\ row.worker = None /\ row.lease = "none"
      /\ row.progress = prog /\ SameIdentity(row, tasks[t])
  BY <1>0 DEF Rows, SameIdentity
<1> HIDE DEF row
<1>4. SoundRow(row)
  BY <1>1, <1>3 DEF SoundRow, Terminal
<1>5. TerminalEvent(status) \in TerminalEvents
  BY TerminalEventsAre
<1>6. SoundWrite(t, row, TerminalEvent(status), w)
  BY <1>0, <1>a, <1>3, <1>4, <1>5, TerminalEventsAre DEF SoundWrite, EventTypes, ClaimEvents
<1> QED
  BY <1>2, <1>6

\* Every step of the store is a sound write, a deletion, or moves a lease.
LEMMA StepKinds ==
    ASSUME TypeOK, OwnedIffRunning, UnbornEmpty, [Next]_storeVars
    PROVE  \/ LeaseOnly
           \/ \E t \in Tasks : DeleteTask(t)
           \/ \E t \in Tasks : \E row, type, by :
                 Commit(t, row, type, by) /\ SoundWrite(t, row, type, by)
<1>1. ASSUME NEW t \in Tasks, NEW w \in Workers, Heartbeat(t, w)
      PROVE  LeaseOnly
  BY <1>1 DEF Heartbeat, MayHeartbeat, HasValidLease, LeaseOnly, TypeOK
<1>2. ASSUME NEW t \in Tasks, LeaseExpires(t)
      PROVE  LeaseOnly
  BY <1>2 DEF LeaseExpires, LeaseOnly, TypeOK, OwnedIffRunning
<1>3. CASE UNCHANGED storeVars
  BY <1>3 DEF storeVars, LeaseOnly
<1>4. \A m \in Marks : m \in 0..100
  BY MarksAssumption
<1> QED
  BY <1>1, <1>2, <1>3, <1>4, CreateSound, CancelSound, ClaimSound, ProgressSound, MarkSound
     DEF Next, ClientNext, WorkerNext

----------------------------------------------------------------------------
(* The invariants, one per lemma, over the three kinds of step.             *)

\* What a write does to the two tables.
LEMMA CommitEffect ==
    ASSUME TypeOK, NEW t \in Tasks, NEW row, NEW type, NEW by,
           row \in Rows, type \in EventTypes, by \in Workers \cup {None},
           Commit(t, row, type, by)
    PROVE  /\ tasks'[t] = row
           /\ \A s \in Tasks \ {t} : tasks'[s] = tasks[s] /\ events'[s] = events[s]
           /\ Len(events[t]) \in Nat
           /\ Len(events'[t]) = Len(events[t]) + 1
           /\ \A i \in 1..Len(events[t]) :
                 events'[t][i] = events[t][i] /\ events[t][i] \in Events
           /\ LET e == events'[t][Len(events[t]) + 1]
              IN  e.type = type /\ e.progress = row.progress /\ e.by = by
<1> DEFINE e == [type |-> type, progress |-> row.progress, by |-> by]
<1>1. events[t] \in Seq(Events) /\ e \in Events
  BY DEF TypeOK, Events, Rows
<1>2. events'[t] = Append(events[t], e)
  BY DEF Commit, TypeOK
<1>3. tasks'[t] = row /\ \A s \in Tasks \ {t} : tasks'[s] = tasks[s] /\ events'[s] = events[s]
  BY DEF Commit, TypeOK
<1>4. e.type = type /\ e.progress = row.progress /\ e.by = by
  OBVIOUS
<1> HIDE DEF e
<1>5. /\ Len(events[t]) \in Nat
      /\ Len(events'[t]) = Len(events[t]) + 1
      /\ \A i \in 1..Len(events[t]) :
            events'[t][i] = events[t][i] /\ events[t][i] \in Events
      /\ events'[t][Len(events[t]) + 1] = e
  BY <1>1, <1>2
<1> QED
  BY <1>3, <1>4, <1>5

\* A step that only moves a lease changes no other column.
LEMMA LeaseOnlyRows ==
    ASSUME TypeOK, OwnedIffRunning, LeaseOnly, NEW s \in Tasks
    PROVE  /\ tasks'[s].status = tasks[s].status
           /\ tasks'[s].worker = tasks[s].worker
           /\ tasks'[s].lease = "none" <=> tasks[s].lease = "none"
           /\ tasks'[s].attempt = tasks[s].attempt
           /\ tasks'[s].progress = tasks[s].progress
           /\ SameIdentity(tasks'[s], tasks[s])
           /\ events'[s] = events[s]
<1>1. tasks[s] \in Rows
  BY DEF TypeOK
<1>2. events'[s] = events[s]
  BY DEF LeaseOnly
<1>3. CASE tasks'[s] = tasks[s]
  BY <1>2, <1>3 DEF SameIdentity
<1>4. ASSUME tasks[s].status = "running", NEW x \in {"valid", "expired"},
             tasks'[s] = [tasks[s] EXCEPT !.lease = x]
      PROVE  /\ tasks'[s].status = tasks[s].status
             /\ tasks'[s].worker = tasks[s].worker
             /\ tasks'[s].lease = x
             /\ tasks[s].lease # "none"
             /\ tasks'[s].attempt = tasks[s].attempt
             /\ tasks'[s].progress = tasks[s].progress
             /\ SameIdentity(tasks'[s], tasks[s])
  BY <1>1, <1>4 DEF SameIdentity, Rows, OwnedIffRunning
<1> QED
  BY <1>2, <1>3, <1>4 DEF LeaseOnly

LEMMA DeleteRows ==
    ASSUME TypeOK, NEW t \in Tasks, DeleteTask(t)
    PROVE  /\ tasks'[t].status = "deleted" /\ tasks'[t].worker = None
           /\ tasks'[t].lease = "none" /\ tasks'[t].attempt = 0
           /\ tasks'[t].progress = 0 /\ events'[t] = <<>>
           /\ \A s \in Tasks \ {t} : tasks'[s] = tasks[s] /\ events'[s] = events[s]
BY DEF DeleteTask, AbsentRow, TypeOK

LEMMA OwnedStep ==
    ASSUME TypeOK, OwnedIffRunning, UnbornEmpty, [Next]_storeVars
    PROVE  OwnedIffRunning' /\ UnbornEmpty'
<1>1. CASE LeaseOnly
  BY <1>1, LeaseOnlyRows DEF OwnedIffRunning, UnbornEmpty
<1>2. ASSUME NEW t \in Tasks, DeleteTask(t)
      PROVE  OwnedIffRunning' /\ UnbornEmpty'
  BY <1>2, DeleteRows DEF OwnedIffRunning, UnbornEmpty
<1>3. ASSUME NEW t \in Tasks, NEW row, NEW type, NEW by,
             Commit(t, row, type, by), SoundWrite(t, row, type, by)
      PROVE  OwnedIffRunning' /\ UnbornEmpty'
  <2>1. SoundRow(row) /\ row \in Rows /\ type \in EventTypes /\ by \in Workers \cup {None}
    BY <1>3 DEF SoundWrite, SoundRow
  <2>2. tasks'[t] = row /\ \A s \in Tasks \ {t} : tasks'[s] = tasks[s] /\ events'[s] = events[s]
    BY <1>3, <2>1, CommitEffect
  <2> QED
    BY <2>1, <2>2 DEF OwnedIffRunning, UnbornEmpty, SoundRow
<1> QED
  BY <1>1, <1>2, <1>3, StepKinds

LEMMA LoggedStep ==
    ASSUME TypeOK, OwnedIffRunning, UnbornEmpty, TerminalLogged, [Next]_storeVars
    PROVE  TerminalLogged'
<1>1. CASE LeaseOnly
  BY <1>1, LeaseOnlyRows DEF TerminalLogged
<1>2. ASSUME NEW t \in Tasks, DeleteTask(t)
      PROVE  TerminalLogged'
  <2>1. Len(<<>>) = 0
    OBVIOUS
  <2> QED
    BY <1>2, <2>1, DeleteRows DEF TerminalLogged, Terminal
<1>3. ASSUME NEW t \in Tasks, NEW row, NEW type, NEW by,
             Commit(t, row, type, by), SoundWrite(t, row, type, by)
      PROVE  TerminalLogged'
  <2>1. row \in Rows /\ type \in EventTypes /\ by \in Workers \cup {None}
    BY <1>3 DEF SoundWrite, SoundRow
  <2> DEFINE n == Len(events[t])
  <2>2. /\ tasks'[t] = row
        /\ \A s \in Tasks \ {t} : tasks'[s] = tasks[s] /\ events'[s] = events[s]
        /\ n \in Nat /\ Len(events'[t]) = n + 1
        /\ \A i \in 1..n : events'[t][i] = events[t][i]
        /\ events'[t][n + 1].type = type
    BY <1>3, <2>1, CommitEffect
  <2>3. tasks[t].status \notin Terminal
    BY <1>3 DEF SoundWrite, Active, Terminal
  <2>4. \A i \in 1..n : events'[t][i].type \notin TerminalEvents
    BY <2>2, <2>3 DEF TerminalLogged
  <2>5. /\ type \in TerminalEvents => row.status \in Terminal /\ type = TerminalEvent(row.status)
        /\ row.status \in Terminal => type \in TerminalEvents
    BY <1>3 DEF SoundWrite
  <2>6. events'[t] # <<>>
    BY <2>2
  <2> HIDE DEF n
  <2>7. \A i \in 1..Len(events'[t]) : i \in 1..n \/ i = n + 1
    BY <2>2
  <2>8. /\ \A i \in 1..Len(events'[t]) :
             events'[t][i].type \in TerminalEvents =>
                 /\ i = Len(events'[t])
                 /\ tasks'[t].status \in Terminal
                 /\ events'[t][i].type = TerminalEvent(tasks'[t].status)
        /\ tasks'[t].status \in Terminal =>
             events'[t] # <<>> /\ events'[t][Len(events'[t])].type \in TerminalEvents
    BY <2>2, <2>4, <2>5, <2>6, <2>7
  <2> QED
    BY <2>2, <2>8 DEF TerminalLogged
<1> QED
  BY <1>1, <1>2, <1>3, StepKinds

LEMMA PercentOrder ==
    /\ \A a \in 0..100 : a <= a
    /\ \A a, b, c \in 0..100 : a <= b /\ b <= c => a <= c
OBVIOUS

LEMMA ProgressStep ==
    ASSUME TypeOK, OwnedIffRunning, UnbornEmpty, ProgressMonotone, [Next]_storeVars
    PROVE  ProgressMonotone'
<1>1. CASE LeaseOnly
  BY <1>1, LeaseOnlyRows DEF ProgressMonotone
<1>2. ASSUME NEW t \in Tasks, DeleteTask(t)
      PROVE  ProgressMonotone'
  BY <1>2, DeleteRows DEF ProgressMonotone
<1>3. ASSUME NEW t \in Tasks, NEW row, NEW type, NEW by,
             Commit(t, row, type, by), SoundWrite(t, row, type, by)
      PROVE  ProgressMonotone'
  <2>1. row \in Rows /\ type \in EventTypes /\ by \in Workers \cup {None}
    BY <1>3 DEF SoundWrite, SoundRow
  <2> DEFINE n == Len(events[t])
  <2>2. /\ tasks'[t] = row
        /\ \A s \in Tasks \ {t} : tasks'[s] = tasks[s] /\ events'[s] = events[s]
        /\ n \in Nat /\ Len(events'[t]) = n + 1
        /\ \A i \in 1..n : events'[t][i] = events[t][i] /\ events[t][i] \in Events
        /\ events'[t][n + 1].progress = row.progress
    BY <1>3, <2>1, CommitEffect
  <2>3. /\ tasks[t].progress <= row.progress
        /\ tasks[t].progress \in 0..100 /\ row.progress \in 0..100
    BY <1>3, <2>1 DEF SoundWrite, TypeOK, Rows
  <2>4. \A i \in 1..n : events[t][i].progress \in 0..100
    BY <2>2 DEF Events
  <2>5. n > 0 => events[t] # <<>>
    OBVIOUS
  <2>6. \A i \in 1..n : events[t][i].progress <= tasks[t].progress
    <3> SUFFICES ASSUME NEW i \in 1..n
                 PROVE  events[t][i].progress <= tasks[t].progress
      OBVIOUS
    <3>1. n \in 1..n /\ i <= n /\ events[t] # <<>>
      BY <2>2, <2>5
    <3>2. events[t][n].progress = tasks[t].progress
      BY <3>1 DEF ProgressMonotone
    <3> QED
      BY <3>1, <3>2 DEF ProgressMonotone
  <2>a. /\ \A i \in 1..n : events[t][i].progress <= row.progress
        /\ row.progress <= row.progress
    BY <2>3, <2>4, <2>6, PercentOrder, Zenon
  <2>7. \A i, j \in 1..n : i <= j => events[t][i].progress <= events[t][j].progress
    BY DEF ProgressMonotone
  <2> HIDE DEF n
  <2>8. \A i \in 1..Len(events'[t]) : i \in 1..n \/ i = n + 1
    BY <2>2
  <2>9. \A i, j \in 1..Len(events'[t]) :
           i <= j => events'[t][i].progress <= events'[t][j].progress
    <3> SUFFICES ASSUME NEW i \in 1..Len(events'[t]), NEW j \in 1..Len(events'[t]), i <= j
                 PROVE  events'[t][i].progress <= events'[t][j].progress
      OBVIOUS
    <3>1. CASE j \in 1..n
      <4>1. i \in 1..n
        BY <2>2, <3>1
      <4> QED
        BY <2>2, <2>7, <3>1, <4>1
    <3>2. CASE j = n + 1 /\ i \in 1..n
      <4>1. events'[t][j].progress = row.progress
        BY <2>2, <3>2, Zenon
      <4>2. events'[t][i].progress = events[t][i].progress
        BY <2>2, <3>2
      <4> QED
        BY <2>a, <3>2, <4>1, <4>2, Zenon
    <3>3. CASE j = n + 1 /\ i = n + 1
      <4>1. events'[t][i].progress = row.progress /\ events'[t][j].progress = row.progress
        BY <2>2, <3>3, Zenon
      <4> QED
        BY <2>a, <4>1, Zenon
    <3> QED
      BY <2>8, <3>1, <3>2, <3>3
  <2>10. events'[t][Len(events'[t])].progress = tasks'[t].progress
    BY <2>2
  <2> QED
    BY <2>2, <2>9, <2>10 DEF ProgressMonotone
<1> QED
  BY <1>1, <1>2, <1>3, StepKinds

LEMMA ClaimantStep ==
    ASSUME TypeOK, OwnedIffRunning, UnbornEmpty, LastClaimantOwns, [Next]_storeVars
    PROVE  LastClaimantOwns'
<1>1. CASE LeaseOnly
  BY <1>1, LeaseOnlyRows DEF LastClaimantOwns
<1>2. ASSUME NEW t \in Tasks, DeleteTask(t)
      PROVE  LastClaimantOwns'
  BY <1>2, DeleteRows DEF LastClaimantOwns
<1>3. ASSUME NEW t \in Tasks, NEW row, NEW type, NEW by,
             Commit(t, row, type, by), SoundWrite(t, row, type, by)
      PROVE  LastClaimantOwns'
  <2>1. row \in Rows /\ type \in EventTypes /\ by \in Workers \cup {None}
    BY <1>3 DEF SoundWrite, SoundRow
  <2> DEFINE n == Len(events[t])
  <2>2. /\ tasks'[t] = row
        /\ \A s \in Tasks \ {t} : tasks'[s] = tasks[s] /\ events'[s] = events[s]
        /\ n \in Nat /\ Len(events'[t]) = n + 1
        /\ \A i \in 1..n : events'[t][i] = events[t][i]
        /\ events'[t][n + 1].type = type
        /\ events'[t][n + 1].by = by
    BY <1>3, <2>1, CommitEffect
  <2>3. /\ type \in ClaimEvents => row.worker = by
        /\ type \notin ClaimEvents /\ row.worker # None => tasks[t].worker = row.worker
    BY <1>3 DEF SoundWrite
  <2>4. ASSUME NEW i \in 1..n, events[t][i].type \in ClaimEvents,
               \A m \in i+1..n : events[t][m].type \notin ClaimEvents,
               tasks[t].worker # None
        PROVE  tasks[t].worker = events[t][i].by
    BY <2>4 DEF LastClaimantOwns
  <2> HIDE DEF n
  <2>5. ASSUME NEW i \in 1..n+1, events'[t][i].type \in ClaimEvents,
               \A m \in i+1..n+1 : events'[t][m].type \notin ClaimEvents,
               row.worker # None
        PROVE  row.worker = events'[t][i].by
    <3>1. CASE i = n + 1
      BY <2>2, <2>3, <2>5, <3>1
    <3>2. CASE i # n + 1
      <4>1. i \in 1..n /\ n + 1 \in i+1..n+1 /\ \A m \in i+1..n : m \in 1..n /\ m \in i+1..n+1
        BY <2>2, <3>2
      <4>2. type \notin ClaimEvents
        BY <2>2, <2>5, <4>1
      <4>3. \A m \in i+1..n : events[t][m].type \notin ClaimEvents
        BY <2>2, <2>5, <4>1
      <4>4. tasks[t].worker = row.worker
        BY <2>3, <2>5, <4>2
      <4> QED
        BY <2>2, <2>4, <2>5, <4>1, <4>3, <4>4
    <3> QED
      BY <3>1, <3>2
  <2> QED
    BY <2>2, <2>5 DEF LastClaimantOwns
<1> QED
  BY <1>1, <1>2, <1>3, StepKinds

LEMMA FencedStep ==
    ASSUME TypeOK, OwnedIffRunning, UnbornEmpty, LastClaimantOwns, WritesFenced,
           [Next]_storeVars
    PROVE  WritesFenced'
<1>1. CASE LeaseOnly
  BY <1>1, LeaseOnlyRows DEF WritesFenced
<1>2. ASSUME NEW t \in Tasks, DeleteTask(t)
      PROVE  WritesFenced'
  BY <1>2, DeleteRows DEF WritesFenced
<1>3. ASSUME NEW t \in Tasks, NEW row, NEW type, NEW by,
             Commit(t, row, type, by), SoundWrite(t, row, type, by)
      PROVE  WritesFenced'
  <2>1. row \in Rows /\ type \in EventTypes /\ by \in Workers \cup {None}
    BY <1>3 DEF SoundWrite, SoundRow
  <2> DEFINE n == Len(events[t])
  <2>2. /\ \A s \in Tasks \ {t} : tasks'[s] = tasks[s] /\ events'[s] = events[s]
        /\ n \in Nat /\ Len(events'[t]) = n + 1
        /\ \A i \in 1..n : events'[t][i] = events[t][i]
        /\ events'[t][n + 1].type = type
        /\ events'[t][n + 1].by = by
    BY <1>3, <2>1, CommitEffect
  <2>3. type \notin ClaimEvents /\ by # None => tasks[t].worker = by
    BY <1>3 DEF SoundWrite
  <2>4. ASSUME NEW i \in 1..n, events[t][i].type \in ClaimEvents,
               \A m \in i+1..n : events[t][m].type \notin ClaimEvents,
               tasks[t].worker # None
        PROVE  tasks[t].worker = events[t][i].by
    BY <2>4 DEF LastClaimantOwns
  <2>5. ASSUME NEW i \in 1..n, NEW j \in 1..n, i < j, events[t][i].type \in ClaimEvents,
               events[t][j].by # None,
               \A m \in i+1..j : events[t][m].type \notin ClaimEvents
        PROVE  events[t][j].by = events[t][i].by
    BY <2>5 DEF WritesFenced
  <2> HIDE DEF n
  <2>6. ASSUME NEW i \in 1..n+1, NEW j \in 1..n+1, i < j,
               events'[t][i].type \in ClaimEvents, events'[t][j].by # None,
               \A m \in i+1..j : events'[t][m].type \notin ClaimEvents
        PROVE  events'[t][j].by = events'[t][i].by
    <3>0. i \in 1..n
      BY <2>2, <2>6
    <3>1. CASE j = n + 1
      <4>1. n + 1 \in i+1..j /\ \A m \in i+1..n : m \in 1..n /\ m \in i+1..j
        BY <2>2, <3>0, <3>1
      <4>2. type \notin ClaimEvents /\ by # None
        BY <2>2, <2>6, <3>1, <4>1
      <4>3. \A m \in i+1..n : events[t][m].type \notin ClaimEvents
        BY <2>2, <2>6, <4>1
      <4>4. tasks[t].worker = by
        BY <2>3, <4>2
      <4> QED
        BY <2>2, <2>4, <2>6, <3>0, <3>1, <4>2, <4>3, <4>4
    <3>2. CASE j # n + 1
      <4>1. j \in 1..n /\ \A m \in i+1..j : m \in 1..n
        BY <2>2, <3>0, <3>2
      <4>2. \A m \in i+1..j : events[t][m].type \notin ClaimEvents
        BY <2>2, <2>6, <4>1
      <4> QED
        BY <2>2, <2>5, <2>6, <3>0, <4>1, <4>2
    <3> QED
      BY <3>1, <3>2
  <2>7. SUFFICES ASSUME NEW s \in Tasks,
                        NEW i \in 1..Len(events'[s]), NEW j \in 1..Len(events'[s]), i < j,
                        events'[s][i].type \in ClaimEvents, events'[s][j].by # None,
                        \A m \in i+1..j : events'[s][m].type \notin ClaimEvents
                 PROVE  events'[s][j].by = events'[s][i].by
    BY DEF WritesFenced
  <2>8. CASE s = t
    <3>1. i \in 1..n+1 /\ j \in 1..n+1
      BY <2>2, <2>7, <2>8
    <3> QED
      BY <2>6, <2>7, <2>8, <3>1
  <2>9. CASE s # t
    <3>1. events'[s] = events[s]
      BY <2>2, <2>9
    <3> QED
      BY <2>7, <3>1 DEF WritesFenced
  <2> QED
    BY <2>8, <2>9
<1> QED
  BY <1>1, <1>2, <1>3, StepKinds

LEMMA CreationStep ==
    ASSUME TypeOK, OwnedIffRunning, UnbornEmpty, CreationIdempotent, [Next]_storeVars
    PROVE  CreationIdempotent'
<1> USE DEF CreationIdempotent, Allocated, InScope, SameIdentity
<1>1. CASE LeaseOnly
  BY <1>1, LeaseOnlyRows
<1>2. ASSUME NEW t \in Tasks, DeleteTask(t)
      PROVE  CreationIdempotent'
  BY <1>2, DeleteRows
<1>3. ASSUME NEW t \in Tasks, NEW row, NEW type, NEW by,
             Commit(t, row, type, by), SoundWrite(t, row, type, by)
      PROVE  CreationIdempotent'
  <2>1. row \in Rows /\ type \in EventTypes /\ by \in Workers \cup {None}
    BY <1>3 DEF SoundWrite, SoundRow
  <2>2. /\ tasks'[t] = row
        /\ \A s \in Tasks \ {t} : tasks'[s] = tasks[s]
    BY <1>3, <2>1, CommitEffect
  <2>3. CASE tasks[t].status \in Active /\ SameIdentity(row, tasks[t])
    <3>1. t \in Allocated
      BY <2>3 DEF Active
    <3> QED
      BY <2>2, <2>3, <3>1
  <2>4. CASE /\ tasks[t].status = "absent"
             /\ KeyHits(row.user, row.key) = {}
             /\ ActiveHits(row.user, row.fp) = {}
    <3>1. \A s \in Allocated : InScope(s, row.user) =>
             tasks[s].key # row.key /\ ~(tasks[s].fp = row.fp /\ tasks[s].status \in Active)
      BY <2>4 DEF KeyHits, ActiveHits
    <3> QED
      BY <2>2, <3>1
  <2> QED
    BY <1>3, <2>3, <2>4 DEF SoundWrite
<1> QED
  BY <1>1, <1>2, <1>3, StepKinds

----------------------------------------------------------------------------
LEMMA InitInv == Init => StoreInv
<1> SUFFICES ASSUME Init PROVE StoreInv
  OBVIOUS
<1>1. \A t \in Tasks : tasks[t] = AbsentRow /\ events[t] = <<>>
  BY DEF Init
<1>2. TypeOK
  BY InitType
<1>3. OwnedIffRunning /\ UnbornEmpty
  BY <1>1 DEF OwnedIffRunning, UnbornEmpty, AbsentRow
<1>4. TerminalLogged /\ ProgressMonotone /\ LastClaimantOwns /\ WritesFenced
  BY <1>1 DEF TerminalLogged, ProgressMonotone, LastClaimantOwns, WritesFenced,
              AbsentRow, Terminal
<1>5. CreationIdempotent
  BY <1>1 DEF CreationIdempotent, Allocated, AbsentRow
<1> QED
  BY <1>2, <1>3, <1>4, <1>5 DEF StoreInv

LEMMA NextInv == StoreInv /\ [Next]_storeVars => StoreInv'
BY NextType, OwnedStep, LoggedStep, ProgressStep, ClaimantStep, FencedStep, CreationStep
   DEF StoreInv

\* The inductive invariant holds in every reachable state of the store.
THEOREM StoreInvariant == Spec => []StoreInv
BY InitInv, NextInv, PTL DEF Spec

\* A settled task has exactly one terminal event, the last of its log.
THEOREM TerminalLoggedHolds == Spec => []TerminalLogged
BY StoreInvariant, PTL DEF StoreInv

\* The progress in a task's log never decreases.
THEOREM ProgressMonotoneHolds == Spec => []ProgressMonotone
BY StoreInvariant, PTL DEF StoreInv

\* No worker writes to a task's log after another worker has claimed the task.
THEOREM WritesFencedHolds == Spec => []WritesFenced
BY StoreInvariant, PTL DEF StoreInv

\* Keys and active requests name at most one task each, within their scope.
THEOREM CreationIdempotentHolds == Spec => []CreationIdempotent
BY StoreInvariant, PTL DEF StoreInv

LEMMA TerminalFinalStep ==
    ASSUME StoreInv, [Next]_storeVars, NEW t \in Tasks, tasks[t].status \in Terminal
    PROVE  UNCHANGED <<tasks[t], events[t]>> \/ tasks'[t].status = "deleted"
<1>0. TypeOK /\ OwnedIffRunning /\ UnbornEmpty
  BY DEF StoreInv
<1>1. CASE LeaseOnly
  BY <1>1 DEF LeaseOnly, Terminal
<1>2. ASSUME NEW s \in Tasks, DeleteTask(s)
      PROVE  UNCHANGED <<tasks[t], events[t]>> \/ tasks'[t].status = "deleted"
  BY <1>0, <1>2, DeleteRows
<1>3. ASSUME NEW s \in Tasks, NEW row, NEW type, NEW by,
             Commit(s, row, type, by), SoundWrite(s, row, type, by)
      PROVE  UNCHANGED <<tasks[t], events[t]>>
  <2>1. s # t
    BY <1>3 DEF SoundWrite, Active, Terminal
  <2> QED
    BY <1>0, <1>3, <2>1, CommitEffect DEF SoundWrite, SoundRow
<1> QED
  BY <1>0, <1>1, <1>2, <1>3, StepKinds

\* A terminal row is never written again; only deletion removes it.
THEOREM TerminalFinalHolds == Spec => TerminalFinal
<1>1. StoreInv /\ [Next]_storeVars =>
        [\A t \in Tasks : tasks[t].status \in Terminal =>
            \/ UNCHANGED <<tasks[t], events[t]>>
            \/ tasks'[t].status = "deleted"]_storeVars
  BY TerminalFinalStep
<1> QED
  BY <1>1, StoreInvariant, PTL DEF Spec, TerminalFinal

-----------------------------------------------------------------------------
(* Workers and clients.                                                    *)

----------------------------------------------------------------------------
(* The inductive invariant under any fault.                                *)

CancelPcs == {"cancelRead", "cancelWrite", "markCancelled"}

\* A cancellation that a worker acts on, as the owner of the row, was asked for.
CancelsAsked(w, r, row) ==
    (r.pc \in CancelPcs \/ r.err = "cancelled") /\ row.worker = w => row.cancel

\* A thread that executes, and the row it executes.
Thread(w, r, row) ==
    /\ row.worker = w => r.att = row.attempt
    /\ CancelsAsked(w, r, row)

ThreadsOK ==
    \A w \in Workers :
        /\ wk[w].hb => Busy(w)
        /\ Busy(w) => wk[w].task \in Tasks /\ Thread(w, wk[w], tasks[wk[w].task])

\* What the life of a task needs to know of its row.
RowOK(row) ==
    /\ row.status \in {"absent", "queued", "deleted"} => ~row.cancel
    /\ row.status \in Active => row.progress <= 99

RowsOK == \A t \in Tasks : RowOK(tasks[t])

RuntimeIInv ==
    /\ StoreInv
    /\ wk \in [Workers -> WorkerStates] /\ ckpt \in [Tasks -> AgentStates] /\ faults \in Faults
    /\ RowsOK
    /\ ThreadsOK

----------------------------------------------------------------------------
(* The inductive invariant without stalls: a task and its checkpoint, and   *)
(* the one worker that executes it.                                        *)

Consistent(m) == m.finished <=> m.status = "completed"

TaskOK(row, c) ==
    /\ row.status \in {"absent", "queued"} => c = NoState
    /\ row.status = "succeeded" => c.finished /\ c.status = "completed"
    /\ row.status = "cancelled" => c.status \in {"none", "cancelled"}
    /\ row.status = "deleted" /\ Backend = "mysql" => c = NoState
    /\ c.status = "completed" => c.finished
    /\ row.status # "deleted" /\ c.finished /\ ~row.cancel => c.status = "completed"
    /\ row.status # "deleted" => c.by <= row.attempt

\* Locations of a plan that is not finished, and of one that may be.
OpenPcs == {"init", "loop", "gate", "local", "call", "retry", "backoff", "halt", "exhausted"}
StepPcs == {"drain", "verify", "save", "complete", "after"}

\* The worker still owns the task, or the task is settled and a lost answer has
\* the worker try once more, or the session was deleted.
Owns(w, r, row) ==
    \/ /\ r.hb /\ row.status = "running" /\ row.worker = w /\ row.lease = "valid"
    \/ row.status \in Terminal /\ r.pc = "failing"
    \/ row.status = "deleted"

\* How the AgentState in memory relates to the checkpoint.
Memory(r, row, c) ==
    /\ r.mem.status = "completed" => r.mem.finished
    /\ r.pc = "cancelWrite" => r.mem.status = "cancelled"
    /\ r.pc \in OpenPcs => ~r.mem.finished
    /\ r.pc \in StepPcs => Consistent(r.mem)
    /\ r.pc \in (OpenPcs \ {"init"}) \cup StepPcs \cup {"cancelWrite"} => r.kept
    /\ r.pc = "init" /\ ~r.kept => c = NoState /\ (r.chk # "own" => row.status = "running")
    /\ r.pc \in OpenPcs \cup StepPcs \cup {"cancelWrite"} =>
          c.work <= r.mem.work /\ c.step <= r.mem.step

\* What the checkpoint says of a task that is still running.
Checkpoint(r, row, c) == row.status = "running" =>
    /\ r.pc \in {"complete", "after"} => c.finished = r.mem.finished /\ c.status = r.mem.status
    /\ r.pc \in {"final", "succeed"} => c.finished /\ c.status = "completed"
    /\ r.pc = "markCancelled" => c.status \in {"none", "cancelled"}
    /\ r.pc # "markCancelled" /\ c.finished => c.status = "completed"

Held(w, r, row, c) ==
    /\ Owns(w, r, row)
    /\ c.by <= r.att
    /\ Memory(r, row, c)
    /\ Checkpoint(r, row, c)

QuietIInv ==
    /\ RuntimeIInv
    /\ SingleExecutor
    /\ \A t \in Tasks : TaskOK(tasks[t], ckpt[t])
    /\ \A w \in Workers : Busy(w) => Held(w, wk[w], tasks[wk[w].task], ckpt[wk[w].task])

----------------------------------------------------------------------------
(* What each transaction does to the rows, and that it is a step of a       *)
(* client's life of the task.                                               *)

LifeStep == [Life!Next]_(Life!lifeVars)

\* Worker w comes to own no row it did not own, and the rows it owns keep their
\* attempt and their cancellation.
Steady(w) ==
    \A t \in Tasks : tasks'[t].worker = w =>
        /\ tasks[t].worker = w /\ tasks'[t].attempt = tasks[t].attempt
        /\ tasks[t].cancel => tasks'[t].cancel

\* A good transaction, for every worker but those of set C.
Transaction(C) ==
    [Next]_storeVars /\ RowsOK' /\ LifeStep /\ \A w \in Workers \ C : Steady(w)

OneRow(t) == \A s \in Tasks \ {t} : tasks'[s] = tasks[s]

LEMMA Columns ==
    ASSUME NEW t \in Tasks, OneRow(t)
    PROVE  /\ [s \in Tasks |-> tasks'[s].status] =
                 [[s \in Tasks |-> tasks[s].status] EXCEPT ![t] = tasks'[t].status]
           /\ [s \in Tasks |-> tasks'[s].cancel] =
                 [[s \in Tasks |-> tasks[s].cancel] EXCEPT ![t] = tasks'[t].cancel]
           /\ [s \in Tasks |-> tasks'[s].attempt] =
                 [[s \in Tasks |-> tasks[s].attempt] EXCEPT ![t] = tasks'[t].attempt]
           /\ [s \in Tasks |-> tasks'[s].progress] =
                 [[s \in Tasks |-> tasks[s].progress] EXCEPT ![t] = tasks'[t].progress]
BY DEF OneRow

\* A column whose value at t stays is unchanged.
LEMMA SameColumn ==
    ASSUME NEW t \in Tasks, OneRow(t)
    PROVE  /\ tasks'[t].status = tasks[t].status =>
                 [s \in Tasks |-> tasks'[s].status] = [s \in Tasks |-> tasks[s].status]
           /\ tasks'[t].cancel = tasks[t].cancel =>
                 [s \in Tasks |-> tasks'[s].cancel] = [s \in Tasks |-> tasks[s].cancel]
           /\ tasks'[t].attempt = tasks[t].attempt =>
                 [s \in Tasks |-> tasks'[s].attempt] = [s \in Tasks |-> tasks[s].attempt]
           /\ tasks'[t].progress = tasks[t].progress =>
                 [s \in Tasks |-> tasks'[s].progress] = [s \in Tasks |-> tasks[s].progress]
BY DEF OneRow

LEMMA StoreFacts ==
    ASSUME StoreInv, NEW t \in Tasks
    PROVE  /\ TypeOK /\ OwnedIffRunning /\ UnbornEmpty /\ tasks[t] \in Rows
           /\ tasks[t].status = "running" <=> tasks[t].worker # None
           /\ tasks[t].status = "running" <=> tasks[t].lease # "none"
           /\ tasks[t].status \in {"absent", "queued", "deleted"} => tasks[t].attempt = 0
           /\ tasks[t].status \in {"absent", "deleted"} => tasks[t].progress = 0
           /\ tasks[t].progress \in 0..100 /\ tasks[t].attempt \in Nat
           /\ tasks[t].cancel \in BOOLEAN /\ tasks[t].status \in Statuses
<1>1. TypeOK /\ OwnedIffRunning /\ UnbornEmpty
  BY DEF StoreInv
<1>2. tasks[t] \in Rows
  BY <1>1 DEF TypeOK
<1> QED
  BY <1>1, <1>2 DEF OwnedIffRunning, UnbornEmpty, Rows

LEMMA CommitRow ==
    ASSUME StoreInv, NEW t \in Tasks, NEW row, NEW type, NEW by, Commit(t, row, type, by)
    PROVE  tasks'[t] = row /\ OneRow(t)
BY StoreFacts DEF Commit, TypeOK, OneRow

\* The transaction moves the one row t.
LEMMA RowMoves ==
    ASSUME StoreInv, RowsOK, NEW t \in Tasks, OneRow(t), RowOK(tasks'[t]), NEW C,
           tasks'[t].worker \notin Workers \ C
              \/ /\ tasks'[t].worker = tasks[t].worker
                 /\ tasks'[t].attempt = tasks[t].attempt
                 /\ tasks[t].cancel => tasks'[t].cancel
    PROVE  RowsOK' /\ \A w \in Workers \ C : Steady(w)
<1>1. RowsOK'
  BY DEF RowsOK, OneRow
<1>2. ASSUME NEW w \in Workers \ C, NEW s \in Tasks, tasks'[s].worker = w
      PROVE  /\ tasks[s].worker = w /\ tasks'[s].attempt = tasks[s].attempt
             /\ tasks[s].cancel => tasks'[s].cancel
  <2>1. CASE s = t
    BY <1>2, <2>1
  <2>2. CASE s # t
    BY <1>2, <2>2 DEF OneRow
  <2> QED
    BY <2>1, <2>2
<1> QED
  BY <1>1, <1>2 DEF Steady

LEMMA CreateMoves ==
    ASSUME StoreInv, RowsOK, NEW t \in Tasks, NEW u \in Users, NEW k \in Keys,
           NEW f \in Requests, CreateTask(t, u, k, f)
    PROVE  /\ Transaction({}) /\ OneRow(t)
           /\ tasks[t].status = "absent" /\ tasks'[t].status = "queued"
           /\ tasks'[t].attempt = tasks[t].attempt /\ tasks'[t].worker = None
<1>1. Next
  BY DEF Next, ClientNext
<1>2. tasks[t].status = "absent" /\ OneRow(t)
  BY CommitRow DEF CreateTask
<1>3. /\ tasks'[t].status = "queued" /\ tasks'[t].cancel = FALSE /\ tasks'[t].attempt = 0
      /\ tasks'[t].progress = 0 /\ tasks'[t].worker = None
  <2>1. tasks'[t] = [AbsentRow EXCEPT !.status = "queued", !.user = u, !.key = k,
                                      !.fp = f, !.created = Cardinality(Drawn)]
    BY CommitRow DEF CreateTask
  <2> QED
    BY <2>1 DEF AbsentRow
<1>4. tasks[t].cancel = FALSE /\ tasks[t].attempt = 0 /\ tasks[t].progress = 0
  BY <1>2, StoreFacts DEF RowsOK, RowOK
<1>5. Life!Submit(t)
  BY <1>2, <1>3, <1>4, Columns, SameColumn DEF Life!Submit
<1>6. LifeStep
  BY <1>5 DEF LifeStep, Life!Next
<1>7. RowOK(tasks'[t])
  BY <1>3 DEF RowOK, Active
<1> QED
  BY <1>1, <1>2, <1>3, <1>4, <1>6, <1>7, RowMoves, NoneAssumption DEF Transaction

LEMMA CancelMoves ==
    ASSUME StoreInv, RowsOK, NEW t \in Tasks, RequestCancel(t)
    PROVE  /\ Transaction({}) /\ OneRow(t)
           /\ tasks[t].status \in Active /\ tasks'[t].cancel
           /\ tasks'[t].status = IF tasks[t].status = "queued" THEN "cancelled" ELSE "running"
           /\ tasks[t].status = "running" => /\ tasks'[t].worker = tasks[t].worker
                                             /\ tasks'[t].lease = tasks[t].lease
           /\ tasks'[t].attempt = tasks[t].attempt
<1>1. Next
  BY DEF Next, ClientNext
<1>2. tasks[t].status \in Active /\ OneRow(t)
  BY CommitRow DEF RequestCancel
<1>3. tasks[t] \in Rows
  BY StoreFacts
<1>4. CASE tasks[t].status = "queued"
  <2>1. tasks'[t] = [tasks[t] EXCEPT !.cancel = TRUE, !.status = "cancelled",
                                     !.worker = None, !.lease = "none"]
    BY <1>4, CommitRow DEF RequestCancel
  <2>2. /\ tasks'[t].cancel = TRUE /\ tasks'[t].status = "cancelled" /\ tasks'[t].worker = None
        /\ tasks'[t].attempt = tasks[t].attempt /\ tasks'[t].progress = tasks[t].progress
    BY <1>3, <2>1 DEF Rows
  <2>3. Life!AskCancel(t)
    BY <1>2, <1>4, <2>2, Columns, SameColumn DEF Life!AskCancel
  <2>4. LifeStep
    BY <2>3 DEF LifeStep, Life!Next
  <2>5. RowOK(tasks'[t])
    BY <2>2 DEF RowOK, Active
  <2> QED
    BY <1>1, <1>2, <1>4, <2>2, <2>4, <2>5, RowMoves, NoneAssumption DEF Transaction
<1>5. CASE tasks[t].status = "running"
  <2>1. tasks'[t] = [tasks[t] EXCEPT !.cancel = TRUE]
    BY <1>5, CommitRow DEF RequestCancel
  <2>2. /\ tasks'[t].cancel = TRUE /\ tasks'[t].status = "running"
        /\ tasks'[t].worker = tasks[t].worker /\ tasks'[t].lease = tasks[t].lease
        /\ tasks'[t].attempt = tasks[t].attempt /\ tasks'[t].progress = tasks[t].progress
    BY <1>3, <1>5, <2>1 DEF Rows
  <2>3. Life!AskCancel(t)
    BY <1>2, <1>5, <2>2, Columns, SameColumn DEF Life!AskCancel
  <2>4. LifeStep
    BY <2>3 DEF LifeStep, Life!Next
  <2>5. RowOK(tasks'[t])
    BY <1>5, <2>2 DEF RowOK, RowsOK, Active
  <2> QED
    BY <1>1, <1>2, <1>5, <2>2, <2>4, <2>5, RowMoves DEF Transaction
<1> QED
  BY <1>2, <1>4, <1>5 DEF Active

LEMMA DeleteMoves ==
    ASSUME StoreInv, RowsOK, NEW t \in Tasks, DeleteTask(t)
    PROVE  /\ Transaction({}) /\ OneRow(t)
           /\ tasks[t].status \notin {"absent", "deleted"}
           /\ tasks'[t].status = "deleted" /\ tasks'[t].worker = None
<1>1. Next
  BY DEF Next, ClientNext
<1>2. tasks[t].status \notin {"absent", "deleted"}
  BY DEF DeleteTask, Allocated
<1>3. /\ OneRow(t)
      /\ tasks'[t].status = "deleted" /\ tasks'[t].cancel = FALSE /\ tasks'[t].attempt = 0
      /\ tasks'[t].progress = 0 /\ tasks'[t].worker = None
  BY StoreFacts DEF DeleteTask, AbsentRow, TypeOK, OneRow
<1>4. Life!Delete(t)
  BY <1>2, <1>3, Columns DEF Life!Delete
<1>5. LifeStep
  BY <1>4 DEF LifeStep, Life!Next
<1>6. RowOK(tasks'[t])
  BY <1>3 DEF RowOK, Active
<1> QED
  BY <1>1, <1>2, <1>3, <1>5, <1>6, RowMoves, NoneAssumption DEF Transaction

LEMMA ClaimMoves ==
    ASSUME StoreInv, RowsOK, NEW t \in Tasks, NEW w \in Workers, ClaimNext(w, t)
    PROVE  /\ Transaction({w}) /\ OneRow(t)
           /\ Claimable(t)
           /\ tasks'[t].status = "running" /\ tasks'[t].worker = w
           /\ tasks'[t].lease = "valid" /\ tasks'[t].attempt = tasks[t].attempt + 1
           /\ ~tasks[t].cancel /\ ~tasks'[t].cancel
<1> DEFINE p == Larger(tasks[t].progress, 1)
           more == tasks[t].recoveries + (IF tasks[t].status = "running" THEN 1 ELSE 0)
<1>1. Next
  BY DEF Next, WorkerNext
<1>2. Claimable(t) /\ tasks[t].status \in {"queued", "running"} /\ ~tasks[t].cancel /\ OneRow(t)
  BY CommitRow DEF ClaimNext, MayPick, Claimable
<1>3. tasks[t] \in Rows /\ tasks[t].progress \in 0..99
  BY <1>2, StoreFacts DEF RowsOK, RowOK, Active
<1>4. tasks'[t] = [tasks[t] EXCEPT !.status = "running", !.worker = w, !.lease = "valid",
                                   !.attempt = tasks[t].attempt + 1, !.recoveries = more,
                                   !.progress = p]
  BY CommitRow DEF ClaimNext
<1>5. p \in {tasks[t].progress, 1} /\ p >= tasks[t].progress /\ p <= 99
  BY <1>3 DEF Larger
<1> HIDE DEF p, more
<1>6. /\ tasks'[t].status = "running" /\ tasks'[t].worker = w /\ tasks'[t].lease = "valid"
      /\ tasks'[t].attempt = tasks[t].attempt + 1 /\ tasks'[t].progress = p
      /\ tasks'[t].cancel = tasks[t].cancel
  BY <1>3, <1>4 DEF Rows
<1>7. Life!Begin(t)
  <2>1. [s \in Tasks |-> tasks'[s].progress] =
           [[s \in Tasks |-> tasks[s].progress] EXCEPT ![t] = p]
    BY <1>2, <1>6, Columns
  <2>2. [s \in Tasks |-> tasks'[s].attempt] =
           [[s \in Tasks |-> tasks[s].attempt] EXCEPT ![t] = @ + 1]
    BY <1>2, <1>6, Columns
  <2> QED
    BY <1>2, <1>5, <1>6, <2>1, <2>2, Columns, SameColumn DEF Life!Begin
<1>8. LifeStep
  BY <1>7 DEF LifeStep, Life!Next
<1>9. RowOK(tasks'[t])
  BY <1>5, <1>6 DEF RowOK
<1> QED
  BY <1>1, <1>2, <1>6, <1>8, <1>9, RowMoves DEF Transaction

\* A heartbeat or the clock moves a lease, which no client sees.
LEMMA LeaseMoves ==
    ASSUME StoreInv, RowsOK, NEW t \in Tasks, NEW x, Next,
           tasks' = [tasks EXCEPT ![t].lease = x], tasks[t].status = "running"
    PROVE  /\ Transaction({}) /\ OneRow(t)
           /\ tasks'[t] = [tasks[t] EXCEPT !.lease = x]
           /\ tasks'[t].status = tasks[t].status /\ tasks'[t].worker = tasks[t].worker
           /\ tasks'[t].attempt = tasks[t].attempt /\ tasks'[t].cancel = tasks[t].cancel
           /\ tasks'[t].lease = x
<1>1. TypeOK /\ tasks[t] \in Rows
  BY StoreFacts
<1>2. tasks'[t] = [tasks[t] EXCEPT !.lease = x] /\ OneRow(t)
  BY <1>1 DEF TypeOK, OneRow
<1>3. /\ tasks'[t].status = tasks[t].status /\ tasks'[t].worker = tasks[t].worker
      /\ tasks'[t].attempt = tasks[t].attempt /\ tasks'[t].cancel = tasks[t].cancel
      /\ tasks'[t].progress = tasks[t].progress /\ tasks'[t].lease = x
  BY <1>1, <1>2 DEF Rows
<1>4. LifeStep
  BY <1>2, <1>3, SameColumn DEF LifeStep, Life!lifeVars
<1>5. RowOK(tasks'[t])
  BY <1>3 DEF RowsOK, RowOK
<1> QED
  BY <1>2, <1>3, <1>4, <1>5, RowMoves DEF Transaction

LEMMA HeartbeatMoves ==
    ASSUME StoreInv, RowsOK, NEW t \in Tasks, NEW w \in Workers, Heartbeat(t, w)
    PROVE  /\ Transaction({}) /\ OneRow(t)
           /\ tasks'[t].status = tasks[t].status /\ tasks'[t].worker = tasks[t].worker
           /\ tasks'[t].attempt = tasks[t].attempt /\ tasks'[t].cancel = tasks[t].cancel
           /\ tasks'[t].lease = "valid"
<1>1. Next
  BY DEF Next, WorkerNext
<1>2. tasks[t].status = "running" /\ tasks' = [tasks EXCEPT ![t].lease = "valid"]
  BY DEF Heartbeat, MayHeartbeat, HasValidLease
<1> QED
  BY <1>1, <1>2, LeaseMoves

LEMMA ExpiryMoves ==
    ASSUME StoreInv, RowsOK, NEW t \in Tasks, LeaseExpires(t)
    PROVE  /\ Transaction({}) /\ OneRow(t) /\ tasks[t].status = "running"
           /\ tasks[t].lease = "valid"
           /\ tasks'[t].status = tasks[t].status /\ tasks'[t].worker = tasks[t].worker
           /\ tasks'[t].attempt = tasks[t].attempt /\ tasks'[t].cancel = tasks[t].cancel
<1>1. Next
  BY DEF Next
<1>2. tasks[t].lease = "valid" /\ tasks' = [tasks EXCEPT ![t].lease = "expired"]
  BY DEF LeaseExpires
<1>3. tasks[t].status = "running"
  BY <1>2, StoreFacts
<1> QED
  BY <1>1, <1>2, <1>3, LeaseMoves

\* Progress is below 100 for a task that is not settled, whatever the mark.
LEMMA ProgressMoves ==
    ASSUME StoreInv, RowsOK, NEW t \in Tasks, NEW w \in Workers, NEW type \in ProgressEvents,
           NEW mark \in Marks, RecordProgress(t, w, type, mark)
    PROVE  /\ Transaction({}) /\ OneRow(t) /\ HasValidLease(t, w)
           /\ tasks'[t].status = tasks[t].status /\ tasks'[t].worker = tasks[t].worker
           /\ tasks'[t].attempt = tasks[t].attempt /\ tasks'[t].cancel = tasks[t].cancel
           /\ tasks'[t].lease = tasks[t].lease
<1> DEFINE p == Larger(tasks[t].progress, Smaller(99, mark))
<1>1. Next
  BY DEF Next, WorkerNext
<1>2. HasValidLease(t, w) /\ tasks[t].status = "running" /\ OneRow(t)
  BY CommitRow DEF RecordProgress, HasValidLease
<1>3. tasks[t] \in Rows /\ tasks[t].progress \in 0..99
  BY <1>2, StoreFacts DEF RowsOK, RowOK, Active
<1>4. tasks'[t] = [tasks[t] EXCEPT !.progress = p]
  BY CommitRow DEF RecordProgress
<1>5. mark \in 0..100
  BY MarksAssumption
<1>6. p \in tasks[t].progress..99
  BY <1>3, <1>5 DEF Larger, Smaller
<1> HIDE DEF p
<1>7. /\ tasks'[t].status = tasks[t].status /\ tasks'[t].worker = tasks[t].worker
      /\ tasks'[t].attempt = tasks[t].attempt /\ tasks'[t].cancel = tasks[t].cancel
      /\ tasks'[t].lease = tasks[t].lease /\ tasks'[t].progress = p
  BY <1>3, <1>4 DEF Rows
<1>8. Life!Advance(t)
  <2>1. [s \in Tasks |-> tasks'[s].progress][t] = p /\ [s \in Tasks |-> tasks[s].progress][t] = tasks[t].progress
    BY <1>7
  <2> QED
    BY <1>2, <1>6, <1>7, <2>1, Columns, SameColumn DEF Life!Advance
<1>9. LifeStep
  BY <1>8 DEF LifeStep, Life!Next
<1>10. RowOK(tasks'[t])
  BY <1>2, <1>3, <1>6, <1>7 DEF RowOK
<1> QED
  BY <1>1, <1>2, <1>7, <1>9, <1>10, RowMoves DEF Transaction

\* A task is settled once, by its owner, and as cancelled only if that was asked.
LEMMA MarkMoves ==
    ASSUME StoreInv, RowsOK, NEW t \in Tasks, NEW w \in Workers, NEW status \in Terminal,
           MarkTerminal(t, w, status), status = "cancelled" => tasks[t].cancel
    PROVE  /\ Transaction({}) /\ OneRow(t)
           /\ tasks[t].status = "running" /\ tasks[t].worker = w
           /\ tasks'[t].status = status /\ tasks'[t].worker = None
           /\ tasks'[t].attempt = tasks[t].attempt /\ tasks'[t].cancel = tasks[t].cancel
<1> DEFINE p == IF status = "succeeded" THEN 100 ELSE tasks[t].progress
<1>1. Next
  BY DEF Next, WorkerNext
<1>2. tasks[t].worker = w /\ OneRow(t)
  BY CommitRow DEF MarkTerminal, MayMark, HasValidLease
<1>3. tasks[t] \in Rows /\ tasks[t].status = "running"
  BY <1>2, StoreFacts, NoneAssumption
<1>4. tasks'[t] = [tasks[t] EXCEPT !.status = status, !.worker = None, !.lease = "none",
                                   !.progress = p]
  BY CommitRow DEF MarkTerminal
<1>5. p = IF status = "succeeded" THEN 100 ELSE tasks[t].progress
  OBVIOUS
<1> HIDE DEF p
<1>6. /\ tasks'[t].status = status /\ tasks'[t].worker = None
      /\ tasks'[t].attempt = tasks[t].attempt /\ tasks'[t].cancel = tasks[t].cancel
      /\ tasks'[t].progress = p
  BY <1>3, <1>4 DEF Rows
<1>7. Life!Settle(t, status)
  <2>1. [s \in Tasks |-> tasks'[s].progress] =
           [[s \in Tasks |-> tasks[s].progress] EXCEPT ![t] =
              IF status = "succeeded" THEN 100 ELSE @]
    BY <1>2, <1>5, <1>6, Columns, ZenonT(40)
  <2> QED
    BY <1>2, <1>3, <1>6, <2>1, Columns, SameColumn DEF Life!Settle
<1>8. LifeStep
  BY <1>7 DEF LifeStep, Life!Next, Life!Outcomes, Terminal
<1>9. RowOK(tasks'[t])
  BY <1>6 DEF RowOK, Active, Terminal
<1> QED
  BY <1>1, <1>2, <1>3, <1>6, <1>8, <1>9, RowMoves, NoneAssumption DEF Transaction

LEMMA NoTransaction ==
    ASSUME StoreInv, RowsOK, UNCHANGED storeVars
    PROVE  Transaction({}) /\ tasks' = tasks
<1>1. tasks' = tasks
  BY DEF storeVars
<1>2. LifeStep
  BY <1>1 DEF LifeStep, Life!lifeVars
<1> QED
  BY <1>1, <1>2 DEF Transaction, Steady, RowsOK

----------------------------------------------------------------------------
(* What a step does to the thread that takes it.                           *)

\* The record of worker w, still at work on its task.
Rec(w, pc, chk, mem, kept, act, ok, err) ==
    [pc |-> pc, chk |-> chk, task |-> wk[w].task, att |-> wk[w].att, mem |-> mem,
     kept |-> kept, act |-> act, ok |-> ok, err |-> err, hb |-> wk[w].hb]

OneThread(w) ==
    /\ wk' = [v \in Workers |-> wk'[v]]
    /\ \A v \in Workers \ {w} : wk'[v] = wk[v]

Moved(w, pc, chk, mem, kept, act, ok, err) ==
    OneThread(w) /\ wk'[w] = Rec(w, pc, chk, mem, kept, act, ok, err)

LEMMA Moves ==
    ASSUME wk \in [Workers -> WorkerStates], NEW w \in Workers
    PROVE  LET r == wk[w] IN
           /\ \A l : Goto(w, l) => Moved(w, l, "own", r.mem, r.kept, r.act, r.ok, r.err)
           /\ \A l, m : GotoWith(w, l, m) => Moved(w, l, "own", m, r.kept, r.act, r.ok, r.err)
           /\ \A l, e : Raise(w, l, e) => Moved(w, l, "own", r.mem, r.kept, r.act, r.ok, e)
           /\ \A x : wk' = [wk EXCEPT ![w].chk = x] =>
                 Moved(w, r.pc, x, r.mem, r.kept, r.act, r.ok, r.err)
           /\ \A l, m, k : wk' = [wk EXCEPT ![w].pc = l, ![w].chk = "own", ![w].mem = m,
                                            ![w].kept = k] =>
                 Moved(w, l, "own", m, k, r.act, r.ok, r.err)
           /\ \A l, m, k : wk' = [wk EXCEPT ![w].pc = l, ![w].chk = "own", ![w].kept = k,
                                            ![w].mem = m] =>
                 Moved(w, l, "own", m, k, r.act, r.ok, r.err)
           /\ \A l, e, m : wk' = [wk EXCEPT ![w].pc = l, ![w].chk = "own", ![w].err = e,
                                            ![w].mem = m] =>
                 Moved(w, l, "own", m, r.kept, r.act, r.ok, e)
           /\ \A l, k, m : wk' = [wk EXCEPT ![w].pc = l, ![w].kept = k, ![w].mem = m] =>
                 Moved(w, l, r.chk, m, k, r.act, r.ok, r.err)
           /\ \A l, e, x : wk' = [wk EXCEPT ![w].pc = l, ![w].chk = "own", ![w].err = e,
                                            ![w].mem.status = x] =>
                 Moved(w, l, "own", [r.mem EXCEPT !.status = x], r.kept, r.act, r.ok, e)
           /\ \A l, a : wk' = [wk EXCEPT ![w].pc = l, ![w].chk = "own", ![w].act = a,
                                         ![w].ok = FALSE, ![w].mem.step = @ + 1] =>
                 Moved(w, l, "own", [r.mem EXCEPT !.step = @ + 1], r.kept, a, FALSE, r.err)
           /\ Succeeded(w) =>
                 Moved(w, "drain", "own", Advanced(r.mem), r.kept, r.act, TRUE, r.err)
<1> DEFINE r == wk[w]
<1>1. r \in WorkerStates
  OBVIOUS
<1>2. ASSUME NEW l, Goto(w, l)
      PROVE  Moved(w, l, "own", r.mem, r.kept, r.act, r.ok, r.err)
  BY <1>1, <1>2 DEF Goto, Moved, OneThread, Rec, WorkerStates
<1>3. ASSUME NEW l, NEW m, GotoWith(w, l, m)
      PROVE  Moved(w, l, "own", m, r.kept, r.act, r.ok, r.err)
  BY <1>1, <1>3 DEF GotoWith, Moved, OneThread, Rec, WorkerStates
<1>4. ASSUME NEW l, NEW e, Raise(w, l, e)
      PROVE  Moved(w, l, "own", r.mem, r.kept, r.act, r.ok, e)
  BY <1>1, <1>4 DEF Raise, Moved, OneThread, Rec, WorkerStates
<1>5. ASSUME NEW x, wk' = [wk EXCEPT ![w].chk = x]
      PROVE  Moved(w, r.pc, x, r.mem, r.kept, r.act, r.ok, r.err)
  BY <1>1, <1>5 DEF Moved, OneThread, Rec, WorkerStates
<1>6. ASSUME NEW l, NEW m, NEW k,
             \/ wk' = [wk EXCEPT ![w].pc = l, ![w].chk = "own", ![w].mem = m, ![w].kept = k]
             \/ wk' = [wk EXCEPT ![w].pc = l, ![w].chk = "own", ![w].kept = k, ![w].mem = m]
      PROVE  Moved(w, l, "own", m, k, r.act, r.ok, r.err)
  BY <1>1, <1>6 DEF Moved, OneThread, Rec, WorkerStates
<1>7. ASSUME NEW l, NEW e, NEW m,
             wk' = [wk EXCEPT ![w].pc = l, ![w].chk = "own", ![w].err = e, ![w].mem = m]
      PROVE  Moved(w, l, "own", m, r.kept, r.act, r.ok, e)
  BY <1>1, <1>7 DEF Moved, OneThread, Rec, WorkerStates
<1>8. ASSUME NEW l, NEW k, NEW m,
             wk' = [wk EXCEPT ![w].pc = l, ![w].kept = k, ![w].mem = m]
      PROVE  Moved(w, l, r.chk, m, k, r.act, r.ok, r.err)
  BY <1>1, <1>8 DEF Moved, OneThread, Rec, WorkerStates
<1>9. ASSUME NEW l, NEW e, NEW x,
             wk' = [wk EXCEPT ![w].pc = l, ![w].chk = "own", ![w].err = e, ![w].mem.status = x]
      PROVE  Moved(w, l, "own", [r.mem EXCEPT !.status = x], r.kept, r.act, r.ok, e)
  BY <1>1, <1>9 DEF Moved, OneThread, Rec, WorkerStates
<1>10. ASSUME NEW l, NEW a,
              wk' = [wk EXCEPT ![w].pc = l, ![w].chk = "own", ![w].act = a,
                               ![w].ok = FALSE, ![w].mem.step = @ + 1]
       PROVE  Moved(w, l, "own", [r.mem EXCEPT !.step = @ + 1], r.kept, a, FALSE, r.err)
  BY <1>1, <1>10 DEF Moved, OneThread, Rec, WorkerStates
<1>11. ASSUME Succeeded(w)
       PROVE  Moved(w, "drain", "own", Advanced(r.mem), r.kept, r.act, TRUE, r.err)
  BY <1>1, <1>11 DEF Succeeded, Moved, OneThread, Rec, WorkerStates
<1> HIDE DEF r
<1> QED
  BY <1>2, <1>3, <1>4, <1>5, <1>6, <1>7, <1>8, <1>9, <1>10, <1>11 DEF r

----------------------------------------------------------------------------
(* The invariant under any fault is kept by every step.                    *)

StepOK == RuntimeIInv' /\ [Next]_storeVars /\ LifeStep

LEMMA AgentUpdates ==
    /\ NoState \in AgentStates /\ [NoState EXCEPT !.status = "running"] \in AgentStates
    /\ \A m \in AgentStates :
          /\ \A x \in AgentStatuses : [m EXCEPT !.status = x] \in AgentStates
          /\ \A n \in Nat : [m EXCEPT !.by = n] \in AgentStates
          /\ [m EXCEPT !.step = @ + 1] \in AgentStates
          /\ Advanced(m) \in AgentStates
<1>1. NoState \in AgentStates /\ [NoState EXCEPT !.status = "running"] \in AgentStates
  BY DEF NoState, AgentStates, AgentStatuses
<1>2. ASSUME NEW m \in AgentStates
      PROVE  /\ \A x \in AgentStatuses : [m EXCEPT !.status = x] \in AgentStates
             /\ \A n \in Nat : [m EXCEPT !.by = n] \in AgentStates
             /\ [m EXCEPT !.step = @ + 1] \in AgentStates
             /\ Advanced(m) \in AgentStates
  <2>1. m.work \in Nat /\ m.step \in Nat
    BY DEF AgentStates
  <2>2. m.work + 1 \in Nat /\ m.step + 1 \in Nat
    BY <2>1
  <2>3. \A x \in AgentStatuses : [m EXCEPT !.status = x] \in AgentStates
    BY Zenon DEF AgentStates
  <2>4. \A n \in Nat : [m EXCEPT !.by = n] \in AgentStates
    BY Zenon DEF AgentStates
  <2>5. \A n \in Nat : [m EXCEPT !.step = n] \in AgentStates /\ [m EXCEPT !.work = n] \in AgentStates
    BY Zenon DEF AgentStates
  <2>6. [m EXCEPT !.finished = TRUE, !.status = "completed"] \in AgentStates
    BY DEF AgentStates, AgentStatuses
  <2>7. [m EXCEPT !.step = @ + 1] \in AgentStates /\ [m EXCEPT !.work = @ + 1] \in AgentStates
    BY <2>2, <2>5
  <2> QED
    BY <2>3, <2>4, <2>6, <2>7 DEF Advanced
<1> QED
  BY <1>1, <1>2

LEMMA WorkerFacts ==
    ASSUME RuntimeIInv, NEW w \in Workers
    PROVE  /\ StoreInv /\ RowsOK
           /\ wk \in [Workers -> WorkerStates] /\ ckpt \in [Tasks -> AgentStates]
           /\ faults \in Faults
           /\ wk[w] \in WorkerStates
           /\ wk[w].pc \in Locations /\ wk[w].chk \in {"own", "flag", "done"}
           /\ wk[w].att \in Nat /\ wk[w].mem \in AgentStates /\ wk[w].kept \in BOOLEAN
           /\ wk[w].act \in {"act", "finish"} /\ wk[w].ok \in BOOLEAN /\ wk[w].err \in Errors
           /\ wk[w].hb \in BOOLEAN
           /\ Busy(w) => /\ wk[w].task \in Tasks /\ ckpt[wk[w].task] \in AgentStates
                         /\ Thread(w, wk[w], tasks[wk[w].task])
           /\ wk[w].hb => Busy(w)
<1>1. wk[w] \in WorkerStates
  BY DEF RuntimeIInv
<1>2. /\ wk[w].pc \in Locations /\ wk[w].chk \in {"own", "flag", "done"}
      /\ wk[w].att \in Nat /\ wk[w].mem \in AgentStates /\ wk[w].kept \in BOOLEAN
      /\ wk[w].act \in {"act", "finish"} /\ wk[w].ok \in BOOLEAN /\ wk[w].err \in Errors
      /\ wk[w].hb \in BOOLEAN
  BY <1>1 DEF WorkerStates
<1> QED
  BY <1>1, <1>2 DEF RuntimeIInv, ThreadsOK

\* Worker w goes on with its task, and cancels it only if that was asked for.
Goes(w) ==
    \E pc \in Locations \ {"idle", "dead"}, chk \in {"own", "flag", "done"}, mem \in AgentStates,
      kept \in BOOLEAN, act \in {"act", "finish"}, ok \in BOOLEAN, err \in Errors :
        /\ Moved(w, pc, chk, mem, kept, act, ok, err)
        /\ pc \in CancelPcs \/ err = "cancelled" =>
              \/ wk[w].pc \in CancelPcs \/ wk[w].err = "cancelled"
              \/ CancelRequested(wk[w].task)

\* Threads that a transaction leaves alone.
LEMMA ThreadStays ==
    ASSUME RuntimeIInv, NEW v \in Workers, Steady(v), wk'[v] = wk[v]
    PROVE  /\ wk'[v].hb => Busy(v)'
           /\ Busy(v)' => wk'[v].task \in Tasks /\ Thread(v, wk'[v], tasks'[wk'[v].task])
<1>1. Busy(v)' = Busy(v)
  BY DEF Busy
<1>2. ASSUME Busy(v)
      PROVE  Thread(v, wk[v], tasks'[wk[v].task])
  BY <1>2, WorkerFacts DEF Thread, CancelsAsked, Steady
<1> QED
  BY <1>1, <1>2, WorkerFacts

LEMMA LeaveMoves ==
    ASSUME wk \in [Workers -> WorkerStates], NEW w \in Workers, Leave(w)
    PROVE  wk'[w] = IdleWorker /\ OneThread(w) /\ IdleWorker \in WorkerStates
<1>1. IdleWorker \in WorkerStates
  BY AgentUpdates DEF IdleWorker, WorkerStates, Locations, Unchecked, Errors
<1> QED
  BY <1>1 DEF Leave, OneThread

LEMMA TurnKeeps ==
    ASSUME RuntimeIInv, NEW w \in Workers, Busy(w), Goes(w) \/ Leave(w), Transaction({}),
           ckpt' \in [Tasks -> AgentStates], faults' \in Faults
    PROVE  StepOK
<1>1. /\ StoreInv /\ RowsOK /\ wk \in [Workers -> WorkerStates] /\ wk[w].task \in Tasks
      /\ Thread(w, wk[w], tasks[wk[w].task]) /\ wk[w].att \in Nat /\ wk[w].hb \in BOOLEAN
  BY WorkerFacts
<1>2. StoreInv' /\ RowsOK' /\ [Next]_storeVars /\ LifeStep /\ \A v \in Workers : Steady(v)
  BY <1>1, NextInv DEF Transaction
<1>3. CASE Leave(w)
  <2>1. wk'[w] = IdleWorker /\ OneThread(w) /\ IdleWorker \in WorkerStates
    BY <1>1, <1>3, LeaveMoves
  <2>2. wk' \in [Workers -> WorkerStates]
    BY <1>1, <2>1 DEF OneThread
  <2>3. ~Busy(w)' /\ ~wk'[w].hb
    BY <2>1 DEF Busy, IdleWorker
  <2>4. ThreadsOK'
    BY <1>2, <2>1, <2>3, ThreadStays DEF ThreadsOK, OneThread
  <2> QED
    BY <1>2, <2>2, <2>4 DEF StepOK, RuntimeIInv
<1>4. CASE Goes(w)
  <2>1. PICK pc \in Locations \ {"idle", "dead"}, chk \in {"own", "flag", "done"},
             mem \in AgentStates, kept \in BOOLEAN, act \in {"act", "finish"}, ok \in BOOLEAN,
             err \in Errors :
          /\ Moved(w, pc, chk, mem, kept, act, ok, err)
          /\ pc \in CancelPcs \/ err = "cancelled" =>
                \/ wk[w].pc \in CancelPcs \/ wk[w].err = "cancelled"
                \/ CancelRequested(wk[w].task)
    BY <1>4 DEF Goes
  <2> DEFINE r == Rec(w, pc, chk, mem, kept, act, ok, err)
  <2>2. wk'[w] = r /\ OneThread(w)
    BY <2>1 DEF Moved
  <2>3. /\ r.pc = pc /\ r.err = err /\ r.task = wk[w].task /\ r.att = wk[w].att
        /\ r \in WorkerStates
    BY <1>1 DEF Rec, WorkerStates
  <2> HIDE DEF r
  <2>4. wk' \in [Workers -> WorkerStates]
    BY <1>1, <2>2, <2>3 DEF OneThread
  <2>5. Busy(w)'
    BY <2>2, <2>3 DEF Busy
  <2>6. Thread(w, r, tasks'[wk[w].task])
    <3> SUFFICES ASSUME tasks'[wk[w].task].worker = w
                 PROVE  /\ wk[w].att = tasks'[wk[w].task].attempt
                        /\ pc \in CancelPcs \/ err = "cancelled" => tasks'[wk[w].task].cancel
      BY <2>3 DEF Thread, CancelsAsked
    <3>1. /\ tasks[wk[w].task].worker = w
          /\ tasks'[wk[w].task].attempt = tasks[wk[w].task].attempt
          /\ tasks[wk[w].task].cancel => tasks'[wk[w].task].cancel
      BY <1>1, <1>2 DEF Steady
    <3>2. tasks[wk[w].task].status = "running"
      BY <1>1, <3>1, StoreFacts, NoneAssumption
    <3> QED
      BY <1>1, <2>1, <3>1, <3>2 DEF Thread, CancelsAsked, CancelRequested
  <2>7. ThreadsOK'
    BY <1>1, <1>2, <2>2, <2>3, <2>5, <2>6, ThreadStays DEF ThreadsOK, OneThread
  <2> QED
    BY <1>2, <2>4, <2>7 DEF StepOK, RuntimeIInv
<1> QED
  BY <1>3, <1>4

LEMMA GoesBy ==
    ASSUME NEW w \in Workers, NEW pc \in Locations \ {"idle", "dead"},
           NEW chk \in {"own", "flag", "done"}, NEW mem \in AgentStates, NEW kept \in BOOLEAN,
           NEW act \in {"act", "finish"}, NEW ok \in BOOLEAN, NEW err \in Errors,
           Moved(w, pc, chk, mem, kept, act, ok, err),
           pc \in CancelPcs \/ err = "cancelled" =>
              \/ wk[w].pc \in CancelPcs \/ wk[w].err = "cancelled"
              \/ CancelRequested(wk[w].task)
    PROVE  Goes(w)
BY DEF Goes

LEMMA DbErrorType ==
    ASSUME faults \in Faults, DbError
    PROVE  faults' \in Faults
<1>1. faults.db \in 0..MaxDbErrors /\ MaxDbErrors \in Nat /\ faults.db < MaxDbErrors
  BY BoundsAssumption DEF Faults, DbError
<1>2. faults.db + 1 \in 0..MaxDbErrors
  BY <1>1
<1> QED
  BY <1>2 DEF DbError, Faults

\* Locations by name.
LEMMA Places ==
    /\ Checked \subseteq Locations \ {"idle", "dead"}
    /\ Checked \cap CancelPcs = {}
    /\ {"verify", "local", "complete", "succeed", "failing"} \subseteq Locations \ {"idle", "dead"}
    /\ {"verify", "local", "complete", "succeed", "failing"} \cap CancelPcs = {}
    /\ CancelPcs \subseteq Locations \ {"idle", "dead"}
    /\ InTry \subseteq Checked
BY DEF Checked, Locations, Unchecked, CancelPcs, InTry

\* A thread goes on to a place where it does not cancel, with the exception it
\* had, or a new one that is no cancellation.
LEMMA GoesOn ==
    ASSUME RuntimeIInv, NEW w \in Workers,
           NEW pc \in Checked \cup {"verify", "local", "complete", "succeed", "failing"},
           NEW chk \in {"own", "flag", "done"}, NEW mem \in AgentStates, NEW kept \in BOOLEAN,
           NEW act \in {"act", "finish"}, NEW ok \in BOOLEAN,
           NEW err \in {"none", "failed", "timed_out", wk[w].err},
           Moved(w, pc, chk, mem, kept, act, ok, err)
    PROVE  Goes(w)
<1>1. pc \in Locations \ {"idle", "dead"} /\ pc \notin CancelPcs
  BY Places
<1>2. err \in Errors /\ (err = "cancelled" => wk[w].err = "cancelled")
  BY WorkerFacts DEF Errors
<1> QED
  BY <1>1, <1>2, GoesBy

LEMMA InterruptGoes ==
    ASSUME RuntimeIInv, NEW w \in Workers, NEW err \in {"failed", "cancelled"},
           Interrupt(w, err), err = "cancelled" => CancelRequested(wk[w].task)
    PROVE  Goes(w)
<1> DEFINE r == wk[w]
           l == IF wk[w].pc \in InTry THEN "verify"
                ELSE IF err = "cancelled" THEN "cancelRead" ELSE "failing"
<1>1. Raise(w, l, err)
  BY DEF Interrupt
<1>2. l \in {"verify", "cancelRead", "failing"} /\ (l = "cancelRead" => err = "cancelled")
  OBVIOUS
<1> HIDE DEF l
<1>3. wk \in [Workers -> WorkerStates] /\ r.mem \in AgentStates /\ r.kept \in BOOLEAN
      /\ r.act \in {"act", "finish"} /\ r.ok \in BOOLEAN
  BY WorkerFacts
<1>4. Moved(w, l, "own", r.mem, r.kept, r.act, r.ok, err)
  BY <1>1, <1>3, Moves
<1>5. l \in Locations \ {"idle", "dead"} /\ err \in Errors
  BY <1>2, Places DEF CancelPcs, Errors
<1>6. l \in CancelPcs \/ err = "cancelled" => CancelRequested(r.task)
  BY <1>2 DEF CancelPcs
<1> HIDE DEF r
<1> QED
  BY <1>3, <1>4, <1>5, <1>6, GoesBy DEF r

\* Steps that only move the thread, or fail to read: what each goes on to.
Reads(w) == Goes(w) /\ UNCHANGED <<tasks, events, ckpt>> /\ faults' \in Faults

LEMMA CheckReads ==
    ASSUME RuntimeIInv, NEW w \in Workers, CheckOwnership(w) \/ CheckCancelFlag(w)
    PROVE  Reads(w)
<1> DEFINE r == wk[w]
<1>1. /\ wk \in [Workers -> WorkerStates] /\ r.mem \in AgentStates /\ r.kept \in BOOLEAN
      /\ r.act \in {"act", "finish"} /\ r.ok \in BOOLEAN /\ faults \in Faults
  BY WorkerFacts
<1>2. r.pc \in Checked \cup {"verify", "local", "complete", "succeed", "failing"}
  BY DEF CheckOwnership, CheckCancelFlag
<1>3. ASSUME NEW x \in {"flag", "done"}, wk' = [wk EXCEPT ![w].chk = x]
      PROVE  Goes(w)
  <2>1. Moved(w, r.pc, x, r.mem, r.kept, r.act, r.ok, r.err)
    BY <1>1, <1>3, Moves
  <2> QED
    BY <1>1, <1>2, <2>1, GoesOn
<1>4. UNCHANGED <<tasks, events, ckpt>> /\ faults' \in Faults
  BY <1>1, DbErrorType DEF CheckOwnership, CheckCancelFlag
<1>5. CASE CheckOwnership(w)
  BY <1>3, <1>4, <1>5, InterruptGoes DEF CheckOwnership, Reads
<1>6. CASE CheckCancelFlag(w)
  BY <1>3, <1>4, <1>6, InterruptGoes DEF CheckCancelFlag, Reads
<1> QED
  BY <1>5, <1>6

LEMMA LoadReads ==
    ASSUME RuntimeIInv, NEW w \in Workers, LoadOrStart(w)
    PROVE  Reads(w)
<1> DEFINE r == wk[w]
           saved == ckpt[r.task]
           done == saved.finished \/ saved.status = "completed"
           mem == IF saved = NoState THEN [NoState EXCEPT !.status = "running"]
                  ELSE IF done THEN saved ELSE [saved EXCEPT !.status = "running"]
           l == IF done THEN "final" ELSE "init"
<1>1. /\ wk \in [Workers -> WorkerStates] /\ r.mem \in AgentStates /\ r.kept \in BOOLEAN
      /\ r.act \in {"act", "finish"} /\ r.ok \in BOOLEAN /\ faults \in Faults
  BY WorkerFacts
<1>2. r.pc = "enter" /\ saved \in AgentStates
  BY WorkerFacts DEF LoadOrStart, At, Busy
<1>3. mem \in AgentStates /\ l \in {"final", "init"} /\ (saved # NoState) \in BOOLEAN
  BY <1>2, AgentUpdates DEF AgentStatuses
<1>4. UNCHANGED <<tasks, events, ckpt>> /\ faults' \in Faults
  BY <1>1, DbErrorType DEF LoadOrStart
<1>5. \/ wk' = [wk EXCEPT ![w].pc = l, ![w].chk = "own", ![w].kept = saved # NoState,
                         ![w].mem = mem]
      \/ Raise(w, "failing", "failed")
  BY DEF LoadOrStart
<1> HIDE DEF saved, mem, l
<1>6. CASE wk' = [wk EXCEPT ![w].pc = l, ![w].chk = "own", ![w].kept = saved # NoState,
                            ![w].mem = mem]
  <2>1. Moved(w, l, "own", mem, saved # NoState, r.act, r.ok, r.err)
    BY <1>1, <1>6, Moves
  <2>2. l \in Checked
    BY <1>3 DEF Checked
  <2>3. PICK m \in AgentStates, k \in BOOLEAN, a \in {"act", "finish"}, o \in BOOLEAN :
           Moved(w, l, "own", m, k, a, o, r.err)
    BY <1>1, <1>3, <2>1
  <2>4. Goes(w)
    BY <2>2, <2>3, GoesOn
  <2> QED
    BY <1>4, <2>4 DEF Reads
<1>7. CASE Raise(w, "failing", "failed")
  <2>1. Moved(w, "failing", "own", r.mem, r.kept, r.act, r.ok, "failed")
    BY <1>1, <1>7, Moves
  <2>2. Goes(w)
    BY <1>1, <2>1, GoesOn, ZenonT(40)
  <2> QED
    BY <1>4, <2>2 DEF Reads
<1> QED
  BY <1>5, <1>6, <1>7

\* The moves of the loop.
LEMMA LoopMoves ==
    ASSUME RuntimeIInv, NEW w \in Workers
    PROVE  /\ \A l \in Checked \cup {"verify", "local", "complete", "succeed", "failing"} :
                 Goto(w, l) => Goes(w)
           /\ \A l \in Checked \cup {"verify", "local", "complete", "succeed", "failing"},
                e \in {"failed", "timed_out"}, x \in {"failed", "stopped"} :
                 wk' = [wk EXCEPT ![w].pc = l, ![w].chk = "own", ![w].err = e,
                                  ![w].mem.status = x] => Goes(w)
           /\ \A l \in {"failing"} : Raise(w, l, "failed") => Goes(w)
           /\ \A l \in {"drain"} : GotoWith(w, l, Advanced(wk[w].mem)) => Goes(w)
           /\ Succeeded(w) \/ Fatal(w) \/ Unfinished(w) \/ Stopped(w) => Goes(w)
<1> DEFINE r == wk[w]
           Places0 == Checked \cup {"verify", "local", "complete", "succeed", "failing"}
<1>1. /\ wk \in [Workers -> WorkerStates] /\ r.mem \in AgentStates /\ r.kept \in BOOLEAN
      /\ r.act \in {"act", "finish"} /\ r.ok \in BOOLEAN
  BY WorkerFacts
<1>2. ASSUME NEW l \in Places0, Goto(w, l) PROVE Goes(w)
  <2>1. Moved(w, l, "own", r.mem, r.kept, r.act, r.ok, r.err)
    BY <1>1, <1>2, Moves
  <2> QED
    BY <1>1, <2>1, GoesOn, ZenonT(40)
<1>3. ASSUME NEW l \in Places0, NEW e \in {"failed", "timed_out"}, NEW x \in {"failed", "stopped"},
             wk' = [wk EXCEPT ![w].pc = l, ![w].chk = "own", ![w].err = e, ![w].mem.status = x]
      PROVE  Goes(w)
  <2>1. Moved(w, l, "own", [r.mem EXCEPT !.status = x], r.kept, r.act, r.ok, e)
    BY <1>1, <1>3, Moves
  <2>2. [r.mem EXCEPT !.status = x] \in AgentStates
    BY <1>1, AgentUpdates DEF AgentStatuses
  <2>3. PICK m \in AgentStates, k \in BOOLEAN, a \in {"act", "finish"}, o \in BOOLEAN :
           Moved(w, l, "own", m, k, a, o, e)
    <3> HIDE DEF r
    <3> QED
      BY <1>1, <2>1, <2>2
  <2> QED
    BY <2>3, GoesOn
<1>4. ASSUME Raise(w, "failing", "failed") PROVE Goes(w)
  <2>1. Moved(w, "failing", "own", r.mem, r.kept, r.act, r.ok, "failed")
    BY <1>1, <1>4, Moves
  <2> QED
    BY <1>1, <2>1, GoesOn, ZenonT(40)
<1>5. Advanced(r.mem) \in AgentStates /\ "drain" \in Checked /\ "retry" \in Checked
  BY <1>1, AgentUpdates DEF Checked
<1>6. ASSUME GotoWith(w, "drain", Advanced(r.mem)) PROVE Goes(w)
  <2>1. Moved(w, "drain", "own", Advanced(r.mem), r.kept, r.act, r.ok, r.err)
    BY <1>1, <1>6, Moves
  <2> QED
    BY <1>1, <1>5, <2>1, GoesOn, ZenonT(40)
<1>7. ASSUME Succeeded(w) PROVE Goes(w)
  <2>1. Moved(w, "drain", "own", Advanced(r.mem), r.kept, r.act, TRUE, r.err)
    BY <1>1, <1>7, Moves
  <2> QED
    BY <1>1, <1>5, <2>1, GoesOn, ZenonT(40)
<1>8. Fatal(w) \/ Unfinished(w) \/ Stopped(w) => Goes(w)
  BY <1>2, <1>3, <1>5 DEF Fatal, Unfinished, Stopped
<1> QED
  BY <1>2, <1>3, <1>4, <1>6, <1>7, <1>8

LEMMA LoopReads ==
    ASSUME RuntimeIInv, NEW w \in Workers,
           \/ BudgetCheck(w) \/ LocalAction(w) \/ ToolCall(w) \/ Drain(w) \/ BackoffDone(w)
           \/ Verified(w) \/ Finalize(w)
    PROVE  Reads(w)
<1>1. {"gate", "halt", "retry", "save", "drain"} \subseteq Checked
  BY DEF Checked
<1>2. UNCHANGED <<tasks, events, ckpt, faults>> /\ faults \in Faults
  BY WorkerFacts DEF BudgetCheck, LocalAction, ToolCall, Drain, BackoffDone, Verified, Finalize
<1>3. Goes(w)
  BY <1>1, LoopMoves
  DEF BudgetCheck, LocalAction, ToolCall, Drain, BackoffDone, Verified, Finalize, Unfinished
<1> QED
  BY <1>2, <1>3 DEF Reads

\* The exception in flight goes on, a cancellation to its handler.
LEMMA NextTurnReads ==
    ASSUME RuntimeIInv, NEW w \in Workers, NextTurn(w)
    PROVE  Reads(w)
<1> DEFINE r == wk[w]
           l == IF r.err = "none" THEN LoopHead(r.mem)
                ELSE IF r.err = "cancelled" THEN "cancelRead" ELSE "failing"
<1>1. /\ wk \in [Workers -> WorkerStates] /\ r.mem \in AgentStates /\ r.kept \in BOOLEAN
      /\ r.act \in {"act", "finish"} /\ r.ok \in BOOLEAN /\ r.err \in Errors /\ faults \in Faults
  BY WorkerFacts
<1>2. /\ l \in {"final", "loop", "exhausted", "cancelRead", "failing"}
      /\ l = "cancelRead" => r.err = "cancelled"
  BY DEF LoopHead
<1>3. Goto(w, l) /\ UNCHANGED <<tasks, events, ckpt, faults>>
  BY DEF NextTurn
<1> HIDE DEF l
<1>4. Moved(w, l, "own", r.mem, r.kept, r.act, r.ok, r.err)
  BY <1>1, <1>3, Moves
<1>5. l \in Locations \ {"idle", "dead"} /\ (l \in CancelPcs => l = "cancelRead")
  BY <1>2 DEF Locations, Checked, Unchecked, CancelPcs
<1>6. Goes(w)
  BY <1>1, <1>2, <1>4, <1>5, GoesBy
<1> QED
  BY <1>1, <1>3, <1>6 DEF Reads

LEMMA CancelReads ==
    ASSUME RuntimeIInv, NEW w \in Workers, CancelRead(w)
    PROVE  Reads(w) \/ (Leave(w) /\ UNCHANGED <<tasks, events, ckpt>> /\ faults' \in Faults)
<1> DEFINE r == wk[w]
           saved == ckpt[r.task]
<1>1. /\ wk \in [Workers -> WorkerStates] /\ r.mem \in AgentStates /\ r.kept \in BOOLEAN
      /\ r.act \in {"act", "finish"} /\ r.ok \in BOOLEAN /\ r.err \in Errors /\ faults \in Faults
      /\ r.chk \in {"own", "flag", "done"}
  BY WorkerFacts
<1>2. r.pc = "cancelRead" /\ saved \in AgentStates
  BY WorkerFacts DEF CancelRead, At, Busy
<1>3. [saved EXCEPT !.status = "cancelled"] \in AgentStates
  BY <1>2, AgentUpdates DEF AgentStatuses
<1>4. UNCHANGED <<tasks, events, ckpt>> /\ faults' \in Faults
  BY <1>1, DbErrorType DEF CancelRead
<1>5. /\ {"markCancelled", "cancelWrite"} \subseteq Locations \ {"idle", "dead"}
      /\ r.pc \in CancelPcs
  BY <1>2, Places DEF CancelPcs
<1>6. ASSUME Goto(w, "markCancelled") PROVE Goes(w)
  <2>1. Moved(w, "markCancelled", "own", r.mem, r.kept, r.act, r.ok, r.err)
    BY <1>1, <1>6, Moves
  <2> QED
    BY <1>1, <1>5, <2>1, GoesBy
<1>7. ASSUME wk' = [wk EXCEPT ![w].pc = "cancelWrite", ![w].kept = TRUE,
                              ![w].mem = [saved EXCEPT !.status = "cancelled"]]
      PROVE  Goes(w)
  <2> DEFINE mem == [saved EXCEPT !.status = "cancelled"]
  <2>1. mem \in AgentStates /\ wk' = [wk EXCEPT ![w].pc = "cancelWrite", ![w].kept = TRUE,
                                                ![w].mem = mem]
    BY <1>3, <1>7
  <2> HIDE DEF mem, r
  <2>2. PICK kept \in BOOLEAN : kept = TRUE
    OBVIOUS
  <2>3. Moved(w, "cancelWrite", r.chk, mem, kept, r.act, r.ok, r.err)
    BY <1>1, <2>1, <2>2, Moves DEF r
  <2>4. wk[w].pc \in CancelPcs
    BY <1>5 DEF r
  <2> QED
    <3>1. /\ "cancelWrite" \in Locations \ {"idle", "dead"} /\ r.chk \in {"own", "flag", "done"}
          /\ mem \in AgentStates /\ r.act \in {"act", "finish"} /\ r.ok \in BOOLEAN
          /\ r.err \in Errors
      BY <1>1, <1>5, <2>1
    <3>2. "cancelWrite" \in CancelPcs \/ r.err = "cancelled" =>
              \/ wk[w].pc \in CancelPcs \/ wk[w].err = "cancelled"
              \/ CancelRequested(wk[w].task)
      BY <2>4
    <3> QED
      BY <2>3, <3>1, <3>2, GoesBy
<1> QED
  BY <1>4, <1>6, <1>7 DEF CancelRead, Reads

\* Steps that write the checkpoint, or fail to.
Saves(w) == /\ Goes(w) \/ Leave(w)
            /\ UNCHANGED storeVars /\ ckpt' \in [Tasks -> AgentStates] /\ faults' \in Faults

LEMMA WriteType ==
    ASSUME RuntimeIInv, NEW w \in Workers, Busy(w), NEW m \in AgentStates, WriteState(w, m)
    PROVE  /\ ckpt' \in [Tasks -> AgentStates]
           /\ ckpt'[wk[w].task] = [m EXCEPT !.by = wk[w].att]
           /\ \A t \in Tasks \ {wk[w].task} : ckpt'[t] = ckpt[t]
<1>1. [m EXCEPT !.by = wk[w].att] \in AgentStates
  BY WorkerFacts, AgentUpdates
<1>2. ckpt \in [Tasks -> AgentStates] /\ wk[w].task \in Tasks
  BY WorkerFacts
<1> QED
  BY <1>1, <1>2 DEF WriteState

LEMMA SaveSaves ==
    ASSUME RuntimeIInv, NEW w \in Workers, Busy(w), NEW m \in AgentStates,
           NEW next \in Checked \cup {"verify", "local", "complete", "succeed", "failing"},
           SaveState(w, m, next)
    PROVE  Saves(w)
<1> DEFINE r == wk[w]
           handler == IF wk[w].pc \in InTry THEN "verify" ELSE "failing"
           bad == [m EXCEPT !.status = "failed"]
           fail == wk' = [wk EXCEPT ![w].pc = handler, ![w].chk = "own", ![w].err = "failed",
                                    ![w].mem = bad]
<1>1. /\ wk \in [Workers -> WorkerStates] /\ r.mem \in AgentStates /\ r.kept \in BOOLEAN
      /\ r.act \in {"act", "finish"} /\ r.ok \in BOOLEAN /\ faults \in Faults
      /\ ckpt \in [Tasks -> AgentStates]
  BY WorkerFacts
<1>2. bad \in AgentStates /\ handler \in {"verify", "failing"}
  BY AgentUpdates DEF AgentStatuses
<1>3. UNCHANGED storeVars
  BY DEF SaveState
<1>4. ckpt' \in [Tasks -> AgentStates] /\ faults' \in Faults
  BY <1>1, WriteType, DbErrorType DEF SaveState
<1>5. \/ wk' = [wk EXCEPT ![w].pc = next, ![w].chk = "own", ![w].mem = m, ![w].kept = TRUE]
      \/ fail
  BY DEF SaveState
<1> HIDE DEF handler, bad
<1>6. CASE wk' = [wk EXCEPT ![w].pc = next, ![w].chk = "own", ![w].mem = m, ![w].kept = TRUE]
  <2>1. Moved(w, next, "own", m, TRUE, r.act, r.ok, r.err)
    BY <1>1, <1>6, Moves
  <2>2. Goes(w)
    BY <1>1, <2>1, GoesOn
  <2> QED
    BY <1>3, <1>4, <2>2 DEF Saves
<1>7. CASE fail
  <2>1. Moved(w, handler, "own", bad, r.kept, r.act, r.ok, "failed")
    BY <1>1, <1>7, Moves
  <2>2. handler \in Checked \cup {"verify", "local", "complete", "succeed", "failing"}
    BY <1>2
  <2> HIDE DEF r
  <2>3. Goes(w)
    BY <1>1, <1>2, <2>1, <2>2, GoesOn DEF r
  <2> QED
    BY <1>3, <1>4, <2>3 DEF Saves
<1> QED
  BY <1>5, <1>6, <1>7

LEMMA CheckpointSaves ==
    ASSUME RuntimeIInv, NEW w \in Workers,
           FirstCheckpoint(w) \/ RetryCheckpoint(w) \/ StepCheckpoint(w) \/ HaltCheckpoint(w)
    PROVE  Saves(w)
<1>1. Busy(w)
  BY DEF FirstCheckpoint, RetryCheckpoint, StepCheckpoint, HaltCheckpoint, At, Busy
<1>2. wk[w].mem \in AgentStates /\ [wk[w].mem EXCEPT !.status = "max_steps_reached"] \in AgentStates
  BY WorkerFacts, AgentUpdates DEF AgentStatuses
<1>3. LoopHead(wk[w].mem) \in Checked /\ "backoff" \in Checked
  BY DEF LoopHead, Checked
<1>4. CASE FirstCheckpoint(w)
  BY <1>1, <1>2, <1>3, <1>4, SaveSaves DEF FirstCheckpoint
<1>5. CASE RetryCheckpoint(w)
  <2>1. SaveState(w, wk[w].mem, "backoff") \/ SaveState(w, wk[w].mem, "verify")
    BY <1>5 DEF RetryCheckpoint
  <2> QED
    BY <1>1, <1>2, <1>3, <2>1, SaveSaves
<1>6. CASE StepCheckpoint(w)
  BY <1>1, <1>2, <1>6, SaveSaves DEF StepCheckpoint
<1>7. CASE HaltCheckpoint(w)
  BY <1>1, <1>2, <1>7, SaveSaves DEF HaltCheckpoint
<1> QED
  BY <1>4, <1>5, <1>6, <1>7

LEMMA CancelWriteSaves ==
    ASSUME RuntimeIInv, NEW w \in Workers, CancelWrite(w)
    PROVE  Saves(w)
<1> DEFINE r == wk[w]
<1>1. /\ wk \in [Workers -> WorkerStates] /\ r.mem \in AgentStates /\ r.kept \in BOOLEAN
      /\ r.act \in {"act", "finish"} /\ r.ok \in BOOLEAN /\ r.err \in Errors /\ faults \in Faults
      /\ ckpt \in [Tasks -> AgentStates]
  BY WorkerFacts
<1>2. r.pc = "cancelWrite" /\ Busy(w)
  BY DEF CancelWrite, At, Busy
<1>3. UNCHANGED storeVars /\ ckpt' \in [Tasks -> AgentStates] /\ faults' \in Faults
  BY <1>1, <1>2, WriteType, DbErrorType DEF CancelWrite
<1>4. ASSUME Goto(w, "markCancelled") PROVE Goes(w)
  <2>1. Moved(w, "markCancelled", "own", r.mem, r.kept, r.act, r.ok, r.err)
    BY <1>1, <1>4, Moves
  <2>2. "markCancelled" \in Locations \ {"idle", "dead"} /\ r.pc \in CancelPcs
    BY <1>2, Places DEF CancelPcs
  <2> QED
    BY <1>1, <2>1, <2>2, GoesBy
<1> QED
  BY <1>3, <1>4 DEF CancelWrite, Saves

\* Progress of an action, within what the table of marks allows.
LEMMA MarkOK ==
    ASSUME NEW a \in {"act", "finish"}, NEW done \in BOOLEAN
    PROVE  ActionProgress(a, done) \in Marks
BY MarkAssumption

\* Steps that record progress, or cannot.
Records(w) == /\ Goes(w) /\ Transaction({}) /\ ckpt' = ckpt /\ faults' \in Faults

LEMMA StartRecords ==
    ASSUME RuntimeIInv, NEW w \in Workers, StartAction(w)
    PROVE  Records(w)
<1> DEFINE r == wk[w]
           act == NextAction(r.mem)
           mark == ActionProgress(act, FALSE)
           new == [r.mem EXCEPT !.step = @ + 1]
<1>1. /\ wk \in [Workers -> WorkerStates] /\ r.mem \in AgentStates /\ r.kept \in BOOLEAN
      /\ r.ok \in BOOLEAN /\ faults \in Faults /\ StoreInv /\ RowsOK
  BY WorkerFacts
<1>2. Busy(w) /\ r.task \in Tasks
  BY WorkerFacts DEF StartAction, At, Busy
<1>3. act \in {"act", "finish"} /\ new \in AgentStates
  BY <1>1, AgentUpdates DEF NextAction
<1>4. mark \in Marks
  BY <1>3, MarkOK
<1>5. {"call", "halt"} \subseteq Checked
  BY DEF Checked
<1>6. RecordProgress(r.task, w, "action_started", mark) => Transaction({})
  BY <1>1, <1>2, <1>4, ProgressMoves DEF ProgressEvents
<1>7. UNCHANGED storeVars => Transaction({})
  BY <1>1, NoTransaction
<1>8. Transaction({}) /\ ckpt' = ckpt /\ faults' \in Faults
  <2>1. RecordProgress(r.task, w, "action_started", mark) \/ UNCHANGED storeVars
    BY DEF StartAction, storeVars
  <2> QED
    BY <1>1, <1>6, <1>7, <2>1, DbErrorType DEF StartAction
<1>9. ASSUME NEW l \in {"local", "call"},
             wk' = [wk EXCEPT ![w].pc = l, ![w].chk = "own", ![w].act = act,
                              ![w].ok = FALSE, ![w].mem.step = @ + 1]
      PROVE  Goes(w)
  <2>1. Moved(w, l, "own", new, r.kept, act, FALSE, r.err)
    BY <1>1, <1>9, Moves
  <2> HIDE DEF act, new
  <2>2. l \in Checked \cup {"verify", "local", "complete", "succeed", "failing"}
    BY <1>5
  <2> QED
    BY <1>1, <1>3, <2>1, <2>2, GoesOn
<1>10. Goes(w)
  <2>1. \/ \E l \in {"local", "call"} :
              wk' = [wk EXCEPT ![w].pc = l, ![w].chk = "own", ![w].act = act,
                               ![w].ok = FALSE, ![w].mem.step = @ + 1]
        \/ wk' = [wk EXCEPT ![w].pc = "halt", ![w].chk = "own", ![w].err = "failed",
                            ![w].mem.status = "stopped"]
        \/ Raise(w, "failing", "failed")
    BY DEF StartAction
  <2> QED
    BY <1>5, <1>9, <2>1, LoopMoves
<1> QED
  BY <1>8, <1>10 DEF Records

LEMMA CompleteRecords ==
    ASSUME RuntimeIInv, NEW w \in Workers, CompleteAction(w)
    PROVE  Records(w)
<1> DEFINE r == wk[w]
           type == IF r.ok THEN "action_completed" ELSE "action_retrying"
           mark == ActionProgress(r.act, r.ok)
<1>1. /\ r.act \in {"act", "finish"} /\ r.ok \in BOOLEAN /\ faults \in Faults
      /\ StoreInv /\ RowsOK
  BY WorkerFacts
<1>2. Busy(w) /\ r.task \in Tasks
  BY WorkerFacts DEF CompleteAction, At, Busy
<1>3. mark \in Marks /\ type \in ProgressEvents
  BY <1>1, MarkOK DEF ProgressEvents
<1>4. RecordProgress(r.task, w, type, mark) => Transaction({})
  BY <1>1, <1>2, <1>3, ProgressMoves
<1>5. UNCHANGED storeVars => Transaction({})
  BY <1>1, NoTransaction
<1>6. Transaction({}) /\ ckpt' = ckpt /\ faults' \in Faults
  <2>1. RecordProgress(r.task, w, type, mark) \/ UNCHANGED storeVars
    BY DEF CompleteAction, storeVars
  <2> QED
    BY <1>1, <1>4, <1>5, <2>1, DbErrorType DEF CompleteAction
<1>7. Goes(w)
  <2>1. Goto(w, "after") \/ Raise(w, "failing", "failed")
    BY DEF CompleteAction
  <2>2. "after" \in Checked
    BY DEF Checked
  <2> QED
    BY <2>1, <2>2, LoopMoves
<1> QED
  BY <1>6, <1>7 DEF Records

\* Steps that settle the task, or cannot.
LEMMA SettleSettles ==
    ASSUME RuntimeIInv, NEW w \in Workers, MarkSucceeded(w) \/ MarkFailed(w) \/ MarkCancelled(w)
    PROVE  /\ Busy(w) /\ (Goes(w) \/ Leave(w)) /\ Transaction({})
           /\ ckpt' = ckpt /\ faults' \in Faults
<1> DEFINE t == wk[w].task
           failure == IF wk[w].err = "timed_out" THEN "timed_out" ELSE "failed"
<1>1. Busy(w)
  BY DEF MarkSucceeded, MarkFailed, MarkCancelled, At, Busy
<1>2. t \in Tasks /\ StoreInv /\ RowsOK /\ faults \in Faults /\ Thread(w, wk[w], tasks[t])
  BY <1>1, WorkerFacts
<1>3. failure \in Terminal /\ "succeeded" \in Terminal /\ "cancelled" \in Terminal
      /\ failure # "cancelled"
  BY DEF Terminal
<1>4. UNCHANGED storeVars => Transaction({})
  BY <1>2, NoTransaction
<1>5. ckpt' = ckpt /\ faults' \in Faults
  BY <1>2, DbErrorType DEF MarkSucceeded, MarkFailed, MarkCancelled, Settle
<1>6. Raise(w, "failing", "failed") => Goes(w)
  BY LoopMoves
<1>7. ASSUME NEW status \in Terminal, MarkTerminal(t, w, status), status # "cancelled"
      PROVE  Transaction({})
  BY <1>2, <1>7, MarkMoves
<1>8. CASE MarkSucceeded(w)
  <2>1. MarkTerminal(t, w, "succeeded") \/ UNCHANGED storeVars
    BY <1>8 DEF MarkSucceeded, Settle, storeVars
  <2>2. Leave(w) \/ Raise(w, "failing", "failed")
    BY <1>8 DEF MarkSucceeded, Settle
  <2> QED
    BY <1>1, <1>3, <1>4, <1>5, <1>6, <1>7, <2>1, <2>2
<1>9. CASE MarkFailed(w)
  <2>1. MarkTerminal(t, w, failure) \/ UNCHANGED storeVars
    BY <1>9 DEF MarkFailed, Settle, storeVars
  <2>2. Leave(w)
    BY <1>9 DEF MarkFailed, Settle
  <2> HIDE DEF failure
  <2> QED
    BY <1>1, <1>3, <1>4, <1>5, <1>7, <2>1, <2>2
<1>10. CASE MarkCancelled(w)
  <2>1. MarkTerminal(t, w, "cancelled") \/ UNCHANGED storeVars
    BY <1>10 DEF MarkCancelled, Settle, storeVars
  <2>2. Leave(w)
    BY <1>10 DEF MarkCancelled, Settle
  <2>3. ASSUME MarkTerminal(t, w, "cancelled") PROVE Transaction({})
    <3>1. tasks[t].worker = w
      BY <2>3 DEF MarkTerminal, MayMark, HasValidLease
    <3>2. tasks[t].cancel
      BY <1>2, <1>10, <3>1 DEF Thread, CancelsAsked, MarkCancelled, At, CancelPcs
    <3> QED
      BY <1>2, <1>3, <2>3, <3>2, MarkMoves
  <2> QED
    BY <1>1, <1>4, <1>5, <2>1, <2>2, <2>3
<1> QED
  BY <1>8, <1>9, <1>10

LEMMA ExecuteKeeps ==
    ASSUME RuntimeIInv, NEW w \in Workers, Execute(w)
    PROVE  StepOK
<1>1. StoreInv /\ RowsOK /\ ckpt \in [Tasks -> AgentStates]
  BY WorkerFacts
<1>2. UNCHANGED storeVars => Transaction({})
  BY <1>1, NoTransaction
<1>3. ASSUME Busy(w), Reads(w) \/ (Leave(w) /\ UNCHANGED <<tasks, events, ckpt>> /\ faults' \in Faults)
      PROVE  StepOK
  <2>1. UNCHANGED storeVars /\ ckpt' = ckpt /\ (Goes(w) \/ Leave(w)) /\ faults' \in Faults
    BY <1>3 DEF Reads, storeVars
  <2> QED
    BY <1>1, <1>2, <1>3, <2>1, TurnKeeps
<1>4. CASE \/ CheckOwnership(w) \/ CheckCancelFlag(w) \/ LoadOrStart(w) \/ BudgetCheck(w)
           \/ LocalAction(w) \/ ToolCall(w) \/ Drain(w) \/ BackoffDone(w) \/ Verified(w)
           \/ Finalize(w) \/ NextTurn(w) \/ CancelRead(w)
  <2>1. Busy(w)
    BY <1>4
    DEF CheckOwnership, CheckCancelFlag, LoadOrStart, BudgetCheck, LocalAction, ToolCall, Drain,
        BackoffDone, Verified, Finalize, NextTurn, CancelRead, At, Busy, Checked
  <2> QED
    BY <1>3, <1>4, <2>1, CheckReads, LoadReads, LoopReads, NextTurnReads, CancelReads
<1>5. CASE FirstCheckpoint(w) \/ RetryCheckpoint(w) \/ StepCheckpoint(w) \/ HaltCheckpoint(w)
           \/ CancelWrite(w)
  <2>1. Busy(w)
    BY <1>5 DEF FirstCheckpoint, RetryCheckpoint, StepCheckpoint, HaltCheckpoint, CancelWrite, At,
                Busy
  <2>2. Saves(w)
    BY <1>5, CheckpointSaves, CancelWriteSaves
  <2> QED
    BY <1>2, <2>1, <2>2, TurnKeeps DEF Saves
<1>6. CASE StartAction(w) \/ CompleteAction(w)
  <2>1. Busy(w)
    BY <1>6 DEF StartAction, CompleteAction, At, Busy
  <2>2. Records(w)
    BY <1>6, StartRecords, CompleteRecords
  <2> QED
    BY <1>1, <2>1, <2>2, TurnKeeps DEF Records
<1>7. CASE MarkSucceeded(w) \/ MarkFailed(w) \/ MarkCancelled(w)
  BY <1>1, <1>7, SettleSettles, TurnKeeps
<1> QED
  BY <1>4, <1>5, <1>6, <1>7 DEF Execute

\* A step of the environment, which moves no thread.
LEMMA OutsideKeeps ==
    ASSUME RuntimeIInv, Transaction({}), wk' = wk,
           ckpt' \in [Tasks -> AgentStates], faults' \in Faults
    PROVE  StepOK
<1>1. StoreInv' /\ RowsOK' /\ [Next]_storeVars /\ LifeStep /\ \A v \in Workers : Steady(v)
  BY NextInv DEF Transaction, RuntimeIInv
<1>2. ThreadsOK'
  BY <1>1, ThreadStays DEF ThreadsOK
<1> QED
  BY <1>1, <1>2 DEF StepOK, RuntimeIInv

LEMMA ClaimKeeps ==
    ASSUME RuntimeIInv, NEW w \in Workers, NEW t \in Tasks, Claim(w, t)
    PROVE  StepOK
<1> DEFINE new == [IdleWorker EXCEPT !.pc = "enter", !.task = t, !.hb = TRUE,
                                     !.att = tasks[t].attempt + 1]
<1>1. /\ StoreInv /\ RowsOK /\ ckpt \in [Tasks -> AgentStates] /\ faults \in Faults
      /\ wk \in [Workers -> WorkerStates]
  BY WorkerFacts
<1>2. /\ Transaction({w}) /\ OneRow(t) /\ tasks'[t].worker = w
      /\ tasks'[t].attempt = tasks[t].attempt + 1 /\ ~tasks'[t].cancel
  BY <1>1, ClaimMoves DEF Claim
<1>3. StoreInv' /\ RowsOK' /\ [Next]_storeVars /\ LifeStep /\ \A v \in Workers \ {w} : Steady(v)
  BY <1>1, <1>2, NextInv DEF Transaction
<1>4. wk[w].pc = "idle" /\ ckpt' = ckpt /\ faults' \in Faults
  BY <1>1, DbErrorType DEF Claim
<1>5. ~Busy(w) /\ ~wk[w].hb
  BY <1>4, WorkerFacts DEF Busy
<1>6. ASSUME wk' = wk
      PROVE  ThreadsOK'
  <2>1. ~Busy(w)' /\ ~wk'[w].hb
    BY <1>5, <1>6 DEF Busy
  <2> QED
    BY <1>3, <1>6, <2>1, ThreadStays DEF ThreadsOK
<1>7. ASSUME wk' = [wk EXCEPT ![w] = new]
      PROVE  ThreadsOK' /\ wk' \in [Workers -> WorkerStates]
  <2>1. tasks[t].attempt + 1 \in Nat
    BY <1>1, StoreFacts
  <2>2. /\ new.pc = "enter" /\ new.task = t /\ new.att = tasks[t].attempt + 1
        /\ new.err = "none" /\ new \in WorkerStates
    BY <2>1, AgentUpdates DEF IdleWorker, WorkerStates, Locations, Checked, Unchecked, Errors
  <2> HIDE DEF new
  <2>3. wk'[w] = new /\ (\A v \in Workers \ {w} : wk'[v] = wk[v]) /\ wk' \in [Workers -> WorkerStates]
    BY <1>1, <1>7, <2>2
  <2>4. Thread(w, new, tasks'[t]) /\ Busy(w)'
    BY <1>2, <2>2, <2>3 DEF Thread, CancelsAsked, CancelPcs, Busy
  <2> QED
    BY <1>3, <2>2, <2>3, <2>4, ThreadStays DEF ThreadsOK
<1>8. ThreadsOK' /\ wk' \in [Workers -> WorkerStates]
  BY <1>1, <1>6, <1>7 DEF Claim
<1> QED
  BY <1>1, <1>3, <1>4, <1>8 DEF StepOK, RuntimeIInv

LEMMA HeartbeatKeeps ==
    ASSUME RuntimeIInv, NEW w \in Workers, HeartbeatTick(w)
    PROVE  StepOK
<1>1. /\ StoreInv /\ RowsOK /\ ckpt \in [Tasks -> AgentStates] /\ faults \in Faults
      /\ wk \in [Workers -> WorkerStates] /\ Busy(w) /\ wk[w].task \in Tasks
  BY WorkerFacts DEF HeartbeatTick
<1>2. ckpt' = ckpt /\ faults' = faults
  BY DEF HeartbeatTick
<1>3. CASE Heartbeat(wk[w].task, w) /\ wk' = wk
  BY <1>1, <1>2, <1>3, HeartbeatMoves, OutsideKeeps
<1>4. CASE wk' = [wk EXCEPT ![w].hb = FALSE] /\ UNCHANGED storeVars
  <2>1. wk[w] \in WorkerStates
    BY <1>1
  <2> DEFINE new == [wk[w] EXCEPT !.hb = FALSE]
  <2>2. /\ new \in WorkerStates /\ new.pc = wk[w].pc /\ new.task = wk[w].task
        /\ new.att = wk[w].att /\ new.err = wk[w].err
    BY <2>1 DEF WorkerStates
  <2>3. wk'[w] = new /\ OneThread(w)
    BY <1>1, <1>4 DEF OneThread
  <2> HIDE DEF new
  <2>4. wk' \in [Workers -> WorkerStates]
    BY <1>1, <2>2, <2>3 DEF OneThread
  <2>5. Transaction({}) /\ tasks' = tasks
    BY <1>1, <1>4, NoTransaction
  <2>6. StoreInv' /\ RowsOK' /\ [Next]_storeVars /\ LifeStep /\ \A v \in Workers : Steady(v)
    BY <1>1, <2>5, NextInv DEF Transaction
  <2>7. Busy(w)' /\ Thread(w, new, tasks'[wk[w].task])
    BY <1>1, <2>2, <2>3, <2>5, WorkerFacts DEF Thread, CancelsAsked, Busy
  <2>8. ThreadsOK'
    BY <1>1, <2>2, <2>3, <2>6, <2>7, ThreadStays DEF ThreadsOK, OneThread
  <2> QED
    BY <1>1, <1>2, <2>4, <2>6, <2>8 DEF StepOK, RuntimeIInv
<1> QED
  BY <1>3, <1>4 DEF HeartbeatTick

LEMMA CrashKeeps ==
    ASSUME RuntimeIInv, NEW w \in Workers, Crash(w)
    PROVE  StepOK
<1> DEFINE new == [IdleWorker EXCEPT !.pc = "dead"]
<1>1. /\ StoreInv /\ RowsOK /\ ckpt \in [Tasks -> AgentStates] /\ faults \in Faults
      /\ wk \in [Workers -> WorkerStates]
  BY WorkerFacts
<1>2. new \in WorkerStates /\ new.pc = "dead" /\ ~new.hb
  BY AgentUpdates DEF IdleWorker, WorkerStates, Locations, Unchecked, Errors
<1>3. wk' = [wk EXCEPT ![w] = new] /\ UNCHANGED storeVars /\ ckpt' = ckpt
  BY DEF Crash, storeVars
<1> HIDE DEF new
<1>4. wk'[w] = new /\ OneThread(w) /\ wk' \in [Workers -> WorkerStates]
  BY <1>1, <1>2, <1>3 DEF OneThread
<1>5. faults' \in Faults
  <2>1. faults.crashes \in 0..MaxCrashes /\ MaxCrashes \in Nat /\ faults.crashes < MaxCrashes
    BY <1>1, BoundsAssumption DEF Faults, Crash
  <2>2. faults.crashes + 1 \in 0..MaxCrashes
    BY <2>1
  <2> QED
    BY <1>1, <2>2 DEF Crash, Faults
<1>6. StoreInv' /\ RowsOK' /\ [Next]_storeVars /\ LifeStep /\ \A v \in Workers : Steady(v)
  BY <1>1, <1>3, NoTransaction, NextInv DEF Transaction
<1>7. ~Busy(w)' /\ ~wk'[w].hb
  BY <1>2, <1>4 DEF Busy
<1>8. ThreadsOK'
  BY <1>4, <1>6, <1>7, ThreadStays DEF ThreadsOK, OneThread
<1> QED
  BY <1>1, <1>3, <1>4, <1>5, <1>6, <1>8 DEF StepOK, RuntimeIInv

LEMMA ExpireKeeps ==
    ASSUME RuntimeIInv, NEW t \in Tasks, Expire(t)
    PROVE  StepOK
<1>1. StoreInv /\ RowsOK /\ ckpt \in [Tasks -> AgentStates] /\ faults \in Faults
  BY DEF RuntimeIInv
<1>2. Transaction({}) /\ wk' = wk /\ ckpt' = ckpt
  BY <1>1, ExpiryMoves DEF Expire
<1>3. faults' \in Faults
  <2>1. CASE faults.stalls < MaxStalls /\ faults' = [faults EXCEPT !.stalls = @ + 1]
    <3>1. faults.stalls + 1 \in 0..MaxStalls
      BY <1>1, <2>1, BoundsAssumption DEF Faults
    <3> QED
      BY <1>1, <2>1, <3>1 DEF Faults
  <2> QED
    BY <1>1, <2>1 DEF Expire
<1> QED
  BY <1>1, <1>2, <1>3, OutsideKeeps

LEMMA ClientKeeps ==
    ASSUME RuntimeIInv, NEW t \in Tasks, Client(t)
    PROVE  StepOK
<1>1. StoreInv /\ RowsOK /\ ckpt \in [Tasks -> AgentStates] /\ faults \in Faults
  BY DEF RuntimeIInv
<1>2. ASSUME NEW u \in Users, NEW k \in Keys, NEW f \in Requests, Submit(t, u, k, f)
      PROVE  StepOK
  BY <1>1, <1>2, CreateMoves, OutsideKeeps DEF Submit
<1>3. CASE Cancel(t)
  BY <1>1, <1>3, CancelMoves, OutsideKeeps DEF Cancel
<1>4. CASE DeleteSession(t)
  <2>1. Transaction({})
    BY <1>1, <1>4, DeleteMoves, NoTransaction DEF DeleteSession
  <2>2. ckpt' \in [Tasks -> AgentStates]
    BY <1>1, <1>4, AgentUpdates DEF DeleteSession
  <2> QED
    BY <1>1, <1>4, <2>1, <2>2, OutsideKeeps DEF DeleteSession
<1> QED
  BY <1>2, <1>3, <1>4 DEF Client

LEMMA RuntimeNextKeeps ==
    ASSUME RuntimeIInv, [RuntimeNext]_vars
    PROVE  StepOK
<1>1. CASE UNCHANGED vars
  <2>1. Transaction({}) /\ wk' = wk /\ ckpt' = ckpt /\ faults' = faults
    BY <1>1, NoTransaction DEF vars, storeVars, RuntimeIInv
  <2> QED
    BY <2>1, OutsideKeeps DEF RuntimeIInv
<1> QED
  BY <1>1, ExecuteKeeps, HeartbeatKeeps, CrashKeeps, ClaimKeeps, ClientKeeps, ExpireKeeps
  DEF RuntimeNext

LEMMA RuntimeInitKeeps == RuntimeInit => RuntimeIInv /\ Init /\ Life!Init
<1> SUFFICES ASSUME RuntimeInit PROVE RuntimeIInv /\ Init /\ Life!Init
  OBVIOUS
<1>1. Init /\ StoreInv
  BY InitInv DEF RuntimeInit
<1>2. \A t \in Tasks : /\ tasks[t].status = "absent" /\ tasks[t].cancel = FALSE
                      /\ tasks[t].attempt = 0 /\ tasks[t].progress = 0
  BY <1>1 DEF Init, AbsentRow
<1>3. RowsOK
  BY <1>2 DEF RowsOK, RowOK, Active
<1>4. IdleWorker \in WorkerStates
  BY AgentUpdates DEF IdleWorker, WorkerStates, Locations, Unchecked, Errors
<1>5. wk \in [Workers -> WorkerStates] /\ ckpt \in [Tasks -> AgentStates]
  BY <1>4, AgentUpdates DEF RuntimeInit
<1>6. faults \in Faults
  BY BoundsAssumption DEF RuntimeInit, Faults
<1>7. ThreadsOK
  BY DEF RuntimeInit, ThreadsOK, Busy, IdleWorker
<1>8. Life!Init
  BY <1>2 DEF Life!Init
<1> QED
  BY <1>1, <1>3, <1>5, <1>6, <1>7, <1>8 DEF RuntimeIInv

\* Every call that workers, heartbeats and clients make of the store is one the
\* store's own specification allows: what is proved of TripTaskStore holds in
\* operation, crashes, stalls and lost answers included.
THEOREM RuntimeImplementsStore == RuntimeSpec => Spec
<1>1. RuntimeIInv /\ [RuntimeNext]_vars => RuntimeIInv' /\ [Next]_storeVars
  BY RuntimeNextKeeps DEF StepOK
<1> QED
  BY <1>1, RuntimeInitKeeps, PTL DEF RuntimeSpec, Spec

\* The owner that a row names is the worker of the attempt the row counts, for any
\* number of workers and tasks and any faults, lapsed leases included.
THEOREM RuntimeInvariant == RuntimeSpec => []RuntimeInv
<1>1. RuntimeIInv /\ [RuntimeNext]_vars => RuntimeIInv'
  BY RuntimeNextKeeps DEF StepOK
<1>2. RuntimeIInv => RuntimeInv
  BY DEF RuntimeIInv, RuntimeInv, RuntimeTypeOK, StoreInv, OwnerIsCurrent, ThreadsOK, Thread
<1> QED
  BY <1>1, <1>2, RuntimeInitKeeps, PTL DEF RuntimeSpec

\* The client is shown the life TaskLifecycle describes, whatever happens to the
\* workers behind it: one outcome, progress that never falls, no attempt after a
\* cancellation, no cancellation nobody asked for.
THEOREM RuntimeImplementsLife == RuntimeSpec => ImplementsLife
<1>1. RuntimeIInv /\ [RuntimeNext]_vars => RuntimeIInv' /\ LifeStep
  BY RuntimeNextKeeps DEF StepOK
<1> QED
  BY <1>1, RuntimeInitKeeps, PTL DEF RuntimeSpec, ImplementsLife, Life!Spec, LifeStep

----------------------------------------------------------------------------
(* Without stalls.                                                         *)

\* What is known of a worker at work and its task.
LEMMA QuietFacts ==
    ASSUME QuietIInv, NEW w \in Workers, Busy(w)
    PROVE  LET r == wk[w]
               row == tasks[r.task]
               c == ckpt[r.task]
           IN  /\ RuntimeIInv /\ StoreInv /\ RowsOK
               /\ r \in WorkerStates /\ r.task \in Tasks /\ r.mem \in AgentStates
               /\ c \in AgentStates /\ row \in Rows /\ r.att \in Nat
               /\ Held(w, r, row, c) /\ TaskOK(row, c)
               /\ wk \in [Workers -> WorkerStates] /\ ckpt \in [Tasks -> AgentStates]
<1>1. RuntimeIInv
  BY DEF QuietIInv
<1> QED
  BY <1>1, WorkerFacts, StoreFacts DEF QuietIInv

\* A worker takes a step: its own task and checkpoint are all that changes.
LEMMA QuietTurn ==
    ASSUME QuietIInv, NEW w \in Workers, Busy(w), OneThread(w), RuntimeIInv',
           OneRow(wk[w].task), \A s \in Tasks \ {wk[w].task} : ckpt'[s] = ckpt[s],
           TaskOK(tasks'[wk[w].task], ckpt'[wk[w].task]),
           \/ ~Busy(w)'
           \/ /\ wk'[w].task = wk[w].task
              /\ Held(w, wk'[w], tasks'[wk[w].task], ckpt'[wk[w].task])
    PROVE  QuietIInv'
<1>1. wk[w].task \in Tasks /\ RuntimeIInv
  BY QuietFacts
<1>2. ASSUME NEW v \in Workers \ {w}, Busy(v)'
      PROVE  /\ Busy(v) /\ wk'[v] = wk[v] /\ wk[v].task \in Tasks /\ wk[v].task # wk[w].task
             /\ Held(v, wk'[v], tasks'[wk'[v].task], ckpt'[wk'[v].task])
  <2>1. wk'[v] = wk[v] /\ Busy(v)
    BY <1>2 DEF OneThread, Busy
  <2>2. wk[v].task # wk[w].task
    BY <1>2, <2>1 DEF QuietIInv, SingleExecutor
  <2>3. wk[v].task \in Tasks /\ Held(v, wk[v], tasks[wk[v].task], ckpt[wk[v].task])
    BY <1>2, <2>1, QuietFacts
  <2>4. tasks'[wk[v].task] = tasks[wk[v].task] /\ ckpt'[wk[v].task] = ckpt[wk[v].task]
    BY <2>2, <2>3 DEF OneRow
  <2> QED
    BY <2>1, <2>2, <2>3, <2>4
<1>3. SingleExecutor'
  <2> SUFFICES ASSUME NEW u \in Workers, NEW v \in Workers, Busy(u)', Busy(v)',
                      wk'[u].task = wk'[v].task
               PROVE  u = v
    BY DEF SingleExecutor
  <2>1. CASE u # w /\ v # w
    BY <1>2, <2>1 DEF QuietIInv, SingleExecutor
  <2>2. CASE u = w \/ v = w
    BY <1>2, <2>2
  <2> QED
    BY <2>1, <2>2
<1>4. \A t \in Tasks : TaskOK(tasks'[t], ckpt'[t])
  BY <1>1 DEF QuietIInv, OneRow
<1>5. \A v \in Workers : Busy(v)' => Held(v, wk'[v], tasks'[wk'[v].task], ckpt'[wk'[v].task])
  BY <1>2
<1> QED
  BY <1>3, <1>4, <1>5 DEF QuietIInv

\* A worker that is not about to report a failure still owns its running task.
LEMMA OwnsStill ==
    ASSUME NEW w, NEW r, NEW s, NEW row, Owns(w, r, row),
           r.pc # "failing" \/ s.pc = "failing", s.hb = r.hb
    PROVE  Owns(w, s, row)
BY DEF Owns

\* The thread moves, and writes nothing.
LEMMA QuietMoveOn ==
    ASSUME QuietIInv, NEW w \in Workers, Busy(w), RuntimeIInv',
           NEW pc, NEW chk, NEW mem, NEW kept, NEW act, NEW ok, NEW err,
           Moved(w, pc, chk, mem, kept, act, ok, err),
           UNCHANGED <<tasks, ckpt>>, wk[w].pc # "failing",
           Memory(Rec(w, pc, chk, mem, kept, act, ok, err), tasks[wk[w].task], ckpt[wk[w].task]),
           Checkpoint(Rec(w, pc, chk, mem, kept, act, ok, err), tasks[wk[w].task],
                      ckpt[wk[w].task])
    PROVE  QuietIInv'
<1> DEFINE s == Rec(w, pc, chk, mem, kept, act, ok, err)
<1>1. s.task = wk[w].task /\ s.att = wk[w].att /\ s.hb = wk[w].hb
  BY DEF Rec
<1>2. wk'[w] = s /\ OneThread(w)
  BY DEF Moved
<1>3. /\ Held(w, wk[w], tasks[wk[w].task], ckpt[wk[w].task])
      /\ TaskOK(tasks[wk[w].task], ckpt[wk[w].task])
  BY QuietFacts
<1>4. Owns(w, s, tasks[wk[w].task])
  BY <1>1, <1>3, OwnsStill DEF Held
<1> HIDE DEF s
<1>5. Held(w, s, tasks[wk[w].task], ckpt[wk[w].task])
  BY <1>1, <1>3, <1>4 DEF Held, s
<1>6. OneRow(wk[w].task)
  BY DEF OneRow
<1> QED
  BY <1>1, <1>2, <1>3, <1>5, <1>6, QuietTurn

\* A worker that is done with its task.
LEMMA QuietLeave ==
    ASSUME QuietIInv, NEW w \in Workers, Busy(w), RuntimeIInv', Leave(w),
           OneRow(wk[w].task), \A s \in Tasks \ {wk[w].task} : ckpt'[s] = ckpt[s],
           TaskOK(tasks'[wk[w].task], ckpt'[wk[w].task])
    PROVE  QuietIInv'
<1>1. wk'[w] = IdleWorker /\ OneThread(w)
  BY QuietFacts, LeaveMoves
<1>2. ~Busy(w)'
  BY <1>1 DEF Busy, IdleWorker
<1> QED
  BY <1>1, <1>2, QuietTurn

\* The same memory at a place that asks for nothing the old one did not.
LEMMA QuietElsewhere ==
    ASSUME QuietIInv, NEW w \in Workers, Busy(w), RuntimeIInv', NEW pc, NEW chk, NEW err,
           Moved(w, pc, chk, wk[w].mem, wk[w].kept, wk[w].act, wk[w].ok, err),
           UNCHANGED <<tasks, ckpt>>, wk[w].pc \notin {"failing", "markCancelled"},
           \/ pc \in {"cancelRead", "failing"}
           \/ pc = wk[w].pc /\ (chk # "own" => \/ wk[w].chk # "own"
                                              \/ tasks[wk[w].task].status = "running")
           \/ pc = "verify" /\ wk[w].pc \in InTry
    PROVE  QuietIInv'
<1> DEFINE r == wk[w]
           row == tasks[r.task]
           c == ckpt[r.task]
           s == Rec(w, pc, chk, r.mem, r.kept, r.act, r.ok, err)
<1>1. Memory(r, row, c) /\ Checkpoint(r, row, c) /\ r.mem \in AgentStates
  BY QuietFacts DEF Held
<1>2. s.pc = pc /\ s.chk = chk /\ s.mem = r.mem /\ s.kept = r.kept
  BY DEF Rec
<1> HIDE DEF s
<1>3. CASE pc \in {"cancelRead", "failing"}
  <2>1. Memory(s, row, c) /\ Checkpoint(s, row, c)
    BY <1>1, <1>2, <1>3 DEF Memory, Checkpoint, OpenPcs, StepPcs
  <2> QED
    BY <2>1, QuietMoveOn DEF s
<1>4. CASE pc = r.pc /\ (chk # "own" => r.chk # "own" \/ row.status = "running")
  <2>1. Memory(s, row, c) /\ Checkpoint(s, row, c)
    BY <1>1, <1>2, <1>4 DEF Memory, Checkpoint
  <2> QED
    BY <2>1, QuietMoveOn DEF s
<1>5. CASE pc = "verify" /\ r.pc \in InTry
  <2>1. Consistent(r.mem) /\ r.kept
    BY <1>1, <1>5 DEF Memory, Consistent, OpenPcs, StepPcs, InTry
  <2>2. Memory(s, row, c) /\ Checkpoint(s, row, c)
    BY <1>1, <1>2, <1>5, <2>1 DEF Memory, Checkpoint, OpenPcs, StepPcs, InTry
  <2> QED
    BY <2>2, QuietMoveOn DEF s
<1> QED
  BY <1>3, <1>4, <1>5

LEMMA QuietInterrupt ==
    ASSUME QuietIInv, NEW w \in Workers, Busy(w), RuntimeIInv', NEW err, Interrupt(w, err),
           UNCHANGED <<tasks, ckpt>>, wk[w].pc \notin {"failing", "markCancelled"}
    PROVE  QuietIInv'
<1>1. wk \in [Workers -> WorkerStates]
  BY QuietFacts
<1>2. CASE wk[w].pc \in InTry
  <2>1. Raise(w, "verify", err)
    BY <1>2 DEF Interrupt
  <2>2. Moved(w, "verify", "own", wk[w].mem, wk[w].kept, wk[w].act, wk[w].ok, err)
    BY <1>1, <2>1, Moves
  <2> QED
    BY <1>2, <2>2, QuietElsewhere
<1>3. CASE wk[w].pc \notin InTry
  <2>1. PICK l \in {"cancelRead", "failing"} : Raise(w, l, err)
    BY <1>3 DEF Interrupt
  <2>2. Moved(w, l, "own", wk[w].mem, wk[w].kept, wk[w].act, wk[w].ok, err)
    BY <1>1, <2>1, Moves
  <2> QED
    BY <2>2, QuietElsewhere
<1> QED
  BY <1>2, <1>3

LEMMA QuietChecks ==
    ASSUME QuietIInv, NEW w \in Workers, RuntimeIInv', CheckOwnership(w) \/ CheckCancelFlag(w)
    PROVE  QuietIInv'
<1>1. Busy(w) /\ wk[w].pc \notin {"failing", "markCancelled"} /\ UNCHANGED <<tasks, ckpt>>
  BY DEF CheckOwnership, CheckCancelFlag, Checked, Busy
<1>2. wk \in [Workers -> WorkerStates]
  BY <1>1, QuietFacts
<1>3. ASSUME NEW x, wk' = [wk EXCEPT ![w].chk = x],
             wk[w].chk # "own" \/ tasks[wk[w].task].status = "running"
      PROVE  QuietIInv'
  <2>1. Moved(w, wk[w].pc, x, wk[w].mem, wk[w].kept, wk[w].act, wk[w].ok, wk[w].err)
    BY <1>2, <1>3, Moves
  <2> QED
    BY <1>1, <1>3, <2>1, QuietElsewhere
<1>4. CASE CheckOwnership(w)
  <2>1. \/ \E err : Interrupt(w, err)
        \/ \E x : wk' = [wk EXCEPT ![w].chk = x] /\ tasks[wk[w].task].status = "running"
    BY <1>4 DEF CheckOwnership, HasValidLease
  <2> QED
    BY <1>1, <1>3, <2>1, QuietInterrupt
<1>5. CASE CheckCancelFlag(w)
  <2>1. \/ \E err : Interrupt(w, err)
        \/ \E x : wk' = [wk EXCEPT ![w].chk = x] /\ wk[w].chk # "own"
    BY <1>5 DEF CheckCancelFlag
  <2> QED
    BY <1>1, <1>3, <2>1, QuietInterrupt
<1> QED
  BY <1>4, <1>5

LEMMA QuietLoad ==
    ASSUME QuietIInv, NEW w \in Workers, RuntimeIInv', LoadOrStart(w)
    PROVE  QuietIInv'
<1> DEFINE r == wk[w]
           row == tasks[r.task]
           c == ckpt[r.task]
           done == c.finished \/ c.status = "completed"
           mem == IF c = NoState THEN [NoState EXCEPT !.status = "running"]
                  ELSE IF done THEN c ELSE [c EXCEPT !.status = "running"]
           l == IF done THEN "final" ELSE "init"
           s == Rec(w, l, "own", mem, c # NoState, r.act, r.ok, r.err)
<1>1. Busy(w) /\ r.pc = "enter" /\ UNCHANGED <<tasks, ckpt>>
  BY DEF LoadOrStart, At, Busy
<1>2. /\ Memory(r, row, c) /\ Checkpoint(r, row, c) /\ c \in AgentStates
      /\ wk \in [Workers -> WorkerStates] /\ TaskOK(row, c)
  BY <1>1, QuietFacts DEF Held
<1>3. \/ wk' = [wk EXCEPT ![w].pc = l, ![w].chk = "own", ![w].kept = c # NoState, ![w].mem = mem]
      \/ Raise(w, "failing", "failed")
  BY DEF LoadOrStart
<1>4. CASE Raise(w, "failing", "failed")
  <2>1. Moved(w, "failing", "own", r.mem, r.kept, r.act, r.ok, "failed")
    BY <1>2, <1>4, Moves
  <2> QED
    BY <1>1, <2>1, QuietElsewhere
<1>5. CASE wk' = [wk EXCEPT ![w].pc = l, ![w].chk = "own", ![w].kept = c # NoState, ![w].mem = mem]
  <2>1. Moved(w, l, "own", mem, c # NoState, r.act, r.ok, r.err)
    BY <1>2, <1>5, Moves
  <2>2. /\ mem.status = "completed" => mem.finished
        /\ ~done => ~mem.finished
        /\ c.work <= mem.work /\ c.step <= mem.step
    <3>1. CASE c = NoState
      BY <3>1 DEF NoState
    <3>2. CASE c # NoState /\ done
      BY <1>2, <3>2 DEF AgentStates, TaskOK
    <3>3. CASE c # NoState /\ ~done
      BY <1>2, <3>3 DEF AgentStates
    <3> QED
      BY <3>1, <3>2, <3>3
  <2>3. l = "init" \/ l = "final"
    OBVIOUS
  <2>4. (l = "init" => ~done) /\ (l = "final" => done)
    OBVIOUS
  <2>5. row.status = "running" /\ done => c.finished /\ c.status = "completed"
    BY <1>1, <1>2 DEF Checkpoint, TaskOK
  <2>6. /\ s.pc = l /\ s.chk = "own" /\ s.mem = mem /\ s.kept = (c # NoState)
    BY DEF Rec
  <2> HIDE DEF s, mem, l, done
  <2>7. Memory(s, row, c)
    BY <2>2, <2>3, <2>4, <2>6 DEF Memory, OpenPcs, StepPcs
  <2>8. Checkpoint(s, row, c)
    BY <1>1, <1>2, <2>3, <2>4, <2>5, <2>6 DEF Checkpoint
  <2> QED
    BY <1>1, <2>1, <2>7, <2>8, QuietMoveOn DEF s
<1> QED
  BY <1>3, <1>4, <1>5

\* Rows that differ in progress alone are alike to their workers.
SameRow(row, row2) ==
    /\ row2.status = row.status /\ row2.worker = row.worker /\ row2.lease = row.lease
    /\ row2.cancel = row.cancel /\ row2.attempt = row.attempt

LEMMA SameRowKeeps ==
    ASSUME NEW row, NEW row2, SameRow(row, row2), NEW w, NEW r, NEW c
    PROVE  /\ TaskOK(row, c) => TaskOK(row2, c)
           /\ Held(w, r, row, c) => Held(w, r, row2, c)
<1>1. TaskOK(row, c) => TaskOK(row2, c)
  BY DEF SameRow, TaskOK
<1>2. Held(w, r, row, c) => Held(w, r, row2, c)
  BY DEF SameRow, Held, Owns, Memory, Checkpoint
<1> QED
  BY <1>1, <1>2

\* The thread moves, and records progress at most.
LEMMA QuietMoveRow ==
    ASSUME QuietIInv, NEW w \in Workers, Busy(w), RuntimeIInv', NEW s,
           OneThread(w), wk'[w] = s, s.task = wk[w].task, s.att = wk[w].att, s.hb = wk[w].hb,
           ckpt' = ckpt, OneRow(wk[w].task), SameRow(tasks[wk[w].task], tasks'[wk[w].task]),
           wk[w].pc # "failing",
           Memory(s, tasks[wk[w].task], ckpt[wk[w].task]),
           Checkpoint(s, tasks[wk[w].task], ckpt[wk[w].task])
    PROVE  QuietIInv'
<1>1. /\ Held(w, wk[w], tasks[wk[w].task], ckpt[wk[w].task])
      /\ TaskOK(tasks[wk[w].task], ckpt[wk[w].task])
  BY QuietFacts
<1>2. Owns(w, s, tasks[wk[w].task])
  BY <1>1, OwnsStill DEF Held
<1>3. Held(w, s, tasks[wk[w].task], ckpt[wk[w].task])
  BY <1>1, <1>2 DEF Held
<1>4. /\ Held(w, s, tasks'[wk[w].task], ckpt[wk[w].task])
      /\ TaskOK(tasks'[wk[w].task], ckpt[wk[w].task])
  BY <1>1, <1>3, SameRowKeeps
<1> QED
  BY <1>4, QuietTurn

\* A move inside the loop.
LEMMA QuietWork ==
    ASSUME QuietIInv, NEW w \in Workers, RuntimeIInv',
           NEW pc \in {"gate", "halt", "local", "call", "drain", "retry", "verify", "save", "failing"},
           NEW mem \in AgentStates, NEW act, NEW ok, NEW err,
           Moved(w, pc, "own", mem, wk[w].kept, act, ok, err),
           ckpt' = ckpt, OneRow(wk[w].task), SameRow(tasks[wk[w].task], tasks'[wk[w].task]),
           wk[w].pc \in (OpenPcs \ {"init"}) \cup StepPcs,
           mem.status = "completed" => mem.finished,
           pc \in OpenPcs => ~mem.finished,
           pc \in StepPcs => Consistent(mem),
           wk[w].mem.work <= mem.work, wk[w].mem.step <= mem.step
    PROVE  QuietIInv'
<1> DEFINE r == wk[w]
           row == tasks[r.task]
           c == ckpt[r.task]
           s == Rec(w, pc, "own", mem, r.kept, act, ok, err)
<1>1. Busy(w) /\ r.pc \notin {"failing", "markCancelled", "final", "succeed"}
  BY DEF Busy, OpenPcs, StepPcs
<1>2. /\ Memory(r, row, c) /\ Checkpoint(r, row, c) /\ c \in AgentStates
      /\ r.mem \in AgentStates
  BY <1>1, QuietFacts DEF Held
<1>3. r.kept /\ c.work <= r.mem.work /\ c.step <= r.mem.step
  BY <1>2 DEF Memory
<1>4. c.work <= mem.work /\ c.step <= mem.step
  BY <1>2, <1>3 DEF AgentStates
<1>5. /\ s.pc = pc /\ s.mem = mem /\ s.kept = r.kept /\ s.task = r.task /\ s.att = r.att
      /\ s.hb = r.hb /\ wk'[w] = s /\ OneThread(w)
  BY DEF Rec, Moved
<1> HIDE DEF s
<1>6. pc \in OpenPcs \cup StepPcs \cup {"failing"} /\ pc # "init"
  BY DEF OpenPcs, StepPcs
<1>7. Memory(s, row, c)
  BY <1>3, <1>4, <1>5, <1>6 DEF Memory
<1>8. Checkpoint(s, row, c)
  BY <1>1, <1>2, <1>5 DEF Checkpoint
<1> QED
  BY <1>1, <1>5, <1>7, <1>8, QuietMoveRow

LEMMA MemoryFacts ==
    ASSUME NEW m \in AgentStates
    PROVE  /\ m.work <= m.work /\ m.step <= m.step
           /\ \A x \in {"stopped", "failed"} :
                 LET n == [m EXCEPT !.status = x]
                 IN  /\ n \in AgentStates /\ n.status # "completed" /\ n.finished = m.finished
                     /\ m.work <= n.work /\ m.step <= n.step
           /\ LET n == [m EXCEPT !.step = @ + 1]
              IN  /\ n \in AgentStates /\ n.status = m.status /\ n.finished = m.finished
                  /\ m.work <= n.work /\ m.step <= n.step
           /\ ~m.finished /\ (m.status = "completed" => m.finished) => Consistent(Advanced(m))
           /\ Advanced(m) \in AgentStates /\ m.work <= Advanced(m).work
           /\ m.step <= Advanced(m).step
<1>1. m.work \in Nat /\ m.step \in Nat /\ m.work <= m.work /\ m.step <= m.step
  BY DEF AgentStates
<1>2. ASSUME NEW x \in {"stopped", "failed"}
      PROVE  LET n == [m EXCEPT !.status = x]
             IN  /\ n \in AgentStates /\ n.status # "completed" /\ n.finished = m.finished
                 /\ m.work <= n.work /\ m.step <= n.step
  <2>1. [m EXCEPT !.status = x] \in AgentStates
    BY AgentUpdates DEF AgentStatuses
  <2> QED
    BY <1>1, <2>1 DEF AgentStates
<1>3. LET n == [m EXCEPT !.step = @ + 1]
      IN  /\ n \in AgentStates /\ n.status = m.status /\ n.finished = m.finished
          /\ m.work <= n.work /\ m.step <= n.step
  <2>1. [m EXCEPT !.step = @ + 1] \in AgentStates
    BY AgentUpdates
  <2> QED
    BY <1>1, <2>1 DEF AgentStates
<1>4. ~m.finished /\ (m.status = "completed" => m.finished) => Consistent(Advanced(m))
  BY DEF AgentStates, Advanced, Consistent
<1>5. Advanced(m) \in AgentStates
  BY AgentUpdates
<1>6. m.work <= Advanced(m).work /\ m.step <= Advanced(m).step
  BY <1>1 DEF AgentStates, Advanced
<1> QED
  BY <1>1, <1>2, <1>3, <1>4, <1>5, <1>6

LEMMA QuietLoopMoves ==
    ASSUME QuietIInv, NEW w \in Workers, RuntimeIInv', ckpt' = ckpt, OneRow(wk[w].task),
           SameRow(tasks[wk[w].task], tasks'[wk[w].task]),
           wk[w].pc \in (OpenPcs \ {"init"}) \cup StepPcs,
           \/ \E l \in {"gate", "retry", "verify", "save"} :
                 Goto(w, l) /\ (l \in {"gate", "retry"} => ~wk[w].mem.finished)
           \/ \E e : Raise(w, "failing", e)
           \/ \E l \in {"halt", "retry", "verify"}, e \in Errors, x \in {"stopped", "failed"} :
                 /\ wk' = [wk EXCEPT ![w].pc = l, ![w].chk = "own", ![w].err = e,
                                     ![w].mem.status = x]
                 /\ ~wk[w].mem.finished
           \/ Succeeded(w) /\ ~wk[w].mem.finished
           \/ GotoWith(w, "drain", Advanced(wk[w].mem)) /\ ~wk[w].mem.finished
           \/ \E l \in {"local", "call"} : \E a :
                 /\ wk' = [wk EXCEPT ![w].pc = l, ![w].chk = "own", ![w].act = a,
                                     ![w].ok = FALSE, ![w].mem.step = @ + 1]
                 /\ ~wk[w].mem.finished
    PROVE  QuietIInv'
<1> DEFINE r == wk[w]
           m == wk[w].mem
<1>1. Busy(w)
  BY DEF Busy, OpenPcs, StepPcs
<1>2. wk \in [Workers -> WorkerStates] /\ m \in AgentStates
  BY <1>1, QuietFacts
<1>3. Memory(r, tasks[r.task], ckpt[r.task])
  BY <1>1, QuietFacts DEF Held
<1>4. (m.status = "completed" => m.finished) /\ Consistent(m)
  BY <1>3 DEF Memory, Consistent
<1>5. ASSUME NEW l \in {"gate", "halt", "local", "call", "drain", "retry", "verify", "save", "failing"},
             NEW n \in AgentStates, NEW a, NEW ok, NEW e,
             Moved(w, l, "own", n, wk[w].kept, a, ok, e), Consistent(n),
             l \notin {"drain", "verify", "save", "failing"} => ~n.finished,
             wk[w].mem.work <= n.work, wk[w].mem.step <= n.step
      PROVE  QuietIInv'
  <2>1. n.status = "completed" => n.finished
    BY <1>5 DEF Consistent
  <2>2. l \in OpenPcs => ~n.finished
    BY <1>5 DEF OpenPcs
  <2>3. l \in StepPcs => Consistent(n)
    BY <1>5
  <2> QED
    BY <1>5, <2>1, <2>2, <2>3, QuietWork
<1>6. m.work <= m.work /\ m.step <= m.step
  BY <1>2, MemoryFacts
<1>7. ASSUME NEW l \in {"gate", "retry", "verify", "save"}, Goto(w, l),
             l \in {"gate", "retry"} => ~m.finished
      PROVE  QuietIInv'
  <2>1. Moved(w, l, "own", m, r.kept, r.act, r.ok, r.err)
    BY <1>2, <1>7, Moves
  <2>2. l \notin {"drain", "verify", "save", "failing"} => ~m.finished
    BY <1>7
  <2>3. l \in {"gate", "halt", "local", "call", "drain", "retry", "verify", "save", "failing"}
    OBVIOUS
  <2> QED
    BY <1>2, <1>4, <1>5, <1>6, <2>1, <2>2, <2>3
<1>8. ASSUME NEW e, Raise(w, "failing", e)
      PROVE  QuietIInv'
  <2>1. Moved(w, "failing", "own", m, r.kept, r.act, r.ok, e)
    BY <1>2, <1>8, Moves
  <2> QED
    BY <1>2, <1>4, <1>5, <1>6, <2>1
<1>9. ASSUME NEW l \in {"halt", "retry", "verify"}, NEW e \in Errors,
             NEW x \in {"stopped", "failed"}, ~m.finished,
             wk' = [wk EXCEPT ![w].pc = l, ![w].chk = "own", ![w].err = e, ![w].mem.status = x]
      PROVE  QuietIInv'
  <2> DEFINE n == [m EXCEPT !.status = x]
  <2>1. Moved(w, l, "own", n, r.kept, r.act, r.ok, e)
    BY <1>2, <1>9, Moves
  <2>2. /\ n \in AgentStates /\ n.status # "completed" /\ n.finished = m.finished
        /\ m.work <= n.work /\ m.step <= n.step
    BY <1>2, MemoryFacts
  <2>3. l \in {"gate", "halt", "local", "call", "drain", "retry", "verify", "save", "failing"}
    OBVIOUS
  <2> HIDE DEF n
  <2>4. Consistent(n) /\ ~n.finished
    BY <1>9, <2>2 DEF Consistent
  <2> QED
    BY <1>5, <2>1, <2>2, <2>3, <2>4
<1>10. ASSUME Succeeded(w) \/ GotoWith(w, "drain", Advanced(m)), ~m.finished
       PROVE  QuietIInv'
  <2> DEFINE n == Advanced(m)
  <2>1. \E ok : Moved(w, "drain", "own", n, r.kept, r.act, ok, r.err)
    BY <1>2, <1>10, Moves
  <2>2. n \in AgentStates /\ Consistent(n) /\ m.work <= n.work /\ m.step <= n.step
    BY <1>2, <1>4, <1>10, MemoryFacts
  <2> HIDE DEF n
  <2> QED
    BY <1>5, <2>1, <2>2
<1>11. ASSUME NEW l \in {"local", "call"}, NEW a, ~m.finished,
              wk' = [wk EXCEPT ![w].pc = l, ![w].chk = "own", ![w].act = a,
                               ![w].ok = FALSE, ![w].mem.step = @ + 1]
       PROVE  QuietIInv'
  <2> DEFINE n == [m EXCEPT !.step = @ + 1]
  <2>1. Moved(w, l, "own", n, r.kept, a, FALSE, r.err)
    BY <1>2, <1>11, Moves
  <2>2. /\ n \in AgentStates /\ n.status = m.status /\ n.finished = m.finished
        /\ m.work <= n.work /\ m.step <= n.step
    BY <1>2, MemoryFacts
  <2>3. l \in {"gate", "halt", "local", "call", "drain", "retry", "verify", "save", "failing"}
    OBVIOUS
  <2> HIDE DEF n
  <2>4. Consistent(n) /\ ~n.finished
    BY <1>4, <1>11, <2>2 DEF Consistent
  <2> QED
    BY <1>5, <2>1, <2>2, <2>3, <2>4
<1> QED
  BY <1>7, <1>8, <1>9, <1>10, <1>11

\* Nobody writes.
LEMMA NothingWritten ==
    ASSUME tasks' = tasks, NEW t
    PROVE  OneRow(t) /\ SameRow(tasks[t], tasks'[t])
BY DEF OneRow, SameRow

LEMMA QuietLoop ==
    ASSUME QuietIInv, NEW w \in Workers, RuntimeIInv',
           \/ BudgetCheck(w) \/ LocalAction(w) \/ ToolCall(w) \/ Drain(w) \/ BackoffDone(w)
           \/ Verified(w)
    PROVE  QuietIInv'
<1>1. wk[w].pc \in {"loop", "local", "call", "drain", "backoff", "verify"}
  BY DEF BudgetCheck, LocalAction, ToolCall, Drain, BackoffDone, Verified, At
<1>2. /\ Busy(w) /\ wk[w].pc \in (OpenPcs \ {"init"}) \cup StepPcs
      /\ wk[w].pc \in {"loop", "local", "call"} => wk[w].pc \in OpenPcs
  BY <1>1 DEF Busy, OpenPcs, StepPcs
<1>3. tasks' = tasks /\ ckpt' = ckpt
  BY DEF BudgetCheck, LocalAction, ToolCall, Drain, BackoffDone, Verified
<1>4. OneRow(wk[w].task) /\ SameRow(tasks[wk[w].task], tasks'[wk[w].task])
  BY <1>3, NothingWritten
<1>5. wk[w].pc \in {"loop", "local", "call"} => ~wk[w].mem.finished
  BY <1>2, QuietFacts DEF Held, Memory
<1>6. {"failed", "timed_out"} \subseteq Errors
  BY DEF Errors
<1>7. CASE BudgetCheck(w)
  BY <1>2, <1>3, <1>4, <1>5, <1>6, <1>7, QuietLoopMoves DEF BudgetCheck, At
<1>8. ASSUME ~wk[w].mem.finished, Succeeded(w) \/ Fatal(w) \/ Stopped(w)
      PROVE  QuietIInv'
  BY <1>2, <1>3, <1>4, <1>6, <1>8, QuietLoopMoves DEF Fatal, Stopped
<1>9. ASSUME Goto(w, "verify") PROVE QuietIInv'
  BY <1>2, <1>3, <1>4, <1>9, QuietLoopMoves
<1>10. CASE LocalAction(w)
  BY <1>5, <1>8, <1>9, <1>10 DEF LocalAction, Unfinished, At
<1>11. CASE ToolCall(w)
  <2>1. wk[w].pc = "call" /\ ~wk[w].mem.finished
    BY <1>5, <1>11 DEF ToolCall, At
  <2>2. Goto(w, "retry") => QuietIInv'
    BY <1>2, <1>3, <1>4, <2>1, QuietLoopMoves
  <2> QED
    BY <1>8, <1>9, <1>11, <2>1, <2>2 DEF ToolCall, Unfinished
<1>12. CASE Drain(w)
  <2>1. GotoWith(w, "drain", Advanced(wk[w].mem)) /\ ~wk[w].mem.finished => QuietIInv'
    BY <1>2, <1>3, <1>4, QuietLoopMoves
  <2> QED
    BY <1>8, <1>9, <1>12, <2>1 DEF Drain
<1>13. CASE BackoffDone(w)
  BY <1>9, <1>13 DEF BackoffDone
<1>14. CASE Verified(w)
  BY <1>2, <1>3, <1>4, <1>14, QuietLoopMoves DEF Verified
<1> QED
  BY <1>7, <1>10, <1>11, <1>12, <1>13, <1>14

LEMMA QuietStart ==
    ASSUME QuietIInv, NEW w \in Workers, RuntimeIInv', StartAction(w)
    PROVE  QuietIInv'
<1> DEFINE t == wk[w].task
           act == NextAction(wk[w].mem)
           mark == ActionProgress(act, FALSE)
<1>1. wk[w].pc = "gate" /\ Busy(w) /\ wk[w].pc \in OpenPcs \ {"init"}
  BY DEF StartAction, At, Busy, OpenPcs
<1>2. /\ ~wk[w].mem.finished /\ t \in Tasks /\ StoreInv /\ RowsOK
  BY <1>1, QuietFacts DEF Held, Memory
<1>3. ckpt' = ckpt /\ (RecordProgress(t, w, "action_started", mark) \/ tasks' = tasks)
  BY DEF StartAction, storeVars
<1>4. act \in {"act", "finish"}
  BY DEF NextAction
<1>5. mark \in Marks
  BY <1>4, MarkOK
<1>6. OneRow(t) /\ SameRow(tasks[t], tasks'[t])
  <2>1. CASE RecordProgress(t, w, "action_started", mark)
    BY <1>2, <1>5, <2>1, ProgressMoves DEF ProgressEvents, SameRow
  <2> QED
    BY <1>3, <2>1, NothingWritten
<1>7. \/ \E l \in {"local", "call"} : \E a :
            wk' = [wk EXCEPT ![w].pc = l, ![w].chk = "own", ![w].act = a,
                             ![w].ok = FALSE, ![w].mem.step = @ + 1]
      \/ wk' = [wk EXCEPT ![w].pc = "halt", ![w].chk = "own", ![w].err = "failed",
                          ![w].mem.status = "stopped"]
      \/ Raise(w, "failing", "failed")
  BY DEF StartAction
<1>8. "failed" \in Errors
  BY DEF Errors
<1> QED
  BY <1>1, <1>2, <1>3, <1>6, <1>7, <1>8, QuietLoopMoves

\* A checkpoint that worker w may write tells the truth about the row.
LEMMA SavedState ==
    ASSUME NEW m \in AgentStates, NEW n \in Nat
    PROVE  LET d == [m EXCEPT !.by = n]
           IN  /\ d.status = m.status /\ d.work = m.work /\ d.step = m.step
               /\ d.finished = m.finished /\ d.by = n
BY DEF AgentStates

LEMMA SavedTaskOK ==
    ASSUME QuietIInv, NEW w \in Workers, Busy(w), wk[w].pc # "failing", MaySave(w),
           tasks[wk[w].task].status = "deleted" => wk[w].kept,
           NEW m \in AgentStates, m.status = "completed" => m.finished,
           m.finished /\ ~tasks[wk[w].task].cancel => m.status = "completed"
    PROVE  TaskOK(tasks[wk[w].task], [m EXCEPT !.by = wk[w].att])
<1> DEFINE row == tasks[wk[w].task]
           c == ckpt[wk[w].task]
           d == [m EXCEPT !.by = wk[w].att]
<1>1. /\ Owns(w, wk[w], row) /\ TaskOK(row, c) /\ RuntimeIInv /\ row \in Rows
      /\ wk[w].att \in Nat
  BY QuietFacts DEF Held
<1>2. Thread(w, wk[w], row)
  BY <1>1, WorkerFacts
<1>3. \/ row.status = "running" /\ row.worker = w
      \/ row.status = "deleted"
  BY <1>1 DEF Owns
<1>4. row.status = "running" => wk[w].att = row.attempt /\ row.attempt \in Nat
  BY <1>1, <1>2, <1>3 DEF Thread, Rows
<1>5. row.status = "deleted" => Backend # "mysql"
  BY <1>1 DEF TaskOK, MaySave
<1>6. d.status = m.status /\ d.finished = m.finished /\ d.by = wk[w].att
  BY <1>1, SavedState
<1> HIDE DEF d
<1>7. CASE row.status = "running"
  BY <1>4, <1>6, <1>7 DEF TaskOK
<1>8. CASE row.status = "deleted"
  BY <1>5, <1>6, <1>8 DEF TaskOK
<1> QED
  BY <1>3, <1>7, <1>8 DEF d

\* The checkpoint of task t moves forward, if there is one before and after.
Advances(t) ==
    ckpt[t] # NoState /\ ckpt'[t] # NoState =>
        /\ ckpt'[t].by >= ckpt[t].by
        /\ ckpt'[t].work >= ckpt[t].work
        /\ ckpt'[t].step >= ckpt[t].step

QuietStep == QuietIInv' /\ \A t \in Tasks : Advances(t)

LEMMA NothingSaved ==
    ASSUME QuietIInv, ckpt' = ckpt
    PROVE  \A t \in Tasks : Advances(t)
<1>1. \A t \in Tasks : ckpt[t] \in AgentStates
  BY DEF QuietIInv, RuntimeIInv
<1>2. \A t \in Tasks : ckpt[t].by \in Nat /\ ckpt[t].work \in Nat /\ ckpt[t].step \in Nat
  BY <1>1 DEF AgentStates
<1> QED
  BY <1>2 DEF Advances

\* What a write of worker w does to the checkpoints.
LEMMA WriteAdvances ==
    ASSUME QuietIInv, NEW w \in Workers, Busy(w), NEW m \in AgentStates, WriteState(w, m),
           ckpt[wk[w].task].work <= m.work, ckpt[wk[w].task].step <= m.step
    PROVE  \A t \in Tasks : Advances(t)
<1> DEFINE t == wk[w].task
           d == [m EXCEPT !.by = wk[w].att]
<1>1. /\ RuntimeIInv /\ ckpt[t] \in AgentStates /\ ckpt[t].by <= wk[w].att /\ wk[w].att \in Nat
      /\ t \in Tasks
  BY QuietFacts DEF Held
<1>2. ckpt'[t] = d /\ \A s \in Tasks \ {t} : ckpt'[s] = ckpt[s]
  BY <1>1, WriteType
<1>3. d.work = m.work /\ d.step = m.step /\ d.by = wk[w].att
  BY <1>1, SavedState
<1>4. /\ ckpt[t].by \in Nat /\ ckpt[t].work \in Nat /\ ckpt[t].step \in Nat
      /\ m.work \in Nat /\ m.step \in Nat
  BY <1>1 DEF AgentStates
<1> HIDE DEF d
<1>5. Advances(t)
  BY <1>1, <1>2, <1>3, <1>4 DEF Advances
<1>6. ASSUME NEW s \in Tasks \ {t} PROVE Advances(s)
  <2>1. ckpt[s] \in AgentStates
    BY <1>1, <1>6 DEF RuntimeIInv
  <2>2. ckpt[s].by \in Nat /\ ckpt[s].work \in Nat /\ ckpt[s].step \in Nat
    BY <2>1 DEF AgentStates
  <2> QED
    BY <1>2, <2>2 DEF Advances
<1> QED
  BY <1>5, <1>6

\* A save: it is written, or refused, or the answer is lost.
LEMMA QuietSave ==
    ASSUME QuietIInv, NEW w \in Workers, RuntimeIInv',
           wk[w].pc \in {"init", "retry", "save", "halt", "exhausted"}, wk[w].chk = "done",
           NEW m \in AgentStates, Consistent(m), wk[w].pc # "save" => ~m.finished,
           m.work = wk[w].mem.work, m.step = wk[w].mem.step,
           NEW next \in {"loop", "exhausted", "backoff", "verify", "complete", "failing"},
           next \in {"loop", "exhausted", "backoff"} => ~m.finished,
           SaveState(w, m, next)
    PROVE  QuietStep
<1> DEFINE r == wk[w]
           row == tasks[r.task]
           c == ckpt[r.task]
           d == [m EXCEPT !.by = r.att]
           handler == IF r.pc \in InTry THEN "verify" ELSE "failing"
           bad == [m EXCEPT !.status = "failed"]
           fail == wk' = [wk EXCEPT ![w].pc = handler, ![w].chk = "own", ![w].err = "failed",
                                    ![w].mem = bad]
<1>1. Busy(w) /\ r.pc # "failing"
  BY DEF Busy
<1>2. /\ RuntimeIInv /\ Owns(w, r, row) /\ c.by <= r.att /\ Memory(r, row, c)
      /\ Checkpoint(r, row, c) /\ c \in AgentStates /\ r.att \in Nat /\ TaskOK(row, c)
      /\ wk \in [Workers -> WorkerStates]
  BY <1>1, QuietFacts DEF Held
<1>3. /\ r.pc # "init" => r.kept
      /\ r.pc = "init" /\ ~r.kept => row.status = "running"
      /\ c.work <= m.work /\ c.step <= m.step
  BY <1>2 DEF Memory, OpenPcs, StepPcs
<1>4. row.status = "deleted" => r.kept
  BY <1>3
<1>5. /\ d.status = m.status /\ d.work = m.work /\ d.step = m.step
      /\ d.finished = m.finished /\ d.by = r.att
  BY <1>2, SavedState
<1>6. (m.status = "completed" => m.finished) /\ (m.finished => m.status = "completed")
  BY DEF Consistent
<1>7. MaySave(w) => TaskOK(row, d)
  BY <1>1, <1>4, <1>6, SavedTaskOK
<1>8. OneRow(r.task) /\ tasks'[r.task] = row
  BY DEF SaveState, storeVars, OneRow
<1>9. WriteState(w, m) => ckpt'[r.task] = d /\ \A s \in Tasks \ {r.task} : ckpt'[s] = ckpt[s]
  BY <1>1, <1>2, WriteType
<1>10. m.work \in Nat /\ m.step \in Nat
  BY DEF AgentStates
<1>11. /\ bad \in AgentStates /\ bad.status = "failed" /\ bad.finished = m.finished
       /\ bad.work = m.work /\ bad.step = m.step
  BY AgentUpdates DEF AgentStates, AgentStatuses
<1>12. /\ handler \in {"verify", "failing"}
       /\ handler = "verify" => r.kept /\ ~m.finished
  BY <1>3 DEF InTry
<1>13. \A t \in Tasks : Advances(t)
  BY <1>1, <1>3, NothingSaved, WriteAdvances DEF SaveState
<1>14. \/ /\ MaySave(w) /\ WriteState(w, m)
          /\ wk' = [wk EXCEPT ![w].pc = next, ![w].chk = "own", ![w].mem = m, ![w].kept = TRUE]
       \/ fail /\ (ckpt' = ckpt \/ (MaySave(w) /\ WriteState(w, m)))
  BY DEF SaveState
<1> HIDE DEF d, handler, bad
<1>15. CASE /\ MaySave(w) /\ WriteState(w, m)
            /\ wk' = [wk EXCEPT ![w].pc = next, ![w].chk = "own", ![w].mem = m, ![w].kept = TRUE]
  <2> DEFINE s == Rec(w, next, "own", m, TRUE, r.act, r.ok, r.err)
  <2>1. Moved(w, next, "own", m, TRUE, r.act, r.ok, r.err)
    BY <1>2, <1>15, Moves
  <2>2. /\ wk'[w] = s /\ OneThread(w) /\ s.pc = next /\ s.chk = "own" /\ s.mem = m /\ s.kept
        /\ s.task = r.task /\ s.att = r.att /\ s.hb = r.hb
    BY <2>1 DEF Rec, Moved
  <2> HIDE DEF s
  <2>3. Owns(w, s, row)
    BY <1>1, <1>2, <2>2, OwnsStill
  <2>4. Memory(s, row, d)
    BY <1>5, <1>6, <1>10, <2>2 DEF Memory, OpenPcs, StepPcs
  <2>5. Checkpoint(s, row, d)
    BY <1>5, <1>6, <2>2 DEF Checkpoint
  <2>6. d.by <= s.att
    BY <1>2, <1>5, <2>2
  <2>7. Held(w, s, row, d)
    BY <2>3, <2>4, <2>5, <2>6 DEF Held
  <2>8. QuietIInv'
    BY <1>1, <1>7, <1>8, <1>9, <1>15, <2>2, <2>7, QuietTurn
  <2> QED
    BY <1>13, <2>8 DEF QuietStep
<1>16. CASE fail /\ (ckpt' = ckpt \/ (MaySave(w) /\ WriteState(w, m)))
  <2> DEFINE s == Rec(w, handler, "own", bad, r.kept, r.act, r.ok, "failed")
             e == ckpt'[r.task]
  <2>1. Moved(w, handler, "own", bad, r.kept, r.act, r.ok, "failed")
    BY <1>2, <1>16, Moves
  <2>2. /\ wk'[w] = s /\ OneThread(w) /\ s.pc = handler /\ s.mem = bad /\ s.kept = r.kept
        /\ s.task = r.task /\ s.att = r.att /\ s.hb = r.hb
    BY <2>1 DEF Rec, Moved
  <2> HIDE DEF s
  <2>3. Owns(w, s, row)
    BY <1>1, <1>2, <2>2, OwnsStill
  <2>4. e = c \/ (e = d /\ TaskOK(row, d))
    BY <1>7, <1>9, <1>16
  <2>5. TaskOK(row, e) /\ \A t \in Tasks \ {r.task} : ckpt'[t] = ckpt[t]
    BY <1>2, <1>9, <1>16, <2>4
  <2>6. e.by <= s.att /\ e.work <= bad.work /\ e.step <= bad.step
    BY <1>2, <1>3, <1>5, <1>10, <1>11, <2>2, <2>4 DEF AgentStates
  <2>7. row.status = "running" /\ e.finished => e.status = "completed"
    BY <1>2, <1>5, <1>6, <2>4 DEF Checkpoint
  <2> HIDE DEF e
  <2>8. Memory(s, row, e)
    <3>1. CASE handler = "failing"
      BY <1>11, <2>2, <3>1 DEF Memory, OpenPcs, StepPcs
    <3>2. CASE handler = "verify"
      BY <1>11, <1>12, <2>2, <2>6, <3>2 DEF Memory, OpenPcs, StepPcs, Consistent
    <3> QED
      BY <1>12, <3>1, <3>2
  <2>9. Checkpoint(s, row, e)
    BY <1>12, <2>2, <2>7 DEF Checkpoint
  <2>10. Held(w, s, row, e)
    BY <2>3, <2>6, <2>8, <2>9 DEF Held
  <2>11. QuietIInv'
    BY <1>1, <1>8, <2>2, <2>5, <2>10, QuietTurn DEF e
  <2> QED
    BY <1>13, <2>11 DEF QuietStep
<1> QED
  BY <1>14, <1>15, <1>16

LEMMA QuietCheckpoint ==
    ASSUME QuietIInv, NEW w \in Workers, RuntimeIInv',
           FirstCheckpoint(w) \/ RetryCheckpoint(w) \/ StepCheckpoint(w) \/ HaltCheckpoint(w)
    PROVE  QuietStep
<1> DEFINE m == wk[w].mem
           n == [m EXCEPT !.status = "max_steps_reached"]
<1>1. /\ wk[w].pc \in {"init", "retry", "save", "halt", "exhausted"} /\ wk[w].chk = "done"
      /\ Busy(w)
  BY DEF FirstCheckpoint, RetryCheckpoint, StepCheckpoint, HaltCheckpoint, At, Checked, Busy
<1>2. m \in AgentStates /\ Memory(wk[w], tasks[wk[w].task], ckpt[wk[w].task])
  BY <1>1, QuietFacts DEF Held
<1>3. Consistent(m) /\ (wk[w].pc # "save" => ~m.finished)
  BY <1>1, <1>2 DEF Memory, Consistent, OpenPcs, StepPcs
<1>4. /\ n \in AgentStates /\ n.status = "max_steps_reached" /\ n.finished = m.finished
      /\ n.work = m.work /\ n.step = m.step
  BY <1>2, AgentUpdates DEF AgentStates, AgentStatuses
<1>5. CASE FirstCheckpoint(w)
  <2>1. wk[w].pc = "init" /\ SaveState(w, m, LoopHead(m))
    BY <1>5 DEF FirstCheckpoint, At
  <2>2. LoopHead(m) \in {"loop", "exhausted"} /\ ~m.finished
    BY <1>3, <2>1 DEF LoopHead
  <2> QED
    BY <1>1, <1>2, <1>3, <2>1, <2>2, QuietSave
<1>6. CASE RetryCheckpoint(w)
  <2>1. wk[w].pc = "retry" /\ \E l \in {"backoff", "verify"} : SaveState(w, m, l)
    BY <1>6 DEF RetryCheckpoint, At
  <2> QED
    BY <1>1, <1>2, <1>3, <2>1, QuietSave
<1>7. CASE StepCheckpoint(w)
  <2>1. SaveState(w, m, "complete")
    BY <1>7 DEF StepCheckpoint
  <2> QED
    BY <1>1, <1>2, <1>3, <2>1, QuietSave
<1>8. CASE At(w, "halt") /\ SaveState(w, m, "failing")
  BY <1>1, <1>2, <1>3, <1>8, QuietSave
<1>9. CASE At(w, "exhausted") /\ SaveState(w, n, "failing")
  <2>1. ~m.finished
    BY <1>3, <1>9 DEF At
  <2> HIDE DEF n
  <2>2. Consistent(n) /\ ~n.finished
    BY <1>4, <2>1 DEF Consistent
  <2> QED
    BY <1>1, <1>4, <1>9, <2>2, QuietSave
<1> QED
  BY <1>5, <1>6, <1>7, <1>8, <1>9 DEF HaltCheckpoint

LEMMA QuietComplete ==
    ASSUME QuietIInv, NEW w \in Workers, RuntimeIInv', CompleteAction(w)
    PROVE  QuietIInv'
<1> DEFINE r == wk[w]
           t == wk[w].task
           type == IF r.ok THEN "action_completed" ELSE "action_retrying"
           mark == ActionProgress(r.act, r.ok)
<1>1. r.pc = "complete" /\ Busy(w)
  BY DEF CompleteAction, At, Busy
<1>2. /\ t \in Tasks /\ StoreInv /\ RowsOK /\ RuntimeIInv /\ wk \in [Workers -> WorkerStates]
      /\ Memory(r, tasks[t], ckpt[t]) /\ Checkpoint(r, tasks[t], ckpt[t])
  BY <1>1, QuietFacts DEF Held
<1>3. ckpt' = ckpt /\ (RecordProgress(t, w, type, mark) \/ tasks' = tasks)
  BY DEF CompleteAction, storeVars
<1>4. mark \in Marks /\ type \in ProgressEvents
  BY <1>2, WorkerFacts, MarkOK DEF ProgressEvents
<1> HIDE DEF mark, type
<1>5. OneRow(t) /\ SameRow(tasks[t], tasks'[t])
  <2>1. CASE RecordProgress(t, w, type, mark)
    BY <1>2, <1>4, <2>1, ProgressMoves DEF SameRow
  <2> QED
    BY <1>3, <2>1, NothingWritten
<1>6. ASSUME NEW l \in {"after", "failing"}, NEW e,
             Moved(w, l, "own", r.mem, r.kept, r.act, r.ok, e)
      PROVE  QuietIInv'
  <2> DEFINE s == Rec(w, l, "own", r.mem, r.kept, r.act, r.ok, e)
  <2>1. /\ wk'[w] = s /\ OneThread(w) /\ s.pc = l /\ s.mem = r.mem /\ s.kept = r.kept
        /\ s.task = t /\ s.att = r.att /\ s.hb = r.hb
    BY <1>6 DEF Rec, Moved
  <2> HIDE DEF s
  <2>2. Memory(s, tasks[t], ckpt[t])
    BY <1>1, <1>2, <2>1 DEF Memory, OpenPcs, StepPcs
  <2>3. Checkpoint(s, tasks[t], ckpt[t])
    BY <1>1, <1>2, <2>1 DEF Checkpoint
  <2> QED
    BY <1>1, <1>3, <1>5, <2>1, <2>2, <2>3, QuietMoveRow
<1>7. Goto(w, "after") \/ Raise(w, "failing", "failed")
  BY DEF CompleteAction
<1>8. \/ Moved(w, "after", "own", r.mem, r.kept, r.act, r.ok, r.err)
      \/ Moved(w, "failing", "own", r.mem, r.kept, r.act, r.ok, "failed")
  BY <1>2, <1>7, Moves
<1> QED
  BY <1>6, <1>8

\* The end of a turn, and the last check before the outcome is written.
LEMMA QuietOnward ==
    ASSUME QuietIInv, NEW w \in Workers, RuntimeIInv', NextTurn(w) \/ Finalize(w)
    PROVE  QuietIInv'
<1> DEFINE r == wk[w]
           row == tasks[r.task]
           c == ckpt[r.task]
<1>1. Busy(w) /\ r.pc \in {"after", "final"} /\ UNCHANGED <<tasks, ckpt>>
  BY DEF NextTurn, Finalize, At, Busy
<1>2. /\ wk \in [Workers -> WorkerStates] /\ Memory(r, row, c) /\ Checkpoint(r, row, c)
  BY <1>1, QuietFacts DEF Held
<1>3. ASSUME NEW l, Goto(w, l),
             \/ l \in {"cancelRead", "failing"}
             \/ r.pc = "after" /\ l \in {"loop", "exhausted"} /\ ~r.mem.finished
             \/ r.pc = "after" /\ l = "final" /\ r.mem.finished
             \/ r.pc = "final" /\ l = "succeed"
      PROVE  QuietIInv'
  <2> DEFINE s == Rec(w, l, "own", r.mem, r.kept, r.act, r.ok, r.err)
  <2>1. Moved(w, l, "own", r.mem, r.kept, r.act, r.ok, r.err)
    BY <1>2, <1>3, Moves
  <2>2. s.pc = l /\ s.chk = "own" /\ s.mem = r.mem /\ s.kept = r.kept
    BY DEF Rec
  <2> HIDE DEF s
  <2>3. Memory(s, row, c)
    BY <1>2, <1>3, <2>2 DEF Memory, OpenPcs, StepPcs
  <2>4. Checkpoint(s, row, c)
    <3>1. r.pc = "after" => Consistent(r.mem)
      BY <1>2 DEF Memory, StepPcs
    <3> QED
      BY <1>1, <1>2, <1>3, <2>2, <3>1 DEF Checkpoint, Consistent
  <2> QED
    BY <1>1, <2>1, <2>3, <2>4, QuietMoveOn DEF s
<1>4. CASE NextTurn(w)
  <2>1. r.pc = "after"
    BY <1>4 DEF NextTurn, At
  <2>2. \/ Goto(w, "cancelRead") \/ Goto(w, "failing")
        \/ Goto(w, "final") /\ r.mem.finished
        \/ (Goto(w, "loop") \/ Goto(w, "exhausted")) /\ ~r.mem.finished
    BY <1>4 DEF NextTurn, LoopHead
  <2> QED
    BY <1>3, <2>1, <2>2
<1>5. CASE Finalize(w)
  BY <1>3, <1>5 DEF Finalize, At
<1> QED
  BY <1>4, <1>5

LEMMA QuietCancelRead ==
    ASSUME QuietIInv, NEW w \in Workers, RuntimeIInv', CancelRead(w)
    PROVE  QuietIInv'
<1> DEFINE r == wk[w]
           row == tasks[r.task]
           c == ckpt[r.task]
           m == [c EXCEPT !.status = "cancelled"]
<1>1. Busy(w) /\ r.pc = "cancelRead" /\ tasks' = tasks /\ ckpt' = ckpt
  BY DEF CancelRead, At, Busy
<1>2. /\ wk \in [Workers -> WorkerStates] /\ Memory(r, row, c) /\ Checkpoint(r, row, c)
      /\ c \in AgentStates /\ TaskOK(row, c)
  BY <1>1, QuietFacts DEF Held
<1>3. CASE Leave(w)
  <2>1. OneRow(r.task)
    BY <1>1 DEF OneRow
  <2> QED
    BY <1>1, <1>2, <1>3, <2>1, QuietLeave
<1>4. CASE c = NoState /\ Goto(w, "markCancelled")
  <2> DEFINE s == Rec(w, "markCancelled", "own", r.mem, r.kept, r.act, r.ok, r.err)
  <2>1. Moved(w, "markCancelled", "own", r.mem, r.kept, r.act, r.ok, r.err)
    BY <1>2, <1>4, Moves
  <2>2. s.pc = "markCancelled" /\ s.mem = r.mem
    BY DEF Rec
  <2> HIDE DEF s
  <2>3. Memory(s, row, c) /\ Checkpoint(s, row, c)
    BY <1>2, <1>4, <2>2 DEF Memory, Checkpoint, OpenPcs, StepPcs, NoState
  <2> QED
    BY <1>1, <2>1, <2>3, QuietMoveOn DEF s
<1>5. CASE wk' = [wk EXCEPT ![w].pc = "cancelWrite", ![w].kept = TRUE, ![w].mem = m]
  <2> DEFINE s == Rec(w, "cancelWrite", r.chk, m, TRUE, r.act, r.ok, r.err)
  <2>1. Moved(w, "cancelWrite", r.chk, m, TRUE, r.act, r.ok, r.err)
    BY <1>2, <1>5, Moves
  <2>2. s.pc = "cancelWrite" /\ s.mem = m /\ s.kept
    BY DEF Rec
  <2>3. m.status = "cancelled" /\ c.work <= m.work /\ c.step <= m.step
    BY <1>2 DEF AgentStates
  <2> HIDE DEF s, m
  <2>4. Memory(s, row, c)
    BY <2>2, <2>3 DEF Memory, OpenPcs, StepPcs
  <2>5. Checkpoint(s, row, c)
    BY <1>1, <1>2, <2>2 DEF Checkpoint
  <2> QED
    BY <1>1, <2>1, <2>4, <2>5, QuietMoveOn DEF s
<1> QED
  BY <1>3, <1>4, <1>5 DEF CancelRead

LEMMA QuietCancelWrite ==
    ASSUME QuietIInv, NEW w \in Workers, RuntimeIInv', CancelWrite(w)
    PROVE  QuietStep
<1> DEFINE r == wk[w]
           row == tasks[r.task]
           c == ckpt[r.task]
           d == [r.mem EXCEPT !.by = r.att]
<1>1. Busy(w) /\ r.pc = "cancelWrite" /\ tasks' = tasks
  BY DEF CancelWrite, At, Busy, storeVars
<1>2. /\ wk \in [Workers -> WorkerStates] /\ Memory(r, row, c) /\ Owns(w, r, row)
      /\ c \in AgentStates /\ TaskOK(row, c) /\ r.mem \in AgentStates /\ r.att \in Nat
      /\ RuntimeIInv
  BY <1>1, QuietFacts DEF Held
<1>3. r.kept /\ r.mem.status = "cancelled" /\ c.work <= r.mem.work /\ c.step <= r.mem.step
  BY <1>1, <1>2 DEF Memory
<1>4. /\ d.status = "cancelled" /\ d.work = r.mem.work /\ d.step = r.mem.step
      /\ d.finished = r.mem.finished /\ d.by = r.att
  BY <1>2, <1>3, SavedState
<1>5. MaySave(w) => TaskOK(row, d)
  <2>1. row.status = "deleted" \/ row.cancel
    <3>1. Thread(w, r, row)
      BY <1>1, <1>2, WorkerFacts
    <3> QED
      BY <1>1, <1>2, <3>1 DEF Owns, Thread, CancelsAsked, CancelPcs
  <2>2. CASE row.cancel
    BY <1>1, <1>2, <1>3, <2>2, SavedTaskOK
  <2>3. ASSUME row.status = "deleted", MaySave(w) PROVE TaskOK(row, d)
    <3>1. Backend # "mysql"
      BY <1>2, <1>3, <2>3 DEF TaskOK, MaySave
    <3> HIDE DEF d
    <3> QED
      BY <1>4, <2>3, <3>1 DEF TaskOK
  <2> QED
    BY <2>1, <2>2, <2>3
<1>6. WriteState(w, r.mem) =>
         ckpt'[r.task] = d /\ \A s \in Tasks \ {r.task} : ckpt'[s] = ckpt[s]
  BY <1>1, <1>2, WriteType
<1>7. \A t \in Tasks : Advances(t)
  BY <1>1, <1>2, <1>3, NothingSaved, WriteAdvances DEF CancelWrite
<1>8. OneRow(r.task) /\ tasks'[r.task] = row
  BY <1>1 DEF OneRow
<1>9. \/ MaySave(w) /\ WriteState(w, r.mem) /\ Goto(w, "markCancelled")
      \/ Leave(w) /\ (ckpt' = ckpt \/ (MaySave(w) /\ WriteState(w, r.mem)))
  BY DEF CancelWrite
<1> HIDE DEF d
<1>10. CASE Leave(w) /\ (ckpt' = ckpt \/ (MaySave(w) /\ WriteState(w, r.mem)))
  <2>1. TaskOK(row, ckpt'[r.task]) /\ \A s \in Tasks \ {r.task} : ckpt'[s] = ckpt[s]
    BY <1>2, <1>5, <1>6, <1>10
  <2>2. QuietIInv'
    BY <1>1, <1>8, <1>10, <2>1, QuietLeave
  <2> QED
    BY <1>7, <2>2 DEF QuietStep
<1>11. CASE MaySave(w) /\ WriteState(w, r.mem) /\ Goto(w, "markCancelled")
  <2> DEFINE s == Rec(w, "markCancelled", "own", r.mem, r.kept, r.act, r.ok, r.err)
  <2>1. Moved(w, "markCancelled", "own", r.mem, r.kept, r.act, r.ok, r.err)
    BY <1>2, <1>11, Moves
  <2>2. /\ wk'[w] = s /\ OneThread(w) /\ s.pc = "markCancelled" /\ s.mem = r.mem
        /\ s.task = r.task /\ s.att = r.att /\ s.hb = r.hb
    BY <2>1 DEF Rec, Moved
  <2> HIDE DEF s
  <2>3. Owns(w, s, row)
    BY <1>1, <1>2, <2>2, OwnsStill
  <2>4. Memory(s, row, d) /\ Checkpoint(s, row, d) /\ d.by <= s.att
    BY <1>2, <1>3, <1>4, <2>2 DEF Memory, Checkpoint, OpenPcs, StepPcs
  <2>5. Held(w, s, row, d)
    BY <2>3, <2>4 DEF Held
  <2>6. QuietIInv'
    BY <1>1, <1>5, <1>6, <1>8, <1>11, <2>2, <2>5, QuietTurn
  <2> QED
    BY <1>7, <2>6 DEF QuietStep
<1> QED
  BY <1>9, <1>10, <1>11

\* The outcome that a worker writes is the one its checkpoint shows.
LEMMA SettledTaskOK ==
    ASSUME NEW row, NEW row2, NEW c, TaskOK(row, c), row.status = "running",
           row2.status \in Terminal, row2.attempt = row.attempt, row2.cancel = row.cancel,
           row2.status = "succeeded" => c.finished /\ c.status = "completed",
           row2.status = "cancelled" => c.status \in {"none", "cancelled"}
    PROVE  TaskOK(row2, c)
BY DEF TaskOK, Terminal

LEMMA QuietSettle ==
    ASSUME QuietIInv, NEW w \in Workers, RuntimeIInv',
           MarkSucceeded(w) \/ MarkFailed(w) \/ MarkCancelled(w)
    PROVE  QuietIInv'
<1> DEFINE r == wk[w]
           t == wk[w].task
           row == tasks[t]
           c == ckpt[t]
           failure == IF r.err = "timed_out" THEN "timed_out" ELSE "failed"
<1>1. Busy(w) /\ ckpt' = ckpt /\ r.pc \in {"succeed", "failing", "markCancelled"}
  BY DEF MarkSucceeded, MarkFailed, MarkCancelled, Settle, At, Busy
<1>2. /\ RuntimeIInv /\ StoreInv /\ RowsOK /\ t \in Tasks /\ Memory(r, row, c)
      /\ Checkpoint(r, row, c) /\ TaskOK(row, c) /\ wk \in [Workers -> WorkerStates]
      /\ c.by <= r.att
  BY <1>1, QuietFacts DEF Held
<1>3. ASSUME tasks' = tasks, Leave(w) PROVE QuietIInv'
  <2>1. OneRow(t) /\ tasks'[t] = row
    BY <1>3 DEF OneRow
  <2> QED
    BY <1>1, <1>2, <1>3, <2>1, QuietLeave
<1>4. ASSUME NEW status \in Terminal, MarkTerminal(t, w, status),
             status = "cancelled" => row.cancel /\ c.status \in {"none", "cancelled"},
             row.status = "running" /\ status = "succeeded" => c.finished /\ c.status = "completed"
      PROVE  OneRow(t) /\ tasks'[t].status = status /\ TaskOK(tasks'[t], c)
  <2>1. /\ OneRow(t) /\ row.status = "running" /\ tasks'[t].status = status
        /\ tasks'[t].attempt = row.attempt /\ tasks'[t].cancel = row.cancel
    BY <1>2, <1>4, MarkMoves
  <2> QED
    BY <1>2, <1>4, <2>1, SettledTaskOK
<1>5. CASE MarkSucceeded(w)
  <2>1. r.pc = "succeed" /\ "succeeded" \in Terminal
    BY <1>5 DEF MarkSucceeded, At, Terminal
  <2>2. row.status = "running" => c.finished /\ c.status = "completed"
    BY <1>2, <2>1 DEF Checkpoint
  <2>3. \/ /\ MarkTerminal(t, w, "succeeded") \/ tasks' = tasks
           /\ Leave(w)
        \/ /\ MarkTerminal(t, w, "succeeded") \/ tasks' = tasks
           /\ Raise(w, "failing", "failed")
    BY <1>5 DEF MarkSucceeded, Settle, storeVars
  <2>4. ASSUME MarkTerminal(t, w, "succeeded")
        PROVE  OneRow(t) /\ tasks'[t].status = "succeeded" /\ TaskOK(tasks'[t], c)
    BY <1>4, <2>1, <2>2, <2>4
  <2>5. CASE MarkTerminal(t, w, "succeeded") /\ Leave(w)
    BY <1>1, <2>4, <2>5, QuietLeave
  <2>6. CASE tasks' = tasks /\ Raise(w, "failing", "failed")
    <3>1. Moved(w, "failing", "own", r.mem, r.kept, r.act, r.ok, "failed")
      BY <1>2, <2>6, Moves
    <3> QED
      BY <1>1, <2>1, <2>6, <3>1, QuietElsewhere
  <2>7. CASE MarkTerminal(t, w, "succeeded") /\ Raise(w, "failing", "failed")
    <3> DEFINE s == Rec(w, "failing", "own", r.mem, r.kept, r.act, r.ok, "failed")
    <3>1. Moved(w, "failing", "own", r.mem, r.kept, r.act, r.ok, "failed")
      BY <1>2, <2>7, Moves
    <3>2. /\ wk'[w] = s /\ OneThread(w) /\ s.pc = "failing" /\ s.mem = r.mem
          /\ s.task = r.task /\ s.att = r.att
      BY <3>1 DEF Rec, Moved
    <3> HIDE DEF s
    <3>3. Owns(w, s, tasks'[t])
      BY <2>1, <2>4, <2>7, <3>2 DEF Owns
    <3>4. Memory(s, tasks'[t], c)
      BY <1>2, <3>2 DEF Memory, OpenPcs, StepPcs
    <3>5. Checkpoint(s, tasks'[t], c)
      BY <2>4, <2>7 DEF Checkpoint
    <3>6. Held(w, s, tasks'[t], c)
      BY <1>2, <3>2, <3>3, <3>4, <3>5 DEF Held
    <3> QED
      BY <1>1, <2>4, <2>7, <3>2, <3>6, QuietTurn
  <2> QED
    BY <1>3, <2>3, <2>5, <2>6, <2>7
<1>6. CASE MarkFailed(w)
  <2>1. failure \in Terminal /\ failure # "cancelled" /\ failure # "succeeded"
    BY DEF Terminal
  <2>2. Leave(w) /\ (MarkTerminal(t, w, failure) \/ tasks' = tasks)
    BY <1>6 DEF MarkFailed, Settle, storeVars
  <2> HIDE DEF failure
  <2>3. CASE MarkTerminal(t, w, failure)
    <3>1. OneRow(t) /\ TaskOK(tasks'[t], c)
      BY <1>4, <2>1, <2>3
    <3> QED
      BY <1>1, <2>2, <3>1, QuietLeave
  <2> QED
    BY <1>3, <2>2, <2>3
<1>7. CASE MarkCancelled(w)
  <2>1. r.pc = "markCancelled" /\ "cancelled" \in Terminal
    BY <1>7 DEF MarkCancelled, At, Terminal
  <2>2. Leave(w) /\ (MarkTerminal(t, w, "cancelled") \/ tasks' = tasks)
    BY <1>7 DEF MarkCancelled, Settle, storeVars
  <2>3. CASE MarkTerminal(t, w, "cancelled")
    <3>1. row.worker = w /\ row.status \in Active
      BY <2>3 DEF MarkTerminal, MayMark, HasValidLease
    <3>2. row.cancel
      BY <1>1, <1>2, <2>1, <3>1, WorkerFacts DEF Thread, CancelsAsked, CancelPcs
    <3>3. row.status = "running"
      BY <1>2, <3>1, StoreFacts, NoneAssumption
    <3>4. c.status \in {"none", "cancelled"}
      BY <1>2, <2>1, <3>3 DEF Checkpoint
    <3>5. OneRow(t) /\ TaskOK(tasks'[t], c)
      BY <1>4, <2>1, <2>3, <3>2, <3>4
    <3> QED
      BY <1>1, <2>2, <3>5, QuietLeave
  <2> QED
    BY <1>3, <2>2, <2>3
<1> QED
  BY <1>5, <1>6, <1>7

LEMMA QuietExecute ==
    ASSUME QuietIInv, NEW w \in Workers, Execute(w)
    PROVE  QuietStep
<1>1. RuntimeIInv'
  BY ExecuteKeeps DEF QuietIInv, StepOK
<1>2. ASSUME QuietIInv', ckpt' = ckpt PROVE QuietStep
  BY <1>2, NothingSaved DEF QuietStep
<1>3. CASE \/ CheckOwnership(w) \/ CheckCancelFlag(w) \/ LoadOrStart(w)
  BY <1>1, <1>2, <1>3, QuietChecks, QuietLoad DEF CheckOwnership, CheckCancelFlag, LoadOrStart
<1>4. CASE \/ BudgetCheck(w) \/ LocalAction(w) \/ ToolCall(w) \/ Drain(w) \/ BackoffDone(w)
           \/ Verified(w)
  BY <1>1, <1>2, <1>4, QuietLoop
  DEF BudgetCheck, LocalAction, ToolCall, Drain, BackoffDone, Verified
<1>5. CASE StartAction(w) \/ CompleteAction(w) \/ NextTurn(w) \/ Finalize(w) \/ CancelRead(w)
  <2>1. ckpt' = ckpt
    BY <1>5 DEF StartAction, CompleteAction, NextTurn, Finalize, CancelRead
  <2> QED
    BY <1>1, <1>2, <1>5, <2>1, QuietStart, QuietComplete, QuietOnward, QuietCancelRead
<1>6. CASE MarkSucceeded(w) \/ MarkFailed(w) \/ MarkCancelled(w)
  <2>1. ckpt' = ckpt
    BY <1>6 DEF MarkSucceeded, MarkFailed, MarkCancelled, Settle
  <2> QED
    BY <1>1, <1>2, <1>6, <2>1, QuietSettle
<1>7. CASE \/ FirstCheckpoint(w) \/ RetryCheckpoint(w) \/ StepCheckpoint(w) \/ HaltCheckpoint(w)
           \/ CancelWrite(w)
  BY <1>1, <1>7, QuietCheckpoint, QuietCancelWrite
<1> QED
  BY <1>3, <1>4, <1>5, <1>6, <1>7 DEF Execute

\* A step that moves no thread, and one row at most.
LEMMA QuietOutside ==
    ASSUME QuietIInv, RuntimeIInv', wk' = wk, NEW t \in Tasks, OneRow(t),
           \A s \in Tasks \ {t} : ckpt'[s] = ckpt[s], TaskOK(tasks'[t], ckpt'[t]),
           \A v \in Workers : Busy(v) /\ wk[v].task = t => Held(v, wk[v], tasks'[t], ckpt'[t])
    PROVE  QuietIInv'
<1>1. \A v \in Workers : Busy(v)' = Busy(v)
  BY DEF Busy
<1>2. SingleExecutor'
  BY <1>1 DEF QuietIInv, SingleExecutor
<1>3. \A s \in Tasks : TaskOK(tasks'[s], ckpt'[s])
  BY DEF QuietIInv, OneRow
<1>4. ASSUME NEW v \in Workers, Busy(v)
      PROVE  Held(v, wk[v], tasks'[wk[v].task], ckpt'[wk[v].task])
  <2>1. wk[v].task \in Tasks /\ Held(v, wk[v], tasks[wk[v].task], ckpt[wk[v].task])
    BY <1>4, QuietFacts
  <2>2. CASE wk[v].task = t
    BY <1>4, <2>2
  <2>3. CASE wk[v].task # t
    BY <2>1, <2>3 DEF OneRow
  <2> QED
    BY <2>2, <2>3
<1> QED
  BY <1>1, <1>2, <1>3, <1>4 DEF QuietIInv

\* A worker owns the running task it executes, so no other step of the table than
\* its own can take the task away.
LEMMA Executes ==
    ASSUME QuietIInv, NEW v \in Workers, Busy(v)
    PROVE  /\ tasks[wk[v].task].status \in {"running", "deleted"} \cup Terminal
           /\ tasks[wk[v].task].status = "running" =>
                 /\ wk[v].hb /\ tasks[wk[v].task].worker = v /\ tasks[wk[v].task].lease = "valid"
<1>1. Owns(v, wk[v], tasks[wk[v].task])
  BY QuietFacts DEF Held
<1> QED
  BY <1>1 DEF Owns, Terminal

LEMMA QuietClaim ==
    ASSUME QuietIInv, NEW w \in Workers, NEW t \in Tasks, Claim(w, t)
    PROVE  QuietStep
<1> DEFINE new == [IdleWorker EXCEPT !.pc = "enter", !.task = t, !.hb = TRUE,
                                     !.att = tasks[t].attempt + 1]
<1>1. RuntimeIInv' /\ RuntimeIInv /\ StoreInv /\ RowsOK /\ wk \in [Workers -> WorkerStates]
  BY ClaimKeeps DEF QuietIInv, StepOK, RuntimeIInv
<1>2. /\ OneRow(t) /\ Claimable(t) /\ tasks'[t].status = "running" /\ tasks'[t].worker = w
      /\ tasks'[t].lease = "valid" /\ tasks'[t].attempt = tasks[t].attempt + 1
      /\ ~tasks[t].cancel /\ ~tasks'[t].cancel /\ tasks[t].attempt \in Nat
  BY <1>1, ClaimMoves, StoreFacts DEF Claim
<1>3. ckpt' = ckpt /\ wk[w].pc = "idle"
  BY DEF Claim
<1>4. TaskOK(tasks[t], ckpt[t]) /\ ckpt[t] \in AgentStates
  BY DEF QuietIInv, RuntimeIInv
<1>5. ckpt[t].by \in Nat
  BY <1>4 DEF AgentStates
<1>6. tasks[t].status \in Active
  BY <1>2 DEF Claimable, Active
<1>7. /\ ckpt[t].by <= tasks[t].attempt
      /\ ckpt[t].status = "completed" => ckpt[t].finished
      /\ ckpt[t].finished => ckpt[t].status = "completed"
  BY <1>2, <1>4, <1>6 DEF TaskOK, Active
<1>8. TaskOK(tasks'[t], ckpt[t])
  BY <1>2, <1>5, <1>7 DEF TaskOK
<1>9. ASSUME NEW v \in Workers, Busy(v) PROVE wk[v].task # t
  BY <1>2, <1>9, Executes DEF Claimable, Terminal
<1>10. CASE wk' = wk
  <2>1. QuietIInv'
    BY <1>1, <1>2, <1>3, <1>8, <1>9, <1>10, QuietOutside
  <2> QED
    BY <1>3, <2>1, NothingSaved DEF QuietStep
<1>11. CASE wk' = [wk EXCEPT ![w] = new]
  <2>1. /\ new.pc = "enter" /\ new.task = t /\ new.att = tasks[t].attempt + 1 /\ new.hb
        /\ new.mem = NoState
    BY DEF IdleWorker
  <2>2. wk'[w] = new /\ (\A v \in Workers \ {w} : wk'[v] = wk[v])
    BY <1>1, <1>11
  <2> HIDE DEF new
  <2>3. Owns(w, new, tasks'[t]) /\ ckpt[t].by <= new.att
    BY <1>2, <1>5, <1>7, <2>1 DEF Owns
  <2>4. Memory(new, tasks'[t], ckpt[t])
    BY <2>1 DEF Memory, NoState, OpenPcs, StepPcs
  <2>5. Checkpoint(new, tasks'[t], ckpt[t])
    BY <1>7, <2>1 DEF Checkpoint
  <2>6. Held(w, new, tasks'[t], ckpt[t])
    BY <2>3, <2>4, <2>5 DEF Held
  <2>7. \A v \in Workers \ {w} : Busy(v)' => Busy(v) /\ wk'[v].task # t
    BY <1>9, <2>2 DEF Busy
  <2>8. SingleExecutor'
    <3> SUFFICES ASSUME NEW u \in Workers, NEW v \in Workers, Busy(u)', Busy(v)',
                        wk'[u].task = wk'[v].task
                 PROVE  u = v
      BY DEF SingleExecutor
    <3>1. CASE u # w /\ v # w
      BY <2>2, <2>7, <3>1 DEF QuietIInv, SingleExecutor
    <3>2. CASE u = w \/ v = w
      BY <2>1, <2>2, <2>7, <3>2
    <3> QED
      BY <3>1, <3>2
  <2>9. \A s \in Tasks : TaskOK(tasks'[s], ckpt'[s])
    BY <1>2, <1>3, <1>8 DEF QuietIInv, OneRow
  <2>10. ASSUME NEW v \in Workers, Busy(v)'
         PROVE  Held(v, wk'[v], tasks'[wk'[v].task], ckpt'[wk'[v].task])
    <3>1. CASE v = w
      BY <1>3, <2>1, <2>2, <2>6, <3>1
    <3>2. CASE v # w
      <4>1. Busy(v) /\ wk'[v] = wk[v] /\ wk[v].task # t
        BY <2>2, <2>7, <2>10, <3>2
      <4>2. wk[v].task \in Tasks /\ Held(v, wk[v], tasks[wk[v].task], ckpt[wk[v].task])
        BY <4>1, QuietFacts
      <4> QED
        BY <1>2, <1>3, <4>1, <4>2 DEF OneRow
    <3> QED
      BY <3>1, <3>2
  <2>11. QuietIInv'
    BY <1>1, <2>8, <2>9, <2>10 DEF QuietIInv
  <2> QED
    BY <1>3, <2>11, NothingSaved DEF QuietStep
<1> QED
  BY <1>10, <1>11 DEF Claim

LEMMA QuietHeartbeat ==
    ASSUME QuietIInv, NEW w \in Workers, HeartbeatTick(w)
    PROVE  QuietStep
<1> DEFINE r == wk[w]
           t == wk[w].task
<1>1. RuntimeIInv' /\ RuntimeIInv
  BY HeartbeatKeeps DEF QuietIInv, StepOK
<1>2. Busy(w) /\ r.hb /\ ckpt' = ckpt
  BY <1>1, WorkerFacts DEF HeartbeatTick
<1>3. /\ StoreInv /\ RowsOK /\ t \in Tasks /\ wk \in [Workers -> WorkerStates]
      /\ r \in WorkerStates /\ Held(w, r, tasks[t], ckpt[t]) /\ TaskOK(tasks[t], ckpt[t])
  BY <1>2, QuietFacts
<1>4. CASE Heartbeat(t, w) /\ wk' = wk
  <2>1. /\ OneRow(t) /\ tasks'[t].status = tasks[t].status /\ tasks'[t].worker = tasks[t].worker
        /\ tasks'[t].attempt = tasks[t].attempt /\ tasks'[t].cancel = tasks[t].cancel
        /\ tasks'[t].lease = "valid" /\ tasks[t].status = "running" /\ tasks[t].worker = w
    BY <1>3, <1>4, HeartbeatMoves DEF Heartbeat, MayHeartbeat, HasValidLease
  <2>2. SameRow(tasks[t], tasks'[t])
    BY <1>2, <2>1, Executes DEF SameRow
  <2>3. TaskOK(tasks'[t], ckpt[t]) /\ Held(w, r, tasks'[t], ckpt[t])
    BY <1>3, <2>2, SameRowKeeps
  <2>4. \A v \in Workers : Busy(v) /\ wk[v].task = t => v = w
    BY <1>2 DEF QuietIInv, SingleExecutor
  <2>5. QuietIInv'
    BY <1>1, <1>2, <1>3, <1>4, <2>1, <2>3, <2>4, QuietOutside
  <2> QED
    BY <1>2, <2>5, NothingSaved DEF QuietStep
<1>5. CASE ~MayHeartbeat(t, w) /\ wk' = [wk EXCEPT ![w].hb = FALSE] /\ UNCHANGED storeVars
  <2> DEFINE s == [r EXCEPT !.hb = FALSE]
  <2>1. /\ s.pc = r.pc /\ s.chk = r.chk /\ s.mem = r.mem /\ s.kept = r.kept
        /\ s.task = r.task /\ s.att = r.att
    BY <1>3 DEF WorkerStates
  <2>2. wk'[w] = s /\ OneThread(w)
    BY <1>3, <1>5 DEF OneThread
  <2> HIDE DEF s
  <2>3. tasks' = tasks /\ OneRow(t)
    BY <1>5 DEF storeVars, OneRow
  <2>4. tasks[t].status # "running"
    BY <1>2, <1>5, Executes DEF MayHeartbeat, HasValidLease
  <2>5. Owns(w, s, tasks[t])
    BY <1>3, <2>1, <2>4 DEF Held, Owns
  <2>6. Held(w, s, tasks[t], ckpt[t])
    BY <1>3, <2>1, <2>5 DEF Held, Memory, Checkpoint
  <2>7. QuietIInv'
    BY <1>1, <1>2, <1>3, <2>1, <2>2, <2>3, <2>6, QuietTurn
  <2> QED
    BY <1>2, <2>7, NothingSaved DEF QuietStep
<1> QED
  BY <1>4, <1>5 DEF HeartbeatTick

LEMMA QuietCrash ==
    ASSUME QuietIInv, NEW w \in Workers, Crash(w)
    PROVE  QuietStep
<1>1. RuntimeIInv' /\ wk \in [Workers -> WorkerStates]
  BY CrashKeeps DEF QuietIInv, StepOK, RuntimeIInv
<1>2. tasks' = tasks /\ ckpt' = ckpt
  BY DEF Crash
<1>3. wk'[w] = [IdleWorker EXCEPT !.pc = "dead"] /\ \A v \in Workers \ {w} : wk'[v] = wk[v]
  BY <1>1 DEF Crash
<1>4. wk'[w].pc = "dead"
  BY <1>3 DEF IdleWorker
<1>5. \A v \in Workers : Busy(v)' => Busy(v) /\ wk'[v] = wk[v]
  BY <1>3, <1>4 DEF Busy
<1>6. SingleExecutor'
  BY <1>5 DEF QuietIInv, SingleExecutor
<1>7. QuietIInv'
  BY <1>1, <1>2, <1>5, <1>6 DEF QuietIInv
<1> QED
  BY <1>2, <1>7, NothingSaved DEF QuietStep

\* A lease that a live worker renews does not run out.
LEMMA QuietExpire ==
    ASSUME MaxStalls = 0, QuietIInv, NEW t \in Tasks, Expire(t)
    PROVE  QuietStep
<1>1. RuntimeIInv' /\ RuntimeIInv /\ StoreInv /\ RowsOK /\ faults \in Faults
  BY ExpireKeeps DEF QuietIInv, StepOK, RuntimeIInv
<1>2. /\ OneRow(t) /\ tasks[t].status = "running" /\ tasks'[t].status = "running"
      /\ tasks'[t].attempt = tasks[t].attempt /\ tasks'[t].cancel = tasks[t].cancel
  BY <1>1, ExpiryMoves DEF Expire
<1>3. wk' = wk /\ ckpt' = ckpt
  BY DEF Expire
<1>4. ~Renewed(t)
  <2>1. faults.stalls \in 0..0
    BY <1>1 DEF Faults
  <2>2. ~(faults.stalls < MaxStalls)
    BY <2>1
  <2> QED
    BY <2>2 DEF Expire
<1>5. ASSUME NEW v \in Workers, Busy(v) PROVE wk[v].task # t
  BY <1>2, <1>4, <1>5, Executes DEF Renewed
<1>6. TaskOK(tasks'[t], ckpt[t])
  BY <1>2 DEF QuietIInv, TaskOK
<1>7. QuietIInv'
  BY <1>1, <1>2, <1>3, <1>5, <1>6, QuietOutside
<1> QED
  BY <1>3, <1>7, NothingSaved DEF QuietStep

LEMMA QuietClient ==
    ASSUME QuietIInv, NEW t \in Tasks, Client(t)
    PROVE  QuietStep
<1>1. /\ RuntimeIInv' /\ RuntimeIInv /\ StoreInv /\ RowsOK
      /\ ckpt \in [Tasks -> AgentStates] /\ TaskOK(tasks[t], ckpt[t])
  BY ClientKeeps DEF QuietIInv, StepOK, RuntimeIInv
<1>2. ASSUME NEW u \in Users, NEW k \in Keys, NEW f \in Requests, Submit(t, u, k, f)
      PROVE  QuietStep
  <2>1. /\ OneRow(t) /\ tasks[t].status = "absent" /\ tasks'[t].status = "queued"
        /\ tasks'[t].attempt = tasks[t].attempt
    BY <1>1, <1>2, CreateMoves DEF Submit
  <2>2. wk' = wk /\ ckpt' = ckpt
    BY <1>2 DEF Submit
  <2>3. \A v \in Workers : Busy(v) => wk[v].task # t
    BY <2>1, Executes DEF Terminal
  <2>4. ckpt[t] = NoState /\ ckpt[t].by <= tasks'[t].attempt
    BY <1>1, <2>1 DEF TaskOK
  <2>5. TaskOK(tasks'[t], ckpt[t])
    BY <2>1, <2>4 DEF TaskOK, NoState
  <2>6. QuietIInv'
    BY <1>1, <2>1, <2>2, <2>3, <2>5, QuietOutside
  <2> QED
    BY <2>2, <2>6, NothingSaved DEF QuietStep
<1>3. CASE Cancel(t)
  <2>1. wk' = wk /\ ckpt' = ckpt
    BY <1>3 DEF Cancel
  <2>2. /\ OneRow(t) /\ tasks[t].status \in Active /\ tasks'[t].cancel
        /\ tasks'[t].status = IF tasks[t].status = "queued" THEN "cancelled" ELSE "running"
        /\ tasks[t].status = "running" => /\ tasks'[t].worker = tasks[t].worker
                                          /\ tasks'[t].lease = tasks[t].lease
        /\ tasks'[t].attempt = tasks[t].attempt
    BY <1>1, <1>3, CancelMoves DEF Cancel
  <2>3. CASE tasks[t].status = "queued"
    <3>1. \A v \in Workers : Busy(v) => wk[v].task # t
      BY <2>3, Executes DEF Terminal
    <3>2. ckpt[t] = NoState /\ ckpt[t].by <= tasks'[t].attempt
      BY <1>1, <2>2, <2>3 DEF TaskOK
    <3>3. TaskOK(tasks'[t], ckpt[t])
      BY <2>2, <2>3, <3>2 DEF TaskOK, NoState
    <3> QED
      BY <1>1, <2>1, <2>2, <3>1, <3>3, QuietOutside, NothingSaved DEF QuietStep
  <2>4. CASE tasks[t].status = "running"
    <3>1. TaskOK(tasks'[t], ckpt[t])
      BY <1>1, <2>2, <2>4 DEF TaskOK
    <3>2. ASSUME NEW v \in Workers, Busy(v), wk[v].task = t
          PROVE  Held(v, wk[v], tasks'[t], ckpt[t])
      <4>1. Held(v, wk[v], tasks[t], ckpt[t])
        BY <3>2, QuietFacts
      <4> QED
        BY <2>2, <2>4, <4>1 DEF Held, Owns, Memory, Checkpoint
    <3> QED
      BY <1>1, <2>1, <2>2, <3>1, <3>2, QuietOutside, NothingSaved DEF QuietStep
  <2> QED
    BY <2>2, <2>3, <2>4 DEF Active
<1>4. CASE DeleteSession(t)
  <2>1. wk' = wk /\ ckpt[t] # NoState /\ ckpt' = [ckpt EXCEPT ![t] = NoState]
    BY <1>4 DEF DeleteSession
  <2>2. ckpt'[t] = NoState /\ \A s \in Tasks \ {t} : ckpt'[s] = ckpt[s]
    BY <1>1, <2>1
  <2>3. OneRow(t) /\ tasks'[t].status = "deleted"
    <3>1. CASE t \in Allocated
      BY <1>1, <1>4, <3>1, DeleteMoves DEF DeleteSession
    <3>2. CASE t \notin Allocated
      <4>1. tasks[t].status = "deleted"
        BY <1>1, <2>1, <3>2 DEF Allocated, TaskOK
      <4> QED
        BY <1>4, <3>2, <4>1 DEF DeleteSession, storeVars, OneRow
    <3> QED
      BY <3>1, <3>2
  <2>4. TaskOK(tasks'[t], NoState)
    BY <2>3 DEF TaskOK, NoState
  <2>5. ASSUME NEW v \in Workers, Busy(v), wk[v].task = t
        PROVE  Held(v, wk[v], tasks'[t], NoState)
    <3>1. Memory(wk[v], tasks[t], ckpt[t]) /\ wk[v].mem \in AgentStates /\ wk[v].att \in Nat
      BY <2>5, QuietFacts DEF Held
    <3>2. wk[v].mem.work \in Nat /\ wk[v].mem.step \in Nat
      BY <3>1 DEF AgentStates
    <3>3. ~(wk[v].pc = "init" /\ ~wk[v].kept)
      BY <2>1, <3>1 DEF Memory
    <3>4. NoState.by <= wk[v].att /\ NoState.work <= wk[v].mem.work /\ NoState.step <= wk[v].mem.step
      BY <3>1, <3>2 DEF NoState
    <3>5. Memory(wk[v], tasks'[t], NoState)
      BY <3>1, <3>3, <3>4 DEF Memory
    <3> QED
      BY <2>3, <3>4, <3>5 DEF Held, Owns, Checkpoint
  <2>6. QuietIInv'
    BY <1>1, <2>1, <2>2, <2>3, <2>4, <2>5, QuietOutside
  <2>7. \A s \in Tasks : ckpt[s].by \in Nat /\ ckpt[s].work \in Nat /\ ckpt[s].step \in Nat
    <3>1. \A s \in Tasks : ckpt[s] \in AgentStates
      BY <1>1
    <3> QED
      BY <3>1 DEF AgentStates
  <2>8. \A s \in Tasks : Advances(s)
    BY <2>2, <2>7 DEF Advances
  <2> QED
    BY <2>6, <2>8 DEF QuietStep
<1> QED
  BY <1>2, <1>3, <1>4 DEF Client

LEMMA QuietNext ==
    ASSUME MaxStalls = 0, QuietIInv, [RuntimeNext]_vars
    PROVE  QuietStep
<1>1. CASE UNCHANGED vars
  <2>1. RuntimeIInv'
    BY RuntimeNextKeeps DEF QuietIInv, StepOK
  <2>2. tasks' = tasks /\ wk' = wk /\ ckpt' = ckpt
    BY <1>1 DEF vars
  <2>3. \A w \in Workers : Busy(w)' = Busy(w)
    BY <2>2 DEF Busy
  <2>4. QuietIInv'
    BY <2>1, <2>2, <2>3 DEF QuietIInv, SingleExecutor
  <2> QED
    BY <2>2, <2>4, NothingSaved DEF QuietStep
<1> QED
  BY <1>1, QuietExecute, QuietHeartbeat, QuietCrash, QuietClaim, QuietClient, QuietExpire
  DEF RuntimeNext

LEMMA QuietInit == RuntimeInit => QuietIInv
<1> SUFFICES ASSUME RuntimeInit PROVE QuietIInv
  OBVIOUS
<1>1. RuntimeIInv
  BY RuntimeInitKeeps
<1>2. \A w \in Workers : ~Busy(w)
  BY DEF RuntimeInit, Busy, IdleWorker
<1>3. \A t \in Tasks : tasks[t].status = "absent" /\ tasks[t].attempt = 0 /\ ckpt[t] = NoState
  BY DEF RuntimeInit, Init, AbsentRow
<1>4. \A t \in Tasks : TaskOK(tasks[t], ckpt[t])
  BY <1>3 DEF TaskOK, NoState
<1> QED
  BY <1>1, <1>2, <1>4 DEF QuietIInv, SingleExecutor

\* As long as no lease lapses under a process that renews it, a task has one
\* executor: crashes, lost answers, deletions and recoveries never give it two.
THEOREM OneExecutor ==
    ASSUME MaxStalls = 0 PROVE RuntimeSpec => []SingleExecutor
<1>1. QuietIInv /\ [RuntimeNext]_vars => QuietIInv'
  BY QuietNext DEF QuietStep
<1>2. QuietIInv => SingleExecutor
  BY DEF QuietIInv
<1> QED
  BY <1>1, <1>2, QuietInit, PTL DEF RuntimeSpec

\* Under the same condition the outcome a client is shown is the one the session's
\* checkpoint records.
THEOREM OutcomesMatch ==
    ASSUME MaxStalls = 0 PROVE RuntimeSpec => []OutcomeMatchesSession
<1>1. QuietIInv /\ [RuntimeNext]_vars => QuietIInv'
  BY QuietNext DEF QuietStep
<1>2. QuietIInv => OutcomeMatchesSession
  BY DEF QuietIInv, TaskOK, OutcomeMatchesSession
<1> QED
  BY <1>1, <1>2, QuietInit, PTL DEF RuntimeSpec

\* Under the same condition no checkpoint is replaced by one of an earlier attempt
\* or with less work done.
THEOREM CheckpointsOnlyAdvance ==
    ASSUME MaxStalls = 0 PROVE RuntimeSpec => CheckpointsAdvance
<1>1. QuietIInv /\ [RuntimeNext]_vars => QuietIInv'
  BY QuietNext DEF QuietStep
<1>2. QuietIInv /\ [RuntimeNext]_vars =>
         [\A t \in Tasks : ckpt[t] # NoState /\ ckpt'[t] # NoState =>
             /\ ckpt'[t].by >= ckpt[t].by
             /\ ckpt'[t].work >= ckpt[t].work
             /\ ckpt'[t].step >= ckpt[t].step]_vars
  BY QuietNext DEF QuietStep, Advances
<1> QED
  BY <1>1, <1>2, QuietInit, PTL DEF RuntimeSpec, CheckpointsAdvance

\* Under the same condition, and with the MySQL store, which inserts and updates
\* where the SQLite one upserts, a deleted session is never written again.
THEOREM DeletedIsFinal ==
    ASSUME MaxStalls = 0, Backend = "mysql" PROVE RuntimeSpec => []DeletedStaysDeleted
<1>1. QuietIInv /\ [RuntimeNext]_vars => QuietIInv'
  BY QuietNext DEF QuietStep
<1>2. QuietIInv => DeletedStaysDeleted
  BY DEF QuietIInv, TaskOK, DeletedStaysDeleted
<1> QED
  BY <1>1, <1>2, QuietInit, PTL DEF RuntimeSpec

=============================================================================
