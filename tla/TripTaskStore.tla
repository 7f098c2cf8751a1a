--------------------------- MODULE TripTaskStore ---------------------------
(***************************************************************************)
(* The durable task queue of the asynchronous trip planner: the table      *)
(* trip_planning_tasks and its append-only event table trip_task_events,   *)
(* as written by SQLiteTripTaskStore (Backend = "sqlite") and              *)
(* MySQLTripTaskStore (Backend = "mysql").                                 *)
(*                                                                         *)
(* One action is one committed transaction.  Every transaction works on a  *)
(* single task row under an exclusive lock (BEGIN IMMEDIATE in SQLite,     *)
(* SELECT ... FOR UPDATE in MySQL), so transactions on one row are         *)
(* serial and its event ids are in commit order.  The actions put no       *)
(* restriction on who calls them: a worker may call any operation for any  *)
(* task at any time, so what holds here holds for every caller.            *)
(*                                                                         *)
(* Time is abstracted to what the code compares: a lease is "valid" while  *)
(* lease_expires_at > now and "expired" afterwards.                        *)
(***************************************************************************)
EXTENDS Naturals, Sequences, FiniteSets

CONSTANTS
    Tasks,      \* task ids that may be allocated
    Workers,    \* worker ids; every process start draws a fresh one
    Users,      \* owners of requests
    Keys,       \* Idempotency-Key header values, after normalisation
    Requests,   \* request fingerprints
    Marks,      \* the progress values action_progress can return
    Backend,    \* which of the two stores runs
    None        \* SQL NULL

ASSUME BackendAssumption == Backend \in {"mysql", "sqlite"}
ASSUME MarksAssumption == Marks \subseteq 0..100
ASSUME TasksAssumption == IsFiniteSet(Tasks)
ASSUME NoneAssumption == None \notin Workers \cup Users \cup Keys \cup Requests

VARIABLES
    tasks,      \* [Tasks -> row]
    events      \* [Tasks -> sequence of events of that task, by event_id]

storeVars == <<tasks, events>>

----------------------------------------------------------------------------
Active == {"queued", "running"}
Terminal == {"succeeded", "failed", "cancelled", "timed_out"}

\* "absent": no row yet; "deleted": the row is gone and its id is never drawn
\* again.  TaskStatus also declares "retrying", which no operation assigns.
Statuses == Active \cup Terminal \cup {"absent", "deleted"}

TerminalEvent(status) ==
    CASE status = "succeeded" -> "task_succeeded"
      [] status = "failed"    -> "task_failed"
      [] status = "cancelled" -> "task_cancelled"
      [] status = "timed_out" -> "task_timed_out"

TerminalEvents == {TerminalEvent(s) : s \in Terminal}
ClaimEvents == {"task_started", "task_recovered"}
ProgressEvents == {"action_started", "action_completed", "action_retrying"}
EventTypes == {"task_queued", "cancellation_requested"}
                \cup TerminalEvents \cup ClaimEvents \cup ProgressEvents

Rows ==
    [status : Statuses, cancel : BOOLEAN, worker : Workers \cup {None},
     lease : {"none", "valid", "expired"}, attempt : Nat, recoveries : Nat,
     progress : 0..100, user : Users \cup {None}, key : Keys \cup {None},
     fp : Requests \cup {None}, created : Nat]

\* `by' is the worker on whose behalf the transaction ran, None for a client.
Events == [type : EventTypes, progress : 0..100, by : Workers \cup {None}]

AbsentRow ==
    [status |-> "absent", cancel |-> FALSE, worker |-> None, lease |-> "none",
     attempt |-> 0, recoveries |-> 0, progress |-> 0, user |-> None,
     key |-> None, fp |-> None, created |-> 0]

Larger(a, b) == IF a >= b THEN a ELSE b
Smaller(a, b) == IF a <= b THEN a ELSE b

Allocated == {t \in Tasks : tasks[t].status \notin {"absent", "deleted"}}

\* created_at is the wall clock at creation; only the order it gives is used.
Drawn == {t \in Tasks : tasks[t].status # "absent"}

\* _save_task followed by _insert_event in the same transaction.
Commit(t, row, type, by) ==
    /\ tasks' = [tasks EXCEPT ![t] = row]
    /\ events' = [events EXCEPT ![t] =
                    Append(@, [type |-> type, progress |-> row.progress, by |-> by])]

----------------------------------------------------------------------------
(* Creation.                                                               *)

\* MySQL looks rows up within the caller's user_id, SQLite among all rows.
InScope(t, u) == Backend = "mysql" => tasks[t].user = u

KeyHits(u, k) == {t \in Allocated : InScope(t, u) /\ tasks[t].key = k}

\* Mutant: only tasks that still wait are looked up.
ActiveHitsQueuedOnly(u, f) ==
    {t \in Allocated : InScope(t, u) /\ tasks[t].fp = f /\ tasks[t].status = "queued"}

ActiveHits(u, f) ==
    {t \in Allocated : /\ InScope(t, u)
                       /\ tasks[t].fp = f
                       /\ tasks[t].status \in Active}

\* create_task when neither lookup hits.  A key hit (reuse, or a conflict when
\* the fingerprint differs) and an active hit (reuse) write nothing.  MySQL
\* holds the advisory locks of both key and fingerprint around the lookups and
\* the insert, so two creations that could hit each other never overlap.
CreateTask(t, u, k, f) ==
    /\ tasks[t].status = "absent"
    /\ KeyHits(u, k) = {}
    /\ ActiveHits(u, f) = {}
    /\ Commit(t, [AbsentRow EXCEPT !.status = "queued", !.user = u, !.key = k,
                                   !.fp = f, !.created = Cardinality(Drawn)],
              "task_queued", None)

----------------------------------------------------------------------------
(* Claiming and leases.                                                    *)

\* Mutant: running tasks are taken over without looking at their lease.
ClaimableUnexpired(t) == ~tasks[t].cancel /\ tasks[t].status \in Active

\* Mutant: tasks whose cancellation was asked for are recovered too.
ClaimableCancelled(t) ==
    \/ tasks[t].status = "queued"
    \/ tasks[t].status = "running" /\ tasks[t].lease = "expired"

\* Mutant: expired leases are not recovered.
ClaimableOnce(t) == ~tasks[t].cancel /\ tasks[t].status = "queued"

Claimable(t) ==
    /\ ~tasks[t].cancel
    /\ \/ tasks[t].status = "queued"
       \/ tasks[t].status = "running" /\ tasks[t].lease = "expired"

\* ORDER BY created_at LIMIT 1.  SKIP LOCKED lets MySQL pass over older rows
\* that another transaction has locked.
MayPick(t) ==
    /\ Claimable(t)
    /\ Backend = "sqlite" =>
         \A s \in Tasks : Claimable(s) => tasks[t].created <= tasks[s].created

\* Mutant: a recovery forgets to write the new worker id.
ClaimNextKeepsOwner(w, t) ==
    LET row == tasks[t]
        recovering == row.status = "running"
    IN  /\ MayPick(t)
        /\ Commit(t, [row EXCEPT !.status = "running", !.lease = "valid",
                                 !.worker = IF recovering THEN row.worker ELSE w,
                                 !.attempt = row.attempt + 1,
                                 !.progress = Larger(row.progress, 1)],
                  IF recovering THEN "task_recovered" ELSE "task_started", w)

ClaimNext(w, t) ==
    LET row == tasks[t]
        recovering == row.status = "running"
    IN  /\ MayPick(t)
        /\ Commit(t, [row EXCEPT !.status = "running", !.worker = w, !.lease = "valid",
                                 !.attempt = row.attempt + 1,
                                 !.recoveries = row.recoveries + (IF recovering THEN 1 ELSE 0),
                                 !.progress = Larger(row.progress, 1)],
                  IF recovering THEN "task_recovered" ELSE "task_started", w)

HasValidLease(t, w) ==
    /\ tasks[t].status = "running"
    /\ tasks[t].worker = w
    /\ tasks[t].lease = "valid"

\* The SQLite UPDATE only asks for the worker id, so a heartbeat there can
\* revive a lease that has already expired.
MayHeartbeat(t, w) ==
    IF Backend = "mysql"
    THEN HasValidLease(t, w)
    ELSE tasks[t].status = "running" /\ tasks[t].worker = w

Heartbeat(t, w) ==
    /\ MayHeartbeat(t, w)
    /\ tasks' = [tasks EXCEPT ![t].lease = "valid"]
    /\ UNCHANGED events

\* The clock passes lease_expires_at.
LeaseExpires(t) ==
    /\ tasks[t].lease = "valid"
    /\ tasks' = [tasks EXCEPT ![t].lease = "expired"]
    /\ UNCHANGED events

----------------------------------------------------------------------------
(* Progress, cancellation and the terminal transitions.                    *)

\* Mutant: progress is overwritten.
RecordProgressOverwrites(t, w, type, mark) ==
    /\ HasValidLease(t, w)
    /\ Commit(t, [tasks[t] EXCEPT !.progress = Smaller(99, mark)], type, w)

\* Mutant: progress is added up.
RecordProgressAdds(t, w, type, mark) ==
    /\ HasValidLease(t, w)
    /\ Commit(t, [tasks[t] EXCEPT !.progress = @ + Smaller(99, mark)], type, w)

RecordProgress(t, w, type, mark) ==
    /\ HasValidLease(t, w)
    /\ Commit(t, [tasks[t] EXCEPT !.progress = Larger(@, Smaller(99, mark))],
              type, w)

\* is_cancel_requested
CancelRequested(t) == tasks[t].cancel \/ tasks[t].status = "cancelled"

\* Mutant: the early return for terminal tasks is missing.
RequestCancelAlways(t) ==
    /\ t \in Allocated
    /\ IF tasks[t].status = "queued"
       THEN Commit(t, [tasks[t] EXCEPT !.cancel = TRUE, !.status = "cancelled"],
                   "task_cancelled", None)
       ELSE Commit(t, [tasks[t] EXCEPT !.cancel = TRUE],
                   "cancellation_requested", None)

RequestCancel(t) ==
    /\ tasks[t].status \in Active
    /\ IF tasks[t].status = "queued"
       THEN Commit(t, [tasks[t] EXCEPT !.cancel = TRUE, !.status = "cancelled",
                                       !.worker = None, !.lease = "none"],
                   "task_cancelled", None)
       ELSE Commit(t, [tasks[t] EXCEPT !.cancel = TRUE],
                   "cancellation_requested", None)

\* Mutant: any worker may settle a running task.
MayMarkAny(t, w) == tasks[t].status = "running"

\* What _mark_terminal asks of its caller once the row is known to be active:
\* MySQL a valid lease, SQLite only that the row still names the worker.
MayMark(t, w) ==
    IF Backend = "mysql" THEN HasValidLease(t, w) ELSE tasks[t].worker = w

\* _mark_terminal, the case that writes.  On a terminal row it returns the row
\* unchanged, and without MayMark it raises TaskLeaseLostError.
MarkTerminal(t, w, status) ==
    /\ tasks[t].status \in Active
    /\ MayMark(t, w)
    /\ Commit(t, [tasks[t] EXCEPT !.status = status, !.worker = None,
                                  !.lease = "none",
                                  !.progress = IF status = "succeeded" THEN 100 ELSE @],
              TerminalEvent(status), w)

\* The task part of delete_session: the row and its events go together.
DeleteTask(t) ==
    /\ t \in Allocated
    /\ tasks' = [tasks EXCEPT ![t] = [AbsentRow EXCEPT !.status = "deleted"]]
    /\ events' = [events EXCEPT ![t] = <<>>]

----------------------------------------------------------------------------
Init ==
    /\ tasks = [t \in Tasks |-> AbsentRow]
    /\ events = [t \in Tasks |-> <<>>]

ClientNext ==
    \E t \in Tasks :
        \/ \E u \in Users, k \in Keys, f \in Requests : CreateTask(t, u, k, f)
        \/ RequestCancel(t)
        \/ DeleteTask(t)

WorkerNext ==
    \E t \in Tasks, w \in Workers :
        \/ ClaimNext(w, t)
        \/ Heartbeat(t, w)
        \/ \E type \in ProgressEvents, mark \in Marks : RecordProgress(t, w, type, mark)
        \/ \E status \in Terminal : MarkTerminal(t, w, status)

Next == ClientNext \/ WorkerNext \/ \E t \in Tasks : LeaseExpires(t)

Spec == Init /\ [][Next]_storeVars

----------------------------------------------------------------------------
(* Properties.                                                             *)

\* Every row and every event has the shape the pydantic models declare.
TypeOK ==
    /\ tasks \in [Tasks -> Rows]
    /\ events \in [Tasks -> Seq(Events)]

\* A row names a worker and a lease exactly while it is running: no terminal or
\* queued row keeps an owner that a late worker could pass for, and every
\* running row can expire and be recovered (claim_next skips NULL leases).
OwnedIffRunning ==
    \A t \in Tasks :
        /\ tasks[t].status = "running" <=> tasks[t].worker # None
        /\ tasks[t].status = "running" <=> tasks[t].lease # "none"
        /\ tasks[t].status \in {"absent", "queued", "deleted"} => tasks[t].attempt = 0

\* A row is terminal exactly when its log ends with the matching terminal event,
\* and no earlier event is terminal: a consumer that stops at the first terminal
\* event has seen the whole history, and one that waits for it is not left
\* waiting by a row that is already settled.
TerminalLogged ==
    \A t \in Tasks :
        LET log == events[t] IN
        /\ \A i \in 1..Len(log) :
              log[i].type \in TerminalEvents =>
                  /\ i = Len(log)
                  /\ tasks[t].status \in Terminal
                  /\ log[i].type = TerminalEvent(tasks[t].status)
        /\ tasks[t].status \in Terminal =>
              log # <<>> /\ log[Len(log)].type \in TerminalEvents

\* The progress a reader of the log sees never goes back, through retries,
\* repairs, recoveries by another worker and the terminal transition, and the
\* last event agrees with the row.
ProgressMonotone ==
    \A t \in Tasks :
        /\ \A i, j \in 1..Len(events[t]) :
              i <= j => events[t][i].progress <= events[t][j].progress
        /\ events[t] # <<>> => events[t][Len(events[t])].progress = tasks[t].progress

\* A worker writes to a task's log only while it is the last one to have
\* claimed it: after another worker's claim event nothing of the old worker
\* follows, neither progress nor a terminal event.
WritesFenced ==
    \A t \in Tasks : \A i, j \in 1..Len(events[t]) :
        /\ i < j
        /\ events[t][i].type \in ClaimEvents
        /\ events[t][j].by # None
        /\ \A n \in i+1..j : events[t][n].type \notin ClaimEvents
        => events[t][j].by = events[t][i].by

\* The link between a row and its log that WritesFenced rests on: while a row has
\* an owner, the last claim in its log is the owner's.
LastClaimantOwns ==
    \A t \in Tasks : \A i \in 1..Len(events[t]) :
        /\ events[t][i].type \in ClaimEvents
        /\ \A n \in i+1..Len(events[t]) : events[t][n].type \notin ClaimEvents
        /\ tasks[t].worker # None
        => tasks[t].worker = events[t][i].by

\* A task that was not created yet, or is deleted, shows nothing.
UnbornEmpty ==
    \A t \in Tasks : tasks[t].status \in {"absent", "deleted"} =>
        tasks[t].progress = 0 /\ events[t] = <<>>

\* One key names one task, and two active tasks never plan the same request of
\* the same caller, whichever keys the double clicks carried.
CreationIdempotent ==
    \A s, t \in Allocated :
        (s # t /\ InScope(s, tasks[t].user)) =>
            /\ tasks[s].key # tasks[t].key
            /\ tasks[s].fp = tasks[t].fp =>
                 ~(tasks[s].status \in Active /\ tasks[t].status \in Active)

\* The inductive invariant of the store.
StoreInv ==
    /\ TypeOK
    /\ OwnedIffRunning
    /\ UnbornEmpty
    /\ TerminalLogged
    /\ ProgressMonotone
    /\ LastClaimantOwns
    /\ WritesFenced
    /\ CreationIdempotent

\* A row that has reached a terminal status is never written again, whoever
\* calls whatever: late workers, heartbeats and cancellations included.  Only
\* the deletion of the whole session removes it.
TerminalFinal ==
    [][\A t \in Tasks : tasks[t].status \in Terminal =>
          \/ UNCHANGED <<tasks[t], events[t]>>
          \/ tasks'[t].status = "deleted"]_storeVars

=============================================================================
