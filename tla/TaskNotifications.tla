------------------------- MODULE TaskNotifications --------------------------
(***************************************************************************)
(* NotifyingTripTaskStore, the task notification bus and the SSE stream of  *)
(* one task.  The API process creates, cancels, streams and deletes the     *)
(* task; the worker process claims it and reports progress.  Every write    *)
(* commits first and then, one after the other, stores a snapshot in the    *)
(* Redis cache and signals: Conditions in its own process, Redis Pub/Sub    *)
(* towards both.  Messages may be lost; every wait has a timeout.           *)
(*                                                                          *)
(* A revision is only ever compared with the cursor taken before reading    *)
(* the database, so a waiter keeps whether it moved since.                  *)
(***************************************************************************)
EXTENDS Naturals, Sequences, FiniteSets

CONSTANTS
    MaxProgress,    \* bound: progress events of the worker
    EventLimit,     \* limit of list_events
    MaxLost         \* bound: lost messages

ASSUME NotificationAssumption ==
    MaxProgress \in Nat /\ EventLimit \in Nat \ {0} /\ MaxLost \in Nat

VARIABLES
    task,       \* the row: status, number of events, cancel_requested
    api,        \* the request that writes: what it does after its commit
    worker,     \* the worker thread
    signalled,  \* whether the worker's coordinator holds the cancellation
    wire,       \* messages on their way to each process's subscriber
    lost,       \* messages that never arrived
    snapshot,   \* the task_progress key
    stream,     \* the event_generator
    got         \* the client's Last-Event-ID

notifyVars == <<task, api, worker, signalled, wire, lost, snapshot, stream, got>>

Processes == {"api", "worker"}
Messages == {"available", "event", "cancellation"}
NoTask == [status |-> "none", events |-> 0, cancel |-> FALSE]
Off == [at |-> "off", woken |-> FALSE, full |-> FALSE, copy |-> NoTask]
Terminal(t) == t.status \in {"settled", "deleted"}

NotifyInit ==
    /\ task = NoTask
    /\ api = [todo |-> <<>>, copy |-> NoTask]
    /\ worker = [at |-> "top", woken |-> FALSE, todo |-> <<>>, copy |-> NoTask, left |-> MaxProgress]
    /\ signalled = FALSE
    /\ wire = [p \in Processes |-> {}]
    /\ lost = 0
    /\ snapshot = NoTask
    /\ stream = Off
    /\ got = 0

----------------------------------------------------------------------------
(* TaskWakeCoordinator and the bus                                         *)

\* What a message can do in a process: the API process has the stream, the
\* other the worker and its execution context.
Heard(p) == IF p = "api" THEN Messages ELSE {"available", "cancellation"}

Listening == {"list", "task", "fill", "wait"}

\* signal_task, signal_worker and signal_cancellation.
Signal(p, m, workers) ==
    /\ stream' = IF p = "api" /\ stream.at \in Listening THEN [stream EXCEPT !.woken = TRUE] ELSE stream
    /\ worker' = IF p = "worker" /\ m \in Heard(p) /\ workers.at \in {"claim", "empty", "wait"}
                   THEN [workers EXCEPT !.woken = TRUE] ELSE workers
    /\ signalled' = (signalled \/ (p = "worker" /\ m = "cancellation"))

\* publish_*: the own process first, then Redis, which may be down.  The own
\* subscriber gets the message too, which repeats the local signal.
Publish(p, m, workers) ==
    /\ Signal(p, m, workers)
    /\ \/ /\ wire' = [q \in Processes |-> wire[q] \cup (IF q = p THEN {} ELSE {m} \cap Heard(q))]
          /\ UNCHANGED lost
       \/ lost < MaxLost /\ lost' = lost + 1 /\ UNCHANGED wire

\* _handle_message of a process's subscriber.
Receive(p) ==
    /\ \E m \in wire[p] :
         /\ Signal(p, m, worker)
         /\ wire' = [wire EXCEPT ![p] = @ \ {m}]
    /\ UNCHANGED <<task, api, lost, snapshot, got>>

\* _subscriber_loop is disconnected: what was published meanwhile is gone.
Drop(p) ==
    /\ wire[p] # {} /\ lost < MaxLost
    /\ wire' = [wire EXCEPT ![p] = {}]
    /\ lost' = lost + 1
    /\ UNCHANGED <<task, api, worker, signalled, snapshot, stream, got>>

\* _prune_cancellations_locked after cancellation_ttl_seconds.
PruneCancellation ==
    /\ signalled
    /\ signalled' = FALSE
    /\ UNCHANGED <<task, api, worker, wire, lost, snapshot, stream, got>>

----------------------------------------------------------------------------
(* Writers: each commits, then works through what NotifyingTripTaskStore    *)
(* does with the task the store returned.                                   *)

NewEvent(t, status) == [t EXCEPT !.status = status, !.events = @ + 1]

CreateTask ==
    /\ task.status = "none" /\ api.todo = <<>>
    /\ task' = NewEvent(task, "queued")
    /\ api' = [todo |-> <<"snapshot", "available">>, copy |-> task']
    /\ UNCHANGED <<worker, signalled, wire, lost, snapshot, stream, got>>

\* request_cancel: a queued task is settled at once.
RequestCancel ==
    /\ task.status \in {"queued", "running"} /\ ~task.cancel /\ api.todo = <<>>
    /\ task' = [NewEvent(task, IF task.status = "queued" THEN "settled" ELSE "running")
                    EXCEPT !.cancel = TRUE]
    /\ api' = [todo |-> <<"snapshot", "cancellation", "event">>, copy |-> task']
    /\ UNCHANGED <<worker, signalled, wire, lost, snapshot, stream, got>>

\* delete_trip_session: the rows, then the cached task.
DeleteSession ==
    /\ task.status = "settled" /\ api.todo = <<>>
    /\ task' = [task EXCEPT !.status = "deleted"]
    /\ api' = [todo |-> <<"forget">>, copy |-> NoTask]
    /\ UNCHANGED <<worker, signalled, wire, lost, snapshot, stream, got>>

\* _set and _delete of the read-model cache swallow an error of Redis: the key
\* then keeps what it held.
CacheWrite(new) == snapshot' \in {new, snapshot}

ApiStep ==
    /\ api.todo # <<>>
    /\ api' = [todo |-> Tail(api.todo),
               copy |-> IF Len(api.todo) = 1 THEN NoTask ELSE api.copy]
    /\ IF Head(api.todo) \in Messages
         THEN Publish("api", Head(api.todo), worker) /\ UNCHANGED snapshot
         ELSE /\ CacheWrite(IF Head(api.todo) = "forget" THEN NoTask ELSE api.copy)
              /\ UNCHANGED <<worker, signalled, wire, lost, stream>>
    /\ UNCHANGED <<task, got>>

\* _run_loop takes the cursor, then asks the database; rounds after the task
\* is settled concern other tasks.
Loop ==
    /\ worker.at = "top" /\ worker.todo = <<>> /\ ~Terminal(task)
    /\ worker' = [worker EXCEPT !.at = "claim", !.woken = FALSE]
    /\ UNCHANGED <<task, api, signalled, wire, lost, snapshot, stream, got>>

ClaimNext ==
    /\ worker.at = "claim"
    /\ IF task.status = "queued"
         THEN /\ task' = NewEvent(task, "running")
              /\ worker' = [worker EXCEPT !.at = "run", !.todo = <<"snapshot", "event">>,
                                          !.copy = task', !.woken = FALSE]
         ELSE /\ worker' = [worker EXCEPT !.at = "empty"]
              /\ UNCHANGED task
    /\ UNCHANGED <<api, signalled, wire, lost, snapshot, stream, got>>

Sleep ==
    /\ worker.at = "empty"
    /\ worker' = [worker EXCEPT !.at = "wait"]
    /\ UNCHANGED <<task, api, signalled, wire, lost, snapshot, stream, got>>

\* wait_for_worker returns: the revision moved, or the poll interval passed.
WorkerWakes ==
    /\ worker.at = "wait"
    /\ worker' = [worker EXCEPT !.at = "top", !.woken = FALSE]
    /\ UNCHANGED <<task, api, signalled, wire, lost, snapshot, stream, got>>

\* check_cancelled: the local signal first, then the row; record_progress and
\* the mark_* calls notify before they store the snapshot.
CancelSeen == signalled \/ task.cancel

WorkerWrites(status, at) ==
    /\ worker.at = "run" /\ worker.todo = <<>>
    /\ task' = NewEvent(task, status)
    /\ worker' = [worker EXCEPT !.at = at, !.todo = <<"event", "snapshot">>, !.copy = task', !.woken = FALSE,
                                !.left = IF at = "run" THEN @ - 1 ELSE @]
    /\ UNCHANGED <<api, signalled, wire, lost, snapshot, stream, got>>

RecordProgress == ~CancelSeen /\ worker.left > 0 /\ WorkerWrites("running", "run")
MarkCancelled == CancelSeen /\ WorkerWrites("settled", "top")
MarkSettled == WorkerWrites("settled", "top")

WorkerStep ==
    /\ worker.todo # <<>>
    /\ LET rest == [worker EXCEPT !.todo = Tail(@),
                               !.copy = IF Len(worker.todo) = 1 THEN NoTask ELSE @]
       IN  IF Head(worker.todo) \in Messages
             THEN Publish("worker", Head(worker.todo), rest) /\ UNCHANGED snapshot
             ELSE /\ CacheWrite(worker.copy)
                  /\ worker' = rest
                  /\ UNCHANGED <<signalled, wire, lost, stream>>
    /\ UNCHANGED <<task, api, got>>

----------------------------------------------------------------------------
(* Readers                                                                 *)

\* EventSource connects, and connects again until the client has the last
\* event; the endpoint looks the task up first.
Connect ==
    /\ stream.at = "off"
    /\ task.status \notin {"none", "deleted"}
    /\ ~(Terminal(task) /\ got = task.events)
    /\ stream' = [Off EXCEPT !.at = "cursor"]
    /\ UNCHANGED <<task, api, worker, signalled, wire, lost, snapshot, got>>

TakeCursor ==
    /\ stream.at = "cursor"
    /\ stream' = [stream EXCEPT !.at = "list", !.woken = FALSE]
    /\ UNCHANGED <<task, api, worker, signalled, wire, lost, snapshot, got>>

\* The connection may break after any event of the batch; one that finds events
\* delivers the first.
Listed(to, upto) ==
    IF to < upto THEN Off ELSE [stream EXCEPT !.at = "task", !.full = upto = got + EventLimit]

\* list_events after the client's cursor; a deleted task ends the stream.
ListEvents ==
    /\ stream.at = "list"
    /\ LET upto == IF task.events < got + EventLimit THEN task.events ELSE got + EventLimit
       IN  IF task.status = "deleted"
             THEN stream' = Off /\ UNCHANGED got
             ELSE \E to \in (IF upto > got THEN got + 1 ELSE got)..upto :
                    /\ got' = to
                    /\ stream' = Listed(to, upto)
    /\ UNCHANGED <<task, api, worker, signalled, wire, lost, snapshot>>

\* Bug: the revision is read when the events have been listed.
StopsThenCursor(t) == IF Terminal(t) THEN Off ELSE [Off EXCEPT !.at = "wait", !.full = stream.full]

\* get_task: the cached snapshot is taken as it is.
StreamStops(t) == IF Terminal(t) THEN Off ELSE [stream EXCEPT !.at = "wait", !.copy = NoTask]

\* Bug: a hit renews the lifetime of the snapshot by storing it again.
CheckTaskRenews ==
    /\ stream.at = "task"
    /\ stream' = IF snapshot # NoTask THEN [stream EXCEPT !.at = "fill", !.copy = snapshot]
                 ELSE IF task.status = "deleted" THEN Off
                 ELSE [stream EXCEPT !.at = "fill", !.copy = task]
    /\ UNCHANGED <<task, api, worker, signalled, wire, lost, snapshot, got>>

CheckTask ==
    /\ stream.at = "task"
    /\ stream' = IF snapshot # NoTask THEN StreamStops(snapshot)
                 ELSE IF task.status = "deleted" THEN Off
                 ELSE [stream EXCEPT !.at = "fill", !.copy = task]
    /\ UNCHANGED <<task, api, worker, signalled, wire, lost, snapshot, got>>

\* _cache_task after a miss, with the row as it was read.
FillFromStream ==
    /\ stream.at = "fill"
    /\ CacheWrite(stream.copy)
    /\ stream' = StreamStops(stream.copy)
    /\ UNCHANGED <<task, api, worker, signalled, wire, lost, got>>

\* Bug: the wait has no timeout.
StreamWakesOnSignal ==
    /\ stream.at = "wait" /\ stream.woken
    /\ stream' = [Off EXCEPT !.at = "cursor"]
    /\ UNCHANGED <<task, api, worker, signalled, wire, lost, snapshot, got>>

\* wait_for_task returns: the revision moved, or the fallback poll is due.
StreamWakes ==
    /\ stream.at = "wait"
    /\ stream' = [Off EXCEPT !.at = "cursor"]
    /\ UNCHANGED <<task, api, worker, signalled, wire, lost, snapshot, got>>

\* task_active_ttl_seconds or task_terminal_ttl_seconds have passed.
SnapshotExpires ==
    /\ snapshot # NoTask
    /\ snapshot' = NoTask
    /\ UNCHANGED <<task, api, worker, signalled, wire, lost, stream, got>>

StreamStep == TakeCursor \/ ListEvents \/ CheckTask \/ FillFromStream \/ StreamWakes
WorkerRuns == Loop \/ ClaimNext \/ Sleep \/ WorkerWakes \/ WorkerStep \/ MarkCancelled

NotifyNext ==
    \/ CreateTask \/ RequestCancel \/ DeleteSession \/ ApiStep
    \/ WorkerRuns \/ RecordProgress \/ MarkSettled
    \/ Connect \/ StreamStep \/ SnapshotExpires
    \/ \E p \in Processes : Receive(p) \/ Drop(p)
    \/ PruneCancellation

NotifySpec == NotifyInit /\ [][NotifyNext]_notifyVars

----------------------------------------------------------------------------
\* The variables have their types; a worker runs at most the progress steps it has.
NotifyTypeOK ==
    LET Row == [status : {"none", "queued", "running", "settled", "deleted"},
                events : 0..(MaxProgress + 4), cancel : BOOLEAN]
        Todo == Seq(Messages \cup {"snapshot", "forget"})
    IN  /\ {task, api.copy, worker.copy, snapshot, stream.copy} \subseteq Row
        /\ {api.todo, worker.todo} \subseteq Todo
        /\ worker.at \in {"top", "claim", "empty", "wait", "run"}
        /\ stream.at \in {"off", "cursor", "list", "task", "fill", "wait"}
        /\ {worker.woken, stream.woken, stream.full} \subseteq BOOLEAN
        /\ signalled \in BOOLEAN
        /\ wire \in [Processes -> SUBSET Messages]
        /\ lost \in 0..MaxLost /\ worker.left \in 0..MaxProgress /\ got \in Nat

Pending(m) == \E i \in 1..Len(api.todo) : api.todo[i] = m
PendingEvent == \E m \in Messages : Pending(m) \/ \E i \in 1..Len(worker.todo) : worker.todo[i] = m

\* A stream that sleeps although events are waiting will be woken: it has been
\* signalled already, the writer has still to signal, or a message is on its
\* way.  Only a lost message, or a batch cut off at the limit of list_events,
\* leaves it to the fallback poll.
StreamIsWoken ==
    (stream.at = "wait" /\ got < task.events /\ ~stream.woken /\ task.status # "deleted") =>
        PendingEvent \/ wire["api"] # {} \/ lost > 0 \/ stream.full

\* The worker does not sleep on a queued task either, unless a message is lost.
WorkerIsWoken ==
    (worker.at = "wait" /\ task.status = "queued" /\ ~worker.woken) =>
        Pending("available") \/ "available" \in wire["worker"] \/ lost > 0

\* check_cancelled trusts the local signal without asking the database: it is
\* only there when the row says so too.
CancelSignalIsTrue == signalled => task.cancel

\* The cached task is an earlier or the present row, never one that was not
\* committed, and what the reader has seen of the task never gets ahead of it.
SnapshotWasCommitted ==
    snapshot # NoTask =>
        /\ snapshot.events <= task.events
        /\ snapshot.cancel => task.cancel
        /\ Terminal(snapshot) => Terminal(task)

\* Every event of a settled task reaches a client that keeps connecting, with
\* messages lost, batches cut off and the stream closing early on a snapshot
\* that is newer than the events it has listed.
EventsArrive == []<>(~Terminal(task) \/ task.status = "deleted" \/ got = task.events)

\* A snapshot stored late, over a newer one or after the deletion, and one that a
\* failed write left behind, goes and does not come back: from some moment on,
\* the snapshot of a settled task is its row, and a deleted task has none.
SnapshotSettles == <>[](Terminal(task) => snapshot \in {NoTask, task})

\* What waiters and checks rely on instead of the database: nobody sleeps through
\* a signal that was not lost, no cancellation is signalled before its commit, and
\* the cached row was committed.
NotifyInv ==
    NotifyTypeOK /\ StreamIsWoken /\ WorkerIsWoken /\ CancelSignalIsTrue /\ SnapshotWasCommitted

=============================================================================
