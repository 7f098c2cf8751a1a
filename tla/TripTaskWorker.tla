--------------------------- MODULE TripTaskWorker ---------------------------
(***************************************************************************)
(* The workers that drain the task queue of TripTaskStore: TripTaskWorker's *)
(* claim / execute / settle loop with its heartbeat thread, the execution   *)
(* context that injects lease and cancellation checks into the synchronous  *)
(* TripOrchestrator loop, the orchestrator loop itself as far as it         *)
(* checkpoints, and the table of AgentState checkpoints.                    *)
(*                                                                          *)
(* A check (check_ownership, then is_cancel_requested) and the write it     *)
(* guards are separate steps, so a worker may be descheduled between them.  *)
(* The planning actions are abstracted to their number: a plan is ready     *)
(* after Goal successful actions, and the FINISH action completes it.       *)
(***************************************************************************)
EXTENDS TripTaskStore

CONSTANTS
    Goal,           \* actions a plan needs before decide_next_action says FINISH
    MaxSteps,       \* execution budget max_steps of an AgentState
    MarkOf,         \* _ACTION_PROGRESS: progress mark of an action
    MaxStalls,      \* leases that lapse although the holder still heartbeats
    MaxCrashes,     \* processes that die
    MaxDbErrors     \* database calls that raise

ASSUME WorkAssumption == Goal \in Nat /\ MaxSteps \in Nat
ASSUME BoundsAssumption == {MaxStalls, MaxCrashes, MaxDbErrors} \subseteq Nat
\* action_progress
ActionProgress(action, completed) ==
    IF action = "finish" /\ completed THEN 100
    ELSE Smaller(99, MarkOf[action] + (IF completed THEN 2 ELSE 0))

ASSUME MarkAssumption ==
    /\ MarkOf \in [{"act", "finish"} -> 0..99]
    /\ \A a \in {"act", "finish"}, done \in BOOLEAN : ActionProgress(a, done) \in Marks

VARIABLES
    wk,         \* [Workers -> the worker thread and its heartbeat thread]
    ckpt,       \* [Tasks -> AgentState row of the task's session, or NoState]
    faults      \* faults that have happened so far

vars == <<tasks, events, wk, ckpt, faults>>

----------------------------------------------------------------------------
NoState == [status |-> "none", work |-> 0, step |-> 0, finished |-> FALSE, by |-> 0]

AgentStatuses ==
    {"pending", "running", "completed", "failed", "cancelled",
     "max_steps_reached", "stopped"}

\* A checkpoint; "stopped" stands for budget_exhausted and convergence_stopped.
\* `by' is the attempt number of the worker that wrote it.
AgentStates ==
    [status : AgentStatuses \cup {"none"}, work : Nat, step : Nat,
     finished : BOOLEAN, by : Nat]

\* Where a worker is.  At a location of Checked it first runs check_cancelled;
\* "verify" runs only check_ownership.
Checked == {"enter", "init", "loop", "gate", "call", "drain", "retry",
            "backoff", "halt", "save", "after", "exhausted", "final"}
Unchecked == {"idle", "dead", "local", "complete", "succeed", "failing",
              "cancelRead", "cancelWrite", "markCancelled"}
Locations == Checked \cup Unchecked \cup {"verify"}

\* The locations inside the try block whose finally clause writes a checkpoint.
InTry == {"call", "drain", "retry", "backoff"}

Errors == {"none", "failed", "timed_out", "cancelled"}

\* pc: location; chk: progress of the check at it; task, att: the claimed task
\* and its attempt number; mem, kept: the AgentState object and whether it is
\* marked checkpoint_persisted; act, ok: the root action of the current step and
\* whether it succeeded; err: the exception in flight; hb: the heartbeat thread
\* is running.
WorkerStates ==
    [pc : Locations, chk : {"own", "flag", "done"}, task : Tasks \cup {None},
     att : Nat, mem : AgentStates, kept : BOOLEAN, act : {"act", "finish"},
     ok : BOOLEAN, err : Errors, hb : BOOLEAN]

IdleWorker ==
    [pc |-> "idle", chk |-> "own", task |-> None, att |-> 0, mem |-> NoState,
     kept |-> FALSE, act |-> "act", ok |-> FALSE, err |-> "none", hb |-> FALSE]

Faults == [stalls : 0..MaxStalls, crashes : 0..MaxCrashes, db : 0..MaxDbErrors]

Alive(w) == wk[w].pc # "dead"
Busy(w) == wk[w].pc \notin {"idle", "dead"}

\* A step of worker w that leaves the rest of its thread alone.
Goto(w, l) == wk' = [wk EXCEPT ![w].pc = l, ![w].chk = "own"]

GotoWith(w, l, mem) ==
    wk' = [wk EXCEPT ![w].pc = l, ![w].chk = "own", ![w].mem = mem]

Raise(w, l, err) ==
    wk' = [wk EXCEPT ![w].pc = l, ![w].chk = "own", ![w].err = err]

\* The end of _execute_task: the finally clause stops and joins the heartbeat.
Leave(w) == wk' = [wk EXCEPT ![w] = IdleWorker]

DbError == /\ faults.db < MaxDbErrors
           /\ faults' = [faults EXCEPT !.db = @ + 1]

----------------------------------------------------------------------------
(* The checks.                                                             *)

\* The row a worker asks about may have been deleted; then the store raises
\* TripTaskNotFoundError, which the worker treats like any other exception.
Present(w) == wk[w].task \in Allocated

\* An exception at a check.  Inside the try block the finally clause runs next.
Interrupt(w, err) ==
    IF wk[w].pc \in InTry THEN Raise(w, "verify", err)
    ELSE Raise(w, IF err = "cancelled" THEN "cancelRead" ELSE "failing", err)

\* check_ownership, via assert_worker_owns_task.
CheckOwnership(w) ==
    /\ wk[w].pc \in Checked \cup {"verify"}
    /\ wk[w].chk = "own"
    /\ \/ /\ IF HasValidLease(wk[w].task, w)
             THEN wk' = [wk EXCEPT ![w].chk = IF wk[w].pc = "verify" THEN "done" ELSE "flag"]
             ELSE Interrupt(w, "failed")
          /\ UNCHANGED faults
       \/ DbError /\ Interrupt(w, "failed")
    /\ UNCHANGED <<tasks, events, ckpt>>

\* The rest of check_cancelled.  A cancellation signal on the notification bus
\* is only ever published after the flag is committed and the flag is never
\* reset, so the fast path decides as this read of the row does.
CheckCancelFlag(w) ==
    /\ wk[w].pc \in Checked
    /\ wk[w].chk = "flag"
    /\ \/ /\ IF ~Present(w) THEN Interrupt(w, "failed")
             ELSE IF CancelRequested(wk[w].task) THEN Interrupt(w, "cancelled")
             ELSE wk' = [wk EXCEPT ![w].chk = "done"]
          /\ UNCHANGED faults
       \/ DbError /\ Interrupt(w, "failed")
    /\ UNCHANGED <<tasks, events, ckpt>>

\* Worker w is at location l with its checks behind it.
At(w, l) ==
    /\ wk[w].pc = l
    /\ l \in Checked \cup {"verify"} => wk[w].chk = "done"

----------------------------------------------------------------------------
(* AgentState checkpoints.                                                 *)

\* Mutant: MySQL upserts like SQLite.
MaySaveAlways(w) == TRUE

\* MySQL inserts a state that is not yet checkpoint_persisted (the primary key
\* rejects a second one) and updates one that is (no row: SessionNotFoundError).
\* SQLite upserts.
MaySave(w) ==
    Backend = "mysql" => (wk[w].kept <=> ckpt[wk[w].task] # NoState)

WriteState(w, mem) == ckpt' = [ckpt EXCEPT ![wk[w].task] = [mem EXCEPT !.by = wk[w].att]]

\* _checkpoint of state m, then on to `next'.  A save that fails raises
\* AgentCheckpointError; a connection that breaks may have committed or not.
SaveState(w, m, next) ==
    LET handler == IF wk[w].pc \in InTry THEN "verify" ELSE "failing"
        fail == wk' = [wk EXCEPT ![w].pc = handler, ![w].chk = "own", ![w].err = "failed",
                                 ![w].mem = [m EXCEPT !.status = "failed"]]
    IN  /\ \/ /\ MaySave(w)
              /\ WriteState(w, m)
              /\ wk' = [wk EXCEPT ![w].pc = next, ![w].chk = "own",
                                  ![w].mem = m, ![w].kept = TRUE]
              /\ UNCHANGED faults
           \/ /\ ~MaySave(w)
              /\ fail
              /\ UNCHANGED <<ckpt, faults>>
           \/ /\ DbError
              /\ fail
              /\ \/ UNCHANGED ckpt
                 \/ MaySave(w) /\ WriteState(w, m)
        /\ UNCHANGED storeVars

----------------------------------------------------------------------------
(* The worker loop and the start of an execution.                          *)

\* run_once claims a task; _execute_task starts the heartbeat.  When the commit
\* succeeds but the call raises, the worker goes on without knowing its claim.
Claim(w, t) ==
    /\ wk[w].pc = "idle"
    /\ ClaimNext(w, t)
    /\ \/ /\ wk' = [wk EXCEPT ![w] = [IdleWorker EXCEPT
                            !.pc = "enter", !.task = t, !.hb = TRUE,
                            !.att = tasks[t].attempt + 1]]
          /\ UNCHANGED faults
       \/ DbError /\ UNCHANGED wk
    /\ UNCHANGED ckpt

\* The heartbeat thread ends when heartbeat() returns False.
HeartbeatTick(w) ==
    /\ wk[w].hb
    /\ \/ Heartbeat(wk[w].task, w) /\ UNCHANGED wk
       \/ /\ ~MayHeartbeat(wk[w].task, w)
          /\ wk' = [wk EXCEPT ![w].hb = FALSE]
          /\ UNCHANGED storeVars
    /\ UNCHANGED <<ckpt, faults>>

\* The while test of _run_state.
LoopHead(m) == IF m.finished THEN "final"
               ELSE IF m.step < MaxSteps THEN "loop" ELSE "exhausted"

\* Mutant: a recovered task starts over.
LoadOrStartFresh(w) ==
    /\ At(w, "enter")
    /\ wk' = [wk EXCEPT ![w].pc = "init", ![w].chk = "own",
                        ![w].kept = ckpt[wk[w].task] # NoState,
                        ![w].mem = [NoState EXCEPT !.status = "running"]]
    /\ UNCHANGED <<tasks, events, ckpt, faults>>

\* _load_or_start: run() builds a fresh AgentState, resume() continues the
\* checkpoint unless it is already complete.
LoadOrStart(w) ==
    LET saved == ckpt[wk[w].task]
        fresh == [NoState EXCEPT !.status = "running"]
        done == saved.finished \/ saved.status = "completed"
    IN  /\ At(w, "enter")
        /\ \/ /\ wk' = [wk EXCEPT
                    ![w].pc = IF done THEN "final" ELSE "init",
                    ![w].chk = "own",
                    ![w].kept = saved # NoState,
                    ![w].mem = IF saved = NoState THEN fresh
                               ELSE IF done THEN saved
                               ELSE [saved EXCEPT !.status = "running"]]
              /\ UNCHANGED faults
           \/ DbError /\ Raise(w, "failing", "failed")
        /\ UNCHANGED <<tasks, events, ckpt>>

\* The checkpoint before the first external call.
FirstCheckpoint(w) == At(w, "init") /\ SaveState(w, wk[w].mem, LoopHead(wk[w].mem))

----------------------------------------------------------------------------
(* One turn of the loop in _run_state.                                     *)

\* runtime_budget_reason: only a duration limit counts as a timeout.
BudgetCheck(w) ==
    /\ At(w, "loop")
    /\ \/ Goto(w, "gate")
       \/ \E err \in {"failed", "timed_out"} :
             wk' = [wk EXCEPT ![w].pc = "halt", ![w].chk = "own", ![w].err = err,
                              ![w].mem.status = "stopped"]
    /\ UNCHANGED <<tasks, events, ckpt, faults>>

\* decide_next_action, as far as the loop depends on it.
NextAction(m) == IF m.work >= Goal THEN "finish" ELSE "act"

\* notify_action_started, then the convergence guard, which may refuse to run
\* the action.  A tool call checks once more before it leaves the process; a
\* local action does not.  execute_action counts the step before anything else.
StartAction(w) ==
    LET t == wk[w].task
        act == NextAction(wk[w].mem)
        progress == RecordProgress(t, w, "action_started", ActionProgress(act, FALSE))
        begin(l) == wk' = [wk EXCEPT ![w].pc = l, ![w].chk = "own", ![w].act = act,
                                     ![w].ok = FALSE, ![w].mem.step = @ + 1]
    IN  /\ At(w, "gate")
        /\ \/ /\ progress
              /\ \/ begin("local")
                 \/ act = "act" /\ begin("call")
                 \/ wk' = [wk EXCEPT ![w].pc = "halt", ![w].chk = "own",
                                     ![w].err = "failed", ![w].mem.status = "stopped"]
              /\ UNCHANGED <<ckpt, faults>>
           \/ /\ ~HasValidLease(t, w)
              /\ Raise(w, "failing", "failed")
              /\ UNCHANGED <<tasks, events, ckpt, faults>>
           \/ /\ DbError
              /\ Raise(w, "failing", "failed")
              /\ progress \/ UNCHANGED storeVars
              /\ UNCHANGED ckpt

Advanced(m) ==
    IF NextAction(m) = "finish"
    THEN [m EXCEPT !.finished = TRUE, !.status = "completed"]
    ELSE [m EXCEPT !.work = @ + 1]

Succeeded(w) ==
    wk' = [wk EXCEPT ![w].pc = "drain", ![w].chk = "own", ![w].ok = TRUE,
                     ![w].mem = Advanced(@)]

\* An action that does not succeed, or cannot go on.
Fatal(w) ==
    wk' = [wk EXCEPT ![w].pc = "verify", ![w].chk = "own", ![w].err = "failed",
                     ![w].mem.status = "failed"]

Unfinished(w) == Goto(w, "verify")

\* _raise_budget_exhausted and _raise_convergence_stopped inside the try block.
Stopped(w) ==
    \E err \in {"failed", "timed_out"} :
        wk' = [wk EXCEPT ![w].pc = "retry", ![w].chk = "own", ![w].err = err,
                         ![w].mem.status = "stopped"]

\* A deterministic local action.  FINISH always succeeds; a validation may find
\* a plan that can be repaired, or one that cannot.
LocalAction(w) ==
    /\ At(w, "local")
    /\ \/ Succeeded(w)
       \/ wk[w].act # "finish" /\ (Unfinished(w) \/ Fatal(w))
    /\ UNCHANGED <<tasks, events, ckpt, faults>>

\* A tool call: success, a failure to be retried after a backoff, one the plan
\* can do without, a fatal one, or an exhausted budget.
ToolCall(w) ==
    /\ At(w, "call")
    /\ Succeeded(w) \/ Goto(w, "retry") \/ Unfinished(w) \/ Fatal(w) \/ Stopped(w)
    /\ UNCHANGED <<tasks, events, ckpt, faults>>

\* _drain_local_actions: absorb further local actions into the same step, until
\* finished, or the next action is not local, or the batch limit, or one fails.
Drain(w) ==
    /\ At(w, "drain")
    /\ \/ Goto(w, "verify")
       \/ /\ ~wk[w].mem.finished
          /\ \/ GotoWith(w, "drain", Advanced(wk[w].mem))
             \/ Fatal(w)
             \/ Stopped(w)
    /\ UNCHANGED <<tasks, events, ckpt, faults>>

\* The checkpoint before a backoff, or of an exhausted budget.
RetryCheckpoint(w) ==
    /\ At(w, "retry")
    /\ SaveState(w, wk[w].mem, IF wk[w].err = "none" THEN "backoff" ELSE "verify")

\* sleep_with_task_cancellation has run its last check.
BackoffDone(w) ==
    /\ At(w, "backoff")
    /\ Goto(w, "verify")
    /\ UNCHANGED <<tasks, events, ckpt, faults>>

\* The finally clause: lease check, checkpoint, notify_action_completed.
Verified(w) ==
    /\ At(w, "verify")
    /\ Goto(w, "save")
    /\ UNCHANGED <<tasks, events, ckpt, faults>>

StepCheckpoint(w) == At(w, "save") /\ SaveState(w, wk[w].mem, "complete")

CompleteAction(w) ==
    LET t == wk[w].task
        type == IF wk[w].ok THEN "action_completed" ELSE "action_retrying"
        progress == RecordProgress(t, w, type, ActionProgress(wk[w].act, wk[w].ok))
    IN  /\ At(w, "complete")
        /\ \/ /\ progress
              /\ Goto(w, "after")
              /\ UNCHANGED <<ckpt, faults>>
           \/ /\ ~HasValidLease(t, w)
              /\ Raise(w, "failing", "failed")
              /\ UNCHANGED <<tasks, events, ckpt, faults>>
           \/ /\ DbError
              /\ Raise(w, "failing", "failed")
              /\ progress \/ UNCHANGED storeVars
              /\ UNCHANGED ckpt

\* The finally clause is over: the exception in flight, if any, goes on.
NextTurn(w) ==
    /\ At(w, "after")
    /\ Goto(w, IF wk[w].err = "none" THEN LoopHead(wk[w].mem)
               ELSE IF wk[w].err = "cancelled" THEN "cancelRead" ELSE "failing")
    /\ UNCHANGED <<tasks, events, ckpt, faults>>

\* The checkpoint of a budget or convergence stop outside the try block, and of
\* a loop that ran out of steps; both end in an exception.
HaltCheckpoint(w) ==
    \/ At(w, "halt") /\ SaveState(w, wk[w].mem, "failing")
    \/ /\ At(w, "exhausted")
       /\ SaveState(w, [wk[w].mem EXCEPT !.status = "max_steps_reached"], "failing")

----------------------------------------------------------------------------
(* Settling the task.                                                      *)

\* The last cancellation check has passed; a cancellation from here on loses.
Finalize(w) ==
    /\ At(w, "final")
    /\ Goto(w, "succeed")
    /\ UNCHANGED <<tasks, events, ckpt, faults>>

\* A call of _mark_terminal by worker w: it writes; or returns because the row
\* is terminal, after which the execution is over; or raises.
Settle(w, status, raised) ==
    LET t == wk[w].task
        writes == MarkTerminal(t, w, status)
    IN  /\ \/ writes /\ Leave(w) /\ UNCHANGED faults
           \/ /\ tasks[t].status \in Terminal
              /\ Leave(w)
              /\ UNCHANGED <<tasks, events, faults>>
           \/ /\ tasks[t].status \notin Terminal
              /\ ~(Present(w) /\ MayMark(t, w))
              /\ raised
              /\ UNCHANGED <<tasks, events, faults>>
           \/ /\ DbError
              /\ writes \/ UNCHANGED storeVars
              /\ raised
        /\ UNCHANGED ckpt

\* An exception out of mark_succeeded is handled like one of the orchestrator.
MarkSucceeded(w) ==
    /\ At(w, "succeed")
    /\ Settle(w, "succeeded", Raise(w, "failing", "failed"))

\* TaskLeaseLostError is swallowed here; anything else escapes to _run_loop,
\* which logs it.  Either way the worker is done with the task.
MarkFailed(w) ==
    /\ At(w, "failing")
    /\ Settle(w, IF wk[w].err = "timed_out" THEN "timed_out" ELSE "failed", Leave(w))

\* Mutant: the checkpoint is not marked as cancelled.
CancelReadOnly(w) ==
    /\ At(w, "cancelRead")
    /\ Goto(w, "markCancelled")
    /\ UNCHANGED <<tasks, events, ckpt, faults>>

\* Mutant: without a checkpoint the handler returns too early.
CancelReadReturns(w) ==
    /\ At(w, "cancelRead")
    /\ IF ckpt[wk[w].task] = NoState THEN Leave(w) ELSE Goto(w, "markCancelled")
    /\ UNCHANGED <<tasks, events, ckpt, faults>>

\* _mark_agent_state_cancelled reads the checkpoint and writes it back, without
\* a lease check; an exception here escapes before mark_cancelled is reached.
CancelRead(w) ==
    LET saved == ckpt[wk[w].task] IN
    /\ At(w, "cancelRead")
    /\ \/ /\ IF saved = NoState THEN Goto(w, "markCancelled")
             ELSE wk' = [wk EXCEPT ![w].pc = "cancelWrite", ![w].kept = TRUE,
                                   ![w].mem = [saved EXCEPT !.status = "cancelled"]]
          /\ UNCHANGED faults
       \/ DbError /\ Leave(w)
    /\ UNCHANGED <<tasks, events, ckpt>>

CancelWrite(w) ==
    /\ At(w, "cancelWrite")
    /\ \/ /\ MaySave(w)
          /\ WriteState(w, wk[w].mem)
          /\ Goto(w, "markCancelled")
          /\ UNCHANGED faults
       \/ ~MaySave(w) /\ Leave(w) /\ UNCHANGED <<ckpt, faults>>
       \/ /\ DbError
          /\ Leave(w)
          /\ UNCHANGED ckpt \/ (MaySave(w) /\ WriteState(w, wk[w].mem))
    /\ UNCHANGED storeVars

MarkCancelled(w) ==
    /\ At(w, "markCancelled")
    /\ Settle(w, "cancelled", Leave(w))

----------------------------------------------------------------------------
(* The environment: clients, the clock and the machines.                   *)

Submit(t, u, k, f) ==
    /\ CreateTask(t, u, k, f)
    /\ UNCHANGED <<wk, ckpt, faults>>

Cancel(t) ==
    /\ RequestCancel(t)
    /\ UNCHANGED <<wk, ckpt, faults>>

\* delete_session removes the session, its task and the events in one
\* transaction; it needs the session row, whatever the task is doing.
DeleteSession(t) ==
    /\ ckpt[t] # NoState
    /\ ckpt' = [ckpt EXCEPT ![t] = NoState]
    /\ IF t \in Allocated THEN DeleteTask(t) ELSE UNCHANGED storeVars
    /\ UNCHANGED <<wk, faults>>

Renewed(t) == \E w \in Workers : tasks[t].worker = w /\ wk[w].hb /\ wk[w].task = t

\* A lease nobody renews runs out; one that is being renewed runs out only when
\* the process, its heartbeat thread included, stalls for a whole lease.
Expire(t) ==
    /\ LeaseExpires(t)
    /\ IF Renewed(t)
       THEN /\ faults.stalls < MaxStalls
            /\ faults' = [faults EXCEPT !.stalls = @ + 1]
       ELSE UNCHANGED faults
    /\ UNCHANGED <<wk, ckpt>>

\* A process dies with its threads.  A restarted process has a new worker id,
\* so it is one of the other workers; at least one of them keeps running.
Crash(w) ==
    /\ Alive(w)
    /\ \E v \in Workers \ {w} : Alive(v)
    /\ faults.crashes < MaxCrashes
    /\ faults' = [faults EXCEPT !.crashes = @ + 1]
    /\ wk' = [wk EXCEPT ![w] = [IdleWorker EXCEPT !.pc = "dead"]]
    /\ UNCHANGED <<tasks, events, ckpt>>

----------------------------------------------------------------------------
RuntimeInit ==
    /\ Init
    /\ wk = [w \in Workers |-> IdleWorker]
    /\ ckpt = [t \in Tasks |-> NoState]
    /\ faults = [stalls |-> 0, crashes |-> 0, db |-> 0]

Execute(w) ==
    \/ CheckOwnership(w) \/ CheckCancelFlag(w)
    \/ LoadOrStart(w) \/ FirstCheckpoint(w)
    \/ BudgetCheck(w) \/ StartAction(w) \/ LocalAction(w) \/ ToolCall(w)
    \/ Drain(w) \/ RetryCheckpoint(w) \/ BackoffDone(w)
    \/ Verified(w) \/ StepCheckpoint(w) \/ CompleteAction(w) \/ NextTurn(w)
    \/ HaltCheckpoint(w) \/ Finalize(w) \/ MarkSucceeded(w) \/ MarkFailed(w)
    \/ CancelRead(w) \/ CancelWrite(w) \/ MarkCancelled(w)

Client(t) ==
    \/ \E u \in Users, k \in Keys, f \in Requests : Submit(t, u, k, f)
    \/ Cancel(t)
    \/ DeleteSession(t)

RuntimeNext ==
    \/ \E w \in Workers : Execute(w) \/ HeartbeatTick(w) \/ Crash(w)
    \/ \E w \in Workers, t \in Tasks : Claim(w, t)
    \/ \E t \in Tasks : Client(t) \/ Expire(t)

RuntimeSpec == RuntimeInit /\ [][RuntimeNext]_vars

\* Threads are scheduled, the operating system runs every live worker, and the
\* clock runs past a lease that nobody renews.  Nothing is assumed of clients.
Fairness ==
    /\ \A w \in Workers :
          /\ WF_vars(Execute(w))
          /\ WF_vars(\E t \in Tasks : Claim(w, t))
          /\ WF_vars(HeartbeatTick(w))
    /\ \A t \in Tasks : WF_vars(~Renewed(t) /\ Expire(t))

FairSpec == RuntimeSpec /\ Fairness

----------------------------------------------------------------------------
(* Properties.                                                             *)

\* Every variable of the runtime has its type.
RuntimeTypeOK ==
    /\ TypeOK
    /\ wk \in [Workers -> WorkerStates]
    /\ ckpt \in [Tasks -> AgentStates]
    /\ faults \in Faults

\* A worker that the row names as its owner works on the attempt the row counts:
\* ownership by worker id alone never lets an old execution pass for a new one.
OwnerIsCurrent ==
    \A w \in Workers : Busy(w) /\ tasks[wk[w].task].worker = w =>
        wk[w].att = tasks[wk[w].task].attempt

\* What every check of a worker relies on, stalled, recovered or late: the runtime
\* is well formed and the owner of a row is the worker of its current attempt.
RuntimeInv == RuntimeTypeOK /\ OwnerIsCurrent

\* The client's view of the tables, and the life it is promised.  A step of the
\* runtime is a step of that life or invisible to the client: one outcome that
\* is never revised, progress that never goes back, no new attempt once a
\* cancellation is asked for, and no cancellation that nobody asked for.
Life == INSTANCE TaskLifecycle WITH
            phase <- [t \in Tasks |-> tasks[t].status],
            asked <- [t \in Tasks |-> tasks[t].cancel],
            attempts <- [t \in Tasks |-> tasks[t].attempt],
            shown <- [t \in Tasks |-> tasks[t].progress]

ImplementsLife == Life!Spec

\* Two workers never execute the same task.  Needs MaxStalls = 0.
SingleExecutor ==
    \A v, w \in Workers :
        Busy(v) /\ Busy(w) /\ wk[v].task = wk[w].task => v = w

\* A task reported as succeeded has a completed plan behind its session, and one
\* reported as cancelled a session that says so.  Needs MaxStalls = 0.
OutcomeMatchesSession ==
    \A t \in Tasks :
        /\ tasks[t].status = "succeeded" => ckpt[t].finished /\ ckpt[t].status = "completed"
        /\ tasks[t].status = "cancelled" => ckpt[t].status \in {"none", "cancelled"}

\* The checkpoint of a session only moves forward: a later attempt continues
\* where the last one stopped, and no write of an earlier attempt, nor one with
\* less work done, replaces it.  Needs MaxStalls = 0.
CheckpointsAdvance ==
    [][\A t \in Tasks : ckpt[t] # NoState /\ ckpt'[t] # NoState =>
          /\ ckpt'[t].by >= ckpt[t].by
          /\ ckpt'[t].work >= ckpt[t].work
          /\ ckpt'[t].step >= ckpt[t].step]_vars

\* The orchestrator never replaces the checkpoint of a newer attempt: it checks
\* the lease before it writes "to keep an old worker from overwriting the state
\* of the new one" (_run_state).
NoStaleOverwrite ==
    [][\A t \in Tasks :
          ckpt[t] # NoState /\ ckpt'[t].status \notin {"none", "cancelled"} =>
              ckpt'[t].by >= ckpt[t].by]_vars

\* A deleted session is not written again by the worker that was executing it.
DeletedStaysDeleted ==
    \A t \in Tasks : tasks[t].status = "deleted" => ckpt[t] = NoState

\* Every task that nobody cancels is settled, whichever workers die on it.
EventuallySettled ==
    \A t \in Tasks :
        tasks[t].status \in Active ~> (tasks[t].status \notin Active \/ tasks[t].cancel)

\* A cancellation request settles the task, wherever its worker is when the
\* request arrives, as long as no process dies and no database call fails.
CancellationSettlesFaultless ==
    \A t \in Tasks :
        tasks[t].cancel ~> (tasks[t].status \notin Active \/ faults.crashes + faults.db > 0)

\* A cancellation request settles the task.
CancellationSettles ==
    \A t \in Tasks : tasks[t].cancel ~> tasks[t].status \notin Active

=============================================================================
