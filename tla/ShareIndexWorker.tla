-------------------------- MODULE ShareIndexWorker --------------------------
(***************************************************************************)
(* Who keeps the vector index in step with the shared-guide tables: the     *)
(* request threads of SharedGuideService, which index synchronously, and    *)
(* the ShareIndexWorker threads, which compensate what they leave undone.   *)
(*                                                                          *)
(* Qdrant holds one point per share: an upsert overwrites it whatever its   *)
(* version, a delete removes it when it has the given version.  Each call   *)
(* to the database or to Qdrant is one step, with the decisions made on its *)
(* answer; an embedding call, which touches no shared state, is joined to   *)
(* the read that follows it.  A lease is never renewed, so it may run out   *)
(* under a live owner.                                                      *)
(***************************************************************************)
EXTENDS SharedGuideStore

CONSTANTS
    Workers,        \* ShareIndexWorker threads
    Requests,       \* request threads of the author
    MaxFaults,      \* failed calls to the embedding service, Qdrant or the store
    MaxCrashes,     \* jobs abandoned by a crash
    MaxStalls       \* leases that run out under a live owner

ASSUME ProcsAssumption == Workers \cup Requests = Owners /\ Workers \cap Requests = {}
ASSUME BudgetAssumption == MaxFaults \in Nat /\ MaxCrashes \in Nat /\ MaxStalls \in Nat

VARIABLES
    proc,       \* what each thread is doing, and for which job
    point,      \* version of the Qdrant point, 0 when there is none
    used        \* faults, crashes and stalls so far, and whether an update was
                \* ever staged over a leased upsert

vars == <<share, jobs, likes, proc, point, used>>

----------------------------------------------------------------------------
\* _MAX_RECONCILIATION_PASSES
MaxPasses == 3

Rest == [pc |-> "idle", op |-> "UPSERT", ver |-> 0, cur |-> 0, restored |-> {}, pass |-> 0]

\* The job thread p works on.
Op(p) == proc[p].op
Ver(p) == proc[p].ver

At(p, label) == proc[p].pc = label
Goto(p, label) == proc' = [proc EXCEPT ![p].pc = label]
Finish(p) == proc' = [proc EXCEPT ![p] = Rest]
Start(p, label, op, v) ==
    proc' = [proc EXCEPT ![p] = [Rest EXCEPT !.pc = label, !.op = op, !.ver = v]]

Reads == UNCHANGED <<shareVars, point, used>>

Fault == used.faults < MaxFaults /\ used' = [used EXCEPT !.faults = @ + 1]

----------------------------------------------------------------------------
(* Qdrant.  A call that fails may still have been carried out.             *)

Upsert(v) == point' = v
Delete(v) == point' = IF point = v THEN 0 ELSE point

\* The call of the vector index that operation op makes for version v.
IndexCall(op, v) == IF op = "UPSERT" THEN Upsert(v) ELSE Delete(v)

\* A call, where thread p goes when it returns and where when it raises.
Call(p, op, v, done, failed) ==
    /\ UNCHANGED shareVars
    /\ \/ IndexCall(op, v) /\ Goto(p, done) /\ UNCHANGED used
       \/ Fault /\ (IndexCall(op, v) \/ UNCHANGED point) /\ Goto(p, failed)

----------------------------------------------------------------------------
(* ShareIndexWorker: a claimed job.                                        *)

WorkerClaim(w) ==
    /\ At(w, "idle")
    /\ \E op \in Operations, v \in Versions :
          ClaimNextIndexJob(op, v, w) /\ Start(w, "read", op, v)
    /\ UNCHANGED <<point, used>>

WorkerTerminalize(w) ==
    /\ At(w, "idle")
    /\ \E op \in Operations, v \in Versions : TerminalizeExpiredClaim(op, v)
    /\ UNCHANGED <<proc, point, used>>

\* _matches_upsert and _matches_delete; the content hash goes with the version.
Matches(p) == share.ver = Ver(p) /\ Wanted(Op(p))

\* Where a worker goes when its job turns out to be stale.
Stale(w) == IF Op(w) = "UPSERT" THEN "reconcile" ELSE "supersede"

\* The reads at the head of _execute_upsert and _execute_delete.
ReadTarget(w) ==
    /\ At(w, "read")
    /\ Goto(w, IF ~Matches(w) THEN Stale(w)
               ELSE IF Op(w) = "UPSERT" THEN "embed" ELSE "call")
    /\ Reads

\* The embedding and the read after it, in the body or in the except clause.
Embed(w) ==
    /\ At(w, "embed")
    /\ \/ Goto(w, IF Matches(w) THEN "call" ELSE "reconcile") /\ UNCHANGED used
       \/ Fault /\ Goto(w, IF Matches(w) THEN "fail" ELSE "reconcile")
    /\ UNCHANGED <<shareVars, point>>

\* Mutant of CallIndex: an error of Qdrant is swallowed.
CallIndexIgnoringErrors(w) ==
    /\ At(w, "call")
    /\ Call(w, Op(w), Ver(w), "check", "check")

\* vector_index.upsert or vector_index.delete
CallIndex(w) ==
    /\ At(w, "call")
    /\ Call(w, Op(w), Ver(w), "check", IF Op(w) = "UPSERT" THEN "raised" ELSE "fail")

\* The read after the call, and the one in the except clause of an upsert.
CheckTarget(w) ==
    /\ At(w, "check") \/ At(w, "raised")
    /\ Goto(w, IF ~Matches(w) THEN Stale(w)
               ELSE IF At(w, "check") THEN "complete" ELSE "fail")
    /\ Reads

Complete(w) ==
    /\ At(w, "complete")
    /\ \/ CompleteIndexOperation(Op(w), Ver(w), w) /\ Finish(w)
       \/ ~MayConclude(Op(w), Ver(w), w) /\ UNCHANGED shareVars /\ Goto(w, Stale(w))
    /\ UNCHANGED <<point, used>>

\* Mutant of LastAttempt: off by one.
BeyondLastAttempt(p) == jobs[Op(p)][Ver(p)].attempts > MaxAttempts

\* terminal, as the claim's attempt_count decides it: while the lease is held,
\* nobody else has raised the count.
LastAttempt(p) == jobs[Op(p)][Ver(p)].attempts >= MaxAttempts

RecordFailure(w) ==
    /\ At(w, "fail")
    /\ \/ RecordIndexFailure(Op(w), Ver(w), w, LastAttempt(w)) /\ Finish(w)
       \/ ~MayConclude(Op(w), Ver(w), w) /\ UNCHANGED shareVars /\ Goto(w, "supersede")
    /\ UNCHANGED <<point, used>>

\* supersede_index_job by the lease owner, whose refusal is ignored.
Supersede(p) ==
    /\ At(p, "supersede")
    /\ \/ SupersedeIndexJob(Op(p), Ver(p), p)
       \/ ~MaySupersede(Op(p), Ver(p), p) /\ UNCHANGED shareVars
    /\ Finish(p)
    /\ UNCHANGED <<point, used>>

RecordStaleFailure(w) ==
    /\ At(w, "give up")
    /\ \/ RecordIndexJobFailure(Op(w), Ver(w), w, LastAttempt(w))
       \/ ~LeaseMatches(Op(w), Ver(w), w) /\ UNCHANGED shareVars
    /\ Finish(w)
    /\ UNCHANGED <<point, used>>

----------------------------------------------------------------------------
(* _reconcile_stale_upsert: a late upsert may have overwritten the point of *)
(* a newer version.  Versions never go back, so a comparison with the       *)
(* record that was expected is one with the version of the job.             *)

\* _cleanup_is_safe
CleanupIsSafe(v) ==
    \/ share.ver > v /\ share.pub \in {"PUBLISHING", "UNPUBLISHED"}
    \/ share.ver = v /\ share.pub = "UNPUBLISHED"

IfSafe(w) == IF CleanupIsSafe(Ver(w)) THEN "clean" ELSE "give up"

\* The read at the head of a pass, or the one after the last pass.
Reconcile(w) ==
    /\ At(w, "reconcile")
    /\ IF ~Visible THEN Goto(w, IfSafe(w))
       ELSE IF share.ver = Ver(w) THEN Goto(w, "supersede")
       ELSE IF proc[w].pass = MaxPasses THEN Goto(w, "give up")
       ELSE proc' = [proc EXCEPT ![w].pc = "restore", ![w].cur = share.ver, ![w].pass = @ + 1]
    /\ Reads

\* _same_ready_record
StillReady(w) == Visible /\ share.ver = proc[w].cur

\* _try_restore_ready_record: the embedding and the read after it,
RestoreEmbed(w) ==
    /\ At(w, "restore")
    /\ \/ /\ StillReady(w)
          /\ proc' = [proc EXCEPT ![w].pc = "overwrite", ![w].restored = @ \cup {proc[w].cur}]
          /\ UNCHANGED used
       \/ ~StillReady(w) /\ Goto(w, "reconcile") /\ UNCHANGED used
       \/ Fault /\ Goto(w, "requeue")
    /\ UNCHANGED <<shareVars, point>>

\* the upsert of the current version,
RestoreUpsert(w) ==
    /\ At(w, "overwrite")
    /\ Call(w, "UPSERT", proc[w].cur, "confirm", "requeue")

\* and the read that confirms it.
RestoreConfirm(w) ==
    /\ At(w, "confirm")
    /\ Goto(w, IF StillReady(w) THEN "supersede" ELSE "requeue")
    /\ Reads

Requeue(w) ==
    /\ At(w, "requeue")
    /\ \/ RequeueCurrentUpsert(proc[w].cur) /\ Goto(w, "requeued")
       \/ ~MayRequeue(proc[w].cur) /\ UNCHANGED shareVars /\ Goto(w, "reconcile")
    /\ UNCHANGED <<point, used>>

\* The read after a requeue.
Requeued(w) ==
    /\ At(w, "requeued")
    /\ Goto(w, IfSafe(w))
    /\ Reads

\* _cleanup_upsert
Cleanup(w) ==
    /\ At(w, "clean")
    /\ Call(w, "DELETE", Ver(w), "cleaned", "give up")

\* _cleanup_stale_upsert_effects: the versions whose points may be left over,
\* in order; one that is not the unpublished current version stops it.
LeftOver(w) ==
    (proc[w].restored \cup (IF share.pub = "UNPUBLISHED" THEN {share.ver} ELSE {})) \ {Ver(w)}

Cleaned(w) ==
    /\ At(w, "cleaned")
    /\ IF LeftOver(w) = {} THEN Goto(w, "supersede")
       ELSE IF LeftOver(w) = {share.ver} /\ share.pub = "UNPUBLISHED"
            THEN proc' = [proc EXCEPT ![w].pc = "clean current", ![w].cur = share.ver]
            ELSE Goto(w, "give up")
    /\ Reads

\* _cleanup_unpublished_version
CleanupCurrent(w) ==
    /\ At(w, "clean current")
    /\ Call(w, "DELETE", proc[w].cur, "supersede", "give up")

----------------------------------------------------------------------------
(* SharedGuideService: publication and unpublication by a request thread.  *)

\* share_session and update
Publish(r) ==
    /\ At(r, "idle")
    /\ CreatePublishIntent \/ StageUpdate
    /\ Start(r, "claim", "UPSERT", share.ver + 1)
    /\ used' = [used EXCEPT !.overtaken = @ \/ ~NoActiveUpsert]
    /\ UNCHANGED point

\* share_session again while the same content is being published.
PublishAgain(r) ==
    /\ At(r, "idle")
    /\ share.pub = "PUBLISHING"
    /\ jobs["UPSERT"][share.ver].status \in {"PENDING", "RUNNING"}
    /\ Start(r, "claim", "UPSERT", share.ver)
    /\ Reads

Unpublish(r) ==
    /\ At(r, "idle")
    /\ StageUnpublish
    /\ Start(r, "claim", "DELETE", share.ver)
    /\ UNCHANGED <<point, used>>

\* claim_index_job; a refused deletion is superseded if it is pointless.
SyncClaim(r) ==
    /\ At(r, "claim")
    /\ \/ ClaimIndexJob(Op(r), Ver(r), r) /\ Goto(r, "write")
       \/ /\ ~MayClaimJob(Op(r), Ver(r)) \/ jobs[Op(r)][Ver(r)].backoff
          /\ \/ Op(r) = "DELETE" /\ SupersedeIndexJob("DELETE", Ver(r), Nobody)
             \/ /\ Op(r) = "UPSERT" \/ ~MaySupersede("DELETE", Ver(r), Nobody)
                /\ UNCHANGED shareVars
          /\ Finish(r)
    /\ UNCHANGED <<point, used>>

\* embed and upsert, or delete
SyncWrite(r) ==
    /\ At(r, "write")
    /\ Call(r, Op(r), Ver(r), "conclude", "failed")

SyncComplete(r) ==
    /\ At(r, "conclude")
    /\ \/ CompleteIndexOperation(Op(r), Ver(r), r) /\ Finish(r)
       \/ /\ ~MayConclude(Op(r), Ver(r), r)
          /\ Goto(r, IF Op(r) = "UPSERT" THEN "undo" ELSE "supersede")
          /\ UNCHANGED shareVars
    /\ UNCHANGED <<point, used>>

\* _best_effort_delete
SyncUndo(r) ==
    /\ At(r, "undo")
    /\ Call(r, "DELETE", Ver(r), "supersede", "supersede")

\* _best_effort_failure
SyncFailure(r) ==
    /\ At(r, "failed")
    /\ \/ RecordIndexFailure(Op(r), Ver(r), r, LastAttempt(r))
       \/ ~MayConclude(Op(r), Ver(r), r) /\ UNCHANGED shareVars
    /\ Finish(r)
    /\ UNCHANGED <<point, used>>

----------------------------------------------------------------------------
(* Faults of the environment.                                              *)

\* A call of the store raises, its commit done or not: a worker records the
\* failure of its job, in a reconciliation that of the repair; an error of
\* requeue_current_upsert counts as a refusal.
StoreError(w) ==
    /\ \/ proc[w].pc \in {"read", "check", "raised"} /\ Goto(w, "fail") /\ UNCHANGED shareVars
       \/ /\ At(w, "complete") /\ Goto(w, "fail")
          /\ CompleteIndexOperation(Op(w), Ver(w), w) \/ UNCHANGED shareVars
       \/ /\ At(w, "requeue") /\ Goto(w, "reconcile")
          /\ RequeueCurrentUpsert(proc[w].cur) \/ UNCHANGED shareVars
       \/ /\ proc[w].pc \in {"reconcile", "restore", "confirm", "requeued", "cleaned"}
          /\ Goto(w, "give up") /\ UNCHANGED shareVars
    /\ Fault
    /\ UNCHANGED point

\* A process dies, or an error of the store ends the request, or strikes where a
\* worker only logs it: the thread gives its job up without a trace.
Crash(p) ==
    /\ ~At(p, "idle")
    /\ used.crashes < MaxCrashes
    /\ used' = [used EXCEPT !.crashes = @ + 1]
    /\ Finish(p)
    /\ UNCHANGED <<shareVars, point>>

\* The owner of the lease is still working on the job.
OwnerAtWork(op, v) ==
    \E p \in Owners : /\ jobs[op][v].owner = p /\ Op(p) = op /\ Ver(p) = v
                      /\ ~At(p, "idle") /\ ~At(p, "claim")

\* The lease of an abandoned job runs out.
AbandonedLeaseExpires(op, v) ==
    /\ ~OwnerAtWork(op, v)
    /\ LeaseExpires(op, v)
    /\ UNCHANGED <<proc, point, used>>

\* The lease runs out under its owner.
Stall(op, v) ==
    /\ OwnerAtWork(op, v)
    /\ used.stalls < MaxStalls
    /\ used' = [used EXCEPT !.stalls = @ + 1]
    /\ LeaseExpires(op, v)
    /\ UNCHANGED <<proc, point>>

----------------------------------------------------------------------------
WorkerInit ==
    /\ Init
    /\ proc = [p \in Owners |-> Rest]
    /\ point = 0
    /\ used = [faults |-> 0, crashes |-> 0, stalls |-> 0, overtaken |-> FALSE]

ReconcileStep(w) ==
    \/ Reconcile(w) \/ RestoreEmbed(w) \/ RestoreUpsert(w) \/ RestoreConfirm(w)
    \/ Requeue(w) \/ Requeued(w) \/ Cleanup(w) \/ Cleaned(w) \/ CleanupCurrent(w)

WorkerStep(w) ==
    \/ WorkerClaim(w) \/ WorkerTerminalize(w) \/ ReadTarget(w) \/ Embed(w)
    \/ CallIndex(w) \/ CheckTarget(w) \/ Complete(w) \/ RecordFailure(w)
    \/ Supersede(w) \/ RecordStaleFailure(w) \/ ReconcileStep(w)

RequestStep(r) ==
    \/ SyncClaim(r) \/ SyncWrite(r) \/ SyncComplete(r) \/ SyncUndo(r)
    \/ SyncFailure(r) \/ Supersede(r)

\* What the author asks for.
AuthorStep(r) == Publish(r) \/ PublishAgain(r) \/ Unpublish(r)

\* What readers do.
ReaderStep(u) == (PutLike(u) \/ DeleteLike(u)) /\ UNCHANGED <<proc, point, used>>

WorkerNext ==
    \/ \E w \in Workers : WorkerStep(w)
    \/ \E r \in Requests : RequestStep(r) \/ AuthorStep(r)
    \/ \E u \in Likers : ReaderStep(u)
    \/ \E w \in Workers : StoreError(w)
    \/ \E p \in Owners : Crash(p)
    \/ \E op \in Operations, v \in Versions : AbandonedLeaseExpires(op, v) \/ Stall(op, v)

WorkerSpec == WorkerInit /\ [][WorkerNext]_vars

\* Threads are scheduled and leases run out; authors ask for nothing.
WorkerFairness ==
    /\ \A w \in Workers : WF_vars(WorkerStep(w))
    /\ \A r \in Requests : WF_vars(RequestStep(r))
    /\ \A op \in Operations, v \in Versions : WF_vars(AbandonedLeaseExpires(op, v))

----------------------------------------------------------------------------
(* Properties.                                                             *)

\* Every thread works on, restores or cleans up a version that was staged.
WorkerTypeOK ==
    /\ TypeOK
    /\ point \in 0..share.ver
    /\ \A p \in Owners :
          /\ proc[p].ver \in 0..share.ver /\ proc[p].op \in Operations
          /\ proc[p].cur \in 0..share.ver /\ proc[p].restored \subseteq 1..share.ver
          /\ proc[p].pass \in 0..MaxPasses

\* A publication or unpublication that is waiting has an open job that a worker
\* may still take: no sequence of failures, supersessions and requeues leaves it
\* waiting on a job that is closed or out of attempts.
WaitingHasOpenJob ==
    /\ share.idx = "PENDING" => jobs["UPSERT"][share.ver].status \in {"PENDING", "RUNNING"}
    /\ share.idx = "DELETE_PENDING" =>
          jobs["DELETE"][share.ver].status \in {"PENDING", "RUNNING"}
    /\ \A op \in Operations, v \in Versions :
          jobs[op][v].status = "PENDING" => jobs[op][v].attempts < MaxAttempts

\* What worker, request thread and reader leave behind at every step, with
\* failures, crashes and lapsed leases: the statuses of a share fit each other, its
\* likes are counted once and the job it waits for can still be taken.
IndexInv == WorkerTypeOK /\ StatusesAgree /\ LikesCounted /\ WaitingHasOpenJob

Open(op, v) == jobs[op][v].status \in {"PENDING", "RUNNING"}

Settled ==
    /\ \A p \in Owners : At(p, "idle")
    /\ \A op \in Operations, v \in Versions : ~Open(op, v)

\* When nobody works and no job is open, a public share has the point of its
\* version in the index: it can be found.
ReadyIsIndexed == Settled /\ Visible => point = share.ver

\* The same, as long as no lease ran out under its owner and no update was staged
\* while an upsert was leased, which StageUpdate refuses by default: provider
\* failures and crashes alone never leave a public share out of the index.
IndexedUnlessOvertaken == used.stalls = 0 /\ ~used.overtaken => ReadyIsIndexed

\* Every job is closed in the end: again and again no job is open.
JobsClose == []<>(\A op \in Operations, v \in Versions : ~Open(op, v))
=============================================================================
