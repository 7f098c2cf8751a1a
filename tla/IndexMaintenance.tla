-------------------------- MODULE IndexMaintenance --------------------------
(***************************************************************************)
(* The operator's commands reindex_shared_guides and                        *)
(* reconcile_shared_guide_index, with --apply and --delete-extra, run while *)
(* authors and index workers go on.  A command holds no lock: it reads the  *)
(* table, reads Qdrant, and re-reads around every write.  One share: what   *)
(* one pass does for it.                                                    *)
(***************************************************************************)
EXTENDS ShareIndexWorker

VARIABLE
    tool    \* the command: where it is, the version it listed, the version of
            \* the point it scrolled, the record it requeues, whether the row has
            \* left READY since it was listed, and whether report.failed counts

maintVars == <<share, jobs, likes, proc, point, used, tool>>

Modes == {"off", "reindex", "reconcile"}

NewTool(mode) ==
    [mode |-> mode, pc |-> "start", rec |-> 0, seen |-> 0, cur |-> 0, touched |-> FALSE,
     failed |-> FALSE]

MaintInit ==
    /\ Init
    /\ proc = [p \in Owners |-> Rest]
    /\ point = 0
    /\ \E mode \in Modes :
          /\ tool = NewTool(mode)
          \* Beside a command, the threads of the program meet no faults.
          /\ used = IF mode = "off"
                    THEN [faults |-> 0, crashes |-> 0, stalls |-> 0, overtaken |-> FALSE]
                    ELSE [faults |-> MaxFaults, crashes |-> MaxCrashes, stalls |-> MaxStalls,
                          overtaken |-> FALSE]

ToolAt(label) == tool.mode # "off" /\ tool.pc = label
ToolGoto(label) == tool' = [tool EXCEPT !.pc = label]
ToolFails == tool' = [tool EXCEPT !.pc = "done", !.failed = TRUE]
ToolReads == UNCHANGED <<shareVars, proc, point, used>>

----------------------------------------------------------------------------
\* list_active_public
ListActive ==
    /\ ToolAt("start")
    /\ tool' = [tool EXCEPT !.rec = IF Visible THEN share.ver ELSE 0,
                            !.pc = IF tool.mode = "reconcile" THEN "scroll"
                                   ELSE IF Visible THEN "read" ELSE "done"]
    /\ ToolReads

\* _read_points, and the difference: a listed share whose point is missing or
\* stale is repaired, a point of no listed share is extra.
ReadPoints ==
    /\ ToolAt("scroll")
    /\ tool' = [tool EXCEPT !.seen = point,
                            !.pc = IF tool.rec # 0 /\ point # tool.rec THEN "read"
                                   ELSE IF tool.rec = 0 /\ point # 0 THEN "extra" ELSE "done"]
    /\ ToolReads

\* _same_authoritative_identity: the row is active, has the version, and has not
\* been published again meanwhile.
SameIdentity == Visible /\ share.ver = tool.rec /\ ~tool.touched

\* read_authoritative_record before the embedding and before the upsert.
ReadAuthoritative ==
    /\ ToolAt("read") \/ ToolAt("reread")
    /\ ToolGoto(IF ~SameIdentity THEN "done"
                ELSE IF ToolAt("read") THEN "embed" ELSE "upsert")
    /\ ToolReads

ToolEmbeds ==
    /\ ToolAt("embed")
    /\ ToolGoto("reread") \/ ToolFails
    /\ ToolReads

ToolUpserts ==
    /\ ToolAt("upsert")
    /\ \/ Upsert(tool.rec) /\ ToolGoto("confirm")
       \/ (Upsert(tool.rec) \/ UNCHANGED point) /\ ToolFails
    /\ UNCHANGED <<shareVars, proc, used>>

\* Bug: the row is not read again after the upsert.
ToolConfirmsBlindly ==
    /\ ToolAt("confirm")
    /\ ToolGoto("done")
    /\ ToolReads

ToolConfirms ==
    /\ ToolAt("confirm")
    /\ ToolGoto(IF SameIdentity THEN "done" ELSE "cleanup")
    /\ ToolReads

\* cleanup_stale_upsert: the point goes if it has the version written, and a row
\* that is active by now is queued again; the pass counts as failed.
ToolCleansUp ==
    /\ ToolAt("cleanup")
    /\ \/ Delete(tool.rec) /\ tool' = [tool EXCEPT !.pc = "current", !.failed = TRUE]
       \/ (Delete(tool.rec) \/ UNCHANGED point) /\ ToolFails
    /\ UNCHANGED <<shareVars, proc, used>>

\* _read_current_record, and the read of _requeue_after_delete: a share that is
\* active after its point was deleted is a failure too.
ToolReadsCurrent ==
    /\ ToolAt("current")
    /\ IF Visible THEN tool' = [tool EXCEPT !.pc = "requeue", !.cur = share.ver, !.failed = TRUE]
       ELSE ToolGoto("done")
    /\ ToolReads

ToolRequeues ==
    /\ ToolAt("requeue")
    /\ RequeueCurrentUpsert(tool.cur) \/ (~MayRequeue(tool.cur) /\ UNCHANGED shareVars)
    /\ ToolGoto("done")
    /\ UNCHANGED <<proc, point, used>>

\* _point_snapshot_unchanged
ExtraUnchanged ==
    /\ ToolAt("extra")
    /\ ToolGoto(IF point = tool.seen THEN "guard" ELSE "done")
    /\ ToolReads

\* _can_delete_extra, for the point of the share's own id.
CanDeleteExtra ==
    \/ share.pub = "NONE"
    \/ share.pub = "UNPUBLISHED" /\ share.idx = "DELETED" /\ share.ver = tool.seen

GuardExtra ==
    /\ ToolAt("guard")
    /\ ToolGoto(IF CanDeleteExtra THEN "erase" ELSE "done")
    /\ ToolReads

\* delete_point_if_matches: the conditional delete,
EraseExtra ==
    /\ ToolAt("erase")
    /\ Delete(tool.seen)
    /\ ToolGoto("erased")
    /\ UNCHANGED <<shareVars, proc, used>>

\* and the read that tells deleted, unchanged and replaced apart.
ConfirmErased ==
    /\ ToolAt("erased")
    /\ IF point = 0 THEN ToolGoto("current")
       ELSE IF point = tool.seen THEN ToolFails ELSE ToolGoto("done")
    /\ ToolReads

\* What the commands are for: Qdrant was restored from a backup, or lost, while
\* nobody was working.
Drift ==
    /\ ToolAt("start") /\ Settled
    /\ point' \in 0..share.ver
    /\ UNCHANGED <<shareVars, proc, used, tool>>

ToolStep ==
    \/ ListActive \/ ReadPoints \/ ReadAuthoritative \/ ToolEmbeds \/ ToolUpserts
    \/ ToolConfirms \/ ToolCleansUp \/ ToolReadsCurrent \/ ToolRequeues
    \/ ExtraUnchanged \/ GuardExtra \/ EraseExtra \/ ConfirmErased

----------------------------------------------------------------------------
Watched == tool' = [tool EXCEPT !.touched = @ \/ (tool.rec # 0 /\ ~Visible')]

MaintNext == (WorkerNext /\ Watched) \/ ToolStep \/ Drift

MaintSpec == MaintInit /\ [][MaintNext]_maintVars /\ WorkerFairness

----------------------------------------------------------------------------
\* Without a command, failures and crashes alone never leave a public share out
\* of the index (see IndexedUnlessOvertaken).
IndexedWithoutTool == tool.mode = "off" => IndexedUnlessOvertaken

\* The exit code of a command is to be trusted: when it has reported no failure
\* and the program has come to rest, a public share is in the index, whatever
\* authors and workers did between the reads and the writes of the command.
CleanReportIsTrue ==
    tool.mode # "off" /\ tool.pc = "done" /\ ~tool.failed /\ ~used.overtaken =>
        ReadyIsIndexed

=============================================================================
