---------------------------- MODULE DataMigration ----------------------------
(***************************************************************************)
(* SQLiteToMySQLMigrator: execute, resume, verify and rollback of migration *)
(* batches, row by row, while the service may already write to MySQL.  A    *)
(* named lock keeps execute and rollback apart; verify takes no lock.  Each *)
(* row is a transaction, so a command can stop between any two.             *)
(***************************************************************************)
EXTENDS Naturals, FiniteSets

CONSTANTS
    RowCount,       \* rows of the source snapshot, in the order of the tables
    MaxBatches,     \* bound: batches started
    MaxStops,       \* bound: commands that die or raise
    MaxServiceWrites, \* bound: rows the service writes or deletes
    MaxCommands     \* bound: resumes, verifications and rollbacks

ASSUME MigrationAssumption ==
    /\ RowCount \in Nat \ {0} /\ MaxBatches \in Nat \ {0}
    /\ MaxStops \in Nat /\ MaxServiceWrites \in Nat /\ MaxCommands \in Nat

SourceRows == 1..RowCount
Batches == 1..MaxBatches

VARIABLES
    target,    \* per row: "none", "source" (its hash is the source row's) or "other"
    original,  \* the target before the first batch
    batch,     \* per batch: status, rows it has a record of, and whether the target
               \* was written by others since it ran and since it was verified
    writer,    \* the holder of the named lock: command, batch, next row, conflicts
    verifier,  \* the verification under way, and whether others wrote during it
    spent      \* stops, service writes, commands, batches, rollbacks done

migrationVars == <<target, original, batch, writer, verifier, spent>>

NoBatch == [status |-> "none", records |-> {}, rolled |-> 0, ranDirty |-> FALSE,
            checkDirty |-> FALSE]
NoWork == [cmd |-> "none", batch |-> 0, row |-> 1, differ |-> 0]
NoCheck == [cmd |-> "none", batch |-> 0, row |-> 1, differ |-> 0, dirty |-> FALSE]

MigrationInit ==
    /\ target \in [SourceRows -> {"none", "source", "other"}]
    /\ original = target
    /\ batch = [b \in Batches |-> NoBatch]
    /\ writer = NoWork
    /\ verifier = NoCheck
    /\ spent = [stops |-> 0, writes |-> 0, commands |-> 0]

Spend(what, limit) == spent[what] < limit /\ spent' = [spent EXCEPT ![what] = @ + 1]

Started(b) == batch[b].status # "none"

\* _finish_batch writes the status whatever it was.
Finished(b, status) == [batch EXCEPT ![b].status = status]

\* The target has been written by the service, or rows were deleted by a rollback.
Dirtied ==
    /\ batch' = [b \in Batches |-> [batch[b] EXCEPT !.ranDirty = TRUE, !.checkDirty = TRUE]]
    /\ verifier' = [verifier EXCEPT !.dirty = TRUE]

----------------------------------------------------------------------------
(* execute.                                                                *)

BeginBatch(b) ==
    /\ writer.cmd = "none" /\ ~Started(b) /\ \A c \in Batches : c < b => Started(c)
    /\ batch' = [batch EXCEPT ![b] = [NoBatch EXCEPT !.status = "running"]]
    /\ writer' = [NoWork EXCEPT !.cmd = "execute", !.batch = b]
    /\ UNCHANGED <<target, original, verifier, spent>>

\* _prepare_resume
ResumeBatch(b) ==
    /\ writer.cmd = "none" /\ batch[b].status \in {"running", "failed"}
    /\ Spend("commands", MaxCommands)
    /\ batch' = [batch EXCEPT ![b].status = "running", ![b].ranDirty = FALSE]
    /\ writer' = [NoWork EXCEPT !.cmd = "execute", !.batch = b]
    /\ UNCHANGED <<target, original, verifier>>

\* Bug: a record of the batch is taken as proof that the row is there.
RecordedIsEnough(k) == TRUE

\* A recorded row must still be there, unmodified.
RecordHolds(k) == target[k] = "source"

\* The row and its record are inserted in one transaction.
RecordsWith(b, k) == batch[b].records \cup {k}

\* _migrate_row
MigrateRow ==
    LET b == writer.batch
        k == writer.row
    IN  /\ writer.cmd = "execute" /\ k <= RowCount
        /\ \/ /\ k \in batch[b].records /\ RecordHolds(k)
              /\ writer' = [writer EXCEPT !.row = @ + 1]
              /\ UNCHANGED <<target, batch>>
           \/ /\ k \notin batch[b].records /\ target[k] # "none"
              /\ writer' = [writer EXCEPT !.row = @ + 1,
                                          !.differ = @ + (IF target[k] = "other" THEN 1 ELSE 0)]
              /\ UNCHANGED <<target, batch>>
           \/ /\ k \notin batch[b].records /\ target[k] = "none"
              /\ target' = [target EXCEPT ![k] = "source"]
              /\ batch' = [batch EXCEPT ![b].records = RecordsWith(b, k)]
              /\ writer' = [writer EXCEPT !.row = @ + 1]
           \/ /\ k \in batch[b].records /\ ~RecordHolds(k)
              /\ batch' = Finished(b, "failed")
              /\ writer' = NoWork
              /\ UNCHANGED target
        /\ UNCHANGED <<original, verifier, spent>>

\* fail_on_conflict is the caller's choice.
FinishExecute ==
    LET b == writer.batch
    IN  /\ writer.cmd = "execute" /\ writer.row > RowCount
        /\ \E status \in IF writer.differ = 0 THEN {"completed"}
                         ELSE {"failed", "completed_with_conflicts"} :
              batch' = Finished(b, status)
        /\ writer' = NoWork
        /\ UNCHANGED <<target, original, verifier, spent>>

----------------------------------------------------------------------------
(* rollback.                                                               *)

BeginRollback(b) ==
    /\ writer.cmd = "none" /\ Started(b)
    /\ batch[b].status \notin {"rolled_back", "rollback_partial"}
    /\ Spend("commands", MaxCommands)
    /\ writer' = [cmd |-> "rollback", batch |-> b, row |-> RowCount, differ |-> 0]
    /\ UNCHANGED <<target, original, batch, verifier>>

\* Bug: the row's hash is not compared.
RollbackDeletesAny(k) == target[k] # "none"

\* Only a row that still has the hash of its record is deleted.
RollbackDeletes(k) == target[k] = "source"

RecordsLeft == writer.row > 0

\* _rollback_row, in the reverse order of the tables.
RollbackRow ==
    LET b == writer.batch
        k == writer.row
    IN  /\ writer.cmd = "rollback" /\ RecordsLeft
        /\ \/ /\ k \in batch[b].records /\ RollbackDeletes(k)
              /\ target' = [target EXCEPT ![k] = "none"]
              /\ Dirtied
              /\ writer' = [writer EXCEPT !.row = @ - 1]
           \/ /\ k \notin batch[b].records \/ ~RollbackDeletes(k)
              /\ writer' = [writer EXCEPT !.row = @ - 1,
                               !.differ = @ + (IF k \in batch[b].records /\ target[k] = "other"
                                               THEN 1 ELSE 0)]
              /\ UNCHANGED <<target, batch, verifier>>
        /\ UNCHANGED <<original, spent>>

FinishRollback ==
    LET b == writer.batch
    IN  /\ writer.cmd = "rollback" /\ writer.row = 0
        /\ batch' = [batch EXCEPT ![b].status = IF writer.differ = 0 THEN "rolled_back"
                                                ELSE "rollback_partial",
                                  ![b].rolled = @ + 1]
        /\ writer' = NoWork
        /\ UNCHANGED <<target, original, verifier, spent>>

----------------------------------------------------------------------------
(* verify: any batch, at any time.                                         *)

BeginVerify(b) ==
    /\ verifier.cmd = "none" /\ Started(b)
    /\ Spend("commands", MaxCommands)
    /\ verifier' = [NoCheck EXCEPT !.cmd = "verify", !.batch = b]
    /\ UNCHANGED <<target, original, batch, writer>>

VerifyFails(k) == target[k] # "source"

VerifyRow ==
    /\ verifier.cmd = "verify" /\ verifier.row <= RowCount
    /\ verifier' = [verifier EXCEPT !.row = @ + 1,
                       !.differ = @ + (IF VerifyFails(verifier.row) THEN 1 ELSE 0)]
    /\ UNCHANGED <<target, original, batch, writer, spent>>

FinishVerify ==
    /\ verifier.cmd = "verify" /\ verifier.row > RowCount
    /\ batch' = [batch EXCEPT
           ![verifier.batch].status = IF verifier.differ = 0 THEN "verified"
                                      ELSE "verification_failed",
           ![verifier.batch].checkDirty = verifier.dirty]
    /\ verifier' = NoCheck
    /\ UNCHANGED <<target, original, writer, spent>>

----------------------------------------------------------------------------
(* The environment.                                                        *)

\* The process dies and loses the lock, or the database fails: the batch keeps
\* its status.
WriterDies ==
    /\ writer.cmd # "none" /\ Spend("stops", MaxStops)
    /\ writer' = NoWork
    /\ UNCHANGED <<target, original, batch, verifier>>

\* A source row cannot be normalised, its insert meets a unique or foreign key, or
\* the status of a batch that is through cannot be written.  Where writing "failed"
\* fails as well, the batch keeps its status as above.
ExecuteRaises ==
    /\ writer.cmd = "execute" /\ Spend("stops", MaxStops)
    /\ batch' = Finished(writer.batch, "failed")
    /\ writer' = NoWork
    /\ UNCHANGED <<target, original, verifier>>

VerifierDies ==
    /\ verifier.cmd # "none" /\ Spend("stops", MaxStops)
    /\ verifier' = NoCheck
    /\ UNCHANGED <<target, original, batch, writer>>

ServiceWrites(k) ==
    /\ Spend("writes", MaxServiceWrites)
    /\ target' = [target EXCEPT ![k] = IF @ = "other" THEN "none" ELSE "other"]
    /\ Dirtied
    /\ UNCHANGED <<original, writer>>

MigrationNext ==
    \/ \E b \in Batches : BeginBatch(b) \/ ResumeBatch(b) \/ BeginRollback(b) \/ BeginVerify(b)
    \/ MigrateRow
    \/ FinishExecute
    \/ RollbackRow
    \/ FinishRollback
    \/ VerifyRow
    \/ FinishVerify
    \/ WriterDies
    \/ ExecuteRaises
    \/ VerifierDies
    \/ \E k \in SourceRows : ServiceWrites(k)

MigrationSpec == MigrationInit /\ [][MigrationNext]_migrationVars

----------------------------------------------------------------------------
Statuses == {"none", "running", "failed", "completed", "completed_with_conflicts", "verified",
             "verification_failed", "rolled_back", "rollback_partial"}

\* The variables have their types.
MigrationTypeOK ==
    /\ target \in [SourceRows -> {"none", "source", "other"}]
    /\ \A b \in Batches : batch[b].status \in Statuses /\ batch[b].records \subseteq SourceRows
    /\ writer.cmd \in {"none", "execute", "rollback"} /\ writer.batch \in {0} \cup Batches
    /\ writer.row \in 0..(RowCount + 1) /\ writer.differ \in 0..RowCount
    /\ verifier.row \in 1..(RowCount + 1) /\ verifier.differ \in 0..RowCount

AllThere == \A k \in SourceRows : target[k] = "source"

\* A batch that says it is completed, after any number of stops and resumes, has
\* every source row in the target, unless the service or a rollback has written
\* there since its last start.
CompletedIsComplete ==
    \A b \in Batches : batch[b].status = "completed" /\ ~batch[b].ranDirty => AllThere

\* A batch that says it is verified was: the scan without a lock missed nothing,
\* unless somebody wrote the target during or after it.
VerifiedIsTrue ==
    \A b \in Batches : batch[b].status = "verified" /\ ~batch[b].checkDirty => AllThere

\* When every batch has been rolled back and the service has written nothing, the
\* target is what it was before the first batch, however the batches and the
\* rollbacks were interrupted and repeated.
RollbackRestores ==
    /\ spent.writes = 0
    /\ \A b \in Batches : Started(b) => batch[b].status = "rolled_back" /\ batch[b].rolled > 0
    /\ writer.cmd = "none"
    => target = original

\* Neither a batch nor a rollback ever overwrites or deletes a row that the
\* service has, or has given, its own content.
ServiceRowsAreKept ==
    [][\A k \in SourceRows : target[k] = "other" /\ target'[k] # "other" =>
          spent'.writes > spent.writes]_migrationVars

\* The status of a batch can be trusted after any sequence of stops, resumes,
\* verifications and rollbacks: completed, verified and rolled back are true of
\* the target.
MigrationInv == MigrationTypeOK /\ CompletedIsComplete /\ VerifiedIsTrue /\ RollbackRestores

=============================================================================
