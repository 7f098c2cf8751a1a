-------------------------- MODULE SharedGuideStore --------------------------
(***************************************************************************)
(* The shared-guide tables as MySQLSharedGuideStore writes them: the row of *)
(* one share, its index jobs and its likes.  A transaction locks the row of *)
(* the share and then the job rows (claim_index_job, which writes nothing   *)
(* but a job, only that job's row), so shares do not interact and the       *)
(* transactions on one share are serial: an action is one committed         *)
(* transaction.  The callers (request threads and index workers) are        *)
(* unrestricted here; ShareIndexWorker adds them.                           *)
(*                                                                          *)
(* A version stands for its content hash: both are only ever written        *)
(* together, by a staging that draws a new version.  A job's lease is       *)
(* "valid" or "expired" as the code compares lease_expires_at with now.     *)
(***************************************************************************)
EXTENDS Naturals, FiniteSets

CONSTANTS
    MaxVersion,     \* stagings of the share
    MaxAttempts,    \* max_attempts of an index job
    AllowActive,    \* allow_active_upsert_supersede: an update may be staged
                    \* over an upsert in progress (the service says TRUE)
    Owners,         \* lease owners: index workers and synchronous requests
    Likers,         \* users other than the author
    Nobody          \* SQL NULL

ASSUME VersionAssumption == MaxVersion \in Nat \ {0}
ASSUME AttemptsAssumption == MaxAttempts \in Nat \ {0}
ASSUME AllowAssumption == AllowActive \in BOOLEAN
ASSUME NobodyAssumption == Nobody \notin Owners
ASSUME LikersAssumption == IsFiniteSet(Likers)

VARIABLES
    share,      \* the row of shared_guides; pub = "NONE" before it exists
    jobs,       \* share_index_jobs by operation and version; unique per pair
    likes       \* the users in shared_guide_likes

shareVars == <<share, jobs, likes>>

----------------------------------------------------------------------------
Versions == 1..MaxVersion
Operations == {"UPSERT", "DELETE"}

Shares ==
    [pub : {"NONE", "PUBLISHING", "PUBLIC", "UNPUBLISHED"},
     idx : {"NONE", "PENDING", "READY", "FAILED", "DELETE_PENDING", "DELETED"},
     ver : 0..MaxVersion, likeCount : Nat]

Jobs ==
    [status : {"NONE", "PENDING", "RUNNING", "SUCCEEDED", "FAILED"},
     attempts : Nat, backoff : BOOLEAN, owner : Owners \cup {Nobody},
     lease : {"none", "valid", "expired"}]

\* A job nobody works on.
Unowned(status, attempts, backoff) ==
    [status |-> status, attempts |-> attempts, backoff |-> backoff,
     owner |-> Nobody, lease |-> "none"]

NoJob == Unowned("NONE", 0, FALSE)

\* A job that has just been inserted.
NewJob == Unowned("PENDING", 0, FALSE)

\* What a job looks like once its attempt is over.
Released(job, status) == Unowned(status, job.attempts, FALSE)

\* A failed attempt waits for next_retry_at.
Delayed(job) == Unowned("PENDING", job.attempts, TRUE)

SetJob(op, v, job) == jobs' = [jobs EXCEPT ![op][v] = job]

----------------------------------------------------------------------------
(* Staging: what request threads write before they touch the index.        *)

\* _is_active_upsert
ActiveUpsert(v) == jobs["UPSERT"][v].status = "RUNNING" /\ jobs["UPSERT"][v].lease = "valid"

\* _supersede_old_upserts: pending upserts and those whose lease has run out are
\* closed; an upsert under a valid lease goes on.
SupersededUpserts ==
    [v \in Versions |->
        IF jobs["UPSERT"][v].status \in {"PENDING", "RUNNING"} /\ ~ActiveUpsert(v)
        THEN Released(jobs["UPSERT"][v], "SUCCEEDED")
        ELSE jobs["UPSERT"][v]]

\* _stage_new_upsert, and the insert of create_publish_intent.
StageUpsert ==
    /\ share.ver < MaxVersion
    /\ share' = [share EXCEPT !.pub = "PUBLISHING", !.idx = "PENDING", !.ver = @ + 1]
    /\ jobs' = [jobs EXCEPT !["UPSERT"] =
                    [SupersededUpserts EXCEPT ![share.ver + 1] = NewJob]]
    /\ UNCHANGED likes

NoActiveUpsert == \A v \in Versions : ~ActiveUpsert(v)

\* create_publish_intent where it writes: the first publication, or one after an
\* unpublication, which is refused while an upsert is still leased.
CreatePublishIntent ==
    /\ share.pub \in {"NONE", "UNPUBLISHED"}
    /\ NoActiveUpsert
    /\ StageUpsert

StageUpdate ==
    /\ share.pub \in {"PUBLISHING", "PUBLIC"}
    /\ AllowActive \/ NoActiveUpsert
    /\ StageUpsert

StageUnpublish ==
    /\ share.pub \in {"PUBLISHING", "PUBLIC"}
    /\ share' = [share EXCEPT !.pub = "UNPUBLISHED", !.idx = "DELETE_PENDING"]
    /\ jobs' = [jobs EXCEPT !["UPSERT"] = SupersededUpserts,
                            !["DELETE"][share.ver] = NewJob]
    /\ UNCHANGED likes

----------------------------------------------------------------------------
(* Claiming.                                                               *)

Claimed(job, o) ==
    [status |-> "RUNNING", attempts |-> job.attempts + 1, backoff |-> FALSE,
     owner |-> o, lease |-> "valid"]

Expired(job) == job.status = "RUNNING" /\ job.lease = "expired"

\* claim_index_job: a request thread claims the job it has staged, however often
\* it was tried.  A job in backoff may or may not be due.
MayClaimJob(op, v) == jobs[op][v].status = "PENDING" \/ Expired(jobs[op][v])

ClaimIndexJob(op, v, o) ==
    /\ MayClaimJob(op, v)
    /\ SetJob(op, v, Claimed(jobs[op][v], o))
    /\ UNCHANGED <<share, likes>>

\* Mutant of Candidate: an abandoned last attempt is not picked up again.
CandidateWithAttemptsLeft(op, v) ==
    /\ jobs[op][v].status = "PENDING" \/ Expired(jobs[op][v])
    /\ jobs[op][v].attempts < MaxAttempts

\* _claim_candidate_predicate
Candidate(op, v) ==
    \/ jobs[op][v].status = "PENDING" /\ jobs[op][v].attempts < MaxAttempts
    \/ Expired(jobs[op][v])

\* claim_next_index_job wants the oldest candidate, but skips one that another
\* transaction has locked at that moment, so any candidate may come out first.
ClaimNextIndexJob(op, v, o) ==
    /\ Candidate(op, v)
    /\ jobs[op][v].attempts < MaxAttempts
    /\ SetJob(op, v, Claimed(jobs[op][v], o))
    /\ UNCHANGED <<share, likes>>

\* The share states in which a job of the current version has something to do.
Wanted(op) ==
    IF op = "UPSERT"
    THEN share.pub = "PUBLISHING" /\ share.idx \in {"PENDING", "FAILED"}
    ELSE share.pub = "UNPUBLISHED" /\ share.idx \in {"DELETE_PENDING", "FAILED"}

\* _terminalize_expired_claim: the last attempt was abandoned.
TerminalizeExpiredClaim(op, v) ==
    /\ Candidate(op, v)
    /\ Expired(jobs[op][v]) /\ jobs[op][v].attempts >= MaxAttempts
    /\ SetJob(op, v, Released(jobs[op][v], "FAILED"))
    /\ share' = IF share.ver = v /\ Wanted(op) THEN [share EXCEPT !.idx = "FAILED"] ELSE share
    /\ UNCHANGED likes

LeaseExpires(op, v) ==
    /\ jobs[op][v].lease = "valid"
    /\ jobs' = [jobs EXCEPT ![op][v].lease = "expired"]
    /\ UNCHANGED <<share, likes>>

----------------------------------------------------------------------------
(* Outcomes, fenced by the lease.                                          *)

LeaseMatches(op, v, o) ==
    /\ jobs[op][v].status = "RUNNING"
    /\ jobs[op][v].owner = o
    /\ jobs[op][v].lease = "valid"

\* Mutant of MayConclude: the status of the share is not looked at.
ConcludeByVersion(op, v, o) == share.ver = v /\ LeaseMatches(op, v, o)

\* When complete_index_operation and record_index_failure return True.
MayConclude(op, v, o) == share.ver = v /\ LeaseMatches(op, v, o) /\ Wanted(op)

CompleteIndexOperation(op, v, o) ==
    /\ MayConclude(op, v, o)
    /\ share' = IF op = "UPSERT" THEN [share EXCEPT !.pub = "PUBLIC", !.idx = "READY"]
                ELSE [share EXCEPT !.idx = "DELETED"]
    /\ SetJob(op, v, Released(jobs[op][v], "SUCCEEDED"))
    /\ UNCHANGED likes

AfterFailure(op, v, terminal) ==
    SetJob(op, v, IF terminal THEN Released(jobs[op][v], "FAILED") ELSE Delayed(jobs[op][v]))

RecordIndexFailure(op, v, o, terminal) ==
    /\ MayConclude(op, v, o)
    /\ share' = [share EXCEPT !.idx = IF op = "UPSERT" \/ terminal THEN "FAILED"
                                      ELSE "DELETE_PENDING"]
    /\ AfterFailure(op, v, terminal)
    /\ UNCHANGED likes

\* record_index_job_failure leaves the share alone.
RecordIndexJobFailure(op, v, o, terminal) ==
    /\ LeaseMatches(op, v, o)
    /\ AfterFailure(op, v, terminal)
    /\ UNCHANGED <<share, likes>>

\* Mutant of Obsolete: the job of the current version counts as overtaken.
ObsoleteByVersion(op, v) == share.ver >= v

\* _job_effect_is_obsolete
Obsolete(op, v) ==
    \/ share.ver > v
    \/ /\ share.ver = v
       /\ \/ op = "UPSERT" /\ share.pub = "UNPUBLISHED"
          \/ op = "UPSERT" /\ share.pub = "PUBLIC" /\ share.idx = "READY"
          \/ op = "DELETE" /\ share.pub = "PUBLIC"
          \/ op = "DELETE" /\ share.pub = "UNPUBLISHED" /\ share.idx = "DELETED"

\* supersede_index_job, by a lease owner or, with Nobody, by anyone.
MaySupersede(op, v, o) ==
    /\ Obsolete(op, v)
    /\ IF o = Nobody THEN jobs[op][v].status = "PENDING" \/ Expired(jobs[op][v])
       ELSE LeaseMatches(op, v, o)

SupersedeIndexJob(op, v, o) ==
    /\ MaySupersede(op, v, o)
    /\ SetJob(op, v, Released(jobs[op][v], "SUCCEEDED"))
    /\ UNCHANGED <<share, likes>>

\* requeue_current_upsert: a ready version is hidden and indexed again.
MayRequeue(v) ==
    /\ share.ver = v /\ share.pub = "PUBLIC" /\ share.idx = "READY"
    /\ jobs["UPSERT"][v].status = "SUCCEEDED"

RequeueCurrentUpsert(v) ==
    /\ MayRequeue(v)
    /\ share' = [share EXCEPT !.pub = "PUBLISHING", !.idx = "PENDING"]
    /\ SetJob("UPSERT", v, NewJob)
    /\ UNCHANGED likes

----------------------------------------------------------------------------
(* Likes.                                                                  *)

Visible == share.pub = "PUBLIC" /\ share.idx = "READY"

\* put_like: INSERT IGNORE, and a count only when a row was inserted.
PutLike(u) ==
    /\ Visible
    /\ u \notin likes
    /\ likes' = likes \cup {u}
    /\ share' = [share EXCEPT !.likeCount = @ + 1]
    /\ UNCHANGED jobs

DeleteLike(u) ==
    /\ Visible
    /\ u \in likes
    /\ likes' = likes \ {u}
    /\ share' = [share EXCEPT !.likeCount = IF @ > 0 THEN @ - 1 ELSE 0]
    /\ UNCHANGED jobs

----------------------------------------------------------------------------
Init ==
    /\ share = [pub |-> "NONE", idx |-> "NONE", ver |-> 0, likeCount |-> 0]
    /\ jobs = [op \in Operations |-> [v \in Versions |-> NoJob]]
    /\ likes = {}

AuthorNext == CreatePublishIntent \/ StageUpdate \/ StageUnpublish

OwnerNext(op, v, o) ==
    \/ ClaimIndexJob(op, v, o) \/ ClaimNextIndexJob(op, v, o)
    \/ CompleteIndexOperation(op, v, o)
    \/ \E terminal \in BOOLEAN :
          RecordIndexFailure(op, v, o, terminal) \/ RecordIndexJobFailure(op, v, o, terminal)

JobNext(op, v) ==
    \/ \E o \in Owners : OwnerNext(op, v, o)
    \/ \E o \in Owners \cup {Nobody} : SupersedeIndexJob(op, v, o)
    \/ TerminalizeExpiredClaim(op, v) \/ LeaseExpires(op, v)

Next ==
    \/ AuthorNext
    \/ \E op \in Operations, v \in Versions : JobNext(op, v)
    \/ \E v \in Versions : RequeueCurrentUpsert(v)
    \/ \E u \in Likers : PutLike(u) \/ DeleteLike(u)

Spec == Init /\ [][Next]_shareVars

----------------------------------------------------------------------------
(* Properties.                                                             *)

\* Every row has its type.
TypeOK ==
    /\ share \in Shares
    /\ jobs \in [Operations -> [Versions -> Jobs]]
    /\ likes \subseteq Likers

\* The publication and index status of a share row are always one of the pairs
\* its readers expect (_matches_upsert, _is_public_ready, _cleanup_is_safe): no
\* late completion, failure or requeue leaves a pair that nobody would repair.
StatusesAgree ==
    CASE share.pub = "NONE"        -> share.idx = "NONE" /\ share.ver = 0
      [] share.pub = "PUBLISHING"  -> share.idx \in {"PENDING", "FAILED"} /\ share.ver > 0
      [] share.pub = "PUBLIC"      -> share.idx = "READY" /\ share.ver > 0
      [] share.pub = "UNPUBLISHED" ->
            share.idx \in {"DELETE_PENDING", "DELETED", "FAILED"} /\ share.ver > 0

\* Work that the share still waits for is never marked as done or missing: a
\* publication or an unpublication in progress has its job, which is neither
\* closed by a supersession nor lost by a requeue, and a public share has its
\* upsert done.
WorkHasJob ==
    /\ share.pub = "PUBLISHING" =>
          jobs["UPSERT"][share.ver].status \in {"PENDING", "RUNNING", "FAILED"}
    /\ share.pub = "UNPUBLISHED" /\ share.idx # "DELETED" =>
          jobs["DELETE"][share.ver].status \in {"PENDING", "RUNNING", "FAILED"}
    /\ share.pub = "PUBLIC" => jobs["UPSERT"][share.ver].status = "SUCCEEDED"

\* No job exists for a version that was not staged, or for the deletion of one
\* that was not unpublished.
NoFutureJobs ==
    \A v \in Versions :
        /\ v > share.ver =>
              jobs["UPSERT"][v].status = "NONE" /\ jobs["DELETE"][v].status = "NONE"
        /\ v = share.ver /\ share.pub # "UNPUBLISHED" => jobs["DELETE"][v].status = "NONE"

\* A lease and its owner exist exactly while a job runs.
LeasedIffRunning ==
    \A op \in Operations, v \in Versions :
        /\ jobs[op][v].status = "RUNNING" <=> jobs[op][v].owner # Nobody
        /\ jobs[op][v].status = "RUNNING" <=> jobs[op][v].lease # "none"

\* The denormalised counter is the number of likes.
LikesCounted == share.likeCount = Cardinality(likes)

\* Together they are inductive.
StoreInv ==
    TypeOK /\ StatusesAgree /\ LeasedIffRunning /\ NoFutureJobs /\ WorkHasJob /\ LikesCounted

\* The version of a share never goes back, and a share leaves the state its
\* author asked for only on the author's request: an unpublished share comes
\* back only with a new version.
AuthorDecides ==
    [][/\ share'.ver >= share.ver
       /\ share.pub = "UNPUBLISHED" /\ share'.pub # "UNPUBLISHED" => share'.ver > share.ver
       /\ share.pub # "UNPUBLISHED" /\ share'.pub = "UNPUBLISHED" => share'.ver = share.ver
      ]_shareVars
=============================================================================
