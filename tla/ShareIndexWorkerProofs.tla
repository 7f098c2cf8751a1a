----------------------- MODULE ShareIndexWorkerProofs -----------------------
(***************************************************************************)
(* Proofs about the shared guides.  The tables of SharedGuideStore, for any*)
(* number of versions, attempts, lease owners and likers, and callers that *)
(* call anything at any time; then ShareIndexWorker and IndexMaintenance:  *)
(* index workers, request threads and the operator's commands, any number  *)
(* of them and any number of faults, use the tables as SharedGuideStore    *)
(* allows and keep IndexInv.                                               *)
(***************************************************************************)
EXTENDS IndexMaintenance, FiniteSetTheorems, TLAPS

-----------------------------------------------------------------------------
(* The tables.                                                             *)

----------------------------------------------------------------------------
(* Job rows.                                                               *)

JobStatuses == {"NONE", "PENDING", "RUNNING", "SUCCEEDED", "FAILED"}

\* A job row in which lease, owner and status go together.
Coherent(j) ==
    /\ j \in Jobs
    /\ j.status = "RUNNING" <=> j.owner # Nobody
    /\ j.status = "RUNNING" <=> j.lease # "none"

LEMMA UnownedCoherent ==
    ASSUME NEW s \in JobStatuses \ {"RUNNING"}, NEW n \in Nat, NEW b \in BOOLEAN
    PROVE  Coherent(Unowned(s, n, b)) /\ Unowned(s, n, b).status = s
<1>1. Unowned(s, n, b) \in Jobs
  BY DEF Unowned, Jobs, JobStatuses
<1> QED
  BY <1>1 DEF Coherent, Unowned, JobStatuses

LEMMA NoJobCoherent == Coherent(NoJob) /\ NoJob.status = "NONE"
BY UnownedCoherent DEF NoJob, JobStatuses

LEMMA NewJobCoherent == Coherent(NewJob) /\ NewJob.status = "PENDING"
BY UnownedCoherent DEF NewJob, JobStatuses

LEMMA ReleasedCoherent ==
    ASSUME NEW j \in Jobs, NEW s \in JobStatuses \ {"RUNNING"}
    PROVE  Coherent(Released(j, s)) /\ Released(j, s).status = s
<1>1. j.attempts \in Nat
  BY DEF Jobs
<1> QED
  BY <1>1, UnownedCoherent DEF Released

LEMMA DelayedCoherent ==
    ASSUME NEW j \in Jobs
    PROVE  Coherent(Delayed(j)) /\ Delayed(j).status = "PENDING"
<1>1. j.attempts \in Nat
  BY DEF Jobs
<1> QED
  BY <1>1, UnownedCoherent DEF Delayed, JobStatuses

LEMMA ClaimedCoherent ==
    ASSUME NEW j \in Jobs, NEW o \in Owners
    PROVE  Coherent(Claimed(j, o)) /\ Claimed(j, o).status = "RUNNING"
<1>1. Claimed(j, o) \in Jobs
  BY DEF Claimed, Jobs
<1> QED
  BY <1>1, NobodyAssumption DEF Coherent, Claimed

----------------------------------------------------------------------------
(* Writes of one job.                                                      *)

LEMMA SetJobEffect ==
    ASSUME jobs \in [Operations -> [Versions -> Jobs]], LeasedIffRunning,
           NEW op \in Operations, NEW v \in Versions, NEW j, Coherent(j),
           SetJob(op, v, j)
    PROVE  /\ jobs' \in [Operations -> [Versions -> Jobs]]
           /\ LeasedIffRunning'
           /\ jobs'[op][v] = j
           /\ \A o \in Operations, n \in Versions :
                 o # op \/ n # v => jobs'[o][n] = jobs[o][n]
<1>1. j \in Jobs
  BY DEF Coherent
<1>2. jobs' \in [Operations -> [Versions -> Jobs]]
  BY <1>1 DEF SetJob
<1>3. jobs'[op][v] = j
  BY DEF SetJob
<1>4. \A o \in Operations, n \in Versions : o # op \/ n # v => jobs'[o][n] = jobs[o][n]
  BY DEF SetJob
<1>5. LeasedIffRunning'
  <2>1. ASSUME NEW o \in Operations, NEW n \in Versions
        PROVE  /\ jobs'[o][n].status = "RUNNING" <=> jobs'[o][n].owner # Nobody
               /\ jobs'[o][n].status = "RUNNING" <=> jobs'[o][n].lease # "none"
    <3>1. CASE o = op /\ n = v
      <4>1. jobs'[o][n] = j
        BY <3>1, <1>3
      <4> QED
        BY <4>1, Zenon DEF Coherent
    <3>2. CASE o # op \/ n # v
      <4>1. jobs'[o][n] = jobs[o][n]
        BY <3>2, <1>4
      <4> QED
        BY <4>1, Zenon DEF LeasedIffRunning
    <3> QED
      BY <3>1, <3>2
  <2> QED
    BY <2>1, Zenon DEF LeasedIffRunning
<1> QED
  BY <1>2, <1>3, <1>4, <1>5

\* An open job is one of a version that was staged.
LEMMA OpenJobStaged ==
    ASSUME StoreInv, NEW op \in Operations, NEW v \in Versions, jobs[op][v].status # "NONE"
    PROVE  /\ v <= share.ver
           /\ op = "DELETE" /\ v = share.ver => share.pub = "UNPUBLISHED"
<1>1. share.ver \in Nat /\ v \in Nat
  BY VersionAssumption DEF StoreInv, TypeOK, Shares, Versions
<1>2. ~(v > share.ver)
  <2>1. SUFFICES ASSUME v > share.ver PROVE FALSE
    OBVIOUS
  <2>2. jobs["UPSERT"][v].status = "NONE" /\ jobs["DELETE"][v].status = "NONE"
    BY <2>1, Zenon DEF StoreInv, NoFutureJobs
  <2> QED
    BY <2>2 DEF Operations
<1>3. op = "DELETE" /\ v = share.ver => share.pub = "UNPUBLISHED"
  BY Zenon DEF StoreInv, NoFutureJobs
<1> QED
  BY <1>1, <1>2, <1>3

\* A step that only moves an open job keeps the invariant when it leaves the job
\* open or failed, or closes one whose effect is obsolete.
LEMMA JobOnlyStep ==
    ASSUME StoreInv, NEW op \in Operations, NEW v \in Versions,
           jobs[op][v].status \in {"PENDING", "RUNNING"},
           NEW j, Coherent(j), j.status # "NONE",
           j.status \in {"PENDING", "RUNNING", "FAILED"} \/ Obsolete(op, v),
           SetJob(op, v, j), UNCHANGED <<share, likes>>
    PROVE  StoreInv'
<1>1. /\ jobs' \in [Operations -> [Versions -> Jobs]]
      /\ LeasedIffRunning'
      /\ jobs'[op][v] = j
      /\ \A o \in Operations, n \in Versions :
            o # op \/ n # v => jobs'[o][n] = jobs[o][n]
  BY SetJobEffect DEF StoreInv, TypeOK
<1>2. TypeOK' /\ StatusesAgree' /\ LikesCounted'
  BY <1>1 DEF StoreInv, TypeOK, StatusesAgree, LikesCounted
<1>3. /\ v <= share.ver
      /\ op = "DELETE" /\ v = share.ver => share.pub = "UNPUBLISHED"
  BY OpenJobStaged
<1>4. NoFutureJobs'
  BY <1>1, <1>3 DEF NoFutureJobs, StoreInv, Operations, TypeOK, Shares, Versions
<1>5. WorkHasJob'
  <2>1. ASSUME share.pub = "PUBLISHING"
        PROVE  jobs'["UPSERT"][share.ver].status \in {"PENDING", "RUNNING", "FAILED"}
    <3>1. CASE op = "UPSERT" /\ v = share.ver
      BY <1>1, <2>1, <3>1 DEF Obsolete, StoreInv, TypeOK, Shares
    <3>2. CASE op # "UPSERT" \/ v # share.ver
      <4>1. share.ver \in Versions
        BY <2>1 DEF StoreInv, StatusesAgree, TypeOK, Shares, Versions
      <4>2. jobs'["UPSERT"][share.ver] = jobs["UPSERT"][share.ver]
        BY <1>1, <3>2, <4>1 DEF Operations
      <4> QED
        BY <2>1, <4>2 DEF StoreInv, WorkHasJob
    <3> QED
      BY <3>1, <3>2
  <2>2. ASSUME share.pub = "UNPUBLISHED", share.idx # "DELETED"
        PROVE  jobs'["DELETE"][share.ver].status \in {"PENDING", "RUNNING", "FAILED"}
    <3>1. CASE op = "DELETE" /\ v = share.ver
      BY <1>1, <2>2, <3>1 DEF Obsolete, StoreInv, TypeOK, Shares
    <3>2. CASE op # "DELETE" \/ v # share.ver
      <4>1. share.ver \in Versions
        BY <2>2 DEF StoreInv, StatusesAgree, TypeOK, Shares, Versions
      <4>2. jobs'["DELETE"][share.ver] = jobs["DELETE"][share.ver]
        BY <1>1, <3>2, <4>1 DEF Operations
      <4> QED
        BY <2>2, <4>2 DEF StoreInv, WorkHasJob
    <3> QED
      BY <3>1, <3>2
  <2>3. ASSUME share.pub = "PUBLIC"
        PROVE  jobs'["UPSERT"][share.ver].status = "SUCCEEDED"
    <3>1. jobs["UPSERT"][share.ver].status = "SUCCEEDED"
      BY <2>3 DEF StoreInv, WorkHasJob
    <3>2. op # "UPSERT" \/ v # share.ver
      BY <3>1
    <3>3. share.ver \in Versions
      BY <2>3 DEF StoreInv, StatusesAgree, TypeOK, Shares, Versions
    <3> QED
      BY <1>1, <3>1, <3>2, <3>3 DEF Operations
  <2> QED
    BY <2>1, <2>2, <2>3 DEF WorkHasJob
<1> QED
  BY <1>1, <1>2, <1>4, <1>5 DEF StoreInv

----------------------------------------------------------------------------
(* Writes of the share.                                                    *)

LEMMA ShareUpdates ==
    ASSUME NEW r \in Shares
    PROVE  /\ \A x \in {"NONE", "PUBLISHING", "PUBLIC", "UNPUBLISHED"} :
                 [r EXCEPT !.pub = x] \in Shares
           /\ \A x \in {"NONE", "PENDING", "READY", "FAILED", "DELETE_PENDING", "DELETED"} :
                 [r EXCEPT !.idx = x] \in Shares
           /\ \A x \in 0..MaxVersion : [r EXCEPT !.ver = x] \in Shares
           /\ \A x \in Nat : [r EXCEPT !.likeCount = x] \in Shares
<1>1. \A x \in {"NONE", "PUBLISHING", "PUBLIC", "UNPUBLISHED"} : [r EXCEPT !.pub = x] \in Shares
  BY Zenon DEF Shares
<1>2. \A x \in {"NONE", "PENDING", "READY", "FAILED", "DELETE_PENDING", "DELETED"} :
         [r EXCEPT !.idx = x] \in Shares
  BY Zenon DEF Shares
<1>3. \A x \in 0..MaxVersion : [r EXCEPT !.ver = x] \in Shares
  BY Zenon DEF Shares
<1>4. \A x \in Nat : [r EXCEPT !.likeCount = x] \in Shares
  BY Zenon DEF Shares
<1> QED
  BY <1>1, <1>2, <1>3, <1>4

\* A step that concludes the attempt at a job of the current version, moving the
\* share along with it, keeps the invariant.
LEMMA ConcludingStep ==
    ASSUME StoreInv, NEW op \in Operations, NEW v \in Versions,
           share.ver = v, jobs[op][v].status # "NONE",
           NEW j, Coherent(j), j.status # "NONE", SetJob(op, v, j),
           share' \in Shares, share'.ver = v, share'.likeCount = share.likeCount, likes' = likes,
           StatusesAgree', share'.pub = "UNPUBLISHED" <=> share.pub = "UNPUBLISHED",
           op = "UPSERT" <=> share'.pub # "UNPUBLISHED",
           share'.pub = "PUBLISHING" => j.status \in {"PENDING", "RUNNING", "FAILED"},
           share'.pub = "PUBLIC" => j.status = "SUCCEEDED",
           share'.pub = "UNPUBLISHED" /\ share'.idx # "DELETED" =>
              j.status \in {"PENDING", "RUNNING", "FAILED"}
    PROVE  StoreInv'
<1>1. /\ jobs' \in [Operations -> [Versions -> Jobs]]
      /\ LeasedIffRunning'
      /\ jobs'[op][v] = j
      /\ \A o \in Operations, n \in Versions :
            o # op \/ n # v => jobs'[o][n] = jobs[o][n]
  BY SetJobEffect DEF StoreInv, TypeOK
<1>2. TypeOK' /\ LikesCounted'
  BY <1>1 DEF StoreInv, TypeOK, LikesCounted
<1>3. NoFutureJobs'
  BY <1>1 DEF NoFutureJobs, StoreInv, Operations, TypeOK, Shares, Versions
<1>4. WorkHasJob'
  BY <1>1 DEF WorkHasJob, Operations
<1> QED
  BY <1>1, <1>2, <1>3, <1>4 DEF StoreInv

\* The invariant says which pairs of statuses an open job can meet.
LEMMA WantedStatuses ==
    ASSUME StoreInv, NEW op \in Operations, NEW v \in Versions, share.ver = v, Wanted(op)
    PROVE  /\ op = "UPSERT" => share.pub = "PUBLISHING" /\ share.idx \in {"PENDING", "FAILED"}
           /\ op = "DELETE" =>
                 share.pub = "UNPUBLISHED" /\ share.idx \in {"DELETE_PENDING", "FAILED"}
           /\ op = "UPSERT" <=> share.pub # "UNPUBLISHED"
BY DEF Wanted, Operations

----------------------------------------------------------------------------
(* Stagings.                                                               *)

LEMMA SupersededCoherent ==
    ASSUME StoreInv, NEW v \in Versions
    PROVE  /\ Coherent(SupersededUpserts[v])
           /\ SupersededUpserts[v].status = "NONE" <=> jobs["UPSERT"][v].status = "NONE"
<1> DEFINE j == jobs["UPSERT"][v]
<1>1. j \in Jobs
  BY DEF StoreInv, TypeOK, Operations
<1>2. Coherent(j)
  BY <1>1, Zenon DEF Coherent, StoreInv, LeasedIffRunning, Operations
<1>3. CASE j.status \in {"PENDING", "RUNNING"} /\ ~ActiveUpsert(v)
  <2>1. SupersededUpserts[v] = Released(j, "SUCCEEDED")
    BY <1>3 DEF SupersededUpserts
  <2>2. Coherent(Released(j, "SUCCEEDED")) /\ Released(j, "SUCCEEDED").status = "SUCCEEDED"
    BY <1>1, ReleasedCoherent DEF JobStatuses
  <2> QED
    BY <1>3, <2>1, <2>2
<1>4. CASE ~(j.status \in {"PENDING", "RUNNING"} /\ ~ActiveUpsert(v))
  <2>1. SupersededUpserts[v] = j
    BY <1>4 DEF SupersededUpserts
  <2> QED
    BY <1>2, <2>1
<1> QED
  BY <1>3, <1>4

LEMMA StageUpsertInv ==
    ASSUME StoreInv, StageUpsert
    PROVE  StoreInv'
<1> DEFINE n == share.ver + 1
           ups == [SupersededUpserts EXCEPT ![n] = NewJob]
<1>1. share \in Shares /\ share.ver \in 0..MaxVersion /\ n \in Versions /\ n \in 0..MaxVersion
  BY VersionAssumption DEF StoreInv, TypeOK, Shares, StageUpsert, Versions
<1>2. share' \in Shares
  <2>1. [share EXCEPT !.pub = "PUBLISHING"] \in Shares
    BY <1>1, ShareUpdates
  <2>2. [share EXCEPT !.pub = "PUBLISHING", !.idx = "PENDING"] \in Shares
    BY <2>1, ShareUpdates
  <2>3. [share EXCEPT !.pub = "PUBLISHING", !.idx = "PENDING", !.ver = n] \in Shares
    BY <1>1, <2>2, ShareUpdates
  <2> QED
    BY <2>3 DEF StageUpsert
<1>3. /\ share'.pub = "PUBLISHING" /\ share'.idx = "PENDING" /\ share'.ver = n
      /\ share'.likeCount = share.likeCount /\ likes' = likes
  BY <1>1 DEF StageUpsert, Shares
<1>4. jobs' = [jobs EXCEPT !["UPSERT"] = ups]
  BY DEF StageUpsert
<1>5. \A v \in Versions : SupersededUpserts[v] \in Jobs
  BY SupersededCoherent DEF Coherent
<1>6. SupersededUpserts \in [Versions -> Jobs]
  BY <1>5 DEF SupersededUpserts
<1>7. ups \in [Versions -> Jobs] /\ ups[n] = NewJob
      /\ \A v \in Versions : v # n => ups[v] = SupersededUpserts[v]
  BY <1>1, <1>6, NewJobCoherent DEF Coherent
<1>8. \A v \in Versions : Coherent(ups[v])
  <2> SUFFICES ASSUME NEW v \in Versions PROVE Coherent(ups[v])
    OBVIOUS
  <2>1. CASE v = n
    BY <2>1, <1>7, NewJobCoherent
  <2>2. CASE v # n
    BY <2>2, <1>7, SupersededCoherent
  <2> QED
    BY <2>1, <2>2
<1> HIDE DEF ups
<1>9. /\ jobs' \in [Operations -> [Versions -> Jobs]]
      /\ jobs'["UPSERT"] = ups /\ jobs'["DELETE"] = jobs["DELETE"]
  BY <1>4, <1>7 DEF StoreInv, TypeOK, Operations
<1>10. TypeOK' /\ StatusesAgree' /\ LikesCounted'
  BY <1>1, <1>2, <1>3, <1>9 DEF StoreInv, TypeOK, StatusesAgree, LikesCounted
<1>11. LeasedIffRunning'
  <2>1. ASSUME NEW v \in Versions, NEW op \in Operations
        PROVE  /\ jobs'[op][v].status = "RUNNING" <=> jobs'[op][v].owner # Nobody
               /\ jobs'[op][v].status = "RUNNING" <=> jobs'[op][v].lease # "none"
    <3>1. CASE op = "UPSERT"
      <4>1. jobs'[op][v] = ups[v]
        BY <3>1, <1>9
      <4> QED
        BY <4>1, <1>8, Zenon DEF Coherent
    <3>2. CASE op = "DELETE"
      <4>1. jobs'[op][v] = jobs[op][v]
        BY <3>2, <1>9
      <4> QED
        BY <4>1, Zenon DEF StoreInv, LeasedIffRunning
    <3> QED
      BY <3>1, <3>2 DEF Operations
  <2> QED
    BY <2>1, Zenon DEF LeasedIffRunning
<1>12. WorkHasJob'
  BY <1>3, <1>7, <1>9, NewJobCoherent DEF WorkHasJob
<1>13. NoFutureJobs'
  <2> SUFFICES ASSUME NEW v \in Versions
               PROVE  /\ v > n => ups[v].status = "NONE" /\ jobs["DELETE"][v].status = "NONE"
                      /\ v = n => jobs["DELETE"][v].status = "NONE"
    BY <1>3, <1>9 DEF NoFutureJobs
  <2>1. v >= n => jobs["UPSERT"][v].status = "NONE" /\ jobs["DELETE"][v].status = "NONE"
    BY <1>1 DEF StoreInv, NoFutureJobs, Versions
  <2>2. v > n => ups[v].status = "NONE"
    <3>1. SUFFICES ASSUME v > n PROVE ups[v].status = "NONE"
      OBVIOUS
    <3>2. v # n /\ v >= n
      BY <1>1, <3>1 DEF Versions
    <3>3. ups[v] = SupersededUpserts[v]
      BY <1>7, <3>2
    <3> QED
      BY <2>1, <3>2, <3>3, SupersededCoherent
  <2> QED
    BY <1>1, <2>1, <2>2 DEF Versions
<1> QED
  BY <1>10, <1>11, <1>12, <1>13 DEF StoreInv

LEMMA StageUnpublishInv ==
    ASSUME StoreInv, StageUnpublish
    PROVE  StoreInv'
<1> DEFINE n == share.ver
           ups == SupersededUpserts
           dels == [jobs["DELETE"] EXCEPT ![n] = NewJob]
<1>1. share \in Shares /\ n \in Versions /\ n \in 0..MaxVersion
  <2>1. share \in Shares /\ share.ver \in 0..MaxVersion
    BY DEF StoreInv, TypeOK, Shares
  <2>2. CASE share.pub = "PUBLISHING"
    BY <2>1, <2>2, VersionAssumption DEF StoreInv, StatusesAgree, Versions
  <2>3. CASE share.pub = "PUBLIC"
    BY <2>1, <2>3, VersionAssumption DEF StoreInv, StatusesAgree, Versions
  <2> QED
    BY <2>2, <2>3 DEF StageUnpublish
<1>2. share' \in Shares
  <2>1. [share EXCEPT !.pub = "UNPUBLISHED"] \in Shares
    BY <1>1, ShareUpdates
  <2>2. [share EXCEPT !.pub = "UNPUBLISHED", !.idx = "DELETE_PENDING"] \in Shares
    BY <2>1, ShareUpdates
  <2> QED
    BY <2>2 DEF StageUnpublish
<1>3. /\ share'.pub = "UNPUBLISHED" /\ share'.idx = "DELETE_PENDING" /\ share'.ver = n
      /\ share'.likeCount = share.likeCount /\ likes' = likes
  BY <1>1 DEF StageUnpublish, Shares
<1>4. /\ jobs \in [Operations -> [Versions -> Jobs]]
      /\ jobs["DELETE"] \in [Versions -> Jobs]
  BY DEF StoreInv, TypeOK, Operations
<1>5. \A v \in Versions : SupersededUpserts[v] \in Jobs
  BY SupersededCoherent DEF Coherent
<1>6. SupersededUpserts \in [Versions -> Jobs]
  BY <1>5 DEF SupersededUpserts
<1>7. /\ dels \in [Versions -> Jobs] /\ dels[n] = NewJob
      /\ \A v \in Versions : v # n => dels[v] = jobs["DELETE"][v]
  BY <1>1, <1>4, NewJobCoherent DEF Coherent
<1>8. jobs'["UPSERT"] = ups /\ jobs'["DELETE"] = dels
  BY <1>4 DEF StageUnpublish, Operations
<1>9. jobs' \in [Operations -> [Versions -> Jobs]]
  <2>1. jobs' = [jobs EXCEPT !["UPSERT"] = ups, !["DELETE"][n] = NewJob]
    BY DEF StageUnpublish
  <2>2. NewJob \in Jobs
    BY NewJobCoherent DEF Coherent
  <2> QED
    BY <2>1, <2>2, <1>1, <1>4, <1>6 DEF Operations
<1> HIDE DEF dels
<1>10. TypeOK' /\ StatusesAgree' /\ LikesCounted'
  <2>1. TypeOK' /\ LikesCounted'
    BY <1>2, <1>3, <1>9 DEF StoreInv, TypeOK, LikesCounted
  <2>2. n > 0
    BY <1>1 DEF Versions
  <2>3. StatusesAgree'
    BY <1>3, <2>2 DEF StatusesAgree
  <2> QED
    BY <2>1, <2>3
<1>11. LeasedIffRunning'
  <2>1. ASSUME NEW v \in Versions, NEW op \in Operations
        PROVE  /\ jobs'[op][v].status = "RUNNING" <=> jobs'[op][v].owner # Nobody
               /\ jobs'[op][v].status = "RUNNING" <=> jobs'[op][v].lease # "none"
    <3>1. CASE op = "UPSERT"
      <4>1. jobs'[op][v] = SupersededUpserts[v]
        BY <3>1, <1>8
      <4> QED
        BY <4>1, SupersededCoherent, Zenon DEF Coherent
    <3>2. CASE op = "DELETE" /\ v = n
      <4>1. jobs'[op][v] = NewJob
        BY <3>2, <1>7, <1>8
      <4> QED
        BY <4>1, NewJobCoherent, Zenon DEF Coherent
    <3>3. CASE op = "DELETE" /\ v # n
      <4>1. jobs'[op][v] = jobs[op][v]
        BY <3>3, <1>7, <1>8
      <4> QED
        BY <4>1, Zenon DEF StoreInv, LeasedIffRunning
    <3> QED
      BY <3>1, <3>2, <3>3 DEF Operations
  <2> QED
    BY <2>1, Zenon DEF LeasedIffRunning
<1>12. WorkHasJob'
  BY <1>3, <1>7, <1>8, NewJobCoherent DEF WorkHasJob
<1>13. NoFutureJobs'
  <2> SUFFICES ASSUME NEW v \in Versions, v > n
               PROVE  SupersededUpserts[v].status = "NONE" /\ dels[v].status = "NONE"
    BY <1>3, <1>8 DEF NoFutureJobs
  <2>1. jobs["UPSERT"][v].status = "NONE" /\ jobs["DELETE"][v].status = "NONE"
    BY DEF StoreInv, NoFutureJobs
  <2>2. v # n
    BY <1>1 DEF Versions
  <2> QED
    BY <1>7, <2>1, <2>2, SupersededCoherent
<1> QED
  BY <1>10, <1>11, <1>12, <1>13 DEF StoreInv

----------------------------------------------------------------------------
(* Likes.                                                                  *)

\* A step that writes nothing but the likes and their count.
LEMMA LikeStep ==
    ASSUME StoreInv, NEW c \in Nat, share' = [share EXCEPT !.likeCount = c],
           likes' \subseteq Likers, c = Cardinality(likes'), UNCHANGED jobs
    PROVE  StoreInv'
<1>1. share \in Shares /\ share' \in Shares
  BY ShareUpdates DEF StoreInv, TypeOK
<1>2. /\ share'.pub = share.pub /\ share'.idx = share.idx /\ share'.ver = share.ver
      /\ share'.likeCount = c
  BY <1>1 DEF Shares
<1>3. TypeOK' /\ LikesCounted'
  BY <1>1, <1>2 DEF StoreInv, TypeOK, LikesCounted
<1>4. StatusesAgree'
  BY <1>2 DEF StoreInv, StatusesAgree
<1>5. NoFutureJobs' /\ LeasedIffRunning' /\ WorkHasJob'
  BY <1>2 DEF StoreInv, NoFutureJobs, LeasedIffRunning, WorkHasJob
<1> QED
  BY <1>3, <1>4, <1>5 DEF StoreInv

LEMMA LikesInv ==
    ASSUME StoreInv, NEW u \in Likers, PutLike(u) \/ DeleteLike(u)
    PROVE  StoreInv'
<1>1. /\ likes \subseteq Likers /\ IsFiniteSet(likes) /\ Cardinality(likes) \in Nat
      /\ share.likeCount = Cardinality(likes)
  BY LikersAssumption, FS_Subset, FS_CardinalityType DEF StoreInv, TypeOK, LikesCounted
<1>2. CASE PutLike(u)
  <2>1. Cardinality(likes \cup {u}) = Cardinality(likes) + 1
    BY <1>1, <1>2, FS_AddElement DEF PutLike
  <2> DEFINE c == share.likeCount + 1
  <2>2. /\ c \in Nat /\ share' = [share EXCEPT !.likeCount = c] /\ UNCHANGED jobs
        /\ likes' \subseteq Likers /\ c = Cardinality(likes')
    BY <1>1, <1>2, <2>1 DEF PutLike
  <2> HIDE DEF c
  <2> QED
    BY <2>2, LikeStep
<1>3. CASE DeleteLike(u)
  <2>1. /\ Cardinality(likes \ {u}) = Cardinality(likes) - 1
        /\ IsFiniteSet(likes \ {u})
    BY <1>1, <1>3, FS_RemoveElement DEF DeleteLike
  <2>2. Cardinality(likes \ {u}) \in Nat
    BY <2>1, FS_CardinalityType
  <2> DEFINE c == IF share.likeCount > 0 THEN share.likeCount - 1 ELSE 0
  <2>3. /\ c \in Nat /\ share' = [share EXCEPT !.likeCount = c] /\ UNCHANGED jobs
        /\ likes' \subseteq Likers /\ c = Cardinality(likes')
    BY <1>1, <1>3, <2>1, <2>2 DEF DeleteLike
  <2> HIDE DEF c
  <2> QED
    BY <2>3, LikeStep
<1> QED
  BY <1>2, <1>3

----------------------------------------------------------------------------
(* The remaining operations.                                               *)

LEMMA JobType ==
    ASSUME StoreInv, NEW op \in Operations, NEW v \in Versions
    PROVE  jobs[op][v] \in Jobs /\ Coherent(jobs[op][v])
<1>1. jobs[op][v] \in Jobs
  BY DEF StoreInv, TypeOK
<1> QED
  BY <1>1, Zenon DEF StoreInv, LeasedIffRunning, Coherent

LEMMA ClaimInv ==
    ASSUME StoreInv, NEW op \in Operations, NEW v \in Versions, NEW o \in Owners,
           ClaimIndexJob(op, v, o) \/ ClaimNextIndexJob(op, v, o)
    PROVE  StoreInv'
<1> DEFINE j == Claimed(jobs[op][v], o)
<1>1. jobs[op][v].status \in {"PENDING", "RUNNING"}
  BY DEF ClaimIndexJob, ClaimNextIndexJob, MayClaimJob, Candidate, Expired
<1>2. Coherent(j) /\ j.status = "RUNNING"
  BY JobType, ClaimedCoherent
<1>3. SetJob(op, v, j) /\ UNCHANGED <<share, likes>>
  BY DEF ClaimIndexJob, ClaimNextIndexJob
<1> HIDE DEF j
<1> QED
  BY <1>1, <1>2, <1>3, JobOnlyStep

LEMMA LeaseExpiresInv ==
    ASSUME StoreInv, NEW op \in Operations, NEW v \in Versions, LeaseExpires(op, v)
    PROVE  StoreInv'
<1> DEFINE j == [jobs[op][v] EXCEPT !.lease = "expired"]
<1>1. jobs[op][v] \in Jobs /\ jobs[op][v].status = "RUNNING"
  BY JobType DEF Coherent, LeaseExpires
<1>2. j \in Jobs
  BY <1>1, Zenon DEF Jobs
<1>3. j.status = "RUNNING" /\ j.owner = jobs[op][v].owner /\ j.lease = "expired"
  BY <1>1 DEF Jobs
<1>4. Coherent(j)
  BY <1>1, <1>2, <1>3, JobType DEF Coherent
<1>5. SetJob(op, v, j) /\ UNCHANGED <<share, likes>>
  BY DEF LeaseExpires, SetJob
<1> HIDE DEF j
<1> QED
  BY <1>1, <1>3, <1>4, <1>5, JobOnlyStep

LEMMA AfterFailureJob ==
    ASSUME StoreInv, NEW op \in Operations, NEW v \in Versions, NEW terminal \in BOOLEAN,
           AfterFailure(op, v, terminal)
    PROVE  \E j : Coherent(j) /\ j.status \in {"PENDING", "FAILED"} /\ SetJob(op, v, j)
<1>1. CASE terminal
  <2>1. Coherent(Released(jobs[op][v], "FAILED")) /\ Released(jobs[op][v], "FAILED").status = "FAILED"
    BY JobType, ReleasedCoherent DEF JobStatuses
  <2> QED
    BY <1>1, <2>1 DEF AfterFailure
<1>2. CASE ~terminal
  <2>1. Coherent(Delayed(jobs[op][v])) /\ Delayed(jobs[op][v]).status = "PENDING"
    BY JobType, DelayedCoherent
  <2> QED
    BY <1>2, <2>1 DEF AfterFailure
<1> QED
  BY <1>1, <1>2

LEMMA JobFailureInv ==
    ASSUME StoreInv, NEW op \in Operations, NEW v \in Versions, NEW o \in Owners,
           NEW terminal \in BOOLEAN, RecordIndexJobFailure(op, v, o, terminal)
    PROVE  StoreInv'
<1>1. PICK j : Coherent(j) /\ j.status \in {"PENDING", "FAILED"} /\ SetJob(op, v, j)
  BY AfterFailureJob DEF RecordIndexJobFailure
<1>2. jobs[op][v].status = "RUNNING" /\ UNCHANGED <<share, likes>>
  BY DEF RecordIndexJobFailure, LeaseMatches
<1> QED
  BY <1>1, <1>2, JobOnlyStep

LEMMA SupersedeInv ==
    ASSUME StoreInv, NEW op \in Operations, NEW v \in Versions, NEW o \in Owners \cup {Nobody},
           SupersedeIndexJob(op, v, o)
    PROVE  StoreInv'
<1> DEFINE j == Released(jobs[op][v], "SUCCEEDED")
<1>1. /\ jobs[op][v].status \in {"PENDING", "RUNNING"} /\ Obsolete(op, v)
      /\ SetJob(op, v, j) /\ UNCHANGED <<share, likes>>
  BY DEF SupersedeIndexJob, MaySupersede, LeaseMatches, Expired
<1>2. Coherent(j) /\ j.status = "SUCCEEDED"
  BY JobType, ReleasedCoherent DEF JobStatuses
<1> HIDE DEF j
<1> QED
  BY <1>1, <1>2, JobOnlyStep

\* A failure of the current version's job, recorded in the share.
LEMMA FailedStep ==
    ASSUME StoreInv, NEW op \in Operations, NEW v \in Versions, share.ver = v, Wanted(op),
           jobs[op][v].status # "NONE",
           NEW j, Coherent(j), j.status \in {"PENDING", "FAILED"}, SetJob(op, v, j),
           NEW x, share' = [share EXCEPT !.idx = x], likes' = likes,
           x = "FAILED" \/ (op = "DELETE" /\ x = "DELETE_PENDING")
    PROVE  StoreInv'
<1>1. share \in Shares /\ v > 0
  BY DEF StoreInv, TypeOK, Versions
<1>2. share' \in Shares
  BY <1>1, ShareUpdates
<1>3. /\ share'.pub = share.pub /\ share'.idx = x /\ share'.ver = v
      /\ share'.likeCount = share.likeCount
  BY <1>1 DEF Shares
<1>4. /\ op = "UPSERT" => share.pub = "PUBLISHING"
      /\ op = "DELETE" => share.pub = "UNPUBLISHED"
      /\ op = "UPSERT" <=> share.pub # "UNPUBLISHED"
  BY WantedStatuses
<1>5. StatusesAgree'
  <2>1. CASE op = "UPSERT"
    BY <1>1, <1>3, <1>4, <2>1 DEF StatusesAgree
  <2>2. CASE op = "DELETE"
    BY <1>1, <1>3, <1>4, <2>2 DEF StatusesAgree
  <2> QED
    BY <2>1, <2>2 DEF Operations
<1>6. share'.pub # "PUBLIC"
  BY <1>3, <1>4 DEF Operations
<1> QED
  BY <1>2, <1>3, <1>4, <1>5, <1>6, ConcludingStep

LEMMA RecordFailureInv ==
    ASSUME StoreInv, NEW op \in Operations, NEW v \in Versions, NEW o \in Owners,
           NEW terminal \in BOOLEAN, RecordIndexFailure(op, v, o, terminal)
    PROVE  StoreInv'
<1> DEFINE x == IF op = "UPSERT" \/ terminal THEN "FAILED" ELSE "DELETE_PENDING"
<1>1. PICK j : Coherent(j) /\ j.status \in {"PENDING", "FAILED"} /\ SetJob(op, v, j)
  BY AfterFailureJob DEF RecordIndexFailure
<1>2. /\ share.ver = v /\ Wanted(op) /\ jobs[op][v].status # "NONE"
      /\ share' = [share EXCEPT !.idx = x] /\ likes' = likes
  BY DEF RecordIndexFailure, MayConclude, LeaseMatches
<1>3. x = "FAILED" \/ (op = "DELETE" /\ x = "DELETE_PENDING")
  BY DEF Operations
<1> HIDE DEF x
<1> QED
  BY <1>1, <1>2, <1>3, FailedStep

LEMMA TerminalizeInv ==
    ASSUME StoreInv, NEW op \in Operations, NEW v \in Versions, TerminalizeExpiredClaim(op, v)
    PROVE  StoreInv'
<1> DEFINE j == Released(jobs[op][v], "FAILED")
<1>1. Coherent(j) /\ j.status = "FAILED"
  BY JobType, ReleasedCoherent DEF JobStatuses
<1>2. SetJob(op, v, j) /\ likes' = likes /\ jobs[op][v].status = "RUNNING"
  BY DEF TerminalizeExpiredClaim, Expired
<1>3. CASE share.ver = v /\ Wanted(op)
  <2>1. share' = [share EXCEPT !.idx = "FAILED"]
    BY <1>3 DEF TerminalizeExpiredClaim
  <2> HIDE DEF j
  <2> QED
    BY <1>1, <1>2, <1>3, <2>1, FailedStep
<1>4. CASE ~(share.ver = v /\ Wanted(op))
  <2>1. share' = share
    BY <1>4 DEF TerminalizeExpiredClaim
  <2> HIDE DEF j
  <2> QED
    BY <1>1, <1>2, <2>1, JobOnlyStep
<1> QED
  BY <1>3, <1>4

LEMMA CompleteInv ==
    ASSUME StoreInv, NEW op \in Operations, NEW v \in Versions, NEW o \in Owners,
           CompleteIndexOperation(op, v, o)
    PROVE  StoreInv'
<1> DEFINE j == Released(jobs[op][v], "SUCCEEDED")
<1>1. Coherent(j) /\ j.status = "SUCCEEDED"
  BY JobType, ReleasedCoherent DEF JobStatuses
<1>2. /\ SetJob(op, v, j) /\ likes' = likes /\ jobs[op][v].status # "NONE"
      /\ share.ver = v /\ Wanted(op)
  BY DEF CompleteIndexOperation, MayConclude, LeaseMatches
<1>3. share \in Shares /\ v > 0
  BY DEF StoreInv, TypeOK, Versions
<1>4. /\ op = "UPSERT" => share.pub = "PUBLISHING"
      /\ op = "DELETE" => share.pub = "UNPUBLISHED"
  BY <1>2, WantedStatuses
<1> HIDE DEF j
<1>5. CASE op = "UPSERT"
  <2>1. share' = [share EXCEPT !.pub = "PUBLIC", !.idx = "READY"]
    BY <1>5 DEF CompleteIndexOperation
  <2>2. [share EXCEPT !.pub = "PUBLIC"] \in Shares
    BY <1>3, ShareUpdates
  <2>3. share' \in Shares
    BY <2>1, <2>2, ShareUpdates
  <2>4. /\ share'.pub = "PUBLIC" /\ share'.idx = "READY" /\ share'.ver = v
        /\ share'.likeCount = share.likeCount
    BY <1>2, <1>3, <2>1 DEF Shares
  <2>5. StatusesAgree'
    BY <1>3, <2>4 DEF StatusesAgree
  <2> QED
    BY <1>1, <1>2, <1>4, <1>5, <2>3, <2>4, <2>5, ConcludingStep
<1>6. CASE op = "DELETE"
  <2>1. share' = [share EXCEPT !.idx = "DELETED"]
    BY <1>6 DEF CompleteIndexOperation
  <2>2. share' \in Shares
    BY <1>3, <2>1, ShareUpdates
  <2>3. /\ share'.pub = "UNPUBLISHED" /\ share'.idx = "DELETED" /\ share'.ver = v
        /\ share'.likeCount = share.likeCount
    BY <1>2, <1>3, <1>4, <1>6, <2>1 DEF Shares
  <2>4. StatusesAgree'
    BY <1>3, <2>3 DEF StatusesAgree
  <2> QED
    BY <1>1, <1>2, <1>4, <1>6, <2>2, <2>3, <2>4, ConcludingStep
<1> QED
  BY <1>5, <1>6 DEF Operations

LEMMA RequeueInv ==
    ASSUME StoreInv, NEW v \in Versions, RequeueCurrentUpsert(v)
    PROVE  StoreInv'
<1>1. /\ share.ver = v /\ share.pub = "PUBLIC" /\ jobs["UPSERT"][v].status # "NONE"
      /\ share' = [share EXCEPT !.pub = "PUBLISHING", !.idx = "PENDING"]
      /\ SetJob("UPSERT", v, NewJob) /\ likes' = likes
  BY DEF RequeueCurrentUpsert, MayRequeue
<1>2. share \in Shares /\ v > 0 /\ "UPSERT" \in Operations
  BY DEF StoreInv, TypeOK, Versions, Operations
<1>3. [share EXCEPT !.pub = "PUBLISHING"] \in Shares
  BY <1>2, ShareUpdates
<1>4. share' \in Shares
  BY <1>1, <1>3, ShareUpdates
<1>5. /\ share'.pub = "PUBLISHING" /\ share'.idx = "PENDING" /\ share'.ver = v
      /\ share'.likeCount = share.likeCount
  BY <1>1, <1>2 DEF Shares
<1>6. StatusesAgree'
  BY <1>2, <1>5 DEF StatusesAgree
<1> QED
  BY <1>1, <1>2, <1>4, <1>5, <1>6, NewJobCoherent, ConcludingStep

----------------------------------------------------------------------------
(* The invariant and the action property.                                  *)

LEMMA InitInv == Init => StoreInv
<1> SUFFICES ASSUME Init PROVE StoreInv
  OBVIOUS
<1>1. /\ share = [pub |-> "NONE", idx |-> "NONE", ver |-> 0, likeCount |-> 0]
      /\ jobs = [op \in Operations |-> [v \in Versions |-> NoJob]]
      /\ likes = {}
  BY DEF Init
<1>2. share \in Shares
  BY <1>1, VersionAssumption DEF Shares
<1>3. jobs \in [Operations -> [Versions -> Jobs]]
  BY <1>1, NoJobCoherent DEF Coherent
<1>4. \A op \in Operations, v \in Versions : jobs[op][v] = NoJob
  BY <1>1
<1>5. TypeOK /\ StatusesAgree /\ LikesCounted /\ WorkHasJob
  BY <1>1, <1>2, <1>3, FS_EmptySet DEF TypeOK, StatusesAgree, LikesCounted, WorkHasJob
<1>6. LeasedIffRunning
  BY <1>4, NoJobCoherent, Zenon DEF LeasedIffRunning, Coherent
<1>7. NoFutureJobs
  BY <1>1, <1>4, NoJobCoherent DEF NoFutureJobs, Operations
<1> QED
  BY <1>5, <1>6, <1>7 DEF StoreInv

LEMMA NextInv == StoreInv /\ [Next]_shareVars => StoreInv'
<1> SUFFICES ASSUME StoreInv, [Next]_shareVars
             PROVE  StoreInv'
  OBVIOUS
<1>1. CASE AuthorNext
  BY <1>1, StageUpsertInv, StageUnpublishInv DEF AuthorNext, CreatePublishIntent, StageUpdate
<1>2. ASSUME NEW op \in Operations, NEW v \in Versions, JobNext(op, v)
      PROVE  StoreInv'
  <2>1. ASSUME NEW o \in Owners, OwnerNext(op, v, o)
        PROVE  StoreInv'
    BY <2>1, ClaimInv, CompleteInv, RecordFailureInv, JobFailureInv DEF OwnerNext
  <2>2. ASSUME NEW o \in Owners \cup {Nobody}, SupersedeIndexJob(op, v, o)
        PROVE  StoreInv'
    BY <2>2, SupersedeInv
  <2> QED
    BY <1>2, <2>1, <2>2, TerminalizeInv, LeaseExpiresInv DEF JobNext
<1>3. ASSUME NEW v \in Versions, RequeueCurrentUpsert(v)
      PROVE  StoreInv'
  BY <1>3, RequeueInv
<1>4. ASSUME NEW u \in Likers, PutLike(u) \/ DeleteLike(u)
      PROVE  StoreInv'
  BY <1>4, LikesInv
<1>5. CASE UNCHANGED shareVars
  BY <1>5 DEF shareVars, StoreInv, TypeOK, StatusesAgree, LeasedIffRunning, NoFutureJobs,
              WorkHasJob, LikesCounted
<1> QED
  BY <1>1, <1>2, <1>3, <1>4, <1>5 DEF Next

\* The invariant of the shared-guide tables holds however the transactions of
\* MySQLSharedGuideStore follow each other.
THEOREM StoreInvariant == Spec => []StoreInv
<1>1. Init => StoreInv
  BY InitInv
<1>2. StoreInv /\ [Next]_shareVars => StoreInv'
  BY NextInv
<1> QED
  BY <1>1, <1>2, PTL DEF Spec

\* Work the share waits for always has its job: no staging, supersession,
\* terminal failure or requeue closes or loses it.
THEOREM WorkIsNeverLost == Spec => []WorkHasJob
<1>1. StoreInv => WorkHasJob
  BY DEF StoreInv
<1> QED
  BY <1>1, StoreInvariant, PTL

\* The like counter of put_like and delete_like is the number of like rows.
THEOREM LikesAreCounted == Spec => []LikesCounted
<1>1. StoreInv => LikesCounted
  BY DEF StoreInv
<1> QED
  BY <1>1, StoreInvariant, PTL

\* One step never takes the version back and never undoes what the author asked
\* for.
AuthorRespected ==
    /\ share'.ver >= share.ver
    /\ share.pub = "UNPUBLISHED" /\ share'.pub # "UNPUBLISHED" => share'.ver > share.ver
    /\ share.pub # "UNPUBLISHED" /\ share'.pub = "UNPUBLISHED" => share'.ver = share.ver

LEMMA StepKeepsAuthor == StoreInv /\ [Next]_shareVars => [AuthorRespected]_shareVars
<1> SUFFICES ASSUME StoreInv, Next
             PROVE  AuthorRespected
  OBVIOUS
<1>1. share \in Shares /\ share.ver \in Nat
  BY DEF StoreInv, TypeOK, Shares
<1>2. CASE AuthorNext
  <2>1. CASE StageUpsert
    <3>1. share'.pub = "PUBLISHING" /\ share'.ver = share.ver + 1
      BY <1>1, <2>1 DEF StageUpsert, Shares
    <3> QED
      BY <1>1, <3>1 DEF AuthorRespected
  <2>2. CASE StageUnpublish
    <3>1. share'.pub = "UNPUBLISHED" /\ share'.ver = share.ver
      BY <1>1, <2>2 DEF StageUnpublish, Shares
    <3> QED
      BY <1>1, <3>1 DEF AuthorRespected
  <2> QED
    BY <1>2, <2>1, <2>2 DEF AuthorNext, CreatePublishIntent, StageUpdate
<1>3. ASSUME NEW op \in Operations, NEW v \in Versions, JobNext(op, v)
      PROVE  AuthorRespected
  <2>1. ASSUME NEW o \in Owners, OwnerNext(op, v, o)
        PROVE  AuthorRespected
    <3>1. CASE CompleteIndexOperation(op, v, o)
      BY <1>1, <3>1 DEF CompleteIndexOperation, MayConclude, Wanted, AuthorRespected, Shares
    <3>2. ASSUME NEW terminal \in BOOLEAN, RecordIndexFailure(op, v, o, terminal)
          PROVE  AuthorRespected
      BY <1>1, <3>2 DEF RecordIndexFailure, AuthorRespected, Shares
    <3>3. CASE share' = share
      BY <1>1, <3>3 DEF AuthorRespected
    <3> QED
      BY <2>1, <3>1, <3>2, <3>3
      DEF OwnerNext, ClaimIndexJob, ClaimNextIndexJob, RecordIndexJobFailure
  <2>2. CASE TerminalizeExpiredClaim(op, v)
    BY <1>1, <2>2 DEF TerminalizeExpiredClaim, AuthorRespected, Shares
  <2>3. CASE share' = share
    BY <1>1, <2>3 DEF AuthorRespected
  <2> QED
    BY <1>3, <2>1, <2>2, <2>3 DEF JobNext, SupersedeIndexJob, LeaseExpires
<1>4. ASSUME NEW v \in Versions, RequeueCurrentUpsert(v)
      PROVE  AuthorRespected
  BY <1>1, <1>4 DEF RequeueCurrentUpsert, MayRequeue, AuthorRespected, Shares
<1>5. ASSUME NEW u \in Likers, PutLike(u) \/ DeleteLike(u)
      PROVE  AuthorRespected
  BY <1>1, <1>5 DEF PutLike, DeleteLike, AuthorRespected, Shares
<1> QED
  BY <1>2, <1>3, <1>4, <1>5 DEF Next

\* A late completion, failure, supersession or requeue never brings an
\* unpublished share back or hides one as unpublished: only its author does.
THEOREM AuthorAlwaysDecides == Spec => AuthorDecides
<1>1. StoreInv /\ [Next]_shareVars => [AuthorRespected]_shareVars
  BY StepKeepsAuthor
<1> QED
  BY <1>1, StoreInvariant, PTL DEF Spec, AuthorDecides, AuthorRespected

-----------------------------------------------------------------------------
(* Workers, requests and commands.                                         *)

----------------------------------------------------------------------------
(* The inductive invariant.                                                *)

\* The reconciliation of a late upsert, up to its supersession.
ReconcilePcs ==
    {"reconcile", "restore", "overwrite", "confirm", "requeue", "requeued", "clean", "cleaned",
     "clean current", "give up"}

Labels ==
    ReconcilePcs \cup
    {"idle", "read", "embed", "call", "check", "raised", "complete", "fail", "supersede", "claim",
     "write", "conclude", "undo", "failed"}

Procs ==
    [pc : Labels, op : Operations, ver : 0..MaxVersion, cur : 0..MaxVersion,
     restored : SUBSET Versions, pass : 0..MaxPasses]

\* A thread that is not idle has the job of a staged version; only an upsert is
\* embedded and reconciled.
Fits(q, last) ==
    /\ q.ver <= last /\ q.cur <= last /\ \A v \in q.restored : v <= last
    /\ q.pc # "idle" => q.ver > 0
    /\ q.pc \in ReconcilePcs \cup {"embed"} => q.op = "UPSERT"

\* A thread that reconciles a job it still holds the lease of has been overtaken:
\* its version is neither published nor being published any more.
Overtaken(v) == share.ver > v \/ share.pub = "UNPUBLISHED"

RetiredIsOvertaken ==
    \A p \in Owners :
        (proc[p].pc \in ReconcilePcs /\ LeaseMatches("UPSERT", Ver(p), p)) => Overtaken(Ver(p))

Threads ==
    /\ proc \in [Owners -> Procs]
    /\ \A p \in Owners : Fits(proc[p], share.ver)
    /\ RetiredIsOvertaken
    /\ point \in 0..share.ver

ToolLabels ==
    {"start", "scroll", "read", "reread", "embed", "upsert", "confirm", "cleanup", "current",
     "requeue", "extra", "guard", "erase", "erased", "done"}

Tools ==
    [mode : Modes, pc : ToolLabels, rec : 0..MaxVersion, seen : 0..MaxVersion,
     cur : 0..MaxVersion, touched : BOOLEAN, failed : BOOLEAN]

Command == tool \in Tools /\ tool.rec <= share.ver /\ tool.cur <= share.ver

IndexIInv == StoreInv /\ WaitingHasOpenJob /\ Threads
MaintIInv == IndexIInv /\ Command

----------------------------------------------------------------------------
(* What a transaction may do to the tables, seen by the threads.           *)

\* Nobody but o comes to hold a lease it did not hold.
LeasesGoTo(o) ==
    \A op \in Operations, v \in Versions, q \in Owners :
        q # o /\ LeaseMatches(op, v, q)' => LeaseMatches(op, v, q)

\* A transaction of the store, or none, after which what waits can still be done.
StoreMove(o) == [Next]_shareVars /\ WaitingHasOpenJob' /\ LeasesGoTo(o)

LEMMA ShareFacts ==
    ASSUME StoreInv
    PROVE  /\ share \in Shares /\ share.ver \in 0..MaxVersion /\ share.ver \in Nat
           /\ share.pub # "NONE" => share.ver \in Versions
           /\ share.pub = "NONE" => share.ver = 0
           /\ share.idx = "PENDING" => share.pub = "PUBLISHING"
           /\ share.idx = "DELETE_PENDING" => share.pub = "UNPUBLISHED"
<1>1. share \in Shares /\ share.ver \in 0..MaxVersion /\ share.ver \in Nat
  BY VersionAssumption DEF StoreInv, TypeOK, Shares
<1>2. share.pub \in {"NONE", "PUBLISHING", "PUBLIC", "UNPUBLISHED"}
  BY <1>1 DEF Shares
<1>3. /\ share.pub # "NONE" => share.ver > 0
      /\ share.pub = "NONE" => share.ver = 0
      /\ share.idx = "PENDING" => share.pub = "PUBLISHING"
      /\ share.idx = "DELETE_PENDING" => share.pub = "UNPUBLISHED"
  BY <1>1, <1>2 DEF StoreInv, StatusesAgree
<1> QED
  BY <1>1, <1>3, VersionAssumption DEF Versions

\* Writing one job keeps a waiting share provided for, when the job is left open
\* or the share does not wait for it.
LEMMA WaitingKept ==
    ASSUME StoreInv, WaitingHasOpenJob, NEW op \in Operations, NEW v \in Versions,
           NEW j, Coherent(j), SetJob(op, v, j), share'.ver = share.ver,
           j.status = "PENDING" => j.attempts < MaxAttempts,
           share'.idx = "PENDING" =>
              IF op = "UPSERT" /\ v = share.ver THEN j.status \in {"PENDING", "RUNNING"}
              ELSE share.idx = "PENDING",
           share'.idx = "DELETE_PENDING" =>
              IF op = "DELETE" /\ v = share.ver THEN j.status \in {"PENDING", "RUNNING"}
              ELSE share.idx = "DELETE_PENDING"
    PROVE  WaitingHasOpenJob'
<1>1. /\ jobs'[op][v] = j
      /\ \A o \in Operations, n \in Versions : o # op \/ n # v => jobs'[o][n] = jobs[o][n]
  BY SetJobEffect DEF StoreInv, TypeOK
<1>2. /\ share.idx = "PENDING" => share.ver \in Versions
      /\ share.idx = "DELETE_PENDING" => share.ver \in Versions
  BY ShareFacts
<1>3. ASSUME share'.idx = "PENDING"
      PROVE  jobs'["UPSERT"][share'.ver].status \in {"PENDING", "RUNNING"}
  <2>1. CASE op = "UPSERT" /\ v = share.ver
    BY <1>1, <1>3, <2>1
  <2>2. CASE op # "UPSERT" \/ v # share.ver
    BY <1>1, <1>2, <1>3, <2>2 DEF WaitingHasOpenJob, Operations
  <2> QED
    BY <2>1, <2>2
<1>4. ASSUME share'.idx = "DELETE_PENDING"
      PROVE  jobs'["DELETE"][share'.ver].status \in {"PENDING", "RUNNING"}
  <2>1. CASE op = "DELETE" /\ v = share.ver
    BY <1>1, <1>4, <2>1
  <2>2. CASE op # "DELETE" \/ v # share.ver
    BY <1>1, <1>2, <1>4, <2>2 DEF WaitingHasOpenJob, Operations
  <2> QED
    BY <2>1, <2>2
<1>5. ASSUME NEW o \in Operations, NEW n \in Versions, jobs'[o][n].status = "PENDING"
      PROVE  jobs'[o][n].attempts < MaxAttempts
  <2>1. CASE o = op /\ n = v
    BY <1>1, <1>5, <2>1
  <2>2. CASE o # op \/ n # v
    BY <1>1, <1>5, <2>2 DEF WaitingHasOpenJob
  <2> QED
    BY <2>1, <2>2
<1> QED
  BY <1>3, <1>4, <1>5 DEF WaitingHasOpenJob

\* Writing one job gives its lease to nobody but the job's new owner.
LEMMA LeaseWritten ==
    ASSUME StoreInv, NEW op \in Operations, NEW v \in Versions,
           NEW j, Coherent(j), SetJob(op, v, j), NEW o,
           j.status = "RUNNING" => j.owner = o \/ j.lease # "valid"
    PROVE  LeasesGoTo(o)
<1>1. /\ jobs'[op][v] = j
      /\ \A p \in Operations, n \in Versions : p # op \/ n # v => jobs'[p][n] = jobs[p][n]
  BY SetJobEffect DEF StoreInv, TypeOK
<1> SUFFICES ASSUME NEW p \in Operations, NEW n \in Versions, NEW q \in Owners, q # o,
                    LeaseMatches(p, n, q)'
             PROVE  LeaseMatches(p, n, q)
  BY DEF LeasesGoTo
<1>2. CASE p = op /\ n = v
  BY <1>1, <1>2 DEF LeaseMatches
<1>3. CASE p # op \/ n # v
  BY <1>1, <1>3 DEF LeaseMatches
<1> QED
  BY <1>2, <1>3

LEMMA NoStoreMove ==
    ASSUME WaitingHasOpenJob, UNCHANGED shareVars, NEW o
    PROVE  StoreMove(o)
BY DEF StoreMove, shareVars, WaitingHasOpenJob, LeasesGoTo, LeaseMatches

LEMMA ClaimMove ==
    ASSUME StoreInv, WaitingHasOpenJob, NEW op \in Operations, NEW v \in Versions,
           NEW o \in Owners, ClaimIndexJob(op, v, o) \/ ClaimNextIndexJob(op, v, o)
    PROVE  StoreMove(o)
<1> DEFINE j == Claimed(jobs[op][v], o)
<1>1. Coherent(j) /\ j.status = "RUNNING"
  BY JobType, ClaimedCoherent
<1>2. j.owner = o
  BY DEF Claimed
<1>3. SetJob(op, v, j) /\ UNCHANGED <<share, likes>>
  BY DEF ClaimIndexJob, ClaimNextIndexJob
<1>4. Next
  BY DEF Next, JobNext, OwnerNext
<1> HIDE DEF j
<1>5. WaitingHasOpenJob'
  BY <1>1, <1>3, WaitingKept
<1>6. LeasesGoTo(o)
  BY <1>1, <1>2, <1>3, LeaseWritten
<1> QED
  BY <1>4, <1>5, <1>6 DEF StoreMove

LEMMA TerminalizeMove ==
    ASSUME StoreInv, WaitingHasOpenJob, NEW op \in Operations, NEW v \in Versions,
           TerminalizeExpiredClaim(op, v)
    PROVE  StoreMove(Nobody)
<1> DEFINE j == Released(jobs[op][v], "FAILED")
<1>1. Coherent(j) /\ j.status = "FAILED"
  BY JobType, ReleasedCoherent DEF JobStatuses
<1>2. SetJob(op, v, j)
  BY DEF TerminalizeExpiredClaim
<1>3. Next
  BY DEF Next, JobNext
<1> HIDE DEF j
<1>4. /\ share'.ver = share.ver
      /\ IF share.ver = v /\ Wanted(op) THEN share'.idx = "FAILED" ELSE share' = share
  BY ShareFacts DEF TerminalizeExpiredClaim, Shares
<1>5. /\ share.idx = "PENDING" => Wanted("UPSERT")
      /\ share.idx = "DELETE_PENDING" => Wanted("DELETE")
  BY ShareFacts DEF Wanted
<1>6. WaitingHasOpenJob'
  BY <1>1, <1>2, <1>4, <1>5, WaitingKept
<1>7. LeasesGoTo(Nobody)
  BY <1>1, <1>2, LeaseWritten
<1> QED
  BY <1>3, <1>6, <1>7 DEF StoreMove

LEMMA LeaseExpiresMove ==
    ASSUME StoreInv, WaitingHasOpenJob, NEW op \in Operations, NEW v \in Versions,
           LeaseExpires(op, v)
    PROVE  StoreMove(Nobody)
<1> DEFINE j == [jobs[op][v] EXCEPT !.lease = "expired"]
<1>1. jobs[op][v] \in Jobs /\ jobs[op][v].status = "RUNNING"
  BY JobType DEF Coherent, LeaseExpires
<1>2. j \in Jobs
  BY <1>1, Zenon DEF Jobs
<1>3. j.status = "RUNNING" /\ j.owner = jobs[op][v].owner /\ j.lease = "expired"
  BY <1>1 DEF Jobs
<1>4. Coherent(j)
  BY <1>1, <1>2, <1>3, JobType DEF Coherent
<1>5. SetJob(op, v, j) /\ UNCHANGED <<share, likes>>
  BY DEF LeaseExpires, SetJob
<1>6. Next
  BY DEF Next, JobNext
<1> HIDE DEF j
<1>7. WaitingHasOpenJob'
  BY <1>3, <1>4, <1>5, WaitingKept
<1>8. LeasesGoTo(Nobody)
  BY <1>3, <1>4, <1>5, LeaseWritten
<1> QED
  BY <1>6, <1>7, <1>8 DEF StoreMove

LEMMA CompleteMove ==
    ASSUME StoreInv, WaitingHasOpenJob, NEW op \in Operations, NEW v \in Versions,
           NEW o \in Owners, CompleteIndexOperation(op, v, o)
    PROVE  StoreMove(Nobody)
<1> DEFINE j == Released(jobs[op][v], "SUCCEEDED")
<1>1. Coherent(j) /\ j.status = "SUCCEEDED"
  BY JobType, ReleasedCoherent DEF JobStatuses
<1>2. SetJob(op, v, j)
  BY DEF CompleteIndexOperation
<1>3. Next
  BY DEF Next, JobNext, OwnerNext
<1> HIDE DEF j
<1>4. share'.ver = share.ver /\ share'.idx \in {"READY", "DELETED"}
  BY ShareFacts DEF CompleteIndexOperation, Shares
<1>5. WaitingHasOpenJob'
  BY <1>1, <1>2, <1>4, WaitingKept
<1>6. LeasesGoTo(Nobody)
  BY <1>1, <1>2, LeaseWritten
<1> QED
  BY <1>3, <1>5, <1>6 DEF StoreMove

\* The job after a failed attempt: closed, or due again with attempts left.
LEMMA FailureJob ==
    ASSUME StoreInv, NEW op \in Operations, NEW v \in Versions, NEW terminal \in BOOLEAN,
           terminal <=> jobs[op][v].attempts >= MaxAttempts, AfterFailure(op, v, terminal)
    PROVE  \E j : /\ Coherent(j) /\ SetJob(op, v, j)
                  /\ j.status = IF terminal THEN "FAILED" ELSE "PENDING"
                  /\ j.status = "PENDING" => j.attempts < MaxAttempts
<1>1. jobs[op][v] \in Jobs /\ jobs[op][v].attempts \in Nat
  BY JobType DEF Jobs
<1>2. CASE terminal
  <2>1. /\ Coherent(Released(jobs[op][v], "FAILED"))
        /\ Released(jobs[op][v], "FAILED").status = "FAILED"
    BY <1>1, ReleasedCoherent DEF JobStatuses
  <2> QED
    BY <1>2, <2>1 DEF AfterFailure
<1>3. CASE ~terminal
  <2>1. Coherent(Delayed(jobs[op][v])) /\ Delayed(jobs[op][v]).status = "PENDING"
    BY <1>1, DelayedCoherent
  <2>2. Delayed(jobs[op][v]).attempts < MaxAttempts
    BY <1>1, <1>3, AttemptsAssumption DEF Delayed, Unowned
  <2> QED
    BY <1>3, <2>1, <2>2 DEF AfterFailure
<1> QED
  BY <1>2, <1>3

LEMMA FailureMove ==
    ASSUME StoreInv, WaitingHasOpenJob, NEW op \in Operations, NEW v \in Versions,
           NEW o \in Owners, NEW terminal \in BOOLEAN,
           terminal <=> jobs[op][v].attempts >= MaxAttempts,
           RecordIndexFailure(op, v, o, terminal)
    PROVE  StoreMove(Nobody)
<1>1. PICK j : /\ Coherent(j) /\ SetJob(op, v, j)
               /\ j.status = IF terminal THEN "FAILED" ELSE "PENDING"
               /\ j.status = "PENDING" => j.attempts < MaxAttempts
  BY FailureJob DEF RecordIndexFailure
<1>2. Next
  BY DEF Next, JobNext, OwnerNext
<1>3. /\ share'.ver = share.ver /\ share.ver = v
      /\ share'.idx = IF op = "UPSERT" \/ terminal THEN "FAILED" ELSE "DELETE_PENDING"
  BY ShareFacts DEF RecordIndexFailure, MayConclude, Shares
<1>4. WaitingHasOpenJob'
  BY <1>1, <1>3, WaitingKept DEF Operations
<1>5. LeasesGoTo(Nobody)
  BY <1>1, LeaseWritten
<1> QED
  BY <1>2, <1>4, <1>5 DEF StoreMove

LEMMA StaleFailureMove ==
    ASSUME StoreInv, WaitingHasOpenJob, NEW v \in Versions,
           NEW o \in Owners, NEW terminal \in BOOLEAN,
           terminal <=> jobs["UPSERT"][v].attempts >= MaxAttempts,
           Overtaken(v), RecordIndexJobFailure("UPSERT", v, o, terminal)
    PROVE  StoreMove(Nobody)
<1> "UPSERT" \in Operations
  BY DEF Operations
<1>1. PICK j : /\ Coherent(j) /\ SetJob("UPSERT", v, j)
               /\ j.status = IF terminal THEN "FAILED" ELSE "PENDING"
               /\ j.status = "PENDING" => j.attempts < MaxAttempts
  BY FailureJob DEF RecordIndexJobFailure
<1>2. Next
  BY DEF Next, JobNext, OwnerNext
<1>3. share' = share
  BY DEF RecordIndexJobFailure
<1>4. share.idx = "PENDING" => share.ver # v
  BY ShareFacts DEF Overtaken
<1>5. WaitingHasOpenJob'
  BY <1>1, <1>3, <1>4, WaitingKept
<1>6. LeasesGoTo(Nobody)
  BY <1>1, LeaseWritten
<1> QED
  BY <1>2, <1>5, <1>6 DEF StoreMove

LEMMA SupersedeMove ==
    ASSUME StoreInv, WaitingHasOpenJob, NEW op \in Operations, NEW v \in Versions,
           NEW o \in Owners \cup {Nobody}, SupersedeIndexJob(op, v, o)
    PROVE  StoreMove(Nobody)
<1> DEFINE j == Released(jobs[op][v], "SUCCEEDED")
<1>1. Coherent(j) /\ j.status = "SUCCEEDED"
  BY JobType, ReleasedCoherent DEF JobStatuses
<1>2. SetJob(op, v, j) /\ share' = share /\ Obsolete(op, v)
  BY DEF SupersedeIndexJob, MaySupersede
<1>3. Next
  BY DEF Next, JobNext
<1> HIDE DEF j
<1>4. /\ op = "UPSERT" /\ v = share.ver => share.idx # "PENDING"
      /\ op = "DELETE" /\ v = share.ver => share.idx # "DELETE_PENDING"
  BY <1>2, ShareFacts DEF Obsolete
<1>5. WaitingHasOpenJob'
  BY <1>1, <1>2, <1>4, WaitingKept
<1>6. LeasesGoTo(Nobody)
  BY <1>1, <1>2, LeaseWritten
<1> QED
  BY <1>3, <1>5, <1>6 DEF StoreMove

LEMMA NewJobAttempts == NewJob.attempts = 0 /\ NewJob.attempts < MaxAttempts
BY AttemptsAssumption DEF NewJob, Unowned

LEMMA RequeueMove ==
    ASSUME StoreInv, WaitingHasOpenJob, NEW v, RequeueCurrentUpsert(v)
    PROVE  StoreMove(Nobody)
<1>1. /\ share.ver = v /\ share.pub = "PUBLIC" /\ SetJob("UPSERT", v, NewJob)
      /\ share' = [share EXCEPT !.pub = "PUBLISHING", !.idx = "PENDING"]
  BY DEF RequeueCurrentUpsert, MayRequeue
<1>2. v \in Versions /\ "UPSERT" \in Operations
  BY <1>1, ShareFacts DEF Operations
<1>3. Next
  BY <1>2 DEF Next
<1>4. share'.ver = share.ver /\ share'.idx = "PENDING"
  BY <1>1, ShareFacts DEF Shares
<1>5. WaitingHasOpenJob'
  BY <1>1, <1>2, <1>4, NewJobCoherent, NewJobAttempts, WaitingKept
<1>6. LeasesGoTo(Nobody)
  BY <1>1, <1>2, NewJobCoherent, LeaseWritten
<1> QED
  BY <1>3, <1>5, <1>6 DEF StoreMove

\* Superseding the upserts that nobody works on.
LEMMA SupersededJob ==
    ASSUME StoreInv, WaitingHasOpenJob, NEW v \in Versions
    PROVE  /\ SupersededUpserts[v].status # "PENDING"
           /\ SupersededUpserts[v].status = "RUNNING" => SupersededUpserts[v] = jobs["UPSERT"][v]
<1> DEFINE j == jobs["UPSERT"][v]
<1>1. CASE j.status \in {"PENDING", "RUNNING"} /\ ~ActiveUpsert(v)
  BY <1>1 DEF SupersededUpserts, Released, Unowned
<1>2. CASE ~(j.status \in {"PENDING", "RUNNING"} /\ ~ActiveUpsert(v))
  <2>1. SupersededUpserts[v] = j
    BY <1>2 DEF SupersededUpserts
  <2> QED
    BY <1>2, <2>1 DEF ActiveUpsert
<1> QED
  BY <1>1, <1>2

LEMMA StageUpsertMove ==
    ASSUME StoreInv, WaitingHasOpenJob, CreatePublishIntent \/ StageUpdate
    PROVE  StoreMove(Nobody) /\ share'.ver = share.ver + 1
<1> DEFINE n == share.ver + 1
           ups == [SupersededUpserts EXCEPT ![n] = NewJob]
<1>1. StageUpsert
  BY DEF CreatePublishIntent, StageUpdate
<1>2. share \in Shares /\ n \in Versions
  BY <1>1, ShareFacts, VersionAssumption DEF StageUpsert, Versions
<1>3. share'.ver = n /\ share'.idx = "PENDING"
  BY <1>1, <1>2 DEF StageUpsert, Shares
<1>4. ups[n] = NewJob /\ \A v \in Versions : v # n => ups[v] = SupersededUpserts[v]
  BY <1>2 DEF SupersededUpserts
<1>5. jobs'["UPSERT"] = ups /\ jobs'["DELETE"] = jobs["DELETE"]
  BY <1>1 DEF StageUpsert, StoreInv, TypeOK, Operations
<1> HIDE DEF ups
<1>6. ASSUME NEW v \in Versions
      PROVE  /\ jobs'["UPSERT"][v].status = "PENDING" => jobs'["UPSERT"][v].attempts < MaxAttempts
             /\ jobs'["UPSERT"][v].status = "RUNNING" => jobs'["UPSERT"][v] = jobs["UPSERT"][v]
  <2>1. CASE v = n
    BY <1>4, <1>5, <2>1, NewJobCoherent, NewJobAttempts
  <2>2. CASE v # n
    BY <1>4, <1>5, <2>2, SupersededJob
  <2> QED
    BY <2>1, <2>2
<1>7. WaitingHasOpenJob'
  <2>1. jobs'["UPSERT"][share'.ver].status = "PENDING"
    BY <1>3, <1>4, <1>5, NewJobCoherent
  <2>2. ASSUME NEW op \in Operations, NEW v \in Versions, jobs'[op][v].status = "PENDING"
        PROVE  jobs'[op][v].attempts < MaxAttempts
    <3>1. CASE op = "UPSERT"
      BY <1>6, <2>2, <3>1
    <3>2. CASE op = "DELETE"
      BY <1>5, <2>2, <3>2 DEF WaitingHasOpenJob
    <3> QED
      BY <3>1, <3>2 DEF Operations
  <2> QED
    BY <1>3, <2>1, <2>2 DEF WaitingHasOpenJob
<1>8. LeasesGoTo(Nobody)
  <2> SUFFICES ASSUME NEW op \in Operations, NEW v \in Versions, NEW q \in Owners,
                      LeaseMatches(op, v, q)'
               PROVE  LeaseMatches(op, v, q)
    BY DEF LeasesGoTo
  <2>1. CASE op = "UPSERT"
    BY <1>6, <2>1 DEF LeaseMatches
  <2>2. CASE op = "DELETE"
    BY <1>5, <2>2 DEF LeaseMatches
  <2> QED
    BY <2>1, <2>2 DEF Operations
<1>9. Next
  BY DEF Next, AuthorNext
<1> QED
  BY <1>3, <1>7, <1>8, <1>9 DEF StoreMove

LEMMA StageUnpublishMove ==
    ASSUME StoreInv, WaitingHasOpenJob, StageUnpublish
    PROVE  StoreMove(Nobody) /\ share'.ver = share.ver
<1> DEFINE n == share.ver
           dels == [jobs["DELETE"] EXCEPT ![n] = NewJob]
<1>1. share \in Shares /\ n \in Versions
  BY ShareFacts DEF StageUnpublish
<1>2. share'.ver = n /\ share'.idx = "DELETE_PENDING"
  BY <1>1 DEF StageUnpublish, Shares
<1>3. jobs \in [Operations -> [Versions -> Jobs]] /\ jobs["DELETE"] \in [Versions -> Jobs]
  BY DEF StoreInv, TypeOK, Operations
<1>4. dels[n] = NewJob /\ \A v \in Versions : v # n => dels[v] = jobs["DELETE"][v]
  BY <1>1, <1>3
<1>5. jobs'["UPSERT"] = SupersededUpserts /\ jobs'["DELETE"] = dels
  BY <1>3 DEF StageUnpublish, Operations
<1> HIDE DEF dels
<1>6. ASSUME NEW v \in Versions
      PROVE  /\ jobs'["DELETE"][v].status = "PENDING" => jobs'["DELETE"][v].attempts < MaxAttempts
             /\ jobs'["DELETE"][v].status = "RUNNING" => jobs'["DELETE"][v] = jobs["DELETE"][v]
  <2>1. CASE v = n
    BY <1>4, <1>5, <2>1, NewJobCoherent, NewJobAttempts
  <2>2. CASE v # n
    <3>1. jobs'["DELETE"][v] = jobs["DELETE"][v]
      BY <1>4, <1>5, <2>2
    <3> QED
      BY <3>1 DEF WaitingHasOpenJob, Operations
  <2> QED
    BY <2>1, <2>2
<1>7. WaitingHasOpenJob'
  <2>1. jobs'["DELETE"][share'.ver].status = "PENDING"
    BY <1>2, <1>4, <1>5, NewJobCoherent
  <2>2. ASSUME NEW op \in Operations, NEW v \in Versions, jobs'[op][v].status = "PENDING"
        PROVE  jobs'[op][v].attempts < MaxAttempts
    <3>1. CASE op = "UPSERT"
      BY <1>5, <2>2, <3>1, SupersededJob
    <3>2. CASE op = "DELETE"
      BY <1>6, <2>2, <3>2
    <3> QED
      BY <3>1, <3>2 DEF Operations
  <2> QED
    BY <1>2, <2>1, <2>2 DEF WaitingHasOpenJob
<1>8. LeasesGoTo(Nobody)
  <2> SUFFICES ASSUME NEW op \in Operations, NEW v \in Versions, NEW q \in Owners,
                      LeaseMatches(op, v, q)'
               PROVE  LeaseMatches(op, v, q)
    BY DEF LeasesGoTo
  <2>1. CASE op = "UPSERT"
    BY <1>5, <2>1, SupersededJob DEF LeaseMatches
  <2>2. CASE op = "DELETE"
    BY <1>6, <2>2 DEF LeaseMatches
  <2> QED
    BY <2>1, <2>2 DEF Operations
<1>9. Next
  BY DEF Next, AuthorNext
<1> QED
  BY <1>2, <1>7, <1>8, <1>9 DEF StoreMove

LEMMA LikeMove ==
    ASSUME StoreInv, WaitingHasOpenJob, NEW u \in Likers, PutLike(u) \/ DeleteLike(u)
    PROVE  StoreMove(Nobody)
<1>1. jobs' = jobs /\ share'.ver = share.ver /\ share'.idx = share.idx
  BY ShareFacts DEF PutLike, DeleteLike, Shares
<1>2. WaitingHasOpenJob' /\ LeasesGoTo(Nobody)
  BY <1>1 DEF WaitingHasOpenJob, LeasesGoTo, LeaseMatches
<1>3. Next
  BY DEF Next
<1> QED
  BY <1>2, <1>3 DEF StoreMove

----------------------------------------------------------------------------
(* What a step of one thread may do.                                       *)

\* A step keeps the invariant and is, for the tables, a transaction or nothing.
IndexStep == [Next]_shareVars /\ IndexIInv'

\* A thread may start to reconcile: if it still holds the lease of its upsert,
\* the upsert has been overtaken.
Retires(p) ==
    Op(p) = "UPSERT" /\ (LeaseMatches("UPSERT", Ver(p), p) => Overtaken(Ver(p)))

LEMMA VersionsGrow ==
    ASSUME StoreInv, [Next]_shareVars
    PROVE  /\ share.ver \in Nat /\ share'.ver \in Nat /\ share.ver <= share'.ver
           /\ share'.ver <= MaxVersion
           /\ StoreInv'
<1>1. StoreInv'
  BY NextInv
<1>2. /\ share.ver \in Nat /\ share'.ver \in Nat
      /\ share.ver <= MaxVersion /\ share'.ver <= MaxVersion
  BY <1>1, VersionAssumption DEF StoreInv, TypeOK, Shares
<1>3. [AuthorRespected]_shareVars
  BY StepKeepsAuthor
<1>4. share.ver <= share'.ver
  BY <1>2, <1>3 DEF AuthorRespected, shareVars
<1> QED
  BY <1>1, <1>2, <1>4

LEMMA OvertakenStays ==
    ASSUME StoreInv, [Next]_shareVars, NEW v \in Nat, v <= share.ver, Overtaken(v)
    PROVE  Overtaken(v)'
<1>1. share.ver \in Nat /\ share'.ver \in Nat /\ share.ver <= share'.ver
  BY VersionsGrow
<1>2. CASE share.ver > v
  BY <1>1, <1>2 DEF Overtaken
<1>3. CASE share.pub = "UNPUBLISHED"
  <2>1. [AuthorRespected]_shareVars
    BY StepKeepsAuthor
  <2>2. share'.pub = "UNPUBLISHED" \/ share'.ver > share.ver
    BY <1>3, <2>1 DEF AuthorRespected, shareVars
  <2> QED
    BY <1>1, <2>2 DEF Overtaken
<1> QED
  BY <1>2, <1>3 DEF Overtaken

LEMMA ProcFacts ==
    ASSUME IndexIInv, NEW p \in Owners
    PROVE  /\ proc[p] \in Procs /\ Fits(proc[p], share.ver)
           /\ Op(p) \in Operations /\ Ver(p) \in 0..MaxVersion /\ Ver(p) \in Nat
           /\ Ver(p) <= share.ver /\ proc[p].cur \in Nat /\ proc[p].cur <= share.ver
           /\ ~At(p, "idle") => Ver(p) \in Versions
           /\ proc[p].pc \in ReconcilePcs => Retires(p)
           /\ At(p, "embed") => Op(p) = "UPSERT"
<1>1. proc[p] \in Procs /\ Fits(proc[p], share.ver)
  BY DEF IndexIInv, Threads
<1>2. /\ Op(p) \in Operations /\ Ver(p) \in 0..MaxVersion /\ proc[p].cur \in 0..MaxVersion
  BY <1>1 DEF Procs, Op, Ver
<1>3. /\ Ver(p) \in Nat /\ Ver(p) <= share.ver
      /\ proc[p].cur \in Nat /\ proc[p].cur <= share.ver
  BY <1>1, <1>2, VersionAssumption DEF Fits, Ver
<1>4. ~At(p, "idle") => Ver(p) \in Versions
  BY <1>1, <1>2, <1>3, VersionAssumption DEF Fits, Ver, At, Versions
<1>5. proc[p].pc \in ReconcilePcs => Retires(p)
  BY <1>1 DEF Fits, Retires, IndexIInv, Threads, RetiredIsOvertaken, Op
<1>6. At(p, "embed") => Op(p) = "UPSERT"
  BY <1>1 DEF Fits, At, Op
<1> QED
  BY <1>1, <1>2, <1>3, <1>4, <1>5, <1>6

\* Only thread p moves.
LEMMA ThreadMove ==
    ASSUME IndexIInv, NEW p \in Owners, NEW o \in {p, Nobody}, StoreMove(o),
           NEW new \in Procs, proc' = [proc EXCEPT ![p] = new], Fits(new, share'.ver),
           new.pc \in ReconcilePcs => new.ver = Ver(p) /\ o = Nobody /\ Retires(p),
           point' \in 0..share'.ver
    PROVE  IndexStep
<1>1. [Next]_shareVars /\ WaitingHasOpenJob' /\ LeasesGoTo(o) /\ StoreInv
  BY DEF StoreMove, IndexIInv
<1>2. /\ share.ver \in Nat /\ share'.ver \in Nat /\ share.ver <= share'.ver
      /\ StoreInv'
  BY <1>1, VersionsGrow
<1>3. /\ proc' \in [Owners -> Procs] /\ proc'[p] = new
      /\ \A q \in Owners : q # p => proc'[q] = proc[q]
  BY DEF IndexIInv, Threads
<1>4. ASSUME NEW q \in Owners
      PROVE  Fits(proc'[q], share'.ver)
  <2>1. CASE q = p
    BY <1>3, <2>1
  <2>2. CASE q # p
    <3>1. proc'[q] = proc[q] /\ proc[q] \in Procs /\ Fits(proc[q], share.ver)
      BY <1>3, <2>2, ProcFacts
    <3>2. /\ proc[q].ver \in Nat /\ proc[q].cur \in Nat
          /\ \A v \in proc[q].restored : v \in Nat
      BY <3>1, VersionAssumption DEF Procs, Versions
    <3> QED
      BY <1>2, <3>1, <3>2 DEF Fits
  <2> QED
    BY <2>1, <2>2
<1>5. ASSUME NEW q \in Owners, proc'[q].pc \in ReconcilePcs, NEW v, v = proc'[q].ver,
             LeaseMatches("UPSERT", v, q)'
      PROVE  Overtaken(v)'
  <2>1. v = Ver(q) /\ q # o /\ Retires(q)
    <3>1. CASE q = p
      BY <1>3, <1>5, <3>1, NobodyAssumption
    <3>2. CASE q # p
      BY <1>3, <1>5, <3>2, ProcFacts, NobodyAssumption DEF Ver
    <3> QED
      BY <3>1, <3>2
  <2>2. v \in Nat /\ v <= share.ver
    BY <2>1, ProcFacts
  <2>3. v \in Versions
    <3>1. v > 0
      BY <1>4, <1>5 DEF Fits, ReconcilePcs
    <3> QED
      BY <2>1, <2>2, <3>1, ProcFacts, VersionAssumption DEF Versions
  <2>4. LeaseMatches("UPSERT", v, q)
    BY <1>1, <1>5, <2>1, <2>3 DEF LeasesGoTo, Operations
  <2>5. Overtaken(v)
    BY <2>1, <2>4 DEF Retires
  <2> QED
    BY <1>1, <2>2, <2>5, OvertakenStays
<1>6. RetiredIsOvertaken'
  BY <1>5 DEF RetiredIsOvertaken, Ver, LeaseMatches, Overtaken
<1>7. Threads'
  BY <1>3, <1>4, <1>6 DEF Threads
<1> QED
  BY <1>1, <1>2, <1>7 DEF IndexStep, IndexIInv

\* No thread moves.
LEMMA NoThreadMove ==
    ASSUME IndexIInv, StoreMove(Nobody), proc' = proc, point' \in 0..share'.ver
    PROVE  IndexStep
<1>1. [Next]_shareVars /\ WaitingHasOpenJob' /\ StoreInv
  BY DEF StoreMove, IndexIInv
<1>2. CASE Owners = {}
  BY <1>1, <1>2, VersionsGrow DEF IndexStep, IndexIInv, Threads, RetiredIsOvertaken
<1>3. CASE Owners # {}
  <2>1. PICK p \in Owners : TRUE
    BY <1>3
  <2>2. proc' = [proc EXCEPT ![p] = proc[p]]
    BY DEF IndexIInv, Threads
  <2>3. proc[p] \in Procs /\ Fits(proc[p], share.ver)
    BY ProcFacts
  <2>4. Fits(proc[p], share'.ver)
    <3>1. /\ proc[p].ver \in Nat /\ proc[p].cur \in Nat
          /\ \A v \in proc[p].restored : v \in Nat
      BY <2>3, VersionAssumption DEF Procs, Versions
    <3> QED
      BY <1>1, <2>3, <3>1, VersionsGrow DEF Fits
  <2>5. proc[p].pc \in ReconcilePcs => proc[p].ver = Ver(p) /\ Retires(p)
    BY ProcFacts DEF Ver
  <2> QED
    BY <2>2, <2>3, <2>4, <2>5, ThreadMove
<1> QED
  BY <1>2, <1>3

\* Thread p goes on to another place of its code.
LEMMA GotoMove ==
    ASSUME IndexIInv, NEW p \in Owners, ~At(p, "idle"), NEW label \in Labels \ {"idle"},
           Goto(p, label), NEW o \in {p, Nobody}, StoreMove(o), point' \in 0..share'.ver,
           label = "embed" => Op(p) = "UPSERT",
           label \in ReconcilePcs => o = Nobody /\ Retires(p)
    PROVE  IndexStep
<1> DEFINE new == [proc[p] EXCEPT !.pc = label]
<1>1. proc[p] \in Procs /\ Fits(proc[p], share.ver)
  BY ProcFacts
<1>2. proc' = [proc EXCEPT ![p] = new]
  BY DEF Goto
<1>3. new \in Procs
  BY <1>1 DEF Procs
<1>4. /\ new.pc = label /\ new.op = proc[p].op /\ new.ver = proc[p].ver
      /\ new.cur = proc[p].cur /\ new.restored = proc[p].restored
  BY <1>1 DEF Procs
<1>5. /\ proc[p].ver \in Nat /\ proc[p].cur \in Nat
      /\ \A v \in proc[p].restored : v \in Nat
  BY <1>1, VersionAssumption DEF Procs, Versions
<1>6. share.ver \in Nat /\ share'.ver \in Nat /\ share.ver <= share'.ver
  BY VersionsGrow DEF IndexIInv, StoreMove
<1> HIDE DEF new
<1>7. Fits(new, share'.ver)
  BY <1>1, <1>4, <1>5, <1>6 DEF Fits, At, Retires, Op
<1>8. new.pc \in ReconcilePcs => new.ver = Ver(p) /\ o = Nobody /\ Retires(p)
  BY <1>4 DEF Ver
<1> QED
  BY <1>2, <1>3, <1>7, <1>8, ThreadMove

LEMMA FinishMove ==
    ASSUME IndexIInv, NEW p \in Owners, Finish(p), StoreMove(Nobody), point' \in 0..share'.ver
    PROVE  IndexStep
<1>1. Rest \in Procs
  BY VersionAssumption DEF Rest, Procs, Labels, Operations, MaxPasses
<1>2. share'.ver \in Nat
  BY VersionsGrow DEF IndexIInv, StoreMove
<1>3. Fits(Rest, share'.ver) /\ Rest.pc \notin ReconcilePcs
  BY <1>2 DEF Fits, Rest, ReconcilePcs
<1> QED
  BY <1>1, <1>3, ThreadMove DEF Finish

LEMMA StartMove ==
    ASSUME IndexIInv, NEW p \in Owners, NEW op \in Operations, NEW v \in Versions,
           NEW label \in {"read", "claim"}, Start(p, label, op, v), v <= share'.ver,
           NEW o \in {p, Nobody}, StoreMove(o), point' \in 0..share'.ver
    PROVE  IndexStep
<1> DEFINE new == [Rest EXCEPT !.pc = label, !.op = op, !.ver = v]
<1>1. /\ Rest \in Procs
      /\ Rest.cur = 0 /\ Rest.restored = {}
  <2>1. Rest \in Procs
    BY VersionAssumption DEF Rest, Procs, Labels, Operations, MaxPasses
  <2>2. Rest.cur = 0 /\ Rest.restored = {}
    BY DEF Rest
  <2> QED
    BY <2>1, <2>2
<1>2. /\ v \in 0..MaxVersion /\ v > 0
      /\ label \in Labels /\ label \notin ReconcilePcs /\ label # "embed"
  <2>1. v \in 0..MaxVersion /\ v > 0
    BY VersionAssumption DEF Versions
  <2>2. label \in Labels /\ label \notin ReconcilePcs /\ label # "embed"
    BY DEF Labels, ReconcilePcs
  <2> QED
    BY <2>1, <2>2
<1>3. new \in Procs
  BY <1>1, <1>2 DEF Procs
<1>4. /\ new.pc = label /\ new.op = op /\ new.ver = v
      /\ new.cur = 0 /\ new.restored = {}
  BY <1>1 DEF Procs
<1>6. share'.ver \in Nat
  BY VersionsGrow DEF IndexIInv, StoreMove
<1>5. proc' = [proc EXCEPT ![p] = new]
  BY DEF Start
<1> HIDE DEF new
<1>7. Fits(new, share'.ver) /\ new.pc \notin ReconcilePcs
  BY <1>2, <1>4, <1>6 DEF Fits
<1> QED
  BY <1>3, <1>5, <1>7, ThreadMove

\* A call of Qdrant, successful or not, leaves the point of a staged version or
\* none.
LEMMA CallMove ==
    ASSUME IndexIInv, NEW p \in Owners, ~At(p, "idle"), NEW op, NEW v \in Nat, v <= share.ver,
           NEW done \in Labels \ {"idle"}, NEW failed \in Labels \ {"idle"},
           Call(p, op, v, done, failed), done # "embed", failed # "embed",
           done \in ReconcilePcs \/ failed \in ReconcilePcs => proc[p].pc \in ReconcilePcs
    PROVE  IndexStep
<1>1. StoreMove(Nobody) /\ share' = share
  BY NoStoreMove DEF Call, shareVars, IndexIInv
<1>2. point \in 0..share.ver /\ share.ver \in Nat
  BY ShareFacts DEF IndexIInv, Threads
<1>3. point' \in 0..share'.ver
  BY <1>1, <1>2 DEF Call, IndexCall, Upsert, Delete
<1>4. Goto(p, done) \/ Goto(p, failed)
  BY DEF Call
<1>5. proc[p].pc \in ReconcilePcs => Retires(p)
  BY ProcFacts
<1> QED
  BY <1>1, <1>3, <1>4, <1>5, GotoMove

\* A thread reads, and goes on.
LEMMA ReadMove ==
    ASSUME IndexIInv, NEW p \in Owners, ~At(p, "idle"), NEW label \in Labels \ {"idle"},
           Goto(p, label), UNCHANGED <<shareVars, point>>,
           label = "embed" => Op(p) = "UPSERT", label \in ReconcilePcs => Retires(p)
    PROVE  IndexStep
<1>1. StoreMove(Nobody) /\ share' = share
  BY NoStoreMove DEF shareVars, IndexIInv
<1>2. point' \in 0..share'.ver
  BY <1>1 DEF IndexIInv, Threads
<1> QED
  BY <1>1, <1>2, GotoMove

\* A transaction that leaves Qdrant alone.
LEMMA PointStays ==
    ASSUME IndexIInv, NEW o, StoreMove(o), point' = point
    PROVE  point' \in 0..share'.ver
BY VersionsGrow DEF IndexIInv, Threads, StoreMove

\* A thread whose target no longer matches has been overtaken, if it still holds
\* its lease.
LEMMA StaleRetires ==
    ASSUME IndexIInv, NEW p \in Owners, ~At(p, "idle"), Op(p) = "UPSERT",
           ~Matches(p) \/ ~MayConclude(Op(p), Ver(p), p)
    PROVE  Retires(p)
<1> SUFFICES ASSUME LeaseMatches("UPSERT", Ver(p), p)
             PROVE  Overtaken(Ver(p))
  BY DEF Retires
<1>1. share.ver # Ver(p) \/ ~Wanted("UPSERT")
  BY DEF Matches, MayConclude
<1>2. Ver(p) \in Versions /\ "UPSERT" \in Operations
  BY ProcFacts DEF Operations
<1>3. jobs["UPSERT"][Ver(p)].status = "RUNNING"
  BY DEF LeaseMatches
<1>4. Ver(p) <= share.ver
  BY ProcFacts
<1>5. CASE share.ver # Ver(p)
  BY <1>2, <1>4, <1>5, ShareFacts DEF Overtaken, IndexIInv, Versions
<1>6. CASE share.ver = Ver(p) /\ ~Wanted("UPSERT")
  <2>1. share.pub # "PUBLIC"
    BY <1>3, <1>6 DEF IndexIInv, StoreInv, WorkHasJob
  <2>2. share.pub # "NONE"
    BY <1>2, <1>6, ShareFacts DEF IndexIInv, Versions
  <2>3. share.pub # "PUBLISHING"
    BY <1>6 DEF IndexIInv, StoreInv, StatusesAgree, Wanted
  <2> QED
    BY <2>1, <2>2, <2>3, ShareFacts DEF IndexIInv, Shares, Overtaken
<1> QED
  BY <1>1, <1>5, <1>6

----------------------------------------------------------------------------
(* The steps of a worker.                                                  *)

LEMMA WorkerClaimInv ==
    ASSUME IndexIInv, NEW w \in Owners, WorkerClaim(w)
    PROVE  IndexStep
<1>1. PICK op \in Operations, v \in Versions :
         ClaimNextIndexJob(op, v, w) /\ Start(w, "read", op, v)
  BY DEF WorkerClaim
<1>2. StoreMove(w)
  BY <1>1, ClaimMove DEF IndexIInv
<1>3. jobs[op][v].status # "NONE" /\ share' = share
  BY <1>1 DEF ClaimNextIndexJob, Candidate, Expired
<1>4. v <= share'.ver
  BY <1>3, OpenJobStaged DEF IndexIInv
<1>5. point' \in 0..share'.ver
  BY <1>2, PointStays DEF WorkerClaim
<1> QED
  BY <1>1, <1>2, <1>4, <1>5, StartMove

LEMMA WorkerTerminalizeInv ==
    ASSUME IndexIInv, NEW w \in Owners, WorkerTerminalize(w)
    PROVE  IndexStep
<1>1. StoreMove(Nobody)
  BY TerminalizeMove DEF WorkerTerminalize, IndexIInv
<1>2. proc' = proc /\ point' \in 0..share'.ver
  BY <1>1, PointStays DEF WorkerTerminalize
<1> QED
  BY <1>1, <1>2, NoThreadMove

LEMMA TargetReadInv ==
    ASSUME IndexIInv, NEW w \in Owners, ReadTarget(w) \/ Embed(w) \/ CheckTarget(w)
    PROVE  IndexStep
<1>1. Op(w) \in Operations
  BY ProcFacts
<1>2. UNCHANGED <<shareVars, point>>
  BY DEF ReadTarget, Embed, CheckTarget, Reads
<1>3. CASE Matches(w)
  <2>1. \E l \in {"embed", "call", "fail", "complete"} :
           Goto(w, l) /\ ~At(w, "idle") /\ (l = "embed" => Op(w) = "UPSERT")
    BY <1>3 DEF ReadTarget, Embed, CheckTarget, At
  <2>2. \A l \in {"embed", "call", "fail", "complete"} :
           l \in Labels \ {"idle"} /\ l \notin ReconcilePcs
    BY DEF Labels, ReconcilePcs
  <2> QED
    BY <1>2, <2>1, <2>2, ReadMove
<1>4. CASE ~Matches(w)
  <2>1. ~At(w, "idle") /\ (Goto(w, Stale(w)) \/ (At(w, "embed") /\ Goto(w, "reconcile")))
    BY <1>4 DEF ReadTarget, Embed, CheckTarget, At
  <2>2. CASE Op(w) = "UPSERT"
    <3>1. Goto(w, "reconcile")
      BY <2>1, <2>2 DEF Stale
    <3>2. Retires(w)
      BY <1>4, <2>1, <2>2, StaleRetires
    <3>3. "reconcile" \in Labels \ {"idle"}
      BY DEF Labels, ReconcilePcs
    <3> QED
      BY <1>2, <2>1, <3>1, <3>2, <3>3, ReadMove
  <2>3. CASE Op(w) # "UPSERT"
    <3>1. Goto(w, "supersede")
      BY <2>1, <2>3, ProcFacts DEF Stale
    <3>2. "supersede" \in Labels \ {"idle"} /\ "supersede" \notin ReconcilePcs
      BY DEF Labels, ReconcilePcs
    <3> QED
      BY <1>2, <2>1, <3>1, <3>2, ReadMove
  <2> QED
    BY <2>2, <2>3
<1> QED
  BY <1>3, <1>4

LEMMA CallIndexInv ==
    ASSUME IndexIInv, NEW w \in Owners, CallIndex(w)
    PROVE  IndexStep
<1>1. /\ "check" \in Labels \ {"idle"} /\ "raised" \in Labels \ {"idle"}
      /\ "fail" \in Labels \ {"idle"}
      /\ {"check", "raised", "fail"} \cap ReconcilePcs = {}
  BY DEF Labels, ReconcilePcs
<1>2. ~At(w, "idle") /\ Ver(w) \in Nat /\ Ver(w) <= share.ver
  BY ProcFacts DEF CallIndex, At
<1>3. \E l \in {"raised", "fail"} : Call(w, Op(w), Ver(w), "check", l)
  BY DEF CallIndex
<1> QED
  BY <1>1, <1>2, <1>3, CallMove

LEMMA CompleteStepInv ==
    ASSUME IndexIInv, NEW w \in Owners, Complete(w)
    PROVE  IndexStep
<1>1. ~At(w, "idle") /\ Op(w) \in Operations /\ Ver(w) \in Versions
  BY ProcFacts DEF Complete, At
<1>2. CASE CompleteIndexOperation(Op(w), Ver(w), w) /\ Finish(w)
  <2>1. StoreMove(Nobody)
    BY <1>1, <1>2, CompleteMove DEF IndexIInv
  <2> QED
    BY <1>2, <2>1, PointStays, FinishMove DEF Complete
<1>3. CASE ~MayConclude(Op(w), Ver(w), w) /\ UNCHANGED shareVars /\ Goto(w, Stale(w))
  <2>1. UNCHANGED <<shareVars, point>>
    BY <1>3 DEF Complete
  <2>2. CASE Op(w) = "UPSERT"
    <3>1. Goto(w, "reconcile") /\ Retires(w) /\ "reconcile" \in Labels \ {"idle"}
      BY <1>1, <1>3, <2>2, StaleRetires DEF Stale, Labels, ReconcilePcs
    <3> QED
      BY <1>1, <2>1, <3>1, ReadMove
  <2>3. CASE Op(w) # "UPSERT"
    <3>1. /\ Goto(w, "supersede")
          /\ "supersede" \in Labels \ {"idle"} /\ "supersede" \notin ReconcilePcs
      BY <1>3, <2>3 DEF Stale, Labels, ReconcilePcs
    <3> QED
      BY <1>1, <2>1, <3>1, ReadMove
  <2> QED
    BY <2>2, <2>3
<1> QED
  BY <1>2, <1>3 DEF Complete

LEMMA LastAttemptIsTerminal ==
    ASSUME NEW p
    PROVE  /\ LastAttempt(p) \in BOOLEAN
           /\ LastAttempt(p) <=> jobs[Op(p)][Ver(p)].attempts >= MaxAttempts
BY DEF LastAttempt

LEMMA RecordFailureStepInv ==
    ASSUME IndexIInv, NEW p \in Owners, RecordFailure(p) \/ SyncFailure(p)
    PROVE  IndexStep
<1>1. ~At(p, "idle") /\ Op(p) \in Operations /\ Ver(p) \in Versions
  BY ProcFacts DEF RecordFailure, SyncFailure, At
<1>2. CASE RecordIndexFailure(Op(p), Ver(p), p, LastAttempt(p)) /\ Finish(p)
  <2>1. StoreMove(Nobody)
    BY <1>1, <1>2, FailureMove, LastAttemptIsTerminal DEF IndexIInv
  <2> QED
    BY <1>2, <2>1, PointStays, FinishMove DEF RecordFailure, SyncFailure
<1>3. CASE UNCHANGED shareVars /\ Goto(p, "supersede")
  <2>1. "supersede" \in Labels \ {"idle"} /\ "supersede" \notin ReconcilePcs
    BY DEF Labels, ReconcilePcs
  <2> QED
    BY <1>1, <1>3, <2>1, ReadMove DEF RecordFailure, SyncFailure
<1>4. CASE UNCHANGED shareVars /\ Finish(p)
  <2>1. StoreMove(Nobody)
    BY <1>4, NoStoreMove DEF IndexIInv
  <2> QED
    BY <1>4, <2>1, PointStays, FinishMove DEF RecordFailure, SyncFailure
<1> QED
  BY <1>2, <1>3, <1>4 DEF RecordFailure, SyncFailure

LEMMA SupersedeStepInv ==
    ASSUME IndexIInv, NEW p \in Owners, Supersede(p)
    PROVE  IndexStep
<1>1. Op(p) \in Operations /\ Ver(p) \in Versions
  BY ProcFacts DEF Supersede, At
<1>2. StoreMove(Nobody)
  BY <1>1, SupersedeMove, NoStoreMove DEF Supersede, IndexIInv
<1> QED
  BY <1>2, PointStays, FinishMove DEF Supersede

LEMMA RecordStaleFailureInv ==
    ASSUME IndexIInv, NEW w \in Owners, RecordStaleFailure(w)
    PROVE  IndexStep
<1>1. Ver(w) \in Versions /\ Op(w) = "UPSERT" /\ Retires(w)
  BY ProcFacts DEF RecordStaleFailure, At, ReconcilePcs, Retires
<1>2. CASE RecordIndexJobFailure(Op(w), Ver(w), w, LastAttempt(w))
  <2>1. Overtaken(Ver(w))
    BY <1>1, <1>2 DEF RecordIndexJobFailure, Retires
  <2> DEFINE v == Ver(w)
             terminal == LastAttempt(w)
  <2>2. /\ v \in Versions /\ Overtaken(v) /\ terminal \in BOOLEAN
        /\ terminal <=> jobs["UPSERT"][v].attempts >= MaxAttempts
        /\ RecordIndexJobFailure("UPSERT", v, w, terminal)
    BY <1>1, <1>2, <2>1, LastAttemptIsTerminal
  <2> HIDE DEF v, terminal
  <2>3. StoreMove(Nobody)
    BY <2>2, StaleFailureMove DEF IndexIInv
  <2> QED
    BY <2>3, PointStays, FinishMove DEF RecordStaleFailure
<1>3. CASE UNCHANGED shareVars
  BY <1>3, NoStoreMove, PointStays, FinishMove DEF IndexIInv, RecordStaleFailure
<1> QED
  BY <1>2, <1>3 DEF RecordStaleFailure

----------------------------------------------------------------------------
(* The reconciliation of a late upsert.                                    *)

\* A reconciling thread notes the version that is current now.
LEMMA NoteMove ==
    ASSUME IndexIInv, NEW w \in Owners, proc[w].pc \in ReconcilePcs,
           UNCHANGED <<shareVars, point>>,
           NEW label \in ReconcilePcs, NEW pass \in 0..MaxPasses,
           NEW cur \in 0..share.ver, NEW restored \in SUBSET (1..share.ver),
           NEW new, new = [proc[w] EXCEPT !.pc = label, !.cur = cur, !.restored = restored,
                                          !.pass = pass],
           proc' = [proc EXCEPT ![w] = new]
    PROVE  IndexStep
<1>1. /\ proc[w] \in Procs /\ Fits(proc[w], share.ver) /\ Retires(w)
      /\ Ver(w) \in Nat /\ Ver(w) <= share.ver
  BY ProcFacts
<1>2. share.ver \in Nat /\ share.ver <= MaxVersion
  BY ShareFacts, VersionAssumption DEF IndexIInv
<1>3. /\ label \in Labels /\ label # "idle"
      /\ cur \in 0..MaxVersion /\ restored \subseteq Versions
  <2>1. label \in Labels /\ label # "idle"
    BY DEF Labels, ReconcilePcs
  <2>2. cur \in 0..MaxVersion /\ restored \subseteq Versions
    BY <1>2, VersionAssumption DEF Versions
  <2> QED
    BY <2>1, <2>2
<1>4. new \in Procs
  BY <1>1, <1>3 DEF Procs
<1>5. /\ new.pc = label /\ new.op = proc[w].op /\ new.ver = proc[w].ver
      /\ new.cur = cur /\ new.restored = restored
  BY <1>1 DEF Procs
<1>6. StoreMove(Nobody) /\ share' = share
  BY NoStoreMove DEF shareVars, IndexIInv
<1>7. Fits(new, share'.ver)
  <2>1. proc[w].ver <= share.ver /\ proc[w].ver > 0 /\ proc[w].op = "UPSERT"
    BY <1>1 DEF Fits, ReconcilePcs
  <2>2. cur <= share.ver /\ \A v \in restored : v <= share.ver
    BY <1>2
  <2> QED
    BY <1>5, <1>6, <2>1, <2>2 DEF Fits
<1>8. point' \in 0..share'.ver
  BY <1>6 DEF IndexIInv, Threads
<1> QED
  BY <1>1, <1>4, <1>5, <1>6, <1>7, <1>8, ThreadMove DEF Ver

LEMMA ReconcileInv ==
    ASSUME IndexIInv, NEW w \in Owners, Reconcile(w)
    PROVE  IndexStep
<1>1. /\ proc[w].pc \in ReconcilePcs /\ ~At(w, "idle") /\ Retires(w)
      /\ proc[w] \in Procs /\ Fits(proc[w], share.ver)
  BY ProcFacts DEF Reconcile, At, ReconcilePcs
<1>2. UNCHANGED <<shareVars, point>>
  BY DEF Reconcile, Reads
<1>3. ASSUME NEW l \in {"clean", "give up", "supersede"}, Goto(w, l)
      PROVE  IndexStep
  <2>1. l \in Labels \ {"idle"} /\ l # "embed"
    BY DEF Labels, ReconcilePcs
  <2> QED
    BY <1>1, <1>2, <1>3, <2>1, ReadMove
<1>4. CASE /\ proc[w].pass # MaxPasses
           /\ proc' = [proc EXCEPT ![w].pc = "restore", ![w].cur = share.ver, ![w].pass = @ + 1]
  <2> DEFINE new == [proc[w] EXCEPT !.pc = "restore", !.cur = share.ver,
                                    !.restored = proc[w].restored, !.pass = proc[w].pass + 1]
  <2>1. /\ proc[w].pass \in 0..MaxPasses /\ proc[w].pass + 1 \in 0..MaxPasses
    BY <1>1, <1>4 DEF Procs, MaxPasses
  <2>2. share.ver \in 0..share.ver
    BY ShareFacts DEF IndexIInv
  <2>3. proc[w].restored \in SUBSET (1..share.ver)
    BY <1>1, VersionAssumption DEF Procs, Fits, Versions
  <2>4. proc' = [proc EXCEPT ![w] = new]
    BY <1>1, <1>4 DEF IndexIInv, Threads, Procs
  <2>5. "restore" \in ReconcilePcs
    BY DEF ReconcilePcs
  <2> HIDE DEF new
  <2> QED
    BY <1>1, <1>2, <2>1, <2>2, <2>3, <2>4, <2>5, NoteMove DEF new
<1> QED
  BY <1>3, <1>4 DEF Reconcile, IfSafe

LEMMA RestoreEmbedInv ==
    ASSUME IndexIInv, NEW w \in Owners, RestoreEmbed(w)
    PROVE  IndexStep
<1>1. /\ proc[w].pc \in ReconcilePcs /\ ~At(w, "idle") /\ Retires(w)
      /\ proc[w] \in Procs /\ Fits(proc[w], share.ver)
  BY ProcFacts DEF RestoreEmbed, At, ReconcilePcs
<1>2. UNCHANGED <<shareVars, point>>
  BY DEF RestoreEmbed
<1>3. ASSUME NEW l \in {"reconcile", "requeue"}, Goto(w, l)
      PROVE  IndexStep
  <2>1. l \in Labels \ {"idle"} /\ l # "embed"
    BY DEF Labels, ReconcilePcs
  <2> QED
    BY <1>1, <1>2, <1>3, <2>1, ReadMove
<1>4. CASE /\ StillReady(w)
           /\ proc' = [proc EXCEPT ![w].pc = "overwrite", ![w].restored = @ \cup {proc[w].cur}]
  <2> DEFINE new == [proc[w] EXCEPT !.pc = "overwrite", !.cur = proc[w].cur,
                                    !.restored = proc[w].restored \cup {proc[w].cur},
                                    !.pass = proc[w].pass]
  <2>1. proc[w].pass \in 0..MaxPasses
    BY <1>1 DEF Procs
  <2>2. /\ proc[w].cur = share.ver /\ share.ver \in Nat /\ share.ver > 0
    BY <1>4, ShareFacts DEF IndexIInv, StillReady, Visible, Versions
  <2>3. proc[w].cur \in 0..share.ver
    BY <2>2
  <2>4. proc[w].restored \cup {proc[w].cur} \in SUBSET (1..share.ver)
    BY <1>1, <2>2, VersionAssumption DEF Procs, Fits, Versions
  <2>5. proc' = [proc EXCEPT ![w] = new]
    BY <1>1, <1>4 DEF IndexIInv, Threads, Procs
  <2>6. "overwrite" \in ReconcilePcs
    BY DEF ReconcilePcs
  <2> HIDE DEF new
  <2> QED
    BY <1>1, <1>2, <2>1, <2>3, <2>4, <2>5, <2>6, NoteMove DEF new
<1> QED
  BY <1>3, <1>4 DEF RestoreEmbed

LEMMA CleanedInv ==
    ASSUME IndexIInv, NEW w \in Owners, Cleaned(w)
    PROVE  IndexStep
<1>1. /\ proc[w].pc \in ReconcilePcs /\ ~At(w, "idle") /\ Retires(w)
      /\ proc[w] \in Procs /\ Fits(proc[w], share.ver)
  BY ProcFacts DEF Cleaned, At, ReconcilePcs
<1>2. UNCHANGED <<shareVars, point>>
  BY DEF Cleaned, Reads
<1>3. ASSUME NEW l \in {"supersede", "give up"}, Goto(w, l)
      PROVE  IndexStep
  <2>1. l \in Labels \ {"idle"} /\ l # "embed"
    BY DEF Labels, ReconcilePcs
  <2> QED
    BY <1>1, <1>2, <1>3, <2>1, ReadMove
<1>4. CASE proc' = [proc EXCEPT ![w].pc = "clean current", ![w].cur = share.ver]
  <2> DEFINE new == [proc[w] EXCEPT !.pc = "clean current", !.cur = share.ver,
                                    !.restored = proc[w].restored, !.pass = proc[w].pass]
  <2>1. proc[w].pass \in 0..MaxPasses
    BY <1>1 DEF Procs
  <2>2. share.ver \in 0..share.ver
    BY ShareFacts DEF IndexIInv
  <2>3. proc[w].restored \in SUBSET (1..share.ver)
    BY <1>1, VersionAssumption DEF Procs, Fits, Versions
  <2>4. proc' = [proc EXCEPT ![w] = new]
    BY <1>1, <1>4 DEF IndexIInv, Threads, Procs
  <2>5. "clean current" \in ReconcilePcs
    BY DEF ReconcilePcs
  <2> HIDE DEF new
  <2> QED
    BY <1>1, <1>2, <2>1, <2>2, <2>3, <2>4, <2>5, NoteMove DEF new
<1> QED
  BY <1>3, <1>4 DEF Cleaned

LEMMA ReconcileStepInv ==
    ASSUME IndexIInv, NEW w \in Owners, ReconcileStep(w)
    PROVE  IndexStep
<1>1. /\ "confirm" \in Labels \ {"idle"} /\ "requeue" \in Labels \ {"idle"}
      /\ "cleaned" \in Labels \ {"idle"} /\ "give up" \in Labels \ {"idle"}
      /\ "supersede" \in Labels \ {"idle"} /\ "clean" \in Labels \ {"idle"}
      /\ "requeued" \in Labels \ {"idle"} /\ "reconcile" \in Labels \ {"idle"}
  BY DEF Labels, ReconcilePcs
<1>2. CASE RestoreUpsert(w) \/ Cleanup(w) \/ CleanupCurrent(w)
  <2>1. /\ proc[w].pc \in ReconcilePcs /\ ~At(w, "idle")
        /\ Ver(w) \in Nat /\ Ver(w) <= share.ver
        /\ proc[w].cur \in Nat /\ proc[w].cur <= share.ver
    BY <1>2, ProcFacts DEF RestoreUpsert, Cleanup, CleanupCurrent, At, ReconcilePcs
  <2> QED
    BY <1>1, <1>2, <2>1, CallMove DEF RestoreUpsert, Cleanup, CleanupCurrent
<1>3. CASE RestoreConfirm(w) \/ Requeued(w)
  <2>1. /\ Retires(w) /\ ~At(w, "idle") /\ UNCHANGED <<shareVars, point>>
    BY <1>3, ProcFacts DEF RestoreConfirm, Requeued, At, ReconcilePcs, Reads
  <2>2. \E l \in {"supersede", "requeue", "clean", "give up"} : Goto(w, l)
    BY <1>3 DEF RestoreConfirm, Requeued, IfSafe
  <2> QED
    BY <1>1, <2>1, <2>2, ReadMove
<1>4. CASE Requeue(w)
  <2>1. /\ Retires(w) /\ ~At(w, "idle") /\ point' = point
    BY <1>4, ProcFacts DEF Requeue, At, ReconcilePcs
  <2>2. StoreMove(Nobody)
    BY <1>4, RequeueMove, NoStoreMove DEF Requeue, IndexIInv
  <2>3. \E l \in {"requeued", "reconcile"} : Goto(w, l)
    BY <1>4 DEF Requeue
  <2> QED
    BY <1>1, <2>1, <2>2, <2>3, PointStays, GotoMove
<1> QED
  BY <1>2, <1>3, <1>4, ReconcileInv, RestoreEmbedInv, CleanedInv DEF ReconcileStep

----------------------------------------------------------------------------
(* Requests, faults and the composition.                                   *)

LEMMA WorkerStepInv ==
    ASSUME IndexIInv, NEW w \in Owners, WorkerStep(w)
    PROVE  IndexStep
BY WorkerClaimInv, WorkerTerminalizeInv, TargetReadInv, CallIndexInv, CompleteStepInv,
   RecordFailureStepInv, SupersedeStepInv, RecordStaleFailureInv, ReconcileStepInv
DEF WorkerStep

LEMMA SyncClaimInv ==
    ASSUME IndexIInv, NEW r \in Owners, SyncClaim(r)
    PROVE  IndexStep
<1>1. ~At(r, "idle") /\ Op(r) \in Operations /\ Ver(r) \in Versions
  BY ProcFacts DEF SyncClaim, At
<1>2. CASE ClaimIndexJob(Op(r), Ver(r), r) /\ Goto(r, "write")
  <2>1. StoreMove(r)
    BY <1>1, <1>2, ClaimMove DEF IndexIInv
  <2>2. "write" \in Labels \ {"idle"} /\ "write" \notin ReconcilePcs
    BY DEF Labels, ReconcilePcs
  <2> QED
    BY <1>1, <1>2, <2>1, <2>2, PointStays, GotoMove DEF SyncClaim
<1>3. CASE Finish(r) /\ (SupersedeIndexJob("DELETE", Ver(r), Nobody) \/ UNCHANGED shareVars)
  <2>1. StoreMove(Nobody)
    BY <1>1, <1>3, SupersedeMove, NoStoreMove DEF IndexIInv, Operations
  <2> QED
    BY <1>3, <2>1, PointStays, FinishMove DEF SyncClaim
<1> QED
  BY <1>2, <1>3 DEF SyncClaim

LEMMA RequestStepInv ==
    ASSUME IndexIInv, NEW r \in Owners, RequestStep(r)
    PROVE  IndexStep
<1>1. /\ "conclude" \in Labels \ {"idle"} /\ "failed" \in Labels \ {"idle"}
      /\ "supersede" \in Labels \ {"idle"} /\ "undo" \in Labels \ {"idle"}
      /\ {"conclude", "failed", "supersede", "undo"} \cap ReconcilePcs = {}
  BY DEF Labels, ReconcilePcs
<1>2. Ver(r) \in Nat /\ Ver(r) <= share.ver
  BY ProcFacts
<1>3. CASE SyncWrite(r) \/ SyncUndo(r)
  BY <1>1, <1>2, <1>3, CallMove DEF SyncWrite, SyncUndo, At
<1>4. CASE SyncComplete(r)
  <2>1. ~At(r, "idle") /\ Op(r) \in Operations /\ Ver(r) \in Versions
    BY <1>4, ProcFacts DEF SyncComplete, At
  <2>2. CASE CompleteIndexOperation(Op(r), Ver(r), r) /\ Finish(r)
    <3>1. StoreMove(Nobody)
      BY <2>1, <2>2, CompleteMove DEF IndexIInv
    <3> QED
      BY <1>4, <2>2, <3>1, PointStays, FinishMove DEF SyncComplete
  <2>3. CASE UNCHANGED shareVars /\ \E l \in {"undo", "supersede"} : Goto(r, l)
    BY <1>1, <1>4, <2>1, <2>3, ReadMove DEF SyncComplete
  <2> QED
    BY <1>4, <2>2, <2>3 DEF SyncComplete
<1> QED
  BY <1>3, <1>4, SyncClaimInv, RecordFailureStepInv, SupersedeStepInv DEF RequestStep

LEMMA AuthorStepInv ==
    ASSUME IndexIInv, NEW r \in Owners, AuthorStep(r)
    PROVE  IndexStep
<1>1. share.ver \in Nat /\ share.ver \in 0..MaxVersion
  BY ShareFacts DEF IndexIInv
<1> "UPSERT" \in Operations /\ "DELETE" \in Operations
  BY DEF Operations
<1>2. CASE Publish(r)
  <2>1. StoreMove(Nobody) /\ share'.ver = share.ver + 1
    BY <1>2, StageUpsertMove DEF Publish, IndexIInv
  <2>2. share.ver + 1 \in Versions
    BY <1>1, <1>2, VersionAssumption
    DEF Publish, CreatePublishIntent, StageUpdate, StageUpsert, Versions
  <2>3. share.ver + 1 <= share'.ver
    BY <1>1, <2>1
  <2> QED
    BY <1>2, <2>1, <2>2, <2>3, PointStays, StartMove DEF Publish
<1>3. CASE PublishAgain(r)
  <2>1. StoreMove(Nobody) /\ share' = share /\ point' = point
    BY <1>3, NoStoreMove DEF PublishAgain, Reads, IndexIInv, shareVars
  <2>2. share.ver \in Versions
    BY <1>3, ShareFacts DEF PublishAgain, IndexIInv
  <2>3. share.ver <= share'.ver
    BY <1>1, <2>1
  <2> QED
    BY <1>3, <2>1, <2>2, <2>3, PointStays, StartMove DEF PublishAgain
<1>4. CASE Unpublish(r)
  <2>1. StoreMove(Nobody) /\ share'.ver = share.ver
    BY <1>4, StageUnpublishMove DEF Unpublish, IndexIInv
  <2>2. share.ver \in Versions
    BY <1>4, ShareFacts DEF Unpublish, StageUnpublish, IndexIInv
  <2>3. share.ver <= share'.ver
    BY <1>1, <2>1
  <2> QED
    BY <1>4, <2>1, <2>2, <2>3, PointStays, StartMove DEF Unpublish
<1> QED
  BY <1>2, <1>3, <1>4 DEF AuthorStep

LEMMA StoreErrorInv ==
    ASSUME IndexIInv, NEW w \in Owners, StoreError(w)
    PROVE  IndexStep
<1>1. /\ "fail" \in Labels \ {"idle"} /\ "reconcile" \in Labels \ {"idle"}
      /\ "give up" \in Labels \ {"idle"} /\ "fail" \notin ReconcilePcs
  BY DEF Labels, ReconcilePcs
<1>2. ~At(w, "idle") /\ point' = point
  BY DEF StoreError, At
<1>3. Op(w) \in Operations /\ Ver(w) \in Versions
  BY <1>2, ProcFacts
<1>4. CASE Goto(w, "fail") /\ UNCHANGED shareVars
  BY <1>1, <1>2, <1>4, ReadMove
<1>5. CASE Goto(w, "fail") /\ CompleteIndexOperation(Op(w), Ver(w), w)
  <2>1. StoreMove(Nobody)
    BY <1>3, <1>5, CompleteMove DEF IndexIInv
  <2> QED
    BY <1>1, <1>2, <1>5, <2>1, PointStays, GotoMove
<1>6. CASE At(w, "requeue") /\ Goto(w, "reconcile") /\ RequeueCurrentUpsert(proc[w].cur)
  <2>1. Retires(w)
    BY <1>6, ProcFacts DEF At, ReconcilePcs
  <2>2. StoreMove(Nobody)
    BY <1>6, RequeueMove DEF IndexIInv
  <2> QED
    BY <1>1, <1>2, <1>6, <2>1, <2>2, PointStays, GotoMove
<1>7. CASE /\ proc[w].pc \in {"requeue", "reconcile", "restore", "confirm", "requeued", "cleaned"}
           /\ UNCHANGED shareVars
           /\ \E l \in {"reconcile", "give up"} : Goto(w, l)
  <2>1. Retires(w)
    BY <1>7, ProcFacts DEF ReconcilePcs
  <2> QED
    BY <1>1, <1>2, <1>7, <2>1, ReadMove
<1> QED
  BY <1>4, <1>5, <1>6, <1>7 DEF StoreError, At

LEMMA EnvironmentInv ==
    ASSUME IndexIInv
    PROVE  /\ \A p \in Owners : Crash(p) => IndexStep
           /\ \A op \in Operations, v \in Versions :
                 AbandonedLeaseExpires(op, v) \/ Stall(op, v) => IndexStep
           /\ \A u \in Likers : ReaderStep(u) => IndexStep
           /\ UNCHANGED vars => IndexStep
<1>1. ASSUME NEW p \in Owners, Crash(p) PROVE IndexStep
  BY <1>1, NoStoreMove, PointStays, FinishMove DEF Crash, IndexIInv
<1>2. ASSUME NEW op \in Operations, NEW v \in Versions,
             AbandonedLeaseExpires(op, v) \/ Stall(op, v)
      PROVE  IndexStep
  BY <1>2, LeaseExpiresMove, PointStays, NoThreadMove
  DEF AbandonedLeaseExpires, Stall, IndexIInv
<1>3. ASSUME NEW u \in Likers, ReaderStep(u) PROVE IndexStep
  BY <1>3, LikeMove, PointStays, NoThreadMove DEF ReaderStep, IndexIInv
<1>4. ASSUME UNCHANGED vars PROVE IndexStep
  <2>1. UNCHANGED shareVars /\ proc' = proc /\ point' = point
    BY <1>4 DEF vars, shareVars
  <2> QED
    BY <2>1, NoStoreMove, PointStays, NoThreadMove DEF IndexIInv
<1> QED
  BY <1>1, <1>2, <1>3, <1>4

LEMMA WorkerNextInv ==
    ASSUME IndexIInv, [WorkerNext]_vars
    PROVE  IndexStep
<1>1. Workers \subseteq Owners /\ Requests \subseteq Owners
  BY ProcsAssumption
<1> QED
  BY <1>1, WorkerStepInv, RequestStepInv, AuthorStepInv, StoreErrorInv, EnvironmentInv
  DEF WorkerNext

LEMMA IndexInitInv ==
    ASSUME Init, proc = [p \in Owners |-> Rest], point = 0
    PROVE  IndexIInv
<1>1. StoreInv
  BY InitInv
<1>2. share.ver = 0 /\ share.idx = "NONE"
  BY DEF Init
<1>3. WaitingHasOpenJob
  <2>1. \A op \in Operations, v \in Versions : jobs[op][v].status = "NONE"
    BY NoJobCoherent DEF Init
  <2> QED
    BY <1>2, <2>1 DEF WaitingHasOpenJob
<1>4. Rest \in Procs
  BY VersionAssumption DEF Rest, Procs, Labels, Operations, MaxPasses
<1>5. \A p \in Owners : proc[p] = Rest
  OBVIOUS
<1>6. Fits(Rest, 0) /\ Rest.pc \notin ReconcilePcs
  BY DEF Fits, Rest, ReconcilePcs
<1>7. Threads
  BY <1>2, <1>4, <1>5, <1>6 DEF Threads, RetiredIsOvertaken
<1> QED
  BY <1>1, <1>3, <1>7 DEF IndexIInv

LEMMA IndexInvHolds == IndexIInv => IndexInv /\ WorkHasJob
<1> SUFFICES ASSUME IndexIInv PROVE IndexInv /\ WorkHasJob
  OBVIOUS
<1>1. /\ StatusesAgree /\ LikesCounted /\ WaitingHasOpenJob /\ WorkHasJob /\ TypeOK
      /\ point \in 0..share.ver
  BY DEF IndexIInv, StoreInv, Threads
<1>2. ASSUME NEW p \in Owners
      PROVE  /\ proc[p].ver \in 0..share.ver /\ proc[p].op \in Operations
             /\ proc[p].cur \in 0..share.ver /\ proc[p].restored \subseteq 1..share.ver
             /\ proc[p].pass \in 0..MaxPasses
  <2>1. proc[p] \in Procs /\ Fits(proc[p], share.ver) /\ share.ver \in Nat
    BY ProcFacts, ShareFacts DEF IndexIInv
  <2>2. proc[p].op \in Operations /\ proc[p].pass \in 0..MaxPasses
    BY <2>1 DEF Procs
  <2>3. proc[p].ver \in 0..share.ver /\ proc[p].cur \in 0..share.ver
    BY <2>1, VersionAssumption DEF Procs, Fits
  <2>4. proc[p].restored \subseteq 1..share.ver
    BY <2>1, VersionAssumption DEF Procs, Fits, Versions
  <2> QED
    BY <2>2, <2>3, <2>4
<1>3. WorkerTypeOK
  BY <1>1, <1>2 DEF WorkerTypeOK
<1> QED
  BY <1>1, <1>3 DEF IndexInv

\* Index workers and request threads, with every fault the model knows, keep
\* IndexInv: the job a waiting share depends on can always be taken again.
THEOREM IndexInvariant == WorkerSpec => []IndexInv
<1>1. WorkerInit => IndexIInv
  BY IndexInitInv DEF WorkerInit
<1>2. IndexIInv /\ [WorkerNext]_vars => IndexIInv'
  BY WorkerNextInv DEF IndexStep
<1>3. IndexIInv => IndexInv
  BY IndexInvHolds
<1> QED
  BY <1>1, <1>2, <1>3, PTL DEF WorkerSpec

\* The threads use the tables as SharedGuideStore lets any caller use them, so
\* what is proved of the tables holds in the running system.
THEOREM WorkersImplementStore == WorkerSpec => Spec
<1>1. WorkerInit => IndexIInv /\ Init
  BY IndexInitInv DEF WorkerInit
<1>2. IndexIInv /\ [WorkerNext]_vars => IndexIInv' /\ [Next]_shareVars
  BY WorkerNextInv DEF IndexStep
<1> QED
  BY <1>1, <1>2, PTL DEF WorkerSpec, Spec

----------------------------------------------------------------------------
(* The operator's commands beside the threads.                             *)

\* The fields of the command after a step.
LEMMA CommandMove ==
    ASSUME MaintIInv, IndexStep, NEW new \in Tools, tool' = new,
           new.rec <= share.ver, new.cur <= share.ver
    PROVE  MaintIInv' /\ [Next]_shareVars
<1>1. share.ver \in Nat /\ share'.ver \in Nat /\ share.ver <= share'.ver
  BY VersionsGrow DEF IndexStep, MaintIInv, IndexIInv
<1>2. new.rec \in Nat /\ new.cur \in Nat
  BY VersionAssumption DEF Tools
<1> QED
  BY <1>1, <1>2 DEF MaintIInv, Command, IndexStep

LEMMA CommandGoes ==
    ASSUME MaintIInv, IndexStep, NEW label \in ToolLabels, NEW failed \in BOOLEAN,
           tool' = [tool EXCEPT !.pc = label, !.failed = failed]
    PROVE  MaintIInv' /\ [Next]_shareVars
<1> DEFINE new == [tool EXCEPT !.pc = label, !.failed = failed]
<1>1. tool \in Tools /\ tool.rec <= share.ver /\ tool.cur <= share.ver
  BY DEF MaintIInv, Command
<1>2. new \in Tools
  BY <1>1, Zenon DEF Tools
<1>3. new.rec = tool.rec /\ new.cur = tool.cur
  BY <1>1 DEF Tools
<1> HIDE DEF new
<1> QED
  BY <1>1, <1>2, <1>3, CommandMove DEF new

\* A step of the command that touches nothing but, perhaps, the point.
LEMMA CommandLeaves ==
    ASSUME MaintIInv, UNCHANGED <<shareVars, proc>>, point' \in {point, 0} \/ point' \in 0..share.ver
    PROVE  IndexStep
<1>1. StoreMove(Nobody) /\ share' = share
  BY NoStoreMove DEF MaintIInv, IndexIInv, shareVars
<1>2. point \in 0..share.ver /\ share.ver \in Nat
  BY ShareFacts DEF MaintIInv, IndexIInv, Threads
<1>3. point' \in 0..share'.ver
  BY <1>1, <1>2
<1> QED
  BY <1>1, <1>3, NoThreadMove DEF MaintIInv

LEMMA ToolTypes ==
    ASSUME MaintIInv
    PROVE  /\ tool \in Tools /\ tool.rec \in 0..share.ver /\ tool.cur \in 0..share.ver
           /\ point \in 0..share.ver /\ tool.failed \in BOOLEAN
<1>1. tool \in Tools /\ tool.rec <= share.ver /\ tool.cur <= share.ver
  BY DEF MaintIInv, Command
<1>2. tool.rec \in Nat /\ tool.cur \in Nat /\ share.ver \in Nat
  BY <1>1, ShareFacts, VersionAssumption DEF Tools, MaintIInv, IndexIInv
<1>3. tool.failed \in BOOLEAN
  BY <1>1, Zenon DEF Tools
<1> QED
  BY <1>1, <1>2, <1>3 DEF MaintIInv, IndexIInv, Threads

\* A step that only moves the command to another place, failed or not.
LEMMA CommandSteps ==
    ASSUME MaintIInv, IndexStep, NEW label \in ToolLabels,
           \/ ToolGoto(label) \/ ToolFails
           \/ tool' = [tool EXCEPT !.pc = label, !.failed = TRUE]
    PROVE  MaintIInv' /\ [Next]_shareVars
<1>1. CASE ToolGoto(label)
  <2>1. tool \in Tools /\ tool.failed \in BOOLEAN
    BY ToolTypes
  <2>2. tool' = [tool EXCEPT !.pc = label, !.failed = tool.failed]
    BY <1>1, <2>1 DEF ToolGoto, Tools
  <2> QED
    BY <2>1, <2>2, CommandGoes
<1>2. CASE ToolFails
  <2>1. "done" \in ToolLabels /\ TRUE \in BOOLEAN
    BY DEF ToolLabels
  <2> QED
    BY <1>2, <2>1, CommandGoes DEF ToolFails
<1>3. CASE tool' = [tool EXCEPT !.pc = label, !.failed = TRUE]
  BY <1>3, CommandGoes
<1> QED
  BY <1>1, <1>2, <1>3

LEMMA ToolReadStep ==
    ASSUME MaintIInv, ToolReads
    PROVE  IndexStep
BY CommandLeaves DEF ToolReads

LEMMA ListActiveInv ==
    ASSUME MaintIInv, ListActive
    PROVE  MaintIInv' /\ [Next]_shareVars
<1> DEFINE rec == IF Visible THEN share.ver ELSE 0
           label == IF tool.mode = "reconcile" THEN "scroll"
                    ELSE IF Visible THEN "read" ELSE "done"
           new == [tool EXCEPT !.rec = rec, !.pc = label]
<1>1. rec \in 0..MaxVersion /\ rec <= share.ver
  BY ShareFacts, VersionAssumption DEF MaintIInv, IndexIInv
<1>2. label \in ToolLabels
  BY DEF ToolLabels
<1>3. tool' = new
  BY DEF ListActive
<1> HIDE DEF rec, label
<1>4. tool \in Tools /\ tool.cur <= share.ver
  BY DEF MaintIInv, Command
<1>5. new \in Tools
  BY <1>1, <1>2, <1>4, Zenon DEF Tools
<1>6. new.rec = rec /\ new.cur = tool.cur
  BY <1>4 DEF Tools
<1> HIDE DEF new
<1> QED
  BY <1>1, <1>3, <1>4, <1>5, <1>6, ToolReadStep, CommandMove DEF ListActive

LEMMA ReadPointsInv ==
    ASSUME MaintIInv, ReadPoints
    PROVE  MaintIInv' /\ [Next]_shareVars
<1> DEFINE label == IF tool.rec # 0 /\ point # tool.rec THEN "read"
                    ELSE IF tool.rec = 0 /\ point # 0 THEN "extra" ELSE "done"
           new == [tool EXCEPT !.seen = point, !.pc = label]
<1>1. tool \in Tools /\ tool.rec <= share.ver /\ tool.cur <= share.ver
  BY DEF MaintIInv, Command
<1>2. point \in 0..MaxVersion
  BY ToolTypes, ShareFacts, VersionAssumption DEF MaintIInv, IndexIInv
<1>3. label \in ToolLabels
  BY DEF ToolLabels
<1>4. tool' = new
  BY DEF ReadPoints
<1> HIDE DEF label
<1>5. new \in Tools
  BY <1>1, <1>2, <1>3, Zenon DEF Tools
<1>6. new.rec = tool.rec /\ new.cur = tool.cur
  BY <1>1 DEF Tools
<1> HIDE DEF new
<1> QED
  BY <1>1, <1>4, <1>5, <1>6, ToolReadStep, CommandMove DEF ReadPoints

LEMMA ToolReadsCurrentInv ==
    ASSUME MaintIInv, ToolReadsCurrent
    PROVE  MaintIInv' /\ [Next]_shareVars
<1> DEFINE new == [tool EXCEPT !.pc = "requeue", !.cur = share.ver, !.failed = TRUE]
<1>1. tool \in Tools /\ tool.rec <= share.ver
  BY DEF MaintIInv, Command
<1>2. share.ver \in 0..MaxVersion /\ share.ver <= share.ver
  BY ShareFacts DEF MaintIInv, IndexIInv
<1>3. "requeue" \in ToolLabels /\ "done" \in ToolLabels
  BY DEF ToolLabels
<1>4. new \in Tools
  BY <1>1, <1>2, <1>3, Zenon DEF Tools
<1>5. new.rec = tool.rec /\ new.cur = share.ver
  BY <1>1 DEF Tools
<1>6. tool' = new \/ ToolGoto("done")
  BY DEF ToolReadsCurrent
<1>7. IndexStep
  BY ToolReadStep DEF ToolReadsCurrent
<1> HIDE DEF new
<1> QED
  BY <1>1, <1>2, <1>3, <1>4, <1>5, <1>6, <1>7, CommandMove, CommandSteps

LEMMA ToolStepInv ==
    ASSUME MaintIInv, ToolStep
    PROVE  MaintIInv' /\ [Next]_shareVars
<1>1. ToolLabels = {"start", "scroll", "read", "reread", "embed", "upsert", "confirm", "cleanup",
                    "current", "requeue", "extra", "guard", "erase", "erased", "done"}
  BY DEF ToolLabels
<1>2. CASE /\ ToolReads
           /\ \E label \in {"done", "embed", "upsert", "reread", "cleanup", "guard", "erase", "current"} :
                 ToolGoto(label) \/ ToolFails
  BY <1>1, <1>2, ToolReadStep, CommandSteps
<1>3. CASE ToolUpserts
  <2>1. point' = point \/ point' \in 0..share.ver
    BY <1>3, ToolTypes DEF ToolUpserts, Upsert
  <2>2. IndexStep
    BY <1>3, <2>1, CommandLeaves DEF ToolUpserts
  <2> QED
    BY <1>1, <1>3, <2>2, CommandSteps DEF ToolUpserts
<1>4. CASE ToolCleansUp
  <2>1. point' \in {point, 0}
    BY <1>4 DEF ToolCleansUp, Delete
  <2>2. IndexStep
    BY <1>4, <2>1, CommandLeaves DEF ToolCleansUp
  <2> QED
    BY <1>1, <1>4, <2>2, CommandSteps DEF ToolCleansUp
<1>5. CASE EraseExtra
  <2>1. point' \in {point, 0}
    BY <1>5 DEF EraseExtra, Delete
  <2>2. IndexStep
    BY <1>5, <2>1, CommandLeaves DEF EraseExtra
  <2> QED
    BY <1>1, <1>5, <2>2, CommandSteps DEF EraseExtra
<1>6. CASE ToolRequeues
  <2>1. StoreMove(Nobody)
    BY <1>6, RequeueMove, NoStoreMove DEF ToolRequeues, MaintIInv, IndexIInv
  <2>2. IndexStep
    BY <1>6, <2>1, PointStays, NoThreadMove DEF ToolRequeues, MaintIInv
  <2> QED
    BY <1>1, <1>6, <2>2, CommandSteps DEF ToolRequeues
<1> QED
  BY <1>2, <1>3, <1>4, <1>5, <1>6, ListActiveInv, ReadPointsInv, ToolReadsCurrentInv
  DEF ToolStep, ReadAuthoritative, ToolEmbeds, ToolConfirms, ExtraUnchanged, GuardExtra,
      ConfirmErased

LEMMA MaintNextInv ==
    ASSUME MaintIInv, [MaintNext]_maintVars
    PROVE  MaintIInv' /\ [Next]_shareVars
<1>1. CASE WorkerNext /\ Watched
  <2> DEFINE touched == tool.touched \/ (tool.rec # 0 /\ ~Visible')
             new == [tool EXCEPT !.touched = touched]
  <2>1. tool \in Tools /\ tool.rec <= share.ver /\ tool.cur <= share.ver
    BY DEF MaintIInv, Command
  <2>2. touched \in BOOLEAN
    BY <2>1 DEF Tools
  <2>3. tool' = new
    BY <1>1 DEF Watched
  <2> HIDE DEF touched
  <2>4. new \in Tools
    BY <2>1, <2>2, Zenon DEF Tools
  <2>5. new.rec = tool.rec /\ new.cur = tool.cur
    BY <2>1 DEF Tools
  <2>6. IndexStep
    BY <1>1, WorkerNextInv DEF MaintIInv
  <2> HIDE DEF new
  <2> QED
    BY <2>1, <2>3, <2>4, <2>5, <2>6, CommandMove
<1>2. CASE ToolStep
  BY <1>2, ToolStepInv
<1>3. CASE Drift \/ UNCHANGED maintVars
  <2>1. IndexStep /\ tool' = tool
    BY <1>3, CommandLeaves DEF Drift, maintVars, shareVars
  <2> QED
    BY <2>1, CommandMove DEF MaintIInv, Command
<1> QED
  BY <1>1, <1>2, <1>3 DEF MaintNext

LEMMA MaintInitInv == MaintInit => MaintIInv /\ Init
<1> SUFFICES ASSUME MaintInit PROVE MaintIInv /\ Init
  OBVIOUS
<1>1. IndexIInv /\ Init
  BY IndexInitInv DEF MaintInit
<1>2. PICK mode \in Modes : tool = NewTool(mode)
  BY DEF MaintInit
<1>3. NewTool(mode) \in Tools
  BY VersionAssumption DEF NewTool, Tools, ToolLabels
<1>4. tool.rec = 0 /\ tool.cur = 0 /\ share.ver = 0
  BY <1>1, <1>2 DEF NewTool, Init
<1> QED
  BY <1>1, <1>2, <1>3, <1>4 DEF MaintIInv, Command

\* The operator's commands, run beside workers and authors without a lock, break
\* nothing of IndexInv either.
THEOREM MaintenanceInvariant == MaintSpec => []IndexInv
<1>1. MaintInit => MaintIInv
  BY MaintInitInv
<1>2. MaintIInv /\ [MaintNext]_maintVars => MaintIInv'
  BY MaintNextInv
<1>3. MaintIInv => IndexInv
  BY IndexInvHolds DEF MaintIInv
<1> QED
  BY <1>1, <1>2, <1>3, PTL DEF MaintSpec

\* Threads and commands together use the tables as SharedGuideStore allows.
THEOREM MaintenanceImplementsStore == MaintSpec => Spec
<1>1. MaintInit => MaintIInv /\ Init
  BY MaintInitInv
<1>2. MaintIInv /\ [MaintNext]_maintVars => MaintIInv' /\ [Next]_shareVars
  BY MaintNextInv
<1> QED
  BY <1>1, <1>2, PTL DEF MaintSpec, Spec

\* So no worker, request thread, fault or command undoes what the author of a
\* share asked for,
THEOREM AuthorDecidesInOperation == MaintSpec => AuthorDecides
BY MaintenanceImplementsStore, AuthorAlwaysDecides, PTL

\* and none of them loses the job of work that a share waits for.
THEOREM WorkIsKeptInOperation == MaintSpec => []WorkHasJob
BY MaintenanceImplementsStore, WorkIsNeverLost, PTL

----------------------------------------------------------------------------
(* A public share is in the index: the invariant behind IndexedWithoutTool  *)
(* and CleanReportIsTrue.                                                   *)

UsedRecords == [faults : Nat, crashes : Nat, stalls : Nat, overtaken : BOOLEAN]

\* So far no lease has run out under its owner, and no update was staged over a
\* leased upsert.  (Beside a command no lease runs out under its owner.)
Undisturbed == ~used.overtaken /\ (tool.mode = "off" => used.stalls = 0)

\* Late threads clean up after an upsert that turned out to be unwanted.
LatePcs == ReconcilePcs \cup {"undo"}

\* A thread at work holds the lease of its job.
AtWork(p) == proc[p].pc \notin {"idle", "claim", "fail", "supersede"}
Holds(p) == AtWork(p) => LeaseMatches(Op(p), Ver(p), p)
HoldLeases == \A p \in Owners : Holds(p)

\* Only the upsert of the current version is open.
UpsertIsCurrent ==
    \A v \in Versions : jobs["UPSERT"][v].status \in {"PENDING", "RUNNING"} => v = share.ver

\* Clean-up is at work for unpublished shares only.
LateOK(p) == proc[p].pc \in LatePcs => Op(p) = "UPSERT" /\ share.pub = "UNPUBLISHED"
LateIsUnpublished == \A p \in Owners : LateOK(p)

\* The command has listed the share, which has been public ever since.
Watching == tool.rec # 0 /\ ~tool.touched

\* Where the command gives a share up, or has not listed it.
AfterWatching == {"cleanup", "current", "requeue", "extra", "guard", "erase", "erased"}

\* The command has found the index as it may be after Drift, and will repair it.
Unrepaired ==
    /\ tool.mode # "off"
    /\ \/ tool.pc = "start"
       \/ tool.pc \in {"scroll", "read", "embed", "reread", "upsert"} /\ Watching

\* The command has written a version that was stale by then, and is to report it.
StaleWrite ==
    /\ tool.mode # "off"
    /\ tool.failed \/ tool.pc = "cleanup" \/ (tool.pc = "confirm" /\ ~Watching)

\* An upsert that is done, and the publication that rests on it.
WrittenOK(p) ==
    (/\ proc[p].pc \in {"check", "complete", "conclude"} /\ Op(p) = "UPSERT"
     /\ share.pub # "UNPUBLISHED" /\ ~StaleWrite) => point = share.ver
Written == \A p \in Owners : WrittenOK(p)

Indexed == Visible /\ ~StaleWrite /\ ~Unrepaired => point = share.ver

\* What the command knows: a share it watches is still the one it listed, and an
\* extra point it is about to erase is not the one of a published version.
Knowledge ==
    /\ used \in UsedRecords
    /\ tool.mode # "off" => used.stalls = MaxStalls
    /\ tool.pc = "start" => tool.rec = 0
    /\ tool.rec = 0 => ~tool.touched
    /\ Watching => Visible /\ share.ver = tool.rec
    /\ tool.pc \in AfterWatching => ~Watching
    /\ tool.seen <= share.ver
    /\ tool.pc = "erase" /\ tool.seen = share.ver => share.pub \in {"NONE", "UNPUBLISHED"}

Kept == HoldLeases /\ UpsertIsCurrent /\ LateIsUnpublished /\ Written /\ Indexed

FoundIInv == MaintIInv /\ Knowledge /\ (Undisturbed => Kept)

----------------------------------------------------------------------------
(* What the tables may do to the threads at work.                          *)

WorksOn(q, op, v) == AtWork(q) /\ Op(q) = op /\ Ver(q) = v

\* Threads other than o keep the lease they work under.
LeasesStay(o) ==
    \A op \in Operations, v \in Versions, q \in Owners \ {o} :
        LeaseMatches(op, v, q) /\ WorksOn(q, op, v) => LeaseMatches(op, v, q)'

SameSide == share'.pub = "UNPUBLISHED" <=> share.pub = "UNPUBLISHED"

\* A transaction of thread o, or of nobody, that stages nothing.
QuietMove(o) ==
    /\ share'.ver = share.ver /\ SameSide
    /\ UpsertIsCurrent => UpsertIsCurrent'
    /\ LeasesStay(o)

\* The point of a share that is not unpublished is not lost.
PointKept == share.pub # "UNPUBLISHED" /\ point = share.ver => point' = share.ver

\* The step does not excuse the command.
ToolKept == (StaleWrite => StaleWrite') /\ (Visible' /\ Unrepaired => Unrepaired')

LEMMA QuietWrite ==
    ASSUME StoreInv, NEW op \in Operations, NEW v \in Versions, NEW o,
           NEW j, Coherent(j), SetJob(op, v, j), share'.ver = share.ver, SameSide,
           op = "UPSERT" /\ j.status \in {"PENDING", "RUNNING"} =>
              jobs[op][v].status \in {"PENDING", "RUNNING"} \/ v = share.ver,
           \A q \in Owners \ {o} : ~(LeaseMatches(op, v, q) /\ WorksOn(q, op, v))
    PROVE  QuietMove(o)
<1>1. /\ jobs'[op][v] = j
      /\ \A p \in Operations, n \in Versions : p # op \/ n # v => jobs'[p][n] = jobs[p][n]
  BY SetJobEffect DEF StoreInv, TypeOK
<1>2. LeasesStay(o)
  <2> SUFFICES ASSUME NEW p \in Operations, NEW n \in Versions, NEW q \in Owners \ {o},
                      LeaseMatches(p, n, q), WorksOn(q, p, n)
               PROVE  LeaseMatches(p, n, q)'
    BY DEF LeasesStay
  <2>1. p # op \/ n # v
    OBVIOUS
  <2> QED
    BY <1>1, <2>1 DEF LeaseMatches
<1>3. ASSUME UpsertIsCurrent, NEW n \in Versions,
             jobs'["UPSERT"][n].status \in {"PENDING", "RUNNING"}
      PROVE  n = share'.ver
  <2>1. CASE op = "UPSERT" /\ n = v
    BY <1>1, <1>3, <2>1 DEF UpsertIsCurrent
  <2>2. CASE op # "UPSERT" \/ n # v
    BY <1>1, <1>3, <2>2 DEF UpsertIsCurrent, Operations
  <2> QED
    BY <2>1, <2>2
<1> QED
  BY <1>2, <1>3 DEF QuietMove, UpsertIsCurrent

LEMMA NoMoveQuiet ==
    ASSUME UNCHANGED shareVars, NEW o
    PROVE  QuietMove(o) /\ (Visible' <=> Visible)
BY DEF shareVars, QuietMove, SameSide, UpsertIsCurrent, LeasesStay, LeaseMatches, Visible

LEMMA ClaimQuiet ==
    ASSUME StoreInv, NEW op \in Operations, NEW v \in Versions, NEW o \in Owners,
           ClaimIndexJob(op, v, o) \/ ClaimNextIndexJob(op, v, o)
    PROVE  QuietMove(o) /\ LeaseMatches(op, v, o)' /\ share' = share
<1> DEFINE j == Claimed(jobs[op][v], o)
<1>1. Coherent(j) /\ j.status = "RUNNING" /\ j.owner = o /\ j.lease = "valid"
  BY JobType, ClaimedCoherent DEF Claimed
<1>2. SetJob(op, v, j) /\ share' = share /\ SameSide
  BY DEF ClaimIndexJob, ClaimNextIndexJob, SameSide
<1>3. /\ jobs[op][v].status \in {"PENDING", "RUNNING"}
      /\ jobs[op][v].status = "RUNNING" => jobs[op][v].lease # "valid"
  BY DEF ClaimIndexJob, ClaimNextIndexJob, MayClaimJob, Candidate, Expired
<1> HIDE DEF j
<1>4. \A q : ~LeaseMatches(op, v, q)
  BY <1>3 DEF LeaseMatches
<1>5. QuietMove(o)
  BY <1>1, <1>2, <1>3, <1>4, QuietWrite
<1>6. jobs'[op][v] = j
  BY <1>1, <1>2, SetJobEffect DEF StoreInv, TypeOK
<1> QED
  BY <1>1, <1>2, <1>5, <1>6 DEF LeaseMatches

LEMMA TerminalizeQuiet ==
    ASSUME StoreInv, NEW op \in Operations, NEW v \in Versions, TerminalizeExpiredClaim(op, v)
    PROVE  QuietMove(Nobody) /\ (Visible' => Visible)
<1> DEFINE j == Released(jobs[op][v], "FAILED")
<1>1. Coherent(j) /\ j.status = "FAILED"
  BY JobType, ReleasedCoherent DEF JobStatuses
<1>2. SetJob(op, v, j) /\ jobs[op][v].lease = "expired"
  BY DEF TerminalizeExpiredClaim, Expired
<1> HIDE DEF j
<1>3. share'.ver = share.ver /\ share'.pub = share.pub /\ (share' = share \/ share'.idx = "FAILED")
  BY ShareFacts DEF TerminalizeExpiredClaim, Shares
<1>4. \A q : ~LeaseMatches(op, v, q)
  BY <1>2 DEF LeaseMatches
<1>5. SameSide /\ (Visible' => Visible)
  BY <1>3 DEF SameSide, Visible
<1> QED
  BY <1>1, <1>2, <1>3, <1>4, <1>5, QuietWrite

\* A lease that nobody works under runs out.
LEMMA ExpiryQuiet ==
    ASSUME StoreInv, NEW op \in Operations, NEW v \in Versions, LeaseExpires(op, v),
           ~OwnerAtWork(op, v)
    PROVE  QuietMove(Nobody) /\ (Visible' => Visible)
<1> DEFINE j == [jobs[op][v] EXCEPT !.lease = "expired"]
<1>1. jobs[op][v] \in Jobs /\ jobs[op][v].status = "RUNNING"
  BY JobType DEF Coherent, LeaseExpires
<1>2. j \in Jobs
  BY <1>1, Zenon DEF Jobs
<1>3. j.status = "RUNNING" /\ j.owner = jobs[op][v].owner /\ j.lease = "expired"
  BY <1>1 DEF Jobs
<1>4. Coherent(j)
  BY <1>1, <1>2, <1>3, JobType DEF Coherent
<1>5. SetJob(op, v, j) /\ share' = share /\ SameSide /\ (Visible' => Visible)
  BY DEF LeaseExpires, SetJob, SameSide, Visible
<1> HIDE DEF j
<1>6. \A q \in Owners : ~(LeaseMatches(op, v, q) /\ WorksOn(q, op, v))
  BY DEF LeaseMatches, WorksOn, AtWork, OwnerAtWork, At
<1> QED
  BY <1>1, <1>4, <1>5, <1>6, QuietWrite

\* The owner of a lease concludes its job: nobody else holds that lease.
LEMMA OwnWrite ==
    ASSUME StoreInv, NEW op \in Operations, NEW v \in Versions, NEW o \in Owners,
           LeaseMatches(op, v, o), NEW j, Coherent(j), SetJob(op, v, j),
           share'.ver = share.ver, SameSide
    PROVE  QuietMove(o)
<1>1. \A q \in Owners \ {o} : ~LeaseMatches(op, v, q)
  BY DEF LeaseMatches
<1>2. jobs[op][v].status = "RUNNING"
  BY DEF LeaseMatches
<1> QED
  BY <1>1, <1>2, QuietWrite

LEMMA ConcludeQuiet ==
    ASSUME StoreInv, NEW op \in Operations, NEW v \in Versions, NEW o \in Owners,
           NEW terminal \in BOOLEAN,
           \/ CompleteIndexOperation(op, v, o) \/ RecordIndexFailure(op, v, o, terminal)
           \/ RecordIndexJobFailure(op, v, o, terminal) \/ SupersedeIndexJob(op, v, o)
    PROVE  QuietMove(o)
<1>1. LeaseMatches(op, v, o)
  BY NobodyAssumption
  DEF CompleteIndexOperation, RecordIndexFailure, MayConclude, RecordIndexJobFailure,
      SupersedeIndexJob, MaySupersede
<1>2. share'.ver = share.ver
  BY ShareFacts
  DEF CompleteIndexOperation, RecordIndexFailure, RecordIndexJobFailure, SupersedeIndexJob, Shares
<1>3. SameSide
  BY ShareFacts
  DEF CompleteIndexOperation, RecordIndexFailure, RecordIndexJobFailure, SupersedeIndexJob, Shares,
      SameSide, MayConclude, Wanted
<1>4. \E j : Coherent(j) /\ SetJob(op, v, j)
  <2>1. Coherent(Released(jobs[op][v], "SUCCEEDED"))
    BY JobType, ReleasedCoherent DEF JobStatuses
  <2> QED
    BY <2>1, AfterFailureJob
    DEF CompleteIndexOperation, RecordIndexFailure, RecordIndexJobFailure, SupersedeIndexJob
<1> QED
  BY <1>1, <1>2, <1>3, <1>4, OwnWrite

\* Only a completed upsert makes a share visible.
LEMMA ConcludeVisible ==
    ASSUME StoreInv, NEW op \in Operations, NEW v \in Versions, NEW o \in Owners \cup {Nobody},
           NEW terminal \in BOOLEAN,
           \/ CompleteIndexOperation(op, v, o) /\ op = "DELETE"
           \/ RecordIndexFailure(op, v, o, terminal)
           \/ RecordIndexJobFailure(op, v, o, terminal) \/ SupersedeIndexJob(op, v, o)
    PROVE  Visible' => Visible
BY ShareFacts
DEF CompleteIndexOperation, RecordIndexFailure, RecordIndexJobFailure, SupersedeIndexJob, Shares,
    Visible

LEMMA AnonymousSupersedeQuiet ==
    ASSUME StoreInv, NEW op \in Operations, NEW v \in Versions, SupersedeIndexJob(op, v, Nobody)
    PROVE  QuietMove(Nobody) /\ (Visible' => Visible)
<1> DEFINE j == Released(jobs[op][v], "SUCCEEDED")
<1>1. Coherent(j) /\ j.status = "SUCCEEDED"
  BY JobType, ReleasedCoherent DEF JobStatuses
<1>2. SetJob(op, v, j) /\ share' = share /\ SameSide /\ (Visible' => Visible)
  BY DEF SupersedeIndexJob, SameSide, Visible
<1>3. \A q : ~LeaseMatches(op, v, q)
  BY DEF SupersedeIndexJob, MaySupersede, LeaseMatches, Expired
<1> HIDE DEF j
<1> QED
  BY <1>1, <1>2, <1>3, QuietWrite

LEMMA RequeueQuiet ==
    ASSUME StoreInv, NEW v, RequeueCurrentUpsert(v)
    PROVE  QuietMove(Nobody) /\ ~Visible'
<1>1. /\ share.ver = v /\ share.pub = "PUBLIC" /\ SetJob("UPSERT", v, NewJob)
      /\ share' = [share EXCEPT !.pub = "PUBLISHING", !.idx = "PENDING"]
      /\ jobs["UPSERT"][v].status = "SUCCEEDED"
  BY DEF RequeueCurrentUpsert, MayRequeue
<1>2. v \in Versions /\ "UPSERT" \in Operations
  BY <1>1, ShareFacts DEF Operations
<1>3. share'.ver = share.ver /\ share'.pub = "PUBLISHING"
  BY <1>1, ShareFacts DEF Shares
<1>4. SameSide /\ ~Visible'
  BY <1>1, <1>3 DEF SameSide, Visible
<1>5. \A q : ~LeaseMatches("UPSERT", v, q)
  BY <1>1 DEF LeaseMatches
<1> QED
  BY <1>1, <1>2, <1>3, <1>4, <1>5, NewJobCoherent, QuietWrite

LEMMA LikeQuiet ==
    ASSUME StoreInv, NEW u \in Likers, PutLike(u) \/ DeleteLike(u)
    PROVE  QuietMove(Nobody) /\ (Visible' => Visible)
<1>1. jobs' = jobs /\ share'.ver = share.ver /\ share'.pub = share.pub /\ share'.idx = share.idx
  BY ShareFacts DEF PutLike, DeleteLike, Shares
<1> QED
  BY <1>1 DEF QuietMove, SameSide, UpsertIsCurrent, LeasesStay, LeaseMatches, Visible

----------------------------------------------------------------------------
(* What a step of one thread may do to the index.                          *)

\* The state before a step that nothing has disturbed.
Calm == MaintIInv /\ Knowledge /\ Undisturbed /\ Kept

\* Only thread o moves, if any.
LEMMA KeptStep ==
    ASSUME Calm, NEW o \in Owners \cup {Nobody}, QuietMove(o), PointKept, ToolKept,
           \A q \in Owners \ {o} : proc'[q] = proc[q],
           o \in Owners => Holds(o)' /\ LateOK(o)' /\ WrittenOK(o)',
           Visible' => Visible \/ point' = share.ver \/ StaleWrite'
    PROVE  Kept'
<1>1. HoldLeases /\ UpsertIsCurrent /\ LateIsUnpublished /\ Written /\ Indexed
  BY DEF Calm, Kept
<1>2. share'.ver = share.ver /\ SameSide /\ UpsertIsCurrent' /\ LeasesStay(o)
  BY <1>1 DEF QuietMove
<1>3. ASSUME NEW q \in Owners
      PROVE  Holds(q)' /\ LateOK(q)' /\ WrittenOK(q)'
  <2>1. CASE q = o
    BY <2>1
  <2>2. CASE q # o
    <3>1. proc'[q] = proc[q] /\ Holds(q) /\ LateOK(q) /\ WrittenOK(q)
      BY <1>1, <2>2 DEF HoldLeases, LateIsUnpublished, Written
    <3>2. LateOK(q)'
      BY <1>2, <3>1 DEF LateOK, Op, SameSide
    <3>3. WrittenOK(q)'
      BY <1>2, <3>1 DEF WrittenOK, Op, SameSide, PointKept, ToolKept
    <3>4. Holds(q)'
      <4> SUFFICES ASSUME AtWork(q)' PROVE LeaseMatches(Op(q), Ver(q), q)'
        BY DEF Holds
      <4>1. AtWork(q) /\ LeaseMatches(Op(q), Ver(q), q)
        BY <3>1 DEF AtWork, Holds
      <4>2. Op(q) \in Operations /\ Ver(q) \in Versions
        BY <4>1, ProcFacts DEF Calm, MaintIInv, AtWork, At
      <4>3. \A op \in Operations, v \in Versions :
               op = Op(q) /\ v = Ver(q) => LeaseMatches(op, v, q)'
        BY <1>2, <2>2, <4>1 DEF LeasesStay, WorksOn
      <4>4. jobs'[Op(q)][Ver(q)].status = "RUNNING" /\ jobs'[Op(q)][Ver(q)].owner = q
            /\ jobs'[Op(q)][Ver(q)].lease = "valid"
        BY <4>2, <4>3 DEF LeaseMatches
      <4> QED
        BY <3>1, <4>4 DEF LeaseMatches, Op, Ver
    <3> QED
      BY <3>2, <3>3, <3>4
  <2> QED
    BY <2>1, <2>2
<1>4. Indexed'
  <2> SUFFICES ASSUME Visible', ~StaleWrite', ~Unrepaired'
               PROVE  point' = share'.ver
    BY DEF Indexed
  <2>1. CASE Visible
    BY <1>1, <1>2, <2>1 DEF Indexed, ToolKept, PointKept, Visible
  <2>2. CASE ~Visible
    BY <1>2, <2>2
  <2> QED
    BY <2>1, <2>2
<1> QED
  BY <1>2, <1>3, <1>4 DEF Kept, HoldLeases, LateIsUnpublished, Written

\* Thread p moves to another label with the same job.
Moves(p, label) ==
    /\ proc'[p].pc = label /\ proc'[p].op = Op(p) /\ proc'[p].ver = Ver(p)
    /\ \A q \in Owners \ {p} : proc'[q] = proc[q]

LEMMA GotoMoves ==
    ASSUME IndexIInv, NEW p \in Owners, NEW label, Goto(p, label)
    PROVE  Moves(p, label)
<1>1. proc \in [Owners -> Procs] /\ proc[p] \in Procs
  BY DEF IndexIInv, Threads
<1>2. proc'[p] = [proc[p] EXCEPT !.pc = label] /\ \A q \in Owners \ {p} : proc'[q] = proc[q]
  BY <1>1 DEF Goto
<1> QED
  BY <1>1, <1>2 DEF Moves, Op, Ver, Procs

\* A thread that reads, embeds or calls Qdrant.
LEMMA KeptMove ==
    ASSUME Calm, NEW p \in Owners, NEW label, Moves(p, label),
           UNCHANGED shareVars, PointKept, ToolKept,
           label \in {"idle", "claim", "fail", "supersede"} \/ AtWork(p),
           label \in LatePcs => Op(p) = "UPSERT" /\ share.pub = "UNPUBLISHED",
           label \in {"check", "complete", "conclude"} /\ Op(p) = "UPSERT" /\
              share.pub # "UNPUBLISHED" => point' = share.ver \/ StaleWrite'
    PROVE  Kept'
<1>1. QuietMove(p) /\ (Visible' <=> Visible)
  BY NoMoveQuiet
<1>2. Holds(p)
  BY DEF Calm, Kept, HoldLeases
<1>3. share' = share /\ jobs' = jobs
  BY DEF shareVars
<1>4. Holds(p)'
  BY <1>2, <1>3 DEF Holds, AtWork, Moves, LeaseMatches, Op, Ver
<1>5. LateOK(p)'
  BY <1>3 DEF LateOK, Moves, Op
<1>6. WrittenOK(p)'
  BY <1>3 DEF WrittenOK, Moves, Op
<1> QED
  BY <1>1, <1>4, <1>5, <1>6, KeptStep DEF Moves

\* A thread that has done with its job, or has it before it.
LEMMA KeptRest ==
    ASSUME Calm, NEW p \in Owners, proc'[p].pc \in {"idle", "claim", "fail", "supersede"},
           \A q \in Owners \ {p} : proc'[q] = proc[q],
           QuietMove(p), point' = point, ToolKept,
           Visible' => Visible \/ point = share.ver \/ StaleWrite'
    PROVE  Kept'
<1>1. Holds(p)' /\ LateOK(p)' /\ WrittenOK(p)'
  BY DEF Holds, AtWork, LateOK, WrittenOK, LatePcs, ReconcilePcs
<1>2. PointKept
  BY DEF PointKept
<1> QED
  BY <1>1, <1>2, KeptStep

\* No thread moves.
LEMMA KeptStill ==
    ASSUME Calm, QuietMove(Nobody), proc' = proc, PointKept, ToolKept,
           Visible' => Visible \/ point' = share.ver \/ StaleWrite'
    PROVE  Kept'
BY NobodyAssumption, KeptStep

LEMMA FinishRests ==
    ASSUME IndexIInv, NEW p \in Owners, Finish(p)
    PROVE  proc'[p].pc = "idle" /\ \A q \in Owners \ {p} : proc'[q] = proc[q]
BY DEF IndexIInv, Threads, Finish, Rest

\* A job that is leased: its version, and what the share looks like.
LEMMA LeaseFacts ==
    ASSUME Calm, NEW p \in Owners, AtWork(p)
    PROVE  /\ ~At(p, "idle") /\ Op(p) \in Operations /\ Ver(p) \in Versions
           /\ LeaseMatches(Op(p), Ver(p), p)
           /\ Op(p) = "UPSERT" => Ver(p) = share.ver /\ share.pub # "PUBLIC"
           /\ Op(p) = "DELETE" /\ Ver(p) = share.ver => share.pub = "UNPUBLISHED"
<1>1. ~At(p, "idle")
  BY DEF At, AtWork
<1>2. Op(p) \in Operations /\ Ver(p) \in Versions
  BY <1>1, ProcFacts DEF Calm, MaintIInv
<1>3. LeaseMatches(Op(p), Ver(p), p)
  BY DEF Calm, Kept, HoldLeases, Holds
<1>4. jobs[Op(p)][Ver(p)].status = "RUNNING"
  BY <1>3 DEF LeaseMatches
<1>5. Op(p) = "UPSERT" => Ver(p) = share.ver
  BY <1>2, <1>4 DEF Calm, Kept, UpsertIsCurrent
<1>6. Op(p) = "UPSERT" => share.pub # "PUBLIC"
  BY <1>4, <1>5 DEF Calm, MaintIInv, IndexIInv, StoreInv, WorkHasJob
<1>7. Op(p) = "DELETE" /\ Ver(p) = share.ver => share.pub = "UNPUBLISHED"
  BY <1>2, <1>4, OpenJobStaged DEF Calm, MaintIInv, IndexIInv
<1> QED
  BY <1>1, <1>2, <1>3, <1>5, <1>6, <1>7

\* A thread at work whose upsert is not wanted any more: the share is unpublished.
LEMMA StaleIsUnpublished ==
    ASSUME Calm, NEW p \in Owners, AtWork(p), Op(p) = "UPSERT",
           ~Matches(p) \/ ~MayConclude(Op(p), Ver(p), p)
    PROVE  share.pub = "UNPUBLISHED"
<1>1. /\ ~At(p, "idle") /\ LeaseMatches("UPSERT", Ver(p), p) /\ Ver(p) = share.ver
  BY LeaseFacts
<1>2. Retires(p)
  BY <1>1, StaleRetires DEF Calm, MaintIInv
<1>3. share.ver \in Nat
  BY ShareFacts DEF Calm, MaintIInv, IndexIInv
<1> QED
  BY <1>1, <1>2, <1>3 DEF Retires, Overtaken

\* A call of Qdrant for the job of the thread.
LEMMA CallKeepsPoint ==
    ASSUME Calm, NEW p \in Owners, NEW op, NEW v, NEW done, NEW failed,
           Call(p, op, v, done, failed),
           \/ share.pub = "UNPUBLISHED" \/ (op = "UPSERT" /\ v = share.ver)
           \/ (op # "UPSERT" /\ v # share.ver)
    PROVE  PointKept
BY DEF PointKept, Call, IndexCall, Upsert, Delete

----------------------------------------------------------------------------
(* The steps of the threads, one by one.                                   *)

LEMMA KeptClaims ==
    ASSUME Calm, ToolKept, NEW p \in Owners, WorkerClaim(p) \/ SyncClaim(p)
    PROVE  Kept'
<1> USE DEF Calm, MaintIInv
<1>1. point' = point /\ StoreInv /\ IndexIInv
  BY DEF WorkerClaim, SyncClaim, IndexIInv
<1>2. ASSUME NEW op \in Operations, NEW v \in Versions,
             ClaimIndexJob(op, v, p) \/ ClaimNextIndexJob(op, v, p),
             proc'[p].pc \in {"read", "write"}, proc'[p].op = op, proc'[p].ver = v,
             \A q \in Owners \ {p} : proc'[q] = proc[q]
      PROVE  Kept'
  <2>1. QuietMove(p) /\ LeaseMatches(op, v, p)' /\ share' = share
    BY <1>1, <1>2, ClaimQuiet
  <2>2. Holds(p)'
    BY <1>2, <2>1 DEF Holds, LeaseMatches, Op, Ver
  <2>3. LateOK(p)' /\ WrittenOK(p)'
    BY <1>2 DEF LateOK, WrittenOK, LatePcs, ReconcilePcs
  <2>4. PointKept /\ (Visible' => Visible)
    BY <1>1, <2>1 DEF PointKept, Visible
  <2> QED
    BY <1>2, <2>1, <2>2, <2>3, <2>4, KeptStep
<1>3. CASE WorkerClaim(p)
  <2>1. PICK op \in Operations, v \in Versions :
           ClaimNextIndexJob(op, v, p) /\ Start(p, "read", op, v)
    BY <1>3 DEF WorkerClaim
  <2>2. /\ proc'[p] = [Rest EXCEPT !.pc = "read", !.op = op, !.ver = v]
        /\ \A q \in Owners \ {p} : proc'[q] = proc[q]
    BY <1>1, <2>1 DEF IndexIInv, Threads, Start
  <2>3. proc'[p].pc = "read" /\ proc'[p].op = op /\ proc'[p].ver = v
    BY <2>2 DEF Rest
  <2> QED
    BY <1>2, <2>1, <2>2, <2>3
<1>4. CASE SyncClaim(p)
  <2>1. Op(p) \in Operations /\ Ver(p) \in Versions
    BY <1>1, <1>4, ProcFacts DEF SyncClaim, At
  <2>2. CASE ClaimIndexJob(Op(p), Ver(p), p) /\ Goto(p, "write")
    <3>1. Moves(p, "write")
      BY <1>1, <2>2, GotoMoves
    <3> QED
      BY <1>2, <2>1, <2>2, <3>1 DEF Moves
  <2>3. CASE Finish(p) /\ (SupersedeIndexJob("DELETE", Ver(p), Nobody) \/ UNCHANGED shareVars)
    <3>1. proc'[p].pc = "idle" /\ \A q \in Owners \ {p} : proc'[q] = proc[q]
      BY <1>1, <2>3, FinishRests
    <3>2. QuietMove(Nobody) /\ (Visible' => Visible)
      BY <1>1, <2>1, <2>3, AnonymousSupersedeQuiet, NoMoveQuiet DEF Operations
    <3>3. QuietMove(p)
      BY <3>2, NobodyAssumption DEF QuietMove, LeasesStay
    <3> QED
      BY <1>1, <3>1, <3>2, <3>3, KeptRest
  <2> QED
    BY <1>4, <2>2, <2>3 DEF SyncClaim
<1> QED
  BY <1>3, <1>4

LEMMA KeptReads ==
    ASSUME Calm, ToolKept, NEW w \in Owners, ReadTarget(w) \/ Embed(w) \/ CheckTarget(w)
    PROVE  Kept'
<1>1. AtWork(w) /\ UNCHANGED shareVars /\ point' = point /\ PointKept
  BY DEF ReadTarget, Embed, CheckTarget, At, AtWork, Reads, PointKept
<1>2. Op(w) \in Operations
  BY <1>1, LeaseFacts
<1>3. CASE Matches(w)
  <2>1. PICK l \in {"embed", "call", "fail", "complete"} :
           Goto(w, l) /\ (l = "complete" => At(w, "check"))
    BY <1>3 DEF ReadTarget, Embed, CheckTarget, At
  <2>2. Moves(w, l)
    BY <2>1, GotoMoves DEF Calm, MaintIInv
  <2>3. l \notin LatePcs /\ l \notin {"check", "conclude"}
    BY DEF LatePcs, ReconcilePcs
  <2>4. l = "complete" /\ Op(w) = "UPSERT" /\ share.pub # "UNPUBLISHED" =>
           point' = share.ver \/ StaleWrite'
    BY <1>1, <2>1 DEF Calm, Kept, Written, WrittenOK, At, ToolKept
  <2> QED
    BY <1>1, <2>2, <2>3, <2>4, KeptMove
<1>4. CASE ~Matches(w)
  <2>1. Goto(w, Stale(w)) \/ (At(w, "embed") /\ Goto(w, "reconcile"))
    BY <1>4 DEF ReadTarget, Embed, CheckTarget, At
  <2>2. At(w, "embed") => Op(w) = "UPSERT"
    BY ProcFacts DEF Calm, MaintIInv
  <2>3. CASE Op(w) = "UPSERT"
    <3>1. Moves(w, "reconcile")
      BY <2>1, <2>3, GotoMoves DEF Stale, Calm, MaintIInv
    <3>2. share.pub = "UNPUBLISHED"
      BY <1>1, <1>4, <2>3, StaleIsUnpublished
    <3> QED
      BY <1>1, <2>3, <3>1, <3>2, KeptMove
  <2>4. CASE Op(w) # "UPSERT"
    <3>1. Moves(w, "supersede")
      BY <2>1, <2>2, <2>4, GotoMoves DEF Stale, Calm, MaintIInv
    <3>2. "supersede" \notin LatePcs
      BY DEF LatePcs, ReconcilePcs
    <3> QED
      BY <1>1, <3>1, <3>2, KeptMove
  <2> QED
    BY <2>3, <2>4
<1> QED
  BY <1>3, <1>4

\* The call of Qdrant that a job is for.
LEMMA KeptOwnCall ==
    ASSUME Calm, ToolKept, NEW p \in Owners, AtWork(p),
           NEW done \in {"check", "conclude"}, NEW failed \in {"raised", "fail", "failed"},
           Call(p, Op(p), Ver(p), done, failed)
    PROVE  Kept'
<1>1. /\ Op(p) \in Operations
      /\ Op(p) = "UPSERT" => Ver(p) = share.ver
      /\ Op(p) = "DELETE" /\ Ver(p) = share.ver => share.pub = "UNPUBLISHED"
  BY LeaseFacts
<1>2. PointKept /\ UNCHANGED shareVars
  BY <1>1, CallKeepsPoint DEF Operations, Call
<1>3. done \notin LatePcs /\ failed \notin LatePcs
  BY DEF LatePcs, ReconcilePcs
<1>4. CASE IndexCall(Op(p), Ver(p)) /\ Goto(p, done)
  <2>1. Moves(p, done)
    BY <1>4, GotoMoves DEF Calm, MaintIInv
  <2>2. Op(p) = "UPSERT" => point' = share.ver
    BY <1>1, <1>4 DEF IndexCall, Upsert
  <2> QED
    BY <1>2, <1>3, <2>1, <2>2, KeptMove
<1>5. CASE Goto(p, failed)
  <2>1. Moves(p, failed)
    BY <1>5, GotoMoves DEF Calm, MaintIInv
  <2> QED
    BY <1>2, <1>3, <2>1, KeptMove
<1> QED
  BY <1>4, <1>5 DEF Call

\* A call of Qdrant that cleans up.
LEMMA KeptLateCall ==
    ASSUME Calm, ToolKept, NEW p \in Owners, proc[p].pc \in LatePcs, NEW op, NEW v,
           NEW done \in ReconcilePcs \cup {"supersede"},
           NEW failed \in ReconcilePcs \cup {"supersede"}, Call(p, op, v, done, failed)
    PROVE  Kept'
<1>1. AtWork(p) /\ Op(p) = "UPSERT" /\ share.pub = "UNPUBLISHED"
  BY DEF AtWork, LatePcs, ReconcilePcs, Calm, Kept, LateIsUnpublished, LateOK
<1>2. PointKept /\ UNCHANGED shareVars
  BY <1>1, CallKeepsPoint DEF Call
<1>3. Moves(p, done) \/ Moves(p, failed)
  BY GotoMoves DEF Call, Calm, MaintIInv
<1> QED
  BY <1>1, <1>2, <1>3, KeptMove

\* An owner concludes its job, and is done or has only to report.
LEMMA KeptConcludes ==
    ASSUME Calm, ToolKept, NEW p \in Owners, Op(p) \in Operations, Ver(p) \in Versions,
           NEW terminal \in BOOLEAN,
           \/ CompleteIndexOperation(Op(p), Ver(p), p) /\ proc[p].pc \in {"complete", "conclude"}
           \/ RecordIndexFailure(Op(p), Ver(p), p, terminal)
           \/ RecordIndexJobFailure(Op(p), Ver(p), p, terminal)
           \/ SupersedeIndexJob(Op(p), Ver(p), p) \/ UNCHANGED shareVars,
           Finish(p) \/ Goto(p, "fail"), point' = point
    PROVE  Kept'
<1> USE DEF Calm, MaintIInv
<1>1. IndexIInv /\ StoreInv
  BY DEF IndexIInv
<1>2. proc'[p].pc \in {"idle", "fail"} /\ \A q \in Owners \ {p} : proc'[q] = proc[q]
  BY <1>1, FinishRests, GotoMoves DEF Moves
<1>3. QuietMove(p)
  BY <1>1, ConcludeQuiet, NoMoveQuiet
<1>4. Visible' => Visible \/ point = share.ver \/ StaleWrite'
  <2>1. CASE CompleteIndexOperation(Op(p), Ver(p), p) /\ proc[p].pc \in {"complete", "conclude"}
    <3>1. CASE Op(p) = "UPSERT"
      <4>1. share.pub # "UNPUBLISHED"
        BY <2>1, <3>1 DEF CompleteIndexOperation, MayConclude, Wanted
      <4> QED
        BY <2>1, <3>1, <4>1 DEF Kept, Written, WrittenOK, ToolKept
    <3>2. CASE Op(p) = "DELETE"
      BY <1>1, <2>1, <3>2, ConcludeVisible
    <3> QED
      BY <3>1, <3>2 DEF Operations
  <2>2. CASE ~(CompleteIndexOperation(Op(p), Ver(p), p) /\ proc[p].pc \in {"complete", "conclude"})
    BY <1>1, <2>2, ConcludeVisible, NoMoveQuiet
  <2> QED
    BY <2>1, <2>2
<1> QED
  BY <1>2, <1>3, <1>4, KeptRest

\* A thread whose conclusion is refused goes where it cleans up or reports.
LEMMA KeptRefused ==
    ASSUME Calm, ToolKept, NEW p \in Owners, AtWork(p), ~MayConclude(Op(p), Ver(p), p),
           UNCHANGED shareVars, point' = point, NEW late \in {"reconcile", "undo"},
           Goto(p, IF Op(p) = "UPSERT" THEN late ELSE "supersede")
    PROVE  Kept'
<1>1. PointKept
  BY DEF PointKept
<1>2. CASE Op(p) = "UPSERT"
  <2>1. Moves(p, late)
    BY <1>2, GotoMoves DEF Calm, MaintIInv
  <2>2. share.pub = "UNPUBLISHED"
    BY <1>2, StaleIsUnpublished
  <2> QED
    BY <1>1, <1>2, <2>1, <2>2, KeptMove
<1>3. CASE Op(p) # "UPSERT"
  <2>1. Moves(p, "supersede") /\ "supersede" \notin LatePcs
    BY <1>3, GotoMoves DEF Calm, MaintIInv, LatePcs, ReconcilePcs
  <2> QED
    BY <1>1, <2>1, KeptMove
<1> QED
  BY <1>2, <1>3

LEMMA KeptOutcomes ==
    ASSUME Calm, ToolKept, NEW p \in Owners,
           \/ Complete(p) \/ SyncComplete(p) \/ RecordFailure(p) \/ SyncFailure(p)
           \/ Supersede(p) \/ RecordStaleFailure(p)
    PROVE  Kept'
<1>1. Op(p) \in Operations /\ Ver(p) \in Versions /\ point' = point
  BY ProcFacts
  DEF Calm, MaintIInv, Complete, SyncComplete, RecordFailure, SyncFailure, Supersede,
      RecordStaleFailure, At
<1>2. LastAttempt(p) \in BOOLEAN /\ TRUE \in BOOLEAN
  BY DEF LastAttempt
<1>3. CASE Complete(p) \/ SyncComplete(p)
  <2>1. AtWork(p) /\ proc[p].pc \in {"complete", "conclude"}
    BY <1>3 DEF Complete, SyncComplete, AtWork, At
  <2>2. CASE CompleteIndexOperation(Op(p), Ver(p), p) /\ Finish(p)
    BY <1>1, <1>2, <2>1, <2>2, KeptConcludes
  <2>3. CASE /\ ~MayConclude(Op(p), Ver(p), p) /\ UNCHANGED shareVars
             /\ \E late \in {"reconcile", "undo"} :
                   Goto(p, IF Op(p) = "UPSERT" THEN late ELSE "supersede")
    BY <1>1, <2>1, <2>3, KeptRefused
  <2> QED
    BY <1>3, <2>2, <2>3 DEF Complete, SyncComplete, Stale
<1>4. CASE RecordFailure(p) /\ Goto(p, "supersede") /\ UNCHANGED shareVars
  <2>1. Moves(p, "supersede") /\ "supersede" \notin LatePcs /\ PointKept
    BY <1>1, <1>4, GotoMoves DEF Calm, MaintIInv, LatePcs, ReconcilePcs, PointKept
  <2> QED
    BY <1>4, <2>1, KeptMove
<1>5. CASE ~(Complete(p) \/ SyncComplete(p)) /\ Finish(p)
  BY <1>1, <1>2, <1>5, KeptConcludes
  DEF RecordFailure, SyncFailure, Supersede, RecordStaleFailure
<1> QED
  BY <1>3, <1>4, <1>5 DEF RecordFailure, SyncFailure, Supersede, RecordStaleFailure

LEMMA KeptReconciles ==
    ASSUME Calm, ToolKept, NEW w \in Owners, ReconcileStep(w)
    PROVE  Kept'
<1>1. /\ proc[w].pc \in ReconcilePcs /\ AtWork(w) /\ Op(w) = "UPSERT"
      /\ share.pub = "UNPUBLISHED"
  <2>1. proc[w].pc \in ReconcilePcs
    BY DEF ReconcileStep, Reconcile, RestoreEmbed, RestoreUpsert, RestoreConfirm, Requeue,
           Requeued, Cleanup, Cleaned, CleanupCurrent, At, ReconcilePcs
  <2> QED
    BY <2>1 DEF AtWork, LatePcs, ReconcilePcs, Calm, Kept, LateIsUnpublished, LateOK
<1>2. CASE RestoreUpsert(w) \/ Cleanup(w) \/ CleanupCurrent(w)
  BY <1>1, <1>2, KeptLateCall
  DEF RestoreUpsert, Cleanup, CleanupCurrent, LatePcs, ReconcilePcs
<1>3. ASSUME UNCHANGED shareVars, point' = point,
             NEW l \in ReconcilePcs \cup {"supersede"}, Moves(w, l)
      PROVE  Kept'
  <2>1. PointKept
    BY <1>3 DEF PointKept
  <2>2. l \notin {"check", "complete", "conclude"} /\ (l \in LatePcs => l \in ReconcilePcs)
    BY DEF LatePcs, ReconcilePcs
  <2> QED
    BY <1>1, <1>3, <2>1, <2>2, KeptMove
<1>4. CASE Requeue(w)
  <2>1. ~MayRequeue(proc[w].cur)
    BY <1>1 DEF MayRequeue
  <2>2. UNCHANGED shareVars /\ point' = point /\ Goto(w, "reconcile")
    BY <1>4, <2>1 DEF Requeue, RequeueCurrentUpsert
  <2> QED
    BY <1>3, <2>2, GotoMoves DEF Calm, MaintIInv, ReconcilePcs
<1>5. CASE Reconcile(w) \/ RestoreEmbed(w) \/ RestoreConfirm(w) \/ Requeued(w) \/ Cleaned(w)
  <2>1. UNCHANGED shareVars /\ point' = point
    BY <1>5 DEF Reconcile, RestoreEmbed, RestoreConfirm, Requeued, Cleaned, Reads
  <2>2. CASE \E l \in ReconcilePcs \cup {"supersede"} : Goto(w, l)
    BY <1>3, <2>1, <2>2, GotoMoves DEF Calm, MaintIInv
  <2>3. CASE \E l \in ReconcilePcs \cup {"supersede"} : Moves(w, l)
    BY <1>3, <2>1, <2>3
  <2>4. proc \in [Owners -> Procs] /\ proc[w] \in Procs
    BY DEF Calm, MaintIInv, IndexIInv, Threads
  <2>5. CASE proc' = [proc EXCEPT ![w].pc = "restore", ![w].cur = share.ver, ![w].pass = @ + 1]
    <3>1. Moves(w, "restore")
      BY <2>4, <2>5 DEF Moves, Op, Ver, Procs
    <3> QED
      BY <2>3, <3>1 DEF ReconcilePcs
  <2>6. CASE proc' = [proc EXCEPT ![w].pc = "overwrite", ![w].restored = @ \cup {proc[w].cur}]
    <3>1. Moves(w, "overwrite")
      BY <2>4, <2>6 DEF Moves, Op, Ver, Procs
    <3> QED
      BY <2>3, <3>1 DEF ReconcilePcs
  <2>7. CASE proc' = [proc EXCEPT ![w].pc = "clean current", ![w].cur = share.ver]
    <3>1. Moves(w, "clean current")
      BY <2>4, <2>7 DEF Moves, Op, Ver, Procs
    <3> QED
      BY <2>3, <3>1 DEF ReconcilePcs
  <2> QED
    BY <1>5, <2>2, <2>5, <2>6, <2>7
    DEF Reconcile, RestoreEmbed, RestoreConfirm, Requeued, Cleaned, IfSafe, ReconcilePcs
<1> QED
  BY <1>2, <1>4, <1>5 DEF ReconcileStep

LEMMA KeptThreadSteps ==
    ASSUME Calm, ToolKept, NEW p \in Owners, WorkerStep(p) \/ RequestStep(p)
    PROVE  Kept'
<1>1. CASE WorkerTerminalize(p)
  <2>1. QuietMove(Nobody) /\ (Visible' => Visible)
    BY <1>1, TerminalizeQuiet DEF WorkerTerminalize, Calm, MaintIInv, IndexIInv
  <2> QED
    BY <1>1, <2>1, KeptStill DEF WorkerTerminalize, PointKept
<1>2. CASE CallIndex(p) \/ SyncWrite(p)
  <2>1. AtWork(p)
    BY <1>2 DEF CallIndex, SyncWrite, AtWork, At
  <2> QED
    BY <1>2, <2>1, KeptOwnCall DEF CallIndex, SyncWrite
<1>3. CASE SyncUndo(p)
  BY <1>3, KeptLateCall DEF SyncUndo, At, LatePcs
<1> QED
  BY <1>1, <1>2, <1>3, KeptClaims, KeptReads, KeptOutcomes, KeptReconciles
  DEF WorkerStep, RequestStep

LEMMA KeptStoreError ==
    ASSUME Calm, ToolKept, NEW w \in Owners, StoreError(w)
    PROVE  Kept'
<1>1. Op(w) \in Operations /\ Ver(w) \in Versions /\ point' = point /\ TRUE \in BOOLEAN
  BY ProcFacts DEF Calm, MaintIInv, StoreError, At
<1>2. CASE /\ Goto(w, "fail")
           /\ \/ UNCHANGED shareVars
              \/ CompleteIndexOperation(Op(w), Ver(w), w) /\ At(w, "complete")
  BY <1>1, <1>2, KeptConcludes DEF At
<1>3. CASE /\ proc[w].pc \in ReconcilePcs
           /\ \E l \in {"reconcile", "give up"} : Goto(w, l)
           /\ RequeueCurrentUpsert(proc[w].cur) \/ UNCHANGED shareVars
  <2>1. AtWork(w) /\ Op(w) = "UPSERT" /\ share.pub = "UNPUBLISHED"
    BY <1>3 DEF AtWork, LatePcs, ReconcilePcs, Calm, Kept, LateIsUnpublished, LateOK
  <2>2. UNCHANGED shareVars /\ PointKept
    BY <1>1, <1>3, <2>1 DEF RequeueCurrentUpsert, MayRequeue, PointKept
  <2>3. \E l \in {"reconcile", "give up"} : Moves(w, l)
    BY <1>3, GotoMoves DEF Calm, MaintIInv
  <2> QED
    BY <2>1, <2>2, <2>3, KeptMove
<1> QED
  BY <1>2, <1>3 DEF StoreError, At, ReconcilePcs

LEMMA KeptEnvironment ==
    ASSUME Calm, ToolKept
    PROVE  /\ \A p \in Owners : Crash(p) => Kept'
           /\ \A op \in Operations, v \in Versions : AbandonedLeaseExpires(op, v) => Kept'
           /\ \A u \in Likers : ReaderStep(u) => Kept'
<1>1. ASSUME NEW p \in Owners, Crash(p) PROVE Kept'
  <2>1. QuietMove(p) /\ (Visible' => Visible) /\ point' = point
    BY <1>1, NoMoveQuiet DEF Crash
  <2>2. proc'[p].pc = "idle" /\ \A q \in Owners \ {p} : proc'[q] = proc[q]
    BY <1>1, FinishRests DEF Crash, Calm, MaintIInv
  <2> QED
    BY <2>1, <2>2, KeptRest
<1>2. ASSUME NEW op \in Operations, NEW v \in Versions, AbandonedLeaseExpires(op, v)
      PROVE  Kept'
  <2>1. QuietMove(Nobody) /\ (Visible' => Visible)
    BY <1>2, ExpiryQuiet DEF AbandonedLeaseExpires, Calm, MaintIInv, IndexIInv
  <2> QED
    BY <1>2, <2>1, KeptStill DEF AbandonedLeaseExpires, PointKept
<1>3. ASSUME NEW u \in Likers, ReaderStep(u) PROVE Kept'
  <2>1. QuietMove(Nobody) /\ (Visible' => Visible)
    BY <1>3, LikeQuiet DEF ReaderStep, Calm, MaintIInv, IndexIInv
  <2> QED
    BY <1>3, <2>1, KeptStill DEF ReaderStep, PointKept
<1> QED
  BY <1>1, <1>2, <1>3

LEMMA StartRests ==
    ASSUME IndexIInv, NEW r \in Owners, NEW op, NEW v, Start(r, "claim", op, v)
    PROVE  proc'[r].pc = "claim" /\ \A q \in Owners \ {r} : proc'[q] = proc[q]
<1>1. /\ proc'[r] = [Rest EXCEPT !.pc = "claim", !.op = op, !.ver = v]
      /\ \A q \in Owners \ {r} : proc'[q] = proc[q]
  BY DEF IndexIInv, Threads, Start
<1> QED
  BY <1>1 DEF Rest

\* A staging over no leased upsert meets no thread at work on an upsert.
LEMMA KeptPublish ==
    ASSUME Calm, Undisturbed', NEW r \in Owners, Publish(r)
    PROVE  Kept'
<1> USE DEF Calm, MaintIInv
<1> DEFINE n == share.ver + 1
           ups == [SupersededUpserts EXCEPT ![n] = NewJob]
<1>1. StoreInv /\ IndexIInv /\ StageUpsert
  BY DEF IndexIInv, Publish, CreatePublishIntent, StageUpdate
<1>2. NoActiveUpsert
  BY DEF Publish, Undisturbed, Knowledge, UsedRecords
<1>3. share \in Shares /\ n \in Versions
  BY <1>1, ShareFacts, VersionAssumption DEF StageUpsert, Versions
<1>4. share'.ver = n /\ share'.pub = "PUBLISHING"
  BY <1>1, <1>3 DEF StageUpsert, Shares
<1>5. ups[n] = NewJob /\ \A v \in Versions : v # n => ups[v] = SupersededUpserts[v]
  BY <1>3 DEF SupersededUpserts
<1>6. jobs'["UPSERT"] = ups /\ jobs'["DELETE"] = jobs["DELETE"]
  BY <1>1 DEF StageUpsert, StoreInv, TypeOK, Operations
<1> HIDE DEF ups
<1>7. UpsertIsCurrent'
  <2> SUFFICES ASSUME NEW v \in Versions, v # n,
                      jobs'["UPSERT"][v].status \in {"PENDING", "RUNNING"}
               PROVE  FALSE
    BY <1>4 DEF UpsertIsCurrent
  <2>1. jobs'["UPSERT"][v] = SupersededUpserts[v]
    BY <1>5, <1>6
  <2>2. SupersededUpserts[v].status = "RUNNING" /\ SupersededUpserts[v] = jobs["UPSERT"][v]
    BY <1>1, <2>1, SupersededJob DEF IndexIInv
  <2>3. SupersededUpserts[v] = Released(jobs["UPSERT"][v], "SUCCEEDED")
    BY <1>2, <2>2 DEF SupersededUpserts, NoActiveUpsert
  <2> QED
    BY <2>2, <2>3 DEF Released, Unowned
<1>8. ASSUME NEW q \in Owners, AtWork(q)
      PROVE  Op(q) = "DELETE" /\ Ver(q) \in Versions /\ LeaseMatches("DELETE", Ver(q), q)
  <2>1. Op(q) \in Operations /\ Ver(q) \in Versions /\ LeaseMatches(Op(q), Ver(q), q)
    BY <1>8, LeaseFacts
  <2>2. Op(q) # "UPSERT"
    BY <1>2, <2>1 DEF NoActiveUpsert, ActiveUpsert, LeaseMatches
  <2> QED
    BY <2>1, <2>2 DEF Operations
<1>9. proc'[r].pc = "claim" /\ \A q \in Owners \ {r} : proc'[q] = proc[q]
  BY <1>1, StartRests DEF Publish
<1>10. ASSUME NEW q \in Owners
       PROVE  Holds(q)' /\ LateOK(q)' /\ WrittenOK(q)'
  <2>1. CASE q = r
    BY <1>9, <2>1 DEF Holds, AtWork, LateOK, WrittenOK, LatePcs, ReconcilePcs
  <2>2. CASE q # r /\ ~AtWork(q)
    BY <1>9, <2>2 DEF Holds, AtWork, LateOK, WrittenOK, LatePcs, ReconcilePcs
  <2>3. CASE q # r /\ AtWork(q)
    <3>1. /\ proc'[q] = proc[q] /\ Op(q) = "DELETE" /\ Ver(q) \in Versions
          /\ LeaseMatches("DELETE", Ver(q), q)
      BY <1>8, <1>9, <2>3
    <3>2. Holds(q)'
      BY <1>6, <3>1 DEF Holds, LeaseMatches, Op, Ver
    <3>3. proc[q].pc \notin LatePcs
      BY <3>1 DEF Kept, LateIsUnpublished, LateOK
    <3> QED
      BY <3>1, <3>2, <3>3 DEF LateOK, WrittenOK, Op
  <2> QED
    BY <2>1, <2>2, <2>3
<1>11. Indexed'
  BY <1>4 DEF Indexed, Visible
<1> QED
  BY <1>7, <1>10, <1>11 DEF Kept, HoldLeases, LateIsUnpublished, Written

LEMMA KeptUnpublish ==
    ASSUME Calm, NEW r \in Owners, Unpublish(r)
    PROVE  Kept'
<1> USE DEF Calm, MaintIInv
<1> DEFINE n == share.ver
           dels == [jobs["DELETE"] EXCEPT ![n] = NewJob]
<1>1. StoreInv /\ IndexIInv /\ StageUnpublish
  BY DEF IndexIInv, Unpublish
<1>2. share \in Shares /\ n \in Versions
  BY <1>1, ShareFacts DEF StageUnpublish
<1>3. share'.ver = n /\ share'.pub = "UNPUBLISHED"
  BY <1>1, <1>2 DEF StageUnpublish, Shares
<1>4. jobs \in [Operations -> [Versions -> Jobs]] /\ jobs["DELETE"] \in [Versions -> Jobs]
  BY <1>1 DEF StoreInv, TypeOK, Operations
<1>5. \A v \in Versions : v # n => dels[v] = jobs["DELETE"][v]
  BY <1>2, <1>4
<1>6. jobs'["UPSERT"] = SupersededUpserts /\ jobs'["DELETE"] = dels
  BY <1>1, <1>4 DEF StageUnpublish, Operations
<1> HIDE DEF dels
<1>7. UpsertIsCurrent'
  <2> SUFFICES ASSUME NEW v \in Versions, jobs'["UPSERT"][v].status \in {"PENDING", "RUNNING"}
               PROVE  v = n
    BY <1>3 DEF UpsertIsCurrent
  <2>1. SupersededUpserts[v] = jobs["UPSERT"][v]
    BY <1>1, <1>6, SupersededJob DEF IndexIInv
  <2> QED
    BY <1>6, <2>1 DEF Kept, UpsertIsCurrent
<1>8. proc'[r].pc = "claim" /\ \A q \in Owners \ {r} : proc'[q] = proc[q]
  BY <1>1, StartRests DEF Unpublish
<1>9. ASSUME NEW q \in Owners
      PROVE  Holds(q)' /\ LateOK(q)' /\ WrittenOK(q)'
  <2>1. CASE q = r
    BY <1>8, <2>1 DEF Holds, AtWork, LateOK, WrittenOK, LatePcs, ReconcilePcs
  <2>2. CASE q # r
    <3>1. proc'[q] = proc[q] /\ LateOK(q)
      BY <1>8, <2>2 DEF Kept, LateIsUnpublished
    <3>2. LateOK(q)' /\ WrittenOK(q)'
      BY <1>3, <3>1 DEF LateOK, WrittenOK, Op
    <3>3. ASSUME AtWork(q)
          PROVE  Holds(q)'
      <4>1. Op(q) \in Operations /\ Ver(q) \in Versions /\ LeaseMatches(Op(q), Ver(q), q)
        BY <3>3, LeaseFacts
      <4>2. jobs'[Op(q)][Ver(q)] = jobs[Op(q)][Ver(q)]
        <5>1. CASE Op(q) = "UPSERT"
          <6>1. ActiveUpsert(Ver(q))
            BY <4>1, <5>1 DEF ActiveUpsert, LeaseMatches
          <6> QED
            BY <1>6, <4>1, <5>1, <6>1 DEF SupersededUpserts
        <5>2. CASE Op(q) = "DELETE"
          <6>1. jobs["DELETE"][Ver(q)].status # "NONE"
            BY <4>1, <5>2 DEF LeaseMatches
          <6>2. Ver(q) # n
            BY <1>1, <4>1, <6>1, OpenJobStaged DEF Operations, StageUnpublish
          <6> QED
            BY <1>5, <1>6, <4>1, <5>2, <6>2
        <5> QED
          BY <4>1, <5>1, <5>2 DEF Operations
      <4> QED
        BY <3>1, <4>1, <4>2 DEF Holds, LeaseMatches, Op, Ver
    <3> QED
      BY <3>1, <3>2, <3>3 DEF Holds, AtWork
  <2> QED
    BY <2>1, <2>2
<1>10. Indexed'
  BY <1>3 DEF Indexed, Visible
<1> QED
  BY <1>7, <1>9, <1>10 DEF Kept, HoldLeases, LateIsUnpublished, Written

LEMMA KeptAuthor ==
    ASSUME Calm, Undisturbed', ToolKept, NEW r \in Owners, AuthorStep(r)
    PROVE  Kept'
<1>1. CASE PublishAgain(r)
  <2>1. proc'[r].pc = "claim" /\ \A q \in Owners \ {r} : proc'[q] = proc[q]
    BY <1>1, StartRests DEF PublishAgain, Calm, MaintIInv
  <2>2. QuietMove(r) /\ (Visible' => Visible) /\ point' = point
    BY <1>1, NoMoveQuiet DEF PublishAgain, Reads
  <2> QED
    BY <2>1, <2>2, KeptRest
<1> QED
  BY <1>1, KeptPublish, KeptUnpublish DEF AuthorStep

----------------------------------------------------------------------------
(* What the command knows while the threads go on.                         *)

LEMMA UsedMoves ==
    ASSUME Knowledge, WorkerNext
    PROVE  /\ used' \in UsedRecords
           /\ used.overtaken => used'.overtaken
           /\ used'.stalls = used.stalls \/ (used.stalls < MaxStalls /\ used'.stalls = used.stalls + 1)
<1>1. used \in UsedRecords
  BY DEF Knowledge
<1>2. CASE used' = used
  BY <1>1, <1>2
<1>3. CASE used' = [used EXCEPT !.faults = @ + 1]
  BY <1>1, <1>3 DEF UsedRecords
<1>4. CASE used' = [used EXCEPT !.crashes = @ + 1]
  BY <1>1, <1>4 DEF UsedRecords
<1>5. CASE used.stalls < MaxStalls /\ used' = [used EXCEPT !.stalls = @ + 1]
  BY <1>1, <1>5 DEF UsedRecords
<1>6. ASSUME NEW b \in BOOLEAN, used' = [used EXCEPT !.overtaken = used.overtaken \/ b]
      PROVE  /\ used' \in UsedRecords /\ used'.stalls = used.stalls
             /\ used.overtaken => used'.overtaken
  BY <1>1, <1>6 DEF UsedRecords
<1>7. ASSUME NEW r \in Requests, Publish(r)
      PROVE  /\ used' \in UsedRecords /\ used'.stalls = used.stalls
             /\ used.overtaken => used'.overtaken
  <2>1. (~NoActiveUpsert) \in BOOLEAN
    BY DEF NoActiveUpsert
  <2> QED
    BY <1>6, <1>7, <2>1 DEF Publish
<1>8. ASSUME NEW w \in Workers, WorkerStep(w)
      PROVE  used' = used \/ used' = [used EXCEPT !.faults = @ + 1]
  BY <1>8
  DEF WorkerStep, WorkerClaim, WorkerTerminalize, ReadTarget, Embed, CallIndex, CheckTarget,
      Complete, RecordFailure, Supersede, RecordStaleFailure, ReconcileStep, Reconcile,
      RestoreEmbed, RestoreUpsert, RestoreConfirm, Requeue, Requeued, Cleanup, Cleaned,
      CleanupCurrent, Reads, Call, Fault
<1>9. ASSUME NEW r \in Requests, RequestStep(r) \/ PublishAgain(r) \/ Unpublish(r)
      PROVE  used' = used \/ used' = [used EXCEPT !.faults = @ + 1]
  BY <1>9
  DEF RequestStep, SyncClaim, SyncWrite, SyncComplete, SyncUndo, SyncFailure, Supersede,
      PublishAgain, Unpublish, Reads, Call, Fault
<1>10. ASSUME \/ \E w \in Workers : StoreError(w)
              \/ \E p \in Owners : Crash(p)
              \/ \E u \in Likers : ReaderStep(u)
              \/ \E op \in Operations, v \in Versions : AbandonedLeaseExpires(op, v) \/ Stall(op, v)
       PROVE  \/ used' = used \/ used' = [used EXCEPT !.faults = @ + 1]
              \/ used' = [used EXCEPT !.crashes = @ + 1]
              \/ used.stalls < MaxStalls /\ used' = [used EXCEPT !.stalls = @ + 1]
  BY <1>10 DEF StoreError, Fault, Crash, ReaderStep, AbandonedLeaseExpires, Stall
<1> QED
  BY <1>2, <1>3, <1>4, <1>5, <1>7, <1>8, <1>9, <1>10 DEF WorkerNext, AuthorStep

LEMMA VisibleKeepsVersion ==
    ASSUME StoreInv, [Next]_shareVars, Visible'
    PROVE  share'.ver = share.ver
<1>1. share \in Shares
  BY ShareFacts
<1>2. CASE AuthorNext
  <2>1. CASE StageUpsert
    BY <1>1, <2>1 DEF StageUpsert, Shares, Visible
  <2>2. CASE StageUnpublish
    BY <1>1, <2>2 DEF StageUnpublish, Shares, Visible
  <2> QED
    BY <1>2, <2>1, <2>2 DEF AuthorNext, CreatePublishIntent, StageUpdate
<1>3. ASSUME NEW op \in Operations, NEW v \in Versions, JobNext(op, v)
      PROVE  share'.ver = share.ver
  BY <1>1, <1>3
  DEF JobNext, OwnerNext, ClaimIndexJob, ClaimNextIndexJob, CompleteIndexOperation,
      RecordIndexFailure, RecordIndexJobFailure, SupersedeIndexJob, TerminalizeExpiredClaim,
      LeaseExpires, Shares
<1>4. ASSUME NEW v \in Versions, RequeueCurrentUpsert(v)
      PROVE  share'.ver = share.ver
  BY <1>1, <1>4 DEF RequeueCurrentUpsert, Shares
<1>5. ASSUME NEW u \in Likers, PutLike(u) \/ DeleteLike(u)
      PROVE  share'.ver = share.ver
  BY <1>1, <1>5 DEF PutLike, DeleteLike, Shares
<1> QED
  BY <1>2, <1>3, <1>4, <1>5 DEF Next, shareVars

LEMMA WatchedFacts ==
    ASSUME MaintIInv, Knowledge, Watched
    PROVE  /\ tool'.mode = tool.mode /\ tool'.pc = tool.pc /\ tool'.rec = tool.rec
           /\ tool'.seen = tool.seen /\ tool'.failed = tool.failed
           /\ Watching' <=> Watching /\ Visible'
           /\ tool.rec = 0 => tool'.touched = tool.touched
<1>1. tool \in Tools
  BY DEF MaintIInv, Command
<1>2. /\ tool'.mode = tool.mode /\ tool'.pc = tool.pc /\ tool'.rec = tool.rec
      /\ tool'.seen = tool.seen /\ tool'.failed = tool.failed
      /\ tool'.touched = (tool.touched \/ (tool.rec # 0 /\ ~Visible'))
  BY <1>1 DEF Watched, Tools
<1>3. tool.touched \in BOOLEAN
  BY <1>1 DEF Tools
<1>4. Watching' <=> Watching /\ Visible'
  BY <1>2, <1>3 DEF Watching
<1> QED
  BY <1>2, <1>3, <1>4

\* An extra point stays extra until it is erased.
LEMMA ErasableStays ==
    ASSUME MaintIInv, Knowledge, [Next]_shareVars, tool.seen \in Nat
    PROVE  /\ tool.seen <= share'.ver
           /\ tool.pc = "erase" /\ tool.seen = share'.ver => share'.pub \in {"NONE", "UNPUBLISHED"}
<1>1. StoreInv /\ StoreInv' /\ share.ver \in Nat /\ share'.ver \in Nat /\ share.ver <= share'.ver
  BY VersionsGrow DEF MaintIInv, IndexIInv
<1>2. tool.seen <= share'.ver
  BY <1>1 DEF Knowledge
<1>3. ASSUME tool.pc = "erase", tool.seen = share'.ver
      PROVE  share'.pub \in {"NONE", "UNPUBLISHED"}
  <2>1. share.ver = share'.ver /\ share.pub \in {"NONE", "UNPUBLISHED"}
    BY <1>1, <1>3 DEF Knowledge
  <2>2. CASE share.pub = "UNPUBLISHED"
    <3>1. [AuthorRespected]_shareVars
      BY <1>1, StepKeepsAuthor
    <3> QED
      BY <1>1, <2>1, <2>2, <3>1 DEF AuthorRespected, shareVars
  <2>3. CASE share.pub = "NONE"
    <3>1. share'.ver = 0
      BY <1>1, <2>1, <2>3, ShareFacts
    <3>2. ASSUME share'.pub # "NONE" PROVE FALSE
      <4>1. share'.ver > 0
        BY <1>1, <3>2 DEF StoreInv, StatusesAgree, TypeOK, Shares
      <4> QED
        BY <3>1, <4>1
    <3> QED
      BY <3>2
  <2> QED
    BY <2>1, <2>2, <2>3
<1> QED
  BY <1>2, <1>3

LEMMA ThreadsKeepKnowledge ==
    ASSUME MaintIInv, Knowledge, WorkerNext, Watched, [Next]_shareVars
    PROVE  Knowledge' /\ ToolKept /\ (Undisturbed' => Undisturbed)
<1>1. /\ tool'.mode = tool.mode /\ tool'.pc = tool.pc /\ tool'.rec = tool.rec
      /\ tool'.seen = tool.seen /\ tool'.failed = tool.failed
      /\ Watching' <=> Watching /\ Visible'
      /\ tool.rec = 0 => tool'.touched = tool.touched
  BY WatchedFacts
<1>2. /\ used' \in UsedRecords
      /\ used.overtaken => used'.overtaken
      /\ used'.stalls = used.stalls \/ (used.stalls < MaxStalls /\ used'.stalls = used.stalls + 1)
  BY UsedMoves
<1>3. used.stalls \in Nat /\ MaxStalls \in Nat
  BY BudgetAssumption DEF Knowledge, UsedRecords
<1>4. tool.seen \in Nat
  BY VersionAssumption DEF MaintIInv, Command, Tools
<1>5. Visible' => share'.ver = share.ver
  BY VisibleKeepsVersion DEF MaintIInv, IndexIInv
<1>6. /\ tool.seen <= share'.ver
      /\ tool.pc = "erase" /\ tool.seen = share'.ver => share'.pub \in {"NONE", "UNPUBLISHED"}
  BY <1>4, ErasableStays
<1>7. tool'.mode # "off" => used'.stalls = MaxStalls
  BY <1>1, <1>2, <1>3 DEF Knowledge
<1>8. Knowledge'
  BY <1>1, <1>2, <1>5, <1>6, <1>7 DEF Knowledge
<1>9. ToolKept
  BY <1>1 DEF ToolKept, StaleWrite, Unrepaired
<1>10. Undisturbed' => Undisturbed
  BY <1>1, <1>2, <1>3 DEF Undisturbed
<1> QED
  BY <1>8, <1>9, <1>10

LEMMA ThreadsFound ==
    ASSUME FoundIInv, WorkerNext, Watched
    PROVE  FoundIInv'
<1>1. MaintIInv /\ Knowledge
  BY DEF FoundIInv
<1>2. MaintIInv' /\ [Next]_shareVars
  BY <1>1, MaintNextInv DEF MaintNext
<1>3. Knowledge' /\ ToolKept /\ (Undisturbed' => Undisturbed)
  BY <1>1, <1>2, ThreadsKeepKnowledge
<1>4. ASSUME Undisturbed'
      PROVE  Kept'
  <2>1. Calm
    BY <1>1, <1>3, <1>4 DEF Calm, FoundIInv
  <2>2. Workers \subseteq Owners /\ Requests \subseteq Owners
    BY ProcsAssumption
  <2>3. ASSUME NEW op \in Operations, NEW v \in Versions, Stall(op, v)
        PROVE  FALSE
    <3>1. used \in UsedRecords /\ used'.stalls = used.stalls + 1 /\ used.stalls < MaxStalls
      BY <1>1, <2>3 DEF Stall, Knowledge, UsedRecords
    <3>2. tool.mode = "off" /\ tool'.mode = tool.mode
      BY <1>1, <3>1, WatchedFacts, BudgetAssumption DEF Knowledge, UsedRecords
    <3> QED
      BY <1>4, <3>1, <3>2 DEF Undisturbed, UsedRecords
  <2> QED
    BY <1>3, <1>4, <2>1, <2>2, <2>3, KeptThreadSteps, KeptAuthor, KeptStoreError, KeptEnvironment
    DEF WorkerNext
<1> QED
  BY <1>2, <1>3, <1>4 DEF FoundIInv

----------------------------------------------------------------------------
(* The steps of the command.                                               *)

LEMMA KeptTool ==
    ASSUME Calm, UNCHANGED <<shareVars, proc>>, StaleWrite => StaleWrite',
           share.pub \notin {"UNPUBLISHED", "PUBLIC"} /\ point = share.ver =>
              point' = share.ver \/ StaleWrite',
           Visible /\ (Unrepaired \/ point = share.ver) =>
              point' = share.ver \/ StaleWrite' \/ Unrepaired'
    PROVE  Kept'
<1>1. HoldLeases /\ UpsertIsCurrent /\ LateIsUnpublished /\ Written /\ Indexed
  BY DEF Calm, Kept
<1>2. share' = share /\ jobs' = jobs /\ proc' = proc
  BY DEF shareVars
<1>3. HoldLeases' /\ UpsertIsCurrent' /\ LateIsUnpublished'
  BY <1>1, <1>2
  DEF HoldLeases, Holds, AtWork, LeaseMatches, Op, Ver, UpsertIsCurrent, LateIsUnpublished, LateOK
<1>4. ASSUME NEW p \in Owners
      PROVE  WrittenOK(p)'
  <2> SUFFICES ASSUME proc[p].pc \in {"check", "complete", "conclude"}, Op(p) = "UPSERT",
                      share.pub # "UNPUBLISHED", ~StaleWrite'
               PROVE  point' = share.ver
    BY <1>2 DEF WrittenOK, Op
  <2>1. point = share.ver
    BY <1>1 DEF Written, WrittenOK
  <2>2. share.pub # "PUBLIC"
    BY LeaseFacts DEF AtWork
  <2> QED
    BY <2>1, <2>2
<1>5. Indexed'
  BY <1>1, <1>2 DEF Indexed, Visible
<1> QED
  BY <1>3, <1>4, <1>5 DEF Kept, Written

\* The record of the command after it went on.
LEMMA ToolFields ==
    ASSUME MaintIInv, NEW label, ToolGoto(label) \/ tool' = [tool EXCEPT !.pc = label, !.failed = TRUE]
    PROVE  /\ tool'.mode = tool.mode /\ tool'.pc = label /\ tool'.rec = tool.rec
           /\ tool'.seen = tool.seen /\ tool'.touched = tool.touched
           /\ tool.failed => tool'.failed
           /\ Watching' <=> Watching
<1>1. tool \in Tools
  BY DEF MaintIInv, Command
<1>2. /\ tool'.mode = tool.mode /\ tool'.pc = label /\ tool'.rec = tool.rec
      /\ tool'.seen = tool.seen /\ tool'.touched = tool.touched
      /\ tool.failed => tool'.failed
  BY <1>1 DEF ToolGoto, Tools
<1> QED
  BY <1>2 DEF Watching

LEMMA ToolFailure ==
    ASSUME MaintIInv, NEW label, tool' = [tool EXCEPT !.pc = label, !.failed = TRUE],
           tool.mode # "off"
    PROVE  StaleWrite'
<1>1. tool \in Tools
  BY DEF MaintIInv, Command
<1> QED
  BY <1>1 DEF StaleWrite, Tools

\* The command goes on to a place where it has nothing new to know.
LEMMA KnowledgeGoes ==
    ASSUME MaintIInv, Knowledge, NEW label,
           ToolGoto(label) \/ tool' = [tool EXCEPT !.pc = label, !.failed = TRUE],
           UNCHANGED <<shareVars, used>>, label # "start",
           label \in AfterWatching => ~Watching,
           label = "erase" /\ tool.seen = share.ver => share.pub \in {"NONE", "UNPUBLISHED"}
    PROVE  Knowledge' /\ (Undisturbed' <=> Undisturbed)
<1>1. /\ tool'.mode = tool.mode /\ tool'.pc = label /\ tool'.rec = tool.rec
      /\ tool'.seen = tool.seen /\ tool'.touched = tool.touched
      /\ Watching' <=> Watching
  BY ToolFields
<1>2. share' = share /\ used' = used
  BY DEF shareVars
<1> QED
  BY <1>1, <1>2 DEF Knowledge, Undisturbed, Visible

\* The identity check of the command says whether it still watches the share.
LEMMA IdentityIsWatching ==
    ASSUME MaintIInv, Knowledge
    PROVE  SameIdentity <=> Watching
<1>1. share.pub = "PUBLIC" => share.ver \in Versions
  BY ShareFacts DEF MaintIInv, IndexIInv
<1> QED
  BY <1>1 DEF SameIdentity, Watching, Knowledge, Visible, Versions

LEMMA ListActiveFound ==
    ASSUME FoundIInv, ListActive
    PROVE  Knowledge' /\ (Undisturbed' => Kept')
<1> DEFINE rec == IF Visible THEN share.ver ELSE 0
           label == IF tool.mode = "reconcile" THEN "scroll"
                    ELSE IF Visible THEN "read" ELSE "done"
<1>1. MaintIInv /\ Knowledge /\ tool \in Tools
  BY DEF FoundIInv, MaintIInv, Command
<1>2. tool' = [tool EXCEPT !.rec = rec, !.pc = label]
  BY DEF ListActive
<1>3. /\ tool.mode # "off" /\ tool.pc = "start" /\ tool.rec = 0 /\ ~tool.touched
  BY <1>1 DEF ListActive, ToolAt, Knowledge
<1>4. label \in {"scroll", "read", "done"} /\ (Visible => label \in {"scroll", "read"})
  OBVIOUS
<1> HIDE DEF label
<1>5. /\ tool'.mode = tool.mode /\ tool'.pc = label /\ tool'.rec = rec
      /\ tool'.seen = tool.seen /\ tool'.touched = tool.touched /\ tool'.failed = tool.failed
  BY <1>1, <1>2 DEF Tools
<1>6. UNCHANGED <<shareVars, proc>> /\ share' = share /\ used' = used /\ point' = point
  BY DEF ListActive, ToolReads, shareVars
<1>7. Visible => share.ver > 0
  BY <1>1, ShareFacts DEF MaintIInv, IndexIInv, Visible, Versions
<1>8. Watching' <=> Visible
  BY <1>3, <1>5, <1>7 DEF Watching
<1>9. label \notin AfterWatching /\ label \notin {"start", "erase"}
  BY <1>4 DEF AfterWatching
<1>10. Knowledge'
  BY <1>1, <1>3, <1>5, <1>6, <1>8, <1>9 DEF Knowledge, Visible
<1>11. ASSUME Undisturbed'
       PROVE  Kept'
  <2>1. Calm
    BY <1>1, <1>5, <1>6, <1>11 DEF FoundIInv, Undisturbed, Calm
  <2>2. StaleWrite => StaleWrite'
    BY <1>3, <1>5 DEF StaleWrite
  <2>3. Visible => Unrepaired'
    BY <1>3, <1>4, <1>5, <1>8 DEF Unrepaired
  <2> QED
    BY <1>6, <2>1, <2>2, <2>3, KeptTool
<1> QED
  BY <1>10, <1>11

LEMMA ReadPointsFound ==
    ASSUME FoundIInv, ReadPoints
    PROVE  Knowledge' /\ (Undisturbed' => Kept')
<1> DEFINE label == IF tool.rec # 0 /\ point # tool.rec THEN "read"
                    ELSE IF tool.rec = 0 /\ point # 0 THEN "extra" ELSE "done"
<1>1. MaintIInv /\ Knowledge /\ tool \in Tools
  BY DEF FoundIInv, MaintIInv, Command
<1>2. tool' = [tool EXCEPT !.seen = point, !.pc = label]
  BY DEF ReadPoints
<1>3. tool.mode # "off" /\ tool.pc = "scroll"
  BY DEF ReadPoints, ToolAt
<1>4. /\ label \in {"read", "extra", "done"} /\ (label = "extra" => tool.rec = 0)
      /\ tool.rec # 0 => label = "read" \/ point = tool.rec
  OBVIOUS
<1> HIDE DEF label
<1>5. /\ tool'.mode = tool.mode /\ tool'.pc = label /\ tool'.rec = tool.rec
      /\ tool'.seen = point /\ tool'.touched = tool.touched /\ tool'.failed = tool.failed
  BY <1>1, <1>2 DEF Tools
<1>6. UNCHANGED <<shareVars, proc>> /\ share' = share /\ used' = used /\ point' = point
  BY DEF ReadPoints, ToolReads, shareVars
<1>7. point <= share.ver
  BY <1>1, ToolTypes, ShareFacts DEF MaintIInv, IndexIInv
<1>8. Watching' <=> Watching
  BY <1>5 DEF Watching
<1>9. label # "start" /\ label # "erase" /\ (label \in AfterWatching => ~Watching)
  BY <1>4 DEF AfterWatching, Watching
<1>10. Knowledge'
  BY <1>1, <1>5, <1>6, <1>7, <1>8, <1>9 DEF Knowledge, Visible
<1>11. ASSUME Undisturbed'
       PROVE  Kept'
  <2>1. Calm
    BY <1>1, <1>5, <1>6, <1>11 DEF FoundIInv, Undisturbed, Calm
  <2>2. StaleWrite => StaleWrite'
    BY <1>3, <1>5 DEF StaleWrite
  <2>3. Unrepaired => point = share.ver \/ Unrepaired'
    BY <1>1, <1>3, <1>4, <1>5, <1>8 DEF Unrepaired, Watching, Knowledge
  <2> QED
    BY <1>6, <2>1, <2>2, <2>3, KeptTool
<1> QED
  BY <1>10, <1>11

\* A step of the command that reads, or is about the point alone, and goes on.
LEMMA ToolGoesFound ==
    ASSUME FoundIInv, NEW label, tool.mode # "off",
           ToolGoto(label) \/ tool' = [tool EXCEPT !.pc = label, !.failed = TRUE],
           UNCHANGED <<shareVars, proc, used>>, label # "start",
           label \in AfterWatching => ~Watching,
           label = "erase" /\ tool.seen = share.ver => share.pub \in {"NONE", "UNPUBLISHED"},
           StaleWrite => StaleWrite',
           share.pub \notin {"UNPUBLISHED", "PUBLIC"} /\ point = share.ver =>
              point' = share.ver \/ StaleWrite',
           Visible /\ (Unrepaired \/ point = share.ver) =>
              point' = share.ver \/ StaleWrite' \/ Unrepaired'
    PROVE  Knowledge' /\ (Undisturbed' => Kept')
<1>1. Knowledge' /\ (Undisturbed' <=> Undisturbed)
  BY KnowledgeGoes DEF FoundIInv
<1>2. ASSUME Undisturbed' PROVE Kept'
  BY <1>1, <1>2, KeptTool DEF FoundIInv, Calm
<1> QED
  BY <1>1, <1>2

\* Where the command stands, for each of its steps below.
LEMMA CommandFacts ==
    ASSUME FoundIInv, tool.mode # "off"
    PROVE  /\ MaintIInv /\ Knowledge /\ tool \in Tools
           /\ tool.failed => StaleWrite
           /\ SameIdentity <=> Watching
           /\ tool.pc \in AfterWatching => ~Watching /\ ~Unrepaired
           /\ tool.pc \in {"confirm", "done"} => ~Unrepaired
           /\ tool.seen \in Nat /\ share.ver \in Nat /\ point \in Nat
           /\ Visible => share.pub = "PUBLIC"
<1>1. MaintIInv /\ Knowledge /\ tool \in Tools
  BY DEF FoundIInv, MaintIInv, Command
<1>2. tool.seen \in Nat
  BY <1>1, VersionAssumption DEF Tools
<1>3. share.ver \in Nat /\ point \in Nat
  BY <1>1, ToolTypes, ShareFacts DEF MaintIInv, IndexIInv
<1>4. tool.pc \in AfterWatching => ~Watching /\ ~Unrepaired
  BY <1>1 DEF Knowledge, AfterWatching, Unrepaired
<1>5. tool.pc \in {"confirm", "done"} => ~Unrepaired
  BY DEF Unrepaired
<1> QED
  BY <1>1, <1>2, <1>3, <1>4, <1>5, IdentityIsWatching DEF StaleWrite, Visible

\* The command fails, wherever it stands and whatever its call did.
LEMMA ToolFailsFound ==
    ASSUME FoundIInv, tool.mode # "off", NEW label, label # "start", label # "erase",
           label \in AfterWatching => ~Watching,
           tool' = [tool EXCEPT !.pc = label, !.failed = TRUE],
           UNCHANGED <<shareVars, proc, used>>
    PROVE  Knowledge' /\ (Undisturbed' => Kept')
<1>1. MaintIInv
  BY DEF FoundIInv
<1>2. StaleWrite'
  BY <1>1, ToolFailure
<1> QED
  BY <1>2, ToolGoesFound

LEMMA ReadAuthoritativeFound ==
    ASSUME FoundIInv, ReadAuthoritative
    PROVE  Knowledge' /\ (Undisturbed' => Kept')
<1> DEFINE label == IF ~SameIdentity THEN "done" ELSE IF ToolAt("read") THEN "embed" ELSE "upsert"
<1>1. /\ tool.mode # "off" /\ tool.pc \in {"read", "reread"} /\ ToolGoto(label)
      /\ UNCHANGED <<shareVars, proc, used>> /\ point' = point
  BY DEF ReadAuthoritative, ToolAt, ToolReads
<1>2. /\ label \in {"done", "embed", "upsert"} /\ (SameIdentity => label \in {"embed", "upsert"})
  OBVIOUS
<1> HIDE DEF label
<1>3. MaintIInv /\ Knowledge /\ (SameIdentity <=> Watching)
  BY <1>1, CommandFacts
<1>4. /\ tool'.mode = tool.mode /\ tool'.pc = label /\ (Watching' <=> Watching)
      /\ tool.failed => tool'.failed
  BY <1>1, <1>3, ToolFields
<1>5. StaleWrite => StaleWrite'
  BY <1>1, <1>4 DEF StaleWrite
<1>6. Unrepaired => Unrepaired'
  BY <1>1, <1>2, <1>3, <1>4 DEF Unrepaired
<1>7. label # "start" /\ label # "erase" /\ label \notin AfterWatching
  BY <1>2 DEF AfterWatching
<1> QED
  BY <1>1, <1>5, <1>6, <1>7, ToolGoesFound

LEMMA ToolEmbedsFound ==
    ASSUME FoundIInv, ToolEmbeds
    PROVE  Knowledge' /\ (Undisturbed' => Kept')
<1>1. /\ tool.mode # "off" /\ tool.pc = "embed"
      /\ UNCHANGED <<shareVars, proc, used>> /\ point' = point
  BY DEF ToolEmbeds, ToolAt, ToolReads
<1>2. CASE ToolGoto("reread")
  <2>1. MaintIInv
    BY DEF FoundIInv
  <2>2. /\ tool'.mode = tool.mode /\ tool'.pc = "reread" /\ (Watching' <=> Watching)
        /\ tool.failed => tool'.failed
    BY <1>2, <2>1, ToolFields
  <2>3. (StaleWrite => StaleWrite') /\ (Unrepaired => Unrepaired')
    BY <1>1, <2>2 DEF StaleWrite, Unrepaired
  <2>4. "reread" \notin AfterWatching
    BY DEF AfterWatching
  <2> QED
    BY <1>1, <1>2, <2>3, <2>4, ToolGoesFound
<1>3. CASE ToolFails
  BY <1>1, <1>3, ToolFailsFound DEF ToolFails, AfterWatching
<1> QED
  BY <1>2, <1>3 DEF ToolEmbeds

LEMMA ToolUpsertsFound ==
    ASSUME FoundIInv, ToolUpserts
    PROVE  Knowledge' /\ (Undisturbed' => Kept')
<1>1. /\ tool.mode # "off" /\ tool.pc = "upsert" /\ UNCHANGED <<shareVars, proc, used>>
  BY DEF ToolUpserts, ToolAt
<1>2. CASE Upsert(tool.rec) /\ ToolGoto("confirm")
  <2>1. MaintIInv /\ Knowledge
    BY DEF FoundIInv
  <2>2. /\ tool'.mode = tool.mode /\ tool'.pc = "confirm" /\ (Watching' <=> Watching)
        /\ tool.failed => tool'.failed
    BY <1>2, <2>1, ToolFields
  <2>3. StaleWrite => StaleWrite'
    BY <1>1, <2>2 DEF StaleWrite
  <2>4. CASE Watching
    <3>1. Visible /\ share.ver = tool.rec
      BY <2>1, <2>4 DEF Knowledge
    <3>2. point' = share.ver
      BY <1>2, <3>1 DEF Upsert
    <3> QED
      BY <1>1, <1>2, <2>3, <3>2, ToolGoesFound DEF AfterWatching
  <2>5. CASE ~Watching
    <3>1. StaleWrite'
      BY <1>1, <2>2, <2>5 DEF StaleWrite
    <3> QED
      BY <1>1, <1>2, <3>1, ToolGoesFound DEF AfterWatching
  <2> QED
    BY <2>4, <2>5
<1>3. CASE ToolFails
  BY <1>1, <1>3, ToolFailsFound DEF ToolFails, AfterWatching
<1> QED
  BY <1>2, <1>3 DEF ToolUpserts

LEMMA ToolConfirmsFound ==
    ASSUME FoundIInv, ToolConfirms
    PROVE  Knowledge' /\ (Undisturbed' => Kept')
<1> DEFINE label == IF SameIdentity THEN "done" ELSE "cleanup"
<1>1. /\ tool.mode # "off" /\ tool.pc = "confirm" /\ ToolGoto(label)
      /\ UNCHANGED <<shareVars, proc, used>> /\ point' = point
  BY DEF ToolConfirms, ToolAt, ToolReads
<1>2. label \in {"done", "cleanup"} /\ (SameIdentity <=> label = "done")
  OBVIOUS
<1> HIDE DEF label
<1>3. MaintIInv /\ Knowledge /\ (SameIdentity <=> Watching) /\ ~Unrepaired
  BY <1>1, CommandFacts
<1>4. /\ tool'.mode = tool.mode /\ tool'.pc = label /\ (Watching' <=> Watching)
      /\ tool.failed => tool'.failed
  BY <1>1, <1>3, ToolFields
<1>5. StaleWrite => StaleWrite'
  BY <1>1, <1>2, <1>3, <1>4 DEF StaleWrite
<1>6. label # "start" /\ label # "erase" /\ (label \in AfterWatching => ~Watching)
  BY <1>2, <1>3 DEF AfterWatching
<1> QED
  BY <1>1, <1>3, <1>5, <1>6, ToolGoesFound

LEMMA ToolCleansUpFound ==
    ASSUME FoundIInv, ToolCleansUp
    PROVE  Knowledge' /\ (Undisturbed' => Kept')
<1>1. /\ tool.mode # "off" /\ tool.pc = "cleanup" /\ UNCHANGED <<shareVars, proc, used>>
  BY DEF ToolCleansUp, ToolAt
<1>2. ~Watching
  BY <1>1, CommandFacts DEF AfterWatching
<1>3. PICK label \in {"current", "done"} : tool' = [tool EXCEPT !.pc = label, !.failed = TRUE]
  BY DEF ToolCleansUp, ToolFails
<1> QED
  BY <1>1, <1>2, <1>3, ToolFailsFound

LEMMA ToolReadsCurrentFound ==
    ASSUME FoundIInv, ToolReadsCurrent
    PROVE  Knowledge' /\ (Undisturbed' => Kept')
<1>1. /\ tool.mode # "off" /\ tool.pc = "current" /\ UNCHANGED <<shareVars, proc, used>>
      /\ point' = point
  BY DEF ToolReadsCurrent, ToolAt, ToolReads
<1>2. MaintIInv /\ Knowledge /\ tool \in Tools /\ ~Watching /\ ~Unrepaired
  BY <1>1, CommandFacts DEF AfterWatching
<1>3. CASE Visible
  <2>1. /\ tool'.mode = tool.mode /\ tool'.pc = "requeue" /\ tool'.rec = tool.rec
        /\ tool'.seen = tool.seen /\ tool'.touched = tool.touched /\ tool'.failed
    BY <1>2, <1>3 DEF ToolReadsCurrent, Tools
  <2>2. share' = share /\ used' = used
    BY <1>1 DEF shareVars
  <2>3. StaleWrite'
    BY <1>1, <2>1 DEF StaleWrite
  <2>4. ~Watching'
    BY <1>2, <2>1 DEF Watching
  <2>5. Knowledge'
    BY <1>2, <2>1, <2>2, <2>4 DEF Knowledge, Visible
  <2>6. ASSUME Undisturbed' PROVE Kept'
    <3>1. Calm
      BY <1>2, <2>1, <2>2, <2>6 DEF FoundIInv, Undisturbed, Calm
    <3> QED
      BY <1>1, <2>3, <3>1, KeptTool
  <2> QED
    BY <2>5, <2>6
<1>4. CASE ~Visible
  <2>1. ToolGoto("done")
    BY <1>4 DEF ToolReadsCurrent
  <2>2. tool'.mode = tool.mode /\ tool'.pc = "done" /\ (tool.failed => tool'.failed)
    BY <1>2, <2>1, ToolFields
  <2>3. StaleWrite => StaleWrite'
    BY <1>1, <2>2 DEF StaleWrite
  <2> QED
    BY <1>1, <1>4, <2>1, <2>3, ToolGoesFound DEF AfterWatching
<1> QED
  BY <1>3, <1>4

LEMMA ExtraFound ==
    ASSUME FoundIInv, ExtraUnchanged \/ GuardExtra \/ ConfirmErased
    PROVE  Knowledge' /\ (Undisturbed' => Kept')
<1>1. /\ tool.mode # "off" /\ tool.pc \in {"extra", "guard", "erased"}
      /\ UNCHANGED <<shareVars, proc, used>> /\ point' = point
  BY DEF ExtraUnchanged, GuardExtra, ConfirmErased, ToolAt, ToolReads
<1>2. MaintIInv /\ ~Watching /\ ~Unrepaired
  BY <1>1, CommandFacts DEF AfterWatching
<1>3. ASSUME ToolFails PROVE Knowledge' /\ (Undisturbed' => Kept')
  BY <1>1, <1>3, ToolFailsFound DEF ToolFails, AfterWatching
<1>4. ASSUME NEW label, ToolGoto(label), label # "start",
             label = "erase" /\ tool.seen = share.ver => share.pub \in {"NONE", "UNPUBLISHED"}
      PROVE  Knowledge' /\ (Undisturbed' => Kept')
  <2>1. tool'.mode = tool.mode /\ tool'.pc = label /\ (tool.failed => tool'.failed)
    BY <1>2, <1>4, ToolFields
  <2>2. StaleWrite => StaleWrite'
    BY <1>1, <2>1 DEF StaleWrite
  <2> QED
    BY <1>1, <1>2, <1>4, <2>2, ToolGoesFound
<1>5. CASE ExtraUnchanged
  BY <1>4, <1>5 DEF ExtraUnchanged
<1>6. CASE GuardExtra
  BY <1>4, <1>6 DEF GuardExtra, CanDeleteExtra
<1>7. CASE ConfirmErased
  BY <1>3, <1>4, <1>7 DEF ConfirmErased
<1> QED
  BY <1>5, <1>6, <1>7

LEMMA EraseExtraFound ==
    ASSUME FoundIInv, EraseExtra
    PROVE  Knowledge' /\ (Undisturbed' => Kept')
<1>1. /\ tool.mode # "off" /\ tool.pc = "erase" /\ ToolGoto("erased")
      /\ UNCHANGED <<shareVars, proc, used>> /\ Delete(tool.seen)
  BY DEF EraseExtra, ToolAt
<1>2. MaintIInv /\ Knowledge /\ ~Watching /\ ~Unrepaired
  BY <1>1, CommandFacts DEF AfterWatching
<1>3. tool'.mode = tool.mode /\ tool'.pc = "erased" /\ (tool.failed => tool'.failed)
  BY <1>1, <1>2, ToolFields
<1>4. StaleWrite => StaleWrite'
  BY <1>1, <1>3 DEF StaleWrite
<1>5. ASSUME share.pub # "UNPUBLISHED", point = share.ver
      PROVE  point' = share.ver
  <2>1. CASE point # tool.seen
    BY <1>1, <1>5, <2>1 DEF Delete
  <2>2. CASE point = tool.seen
    <3>1. share.pub = "NONE"
      BY <1>1, <1>2, <1>5, <2>2 DEF Knowledge
    <3>2. share.ver = 0
      BY <1>2, <3>1, ShareFacts DEF MaintIInv, IndexIInv
    <3> QED
      BY <1>1, <2>2, <3>2 DEF Delete
  <2> QED
    BY <2>1, <2>2
<1>6. Visible => share.pub # "UNPUBLISHED"
  BY DEF Visible
<1> QED
  BY <1>1, <1>2, <1>4, <1>5, <1>6, ToolGoesFound DEF AfterWatching

\* The command queues the share again: it watches nothing by then.
LEMMA ToolRequeuesFound ==
    ASSUME FoundIInv, ToolRequeues
    PROVE  Knowledge' /\ (Undisturbed' => Kept')
<1>1. /\ tool.mode # "off" /\ tool.pc = "requeue" /\ ToolGoto("done")
      /\ UNCHANGED <<proc, point, used>>
  BY DEF ToolRequeues, ToolAt
<1>2. MaintIInv /\ Knowledge /\ ~Watching /\ ~Unrepaired
  BY <1>1, CommandFacts DEF AfterWatching
<1>3. /\ tool'.mode = tool.mode /\ tool'.pc = "done" /\ tool'.rec = tool.rec
      /\ tool'.seen = tool.seen /\ tool'.touched = tool.touched
      /\ tool.failed => tool'.failed
      /\ Watching' <=> Watching
  BY <1>1, <1>2, ToolFields
<1>4. StaleWrite => StaleWrite'
  BY <1>1, <1>3 DEF StaleWrite
<1>5. CASE UNCHANGED shareVars
  BY <1>1, <1>2, <1>4, <1>5, ToolGoesFound DEF AfterWatching
<1>6. CASE RequeueCurrentUpsert(tool.cur)
  <2>1. QuietMove(Nobody) /\ ~Visible'
    BY <1>2, <1>6, RequeueQuiet DEF MaintIInv, IndexIInv
  <2>2. share'.ver = share.ver
    BY <2>1 DEF QuietMove
  <2>3. Knowledge'
    BY <1>1, <1>2, <1>3, <2>2 DEF Knowledge, AfterWatching
  <2>4. ASSUME Undisturbed' PROVE Kept'
    <3>1. Calm
      BY <1>1, <1>2, <1>3, <2>4 DEF FoundIInv, Undisturbed, Calm
    <3>2. ToolKept /\ PointKept
      BY <1>1, <1>4, <2>1 DEF ToolKept, PointKept
    <3> QED
      BY <1>1, <2>1, <3>1, <3>2, KeptStill
  <2> QED
    BY <2>3, <2>4
<1> QED
  BY <1>5, <1>6 DEF ToolRequeues

\* Qdrant is restored from a backup, or lost: no thread is at work then, and the
\* command has yet to look.
LEMMA DriftFound ==
    ASSUME FoundIInv, Drift
    PROVE  Knowledge' /\ (Undisturbed' => Kept')
<1>1. /\ tool.mode # "off" /\ tool.pc = "start" /\ Settled
      /\ UNCHANGED <<shareVars, proc, used, tool>>
  BY DEF Drift, ToolAt
<1>2. share' = share /\ jobs' = jobs /\ proc' = proc /\ used' = used /\ tool' = tool
  BY <1>1 DEF shareVars
<1>3. Knowledge'
  BY <1>2 DEF FoundIInv, Knowledge, Watching, Visible
<1>4. ASSUME Undisturbed' PROVE Kept'
  <2>1. Kept
    BY <1>2, <1>4 DEF FoundIInv, Undisturbed
  <2>2. HoldLeases' /\ UpsertIsCurrent' /\ LateIsUnpublished'
    BY <1>2, <2>1
    DEF Kept, HoldLeases, Holds, AtWork, LeaseMatches, Op, Ver, UpsertIsCurrent,
        LateIsUnpublished, LateOK
  <2>3. Written'
    BY <1>1, <1>2 DEF Written, WrittenOK, Settled, At
  <2>4. Indexed'
    BY <1>1, <1>2 DEF Indexed, Unrepaired
  <2> QED
    BY <2>2, <2>3, <2>4 DEF Kept
<1> QED
  BY <1>3, <1>4

LEMMA StutterFound ==
    ASSUME FoundIInv, UNCHANGED maintVars
    PROVE  Knowledge' /\ (Undisturbed' => Kept')
<1>1. /\ share' = share /\ jobs' = jobs /\ proc' = proc /\ used' = used /\ tool' = tool
      /\ point' = point
  BY DEF maintVars
<1>2. Knowledge'
  BY <1>1 DEF FoundIInv, Knowledge, Watching, Visible
<1>3. ASSUME Undisturbed' PROVE Kept'
  <2>1. Kept
    BY <1>1, <1>3 DEF FoundIInv, Undisturbed
  <2> QED
    BY <1>1, <2>1
    DEF Kept, HoldLeases, Holds, AtWork, LeaseMatches, Op, Ver, UpsertIsCurrent,
        LateIsUnpublished, LateOK, Written, WrittenOK, Indexed, Visible, StaleWrite, Unrepaired,
        Watching
<1> QED
  BY <1>2, <1>3

LEMMA FoundNext ==
    ASSUME FoundIInv, [MaintNext]_maintVars
    PROVE  FoundIInv'
<1>1. CASE WorkerNext /\ Watched
  BY <1>1, ThreadsFound
<1>2. CASE ToolStep \/ Drift \/ UNCHANGED maintVars
  <2>1. MaintIInv'
    BY MaintNextInv DEF FoundIInv
  <2>2. Knowledge' /\ (Undisturbed' => Kept')
    BY <1>2, ListActiveFound, ReadPointsFound, ReadAuthoritativeFound, ToolEmbedsFound,
       ToolUpsertsFound, ToolConfirmsFound, ToolCleansUpFound, ToolReadsCurrentFound,
       ToolRequeuesFound, ExtraFound, EraseExtraFound, DriftFound, StutterFound
    DEF ToolStep
  <2> QED
    BY <2>1, <2>2 DEF FoundIInv
<1> QED
  BY <1>1, <1>2 DEF MaintNext

LEMMA FoundInit == MaintInit => FoundIInv
<1> SUFFICES ASSUME MaintInit PROVE FoundIInv
  OBVIOUS
<1>1. MaintIInv /\ Init
  BY MaintInitInv
<1>2. PICK mode \in Modes :
         /\ tool = NewTool(mode)
         /\ used = IF mode = "off"
                   THEN [faults |-> 0, crashes |-> 0, stalls |-> 0, overtaken |-> FALSE]
                   ELSE [faults |-> MaxFaults, crashes |-> MaxCrashes, stalls |-> MaxStalls,
                         overtaken |-> FALSE]
  BY DEF MaintInit
<1>3. /\ tool.mode = mode /\ tool.pc = "start" /\ tool.rec = 0 /\ tool.seen = 0
      /\ ~tool.touched /\ ~tool.failed
  BY <1>2 DEF NewTool
<1>4. used \in UsedRecords /\ (mode # "off" => used.stalls = MaxStalls)
  BY <1>2, BudgetAssumption DEF UsedRecords
<1>5. share.ver = 0 /\ share.pub = "NONE" /\ point = 0
  BY <1>1 DEF Init, MaintInit
<1>6. Knowledge
  BY <1>3, <1>4, <1>5 DEF Knowledge, Watching, AfterWatching
<1>7. \A p \in Owners : proc[p].pc = "idle"
  BY DEF MaintInit, Rest
<1>8. \A v \in Versions : jobs["UPSERT"][v].status \notin {"PENDING", "RUNNING"}
  BY <1>1 DEF Init, NoJob, Unowned, Operations
<1>9. HoldLeases /\ LateIsUnpublished /\ Written
  BY <1>7
  DEF HoldLeases, Holds, AtWork, LateIsUnpublished, LateOK, LatePcs, ReconcilePcs, Written,
      WrittenOK
<1>10. UpsertIsCurrent
  BY <1>8 DEF UpsertIsCurrent
<1>11. Indexed
  BY <1>5 DEF Indexed, Visible
<1> QED
  BY <1>1, <1>6, <1>9, <1>10, <1>11 DEF FoundIInv, Kept

\* Without a command, provider failures and crashes alone never leave a public
\* share out of the index, however authors, workers and request threads interleave.
THEOREM IndexedWithoutToolHolds == MaintSpec => []IndexedWithoutTool
<1>1. FoundIInv => IndexedWithoutTool
  <2> SUFFICES ASSUME FoundIInv, tool.mode = "off", used.stalls = 0, ~used.overtaken, Visible
               PROVE  point = share.ver
    BY DEF IndexedWithoutTool, IndexedUnlessOvertaken, ReadyIsIndexed
  <2>1. Kept
    BY DEF FoundIInv, Undisturbed
  <2> QED
    BY <2>1 DEF Kept, Indexed, StaleWrite, Unrepaired
<1> QED
  BY <1>1, FoundInit, FoundNext, PTL DEF MaintSpec

\* A command that reports no failure has left the index in order: once it is done
\* and the program at rest, a public share is found.
THEOREM CleanReportIsAlwaysTrue == MaintSpec => []CleanReportIsTrue
<1>1. FoundIInv => CleanReportIsTrue
  <2> SUFFICES ASSUME FoundIInv, tool.mode # "off", tool.pc = "done", ~tool.failed,
                      ~used.overtaken, Visible
               PROVE  point = share.ver
    BY DEF CleanReportIsTrue, ReadyIsIndexed
  <2>1. Kept
    BY DEF FoundIInv, Undisturbed
  <2> QED
    BY <2>1 DEF Kept, Indexed, StaleWrite, Unrepaired
<1> QED
  BY <1>1, FoundInit, FoundNext, PTL DEF MaintSpec

=============================================================================
