--------------------------- MODULE GuideRetrieval ---------------------------
(***************************************************************************)
(* The optional RAG runtime: how it is built from the settings, its health, *)
(* and RagRetrievalService.retrieve, which asks Qdrant in four widening     *)
(* stages and then re-reads the rows in MySQL, while authors go on          *)
(* publishing, updating and unpublishing their guides.                      *)
(*                                                                          *)
(* A guide's content is what retrieval tells apart: match, the first stage  *)
(* whose filter accepts it (5: another city); score, the vector score; the  *)
(* bonus of quality, freshness and likes; size, its length in the prompt;   *)
(* builds, whether a reference can be made of it.                           *)
(***************************************************************************)
EXTENDS Integers, FiniteSets, Sequences, FiniteSetsExt

CONSTANTS
    Guides,         \* shares, numbered in the order of their ids
    Own,            \* the share of the session that is being planned
    Contents,       \* contents a version may have
    FirstPublished, \* per guide: when it was published, before time 1
    CandidateLimit, \* RAG_CANDIDATE_LIMIT
    TopK,           \* RAG_TOP_K
    MaxChars,       \* RAG_REFERENCE_MAX_CHARS
    MaxEdits,       \* bound: writes of authors and late index writes
    MaxFailures     \* bound: failed calls of the embedding service, Qdrant and MySQL

ASSUME RetrievalAssumption ==
    /\ Guides \subseteq Nat /\ IsFiniteSet(Guides) /\ Own \in Guides
    /\ Contents \subseteq [match : 1..5, score : Nat, bonus : Nat, size : Nat, builds : BOOLEAN]
    /\ FirstPublished \in [Guides -> Int]
    /\ {CandidateLimit, TopK, MaxChars} \subseteq Nat \ {0}
    /\ MaxEdits \in Nat /\ MaxFailures \in Nat

Stages == 1..4
GuideVersions == 1..(MaxEdits + 1)

VARIABLES
    rag,        \* the runtime: settings, adapters, retriever, worker, health
    guide,      \* per guide: status, version, published_at, the content of every version
    indexed,    \* per guide: version of its point, 0 when there is none
    search,     \* the retrieval under way
    probe,      \* the health check under way: "idle" or "answered"
    edits,      \* writes and failures so far
    lately      \* since the retrieval began, per guide: shown, and unchanged

ragVars == <<rag, guide, indexed, search, probe, edits, lately>>

----------------------------------------------------------------------------
(* RagRuntime.from_settings.                                               *)

SettingGroups == {"core", "rag", "service", "worker", "list"}

NoSettings == [share |-> FALSE, rag |-> FALSE, worker |-> FALSE, bad |-> {}]

Feature(s) == s.share \/ s.rag

\* _runtime_configuration_errors and _configuration_error_applies: the groups of
\* settings that count for the features that are switched on.
CheckedGroups(s) ==
    {"core"} \cup {g \in {"rag"} : s.rag}
             \cup {g \in {"service"} : s.share \/ (Feature(s) /\ s.worker)}
             \cup {g \in {"worker"} : Feature(s) /\ s.worker}
             \cup {g \in {"list"} : s.share}

ConfigErrors(s) == CheckedGroups(s) \cap s.bad

Runtime(status, qdrant, reasons, s) ==
    [built |-> TRUE, status |-> status, qdrant |-> qdrant, reasons |-> reasons,
     adapters |-> status = "ready", retriever |-> status = "ready" /\ s.rag,
     worker |-> status = "ready" /\ s.worker, embeddingFailed |-> FALSE, settings |-> s]

Unbuilt(s) == [built |-> FALSE, status |-> "disabled", qdrant |-> "disabled", reasons |-> {},
               adapters |-> FALSE, retriever |-> FALSE, worker |-> FALSE,
               embeddingFailed |-> FALSE, settings |-> s]

\* Nothing is raised: whatever fails leaves a degraded runtime with no retriever.
FromSettings ==
    LET s == rag.settings
    IN  /\ ~rag.built
        /\ rag' \in
              IF ~Feature(s) THEN {Runtime("disabled", "disabled", {}, s)}
              ELSE IF ConfigErrors(s) # {} THEN {Runtime("degraded", "degraded", ConfigErrors(s), s)}
              ELSE {Runtime("degraded", "degraded", {r}, s) :
                       r \in {"shared_store_unavailable", "qdrant_schema_mismatch",
                              "adapter_initialization_failed", "runtime_initialization_failed"}}
                   \cup {Runtime("ready", "ready", {}, s)}
        /\ UNCHANGED <<guide, indexed, search, probe, edits, lately>>

\* _qdrant_client: kept when a later part fails; where the adapters failed it may be
\* the client that did, and a probe then only repeats what is known.
HasClient ==
    rag.adapters \/ rag.reasons \cap {"qdrant_schema_mismatch", "adapter_initialization_failed",
                                      "runtime_initialization_failed"} # {}

\* The settings are not read again.
Serve ==
    /\ rag.built /\ HasClient /\ rag.settings # NoSettings
    /\ rag' = [rag EXCEPT !.settings = NoSettings, !.worker = FALSE]
    /\ UNCHANGED <<guide, indexed, search, probe, edits, lately>>

----------------------------------------------------------------------------
(* RagHealthState.                                                         *)

\* degrade, for a runtime with RAG enabled
Degrade(reason, qdrant) ==
    rag' = [rag EXCEPT !.status = "degraded", !.reasons = @ \cup {reason},
                       !.qdrant = IF qdrant THEN "degraded" ELSE @]

\* The Qdrant call of the health endpoint.
ProbeCall ==
    /\ rag.settings = NoSettings /\ HasClient /\ probe = "idle"
    /\ \/ probe' = "answered" /\ UNCHANGED <<rag, edits>>
       \/ /\ edits.failures < MaxFailures
          /\ edits' = [edits EXCEPT !.failures = @ + 1]
          /\ Degrade("qdrant_health_check_failed", TRUE) /\ UNCHANGED probe
    /\ UNCHANGED <<guide, indexed, search, lately>>

\* Its answer is applied later, under the lock of the health state.
ProbeAnswered ==
    /\ probe = "answered" /\ probe' = "idle"
    /\ rag' = IF ~rag.adapters THEN rag
              ELSE IF rag.embeddingFailed THEN [rag EXCEPT !.qdrant = "ready"]
              ELSE [rag EXCEPT !.qdrant = "ready", !.status = "ready",
                               !.reasons = @ \ {"qdrant_unavailable", "qdrant_health_check_failed"}]
    /\ UNCHANGED <<guide, indexed, search, edits, lately>>

----------------------------------------------------------------------------
(* Authors and the index, as far as a reader can tell (SharedGuideStore and *)
(* ShareIndexWorker have the details).                                      *)

Edit == edits.writes < MaxEdits /\ edits' = [edits EXCEPT !.writes = @ + 1]

Visible(row) == row.status = "ready"

\* What has happened to guide g while the retrieval runs.
Noted(g) == lately' = [lately EXCEPT ![g] = [shown |-> @.shown \/ Visible(guide'[g]),
                                             still |-> FALSE]]

StageVersion(g) ==
    /\ Edit
    /\ \E c \in Contents :
          guide' = [guide EXCEPT ![g] = [status |-> "staged", ver |-> @.ver + 1, since |-> edits'.writes,
                                         content |-> [@.content EXCEPT ![guide[g].ver + 1] = c]]]
    /\ Noted(g)
    /\ UNCHANGED <<rag, indexed, search, probe>>

\* An upsert of the current version, or a late one of an earlier version.
UpsertPoint(g, v) ==
    /\ v <= guide[g].ver /\ indexed[g] # v
    /\ v < guide[g].ver => Edit
    /\ v = guide[g].ver => guide[g].status # "unpublished" /\ UNCHANGED edits
    /\ indexed' = [indexed EXCEPT ![g] = v]
    /\ UNCHANGED <<rag, guide, search, probe>>
    /\ Noted(g)

MarkReady(g) ==
    /\ guide[g].status = "staged" /\ indexed[g] = guide[g].ver
    /\ guide' = [guide EXCEPT ![g].status = "ready"] /\ Noted(g)
    /\ UNCHANGED <<rag, indexed, search, probe, edits>>

Unpublish(g) ==
    /\ guide[g].status # "unpublished" /\ Edit
    /\ guide' = [guide EXCEPT ![g].status = "unpublished"] /\ Noted(g)
    /\ UNCHANGED <<rag, indexed, search, probe>>

ErasePoint(g) ==
    /\ guide[g].status = "unpublished" /\ indexed[g] # 0
    /\ indexed' = [indexed EXCEPT ![g] = 0]
    /\ UNCHANGED <<rag, guide, search, probe, edits>>
    /\ Noted(g)

----------------------------------------------------------------------------
(* retrieve.                                                               *)

NoHit == [ver |-> 0, stage |-> 0]
NoSearch == [at |-> "idle", stage |-> 0, merged |-> [g \in Guides |-> NoHit],
             reason |-> "none", refs |-> <<>>, broadest |-> 0]

Ended(reason) == search' = [NoSearch EXCEPT !.at = "done", !.reason = reason]

Retrieve ==
    /\ rag.settings = NoSettings /\ rag.retriever /\ search.at = "idle"
    /\ search' = [NoSearch EXCEPT !.at = "embed"]
    /\ lately' = [g \in Guides |-> [shown |-> Visible(guide[g]), still |-> TRUE]]
    /\ UNCHANGED <<rag, guide, indexed, probe, edits>>

CallFails == edits.failures < MaxFailures /\ edits' = [edits EXCEPT !.failures = @ + 1]

\* _embedding_failure sets the flag and then degrades the health under its lock.
EmbedFails ==
    /\ search.at = "embed" /\ CallFails
    /\ rag' = [rag EXCEPT !.embeddingFailed = TRUE]
    /\ search' = [search EXCEPT !.at = "flagged"]
    /\ UNCHANGED <<guide, indexed, probe, lately>>

EmbedDegrades ==
    /\ search.at = "flagged"
    /\ Degrade("embedding_unavailable", FALSE) /\ Ended("embedding_unavailable")
    /\ UNCHANGED <<guide, indexed, probe, edits, lately>>

Embed ==
    /\ search.at = "embed"
    /\ search' = [search EXCEPT !.at = "query", !.stage = 1]
    /\ UNCHANGED <<rag, guide, indexed, probe, edits, lately>>

PointContent(g) == guide[g].content[indexed[g]]

\* _query_filter, with the threshold: the guides a stage may return.
Accepts(g, stage) ==
    /\ indexed[g] # 0
    /\ PointContent(g).match <= stage /\ PointContent(g).score > 0
    /\ search.merged[g] = NoHit

\* The best CandidateLimit of them.
Hits(stage) ==
    LET found == {g \in Guides : Accepts(g, stage)}
    IN  {S \in SUBSET found :
            /\ Cardinality(S) = IF Cardinality(found) < CandidateLimit THEN Cardinality(found)
                                ELSE CandidateLimit
            /\ \A g \in S, h \in found \ S : PointContent(g).score >= PointContent(h).score}

QueryStage ==
    /\ search.at = "query"
    /\ \E S \in Hits(search.stage) :
          LET merged == [g \in Guides |->
                            IF g \in S THEN [ver |-> indexed[g], stage |-> search.stage]
                            ELSE search.merged[g]]
          IN  IF search.stage + 1 \in Stages
              THEN search' = [search EXCEPT !.merged = merged, !.stage = @ + 1]
              ELSE IF \A g \in Guides : merged[g] = NoHit THEN Ended("no_same_city_candidate")
              ELSE search' = [search EXCEPT !.merged = merged, !.at = "recheck"]
    /\ UNCHANGED <<rag, guide, indexed, probe, edits, lately>>

QueryFails ==
    /\ search.at = "query" /\ CallFails
    /\ Degrade("qdrant_unavailable", TRUE) /\ Ended("qdrant_unavailable")
    /\ UNCHANGED <<guide, indexed, probe, lately>>

\* Bug: the row only has to be public and ready.
RowMatchesAnyVersion(g) == Visible(guide[g]) /\ guide[g].content[guide[g].ver].match < 5

\* bulk_get_ready and _application_recheck: PUBLIC, READY, the version and hash of
\* the hit, the city of the request.
RowMatches(g) ==
    /\ Visible(guide[g]) /\ guide[g].ver = search.merged[g].ver
    /\ guide[g].content[guide[g].ver].match < 5

RowContent(g) == guide[g].content[guide[g].ver]
FinalScore(g) == RowContent(g).score + RowContent(g).bonus

\* _sort_candidates: final score, vector score, published_at, then the id.
SameScores(g, h) == FinalScore(g) = FinalScore(h) /\ RowContent(g).score = RowContent(h).score
Before(g, h) ==
    \/ FinalScore(g) > FinalScore(h)
    \/ FinalScore(g) = FinalScore(h) /\ RowContent(g).score > RowContent(h).score
    \/ SameScores(g, h) /\ guide[g].since > guide[h].since
    \/ SameScores(g, h) /\ guide[g].since = guide[h].since /\ g < h

Ranked(S) ==
    CHOOSE q \in [1..Cardinality(S) -> S] : \A i, j \in DOMAIN q : i < j => Before(q[i], q[j])

\* _prompt_length of the first n references.
PromptLength(q) ==
    LET length[n \in 0..Len(q)] ==
            IF n = 0 THEN 0 ELSE length[n - 1] + RowContent(q[n]).size
    IN  length

\* The first TopK, less as many from the end as the prompt has no room for.
Fitting(q) ==
    LET top == SubSeq(q, 1, IF Len(q) < TopK THEN Len(q) ELSE TopK)
    IN  SubSeq(top, 1, Max({n \in 0..Len(top) : PromptLength(top)[n] <= MaxChars}))

\* A row of which no reference can be built is skipped.
Recheck ==
    LET checked == {g \in Guides \ {Own} : search.merged[g] # NoHit /\ RowMatches(g)}
        refs == Fitting(Ranked({g \in checked : RowContent(g).builds}))
    IN  /\ search.at = "recheck"
        /\ IF checked = {} THEN Ended("mysql_recheck_empty")
           ELSE IF refs = <<>> THEN Ended("invalid_reference")
           ELSE search' = [search EXCEPT !.at = "done", !.reason = "hit", !.refs = refs,
                             !.broadest = Max({search.merged[refs[i]].stage : i \in DOMAIN refs})]
        /\ UNCHANGED <<rag, guide, indexed, probe, edits, lately>>

\* bulk_get_ready raises; the health is not touched.
RecheckFails ==
    /\ search.at = "recheck" /\ CallFails /\ Ended("unexpected_error")
    /\ UNCHANGED <<rag, guide, indexed, probe, lately>>

----------------------------------------------------------------------------
RagInit ==
    /\ \E share, ragOn, worker \in BOOLEAN, bad \in SUBSET SettingGroups :
          rag = Unbuilt([share |-> share, rag |-> ragOn, worker |-> worker, bad |-> bad])
    /\ \E f \in [Guides -> Contents] :
          guide = [g \in Guides |-> [status |-> "ready", ver |-> 1, since |-> FirstPublished[g],
                                     content |-> [v \in GuideVersions |-> f[g]]]]
    /\ indexed = [g \in Guides |-> 1]
    /\ search = NoSearch /\ probe = "idle"
    /\ edits = [writes |-> 0, failures |-> 0]
    /\ lately = [g \in Guides |-> [shown |-> TRUE, still |-> TRUE]]

\* Authors' writes outside a retrieval only choose where it starts.
AuthorStep(g) ==
    /\ rag.settings = NoSettings /\ rag.retriever /\ search.at # "done"
    /\ \/ StageVersion(g)
       \/ \E v \in GuideVersions : UpsertPoint(g, v)
       \/ MarkReady(g)
       \/ Unpublish(g)
       \/ ErasePoint(g)

RagNext ==
    \/ FromSettings \/ Serve
    \/ ProbeCall \/ ProbeAnswered
    \/ \E g \in Guides : AuthorStep(g)
    \/ Retrieve \/ Embed \/ EmbedFails \/ EmbedDegrades
    \/ QueryStage \/ QueryFails \/ Recheck \/ RecheckFails

RagSpec == RagInit /\ [][RagNext]_ragVars

----------------------------------------------------------------------------
\* The variables have their types, and a runtime is built for settings it can run
\* with: a retriever, a worker only where every group of settings they read is valid.
RagTypeOK ==
    /\ rag.status \in {"disabled", "degraded", "ready"}
    /\ rag.retriever /\ rag.settings # NoSettings => rag.settings.bad \cap {"core", "rag"} = {}
    /\ rag.worker => rag.settings.bad \cap {"core", "service", "worker"} = {}
    /\ \A g \in Guides : indexed[g] \in 0..guide[g].ver /\ guide[g].ver \in GuideVersions
    /\ Len(search.refs) <= TopK /\ search.stage \in {0} \cup Stages

\* A reported "ready" is never the answer to an old probe: while the failure of
\* the embedding service is known, or any reason is listed, the health is degraded.
ReadyHasNoReason ==
    rag.status = "ready" =>
        rag.reasons = {} /\ (rag.embeddingFailed => search.at = "flagged")

Shown == {search.refs[i] : i \in DOMAIN search.refs}

\* Every reference was public and ready at some time since the retrieval began,
\* and none belongs to the session that is planned, although Qdrant may hold
\* points of unpublished guides and of other versions.
ShownWasPublic == search.at = "done" => \A g \in Shown : lately[g].shown /\ g # Own

\* The filter stage that is reported is true of every reference: what its row
\* says, not what the point said in the stage that found it, passes that filter.
StageIsTrue ==
    search.at = "done" =>
        \A g \in Shown : RowContent(g).match <= search.broadest

\* All guides fit into what the stages can return.
RoomForAll == Cardinality(Guides) <= Cardinality(Stages) * CandidateLimit

\* A guide that fits the request and is left alone is not crowded out by stale
\* points: where the stages have room for all guides, the retrieval finds a
\* reference unless a call fails, no reference can be built or the prompt has no room.
StableIsFound ==
    RoomForAll /\ search.at = "done" /\ search.reason \notin {"embedding_unavailable", "qdrant_unavailable",
                                                "unexpected_error", "hit", "invalid_reference"} =>
        \A g \in Guides \ {Own} :
            ~(lately[g].still /\ Visible(guide[g]) /\ indexed[g] = guide[g].ver
              /\ RowContent(g).match = 1 /\ RowContent(g).score > 0)

\* What a retrieval returns while rows and points change under it: guides that
\* were public, passed the stage that is reported, and were not crowded out; and a
\* health that does not hide a known failure.
RetrievalInv == RagTypeOK /\ ReadyHasNoReason /\ ShownWasPublic /\ StageIsTrue /\ StableIsFound

=============================================================================
