--------------------------- MODULE ContentProofs ----------------------------
(***************************************************************************)
(* Proofs about what reaches a user: the references a retrieval returns,   *)
(* for any number of guides and edits, and the plans the validator and the *)
(* acceptance policy let through, for any plan the model writes.           *)
(*                                                                         *)
(* A retrieval is judged when it is done, while rows and points changed    *)
(* under it; the invariant says what the stages so far have kept.  A plan  *)
(* is judged by the codes of its issues; the proof goes from the absence of*)
(* a code to what the code was about.                                      *)
(***************************************************************************)
EXTENDS GuideRetrieval, PlanValidation, DataInduction

\* The reasons a degraded runtime can list, and the values of its other fields.
Reasons == SettingGroups \cup
    {"shared_store_unavailable", "qdrant_schema_mismatch", "adapter_initialization_failed",
     "runtime_initialization_failed", "qdrant_unavailable", "qdrant_health_check_failed",
     "embedding_unavailable"}
RagSettings == [share : BOOLEAN, rag : BOOLEAN, worker : BOOLEAN, bad : SUBSET SettingGroups]
RagStates ==
    [built : BOOLEAN, status : {"disabled", "degraded", "ready"},
     qdrant : {"disabled", "degraded", "ready"}, reasons : SUBSET Reasons, adapters : BOOLEAN,
     retriever : BOOLEAN, worker : BOOLEAN, embeddingFailed : BOOLEAN, settings : RagSettings]
GuideRows == [status : {"ready", "staged", "unpublished"}, ver : GuideVersions, since : Int,
              content : [GuideVersions -> Contents]]
Merges == [ver : Nat, stage : {0} \cup Stages]
EndReasons == {"none", "hit", "invalid_reference", "mysql_recheck_empty", "no_same_city_candidate",
               "embedding_unavailable", "qdrant_unavailable", "unexpected_error"}
Searches == [at : {"idle", "embed", "flagged", "query", "recheck", "done"}, stage : {0} \cup Stages,
             merged : [Guides -> Merges], reason : EndReasons, refs : Seq(Guides), broadest : Nat]

\* The variables have their types.
RagTypes ==
    /\ rag \in RagStates
    /\ guide \in [Guides -> GuideRows]
    /\ indexed \in [Guides -> Nat]
    /\ search \in Searches
    /\ probe \in {"idle", "answered"}
    /\ edits \in [writes : 0..MaxEdits, failures : Nat]
    /\ lately \in [Guides -> [shown : BOOLEAN, still : BOOLEAN]]

\* No point is of a version that was not written, and each version was a write.
VersionsWritten ==
    \A g \in Guides : indexed[g] <= guide[g].ver /\ guide[g].ver <= edits.writes + 1

\* What a runtime has was built for settings that are valid; its reasons.
RuntimeSound ==
    /\ rag.retriever => rag.adapters
    /\ ~rag.built => ~rag.adapters /\ ~rag.worker /\ ~rag.embeddingFailed /\ rag.reasons = {}
    /\ search.at # "idle" => rag.retriever /\ rag.settings = NoSettings
    /\ rag.retriever /\ rag.settings # NoSettings => rag.settings.bad \cap {"core", "rag"} = {}
    /\ rag.worker => rag.settings.bad \cap {"core", "service", "worker"} = {}
    /\ rag.adapters =>
          rag.reasons \subseteq {"qdrant_unavailable", "qdrant_health_check_failed", "embedding_unavailable"}
    /\ "embedding_unavailable" \in rag.reasons \/ search.at = "flagged" => rag.embeddingFailed

Running == search.at \in {"embed", "flagged", "query", "recheck"}

\* How many stages have answered.
Answered == CASE search.at = "query" -> search.stage - 1 [] search.at = "recheck" -> 4 [] OTHER -> 0

FoundGuides == {g \in Guides : search.merged[g] # NoHit}

\* A guide that is left alone and that a stage would return.
Waiting(g) ==
    /\ lately[g].still /\ indexed[g] # 0 /\ search.merged[g] = NoHit
    /\ PointContent(g).match = 1 /\ PointContent(g).score > 0

\* What the stages have merged so far: a version that was written and that passed
\* the stage that found it, the version of the point where the guide was left alone;
\* and as many as the stages can return, when one that fits is still missing.
MergedSound ==
    /\ search.at = "query" => search.stage \in Stages
    /\ search.at \in {"idle", "embed", "flagged"} => search.merged = [g \in Guides |-> NoHit]
    /\ Running =>
        /\ \A g \in Guides :
              /\ Visible(guide[g]) => lately[g].shown
              /\ search.merged[g] # NoHit =>
                    /\ search.merged[g].ver \in 1..guide[g].ver
                    /\ search.merged[g].stage \in Stages
                    /\ guide[g].content[search.merged[g].ver].match <= search.merged[g].stage
                    /\ lately[g].still => search.merged[g].ver = indexed[g]
              /\ Waiting(g) => Cardinality(FoundGuides) >= Answered * CandidateLimit
    /\ search.at # "done" => search.refs = <<>>

\* The inductive invariant of the retrieval: what RetrievalInv says of a retrieval that
\* is done is what the stages keep of one that runs.
RIInv ==
    /\ RagTypes /\ VersionsWritten /\ RuntimeSound /\ MergedSound
    /\ Len(search.refs) <= TopK
    /\ ReadyHasNoReason /\ ShownWasPublic /\ StageIsTrue /\ StableIsFound
-----------------------------------------------------------------------------
(* Helpers.                                                                *)

\* A bounded set of naturals has a maximum.
LEMMA MaxOfBounded ==
    ASSUME NEW S, S \subseteq Nat, S # {}, NEW b \in Nat, \A x \in S : x <= b
    PROVE  Max(S) \in S /\ \A x \in S : x <= Max(S)
<1> DEFINE D == {b - x : x \in S}
<1>1. D \subseteq Nat /\ D # {}
  <2>1. \A x \in S : b - x \in Nat
    OBVIOUS
  <2> QED
    BY <2>1
<1>2. PICK d \in D : \A e \in D : d <= e
  <2> HIDE DEF D
  <2> QED
    BY <1>1, LeastNatural
<1>3. PICK m \in S : d = b - m
  OBVIOUS
<1>4. ASSUME NEW y \in S PROVE m >= y
  <2>1. b - y \in D
    OBVIOUS
  <2>2. b - m <= b - y /\ m \in Nat /\ y \in Nat
    BY <1>2, <1>3, <2>1
  <2> QED
    BY <2>2
<1>5. Max(S) \in S /\ \A x \in S : Max(S) >= x
  BY <1>4 DEF Max
<1> QED
  BY <1>5

\* A row's content is one of Contents.
LEMMA RowContentType ==
    ASSUME RagTypes, NEW g \in Guides
    PROVE  /\ RowContent(g) \in Contents /\ RowContent(g).match \in 1..5
           /\ RowContent(g).score \in Nat /\ RowContent(g).size \in Nat
           /\ FinalScore(g) \in Nat /\ guide[g].since \in Int
<1>1. RowContent(g) \in Contents /\ guide[g].since \in Int
  BY DEF RagTypes, RowContent, GuideRows
<1> QED
  BY <1>1, RetrievalAssumption DEF FinalScore

\* The checked rows, in the order of _sort_candidates: the sort has a result.
LEMMA RankedListing ==
    ASSUME RagTypes, NEW S \in SUBSET Guides
    PROVE  Ranked(S) \in [1..Cardinality(S) -> S] /\ Cardinality(S) \in Nat
<1>1. IsFiniteSet(S) /\ Cardinality(S) \in Nat
  BY RetrievalAssumption, FS_Subset, FS_CardinalityType
<1> DEFINE R == {p \in Guides \X Guides : Before(p[1], p[2])}
<1>2. \A g, h \in Guides : <<g, h>> \in R <=> Before(g, h)
  OBVIOUS
<1>3. \A g \in Guides : ~Before(g, g)
  <2> TAKE g \in Guides
  <2>1. g \in Nat /\ RowContent(g).score \in Nat /\ FinalScore(g) \in Nat /\ guide[g].since \in Int
    BY RetrievalAssumption, RowContentType
  <2> QED
    BY <2>1 DEF Before, SameScores
<1>4. \A g, h, k \in Guides : Before(g, h) /\ Before(h, k) => Before(g, k)
  <2> TAKE g, h, k \in Guides
  <2>1. /\ g \in Nat /\ h \in Nat /\ k \in Nat
        /\ RowContent(g).score \in Nat /\ RowContent(h).score \in Nat /\ RowContent(k).score \in Nat
        /\ FinalScore(g) \in Nat /\ FinalScore(h) \in Nat /\ FinalScore(k) \in Nat
        /\ guide[g].since \in Int /\ guide[h].since \in Int /\ guide[k].since \in Int
    BY RetrievalAssumption, RowContentType
  <2> QED
    BY <2>1 DEF Before, SameScores
<1>5. \A g, h \in Guides : g # h => Before(g, h) \/ Before(h, g)
  <2> TAKE g, h \in Guides
  <2>1. /\ g \in Nat /\ h \in Nat
        /\ RowContent(g).score \in Nat /\ RowContent(h).score \in Nat
        /\ FinalScore(g) \in Nat /\ FinalScore(h) \in Nat
        /\ guide[g].since \in Int /\ guide[h].since \in Int
    BY RetrievalAssumption, RowContentType
  <2> QED
    BY <2>1 DEF Before, SameScores
<1>6. \E q \in [1..Cardinality(S) -> S] :
         \A i, j \in 1..Cardinality(S) : i < j => <<q[i], q[j]>> \in R
  <2> HIDE DEF R
  <2>1. \A x \in S : <<x, x>> \notin R
    BY <1>2, <1>3
  <2>2. \A x, y, z \in S : <<x, y>> \in R /\ <<y, z>> \in R => <<x, z>> \in R
    BY <1>2, <1>4
  <2>3. \A x, y \in S : x # y => <<x, y>> \in R \/ <<y, x>> \in R
    BY <1>2, <1>5
  <2> QED
    BY <1>1, <2>1, <2>2, <2>3, SortedListing
<1>7. \E q \in [1..Cardinality(S) -> S] : \A i, j \in DOMAIN q : i < j => Before(q[i], q[j])
  <2> HIDE DEF R
  <2>1. PICK q \in [1..Cardinality(S) -> S] :
         \A i, j \in 1..Cardinality(S) : i < j => <<q[i], q[j]>> \in R
    BY <1>6
  <2> QED
    BY <1>2, <2>1
<1> QED
  BY <1>1, <1>7 DEF Ranked

\* The prompt's length is counted from nothing.
LEMMA PromptLengthStarts ==
    ASSUME RagTypes, NEW m \in Nat, NEW q \in [1..m -> Guides]
    PROVE  Len(q) = m /\ PromptLength(q)[0] = 0
<1>0. Len(q) = m
  OBVIOUS
<1> DEFINE w == [i \in 1..m |-> RowContent(q[i]).size]
           Solves(l) == l = [n \in 0..m |-> IF n = 0 THEN 0 ELSE l[n - 1] + RowContent(q[n]).size]
<1>1. AreWeights(m, w)
  BY RowContentType DEF AreWeights
<1>2. PICK f : IsRunningTotal(f, m, w)
  <2> HIDE DEF w
  <2> QED
    BY <1>1, RunningTotal
<1>3. Solves(f)
  <2>1. \A n \in 1..m : w[n] = RowContent(q[n]).size
    OBVIOUS
  <2>2. \A n \in 0..m : f[n] = IF n = 0 THEN 0 ELSE f[n - 1] + w[n]
    <3> HIDE DEF w
    <3> QED
      BY <1>2 DEF IsRunningTotal
  <2>3. \A n \in 0..m : f[n] = IF n = 0 THEN 0 ELSE f[n - 1] + RowContent(q[n]).size
    <3> HIDE DEF w
    <3> QED
      BY <2>1, <2>2
  <2>4. f = [n \in 0..m |-> f[n]]
    BY <1>2 DEF IsRunningTotal
  <2> HIDE DEF w
  <2> QED
    BY <2>3, <2>4
<1>4. PromptLength(q) = CHOOSE l : Solves(l)
  BY <1>0 DEF PromptLength
<1>5. Solves(PromptLength(q))
  <2> HIDE DEF Solves
  <2> QED
    BY <1>3, <1>4
<1>6. 0 \in 0..m
  OBVIOUS
<1> QED
  <2>1. PromptLength(q)[0] = IF 0 = 0 THEN 0 ELSE PromptLength(q)[0 - 1] + RowContent(q[0]).size
    BY <1>5, <1>6
  <2> QED
    BY <1>0, <2>1

\* What is returned: at most TopK references, each of a checked row.
LEMMA FittingRefs ==
    ASSUME RagTypes, NEW S \in SUBSET Guides
    PROVE  /\ Fitting(Ranked(S)) \in Seq(S) /\ Len(Fitting(Ranked(S))) <= TopK
<1> DEFINE q == Ranked(S)
           c == Cardinality(S)
           t == IF Len(q) < TopK THEN Len(q) ELSE TopK
           top == SubSeq(q, 1, t)
           N == {n \in 0..Len(top) : PromptLength(top)[n] <= MaxChars}
<1>1. c \in Nat /\ q \in [1..c -> S]
  BY RankedListing
<1>2. q \in Seq(S) /\ Len(q) = c
  <2> HIDE DEF q, c
  <2> QED
    BY <1>1
<1>3. TopK \in Nat /\ MaxChars \in Nat
  BY RetrievalAssumption
<1>4. t \in 0..c /\ t <= TopK
  <2> HIDE DEF q, c
  <2> QED
    BY <1>1, <1>2, <1>3
<1>5. top \in [1..t -> S] /\ Len(top) = t /\ top \in Seq(S)
  <2> HIDE DEF q, c, t
  <2> QED
    BY <1>1, <1>2, <1>4, PrefixOfSeq
<1>6. PromptLength(top)[0] = 0
  <2> HIDE DEF q, c, t, top
  <2>1. t \in Nat /\ top \in [1..t -> Guides]
    BY <1>1, <1>4, <1>5
  <2> QED
    BY <2>1, PromptLengthStarts
<1>7. N \subseteq Nat /\ N # {} /\ \A n \in N : n <= t
  <2> HIDE DEF q, c, t, top
  <2>1. t \in Nat
    BY <1>1, <1>4
  <2>2. 0 \in N
    BY <1>3, <1>5, <1>6, <2>1
  <2> QED
    BY <1>5, <2>1, <2>2
<1>8. Max(N) \in 0..t
  <2> HIDE DEF q, c, t, top
  <2>1. Max(N) \in N
    <3> HIDE DEF N
    <3>1. t \in Nat
      BY <1>1, <1>4
    <3> QED
      BY <1>7, <3>1, MaxOfBounded
  <2> QED
    BY <1>5, <2>1
<1>9. Fitting(q) = SubSeq(top, 1, Max(N))
  BY DEF Fitting
<1>10. SubSeq(top, 1, Max(N)) \in Seq(S) /\ Len(SubSeq(top, 1, Max(N))) = Max(N)
  <2> HIDE DEF q, c, t, top, N
  <2> QED
    BY <1>1, <1>4, <1>5, <1>8
<1> QED
  <2> HIDE DEF q, c, t, top, N
  <2>1. Fitting(q) \in Seq(S) /\ Len(Fitting(q)) <= TopK
    BY <1>1, <1>3, <1>4, <1>8, <1>9, <1>10
  <2> QED
    BY <2>1 DEF q
-----------------------------------------------------------------------------
(* The runtime and its health.                                             *)

\* No retrieval, and one that ended with nothing, are searches.
LEMMA NoSearchType ==
    /\ NoSearch \in Searches
    /\ \A r \in EndReasons : [NoSearch EXCEPT !.at = "done", !.reason = r] \in Searches
<1>1. NoHit \in Merges /\ <<>> \in Seq(Guides)
  BY EmptySeq DEF NoHit, Merges
<1>2. [g \in Guides |-> NoHit] \in [Guides -> Merges]
  BY <1>1
<1> DEFINE m == [g \in Guides |-> NoHit]
<1>3. NoSearch = [at |-> "idle", stage |-> 0, merged |-> m, reason |-> "none", refs |-> <<>>, broadest |-> 0]
  BY DEF NoSearch
<1> HIDE DEF m
<1>4. m \in [Guides -> Merges]
  BY <1>2 DEF m
<1>5. /\ "none" \in EndReasons /\ 0 \in {0} \cup Stages /\ 0 \in Nat
      /\ "idle" \in {"idle", "embed", "flagged", "query", "recheck", "done"}
  BY DEF EndReasons
<1>6. NoSearch \in Searches
  BY <1>1, <1>3, <1>4, <1>5, Zenon DEF Searches
<1>7. ASSUME NEW r \in EndReasons PROVE [NoSearch EXCEPT !.at = "done", !.reason = r] \in Searches
  BY <1>6 DEF Searches
<1> QED
  BY <1>6, <1>7

\* Before the runtime is built nothing is found and no reason is listed.
LEMMA RetrievalStarts == RagInit => RIInv
<1> SUFFICES ASSUME RagInit PROVE RIInv
  OBVIOUS
<1>0. MaxEdits \in Nat /\ TopK \in Nat /\ 1 \in GuideVersions
  BY RetrievalAssumption DEF GuideVersions
<1>1. search = NoSearch /\ search.at = "idle" /\ search.refs = <<>> /\ search.stage = 0
      /\ search.merged = [g \in Guides |-> NoHit]
  BY DEF RagInit, NoSearch
<1>2. RagTypes
  <2>1. rag \in RagStates
    BY DEF RagInit, Unbuilt, RagStates, RagSettings
  <2>2. guide \in [Guides -> GuideRows]
    <3>1. FirstPublished \in [Guides -> Int]
      BY RetrievalAssumption
    <3> QED
      BY <1>0, <3>1 DEF RagInit, GuideRows
  <2>3. search \in Searches
    BY NoSearchType DEF RagInit
  <2> QED
    BY <1>0, <2>1, <2>2, <2>3 DEF RagInit, RagTypes
<1>3. VersionsWritten
  BY DEF RagInit, VersionsWritten
<1>4. RuntimeSound /\ ReadyHasNoReason
  BY <1>1 DEF RagInit, Unbuilt, RuntimeSound, ReadyHasNoReason
<1>5. MergedSound
  BY <1>1 DEF MergedSound, Running
<1>6. Len(search.refs) <= TopK
  BY <1>0, <1>1
<1>7. ShownWasPublic /\ StageIsTrue /\ StableIsFound
  BY <1>1 DEF ShownWasPublic, StageIsTrue, StableIsFound
<1> QED
  BY <1>2, <1>3, <1>4, <1>5, <1>6, <1>7 DEF RIInv

\* A step of the health leaves what the retrieval has found.
LEMMA HealthStep ==
    ASSUME RIInv, UNCHANGED <<guide, indexed, search, lately>>, edits'.writes = edits.writes,
           RagTypes', RuntimeSound', ReadyHasNoReason'
    PROVE  RIInv'
<1>1. VersionsWritten'
  BY DEF RIInv, VersionsWritten
<1>2. MergedSound'
  BY DEF RIInv, MergedSound, Running, Answered, FoundGuides, Waiting, PointContent, Visible
<1>3. (Len(search.refs) <= TopK)'
  BY DEF RIInv
<1>4. ShownWasPublic' /\ StageIsTrue' /\ StableIsFound'
  BY DEF RIInv, ShownWasPublic, StageIsTrue, StableIsFound, Shown, RowContent, Visible, RoomForAll
<1> QED
  BY <1>1, <1>2, <1>3, <1>4 DEF RIInv

\* from_settings: the parts it builds are those whose settings are valid, and each
\* failure on the way leaves its reason.
LEMMA FromSettingsKeeps == RIInv /\ FromSettings => RIInv'
<1> SUFFICES ASSUME RIInv, FromSettings PROVE RIInv'
  OBVIOUS
<1> DEFINE s == rag.settings
<1>0. rag \in RagStates /\ s \in RagSettings /\ ~rag.built /\ UNCHANGED <<guide, indexed, search, probe, edits, lately>>
  BY DEF RIInv, RagTypes, RagStates, FromSettings
<1>1. search.at = "idle" /\ search.at \in {"idle", "embed", "flagged", "query", "recheck", "done"}
  BY <1>0 DEF RIInv, RuntimeSound, RagTypes, Searches
<1>2. PICK st \in {"disabled", "degraded", "ready"}, rs \in SUBSET (Reasons \ {"embedding_unavailable"}) :
        /\ rag' = Runtime(st, st, rs, s)
        /\ st = "ready" => rs = {} /\ ConfigErrors(s) = {} /\ Feature(s)
  <2>1. CASE ~Feature(s)
    BY <2>1 DEF FromSettings
  <2>2. CASE Feature(s) /\ ConfigErrors(s) # {}
    <3>1. ConfigErrors(s) \in SUBSET (Reasons \ {"embedding_unavailable"})
      BY DEF ConfigErrors, CheckedGroups, Reasons, SettingGroups
    <3> QED
      BY <2>2, <3>1 DEF FromSettings
  <2>3. CASE Feature(s) /\ ConfigErrors(s) = {}
    <3>1. \/ \E r \in {"shared_store_unavailable", "qdrant_schema_mismatch",
                        "adapter_initialization_failed", "runtime_initialization_failed"} :
                rag' = Runtime("degraded", "degraded", {r}, s)
          \/ rag' = Runtime("ready", "ready", {}, s)
      BY <2>3 DEF FromSettings
    <3> QED
      BY <2>3, <3>1 DEF Reasons
  <2> QED
    BY <2>1, <2>2, <2>3
<1>3. rag' \in RagStates
  BY <1>0, <1>2 DEF Runtime, RagStates, RagSettings
<1>4. RagTypes'
  BY <1>0, <1>3 DEF RIInv, RagTypes
<1>5. s.rag /\ ConfigErrors(s) = {} => s.bad \cap {"core", "rag"} = {}
  BY <1>0 DEF ConfigErrors, CheckedGroups
<1>6. Feature(s) /\ s.worker /\ ConfigErrors(s) = {} => s.bad \cap {"core", "service", "worker"} = {}
  BY <1>0 DEF ConfigErrors, CheckedGroups, Feature
<1>7. RuntimeSound'
  BY <1>0, <1>1, <1>2, <1>5, <1>6 DEF RuntimeSound, Runtime
<1>8. ReadyHasNoReason'
  BY <1>0, <1>2 DEF ReadyHasNoReason, Runtime
<1> QED
  BY <1>0, <1>4, <1>7, <1>8, HealthStep

\* The service starts to serve with the settings it was built from.
LEMMA ServeKeeps == RIInv /\ Serve => RIInv'
<1> SUFFICES ASSUME RIInv, Serve PROVE RIInv'
  OBVIOUS
<1>0. rag \in RagStates /\ rag.built /\ UNCHANGED <<guide, indexed, search, probe, edits, lately>>
  BY DEF RIInv, RagTypes, Serve
<1>1. rag' = [rag EXCEPT !.settings = NoSettings, !.worker = FALSE]
  BY DEF Serve
<1>2. RagTypes'
  BY <1>0, <1>1 DEF RIInv, RagTypes, RagStates, RagSettings, NoSettings
<1>3. RuntimeSound'
  BY <1>0, <1>1 DEF RIInv, RuntimeSound, RagStates
<1>4. ReadyHasNoReason'
  BY <1>0, <1>1 DEF RIInv, ReadyHasNoReason, RagStates
<1> QED
  BY <1>0, <1>2, <1>3, <1>4, HealthStep

\* The health probe asks Qdrant; nothing is known before it answers.
LEMMA ProbeCallKeeps == RIInv /\ ProbeCall => RIInv'
<1> SUFFICES ASSUME RIInv, ProbeCall PROVE RIInv'
  OBVIOUS
<1>0. rag \in RagStates /\ UNCHANGED <<guide, indexed, search, lately>>
  BY DEF RIInv, RagTypes, ProbeCall
<1>1. CASE probe' = "answered" /\ UNCHANGED <<rag, edits>>
  <2>1. RagTypes' /\ RuntimeSound' /\ ReadyHasNoReason' /\ edits'.writes = edits.writes
    BY <1>0, <1>1 DEF RIInv, RagTypes, RuntimeSound, ReadyHasNoReason
  <2> QED
    BY <1>0, <2>1, HealthStep
<1>2. CASE /\ edits' = [edits EXCEPT !.failures = @ + 1]
           /\ Degrade("qdrant_health_check_failed", TRUE) /\ UNCHANGED probe
  <2>1. edits' \in [writes : 0..MaxEdits, failures : Nat] /\ edits'.writes = edits.writes
    BY <1>2 DEF RIInv, RagTypes
  <2>2. rag' = [rag EXCEPT !.status = "degraded", !.reasons = rag.reasons \cup {"qdrant_health_check_failed"},
                           !.qdrant = "degraded"]
    BY <1>2 DEF Degrade
  <2>3. rag' \in RagStates
    BY <1>0, <2>2 DEF RagStates, Reasons
  <2>4. RagTypes'
    BY <1>0, <1>2, <2>1, <2>3 DEF RIInv, RagTypes
  <2>5. rag.built
    BY DEF ProbeCall, HasClient, RIInv, RuntimeSound
  <2>6. RuntimeSound'
    BY <1>0, <2>2, <2>5 DEF RIInv, RuntimeSound, RagStates
  <2>7. ReadyHasNoReason'
    BY <1>0, <2>2 DEF ReadyHasNoReason, RagStates
  <2> QED
    BY <1>0, <2>1, <2>4, <2>6, <2>7, HealthStep
<1> QED
  BY <1>1, <1>2 DEF ProbeCall

\* The answer of the probe is combined with what is known of the embedding service.
LEMMA ProbeAnsweredKeeps == RIInv /\ ProbeAnswered => RIInv'
<1> SUFFICES ASSUME RIInv, ProbeAnswered PROVE RIInv'
  OBVIOUS
<1>0. /\ rag \in RagStates /\ UNCHANGED <<guide, indexed, search, edits, lately>> /\ probe' = "idle"
      /\ rag' = IF ~rag.adapters THEN rag
                ELSE IF rag.embeddingFailed THEN [rag EXCEPT !.qdrant = "ready"]
                ELSE [rag EXCEPT !.qdrant = "ready", !.status = "ready",
                       !.reasons = rag.reasons \ {"qdrant_unavailable", "qdrant_health_check_failed"}]
  BY DEF RIInv, RagTypes, ProbeAnswered
<1>1. rag' \in RagStates
  BY <1>0 DEF RagStates
<1>2. RagTypes'
  BY <1>0, <1>1 DEF RIInv, RagTypes
<1>3. RuntimeSound'
  BY <1>0 DEF RIInv, RuntimeSound, RagStates
<1>4. ReadyHasNoReason'
  BY <1>0 DEF RIInv, RuntimeSound, ReadyHasNoReason, RagStates
<1> QED
  BY <1>0, <1>2, <1>3, <1>4, HealthStep

-----------------------------------------------------------------------------
(* The authors.                                                            *)

\* What an author or the index does to guide g marks it, and leaves what the
\* retrieval has found of its earlier versions.
LEMMA GuideStep ==
    ASSUME RIInv, NEW g \in Guides, search.at # "done", UNCHANGED <<rag, search, probe>>,
           RagTypes', VersionsWritten',
           \A h \in Guides \ {g} : guide'[h] = guide[h] /\ indexed'[h] = indexed[h] /\ lately'[h] = lately[h],
           lately'[g] = [shown |-> lately[g].shown \/ Visible(guide'[g]), still |-> FALSE],
           guide'[g].ver >= guide[g].ver,
           \A v \in 1..guide[g].ver : guide'[g].content[v] = guide[g].content[v]
    PROVE  RIInv'
<1>1. RuntimeSound' /\ ReadyHasNoReason' /\ (Len(search.refs) <= TopK)'
  BY DEF RIInv, RuntimeSound, ReadyHasNoReason
<1>2. ShownWasPublic' /\ StageIsTrue' /\ StableIsFound'
  BY DEF ShownWasPublic, StageIsTrue, StableIsFound
<1>3. MergedSound'
  <2>1. Answered' = Answered /\ FoundGuides' = FoundGuides /\ Running' = Running
    BY DEF Answered, FoundGuides, Running
  <2>2. ASSUME NEW h \in Guides, Running
        PROVE  /\ (Visible(guide[h]) => lately[h].shown)'
               /\ search.merged[h] # NoHit =>
                    /\ search.merged[h].ver \in 1..guide'[h].ver
                    /\ search.merged[h].stage \in Stages
                    /\ guide'[h].content[search.merged[h].ver].match <= search.merged[h].stage
                    /\ lately'[h].still => search.merged[h].ver = indexed'[h]
               /\ (Waiting(h)' => Waiting(h))
    <3>1. CASE h = g
      <4>1. ~Waiting(g)'
        BY DEF Waiting
      <4>2. guide[g].ver \in Nat /\ guide'[g].ver \in Nat
        BY DEF RIInv, RagTypes, GuideRows, GuideVersions
      <4>3. Visible(guide'[g]) => lately'[g].shown
        <5>1. lately'[g].shown = (lately[g].shown \/ Visible(guide'[g]))
          OBVIOUS
        <5> QED
          BY <5>1, Zenon
      <4>4. ~lately'[g].still
        OBVIOUS
      <4>5. ASSUME search.merged[g] # NoHit
            PROVE  /\ search.merged[g].ver \in 1..guide'[g].ver
                   /\ search.merged[g].stage \in Stages
                   /\ guide'[g].content[search.merged[g].ver].match <= search.merged[g].stage
        <5>1. /\ search.merged[g].ver \in 1..guide[g].ver /\ search.merged[g].stage \in Stages
              /\ guide[g].content[search.merged[g].ver].match <= search.merged[g].stage
          BY <2>2, <4>5 DEF RIInv, MergedSound
        <5> QED
          BY <4>2, <5>1
      <4> QED
        BY <3>1, <4>1, <4>3, <4>4, <4>5
    <3>2. CASE h # g
      <4>1. guide'[h] = guide[h] /\ indexed'[h] = indexed[h] /\ lately'[h] = lately[h]
        BY <3>2
      <4>2. Waiting(h)' => Waiting(h)
        BY <4>1 DEF Waiting, PointContent
      <4> QED
        BY <2>2, <4>1, <4>2 DEF RIInv, MergedSound, Visible
    <3> QED
      BY <3>1, <3>2
  <2>3. ASSUME NEW h \in Guides, Running, Waiting(h)'
        PROVE  Cardinality(FoundGuides) >= Answered * CandidateLimit
    BY <2>2, <2>3 DEF RIInv, MergedSound
  <2> QED
    BY <2>1, <2>2, <2>3 DEF RIInv, MergedSound
<1> QED
  BY <1>1, <1>2, <1>3 DEF RIInv

\* An author or the index worker changes a row or a point while a retrieval runs.
LEMMA AuthorKeeps ==
    ASSUME RIInv, NEW g \in Guides, AuthorStep(g)
    PROVE  RIInv'
<1>0. /\ guide \in [Guides -> GuideRows] /\ indexed \in [Guides -> Nat] /\ MaxEdits \in Nat
      /\ lately \in [Guides -> [shown : BOOLEAN, still : BOOLEAN]]
      /\ edits \in [writes : 0..MaxEdits, failures : Nat]
      /\ guide[g].ver \in GuideVersions /\ guide[g] \in GuideRows
      /\ \A h \in Guides : indexed[h] <= guide[h].ver /\ guide[h].ver <= edits.writes + 1
      /\ \A h \in Guides : guide[h].ver \in Nat
      /\ search.at # "done"
  <2>1. /\ guide \in [Guides -> GuideRows] /\ indexed \in [Guides -> Nat] /\ MaxEdits \in Nat
        /\ lately \in [Guides -> [shown : BOOLEAN, still : BOOLEAN]]
        /\ edits \in [writes : 0..MaxEdits, failures : Nat] /\ search.at # "done"
    BY RetrievalAssumption DEF RIInv, RagTypes, AuthorStep
  <2>2. \A h \in Guides : guide[h] \in GuideRows /\ guide[h].ver \in GuideVersions /\ guide[h].ver \in Nat
    BY <2>1 DEF GuideRows, GuideVersions
  <2> QED
    BY <2>1, <2>2 DEF RIInv, VersionsWritten
\* It is enough that the row, the point and the counter are legal.
<1>1. ASSUME NEW r \in GuideRows, r.ver >= guide[g].ver,
             \A v \in 1..guide[g].ver : r.content[v] = guide[g].content[v],
             NEW n \in Nat, n <= r.ver,
             guide' = [guide EXCEPT ![g] = r], indexed' = [indexed EXCEPT ![g] = n],
             edits' \in [writes : 0..MaxEdits, failures : Nat], edits'.writes >= edits.writes,
             r.ver <= edits'.writes + 1, Noted(g), UNCHANGED <<rag, search, probe>>
      PROVE  RIInv'
  <2>1. guide'[g] = r /\ indexed'[g] = n
    BY <1>0, <1>1
  <2>2. lately' = [lately EXCEPT ![g] = [shown |-> lately[g].shown \/ Visible(r), still |-> FALSE]]
    BY <1>0, <1>1, <2>1 DEF Noted
  <2>3. lately' \in [Guides -> [shown : BOOLEAN, still : BOOLEAN]]
    <3>1. Visible(r) \in BOOLEAN
      BY DEF Visible
    <3>2. lately[g].shown \in BOOLEAN
      BY <1>0
    <3>3. [shown |-> lately[g].shown \/ Visible(r), still |-> FALSE] \in [shown : BOOLEAN, still : BOOLEAN]
      BY <3>1, <3>2
    <3> QED
      BY <1>0, <2>2, <3>3
  <2>4. RagTypes'
    BY <1>0, <1>1, <2>3 DEF RIInv, RagTypes
  <2>5. VersionsWritten'
    <3> SUFFICES ASSUME NEW h \in Guides
                 PROVE  indexed'[h] <= guide'[h].ver /\ guide'[h].ver <= edits'.writes + 1
      BY DEF VersionsWritten
    <3>1. CASE h = g
      BY <1>1, <2>1, <3>1
    <3>2. CASE h # g
      <4>1. guide'[h] = guide[h] /\ indexed'[h] = indexed[h]
        BY <1>0, <1>1, <3>2
      <4>2. edits.writes \in Nat /\ edits'.writes \in Nat /\ guide[h].ver \in Nat
        BY <1>0, <1>1
      <4> QED
        BY <1>0, <1>1, <4>1, <4>2
    <3> QED
      BY <3>1, <3>2
  <2>6. \A h \in Guides \ {g} : guide'[h] = guide[h] /\ indexed'[h] = indexed[h] /\ lately'[h] = lately[h]
    BY <1>0, <1>1, <2>2
  <2>7. lately'[g] = [shown |-> lately[g].shown \/ Visible(guide'[g]), still |-> FALSE]
    BY <1>0, <2>1, <2>2
  <2> QED
    BY <1>0, <1>1, <2>1, <2>4, <2>5, <2>6, <2>7, GuideStep
<1>2. indexed = [indexed EXCEPT ![g] = indexed[g]] /\ guide = [guide EXCEPT ![g] = guide[g]]
      /\ indexed[g] \in Nat /\ indexed[g] <= guide[g].ver /\ edits.writes \in 0..MaxEdits
  BY <1>0
<1>3. Edit => /\ edits' \in [writes : 0..MaxEdits, failures : Nat] /\ edits'.writes = edits.writes + 1
              /\ edits.writes < MaxEdits
  BY <1>0 DEF Edit
<1>4. CASE StageVersion(g)
  <2>1. PICK c \in Contents :
          guide' = [guide EXCEPT ![g] = [status |-> "staged", ver |-> guide[g].ver + 1, since |-> edits'.writes,
                                         content |-> [guide[g].content EXCEPT ![guide[g].ver + 1] = c]]]
    BY <1>4 DEF StageVersion
  <2>w. PICK t \in Int : t = edits'.writes
    BY <1>2, <1>3, <1>4 DEF StageVersion
  <2> DEFINE r == [status |-> "staged", ver |-> guide[g].ver + 1, since |-> t,
                   content |-> [guide[g].content EXCEPT ![guide[g].ver + 1] = c]]
  <2>2. guide[g].content \in [GuideVersions -> Contents] /\ Edit /\ Noted(g) /\ UNCHANGED <<rag, indexed, search, probe>>
    BY <1>0, <1>4 DEF GuideRows, StageVersion
  <2>3. guide[g].ver + 1 \in GuideVersions /\ guide[g].ver \in Nat
    BY <1>0, <1>2, <1>3, <2>2 DEF GuideVersions
  <2>4. r \in GuideRows /\ r.ver = guide[g].ver + 1
    BY <2>1, <2>2, <2>3 DEF GuideRows
  <2>5. \A v \in 1..guide[g].ver : r.content[v] = guide[g].content[v]
    <3> TAKE v \in 1..guide[g].ver
    <3>1. v \in GuideVersions /\ v # guide[g].ver + 1
      BY <1>0, <2>3 DEF GuideVersions
    <3> QED
      BY <2>2, <3>1
  <2>6. guide' = [guide EXCEPT ![g] = r] /\ indexed' = [indexed EXCEPT ![g] = indexed[g]]
    BY <1>2, <2>1, <2>2, <2>w
  <2> HIDE DEF r
  <2>7. indexed[g] <= r.ver /\ r.ver <= edits'.writes + 1 /\ r.ver >= guide[g].ver /\ edits'.writes >= edits.writes
    BY <1>0, <1>2, <1>3, <2>2, <2>3, <2>4
  <2> QED
    BY <1>1, <1>2, <1>3, <2>2, <2>4, <2>5, <2>6, <2>7
<1>5. ASSUME NEW v \in GuideVersions, UpsertPoint(g, v) PROVE RIInv'
  <2>1. /\ guide' = [guide EXCEPT ![g] = guide[g]] /\ indexed' = [indexed EXCEPT ![g] = v] /\ v <= guide[g].ver
        /\ Noted(g) /\ UNCHANGED <<rag, search, probe>> /\ v \in Nat /\ guide[g].ver \in Nat
    BY <1>0, <1>2, <1>5 DEF UpsertPoint, GuideVersions
  <2>2. edits' \in [writes : 0..MaxEdits, failures : Nat] /\ edits'.writes >= edits.writes
    <3>1. CASE v < guide[g].ver
      BY <1>0, <1>3, <1>5, <3>1 DEF UpsertPoint
    <3>2. CASE v = guide[g].ver
      BY <1>0, <1>5, <3>2 DEF UpsertPoint
    <3> QED
      BY <2>1, <3>1, <3>2
  <2>3. guide[g].ver <= edits'.writes + 1 /\ guide[g].ver >= guide[g].ver
    BY <1>0, <2>1, <2>2
  <2> QED
    BY <1>0, <1>1, <2>1, <2>2, <2>3
<1>6. ASSUME NEW st \in {"ready", "unpublished"}, guide' = [guide EXCEPT ![g].status = st],
             Edit \/ UNCHANGED edits, Noted(g), UNCHANGED <<rag, indexed, search, probe>>
      PROVE  RIInv'
  <2> DEFINE r == [guide[g] EXCEPT !.status = st]
  <2>1. r \in GuideRows /\ r.ver = guide[g].ver /\ r.content = guide[g].content
    BY <1>0 DEF GuideRows
  <2>2. guide' = [guide EXCEPT ![g] = r] /\ indexed' = [indexed EXCEPT ![g] = indexed[g]]
    BY <1>0, <1>2, <1>6
  <2>3. edits' \in [writes : 0..MaxEdits, failures : Nat] /\ edits'.writes >= edits.writes
    BY <1>0, <1>3, <1>6
  <2> HIDE DEF r
  <2>4. indexed[g] <= r.ver /\ r.ver <= edits'.writes + 1 /\ r.ver >= guide[g].ver
    BY <1>0, <1>2, <2>1, <2>3
  <2> QED
    BY <1>1, <1>2, <1>6, <2>1, <2>2, <2>3, <2>4
<1>7. CASE MarkReady(g)
  BY <1>6, <1>7 DEF MarkReady
<1>8. CASE Unpublish(g)
  BY <1>6, <1>8 DEF Unpublish
<1>9. CASE ErasePoint(g)
  <2>1. /\ guide' = [guide EXCEPT ![g] = guide[g]] /\ indexed' = [indexed EXCEPT ![g] = 0] /\ 0 <= guide[g].ver
        /\ Noted(g) /\ UNCHANGED <<rag, search, probe, edits>> /\ guide[g].ver \in Nat
    BY <1>0, <1>2, <1>9 DEF ErasePoint
  <2>2. guide[g].ver <= edits'.writes + 1 /\ guide[g].ver >= guide[g].ver /\ edits'.writes >= edits.writes
    BY <1>0, <1>2, <2>1
  <2> QED
    BY <1>0, <1>1, <2>1, <2>2
<1> QED
  BY <1>4, <1>5, <1>7, <1>8, <1>9 DEF AuthorStep

-----------------------------------------------------------------------------
(* The retrieval.                                                          *)

\* A retrieval that ends with nothing.
LEMMA EndedStep ==
    ASSUME RIInv, NEW r \in EndReasons, Ended(r), UNCHANGED <<guide, indexed, lately, probe>>,
           edits' \in [writes : 0..MaxEdits, failures : Nat], edits'.writes = edits.writes,
           rag' \in RagStates, RuntimeSound', ReadyHasNoReason', StableIsFound'
    PROVE  RIInv'
<1>1. search' \in Searches /\ search'.at = "done" /\ search'.refs = <<>>
  BY NoSearchType DEF Ended, NoSearch
<1>2. RagTypes' /\ VersionsWritten'
  BY <1>1 DEF RIInv, RagTypes, VersionsWritten
<1>3. MergedSound'
  BY <1>1 DEF MergedSound, Running
<1>4. Len(search'.refs) <= TopK /\ Shown' = {}
  BY <1>1, RetrievalAssumption DEF Shown
<1>5. ShownWasPublic' /\ StageIsTrue'
  BY <1>4 DEF ShownWasPublic, StageIsTrue
<1> QED
  BY <1>2, <1>3, <1>4, <1>5 DEF RIInv

\* A step of a retrieval that has not ended.
LEMMA RunningStep ==
    ASSUME RIInv, search' \in Searches, search'.at \in {"embed", "flagged", "query", "recheck"},
           search'.refs = <<>>, UNCHANGED <<guide, indexed, probe>>,
           edits' \in [writes : 0..MaxEdits, failures : Nat], edits'.writes = edits.writes,
           rag' \in RagStates, lately' \in [Guides -> [shown : BOOLEAN, still : BOOLEAN]],
           RuntimeSound', ReadyHasNoReason', MergedSound'
    PROVE  RIInv'
<1>1. RagTypes' /\ VersionsWritten'
  BY DEF RIInv, RagTypes, VersionsWritten
<1>2. Len(search'.refs) <= TopK
  BY RetrievalAssumption
<1>3. ShownWasPublic' /\ StageIsTrue' /\ StableIsFound'
  BY DEF ShownWasPublic, StageIsTrue, StableIsFound
<1> QED
  BY <1>1, <1>2, <1>3 DEF RIInv

\* A retrieval begins with nothing found.
LEMMA RetrieveKeeps == RIInv /\ Retrieve => RIInv'
<1> SUFFICES ASSUME RIInv, Retrieve PROVE RIInv'
  OBVIOUS
<1> DEFINE m == [g \in Guides |-> NoHit]
<1>0. /\ search' = [NoSearch EXCEPT !.at = "embed"] /\ rag.retriever /\ rag.settings = NoSettings
      /\ search.at = "idle" /\ UNCHANGED <<rag, guide, indexed, probe, edits>>
      /\ lately' = [g \in Guides |-> [shown |-> Visible(guide[g]), still |-> TRUE]]
  BY DEF Retrieve
<1>1. /\ search'.at = "embed" /\ search'.refs = <<>> /\ search'.merged = m /\ search'.stage = 0
      /\ search' \in Searches
  BY <1>0, NoSearchType DEF NoSearch, Searches
<1>2. lately' \in [Guides -> [shown : BOOLEAN, still : BOOLEAN]]
  BY <1>0 DEF Visible
<1>3. RuntimeSound'
  BY <1>0, <1>1 DEF RIInv, RuntimeSound
<1>4. ReadyHasNoReason'
  BY <1>0 DEF RIInv, ReadyHasNoReason
<1>5. MergedSound'
  <2>1. Answered' = 0
    BY <1>1 DEF Answered
  <2>2. Cardinality(FoundGuides') \in Nat /\ CandidateLimit \in Nat
    BY RetrievalAssumption, FS_Subset, FS_CardinalityType DEF FoundGuides
  <2>3. Cardinality(FoundGuides') >= Answered' * CandidateLimit
    BY <2>1, <2>2
  <2>4. \A g \in Guides : search'.merged[g] = NoHit
    BY <1>1
  <2>5. \A g \in Guides : Visible(guide'[g]) => lately'[g].shown
    <3> TAKE g \in Guides
    <3>1. lately'[g].shown = Visible(guide[g])
      BY <1>0
    <3> QED
      BY <1>0, <3>1, Zenon
  <2> QED
    BY <1>1, <2>3, <2>4, <2>5 DEF MergedSound
<1> QED
  BY <1>0, <1>1, <1>2, <1>3, <1>4, <1>5, RunningStep DEF RIInv, RagTypes

\* The embedding of the query, and its failure, which is noted before it is reported.
LEMMA EmbedKeeps == RIInv /\ (Embed \/ EmbedFails) => RIInv'
<1> SUFFICES ASSUME RIInv, Embed \/ EmbedFails PROVE RIInv'
  OBVIOUS
<1>0. /\ search \in Searches /\ search.at = "embed" /\ UNCHANGED <<guide, indexed, probe, lately>>
      /\ search.merged = [g \in Guides |-> NoHit] /\ search.refs = <<>> /\ Running
      /\ rag \in RagStates /\ rag.retriever /\ rag.settings = NoSettings /\ rag.built /\ rag.adapters
  BY DEF RIInv, RagTypes, MergedSound, RuntimeSound, Embed, EmbedFails, Running
<1>1. /\ search' \in Searches /\ search'.at \in {"query", "flagged"} /\ search'.refs = <<>>
      /\ search'.merged = search.merged /\ (search'.at = "query" => search'.stage = 1)
      /\ (EmbedFails => search'.at = "flagged") /\ (Embed => search'.at = "query")
  <2>1. CASE Embed
    <3>1. search' = [search EXCEPT !.at = "query", !.stage = 1]
      BY <2>1 DEF Embed
    <3>2. ~EmbedFails \/ search' = [search EXCEPT !.at = "flagged"]
      BY DEF EmbedFails
    <3>3. search'.at = "query" /\ ~EmbedFails
      BY <1>0, <3>1, <3>2 DEF Searches
    <3>4. 1 \in {0} \cup Stages
      BY DEF Stages
    <3>5. search' \in Searches
      BY <1>0, <3>1, <3>4 DEF Searches
    <3>6. search'.refs = <<>> /\ search'.merged = search.merged /\ search'.stage = 1
      BY <1>0, <3>1 DEF Searches
    <3> QED
      BY <2>1, <3>3, <3>5, <3>6
  <2>2. CASE EmbedFails
    <3>1. search' = [search EXCEPT !.at = "flagged"]
      BY <2>2 DEF EmbedFails
    <3>2. ~Embed \/ search' = [search EXCEPT !.at = "query", !.stage = 1]
      BY DEF Embed
    <3>3. search'.at = "flagged" /\ ~Embed
      BY <1>0, <3>1, <3>2 DEF Searches
    <3> QED
      BY <1>0, <3>1, <3>3 DEF Searches
  <2> QED
    BY <2>1, <2>2
<1>2. /\ rag' \in RagStates /\ edits' \in [writes : 0..MaxEdits, failures : Nat]
      /\ edits'.writes = edits.writes
  <2>1. CASE Embed
    BY <1>0, <2>1 DEF RIInv, RagTypes, Embed
  <2>2. CASE EmbedFails
    <3>1. rag' \in RagStates
      BY <1>0, <2>2 DEF EmbedFails, RagStates
    <3> QED
      BY <2>2, <3>1 DEF RIInv, RagTypes, EmbedFails, CallFails
  <2> QED
    BY <2>1, <2>2
<1>3. RuntimeSound'
  <2>1. CASE Embed
    BY <1>0, <1>1, <2>1 DEF RIInv, RuntimeSound, Embed
  <2>2. CASE EmbedFails
    BY <1>0, <1>1, <2>2 DEF RIInv, RuntimeSound, EmbedFails, RagStates
  <2> QED
    BY <2>1, <2>2
<1>4. ReadyHasNoReason'
  <2>1. CASE Embed
    BY <1>0, <1>1, <2>1 DEF RIInv, ReadyHasNoReason, Embed
  <2>2. CASE EmbedFails
    BY <1>0, <1>1, <2>2 DEF RIInv, ReadyHasNoReason, EmbedFails, RagStates
  <2> QED
    BY <2>1, <2>2
<1>5. MergedSound'
  <2>1. Answered' = 0
    BY <1>1 DEF Answered
  <2>2. Cardinality(FoundGuides') \in Nat /\ CandidateLimit \in Nat
    BY RetrievalAssumption, FS_Subset, FS_CardinalityType DEF FoundGuides
  <2>3. Cardinality(FoundGuides') >= Answered' * CandidateLimit
    BY <2>1, <2>2
  <2>4. \A g \in Guides : search'.merged[g] = NoHit
    BY <1>0, <1>1
  <2>5. \A g \in Guides : Visible(guide'[g]) => lately'[g].shown
    BY <1>0 DEF RIInv, MergedSound
  <2> QED
    BY <1>0, <1>1, <2>3, <2>4, <2>5 DEF MergedSound, Stages
<1>6. lately' \in [Guides -> [shown : BOOLEAN, still : BOOLEAN]]
  BY <1>0 DEF RIInv, RagTypes
<1> QED
  BY <1>0, <1>1, <1>2, <1>3, <1>4, <1>5, <1>6, RunningStep

\* A retrieval that loses the embedding service or Qdrant ends with no reference.
LEMMA DegradesKeeps == RIInv /\ (EmbedDegrades \/ QueryFails) => RIInv'
<1> SUFFICES ASSUME RIInv, EmbedDegrades \/ QueryFails PROVE RIInv'
  OBVIOUS
<1>0. /\ rag \in RagStates /\ search.at # "idle" /\ search.at \in {"flagged", "query"}
      /\ UNCHANGED <<guide, indexed, probe, lately>>
  BY DEF RIInv, RagTypes, EmbedDegrades, QueryFails
<1>1. PICK r \in {"embedding_unavailable", "qdrant_unavailable"}, q \in BOOLEAN :
        Degrade(r, q) /\ Ended(r) /\ (r = "embedding_unavailable" => rag.embeddingFailed)
  <2>1. CASE EmbedDegrades
    <3>1. Degrade("embedding_unavailable", FALSE) /\ Ended("embedding_unavailable") /\ search.at = "flagged"
      BY <2>1 DEF EmbedDegrades
    <3>2. rag.embeddingFailed
      BY <3>1 DEF RIInv, RuntimeSound
    <3> QED
      BY <3>1, <3>2
  <2>2. CASE QueryFails
    <3>1. Degrade("qdrant_unavailable", TRUE) /\ Ended("qdrant_unavailable")
      BY <2>2 DEF QueryFails
    <3> QED
      BY <3>1
  <2> QED
    BY <2>1, <2>2
<1>2. edits' \in [writes : 0..MaxEdits, failures : Nat] /\ edits'.writes = edits.writes
  <2>1. edits \in [writes : 0..MaxEdits, failures : Nat]
    BY DEF RIInv, RagTypes
  <2>2. edits' = edits \/ edits' = [edits EXCEPT !.failures = @ + 1]
    BY DEF EmbedDegrades, QueryFails, CallFails
  <2> QED
    BY <2>1, <2>2
<1>3. rag' \in RagStates
  BY <1>0, <1>1 DEF Degrade, RagStates, Reasons
<1>4. /\ rag'.status = "degraded" /\ rag'.reasons = rag.reasons \cup {r} /\ rag'.built = rag.built
      /\ rag'.adapters = rag.adapters /\ rag'.retriever = rag.retriever /\ rag'.worker = rag.worker
      /\ rag'.embeddingFailed = rag.embeddingFailed /\ rag'.settings = rag.settings
  BY <1>0, <1>1 DEF Degrade, RagStates
<1>5. search'.at = "done" /\ search'.reason = r
  BY <1>1 DEF Ended, NoSearch
<1>6. RuntimeSound'
  BY <1>0, <1>1, <1>4, <1>5 DEF RIInv, RuntimeSound
<1>7. ReadyHasNoReason'
  BY <1>4 DEF ReadyHasNoReason
<1>8. StableIsFound'
  BY <1>1, <1>5 DEF StableIsFound
<1>9. r \in EndReasons
  BY <1>1 DEF EndReasons
<1> QED
  BY <1>0, <1>1, <1>2, <1>3, <1>6, <1>7, <1>8, <1>9, EndedStep

\* One stage: what it merges, and how much when it leaves out a guide that fits.
LEMMA QueryStageKeeps == RIInv /\ QueryStage => RIInv'
<1> SUFFICES ASSUME RIInv, QueryStage PROVE RIInv'
  OBVIOUS
<1>0. /\ search \in Searches /\ search.at = "query" /\ search.stage \in Stages /\ Running
      /\ search.refs = <<>> /\ UNCHANGED <<rag, guide, indexed, probe, edits, lately>>
      /\ search.merged \in [Guides -> Merges] /\ indexed \in [Guides -> Nat]
      /\ guide \in [Guides -> GuideRows] /\ rag.retriever /\ rag.settings = NoSettings
  BY DEF RIInv, RagTypes, MergedSound, RuntimeSound, QueryStage, Running, Searches
<1>1. PICK S \in Hits(search.stage) :
          LET merged == [g \in Guides |->
                            IF g \in S THEN [ver |-> indexed[g], stage |-> search.stage]
                            ELSE search.merged[g]]
          IN  IF search.stage + 1 \in Stages
              THEN search' = [search EXCEPT !.merged = merged, !.stage = @ + 1]
              ELSE IF \A g \in Guides : merged[g] = NoHit THEN Ended("no_same_city_candidate")
              ELSE search' = [search EXCEPT !.merged = merged, !.at = "recheck"]
  BY DEF QueryStage
<1> DEFINE k == search.stage
           merged == [g \in Guides |-> IF g \in S THEN [ver |-> indexed[g], stage |-> k]
                                       ELSE search.merged[g]]
           found == {g \in Guides : Accepts(g, k)}
           Now == {g \in Guides : merged[g] # NoHit}
<1>2. /\ S \subseteq found
      /\ Cardinality(S) = IF Cardinality(found) < CandidateLimit THEN Cardinality(found)
                          ELSE CandidateLimit
  BY <1>1 DEF Hits
<1>3. /\ IsFiniteSet(Guides) /\ IsFiniteSet(found) /\ IsFiniteSet(S) /\ IsFiniteSet(FoundGuides) /\ IsFiniteSet(Now)
      /\ CandidateLimit \in Nat /\ CandidateLimit # 0
  <2>1. IsFiniteSet(Guides) /\ CandidateLimit \in Nat /\ CandidateLimit # 0
    BY RetrievalAssumption
  <2>2. found \in SUBSET Guides /\ S \in SUBSET Guides /\ FoundGuides \in SUBSET Guides /\ Now \in SUBSET Guides
    BY <1>2 DEF FoundGuides
  <2> HIDE DEF found, Now
  <2> QED
    BY <2>1, <2>2, FS_Subset
<1>4. \A g \in S : g \in Guides /\ indexed[g] # 0 /\ PointContent(g).match <= k /\ search.merged[g] = NoHit
  BY <1>2 DEF Accepts
<1>5. \A g \in S : merged[g] = [ver |-> indexed[g], stage |-> k] /\ merged[g] # NoHit
  <2> TAKE g \in S
  <2>1. merged[g] = [ver |-> indexed[g], stage |-> k]
    BY <1>4
  <2> QED
    BY <1>4, <2>1 DEF NoHit
<1>6. \A g \in Guides \ S : merged[g] = search.merged[g]
  OBVIOUS
<1>7. Now = FoundGuides \cup S /\ FoundGuides \cap S = {}
  BY <1>4, <1>5, <1>6 DEF FoundGuides
<1>8. Cardinality(Now) = Cardinality(FoundGuides) + Cardinality(S) /\ Cardinality(FoundGuides) \in Nat
      /\ Cardinality(S) \in Nat /\ Cardinality(found) \in Nat
  <2> HIDE DEF Now, found
  <2>1. Cardinality(FoundGuides \cup S) = Cardinality(FoundGuides) + Cardinality(S) - Cardinality(FoundGuides \cap S)
    BY <1>3, FS_Union
  <2>2. Cardinality(FoundGuides \cap S) = 0
    BY <1>7, FS_EmptySet
  <2>3. Cardinality(FoundGuides) \in Nat /\ Cardinality(S) \in Nat /\ Cardinality(found) \in Nat
    BY <1>3, FS_CardinalityType
  <2> QED
    BY <1>7, <2>1, <2>2, <2>3
<1>9. merged \in [Guides -> Merges]
  <2>1. \A g \in Guides : merged[g] \in Merges
    <3> TAKE g \in Guides
    <3>1. CASE g \in S
      <4>1. indexed[g] \in Nat /\ k \in {0} \cup Stages
        BY <1>0
      <4> QED
        BY <3>1, <4>1 DEF Merges
    <3>2. CASE g \notin S
      BY <1>0, <3>2
    <3> QED
      BY <3>1, <3>2
  <2> QED
    BY <2>1
\* The merged hits are sound.
<1>10. ASSUME NEW g \in Guides, merged[g] # NoHit
       PROVE  /\ merged[g].ver \in 1..guide[g].ver /\ merged[g].stage \in Stages
              /\ guide[g].content[merged[g].ver].match <= merged[g].stage
              /\ lately[g].still => merged[g].ver = indexed[g]
  <2>1. CASE g \in S
    <3>1. merged[g].ver = indexed[g] /\ merged[g].stage = k /\ indexed[g] # 0 /\ PointContent(g).match <= k
      BY <1>4, <1>5, <2>1
    <3>2. indexed[g] \in Nat /\ guide[g].ver \in Nat /\ indexed[g] <= guide[g].ver
      BY <1>0 DEF RIInv, VersionsWritten, GuideRows, GuideVersions
    <3> HIDE DEF merged
    <3> QED
      BY <1>0, <3>1, <3>2 DEF PointContent
  <2>2. CASE g \notin S
    <3>1. merged[g] = search.merged[g]
      BY <1>6, <2>2
    <3> HIDE DEF merged
    <3> QED
      BY <1>0, <1>10, <3>1 DEF RIInv, MergedSound
  <2> QED
    BY <2>1, <2>2
\* A guide that fits and is left out: the stage was full.
<1>11. ASSUME NEW g \in Guides, lately[g].still, indexed[g] # 0, merged[g] = NoHit,
              PointContent(g).match = 1, PointContent(g).score > 0
       PROVE  Cardinality(Now) >= k * CandidateLimit
  <2>1. g \notin S /\ search.merged[g] = NoHit
    BY <1>5, <1>6, <1>11
  <2>2. k \in 1..4
    BY <1>0 DEF Stages
  <2>3. g \in found
    BY <1>11, <2>1, <2>2 DEF Accepts
  <2>4. Cardinality(S) = CandidateLimit
    <3>1. ASSUME Cardinality(S) = Cardinality(found) PROVE FALSE
      <4>1. S \in SUBSET found
        BY <1>2
      <4>2. S = found
        <5> HIDE DEF found
        <5> QED
          BY <1>3, <3>1, <4>1, FS_Subset
      <4> QED
        BY <2>1, <2>3, <4>2
    <3> QED
      BY <1>2, <3>1
  <2>5. Waiting(g)
    BY <1>11, <2>1 DEF Waiting
  <2>6. Answered = k - 1
    BY <1>0 DEF Answered
  <2>7. Cardinality(FoundGuides) >= (k - 1) * CandidateLimit
    BY <1>0, <2>5, <2>6 DEF RIInv, MergedSound
  <2>8. (k - 1) * CandidateLimit + CandidateLimit = k * CandidateLimit
    BY <1>3, <2>2
  <2> HIDE DEF k, Now
  <2> QED
    BY <1>3, <1>8, <2>2, <2>4, <2>7, <2>8
\* The next stage, or the rows.
<1>12. ASSUME search' \in Searches, search'.merged = merged, search'.refs = <<>>,
              \/ search'.at = "query" /\ search'.stage = k + 1 /\ k + 1 \in Stages
              \/ search'.at = "recheck" /\ k = 4
       PROVE  RIInv'
  <2>1. Answered' = k /\ FoundGuides' = Now /\ Running'
    <3>1. k \in 1..4
      BY <1>0 DEF Stages
    <3>2. Answered' = k
      BY <1>12, <3>1 DEF Answered
    <3> QED
      BY <1>12, <3>2 DEF FoundGuides, Running
  <2>2. ASSUME NEW g \in Guides, Waiting(g)'
        PROVE  Cardinality(FoundGuides') >= Answered' * CandidateLimit
    <3>1. /\ lately[g].still /\ indexed[g] # 0 /\ merged[g] = NoHit
          /\ PointContent(g).match = 1 /\ PointContent(g).score > 0
      BY <1>0, <1>12, <2>2 DEF Waiting, PointContent
    <3> QED
      BY <1>11, <2>1, <3>1
  <2>3. \A g \in Guides : Visible(guide'[g]) => lately'[g].shown
    BY <1>0 DEF RIInv, MergedSound
  <2>4. MergedSound'
    <3> HIDE DEF merged, Now
    <3> QED
      BY <1>0, <1>10, <1>12, <2>1, <2>2, <2>3 DEF MergedSound
  <2>5. RuntimeSound'
    BY <1>0, <1>12 DEF RIInv, RuntimeSound
  <2>6. ReadyHasNoReason'
    BY <1>0, <1>12 DEF RIInv, ReadyHasNoReason
  <2> QED
    BY <1>0, <1>12, <2>4, <2>5, <2>6, RunningStep DEF RIInv, RagTypes
<1>13. CASE k + 1 \in Stages
  <2>1. search' = [search EXCEPT !.merged = merged, !.stage = k + 1]
    BY <1>1, <1>13
  <2> HIDE DEF merged
  <2> QED
    BY <1>0, <1>9, <1>12, <1>13, <2>1 DEF Searches
<1>14. CASE k + 1 \notin Stages /\ \E g \in Guides : merged[g] # NoHit
  <2>1. search' = [search EXCEPT !.merged = merged, !.at = "recheck"]
    BY <1>1, <1>14
  <2>2. k = 4
    BY <1>0, <1>14 DEF Stages
  <2> HIDE DEF merged
  <2> QED
    BY <1>0, <1>9, <1>12, <2>1, <2>2 DEF Searches
<1>15. CASE k + 1 \notin Stages /\ \A g \in Guides : merged[g] = NoHit
  <2>1. Ended("no_same_city_candidate")
    BY <1>1, <1>15
  <2>2. k = 4 /\ search'.at = "done"
    BY <1>0, <1>15, <2>1 DEF Stages, Ended, NoSearch
  <2>3. Cardinality(Now) = 0
    BY <1>15, FS_EmptySet
  <2>4. ~(0 >= 4 * CandidateLimit)
    BY <1>3
  <2>5. StableIsFound'
    <3> SUFFICES ASSUME NEW g \in Guides, lately[g].still, indexed[g] = guide[g].ver,
                        RowContent(g).match = 1, RowContent(g).score > 0
                 PROVE  FALSE
      BY <1>0 DEF StableIsFound, RowContent
    <3>1. guide[g].ver \in GuideVersions /\ guide[g].ver # 0
      BY <1>0 DEF GuideRows, GuideVersions
    <3>2. indexed[g] # 0 /\ PointContent(g).match = 1 /\ PointContent(g).score > 0
      BY <3>1 DEF PointContent, RowContent
    <3> HIDE DEF merged, Now
    <3> QED
      BY <1>11, <1>15, <2>2, <2>3, <2>4, <3>2
  <2>6. RuntimeSound' /\ ReadyHasNoReason'
    BY <1>0, <2>2 DEF RIInv, RuntimeSound, ReadyHasNoReason
  <2>7. "no_same_city_candidate" \in EndReasons
    BY DEF EndReasons
  <2> QED
    BY <1>0, <2>1, <2>5, <2>6, <2>7, EndedStep DEF RIInv, RagTypes
<1> QED
  BY <1>13, <1>14, <1>15

\* The rows are read again.
LEMMA RecheckKeeps == RIInv /\ Recheck => RIInv'
<1> SUFFICES ASSUME RIInv, Recheck PROVE RIInv'
  OBVIOUS
<1> DEFINE checked == {g \in Guides \ {Own} : search.merged[g] # NoHit /\ RowMatches(g)}
           built == {g \in checked : RowContent(g).builds}
           refs == Fitting(Ranked(built))
<1>0. /\ search \in Searches /\ search.at = "recheck" /\ Running /\ search.refs = <<>>
      /\ UNCHANGED <<rag, guide, indexed, probe, edits, lately>> /\ guide \in [Guides -> GuideRows]
      /\ search.merged \in [Guides -> Merges] /\ rag.retriever /\ rag.settings = NoSettings
  BY DEF RIInv, RagTypes, MergedSound, RuntimeSound, Recheck, Running, Searches
<1>1. refs \in Seq(checked) /\ Len(refs) <= TopK
  <2>1. RagTypes /\ built \in SUBSET Guides /\ built \subseteq checked
    BY DEF RIInv
  <2> HIDE DEF built, checked
  <2>2. refs \in Seq(built) /\ Len(refs) <= TopK
    BY <2>1, FittingRefs
  <2> HIDE DEF refs
  <2> QED
    BY <2>1, <2>2, SeqMonotonic
<1>2. IF checked = {} THEN Ended("mysql_recheck_empty")
      ELSE IF refs = <<>> THEN Ended("invalid_reference")
      ELSE search' = [search EXCEPT !.at = "done", !.reason = "hit", !.refs = refs,
                       !.broadest = Max({search.merged[refs[i]].stage : i \in DOMAIN refs})]
  BY DEF Recheck
<1>3. CASE checked = {}
  <2>1. Ended("mysql_recheck_empty") /\ search'.at = "done"
    BY <1>2, <1>3 DEF Ended, NoSearch
  <2>2. StableIsFound'
    <3> SUFFICES ASSUME NEW g \in Guides \ {Own}, RoomForAll, lately[g].still, Visible(guide[g]),
                        indexed[g] = guide[g].ver, RowContent(g).match = 1, RowContent(g).score > 0
                 PROVE  FALSE
      BY <1>0 DEF StableIsFound, RowContent, Visible, RoomForAll
    <3>1. guide[g].ver \in GuideVersions /\ guide[g].ver # 0
      BY <1>0 DEF GuideRows, GuideVersions
    <3>2. CASE search.merged[g] # NoHit
      <4>1. search.merged[g].ver = guide[g].ver
        BY <1>0, <3>2 DEF RIInv, MergedSound
      <4>2. RowMatches(g)
        BY <4>1 DEF RowMatches, RowContent
      <4> QED
        BY <1>3, <3>2, <4>2
    <3>3. CASE search.merged[g] = NoHit
      <4>1. Waiting(g) /\ Answered = 4
        BY <1>0, <3>1, <3>3 DEF Waiting, PointContent, RowContent, Answered
      <4>2. Cardinality(FoundGuides) >= 4 * CandidateLimit
        BY <1>0, <4>1 DEF RIInv, MergedSound
      <4>3. IsFiniteSet(Guides) /\ CandidateLimit \in Nat
        BY RetrievalAssumption
      <4>4. FoundGuides \in SUBSET (Guides \ {g}) /\ IsFiniteSet(Guides \ {g})
            /\ Cardinality(Guides \ {g}) = Cardinality(Guides) - 1
        BY <3>3, <4>3, FS_RemoveElement DEF FoundGuides
      <4>5. Cardinality(FoundGuides) <= Cardinality(Guides) - 1 /\ Cardinality(FoundGuides) \in Nat /\ Cardinality(Guides) \in Nat
        <5>1. Cardinality(FoundGuides) <= Cardinality(Guides \ {g})
          BY <4>4, FS_Subset
        <5>2. IsFiniteSet(FoundGuides)
          BY <4>4, FS_Subset
        <5>3. Cardinality(FoundGuides) \in Nat /\ Cardinality(Guides) \in Nat
          BY <4>3, <5>2, FS_CardinalityType
        <5> QED
          BY <4>4, <5>1, <5>3
      <4>6. Cardinality(Stages) = 4
        <5>1. Cardinality(1..4) = IF 1 > 4 THEN 0 ELSE 4 - 1 + 1
          BY 1 \in Int, 4 \in Int, FS_Interval
        <5> QED
          BY <5>1 DEF Stages
      <4>7. Cardinality(Guides) <= 4 * CandidateLimit
        BY <4>6 DEF RoomForAll
      <4> QED
        BY <4>2, <4>3, <4>5, <4>7
    <3> QED
      BY <3>2, <3>3
  <2>3. RuntimeSound' /\ ReadyHasNoReason'
    BY <1>0, <2>1 DEF RIInv, RuntimeSound, ReadyHasNoReason
  <2>4. "mysql_recheck_empty" \in EndReasons
    BY DEF EndReasons
  <2> QED
    BY <1>0, <2>1, <2>2, <2>3, <2>4, EndedStep DEF RIInv, RagTypes
<1>4. CASE checked # {} /\ refs = <<>>
  <2>1. Ended("invalid_reference") /\ search'.at = "done" /\ search'.reason = "invalid_reference"
    BY <1>2, <1>4 DEF Ended, NoSearch
  <2>2. StableIsFound'
    BY <2>1 DEF StableIsFound
  <2>3. RuntimeSound' /\ ReadyHasNoReason'
    BY <1>0, <2>1 DEF RIInv, RuntimeSound, ReadyHasNoReason
  <2>4. "invalid_reference" \in EndReasons
    BY DEF EndReasons
  <2> QED
    BY <1>0, <2>1, <2>2, <2>3, <2>4, EndedStep DEF RIInv, RagTypes
<1>5. CASE checked # {} /\ refs # <<>>
  <2> DEFINE B == {search.merged[refs[i]].stage : i \in DOMAIN refs}
  <2>1. search' = [search EXCEPT !.at = "done", !.reason = "hit", !.refs = refs, !.broadest = Max(B)]
    BY <1>2, <1>5
  <2>2. DOMAIN refs = 1..Len(refs) /\ Len(refs) \in Nat /\ Len(refs) # 0
        /\ \A i \in DOMAIN refs : refs[i] \in checked
    <3> HIDE DEF checked, built, refs
    <3> QED
      BY <1>1, <1>5, LenProperties, EmptySeq, ElementOfSeq
  <2>3. \A g \in checked :
           /\ g \in Guides /\ g # Own /\ lately[g].shown /\ search.merged[g].stage \in 1..4
           /\ RowContent(g).match <= search.merged[g].stage
    <3> TAKE g \in checked
    <3>1. g \in Guides /\ g # Own /\ search.merged[g] # NoHit /\ RowMatches(g)
      OBVIOUS
    <3> HIDE DEF checked
    <3> QED
      BY <1>0, <3>1 DEF RIInv, MergedSound, RowMatches, RowContent, Stages
  <2>4. B \subseteq Nat /\ B # {} /\ \A x \in B : x <= 4
    <3> HIDE DEF checked, built, refs
    <3>1. 1 \in DOMAIN refs
      BY <2>2
    <3> QED
      BY <2>2, <2>3, <3>1
  <2>5. Max(B) \in Nat /\ \A x \in B : x <= Max(B)
    <3> HIDE DEF B
    <3> QED
      BY <2>4, MaxOfBounded
  <2>6. refs \in Seq(Guides)
    <3>1. checked \subseteq Guides
      OBVIOUS
    <3> HIDE DEF checked, built, refs
    <3> QED
      BY <1>1, <3>1, SeqMonotonic
  <2> HIDE DEF checked, built, refs
  <2>7. /\ search'.at = "done" /\ search'.reason = "hit" /\ search'.refs = refs /\ search'.broadest = Max(B)
        /\ search'.merged = search.merged
    BY <1>0, <2>1 DEF Searches
  <2>8. search' \in Searches
    <3> HIDE DEF B
    <3> QED
      BY <1>0, <2>1, <2>5, <2>6 DEF Searches, EndReasons
  <2>9. RagTypes' /\ VersionsWritten'
    BY <1>0, <2>8 DEF RIInv, RagTypes, VersionsWritten
  <2>10. RuntimeSound' /\ ReadyHasNoReason'
    BY <1>0, <2>7 DEF RIInv, RuntimeSound, ReadyHasNoReason
  <2>11. MergedSound' /\ StableIsFound'
    BY <2>7 DEF MergedSound, Running, StableIsFound
  <2>12. ASSUME NEW g \in Shown'
         PROVE  lately'[g].shown /\ g # Own /\ RowContent(g)'.match <= search'.broadest
    <3>1. PICK i \in DOMAIN refs : g = refs[i]
      BY <2>7, <2>12 DEF Shown
    <3>2. g \in checked /\ search.merged[g].stage \in B
      BY <2>2, <3>1
    <3>3. g \in Guides /\ search.merged[g].stage <= Max(B) /\ search.merged[g].stage \in Nat
      BY <2>3, <2>5, <3>2
    <3>4. RowContent(g)' = RowContent(g) /\ RowContent(g).match \in Nat
      BY <1>0, <3>3, RowContentType DEF RowContent, RIInv
    <3> HIDE DEF B
    <3> QED
      BY <1>0, <2>3, <2>5, <2>7, <3>2, <3>3, <3>4
  <2>13. ShownWasPublic' /\ StageIsTrue'
    BY <2>12 DEF ShownWasPublic, StageIsTrue
  <2>14. Len(search'.refs) <= TopK
    BY <1>1, <2>7
  <2> QED
    BY <2>9, <2>10, <2>11, <2>13, <2>14 DEF RIInv
<1> QED
  BY <1>3, <1>4, <1>5

\* The rows cannot be read.
LEMMA RecheckFailsKeeps == RIInv /\ RecheckFails => RIInv'
<1> SUFFICES ASSUME RIInv, RecheckFails PROVE RIInv'
  OBVIOUS
<1>0. /\ search.at = "recheck" /\ Ended("unexpected_error") /\ UNCHANGED <<rag, guide, indexed, probe, lately>>
      /\ edits' = [edits EXCEPT !.failures = @ + 1]
  BY DEF RecheckFails, CallFails
<1>1. edits' \in [writes : 0..MaxEdits, failures : Nat] /\ edits'.writes = edits.writes
  <2>1. edits \in [writes : 0..MaxEdits, failures : Nat]
    BY DEF RIInv, RagTypes
  <2> QED
    BY <1>0, <2>1
<1>2. search'.at = "done" /\ search'.reason = "unexpected_error"
  BY <1>0 DEF Ended, NoSearch
<1>3. RuntimeSound' /\ ReadyHasNoReason'
  BY <1>0, <1>2 DEF RIInv, RuntimeSound, ReadyHasNoReason
<1>4. StableIsFound'
  BY <1>2 DEF StableIsFound
<1>5. "unexpected_error" \in EndReasons
  BY DEF EndReasons
<1> QED
  BY <1>0, <1>1, <1>3, <1>4, <1>5, EndedStep DEF RIInv, RagTypes

\* The induction.
LEMMA RetrievalKeeps == RIInv /\ [RagNext]_ragVars => RIInv'
<1> SUFFICES ASSUME RIInv, [RagNext]_ragVars PROVE RIInv'
  OBVIOUS
<1>1. CASE UNCHANGED ragVars
  <2>1. RagTypes' /\ RuntimeSound' /\ ReadyHasNoReason'
    BY <1>1 DEF RIInv, ragVars, RagTypes, RuntimeSound, ReadyHasNoReason
  <2>2. UNCHANGED <<guide, indexed, search, lately>> /\ edits'.writes = edits.writes
    BY <1>1 DEF ragVars
  <2> QED
    BY <2>1, <2>2, HealthStep
<1>2. CASE \E g \in Guides : AuthorStep(g)
  BY <1>2, AuthorKeeps
<1> QED
  BY <1>1, <1>2, FromSettingsKeeps, ServeKeeps, ProbeCallKeeps, ProbeAnsweredKeeps, RetrieveKeeps,
     EmbedKeeps, DegradesKeeps, QueryStageKeeps, RecheckKeeps,
     RecheckFailsKeeps DEF RagNext

\* What it says of a retrieval.
LEMMA RetrievalImplied == RIInv => RetrievalInv
<1> SUFFICES ASSUME RIInv PROVE RetrievalInv
  OBVIOUS
<1>1. \A g \in Guides : indexed[g] \in 0..guide[g].ver /\ guide[g].ver \in GuideVersions
  BY DEF RIInv, RagTypes, VersionsWritten, GuideRows, GuideVersions
<1>2. rag.status \in {"disabled", "degraded", "ready"} /\ search.stage \in {0} \cup Stages
  BY DEF RIInv, RagTypes, RagStates, Searches
<1>3. RagTypeOK
  BY <1>1, <1>2 DEF RIInv, RagTypeOK, RuntimeSound
<1> QED
  BY <1>3 DEF RIInv, RetrievalInv

\* However authors, the index worker, health probes and a retrieval interleave, for
\* any number of guides, edits and stages: a reported "ready" hides no known failure,
\* what the retrieval of retrieval.py returns was public since it began and passes the
\* filter stage that is reported, and where the stages have room for all guides one
\* that fits and is left alone is not crowded out by stale points.
THEOREM RetrievalInvariant == RagSpec => []RetrievalInv
<1>1. RagInit => RIInv
  BY RetrievalStarts
<1>2. RIInv /\ [RagNext]_ragVars => RIInv'
  BY RetrievalKeeps
<1>3. RIInv => RetrievalInv
  BY RetrievalImplied
<1> QED
  BY <1>1, <1>2, <1>3, PTL DEF RagSpec

\* The codes of the errors that say the plan is not one for this request.
RequestCodes ==
    {"request.invalid_start_date", "request.invalid_end_date", "request.invalid_date_range",
     "request.travel_days_mismatch", "plan.city_mismatch", "days.count_mismatch",
     "day.date_sequence_mismatch", "plan.no_attractions", "plan.insufficient_attractions",
     "attraction.not_in_sources"}

\* The operator's list of tolerable errors has none of them.
ToleratesNoMismatch == Partial.codes \cap RequestCodes = {}

\* The plans the optimizers work on.
WorkPlans == [city : PlanCities, start : Nat, end : Nat, days : Seq(PlanDays),
              weather : Seq(Nat), budget : Seq(Int), suggestions : BOOLEAN]

\* No attraction is on two days, or twice on one.
EachOnce(days) ==
    \A d, e \in DOMAIN days : \A i \in DOMAIN days[d].spots, j \in DOMAIN days[e].spots :
        Identity(days[d].spots[i]) = Identity(days[e].spots[j]) => d = e /\ i = j

\* The rebuilder has written all texts.
TextsWritten == written.suggestions = TRUE /\ \A d \in WrittenDays : written.days[d].empty = {}

\* The inductive invariant of the validation: a plan that may be delivered fits the
\* request before it is delivered, and a plan that is changed or judged repeats
\* nothing.
VIInv ==
    /\ ValidationTypeOK
    /\ phase \in {"evaluate", "validate"} => EachOnce(written.days)
    /\ phase = "evaluate" => written \in WorkPlans
    /\ phase = "validate" => TextsWritten /\ \E e \in Evaluations : evidence.constraints = e.constraints
    /\ phase \in {"finish", "completed"} => FitsRequest
    /\ phase = "repair" => repairs < MaxRepairs
    /\ RepairCanHelp /\ PreparedForValidator

-----------------------------------------------------------------------------
(* The normalizer.                                                         *)

\* What stays of a day, in its order.
LEMMA KeptOfDay ==
    ASSUME NEW p \in LlmPlans, NEW d \in DOMAIN p.days
    PROVE  /\ Kept(p, d) \in Seq(DOMAIN p.days[d].spots) /\ Increasing(Kept(p, d))
           /\ \A k \in DOMAIN Kept(p, d) : ~Repeated(p, d, Kept(p, d)[k])
           /\ p.days[d].spots \in Seq(PlanVisits) /\ p.days[d] \in PlanDays
           /\ p.days \in Seq(PlanDays)
<1>1. p.days \in Seq(PlanDays)
  BY ValidationAssumption
<1>2. p.days[d] \in PlanDays
  BY <1>1
<1>3. p.days[d].spots \in Seq(PlanVisits)
  BY <1>2 DEF PlanDays
<1> DEFINE n == Len(p.days[d].spots)
           K == {i \in 1..n : ~Repeated(p, d, i)}
           Solves(l) == l = [i \in 0..n |-> IF i = 0 THEN <<>>
                                           ELSE IF Repeated(p, d, i) THEN l[i - 1] ELSE Append(l[i - 1], i)]
<1>4. n \in Nat /\ DOMAIN p.days[d].spots = 1..n
  BY <1>3, LenProperties
<1>5. ASSUME NEW l PROVE Solves(l) <=> IsKeptRun(l, n, K)
  <2>1. \A i \in 0..n : (IF i = 0 THEN <<>> ELSE IF Repeated(p, d, i) THEN l[i - 1] ELSE Append(l[i - 1], i))
                        = (IF i = 0 THEN <<>> ELSE IF i \in K THEN Append(l[i - 1], i) ELSE l[i - 1])
    <3> TAKE i \in 0..n
    <3>1. CASE i = 0
      BY <3>1
    <3>2. CASE i # 0
      <4>1. i \in 1..n
        BY <1>4, <3>2
      <4>2. i \in K <=> ~Repeated(p, d, i)
        BY <4>1
      <4> HIDE DEF K
      <4> QED
        BY <3>2, <4>2
    <3> QED
      BY <3>1, <3>2
  <2> HIDE DEF K, n
  <2> QED
    BY <2>1, Zenon DEF IsKeptRun
<1>6. PICK f : IsKeptRun(f, n, K)
  <2> HIDE DEF K, n
  <2> QED
    BY <1>4, KeptRun
<1>7. Solves(f)
  <2> HIDE DEF K, n, Solves
  <2> QED
    BY <1>5, <1>6
<1>8. Kept(p, d) = (CHOOSE l : Solves(l))[n]
  BY DEF Kept
<1>9. PICK l : l = (CHOOSE m : Solves(m)) /\ Solves(l)
  <2> HIDE DEF Solves
  <2> QED
    BY <1>7
<1>10. IsKeptRun(l, n, K) /\ Kept(p, d) = l[n]
  <2> HIDE DEF K, n, Solves
  <2> QED
    BY <1>5, <1>8, <1>9
<1>11. Kept(p, d) \in Seq(K \cap 1..n) /\ Increasing(Kept(p, d))
  <2> HIDE DEF K, n, Solves
  <2> QED
    BY <1>4, <1>10, KeptListing
<1>12. Kept(p, d) \in Seq(1..n)
  <2>1. K \cap 1..n \subseteq 1..n
    OBVIOUS
  <2> HIDE DEF K, n
  <2> QED
    BY <1>11, <2>1, SeqMonotonic
<1>13. \A k \in DOMAIN Kept(p, d) : ~Repeated(p, d, Kept(p, d)[k])
  <2> TAKE k \in DOMAIN Kept(p, d)
  <2>1. Kept(p, d)[k] \in K
    <3> HIDE DEF K, n
    <3> QED
      BY <1>11, LenProperties, ElementOfSeq
  <2> QED
    BY <2>1
<1> QED
  BY <1>1, <1>2, <1>3, <1>4, <1>11, <1>12, <1>13

\* The plan the normalizer returns has days of the right type and repeats nothing.
LEMMA NormalizedPlan ==
    ASSUME NEW p \in LlmPlans, NEW w, w = RemoveDuplicateAttractions(p)
    PROVE  w \in WorkPlans /\ EachOnce(w.days)
<1> DEFINE seen(d) == [k \in DOMAIN Kept(p, d) |-> p.days[d].spots[Kept(p, d)[k]]]
           days == [d \in DOMAIN p.days |-> [p.days[d] EXCEPT !.spots = seen(d)]]
<1>2. p.days \in Seq(PlanDays) /\ DOMAIN p.days = 1..Len(p.days) /\ Len(p.days) \in Nat
  BY ValidationAssumption, LenProperties
<1>3. w.days = days
  BY ValidationAssumption DEF RemoveDuplicateAttractions
<1>4. ASSUME NEW d \in DOMAIN p.days
      PROVE  /\ days[d] = [p.days[d] EXCEPT !.spots = seen(d)] /\ days[d] \in PlanDays
             /\ days[d].spots = seen(d) /\ DOMAIN seen(d) = 1..Len(Kept(p, d))
             /\ Len(Kept(p, d)) \in Nat /\ DOMAIN Kept(p, d) = 1..Len(Kept(p, d))
             /\ \A k \in 1..Len(Kept(p, d)) : /\ Kept(p, d)[k] \in DOMAIN p.days[d].spots
                                              /\ seen(d)[k] = p.days[d].spots[Kept(p, d)[k]]
  <2>1. /\ Kept(p, d) \in Seq(DOMAIN p.days[d].spots)
        /\ p.days[d].spots \in Seq(PlanVisits) /\ p.days[d] \in PlanDays
    BY KeptOfDay
  <2>2. DOMAIN Kept(p, d) = 1..Len(Kept(p, d)) /\ Len(Kept(p, d)) \in Nat
    BY <2>1, LenProperties
  <2>3. \A k \in 1..Len(Kept(p, d)) : Kept(p, d)[k] \in DOMAIN p.days[d].spots
    BY <2>1, ElementOfSeq
  <2>4. \A k \in 1..Len(Kept(p, d)) : seen(d)[k] = p.days[d].spots[Kept(p, d)[k]] /\ seen(d)[k] \in PlanVisits
    <3> TAKE k \in 1..Len(Kept(p, d))
    <3>1. seen(d)[k] = p.days[d].spots[Kept(p, d)[k]]
      BY <2>2
    <3>2. Kept(p, d)[k] \in 1..Len(p.days[d].spots)
      BY <2>1, <2>3, LenProperties
    <3> QED
      BY <2>1, <3>1, <3>2, ElementOfSeq
  <2>5. DOMAIN seen(d) = 1..Len(Kept(p, d)) /\ seen(d) = [k \in 1..Len(Kept(p, d)) |-> seen(d)[k]]
    BY <2>2
  <2>6. seen(d) \in Seq(PlanVisits)
    <3> HIDE DEF seen
    <3> QED
      BY <2>2, <2>4, <2>5
  <2>7. days[d] = [p.days[d] EXCEPT !.spots = seen(d)]
    OBVIOUS
  <2>8. days[d] \in PlanDays /\ days[d].spots = seen(d)
    <3> HIDE DEF seen, days
    <3> QED
      BY <2>1, <2>6, <2>7 DEF PlanDays
  <2> QED
    BY <2>2, <2>3, <2>4, <2>5, <2>7, <2>8
<1>5. days \in Seq(PlanDays) /\ DOMAIN days = DOMAIN p.days
  <2>1. DOMAIN days = 1..Len(p.days) /\ days = [d \in 1..Len(p.days) |-> days[d]]
    BY <1>2
  <2>2. \A d \in 1..Len(p.days) : days[d] \in PlanDays
    BY <1>2, <1>4
  <2> HIDE DEF days
  <2> QED
    BY <1>2, <2>1, <2>2
<1>6. ASSUME NEW d \in DOMAIN w.days, NEW i \in DOMAIN w.days[d].spots PROVE ~Repeated(w, d, i)
  <2> SUFFICES ASSUME Repeated(w, d, i) PROVE FALSE
    OBVIOUS
  <2>1. d \in DOMAIN p.days
    BY <1>3, <1>5
  <2>2. PICK e \in 1..d : \E j \in DOMAIN days[e].spots :
          (e < d \/ j < i) /\ Identity(days[e].spots[j]) = Identity(days[d].spots[i])
    <3> HIDE DEF days
    <3> QED
      BY <1>3, <1>6 DEF Repeated
  <2>3. PICK j \in DOMAIN days[e].spots :
          (e < d \/ j < i) /\ Identity(days[e].spots[j]) = Identity(days[d].spots[i])
    BY <2>2
  <2>4. e \in DOMAIN p.days /\ d \in Nat /\ e \in Nat
    BY <1>2, <2>1
  <2> HIDE DEF days
  <2> DEFINE a == Kept(p, d)[i]
             b == Kept(p, e)[j]
  <2>5. /\ i \in 1..Len(Kept(p, d)) /\ a \in DOMAIN p.days[d].spots /\ days[d].spots[i] = p.days[d].spots[a]
    <3> HIDE DEF seen
    <3>1. i \in DOMAIN seen(d) /\ days[d].spots = seen(d)
      BY <1>3, <1>4, <1>6, <2>1
    <3>2. /\ DOMAIN seen(d) = 1..Len(Kept(p, d))
          /\ \A k \in 1..Len(Kept(p, d)) : /\ Kept(p, d)[k] \in DOMAIN p.days[d].spots
                                           /\ seen(d)[k] = p.days[d].spots[Kept(p, d)[k]]
      BY <1>4, <2>1
    <3> QED
      BY <3>1, <3>2
  <2>6. /\ j \in 1..Len(Kept(p, e)) /\ b \in DOMAIN p.days[e].spots /\ days[e].spots[j] = p.days[e].spots[b]
    <3> HIDE DEF seen
    <3>1. j \in DOMAIN seen(e) /\ days[e].spots = seen(e)
      BY <1>4, <2>4, <2>3
    <3>2. /\ DOMAIN seen(e) = 1..Len(Kept(p, e))
          /\ \A k \in 1..Len(Kept(p, e)) : /\ Kept(p, e)[k] \in DOMAIN p.days[e].spots
                                           /\ seen(e)[k] = p.days[e].spots[Kept(p, e)[k]]
      BY <1>4, <2>4
    <3> QED
      BY <3>1, <3>2
  <2>7. e < d \/ b < a
    <3>1. CASE e = d
      <4>1. j < i
        BY <2>3, <2>4, <3>1
      <4> QED
        BY <2>1, <2>5, <2>6, <3>1, <4>1, KeptOfDay DEF Increasing
    <3>2. CASE e # d
      BY <2>3, <2>4, <3>2
    <3> QED
      BY <3>1, <3>2
  <2> HIDE DEF a, b
  <2>8. Repeated(p, d, a)
    BY <2>3, <2>5, <2>6, <2>7 DEF Repeated
  <2>9. ~Repeated(p, d, a)
    BY <1>4, <2>1, <2>5, KeptOfDay DEF a
  <2> QED
    BY <2>8, <2>9
<1>7. EachOnce(w.days)
  <2> HIDE DEF days
  <2> SUFFICES ASSUME NEW d \in DOMAIN w.days, NEW e \in DOMAIN w.days,
                      NEW i \in DOMAIN w.days[d].spots, NEW j \in DOMAIN w.days[e].spots,
                      Identity(w.days[d].spots[i]) = Identity(w.days[e].spots[j])
               PROVE  d = e /\ i = j
    BY DEF EachOnce
  <2>1. d \in Nat /\ e \in Nat /\ d >= 1 /\ e >= 1
    BY <1>2, <1>3, <1>5
  <2>2. i \in Nat /\ j \in Nat
    <3>1. \A c \in DOMAIN p.days : days[c].spots = seen(c) /\ DOMAIN seen(c) = 1..Len(Kept(p, c))
      BY <1>4
    <3> HIDE DEF seen
    <3> QED
      BY <1>3, <1>5, <3>1
  <2>3. d = e
    <3>1. CASE d < e
      <4>1. d \in 1..e
        BY <2>1, <3>1
      <4> QED
        BY <1>6, <3>1, <4>1 DEF Repeated
    <3>2. CASE e < d
      <4>1. e \in 1..d
        BY <2>1, <3>2
      <4> QED
        BY <1>6, <3>2, <4>1 DEF Repeated
    <3> QED
      BY <2>1, <3>1, <3>2
  <2>4. d \in 1..d
    BY <2>1
  <2>5. ~(i < j) /\ ~(j < i)
    BY <1>6, <2>3, <2>4 DEF Repeated
  <2> QED
    BY <2>2, <2>3, <2>5
<1>8. w \in WorkPlans
  <2>1. p \in WorkPlans
    BY ValidationAssumption DEF WorkPlans
  <2>2. w = [p EXCEPT !.days = days]
    BY DEF RemoveDuplicateAttractions
  <2> HIDE DEF days
  <2> QED
    BY <1>5, <2>1, <2>2 DEF WorkPlans
<1> QED
  BY <1>7, <1>8

-----------------------------------------------------------------------------
(* The optimizers and the rebuilder.                                       *)

\* A plan whose day d has other attractions.
LEMMA DayRewritten ==
    ASSUME NEW p \in WorkPlans, NEW d \in DOMAIN p.days, NEW s \in Seq(PlanVisits),
           NEW z, z = [p EXCEPT !.days[d].spots = s]
    PROVE  /\ z \in WorkPlans /\ DOMAIN z.days = DOMAIN p.days /\ z.days[d].spots = s
           /\ \A e \in DOMAIN p.days : e # d => z.days[e] = p.days[e]
<1>1. p.days \in Seq(PlanDays) /\ p.days[d] \in PlanDays
  BY ElementOfSeq, LenProperties DEF WorkPlans
<1> DEFINE day == [p.days[d] EXCEPT !.spots = s]
           days == [p.days EXCEPT ![d] = day]
<1>2. day \in PlanDays /\ day.spots = s
  BY <1>1 DEF PlanDays
<1>3. z = [p EXCEPT !.days = days]
  OBVIOUS
<1> HIDE DEF day
<1>4. days \in Seq(PlanDays)
  BY <1>1, <1>2, ExceptSeq, LenProperties
<1>5. DOMAIN days = DOMAIN p.days /\ days[d] = day /\ \A e \in DOMAIN p.days : e # d => days[e] = p.days[e]
  OBVIOUS
<1> HIDE DEF days
<1>6. z \in WorkPlans /\ z.days = days
  BY <1>3, <1>4 DEF WorkPlans
<1> QED
  BY <1>2, <1>5, <1>6

\* A plan without one of its attractions.
LEMMA WithdrawnOnce ==
    ASSUME NEW p \in WorkPlans, EachOnce(p.days), NEW d \in DOMAIN p.days, NEW i \in DOMAIN p.days[d].spots
    PROVE  /\ Withdrawn(p, d, i) \in WorkPlans /\ EachOnce(Withdrawn(p, d, i).days)
           /\ DOMAIN Withdrawn(p, d, i).days = DOMAIN p.days
           /\ \A e \in DOMAIN p.days : \A j \in DOMAIN Withdrawn(p, d, i).days[e].spots :
                 /\ \E k \in DOMAIN p.days[e].spots : Withdrawn(p, d, i).days[e].spots[j] = p.days[e].spots[k]
                 /\ Identity(Withdrawn(p, d, i).days[e].spots[j]) # Identity(p.days[d].spots[i])
<1> DEFINE q == p.days[d].spots
           s == RemoveAt(q, i)
           z == Withdrawn(p, d, i)
           At(j) == IF j < i THEN j ELSE j + 1
<1>1. q \in Seq(PlanVisits) /\ DOMAIN q = 1..Len(q) /\ Len(q) \in Nat
  <2>1. p.days[d] \in PlanDays
    BY ElementOfSeq, LenProperties DEF WorkPlans
  <2> QED
    BY <2>1, LenProperties DEF PlanDays
<1>2. i \in 1..Len(q)
  BY <1>1
<1> HIDE DEF q
<1>3. s \in Seq(PlanVisits) /\ Len(s) = Len(q) - 1
      /\ \A j \in 1..(Len(q) - 1) : s[j] = IF j < i THEN q[j] ELSE q[j + 1]
  BY <1>1, <1>2, ElementRemoved
<1>4. DOMAIN s = 1..(Len(q) - 1)
  BY <1>3, LenProperties
<1>5. \A j \in DOMAIN s : At(j) \in DOMAIN q /\ s[j] = q[At(j)] /\ At(j) # i
  BY <1>1, <1>2, <1>3, <1>4
<1>6. \A j, k \in DOMAIN s : At(j) = At(k) => j = k
  BY <1>1, <1>2, <1>4
<1>7. z = [p EXCEPT !.days[d].spots = s]
  BY DEF Withdrawn, q
<1> HIDE DEF s, At, z
<1>8. /\ z \in WorkPlans /\ DOMAIN z.days = DOMAIN p.days /\ z.days[d].spots = s
      /\ \A e \in DOMAIN p.days : e # d => z.days[e] = p.days[e]
  BY <1>3, <1>7, DayRewritten
<1> DEFINE In(e, j) == IF e = d THEN At(j) ELSE j
<1>9. \A e \in DOMAIN p.days : \A j \in DOMAIN z.days[e].spots :
        /\ In(e, j) \in DOMAIN p.days[e].spots /\ z.days[e].spots[j] = p.days[e].spots[In(e, j)]
        /\ ~(e = d /\ In(e, j) = i)
  BY <1>5, <1>8 DEF q
<1>10. \A e \in DOMAIN p.days : \A j, k \in DOMAIN z.days[e].spots : In(e, j) = In(e, k) => j = k
  BY <1>6, <1>8
<1> HIDE DEF In
<1>11. EachOnce(z.days)
  <2> SUFFICES ASSUME NEW e \in DOMAIN p.days, NEW f \in DOMAIN p.days,
                      NEW j \in DOMAIN z.days[e].spots, NEW k \in DOMAIN z.days[f].spots,
                      Identity(z.days[e].spots[j]) = Identity(z.days[f].spots[k])
               PROVE  e = f /\ j = k
    BY <1>8 DEF EachOnce
  <2>1. e = f /\ In(e, j) = In(f, k)
    BY <1>9 DEF EachOnce
  <2> QED
    BY <1>10, <2>1
<1>12. \A e \in DOMAIN p.days : \A j \in DOMAIN z.days[e].spots :
         Identity(z.days[e].spots[j]) # Identity(p.days[d].spots[i])
  BY <1>9 DEF EachOnce
<1> QED
  BY <1>8, <1>9, <1>11, <1>12 DEF z

\* A plan with an attraction more that it had not.
LEMMA InsertedOnce ==
    ASSUME NEW p \in WorkPlans, EachOnce(p.days), NEW d \in DOMAIN p.days,
           NEW i \in 1..(Len(p.days[d].spots) + 1), NEW v \in PlanVisits,
           \A e \in DOMAIN p.days : \A j \in DOMAIN p.days[e].spots :
              Identity(p.days[e].spots[j]) # Identity(v)
    PROVE  Inserted(p, d, i, v) \in WorkPlans /\ EachOnce(Inserted(p, d, i, v).days)
<1> DEFINE q == p.days[d].spots
           s == InsertAt(q, i, v)
           z == Inserted(p, d, i, v)
           At(j) == IF j < i THEN j ELSE j - 1
<1>1. q \in Seq(PlanVisits) /\ DOMAIN q = 1..Len(q) /\ Len(q) \in Nat
  <2>1. p.days[d] \in PlanDays
    BY ElementOfSeq, LenProperties DEF WorkPlans
  <2> QED
    BY <2>1, LenProperties DEF PlanDays
<1>2. i \in 1..(Len(q) + 1)
  OBVIOUS
<1> HIDE DEF q
<1>3. s \in Seq(PlanVisits) /\ Len(s) = Len(q) + 1
      /\ \A j \in 1..(Len(q) + 1) : s[j] = IF j < i THEN q[j] ELSE IF j = i THEN v ELSE q[j - 1]
  BY <1>1, <1>2, ElementInserted
<1>4. DOMAIN s = 1..(Len(q) + 1)
  BY <1>3, LenProperties
<1>5. \A j \in DOMAIN s : IF j = i THEN s[j] = v ELSE At(j) \in DOMAIN q /\ s[j] = q[At(j)]
  BY <1>1, <1>2, <1>3, <1>4
<1>6. \A j, k \in DOMAIN s : j # i /\ k # i /\ At(j) = At(k) => j = k
  BY <1>1, <1>2, <1>4
<1>7. z = [p EXCEPT !.days[d].spots = s]
  BY DEF Inserted, q
<1> HIDE DEF s, At, z
<1>8. /\ z \in WorkPlans /\ DOMAIN z.days = DOMAIN p.days /\ z.days[d].spots = s
      /\ \A e \in DOMAIN p.days : e # d => z.days[e] = p.days[e]
  BY <1>3, <1>7, DayRewritten
<1> DEFINE In(e, j) == IF e = d THEN At(j) ELSE j
           New(e, j) == e = d /\ j = i
<1>9. \A e \in DOMAIN p.days : \A j \in DOMAIN z.days[e].spots :
        IF New(e, j) THEN z.days[e].spots[j] = v
        ELSE In(e, j) \in DOMAIN p.days[e].spots /\ z.days[e].spots[j] = p.days[e].spots[In(e, j)]
  BY <1>5, <1>8 DEF q
<1>10. \A e \in DOMAIN p.days : \A j, k \in DOMAIN z.days[e].spots :
         ~New(e, j) /\ ~New(e, k) /\ In(e, j) = In(e, k) => j = k
  BY <1>6, <1>8
<1>11. \A e, f, j, k : New(e, j) /\ New(f, k) => e = f /\ j = k
  OBVIOUS
<1> HIDE DEF In, New
<1>12. EachOnce(z.days)
  <2> SUFFICES ASSUME NEW e \in DOMAIN p.days, NEW f \in DOMAIN p.days,
                      NEW j \in DOMAIN z.days[e].spots, NEW k \in DOMAIN z.days[f].spots,
                      Identity(z.days[e].spots[j]) = Identity(z.days[f].spots[k])
               PROVE  e = f /\ j = k
    BY <1>8 DEF EachOnce
  <2>1. CASE ~New(e, j) /\ ~New(f, k)
    <3>1. e = f /\ In(e, j) = In(f, k)
      BY <1>9, <2>1 DEF EachOnce
    <3> QED
      BY <1>10, <2>1, <3>1
  <2>2. CASE New(e, j) /\ New(f, k)
    BY <1>11, <2>2
  <2>3. CASE New(e, j) /\ ~New(f, k)
    BY <1>9, <2>3
  <2>4. CASE ~New(e, j) /\ New(f, k)
    BY <1>9, <2>4
  <2> QED
    BY <2>1, <2>2, <2>3, <2>4
<1> QED
  BY <1>8, <1>12 DEF z

\* A candidate of the pool keeps its identity when it takes another's place.
LEMMA InPlaceAlike ==
    ASSUME catalog \in Catalogs, NEW v \in catalog.pool, NEW a \in PlanVisits
    PROVE  v \in PlanVisits /\ InPlaceOf(v, a) \in PlanVisits /\ Identity(InPlaceOf(v, a)) = Identity(v)
<1>1. v \in PlanVisits
  BY ValidationAssumption
<1> DEFINE y == InPlaceOf(v, a)
<1>2. y \in PlanVisits /\ y.poi = v.poi /\ y.name = v.name
  BY <1>1 DEF InPlaceOf, PlanVisits
<1> HIDE DEF y
<1> QED
  BY <1>1, <1>2 DEF Identity, y

\* No change of an optimizer makes the plan repeat an attraction.
LEMMA ChangedOnce ==
    ASSUME catalog \in Catalogs, NEW p \in WorkPlans, EachOnce(p.days), NEW z \in Changed(p)
    PROVE  z \in WorkPlans /\ EachOnce(z.days)
<1> DEFINE u(x) == Withdrawn(p, x[1], x[2])
           a(x) == p.days[x[1]].spots[x[2]]
<1>1. ASSUME NEW x \in Visited(p)
      PROVE  /\ x[1] \in DOMAIN p.days /\ x[2] \in DOMAIN p.days[x[1]].spots /\ a(x) \in PlanVisits
             /\ p.days[x[1]].spots \in Seq(PlanVisits)
  <2>1. x[1] \in DOMAIN p.days /\ x[2] \in DOMAIN p.days[x[1]].spots
    BY DEF Visited
  <2>2. p.days[x[1]] \in PlanDays
    BY <2>1, ElementOfSeq, LenProperties DEF WorkPlans
  <2>3. p.days[x[1]].spots \in Seq(PlanVisits)
    BY <2>2 DEF PlanDays
  <2> QED
    BY <2>1, <2>3, ElementOfSeq, LenProperties
<1>2. ASSUME NEW x \in Visited(p)
      PROVE  /\ u(x) \in WorkPlans /\ EachOnce(u(x).days) /\ DOMAIN u(x).days = DOMAIN p.days
             /\ \A e \in DOMAIN p.days : \A j \in DOMAIN u(x).days[e].spots :
                   /\ \E k \in DOMAIN p.days[e].spots : u(x).days[e].spots[j] = p.days[e].spots[k]
                   /\ Identity(u(x).days[e].spots[j]) # Identity(a(x))
  BY <1>1, WithdrawnOnce
<1>3. ASSUME NEW q \in WorkPlans, NEW y \in Slots(q)
      PROVE  y[1] \in DOMAIN q.days /\ y[2] \in 1..(Len(q.days[y[1]].spots) + 1)
  BY DEF Slots
<1>4. ASSUME NEW x \in Visited(p)
      PROVE  x[2] \in 1..(Len(u(x).days[x[1]].spots) + 1)
  <2> DEFINE s == p.days[x[1]].spots
  <2>1. s \in Seq(PlanVisits) /\ x[2] \in 1..Len(s) /\ Len(s) \in Nat
    BY <1>1, LenProperties
  <2>2. u(x).days[x[1]].spots = RemoveAt(s, x[2]) /\ Len(RemoveAt(s, x[2])) = Len(s) - 1
    <3> HIDE DEF s
    <3>1. RemoveAt(s, x[2]) \in Seq(PlanVisits) /\ Len(RemoveAt(s, x[2])) = Len(s) - 1
      BY <2>1, ElementRemoved
    <3>2. u(x) = [p EXCEPT !.days[x[1]].spots = RemoveAt(s, x[2])]
      BY DEF Withdrawn, s
    <3> QED
      BY <1>1, <3>1, <3>2, DayRewritten
  <2> HIDE DEF s, u
  <2> QED
    BY <2>1, <2>2
<1>5. \/ \E x \in Visited(p) :
            \/ z = u(x)
            \/ \E y \in Slots(u(x)) : z = Inserted(u(x), y[1], y[2], a(x))
            \/ \E v \in Unplanned(p) : z = Inserted(u(x), x[1], x[2], InPlaceOf(v, a(x)))
      \/ \E y \in Slots(p) : \E v \in Unplanned(p) : z = Inserted(p, y[1], y[2], v)
  <2> DEFINE C(x) == {u(x)} \cup {Inserted(u(x), y[1], y[2], a(x)) : y \in Slots(u(x))}
                        \cup {Inserted(u(x), x[1], x[2], InPlaceOf(v, a(x))) : v \in Unplanned(p)}
             D == UNION {{Inserted(p, y[1], y[2], v) : y \in Slots(p)} : v \in Unplanned(p)}
  <2>1. Changed(p) = (UNION {C(x) : x \in Visited(p)}) \cup D
    BY Zenon DEF Changed
  <2>2. z \in D => \E y \in Slots(p) : \E v \in Unplanned(p) : z = Inserted(p, y[1], y[2], v)
    BY Zenon
  <2>3. ASSUME NEW x, z \in C(x)
        PROVE  \/ z = u(x)
               \/ \E y \in Slots(u(x)) : z = Inserted(u(x), y[1], y[2], a(x))
               \/ \E v \in Unplanned(p) : z = Inserted(u(x), x[1], x[2], InPlaceOf(v, a(x)))
    <3> HIDE DEF u, a
    <3> QED
      BY <2>3, Zenon
  <2> HIDE DEF u, a, C, D
  <2>4. z \in D \/ \E x \in Visited(p) : z \in C(x)
    <3>1. z \in Changed(p)
      OBVIOUS
    <3>2. z \in D \/ z \in UNION {C(x) : x \in Visited(p)}
      BY <2>1, <3>1, Zenon
    <3> QED
      BY <3>2, Zenon
  <2> QED
    BY <2>2, <2>3, <2>4, Zenon
<1> HIDE DEF u, a
<1>6. ASSUME NEW x \in Visited(p), z = u(x) PROVE z \in WorkPlans /\ EachOnce(z.days)
  BY <1>2, <1>6
<1>7. ASSUME NEW x \in Visited(p), NEW y \in Slots(u(x)), z = Inserted(u(x), y[1], y[2], a(x))
      PROVE  z \in WorkPlans /\ EachOnce(z.days)
  BY <1>1, <1>2, <1>3, <1>7, InsertedOnce
<1>8. ASSUME NEW x \in Visited(p), NEW v \in Unplanned(p), z = Inserted(u(x), x[1], x[2], InPlaceOf(v, a(x)))
      PROVE  z \in WorkPlans /\ EachOnce(z.days)
  <2>1. /\ v \in catalog.pool
        /\ \A e \in DOMAIN p.days : \A j \in DOMAIN p.days[e].spots : Identity(p.days[e].spots[j]) # Identity(v)
    BY DEF Unplanned
  <2>2. InPlaceOf(v, a(x)) \in PlanVisits /\ Identity(InPlaceOf(v, a(x))) = Identity(v)
    BY <1>1, <2>1, InPlaceAlike
  <2>3. \A e \in DOMAIN u(x).days : \A j \in DOMAIN u(x).days[e].spots :
          Identity(u(x).days[e].spots[j]) # Identity(InPlaceOf(v, a(x)))
    <3> SUFFICES ASSUME NEW e \in DOMAIN p.days, NEW j \in DOMAIN u(x).days[e].spots
                 PROVE  Identity(u(x).days[e].spots[j]) # Identity(v)
      BY <1>2, <2>2
    <3>1. PICK k \in DOMAIN p.days[e].spots : u(x).days[e].spots[j] = p.days[e].spots[k]
      BY <1>2
    <3> QED
      BY <2>1, <3>1
  <2>4. x[1] \in DOMAIN u(x).days /\ x[2] \in 1..(Len(u(x).days[x[1]].spots) + 1) /\ u(x) \in WorkPlans
        /\ EachOnce(u(x).days)
    BY <1>1, <1>2, <1>4
  <2> QED
    BY <1>8, <2>2, <2>3, <2>4, InsertedOnce
<1>9. ASSUME NEW y \in Slots(p), NEW v \in Unplanned(p), z = Inserted(p, y[1], y[2], v)
      PROVE  z \in WorkPlans /\ EachOnce(z.days)
  <2>1. /\ v \in PlanVisits
        /\ \A e \in DOMAIN p.days : \A j \in DOMAIN p.days[e].spots : Identity(p.days[e].spots[j]) # Identity(v)
    BY ValidationAssumption DEF Unplanned
  <2> QED
    BY <1>3, <1>9, <2>1, InsertedOnce
<1> QED
  BY <1>5, <1>6, <1>7, <1>8, <1>9

\* The rebuilder leaves the attractions alone and writes every text.
LEMMA RebuiltTexts ==
    ASSUME NEW p \in WorkPlans, EachOnce(p.days), NEW z, z = RebuiltContent(p)
    PROVE  /\ z.days \in Seq(PlanDays) /\ EachOnce(z.days) /\ z.suggestions = TRUE
           /\ \A d \in DOMAIN z.days : z.days[d].empty = {}
<1> DEFINE day(d) == [p.days[d] EXCEPT !.empty = {}, !.meals = EveryMeal]
           days == [d \in DOMAIN p.days |-> day(d)]
<1>1. p.days \in Seq(PlanDays) /\ DOMAIN p.days = 1..Len(p.days) /\ Len(p.days) \in Nat
  BY LenProperties DEF WorkPlans
<1>2. ASSUME NEW d \in 1..Len(p.days)
      PROVE  day(d) \in PlanDays /\ day(d).empty = {} /\ day(d).spots = p.days[d].spots
  <2>1. p.days[d] \in PlanDays
    BY <1>1, ElementOfSeq
  <2> DEFINE n == SUBSET EmptyTexts
             m == SUBSET EveryMeal
  <2>2. {} \in n /\ EveryMeal \in m
    BY Zenon
  <2>3. p.days[d] \in [date : Nat, index : Nat, empty : n, spots : Seq(PlanVisits), meals : m, hotel : STRING]
    BY <2>1 DEF PlanDays
  <2> HIDE DEF m, n
  <2>4. day(d) \in [date : Nat, index : Nat, empty : n, spots : Seq(PlanVisits), meals : m, hotel : STRING]
        /\ day(d).empty = {} /\ day(d).spots = p.days[d].spots
    BY <2>2, <2>3
  <2> QED
    BY <2>4 DEF PlanDays, m, n
<1>3. z.days = days /\ z.suggestions = TRUE
  BY DEF RebuiltContent, WorkPlans
<1> HIDE DEF day
<1>4. days \in Seq(PlanDays) /\ DOMAIN days = DOMAIN p.days
  BY <1>1, <1>2
<1>5. \A d \in DOMAIN p.days : days[d].empty = {} /\ days[d].spots = p.days[d].spots
  BY <1>1, <1>2
<1> HIDE DEF days
<1>6. EachOnce(z.days)
  BY <1>3, <1>4, <1>5 DEF EachOnce
<1> QED
  BY <1>3, <1>4, <1>5, <1>6

-----------------------------------------------------------------------------
(* The validator.                                                          *)

\* The number of attractions.
LEMMA CountSpotsType ==
    ASSUME written.days \in Seq(PlanDays)
    PROVE  CountSpots \in Nat
<1> DEFINE n == Len(written.days)
           w == [d \in 1..n |-> Len(written.days[d].spots)]
           Solves(l) == l = [i \in 0..n |-> IF i = 0 THEN 0 ELSE l[i - 1] + Len(written.days[i].spots)]
<1>1. n \in Nat
  BY LenProperties
<1>2. AreWeights(n, w)
  <2>1. \A d \in 1..n : written.days[d].spots \in Seq(PlanVisits)
    <3> TAKE d \in 1..n
    <3>1. written.days[d] \in PlanDays
      BY ElementOfSeq
    <3> QED
      BY <3>1 DEF PlanDays
  <2> QED
    BY <2>1, LenProperties DEF AreWeights
<1>3. ASSUME NEW l PROVE Solves(l) <=> IsRunningTotal(l, n, w)
  <2>1. \A i \in 0..n : (IF i = 0 THEN 0 ELSE l[i - 1] + Len(written.days[i].spots))
                        = (IF i = 0 THEN 0 ELSE l[i - 1] + w[i])
    BY <1>1
  <2> HIDE DEF n, w
  <2> QED
    BY <2>1, Zenon DEF IsRunningTotal
<1>4. PICK f : IsRunningTotal(f, n, w)
  <2> HIDE DEF n, w
  <2> QED
    BY <1>1, <1>2, RunningTotal
<1>5. CountSpots = (CHOOSE l : Solves(l))[n]
  BY DEF CountSpots, SumUpTo
<1>6. PICK l : l = (CHOOSE m : Solves(m)) /\ Solves(l)
  <2> HIDE DEF Solves, n, w
  <2> QED
    BY <1>3, <1>4
<1>7. l \in [0..n -> Nat]
  <2> HIDE DEF Solves, n, w
  <2> QED
    BY <1>1, <1>2, <1>3, <1>6, RunningTotalType
<1> QED
  <2> HIDE DEF Solves, n, w
  <2> QED
    BY <1>1, <1>5, <1>6, <1>7

\* The number of attractions asked for is a number.
LEMMA RequiredContentType ==
    ASSUME asked \in AskedTrips
    PROVE  RequiredContent \in Nat /\ asked.start \in Nat /\ asked.end \in Nat /\ asked.days \in Nat
<1>1. asked.start \in Nat /\ asked.end \in Nat /\ asked.days \in Nat /\ MinContent \in Nat
  BY ValidationAssumption
<1> QED
  BY <1>1 DEF RequiredContent

\* The dates asked for, where the request has errors of its own or not.
LEMMA ExpectedDatesType ==
    ASSUME asked \in AskedTrips
    PROVE  /\ ExpectedDates \in Seq(Nat)
           /\ asked.start # 0 /\ asked.end # 0 /\ asked.start <= asked.end => Len(ExpectedDates) # 0
<1>1. asked.start \in Nat /\ asked.end \in Nat
  BY RequiredContentType
<1>2. CASE asked.start = 0 \/ asked.end = 0 \/ asked.end < asked.start
  <2>1. ExpectedDates = <<>>
    BY <1>2 DEF ExpectedDates
  <2> QED
    BY <1>1, <1>2, <2>1, EmptySeq
<1>3. CASE ~(asked.start = 0 \/ asked.end = 0 \/ asked.end < asked.start)
  <2> DEFINE n == asked.end - asked.start + 1
  <2>1. ExpectedDates = [i \in 1..n |-> asked.start + i - 1] /\ n \in Nat /\ n # 0
    BY <1>1, <1>3 DEF ExpectedDates
  <2>2. ExpectedDates \in [1..n -> Nat]
    <3>1. \A i \in 1..n : asked.start + i - 1 \in Nat
      BY <1>1
    <3> HIDE DEF n
    <3> QED
      BY <2>1, <3>1
  <2> HIDE DEF n
  <2> QED
    BY <2>1, <2>2
<1> QED
  BY <1>2, <1>3

\* A request without an error of its own.
LEMMA SoundRequest ==
    ASSUME asked \in AskedTrips, ValidateRequest = {}
    PROVE  ExpectedDates # <<>> /\ Len(ExpectedDates) = asked.days
<1>1. asked.start \in Nat /\ asked.end \in Nat
  BY RequiredContentType
<1>2. asked.start # 0 /\ asked.end # 0 /\ ~(asked.end < asked.start)
  BY DEF ValidateRequest, When
<1>3. ExpectedDates \in Seq(Nat) /\ Len(ExpectedDates) # 0
  BY <1>1, <1>2, ExpectedDatesType
<1>4. ExpectedDates # <<>>
  BY <1>3, EmptySeq
<1> QED
  BY <1>4 DEF ValidateRequest, When

\* Every error of the request is fatal and says that the plan cannot fit it.
LEMMA RequestErrors ==
    \A x \in ValidateRequest : x \in Errors(Validate) /\ ~x.repairable /\ x.code \in RequestCodes
<1>1. \A x \in ValidateRequest : x.error /\ ~x.repairable /\ x.code \in RequestCodes
  BY DEF ValidateRequest, When, Fatal, RequestCodes
<1> QED
  BY <1>1 DEF Errors, Validate

\* So is the error of a plan with too little in it.
LEMMA ContentErrors ==
    ASSUME CountSpots < RequiredContent
    PROVE  \E x \in Errors(Validate) : ~x.repairable /\ x.code \in RequestCodes
<1> DEFINE x == Fatal(IF CountSpots = 0 THEN "plan.no_attractions" ELSE "plan.insufficient_attractions", <<>>)
<1>1. x \in ValidateMinimumContent
  BY DEF ValidateMinimumContent, When
<1>2. x.error /\ ~x.repairable /\ x.code \in RequestCodes
  BY DEF Fatal, RequestCodes
<1> HIDE DEF x
<1> QED
  BY <1>1, <1>2 DEF Errors, Validate

\* A plan without an error that contradicts the request fits it.
LEMMA JudgedFits ==
    ASSUME asked \in AskedTrips, written.days \in Seq(PlanDays),
           \A x \in Errors(Validate) : x.code \notin RequestCodes
    PROVE  FitsRequest
<1>1. ValidateRequest = {}
  BY RequestErrors
<1>2. ExpectedDates # <<>> /\ Len(ExpectedDates) = asked.days /\ ExpectedDates \in Seq(Nat)
  BY <1>1, SoundRequest, ExpectedDatesType
<1>3. CountSpots >= RequiredContent
  <2>1. ~(CountSpots < RequiredContent)
    BY ContentErrors
  <2> QED
    BY <2>1, CountSpotsType, RequiredContentType
<1>4. written.city.name = asked.city.name
  <2> SUFFICES ASSUME written.city.name # asked.city.name PROVE FALSE
    OBVIOUS
  <2> DEFINE x == Error("plan.city_mismatch", <<>>)
  <2>1. x \in ValidatePlanIdentity
    BY DEF ValidatePlanIdentity, When
  <2>2. x.error /\ x.code \in RequestCodes
    BY DEF Error, RequestCodes
  <2> HIDE DEF x
  <2> QED
    BY <2>1, <2>2 DEF Errors, Validate
<1>5. Len(written.days) = asked.days
  <2> SUFFICES ASSUME Len(written.days) # asked.days PROVE FALSE
    OBVIOUS
  <2> DEFINE x == Error("days.count_mismatch", <<>>)
  <2>1. x \in ValidateDays
    BY DEF ValidateDays, When
  <2>2. x.error /\ x.code \in RequestCodes
    BY DEF Error, RequestCodes
  <2> HIDE DEF x
  <2> QED
    BY <2>1, <2>2 DEF Errors, Validate
<1>6. DOMAIN written.days = 1..asked.days /\ DOMAIN ExpectedDates = 1..asked.days /\ asked.days \in Nat
  BY <1>2, <1>5, LenProperties
<1>7. ASSUME NEW d \in WrittenDays PROVE written.days[d].date = ExpectedDates[d]
  <2> SUFFICES ASSUME written.days[d].date # ExpectedDates[d] PROVE FALSE
    OBVIOUS
  <2> DEFINE x == Error("day.date_sequence_mismatch", <<d>>)
  <2>0. d <= Len(ExpectedDates)
    BY <1>2, <1>6 DEF WrittenDays
  <2>1. x \in ValidateDayDate(d, written.days[d].date)
    BY <2>0 DEF ValidateDayDate, When
  <2>2. x.error /\ x.code \in RequestCodes
    BY DEF Error, RequestCodes
  <2> HIDE DEF x
  <2>3. x \in ValidateDay(d, written.days[d])
    BY <2>1 DEF ValidateDay
  <2>4. x \in ValidateDays
    BY <2>3 DEF ValidateDays
  <2> QED
    BY <2>2, <2>4 DEF Errors, Validate
<1>8. [d \in WrittenDays |-> written.days[d].date] = ExpectedDates
  <2>1. ExpectedDates = [d \in 1..asked.days |-> ExpectedDates[d]]
    BY <1>2, <1>6
  <2> QED
    BY <1>6, <1>7, <2>1 DEF WrittenDays
<1>9. ASSUME CatalogNames # {}, NEW d \in WrittenDays, NEW a \in ToSet(written.days[d].spots)
      PROVE  MatchesSource(a.name, CatalogNames)
  <2> SUFFICES ASSUME ~MatchesSource(a.name, CatalogNames) PROVE FALSE
    OBVIOUS
  <2>1. PICK j \in DOMAIN written.days[d].spots : a = written.days[d].spots[j]
    BY DEF ToSet
  <2> DEFINE x == Error("attraction.not_in_sources", <<d, j>>)
  <2>2. x \in ValidateSourceConsistency
    <3> DEFINE J == {k \in DOMAIN written.days[d].spots : CatalogNames # {}
                         /\ ~MatchesSource(written.days[d].spots[k].name, CatalogNames)}
               Y(e) == {Error("attraction.not_in_sources", <<e, i>>) :
                           i \in {k \in DOMAIN written.days[e].spots : CatalogNames # {}
                                   /\ ~MatchesSource(written.days[e].spots[k].name, CatalogNames)}} \cup
                       When(written.days[e].hotel # "" /\ catalog.hotels # {}
                               /\ ~MatchesSource(written.days[e].hotel, catalog.hotels),
                            Error("hotel.not_in_sources", <<e>>))
    <3>1. j \in J
      BY <1>9, <2>1
    <3>2. x \in {Error("attraction.not_in_sources", <<d, i>>) : i \in J}
      BY <3>1
    <3>3. x \in Y(d)
      BY <3>2
    <3>4. ValidateSourceConsistency = UNION {Y(e) : e \in WrittenDays}
      BY DEF ValidateSourceConsistency
    <3> HIDE DEF x, Y
    <3> QED
      BY <3>3, <3>4
  <2>3. x.error /\ x.code \in RequestCodes
    BY DEF Error, RequestCodes
  <2> HIDE DEF x
  <2> QED
    BY <2>2, <2>3 DEF Errors, Validate
<1> QED
  BY <1>3, <1>4, <1>5, <1>8, <1>9 DEF FitsRequest

\* What no issue is about: a repeated attraction, a text the rebuilder writes.
Prepared == {"attraction.duplicate_across_days", "plan.empty_suggestions"} \cup EmptyTexts

\* No issue is about them.
LEMMA NothingLeftOver ==
    ASSUME written.days \in Seq(PlanDays), EachOnce(written.days), TextsWritten,
           \E e \in Evaluations : evidence.constraints = e.constraints
    PROVE  \A x \in Validate : x.code \notin Prepared
<1> DEFINE Other(X) == \A x \in X : x.code \notin Prepared
<1> USE DEF Prepared, EmptyTexts
<1>1. Other(ValidateRequest) /\ Other(ValidatePlanIdentity)
  BY DEF ValidateRequest, ValidatePlanIdentity, When, Fatal, Error
<1>2. Other(ValidateDays)
  <2>1. ASSUME NEW d \in WrittenDays PROVE Other(ValidateDay(d, written.days[d]))
    <3>2. {Error(code, <<d>>) : code \in written.days[d].empty} = {}
      BY DEF TextsWritten
    <3>3. Other(ValidateDayDate(d, written.days[d].date))
      BY DEF ValidateDayDate, When, Error
    <3> QED
      BY <3>2, <3>3 DEF ValidateDay, When, Error, Warning
  <2>2. ASSUME NEW d \in WrittenDays PROVE Other(ValidateAttractions(d, written.days[d].spots))
    <3>1. \A i \in DOMAIN written.days[d].spots : ~Repeated(written, d, i)
      <4> SUFFICES ASSUME NEW i \in DOMAIN written.days[d].spots, Repeated(written, d, i) PROVE FALSE
        OBVIOUS
      <4>1. DOMAIN written.days = 1..Len(written.days) /\ d \in 1..Len(written.days) /\ Len(written.days) \in Nat
        BY LenProperties DEF WrittenDays
      <4>2. written.days[d].spots \in Seq(PlanVisits)
        <5>1. written.days[d] \in PlanDays
          BY <4>1, ElementOfSeq
        <5> QED
          BY <5>1 DEF PlanDays
      <4>3. i \in Nat
        BY <4>2, LenProperties
      <4>4. PICK e \in 1..d : \E j \in DOMAIN written.days[e].spots :
              (e < d \/ j < i) /\ Identity(written.days[e].spots[j]) = Identity(written.days[d].spots[i])
        BY DEF Repeated
      <4>5. e \in DOMAIN written.days /\ d \in DOMAIN written.days /\ d \in Nat
        BY <4>1
      <4> QED
        BY <4>3, <4>4, <4>5 DEF EachOnce
    <3> QED
      BY <3>1 DEF ValidateAttractions, When, Error
  <2>3. Other(When(Len(written.days) # asked.days, Error("days.count_mismatch", <<>>)))
    BY DEF When, Error
  <2> QED
    BY <2>1, <2>2, <2>3 DEF ValidateDays
<1>3. Other(ValidateMinimumContent) /\ Other(ValidateWeather)
  BY DEF ValidateMinimumContent, ValidateWeather, When, Fatal, Warning
<1>4. Other(ValidateBudget(written.budget))
  BY DEF ValidateBudget, When, Error, Warning
<1>5. Other(ValidateSourceConsistency)
  <2> DEFINE N(e) == {j \in DOMAIN written.days[e].spots : CatalogNames # {}
                         /\ ~MatchesSource(written.days[e].spots[j].name, CatalogNames)}
             H(e) == written.days[e].hotel # "" /\ catalog.hotels # {}
                        /\ ~MatchesSource(written.days[e].hotel, catalog.hotels)
             Y(e) == {Error("attraction.not_in_sources", <<e, i>>) : i \in N(e)} \cup
                     When(H(e), Error("hotel.not_in_sources", <<e>>))
  <2>1. ValidateSourceConsistency = UNION {Y(e) : e \in WrittenDays}
    BY DEF ValidateSourceConsistency
  <2> HIDE DEF N, H
  <2>2. \A e \in WrittenDays : Other(Y(e))
    BY DEF When, Error
  <2> HIDE DEF Y
  <2> QED
    BY <2>1, <2>2
<1>6. Other(ValidateRouteDistances)
  <2> DEFINE E(e, i) == evidence.routes[<<written.days[e].index, i>>]
             Y(e) == UNION {ValidateWay(<<e, i>>, E(e, i)) : i \in 2..Len(written.days[e].spots)}
  <2>1. ValidateRouteDistances = UNION {Y(e) : e \in WrittenDays}
    BY DEF ValidateRouteDistances
  <2> HIDE DEF E
  <2>2. \A e, i : Other(ValidateWay(<<e, i>>, E(e, i)))
    BY DEF ValidateWay, When, Error, Warning
  <2> HIDE DEF Prepared, EmptyTexts
  <2>3. \A e \in WrittenDays : Other(Y(e))
    BY <2>2
  <2> HIDE DEF Y
  <2> QED
    BY <2>1, <2>3
<1>7. Other(ValidateScheduleCapacity)
  BY DEF ValidateScheduleCapacity, Error
<1>8. Other(ValidateExecutionConstraints)
  <2>1. \A x \in evidence.constraints : x.code \notin Prepared
    BY ValidationAssumption
  <2> QED
    BY <2>1 DEF ValidateExecutionConstraints
<1>9. Other(When(~written.suggestions, Error("plan.empty_suggestions", <<>>)))
  BY DEF When, TextsWritten
<1> HIDE DEF Prepared, EmptyTexts
<1> QED
  BY <1>1, <1>2, <1>3, <1>4, <1>5, <1>6, <1>7, <1>8, <1>9 DEF Validate

-----------------------------------------------------------------------------
(* The loop.                                                               *)

\* The level of a delivery.
LEMMA LevelType ==
    ASSUME NEW v, NEW a, NEW x
    PROVE  Level(v, a, x) \in {"excellent", "acceptable", "degraded", "unusable"}
<1>1. CASE v
  BY <1>1 DEF Level
<1>2. CASE ~v /\ a
  BY <1>2 DEF Level
<1>3. CASE ~v /\ ~a
  BY <1>3 DEF Level
<1> QED
  BY <1>1, <1>2, <1>3

\* A plan the model writes, first or as a repair, is normalized before it is judged.
LEMMA TakePlanKeeps ==
    ASSUME VIInv, TakePlan, repairs' \in 0..MaxRepairs
    PROVE  VIInv'
<1>1. PICK p \in LlmPlans : written' = RemoveDuplicateAttractions(p)
  BY DEF TakePlan
<1>2. written' \in WorkPlans /\ EachOnce(written'.days)
  BY <1>1, NormalizedPlan
<1>3. ValidationTypeOK'
  <2>1. written'.days \in Seq(PlanDays) /\ changes' \in 0..MaxChanges
    BY <1>2, ValidationAssumption DEF WorkPlans, TakePlan
  <2> QED
    BY <2>1 DEF VIInv, ValidationTypeOK, TakePlan, NoVerdict, NoDelivery
<1>4. PreparedForValidator' /\ RepairCanHelp' /\ phase' = "evaluate"
  BY DEF TakePlan, NoVerdict, PreparedForValidator, RepairCanHelp
<1> QED
  BY <1>2, <1>3, <1>4 DEF VIInv

\* The verdict: what is accepted fits the request, what is sent back can be mended.
LEMMA ValidateKeeps ==
    ASSUME ToleratesNoMismatch, VIInv, ValidateWritten
    PROVE  VIInv'
<1> DEFINE issues == Validate
           result == FromIssues(issues)
           errors == Errors(issues)
           acceptance == EvaluateAcceptance(result)
<1>0. /\ asked \in AskedTrips /\ written.days \in Seq(PlanDays) /\ EachOnce(written.days) /\ TextsWritten
      /\ \E e \in Evaluations : evidence.constraints = e.constraints
      /\ repairs \in 0..MaxRepairs /\ catalog \in Catalogs /\ changes \in 0..MaxChanges
  BY DEF VIInv, ValidationTypeOK, ValidateWritten
<1>1. /\ verdict' = result /\ delivery' = acceptance
      /\ phase' = IF acceptance.accepted THEN "finish"
                  ELSE IF result.repairable /\ repairs < MaxRepairs THEN "repair" ELSE "failed"
      /\ UNCHANGED <<asked, catalog, written, evidence, repairs, changes>>
  BY DEF ValidateWritten
<1>2. result.valid = (errors = {}) /\ result.issues = issues
      /\ result.repairable = (errors # {} /\ \A x \in errors : x.repairable)
  <2> HIDE DEF issues
  <2> QED
    BY DEF FromIssues
<1>3. FitsRequest' <=> FitsRequest
  BY <1>0, <1>1 DEF FitsRequest, CatalogNames, WrittenDays, ExpectedDates, CountSpots, SumUpTo, RequiredContent, MatchesSource
<1>4. acceptance.accepted => errors = {} \/ \A x \in errors : x.code \in Partial.codes
  <2> HIDE DEF issues, result
  <2> DEFINE partial == /\ Partial.enabled /\ CoreOk(errors)
                        /\ ScoreReaches(Partial.score, Cardinality(errors), Cardinality(issues \ errors))
  <2>1. acceptance = Delivered(result.valid, partial, Cardinality(issues \ errors))
    BY <1>2 DEF EvaluateAcceptance
  <2>2. acceptance.accepted = (result.valid \/ partial)
    <3> HIDE DEF partial, acceptance, errors
    <3> QED
      BY <2>1 DEF Delivered
  <2>3. partial => \A x \in errors : x.code \in Partial.codes
    BY DEF CoreOk
  <2> HIDE DEF partial, acceptance, errors
  <2> QED
    BY <1>2, <2>2, <2>3
<1>5. phase' = "finish" => FitsRequest
  <2> SUFFICES ASSUME phase' = "finish" PROVE FitsRequest
    OBVIOUS
  <2>1. acceptance.accepted
    <3> HIDE DEF acceptance, result
    <3> QED
      BY <1>1
  <2>2. \A x \in errors : x.code \notin RequestCodes
    <3> HIDE DEF acceptance, errors
    <3> QED
      BY <1>4, <2>1 DEF ToleratesNoMismatch
  <2> QED
    BY <1>0, <2>2, JudgedFits
<1>6. phase' = "repair" => ExpectedDates # <<>> /\ Len(ExpectedDates) = asked.days /\ CountSpots >= RequiredContent
                          /\ repairs < MaxRepairs
  <2> SUFFICES ASSUME phase' = "repair"
               PROVE  ExpectedDates # <<>> /\ Len(ExpectedDates) = asked.days /\ CountSpots >= RequiredContent
                      /\ repairs < MaxRepairs
    OBVIOUS
  <2>1. repairs < MaxRepairs /\ \A x \in errors : x.repairable
    <3> HIDE DEF acceptance, result, errors
    <3> QED
      BY <1>1, <1>2
  <2>2. ValidateRequest = {}
    BY <2>1, RequestErrors
  <2>3. ~(CountSpots < RequiredContent)
    BY <2>1, ContentErrors
  <2> QED
    BY <1>0, <2>1, <2>2, <2>3, SoundRequest, CountSpotsType, RequiredContentType
<1>7. PreparedForValidator'
  <2>1. \A x \in issues : x.code \notin Prepared
    BY <1>0, NothingLeftOver
  <2> HIDE DEF issues, result
  <2> QED
    BY <1>1, <1>2, <2>1 DEF PreparedForValidator, Prepared
<1>8. RepairCanHelp'
  BY <1>1, <1>6 DEF RepairCanHelp, ExpectedDates, CountSpots, SumUpTo, RequiredContent
<1>9. ValidationTypeOK'
  <2>1. verdict'.valid \in BOOLEAN /\ verdict'.repairable \in BOOLEAN
    <3> HIDE DEF result, errors
    <3> QED
      BY <1>1, <1>2
  <2>2. delivery'.level \in {"excellent", "acceptable", "degraded", "unusable"}
    <3> HIDE DEF result
    <3> QED
      BY <1>1, LevelType DEF EvaluateAcceptance, Delivered
  <2>3. phase' \in {"finish", "repair", "failed"}
    BY <1>1
  <2> QED
    BY <1>0, <1>1, <2>1, <2>2, <2>3 DEF ValidationTypeOK
<1>10. phase' \in {"finish", "repair", "failed"}
  BY <1>1
<1> QED
  BY <1>1, <1>3, <1>5, <1>6, <1>7, <1>8, <1>9, <1>10 DEF VIInv

\* At first there is no plan and no verdict.
LEMMA ValidationStarts == ValidationInit => VIInv
<1> SUFFICES ASSUME ValidationInit PROVE VIInv
  OBVIOUS
<1>1. written.days = <<>> /\ written.days \in Seq(PlanDays)
  BY EmptySeq DEF ValidationInit, NoPlan
<1>2. ValidationTypeOK
  BY <1>1, ValidationAssumption DEF ValidationInit, ValidationTypeOK, NoVerdict, NoDelivery
<1> QED
  BY <1>2 DEF ValidationInit, VIInv, RepairCanHelp, PreparedForValidator, NoVerdict

\* The induction step: one case for each step of the loop.
LEMMA ValidationKeeps ==
    ASSUME ToleratesNoMismatch, VIInv, [ValidationNext]_validationVars
    PROVE  VIInv'
<1> USE DEF VIInv
\* The plan and the verdict stay: so does what is known of them.
<1>1. ASSUME UNCHANGED <<asked, catalog, written, verdict, delivery, repairs, changes>>
      PROVE  (FitsRequest' <=> FitsRequest) /\ PreparedForValidator'
  BY <1>1 DEF FitsRequest, CatalogNames, WrittenDays, ExpectedDates, CountSpots, SumUpTo, RequiredContent,
              MatchesSource, PreparedForValidator
<1>2. CASE GenerateWritten
  <2>1. repairs' \in 0..MaxRepairs /\ TakePlan
    BY <1>2 DEF GenerateWritten, ValidationTypeOK
  <2> QED
    BY <2>1, TakePlanKeeps
<1>3. CASE RepairWritten
  <2>1. repairs' \in 0..MaxRepairs /\ TakePlan
    BY <1>3, ValidationAssumption DEF RepairWritten, ValidationTypeOK
  <2> QED
    BY <2>1, TakePlanKeeps
<1>4. CASE GatherEvidence
  <2>1. \E e \in Evaluations : evidence'.constraints = e.constraints
    BY <1>4 DEF GatherEvidence
  <2>2. /\ phase = "evaluate" /\ phase' = "validate" /\ written' = RebuiltContent(written)
        /\ UNCHANGED <<asked, catalog, verdict, delivery, repairs, changes>>
    BY <1>4 DEF GatherEvidence
  <2>3. /\ written'.days \in Seq(PlanDays) /\ EachOnce(written'.days) /\ written'.suggestions = TRUE
        /\ \A d \in DOMAIN written'.days : written'.days[d].empty = {}
    BY <2>2, RebuiltTexts
  <2>4. TextsWritten' /\ ValidationTypeOK'
    BY <2>2, <2>3 DEF TextsWritten, WrittenDays, ValidationTypeOK
  <2>5. PreparedForValidator' /\ RepairCanHelp'
    BY <2>2 DEF PreparedForValidator, RepairCanHelp
  <2> QED
    BY <2>1, <2>2, <2>3, <2>4, <2>5
<1>5. CASE ValidateWritten
  BY <1>5, ValidateKeeps
<1>8. CASE ChangeWritten
  <2>1. /\ phase = "evaluate" /\ phase' = "evaluate" /\ written' \in Changed(written)
        /\ changes' = changes + 1 /\ changes < MaxChanges
        /\ UNCHANGED <<asked, catalog, evidence, verdict, delivery, repairs>>
    BY <1>8 DEF ChangeWritten
  <2>2. written' \in WorkPlans /\ EachOnce(written'.days)
    BY <2>1, ChangedOnce DEF ValidationTypeOK
  <2>3. written'.days \in Seq(PlanDays) /\ changes' \in 0..MaxChanges
    BY <2>1, <2>2, ValidationAssumption DEF WorkPlans, ValidationTypeOK
  <2>4. ValidationTypeOK' /\ PreparedForValidator' /\ RepairCanHelp'
    BY <2>1, <2>3 DEF ValidationTypeOK, PreparedForValidator, RepairCanHelp
  <2> QED
    BY <2>1, <2>2, <2>4
<1>6. CASE FinishWritten
  <2>1. /\ phase = "finish" /\ phase' = "completed"
        /\ UNCHANGED <<asked, catalog, written, verdict, delivery, repairs, changes>>
    BY <1>6 DEF FinishWritten
  <2> QED
    BY <1>1, <2>1 DEF ValidationTypeOK, RepairCanHelp
<1>7. CASE UNCHANGED validationVars
  <2>1. /\ UNCHANGED <<asked, catalog, written, verdict, delivery, repairs, changes>>
        /\ UNCHANGED <<phase, evidence>>
    BY <1>7 DEF validationVars
  <2>2. RepairCanHelp'
    BY <2>1 DEF RepairCanHelp, ExpectedDates, CountSpots, SumUpTo, RequiredContent
  <2> QED
    BY <1>1, <2>1, <2>2 DEF ValidationTypeOK, TextsWritten, WrittenDays
<1> QED
  BY <1>2, <1>3, <1>4, <1>5, <1>6, <1>7, <1>8 DEF ValidationNext

\* For any request, any catalogue, any plan the model writes, any attraction the
\* optimizers add, move, replace or remove before the rebuilder runs, and any number of
\* repairs: a plan that is delivered, in full or in part, fits the request, a repair is
\* asked for only when writing differently can help, and no verdict rejects a repeated
\* attraction or a blank text, provided that the list of tolerable errors names none
\* that contradicts the request (the default list of acceptance.py names none).
THEOREM ValidationInvariant == ToleratesNoMismatch => (ValidationSpec => []ValidationInv)
<1> SUFFICES ASSUME ToleratesNoMismatch PROVE ValidationSpec => []ValidationInv
  OBVIOUS
<1>1. ValidationInit => VIInv
  BY ValidationStarts
<1>2. VIInv /\ [ValidationNext]_validationVars => VIInv'
  BY ValidationKeeps
<1>3. VIInv => ValidationInv
  BY DEF VIInv, ValidationInv, DeliveredFitsRequest
<1> QED
  BY <1>1, <1>2, <1>3, PTL DEF ValidationSpec

=============================================================================
