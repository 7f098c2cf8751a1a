------------------------- MODULE TripDraftVersions --------------------------
(***************************************************************************)
(* TripDraftService over a trip version store, for one session.  A request  *)
(* reads what it needs, computes, and writes in several transactions; two   *)
(* requests interleave between them, and a process may die there.           *)
(*                                                                          *)
(* The MySQL store inserts versions with ON DUPLICATE KEY UPDATE, which     *)
(* also fires on the unique key (session_id, version_number): the row then  *)
(* keeps its version_id column and takes the JSON of the other version.     *)
(* The SQLite store refuses the duplicate number instead, supersedes a      *)
(* candidate in two transactions, and reads the confirmed rows before the   *)
(* first UPDATE of confirm_version opens its transaction.                   *)
(***************************************************************************)
EXTENDS Naturals, FiniteSets

CONSTANTS
    Drafts,         \* draft ids
    Threads,        \* request threads of the server
    MaxRequests,    \* bound: draft requests of a behaviour
    MaxDeaths,      \* bound: requests that end between two transactions
    Backends        \* stores to check, of "mysql" and "sqlite"

ASSUME DraftAssumption ==
    /\ IsFiniteSet(Drafts)
    /\ Threads \in Nat \ {0} /\ MaxRequests \in Nat /\ MaxDeaths \in Nat
    /\ Backends \subseteq {"mysql", "sqlite"}

VARIABLES
    backend,    \* the configured store
    versions,   \* trip_plan_versions of the session
    drafts,     \* trip_drafts
    plan,       \* trip_plan of the AgentState
    request,    \* what each thread is doing
    issued,     \* requests so far, which also names new versions
    deaths,     \* requests that died
    raced,      \* numbers taken twice, confirmations rewritten or overlapping, so far
    behind      \* a request died between confirm_version and save_state, none saved since

draftVars == <<backend, versions, drafts, plan, request, issued, deaths, raced, behind>>

Requests == 1..Threads

\* Request n brings the plan of content n, 0 is the content the orchestrator made;
\* by is the request whose _evaluate_plan rebuilt it last, 0 for nobody.
Plans == [of : 0..MaxRequests, by : 0..MaxRequests]
Written(n) == [of |-> n, by |-> 0]

\* plan_consistency_rebuilder: texts, meals and budget follow the new routes and
\* timeline, the attractions are those of p.
RebuiltBy(p, name) == [p EXCEPT !.by = name]

\* A row has its version_id column key; id is the version_id in its JSON.
Row == [key : Nat, id : Nat, number : Nat, status : {"candidate", "confirmed", "superseded"},
        plan : Plans, base : Nat]

NoDraft == [status |-> "none", base |-> 0, plan |-> Written(0), candidate |-> 0]
NoRow == [key |-> 0, id |-> 0, number |-> 0, status |-> "none", plan |-> Written(0), base |-> 0]
NoRequest == [op |-> "none", at |-> "end", of |-> 0, name |-> 0, plan |-> Written(0),
              draft |-> NoDraft, base |-> 0, row |-> NoRow, old |-> {}]

DraftInit ==
    /\ backend \in Backends
    /\ versions = {}
    /\ drafts = [d \in Drafts |-> NoDraft]
    /\ plan = Written(0)
    /\ request = [r \in Requests |-> NoRequest]
    /\ issued = 0
    /\ deaths = 0
    /\ raced = {}
    /\ behind = FALSE

----------------------------------------------------------------------------
(* The stores                                                              *)

Confirmed == {v \in versions : v.status = "confirmed"}

\* get_confirmed_version: the highest number; 0 when there is none.
ConfirmedNumber == IF Confirmed = {} THEN 0
                   ELSE CHOOSE n \in {v.number : v \in Confirmed} : \A v \in Confirmed : v.number <= n

\* next_version_number
NextNumber == IF versions = {} THEN 1
              ELSE 1 + (CHOOSE n \in {v.number : v \in versions} : \A v \in versions : v.number <= n)

Taken(number) == {v \in versions : v.number = number}

\* save_version of a new version with a number that may be taken.
Insert(v) ==
    IF Taken(v.number) = {} THEN versions \cup {v}
    ELSE {IF w.number = v.number THEN [v EXCEPT !.key = w.key] ELSE w : w \in versions}

Refused(number) == backend = "sqlite" /\ Taken(number) # {}

ByKey(id) == {v \in versions : v.key = id}

\* supersede_candidate, where the row is locked.
Supersede(id) ==
    {IF v.key = id /\ v.status = "candidate" THEN [v EXCEPT !.status = "superseded"] ELSE v
        : v \in versions}

ConfirmedIds == {v.id : v \in Confirmed}

\* Bug: the version that was confirmed before stays so.
ConfirmBeside(target, old) ==
    {IF v.key = target.id THEN [target EXCEPT !.status = "confirmed", !.key = v.key] ELSE v
        : v \in versions}

\* The writes of confirm_version: the rows of the version_ids in old are superseded,
\* the target's row gets the JSON that was read.
Confirm(target, old) ==
    {IF v.key = target.id THEN [target EXCEPT !.status = "confirmed", !.key = v.key]
     ELSE IF v.key \in old THEN [v EXCEPT !.status = "superseded"]
     ELSE v : v \in versions}

----------------------------------------------------------------------------
(* Requests.  A step of thread r is at request[r].at.                       *)

At(r, op, at) == request[r].op = op /\ request[r].at = at
Become(r, q) == request' = [request EXCEPT ![r] = q]
Go(r, at) == Become(r, [request[r] EXCEPT !.at = at])
End(r) == Become(r, NoRequest)

\* A request goes to the first free thread and reads the AgentState.
Start(r, op, d, at) ==
    /\ issued < MaxRequests
    /\ request[r] = NoRequest /\ \A q \in 1..(r - 1) : request[q] # NoRequest
    /\ issued' = issued + 1
    /\ Become(r, [NoRequest EXCEPT !.op = op, !.at = at, !.of = d, !.name = issued + 1, !.plan = plan])
    /\ UNCHANGED <<backend, versions, drafts, plan, deaths, raced, behind>>

\* The id of a new draft is new.
CreateDraft(r) ==
    \E d \in Drafts :
        /\ drafts[d] = NoDraft /\ \A q \in Requests : request[q].of # d
        /\ Start(r, "create", d, "ensure")

UpdateDraft(r) == \E d \in Drafts : drafts[d] # NoDraft /\ Start(r, "update", d, "read")
EvaluateDraft(r) == \E d \in Drafts : drafts[d] # NoDraft /\ Start(r, "evaluate", d, "read")
ConfirmDraft(r) == \E d \in Drafts : drafts[d] # NoDraft /\ Start(r, "confirm", d, "read")

\* get_draft; update_draft answers 409 to a confirmed draft, and to a plan of
\* another city, other dates or another number of days (_validate_identity).
ReadDraft(r) ==
    /\ request[r].at = "read"
    /\ LET q == [request[r] EXCEPT !.draft = drafts[request[r].of]]
       IN  \/ q.op # "update" /\ Become(r, [q EXCEPT !.at = "base"])
           \/ q.op = "update" /\ q.draft.status # "confirmed" /\ Become(r, [q EXCEPT !.at = "supersede"])
           \/ q.op = "update" /\ End(r)
    /\ UNCHANGED <<backend, versions, drafts, plan, issued, deaths, raced, behind>>

\* Bug: the base version of the draft is not compared with the confirmed one.
ConflictOfStatus(q, number) == q.op = "confirm" /\ q.draft.status # "evaluated"

\* What is answered 409 once the number of the confirmed version is known; 0 is none.
Conflict(q, number) ==
    \/ q.op \in {"evaluate", "confirm"} /\ q.draft.base # number
    \/ q.op = "confirm" /\ (number = 0 \/ q.draft.status # "evaluated")

\* Where a request goes on that is based on the confirmed version of this number.
\* create_draft answers 409 when the payload names another base_version or
\* changes the identity of the trip.
OnBase(r, number) ==
    LET q == [request[r] EXCEPT !.base = number]
    IN  \/ Conflict(q, number) /\ End(r)
        \/ ~Conflict(q, number) /\ q.op = "confirm" /\ Become(r, [q EXCEPT !.at = "fetch"])
        \/ ~Conflict(q, number) /\ q.op = "evaluate" /\ Become(r, [q EXCEPT !.at = "supersede"])
        \/ q.op = "create" /\ (Become(r, [q EXCEPT !.at = "draft"]) \/ End(r))

\* get_confirmed_version of evaluate_draft and confirm_draft.
ReadConfirmed(r) ==
    /\ request[r].at = "base"
    /\ IF request[r].op = "evaluate" /\ Confirmed = {} THEN Go(r, "ensure")
       ELSE OnBase(r, ConfirmedNumber)
    /\ UNCHANGED <<backend, versions, drafts, plan, issued, deaths, raced, behind>>

\* get_confirmed_version of ensure_original_version.
EnsureOriginal(r) ==
    /\ request[r].at = "ensure"
    /\ IF Confirmed = {} THEN Go(r, "original") ELSE OnBase(r, ConfirmedNumber)
    /\ UNCHANGED <<backend, versions, drafts, plan, issued, deaths, raced, behind>>

\* Version ids are new: request n names its candidate n, its original so.
OriginalId(name) == MaxRequests + name

\* ensure_original_version rebuilds the plan it was given and saves it as version 1.
SaveOriginal(r) ==
    /\ request[r].at = "original"
    /\ IF Refused(1)
         THEN End(r) /\ UNCHANGED <<versions, raced>>
         ELSE /\ versions' = Insert([key |-> OriginalId(request[r].name),
                                     id |-> OriginalId(request[r].name), number |-> 1,
                                     status |-> "confirmed",
                                     plan |-> RebuiltBy(request[r].plan, request[r].name), base |-> 0])
              /\ raced' = raced \cup (IF Taken(1) = {} THEN {} ELSE {"number"})
              /\ OnBase(r, 1)
    /\ UNCHANGED <<backend, drafts, plan, issued, deaths, behind>>

\* supersede_candidate of the candidate in the draft as it was loaded; SQLite
\* reads the version here and writes it back in a transaction of its own.
SupersedeCandidate(r) ==
    /\ request[r].at = "supersede"
    /\ LET next == IF request[r].op = "update" THEN "draft" ELSE "number"
           old == {v \in ByKey(request[r].draft.candidate) : v.status = "candidate"}
       IN  \/ /\ request[r].draft.candidate # 0 /\ ByKey(request[r].draft.candidate) = {}
              /\ End(r) /\ UNCHANGED versions
           \/ /\ request[r].draft.candidate = 0 \/ ByKey(request[r].draft.candidate) # {}
              /\ IF backend = "sqlite" /\ old # {}
                   THEN /\ \E v \in old : Become(r, [request[r] EXCEPT !.at = "rewrite", !.row = v])
                        /\ UNCHANGED versions
                   ELSE /\ versions' = Supersede(request[r].draft.candidate)
                        /\ Go(r, next)
    /\ UNCHANGED <<backend, drafts, plan, issued, deaths, raced, behind>>

RewriteCandidate(r) ==
    /\ request[r].at = "rewrite"
    /\ versions' = {IF v.key = request[r].row.key
                      THEN [request[r].row EXCEPT !.status = "superseded"] ELSE v : v \in versions}
    /\ raced' = raced \cup {"rewrite" : v \in ByKey(request[r].row.key) \ {request[r].row}}
    /\ Become(r, [request[r] EXCEPT !.row = NoRow,
                        !.at = IF request[r].op = "update" THEN "draft" ELSE "number"])
    /\ UNCHANGED <<backend, drafts, plan, issued, deaths, behind>>

\* evaluate_draft: routes of the changed legs, _evaluate_plan, and the number.
TakeNumber(r) ==
    /\ At(r, "evaluate", "number")
    /\ Become(r, [request[r] EXCEPT !.at = "version",
            !.row = [key |-> request[r].name, id |-> request[r].name, number |-> NextNumber,
                     status |-> "candidate", plan |-> RebuiltBy(request[r].draft.plan, request[r].name),
                     base |-> request[r].draft.base]])
    /\ UNCHANGED <<backend, versions, drafts, plan, issued, deaths, raced, behind>>

SaveCandidate(r) ==
    /\ At(r, "evaluate", "version")
    /\ LET v == request[r].row
       IN  IF Refused(v.number)
             THEN End(r) /\ UNCHANGED <<versions, raced>>
             ELSE /\ versions' = Insert(v)
                  /\ raced' = raced \cup (IF Taken(v.number) = {} THEN {} ELSE {"number"})
                  /\ Go(r, "draft")
    /\ UNCHANGED <<backend, drafts, plan, issued, deaths, behind>>

\* get_version_by_id of the candidate, when the draft was loaded.
FetchCandidate(r) ==
    /\ At(r, "confirm", "fetch")
    /\ IF ByKey(request[r].draft.candidate) = {}
         THEN End(r)
         ELSE \E v \in ByKey(request[r].draft.candidate) :
                Become(r, [request[r] EXCEPT !.row = v,
                                !.at = IF backend = "sqlite" THEN "select" ELSE "confirm"])
    /\ UNCHANGED <<backend, versions, drafts, plan, issued, deaths, raced, behind>>

\* confirm_version of SQLite reads the confirmed rows outside a transaction.
SelectConfirmed(r) ==
    /\ At(r, "confirm", "select")
    /\ Become(r, [request[r] EXCEPT !.at = "confirm", !.old = ConfirmedIds])
    /\ UNCHANGED <<backend, versions, drafts, plan, issued, deaths, raced, behind>>

\* Requests that have confirmed their version and not yet saved the session.
Confirming == {r \in Requests : At(r, "confirm", "state")}

\* The writes of confirm_version.  MySQL has read the rows under their locks, and
\* answers 404 when none of them carries the id that was read.
ConfirmVersion(r) ==
    /\ At(r, "confirm", "confirm")
    /\ LET target == request[r].row
           old == IF backend = "sqlite" THEN request[r].old ELSE ConfirmedIds
       IN  IF backend = "mysql" /\ ByKey(target.id) = {}
             THEN End(r) /\ UNCHANGED <<versions, raced>>
             ELSE /\ versions' = Confirm(target, old \ {target.id})
                  /\ raced' = raced \cup
                        (IF ConfirmedNumber = request[r].base /\ old = ConfirmedIds /\ Confirming = {}
                         THEN {} ELSE {"confirm"})
                  /\ Go(r, "state")
    /\ UNCHANGED <<backend, drafts, plan, issued, deaths, behind>>

\* save_state of the AgentState that was loaded, with the version's plan.
SaveState(r) ==
    /\ At(r, "confirm", "state")
    /\ plan' = request[r].row.plan
    /\ behind' = FALSE
    /\ Go(r, "draft")
    /\ UNCHANGED <<backend, versions, drafts, issued, deaths, raced>>

\* The draft each operation saves last, built from the one it loaded.
Saved(q) ==
    CASE q.op = "create" ->
            [status |-> "editing", base |-> q.base, plan |-> Written(q.name), candidate |-> 0]
      [] q.op = "update" ->
            [q.draft EXCEPT !.status = "editing", !.plan = Written(q.name), !.candidate = 0]
      [] q.op = "evaluate" ->
            [q.draft EXCEPT !.status = "evaluated", !.plan = q.row.plan, !.candidate = q.row.id]
      [] q.op = "confirm" -> [q.draft EXCEPT !.status = "confirmed"]

SaveDraft(r) ==
    /\ request[r].at = "draft"
    /\ drafts' = [drafts EXCEPT ![request[r].of] = Saved(request[r])]
    /\ End(r)
    /\ UNCHANGED <<backend, versions, plan, issued, deaths, raced, behind>>

\* The process dies, a route query fails or the database refuses the next
\* transaction; before the first write nothing is lost.
Die(r) ==
    /\ request[r].at \in {"supersede", "rewrite", "number", "version", "state", "draft"}
    /\ deaths < MaxDeaths
    /\ deaths' = deaths + 1
    /\ behind' = (behind \/ r \in Confirming)
    /\ End(r)
    /\ UNCHANGED <<backend, versions, drafts, plan, issued, raced>>

DraftNext ==
    \E r \in Requests :
        \/ CreateDraft(r) \/ UpdateDraft(r) \/ EvaluateDraft(r) \/ ConfirmDraft(r)
        \/ ReadDraft(r) \/ ReadConfirmed(r) \/ EnsureOriginal(r) \/ SaveOriginal(r)
        \/ SupersedeCandidate(r) \/ RewriteCandidate(r) \/ TakeNumber(r) \/ SaveCandidate(r)
        \/ FetchCandidate(r) \/ SelectConfirmed(r) \/ ConfirmVersion(r) \/ SaveState(r)
        \/ SaveDraft(r) \/ Die(r)

DraftSpec == DraftInit /\ [][DraftNext]_draftVars

----------------------------------------------------------------------------
\* The variables have their types; numbers and keys of versions are unique.
DraftTypeOK ==
    /\ versions \subseteq Row
    /\ \A v, w \in versions : v.number = w.number \/ v.key = w.key => v = w
    /\ drafts \in [Drafts -> [status : {"none", "editing", "evaluated", "confirmed"}, base : Nat,
                              plan : Plans, candidate : Nat]]
    /\ plan \in Plans
    /\ \A r \in Requests : request[r].op \in {"none", "create", "update", "evaluate", "confirm"}
    /\ raced \subseteq {"number", "rewrite", "confirm"} /\ behind \in BOOLEAN

\* Versions that were confirmed are kept under their number, as the class comment
\* of the MySQL store says: "草稿可覆盖保存，正式版本按编号保留并支持原子确认".
ConfirmedIsKept ==
    [][\A v \in Confirmed : \E w \in versions' :
            w.number = v.number /\ w.plan = v.plan /\ w.status # "candidate"]_draftVars

\* It holds as long as no two requests took the same version number.
KeptUnlessNumberTaken ==
    [][\A v \in Confirmed : "number" \in raced' \/ \E w \in versions' :
            w.number = v.number /\ w.plan = v.plan /\ w.status # "candidate"]_draftVars

\* One version is confirmed: on MySQL unless two requests took the same number,
\* however confirmations and evaluations interleave; on SQLite, whose confirmations
\* do not see each other between their read and their write, unless two overlapped.
OneConfirmed ==
    ("number" \notin raced /\ (backend = "sqlite" => "confirm" \notin raced)) =>
        Cardinality(Confirmed) <= 1

\* The session has the plan of v; the original version was rebuilt from it.
Shows(v) == v.plan.of = plan.of /\ (v.base # 0 => v.plan = plan)

\* The session shows the plan of its confirmed version unless a confirmation is
\* on its way or two of them overlapped.  A death between confirm_version and
\* save_state leaves it behind until the next confirmation; whatever dies, it
\* shows a version that is or was confirmed, never a candidate.
SessionShowsConfirmed ==
    /\ (raced = {} /\ ~behind /\ Confirming = {}) => \A v \in Confirmed : Shows(v)
    /\ ("number" \notin raced /\ versions # {}) =>
          \E v \in versions : v.status # "candidate" /\ Shows(v)

\* A session that had a confirmed version has one; only a version number taken
\* twice, or SQLite's rewriting of a candidate that was confirmed meanwhile,
\* takes it away.
KeepsAConfirmed ==
    (versions # {} /\ raced \cap {"number", "rewrite"} = {}) => Confirmed # {}

\* An evaluated draft carries the plan of its candidate, so that what the user
\* confirms is what the evaluation showed; a shared version number breaks it.
EvaluatedIsItsCandidate ==
    "number" \notin raced =>
        \A d \in Drafts : drafts[d].status = "evaluated" =>
            \E v \in ByKey(drafts[d].candidate) : v.plan = drafts[d].plan

\* A confirmed version replaces the version its draft was based on: nobody's
\* confirmed changes are dropped, unless two confirmations overlapped.
ReplacesItsBase ==
    [][\A v \in Confirmed' : (v \notin Confirmed /\ raced' = {}) =>
            v.base = 0 \/ \E w \in Confirmed : w.number = v.base]_draftVars

\* What a session shows while requests on its drafts overlap and die: one
\* confirmed version, whose plan the session has, and evaluated drafts that carry
\* their candidate's plan; each part names the races it is exempt from.
DraftInv ==
    /\ DraftTypeOK /\ OneConfirmed /\ SessionShowsConfirmed /\ KeepsAConfirmed
    /\ EvaluatedIsItsCandidate

\* A confirmed version stays under its number, and is only replaced by a version
\* that was made from it: no overlapping request drops the user's changes.
NothingConfirmedIsLost == KeptUnlessNumberTaken /\ ReplacesItsBase

=============================================================================
