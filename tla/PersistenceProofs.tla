------------------------- MODULE PersistenceProofs --------------------------
(***************************************************************************)
(* Proofs about rows that outlive a request.  The drafts and versions of a *)
(* session: what two requests, and any number of them, may do to each other*)
(* between their transactions.  The data migration: for any number of rows *)
(* and batches, and any order of stops, resumes, verifications, rollbacks  *)
(* and writes of the service, the status of a batch is true of the target. *)
(***************************************************************************)
EXTENDS TripDraftVersions, DataMigration, FiniteSetTheorems, WellFoundedInduction, TLAPS

-----------------------------------------------------------------------------
(* Drafts and versions.                                                    *)

----------------------------------------------------------------------------
(* The inductive invariant.                                                *)

DraftRows == [status : {"none", "editing", "evaluated", "confirmed"}, base : Nat, plan : Plans,
              candidate : Nat]

Places == {"end", "read", "base", "ensure", "original", "supersede", "rewrite", "number", "version",
           "fetch", "select", "confirm", "state", "draft"}

RequestRows == [op : {"none", "create", "update", "evaluate", "confirm"}, at : Places,
                of : Drafts \cup {0}, name : Nat, plan : Plans, draft : DraftRows, base : Nat,
                row : Row \cup {NoRow}, old : SUBSET Nat]

\* No two versions of the session have taken the same number.
Clean == "number" \notin raced

\* A version keeps its key and its number, and its JSON unless a number was taken
\* twice; then it never becomes a candidate again.
Continues(v, w, clean) ==
    /\ w.key = v.key /\ w.number = v.number
    /\ clean => /\ w.id = v.id /\ w.plan = v.plan /\ w.base = v.base
                /\ v.status # "candidate" => w.status # "candidate"

\* The rows as a whole: row 1 is the first, and an id that is not its row's key is
\* nobody's key.
VersionsOK(vs, clean) ==
    /\ vs \subseteq Row
    /\ \A v, w \in vs : v.number = w.number \/ v.key = w.key => v = w
    /\ \E b \in Nat : \A v \in vs : v.number <= b
    /\ vs # {} => \E v \in vs : v.number = 1
    /\ \A v, w \in vs : v.id # v.key => w.key # v.id
    /\ clean => \A v \in vs : v.id = v.key

\* A row that a request has read: its version is still there.
Tracks(vs, clean, row) ==
    /\ row \in Row
    /\ row.id # row.key => \A w \in vs : w.key # row.id
    /\ row.id = row.key => \E v \in vs : v.key = row.key /\ v.number = row.number
    /\ clean => row.id = row.key /\ \E v \in vs : Continues(row, v, clean)

\* The version of key that a draft with this plan and base was turned into.
Offers(vs, clean, key, content, base) ==
    clean => \E v \in vs : v.key = key /\ v.plan = content /\ v.base = base

DraftOK(d, vs, clean) ==
    /\ d \in DraftRows
    /\ d # NoDraft => vs # {}
    /\ d.status = "evaluated" => Offers(vs, clean, d.candidate, d.plan, d.base)

\* The row a request has read and will write back.
Holds(q) == q.at = "rewrite" \/ (q.op = "confirm" /\ q.at \in {"select", "confirm", "state"})

\* The ids of the versions that the request may still insert.
Coming(q) ==
    {n \in {q.name} : q.op = "evaluate" /\ q.at \in {"read", "base", "ensure", "original",
                                                     "supersede", "rewrite", "number", "version"}}
    \cup
    {n \in {OriginalId(q.name)} : q.op \in {"create", "evaluate"} /\
                                  q.at \in {"read", "base", "ensure", "original"}}

\* The version a request has confirmed and will show in the session.
ConfirmedByNow(vs, clean, row) ==
    clean => \E v \in vs : /\ v.key = row.key /\ v.plan = row.plan /\ v.base = row.base
                           /\ v.status # "candidate"

RequestOK(q, vs, clean, store) ==
    /\ q \in RequestRows
    /\ q.op = "none" => q = NoRequest
    /\ q.op # "none" => q.of \in Drafts
    /\ q.op = "create" => q.at \in {"ensure", "original", "draft"}
    /\ q.op = "update" => q.at \in {"read", "supersede", "rewrite", "draft"}
    /\ q.op = "evaluate" => q.at \in {"read", "base", "ensure", "original", "supersede", "rewrite",
                                      "number", "version", "draft"}
    /\ q.op = "confirm" => q.at \in {"read", "base", "fetch", "select", "confirm", "state", "draft"}
    /\ q.op \in {"update", "evaluate", "confirm"} \/ q.at = "draft" => vs # {}
    /\ Holds(q) => Tracks(vs, clean, q.row)
    /\ q.at = "rewrite" => store = "sqlite" /\ q.row.status = "candidate"
    /\ q.at \in {"base", "fetch"} => DraftOK(q.draft, vs, clean)
    /\ q.at = "fetch" => q.draft.base = q.base /\ q.draft.status = "evaluated"
    /\ q.at \in {"select", "confirm", "state"} => (clean => q.row.base = q.base)
    /\ q.at = "state" => ConfirmedByNow(vs, clean, q.row)
    /\ q.at = "version" =>
          /\ q.row \in Row /\ q.row.key = q.name /\ q.row.id = q.name /\ q.row.status = "candidate"
          /\ q.row.base = q.draft.base
    /\ q.op = "evaluate" /\ q.at = "draft" =>
          q.row \in Row /\ Offers(vs, clean, q.row.id, q.row.plan, q.draft.base)

\* Names that requests up to n give to versions.
NamesUpTo(n) == 1..n \cup {m \in Nat : \E k \in 1..n : m = OriginalId(k)}

\* Names of requests, which become keys and ids of versions, are never used twice.
NamesOK ==
    /\ \A v \in versions : v.key \in NamesUpTo(issued) /\ v.id \in NamesUpTo(issued)
    /\ \A r \in Requests : request[r].op # "none" => request[r].name \in 1..issued
    /\ \A r, q \in Requests : r # q => Coming(request[r]) \cap Coming(request[q]) = {}
    /\ \A r \in Requests : \A v \in versions :
          v.key \notin Coming(request[r]) /\ v.id \notin Coming(request[r])
    /\ \A q \in Requests : Holds(request[q]) =>
          /\ request[q].row.id \in NamesUpTo(issued)
          /\ \A r \in Requests : request[q].row.id \notin Coming(request[r])

\* While nothing has raced one confirmation at a time is on its way, and it has
\* the plan that is confirmed; the session shows a version that was confirmed,
\* and before there is one every request has the plan of the session.
SessionOK ==
    /\ raced = {} =>
          /\ (~behind /\ Confirming = {}) => \A v \in Confirmed : Shows(v)
          /\ \A r \in Confirming : \A v \in Confirmed : v.plan = request[r].row.plan
          /\ \A r, q \in Confirming : r = q
    /\ (Clean /\ versions # {}) => \E v \in versions : v.status # "candidate" /\ Shows(v)
    /\ versions = {} => \A r \in Requests : request[r].op # "none" => request[r].plan = plan

\* One version is confirmed where the store sees to it.
SingleOK ==
    (Clean /\ (backend = "sqlite" => "confirm" \notin raced)) => \A v, w \in Confirmed : v = w

DraftIInv ==
    /\ backend \in {"mysql", "sqlite"} /\ (backend = "sqlite" => Clean)
    /\ raced \subseteq {"number", "rewrite", "confirm"} /\ behind \in BOOLEAN
    /\ plan \in Plans /\ issued \in 0..MaxRequests /\ deaths \in Nat
    /\ VersionsOK(versions, Clean)
    /\ drafts \in [Drafts -> DraftRows] /\ \A d \in Drafts : DraftOK(drafts[d], versions, Clean)
    /\ request \in [Requests -> RequestRows]
    /\ \A r \in Requests : RequestOK(request[r], versions, Clean, backend)
    /\ NamesOK /\ KeepsAConfirmed /\ SessionOK /\ SingleOK

----------------------------------------------------------------------------
(* The numbers that the store computes.                                    *)

\* The least and the greatest element of a set of naturals.
LEMMA LeastElement ==
    ASSUME NEW T, T \subseteq Nat, T # {}
    PROVE  \E x \in T : \A y \in T : x <= y
<1> DEFINE R == OpToRel(<, Nat)
<1>1. \E x \in T : \A y \in T : ~ (<<y, x>> \in R)
  BY NatLessThanWellFounded, WFMin
<1>2. \A x, y \in Nat : <<y, x>> \in R <=> y < x
  BY DEF OpToRel
<1> HIDE DEF R
<1>3. PICK x \in T : \A y \in T : ~ (<<y, x>> \in R)
  BY <1>1
<1>4. ASSUME NEW y \in T PROVE x <= y
  <2>1. ~ (<<y, x>> \in R) /\ x \in Nat /\ y \in Nat
    BY <1>3
  <2>2. ~ (y < x)
    BY <1>2, <2>1
  <2> QED
    BY <2>1, <2>2
<1> QED
  BY <1>4

LEMMA GreatestElement ==
    ASSUME NEW S, S \subseteq Nat, S # {}, NEW b \in Nat, \A n \in S : n <= b
    PROVE  \E m \in S : \A n \in S : n <= m
<1> DEFINE T == {k \in Nat : \E n \in S : k = b - n}
<1>1. T \subseteq Nat /\ T # {}
  <2>1. PICK n \in S : TRUE
    OBVIOUS
  <2>2. b - n \in T
    BY <2>1
  <2> QED
    BY <2>2
<1>2. PICK k \in T : \A y \in T : k <= y
  <2> HIDE DEF T
  <2> QED
    BY <1>1, LeastElement
<1>3. PICK m \in S : k = b - m
  OBVIOUS
<1>4. \A n \in S : b - n \in T
  OBVIOUS
<1> QED
  BY <1>2, <1>3, <1>4

LEMMA RowFields ==
    ASSUME NEW v \in Row
    PROVE  /\ v.key \in Nat /\ v.id \in Nat /\ v.number \in Nat /\ v.plan \in Plans /\ v.base \in Nat
           /\ v.status \in {"candidate", "confirmed", "superseded"}
BY DEF Row

LEMMA NumbersAreNaturals ==
    ASSUME VersionsOK(versions, Clean)
    PROVE  /\ ConfirmedNumber \in Nat /\ NextNumber \in Nat
           /\ Confirmed # {} => \E v \in Confirmed : v.number = ConfirmedNumber
<1>1. /\ versions \subseteq Row
      /\ \E b \in Nat : \A v \in versions : v.number <= b
  BY DEF VersionsOK
<1>2. PICK b \in Nat : \A v \in versions : v.number <= b
  BY <1>1
<1>3. ASSUME NEW vs, vs \subseteq versions, vs # {}
      PROVE  LET n == CHOOSE n \in {v.number : v \in vs} : \A v \in vs : v.number <= n
             IN  n \in Nat /\ \E v \in vs : v.number = n
  <2> DEFINE S == {v.number : v \in vs}
  <2>1. S \subseteq Nat /\ S # {} /\ \A n \in S : n <= b
    BY <1>1, <1>2, <1>3, RowFields
  <2>2. \E m \in S : \A n \in S : n <= m
    <3> HIDE DEF S
    <3> QED
      BY <2>1, GreatestElement
  <2>3. \E n \in S : \A v \in vs : v.number <= n
    BY <2>2
  <2> DEFINE n == CHOOSE n \in S : \A v \in vs : v.number <= n
  <2>4. n \in S
    <3> HIDE DEF S
    <3> QED
      BY <2>3
  <2> QED
    BY <2>1, <2>4
<1>4. Confirmed \subseteq versions
  BY DEF Confirmed
<1>5. ConfirmedNumber \in Nat /\ (Confirmed # {} => \E v \in Confirmed : v.number = ConfirmedNumber)
  BY <1>3, <1>4 DEF ConfirmedNumber
<1>6. NextNumber \in Nat
  <2>1. CASE versions = {}
    BY <2>1 DEF NextNumber
  <2>2. CASE versions # {}
    <3> DEFINE n == CHOOSE n \in {v.number : v \in versions} : \A v \in versions : v.number <= n
    <3>1. n \in Nat
      BY <1>3, <2>2
    <3>2. NextNumber = 1 + n
      BY <2>2 DEF NextNumber
    <3> HIDE DEF n
    <3> QED
      BY <3>1, <3>2
  <2> QED
    BY <2>1, <2>2
<1> QED
  BY <1>5, <1>6

----------------------------------------------------------------------------
(* What one step leaves alone.                                             *)

\* Every version is still there.
Evolves(vs, ws, clean) == \A v \in vs : \E w \in ws : Continues(v, w, clean)

\* A version is only confirmed in the place of the one it was made from.
BasesKept ==
    \A v \in Confirmed' : (v \notin Confirmed /\ raced' = {}) =>
        v.base = 0 \/ \E w \in Confirmed : w.number = v.base

NothingLost == Evolves(versions, versions', Clean') /\ BasesKept

\* Keys and ids come from the versions there were, or from request p.
NoNewNames(vs, ws, p) ==
    \A w \in ws :
        /\ (\E v \in vs : v.key = w.key) \/ w.key \in Coming(p)
        /\ \/ \E v \in vs : v.id = w.id
           \/ w.id \in Coming(p)
           \/ Holds(p) /\ w.id = p.row.id

\* Request p goes on as q, or ends.
Follows(vs, ws, p, q) ==
    /\ p.op # "none"
    /\ q = NoRequest \/ (q.op = p.op /\ q.name = p.name /\ q.plan = p.plan)
    /\ Coming(q) \subseteq Coming(p) /\ \A w \in ws : w.key \notin Coming(q) /\ w.id \notin Coming(q)
    /\ Holds(q) => (Holds(p) /\ q.row.id = p.row.id) \/ \E v \in vs : v.id = q.row.id

LEMMA NoRequestFacts ==
    /\ Written(0) \in Plans /\ NoDraft \in DraftRows /\ NoRequest \in RequestRows
    /\ NoRequest.op = "none" /\ NoRequest.at = "end" /\ NoRequest.name = 0
    /\ ~Holds(NoRequest) /\ Coming(NoRequest) = {}
    /\ \A vs, clean, store : RequestOK(NoRequest, vs, clean, store)
<1>0. Written(0) \in Plans
  BY DraftAssumption DEF Written, Plans
<1>1. NoDraft \in DraftRows
  BY <1>0 DEF NoDraft, DraftRows
<1>2. /\ NoRequest.op = "none" /\ NoRequest.at = "end" /\ NoRequest.name = 0
  BY DEF NoRequest
<1>3. NoRequest \in RequestRows
  BY <1>0, <1>1 DEF NoRequest, RequestRows, Places
<1>4. ~Holds(NoRequest) /\ Coming(NoRequest) = {}
  BY <1>2 DEF Holds, Coming
<1> QED
  BY <1>0, <1>1, <1>2, <1>3, <1>4 DEF RequestOK

\* What a request may still insert is called after it.
LEMMA ComingFacts ==
    ASSUME NEW q
    PROVE  /\ Coming(q) \subseteq {q.name, OriginalId(q.name)}
           /\ q.op \notin {"create", "evaluate"} => Coming(q) = {}
           /\ q.at \notin {"read", "base", "ensure", "original", "supersede", "rewrite", "number",
                           "version"} => Coming(q) = {}
           /\ q.op = "evaluate" /\ q.at \in {"supersede", "rewrite", "number", "version"} =>
                Coming(q) = {q.name}
           /\ q.op = "create" /\ q.at \in {"ensure", "original"} => Coming(q) = {OriginalId(q.name)}
           /\ q.op = "evaluate" /\ q.at \in {"read", "base", "ensure", "original"} =>
                Coming(q) = {q.name, OriginalId(q.name)}
BY DEF Coming

\* Candidates and originals have different names.
LEMMA NamesDiffer ==
    /\ \A n \in 1..MaxRequests : n # OriginalId(n) /\ OriginalId(n) \in Nat
    /\ \A m, n \in 1..MaxRequests :
          m # n => {m, OriginalId(m)} \cap {n, OriginalId(n)} = {}
    /\ \A n \in 0..MaxRequests : \A m \in 1..MaxRequests :
          m > n => m \notin NamesUpTo(n) /\ OriginalId(m) \notin NamesUpTo(n)
    /\ \A n \in Nat : \A m \in 1..n : m \in NamesUpTo(n) /\ OriginalId(m) \in NamesUpTo(n)
    /\ \A n \in Nat : NamesUpTo(n) \subseteq NamesUpTo(n + 1)
<1>0. MaxRequests \in Nat
  BY DraftAssumption
<1>1. \A n \in 1..MaxRequests : n # OriginalId(n) /\ OriginalId(n) \in Nat
  BY <1>0 DEF OriginalId
<1>2. \A m, n \in 1..MaxRequests : m # n => {m, OriginalId(m)} \cap {n, OriginalId(n)} = {}
  BY <1>0 DEF OriginalId
<1>3. \A n \in 0..MaxRequests : \A m \in 1..MaxRequests :
          m > n => m \notin NamesUpTo(n) /\ OriginalId(m) \notin NamesUpTo(n)
  BY <1>0 DEF OriginalId, NamesUpTo
<1>4. \A n \in Nat : \A m \in 1..n : m \in NamesUpTo(n) /\ OriginalId(m) \in NamesUpTo(n)
  BY <1>0 DEF OriginalId, NamesUpTo
<1>5. \A n \in Nat : NamesUpTo(n) \subseteq NamesUpTo(n + 1)
  BY <1>0 DEF NamesUpTo
<1> QED
  BY <1>1, <1>2, <1>3, <1>4, <1>5

LEMMA RequestStays ==
    ASSUME NEW q, NEW vs, NEW ws, NEW c, NEW d, NEW store, RequestOK(q, vs, c, store), d => c,
           Evolves(vs, ws, d),
           (Holds(q) /\ q.row.id # q.row.key) => \A w \in ws : w.key # q.row.id
    PROVE  RequestOK(q, ws, d, store)
<1>1. vs # {} => ws # {}
  BY DEF Evolves
<1>2. Holds(q) => Tracks(ws, d, q.row)
  <2> SUFFICES ASSUME Holds(q) PROVE Tracks(ws, d, q.row)
    OBVIOUS
  <2>1. Tracks(vs, c, q.row)
    BY DEF RequestOK
  <2>2. q.row \in Row /\ (q.row.id # q.row.key => \A w \in ws : w.key # q.row.id)
    BY <2>1 DEF Tracks
  <2>3. q.row.id = q.row.key => \E w \in ws : w.key = q.row.key /\ w.number = q.row.number
    BY <2>1 DEF Tracks, Evolves, Continues
  <2>4. d => q.row.id = q.row.key /\ \E w \in ws : Continues(q.row, w, d)
    BY <2>1 DEF Tracks, Evolves, Continues
  <2> QED
    BY <2>2, <2>3, <2>4 DEF Tracks
<1>3. \A key, content, base : Offers(vs, c, key, content, base) => Offers(ws, d, key, content, base)
  BY DEF Offers, Evolves, Continues
<1>4. \A x : DraftOK(x, vs, c) => DraftOK(x, ws, d)
  BY <1>1, <1>3 DEF DraftOK
<1>5. ConfirmedByNow(vs, c, q.row) => ConfirmedByNow(ws, d, q.row)
  BY DEF ConfirmedByNow, Evolves, Continues
<1> QED
  BY <1>1, <1>2, <1>3, <1>4, <1>5 DEF RequestOK

LEMMA DraftStays ==
    ASSUME NEW x, NEW vs, NEW ws, NEW c, NEW d, DraftOK(x, vs, c), d => c, Evolves(vs, ws, d)
    PROVE  DraftOK(x, ws, d)
BY DEF DraftOK, Offers, Evolves, Continues

LEMMA EvolvesSelf ==
    ASSUME NEW vs, NEW c
    PROVE  Evolves(vs, vs, c)
BY DEF Evolves, Continues

\* The names stay in order when request r goes on.
LEMMA NamesStay ==
    ASSUME DraftIInv, NEW r \in Requests, NEW q,
           request' = [request EXCEPT ![r] = q], issued' = issued,
           Follows(versions, versions', request[r], q),
           NoNewNames(versions, versions', request[r])
    PROVE  NamesOK'
<1>0. request \in [Requests -> RequestRows] /\ NamesOK /\ issued \in Nat
  BY DEF DraftIInv
<1>1. request'[r] = q /\ \A x \in Requests : x # r => request'[x] = request[x]
  BY <1>0
<1>2. request[r].op # "none" /\ request[r].name \in 1..issued
  BY <1>0 DEF Follows, NamesOK
<1>3. q.op # "none" => q.name = request[r].name
  BY NoRequestFacts DEF Follows
<1>4. \A x \in Requests : Coming(request'[x]) \subseteq Coming(request[x])
  BY <1>1 DEF Follows
<1>5. Coming(request[r]) \subseteq NamesUpTo(issued)
  BY <1>0, <1>2, ComingFacts, NamesDiffer
<1>6. \A v \in versions' : v.key \in NamesUpTo(issued') /\ v.id \in NamesUpTo(issued')
  BY <1>0, <1>5 DEF NoNewNames, NamesOK
<1>7. \A x \in Requests : request'[x].op # "none" => request'[x].name \in 1..issued'
  BY <1>0, <1>1, <1>2, <1>3 DEF NamesOK
<1>8. \A x, y \in Requests : x # y => Coming(request'[x]) \cap Coming(request'[y]) = {}
  BY <1>0, <1>4 DEF NamesOK
<1>9. ASSUME NEW x \in Requests, NEW v \in versions'
      PROVE  v.key \notin Coming(request'[x]) /\ v.id \notin Coming(request'[x])
  <2>1. CASE x = r
    BY <1>1, <2>1 DEF Follows
  <2>2. CASE x # r
    <3>1. request'[x] = request[x] /\ Coming(request[x]) \cap Coming(request[r]) = {}
      BY <1>0, <1>1, <2>2 DEF NamesOK
    <3>2. Holds(request[r]) => request[r].row.id \notin Coming(request[x])
      BY <1>0 DEF NamesOK
    <3>3. \A u \in versions : u.key \notin Coming(request[x]) /\ u.id \notin Coming(request[x])
      BY <1>0 DEF NamesOK
    <3> QED
      BY <3>1, <3>2, <3>3 DEF NoNewNames
  <2> QED
    BY <2>1, <2>2
<1>10. ASSUME NEW y \in Requests, Holds(request'[y])
       PROVE  /\ request'[y].row.id \in NamesUpTo(issued')
              /\ \A x \in Requests : request'[y].row.id \notin Coming(request'[x])
  <2> DEFINE id == request'[y].row.id
  <2>1. \/ \E z \in Requests : Holds(request[z]) /\ request[z].row.id = id
        \/ \E v \in versions : v.id = id
    BY <1>1, <1>10 DEF Follows
  <2> HIDE DEF id
  <2>2. id \in NamesUpTo(issued) /\ \A x \in Requests : id \notin Coming(request[x])
    BY <1>0, <2>1 DEF NamesOK
  <2> QED
    BY <1>4, <2>2 DEF id
<1> QED
  BY <1>6, <1>7, <1>8, <1>9, <1>10 DEF NamesOK

\* The invariant after a step of request r, given what the step does to it, to
\* the versions and to the drafts.
LEMMA StepKeeps ==
    ASSUME DraftIInv, NEW r \in Requests, NEW q,
           request' = [request EXCEPT ![r] = q], issued' = issued, backend' = backend,
           Follows(versions, versions', request[r], q),
           NoNewNames(versions, versions', request[r]),
           RequestOK(q, versions', Clean', backend),
           raced \subseteq raced', raced' \subseteq {"number", "rewrite", "confirm"},
           backend = "sqlite" => Clean',
           plan' \in Plans, deaths' \in Nat, behind' \in BOOLEAN,
           VersionsOK(versions', Clean'), Evolves(versions, versions', Clean'),
           drafts' \in [Drafts -> DraftRows],
           \A d \in Drafts : drafts'[d] = drafts[d] \/ DraftOK(drafts'[d], versions', Clean'),
           KeepsAConfirmed', SessionOK', SingleOK', BasesKept
    PROVE  DraftIInv' /\ NothingLost
<1>0. /\ request \in [Requests -> RequestRows] /\ NamesOK
      /\ \A x \in Requests : RequestOK(request[x], versions, Clean, backend)
      /\ \A d \in Drafts : DraftOK(drafts[d], versions, Clean)
      /\ backend \in {"mysql", "sqlite"} /\ issued \in 0..MaxRequests
  BY DEF DraftIInv
<1>1. request'[r] = q /\ \A x \in Requests : x # r => request'[x] = request[x]
  BY <1>0
<1>2. Clean' => Clean
  BY DEF Clean
<1>3. request' \in [Requests -> RequestRows]
  <2>1. q \in RequestRows
    BY DEF RequestOK
  <2> QED
    BY <1>0, <2>1
<1>4. ASSUME NEW x \in Requests
      PROVE  RequestOK(request'[x], versions', Clean', backend')
  <2>1. CASE x = r
    BY <1>1, <2>1
  <2>2. CASE x # r
    <3> DEFINE p == request[x]
    <3>1. request'[x] = p /\ RequestOK(p, versions, Clean, backend)
      BY <1>0, <1>1, <2>2
    <3>2. (Holds(p) /\ p.row.id # p.row.key) => \A w \in versions' : w.key # p.row.id
      <4> SUFFICES ASSUME Holds(p), p.row.id # p.row.key, NEW w \in versions'
                   PROVE  w.key # p.row.id
        OBVIOUS
      <4>1. \A v \in versions : v.key # p.row.id
        BY <3>1 DEF RequestOK, Tracks
      <4>2. p.row.id \notin Coming(request[r])
        BY <1>0 DEF NamesOK
      <4> QED
        BY <4>1, <4>2 DEF NoNewNames
    <3> HIDE DEF p
    <3>3. RequestOK(p, versions', Clean', backend)
      BY <1>2, <3>1, <3>2, RequestStays
    <3> QED
      BY <3>1, <3>3
  <2> QED
    BY <2>1, <2>2
<1>5. \A d \in Drafts : DraftOK(drafts'[d], versions', Clean')
  BY <1>0, <1>2, DraftStays
<1>6. NamesOK'
  BY NamesStay
<1>7. \A x \in Requests : RequestOK(request[x], versions, Clean, backend)'
  BY <1>4
<1>8. \A d \in Drafts : DraftOK(drafts[d], versions, Clean)'
  BY <1>5
<1>9. VersionsOK(versions, Clean)'
  OBVIOUS
<1> QED
  BY <1>0, <1>3, <1>6, <1>7, <1>8, <1>9 DEF DraftIInv, NothingLost

\* Steps that neither confirm a version nor save the session.
LEMMA PlainSession ==
    ASSUME DraftIInv, NEW r \in Requests, NEW q,
           request' = [request EXCEPT ![r] = q], backend' = backend,
           raced \subseteq raced', plan' = plan, behind' = behind,
           versions = {} => versions' = {},
           Evolves(versions, versions', Clean'),
           raced' \cap {"number", "rewrite"} = {} => Confirmed' = Confirmed,
           Clean' => Confirmed' \subseteq Confirmed,
           \/ q.op = "none"
           \/ request[r].op # "none" /\ q.plan = request[r].plan
           \/ q.plan = plan,
           ~(request[r].op = "confirm" /\ request[r].at = "state"),
           ~(q.op = "confirm" /\ q.at = "state")
    PROVE  KeepsAConfirmed' /\ SessionOK' /\ SingleOK' /\ BasesKept
<1>0. request \in [Requests -> RequestRows] /\ KeepsAConfirmed /\ SessionOK /\ SingleOK
  BY DEF DraftIInv
<1>1. request'[r] = q /\ \A x \in Requests : x # r => request'[x] = request[x]
  BY <1>0
<1>2. Confirming' = Confirming /\ \A x \in Confirming : request'[x] = request[x]
  BY <1>1 DEF Confirming, At
<1>3. KeepsAConfirmed'
  BY <1>0 DEF KeepsAConfirmed
<1>4. Clean' => Clean
  BY DEF Clean
<1>5. \A v : Shows(v)' = Shows(v)
  BY DEF Shows
<1>6. SessionOK'
  <2>1. ASSUME raced' = {}
        PROVE  /\ (~behind' /\ Confirming' = {}) => \A v \in Confirmed' : Shows(v)'
               /\ \A x \in Confirming' : \A v \in Confirmed' : v.plan = request'[x].row.plan
               /\ \A x, y \in Confirming' : x = y
    <3>1. raced = {} /\ Confirmed' = Confirmed
      BY <2>1
    <3> QED
      BY <1>0, <1>2, <1>5, <3>1 DEF SessionOK
  <2>2. ASSUME Clean', versions' # {}
        PROVE  \E v \in versions' : v.status # "candidate" /\ Shows(v)'
    <3>1. PICK v \in versions : v.status # "candidate" /\ Shows(v)
      BY <1>0, <1>4, <2>2 DEF SessionOK
    <3>2. PICK w \in versions' : Continues(v, w, Clean')
      BY DEF Evolves
    <3> QED
      BY <1>5, <2>2, <3>1, <3>2 DEF Continues, Shows
  <2>3. ASSUME versions' = {}, NEW x \in Requests, request'[x].op # "none"
        PROVE  request'[x].plan = plan'
    <3>1. versions = {}
      BY <2>3 DEF Evolves
    <3>2. \A y \in Requests : request[y].op # "none" => request[y].plan = plan
      BY <1>0, <3>1 DEF SessionOK
    <3> QED
      BY <1>1, <2>3, <3>2
  <2> QED
    BY <2>1, <2>2, <2>3 DEF SessionOK
<1>7. SingleOK'
  BY <1>0, <1>4 DEF SingleOK
<1>8. BasesKept
  BY DEF BasesKept
<1> QED
  BY <1>3, <1>6, <1>7, <1>8

\* Steps that change no version, no draft and nothing of the session.
LEMMA QuietStep ==
    ASSUME DraftIInv, NEW r \in Requests, NEW q,
           request' = [request EXCEPT ![r] = q],
           UNCHANGED <<backend, versions, drafts, plan, issued, deaths, raced, behind>>,
           request[r].op # "none",
           q = NoRequest \/ (q.op = request[r].op /\ q.name = request[r].name
                             /\ q.plan = request[r].plan),
           Coming(q) \subseteq Coming(request[r]),
           Holds(q) => (Holds(request[r]) /\ q.row.id = request[r].row.id)
                       \/ \E v \in versions : v.id = q.row.id,
           RequestOK(q, versions, Clean, backend),
           ~(request[r].op = "confirm" /\ request[r].at = "state"),
           ~(q.op = "confirm" /\ q.at = "state")
    PROVE  DraftIInv' /\ NothingLost
<1>0. /\ VersionsOK(versions, Clean) /\ NamesOK /\ drafts \in [Drafts -> DraftRows]
      /\ plan \in Plans /\ deaths \in Nat /\ raced \subseteq {"number", "rewrite", "confirm"}
      /\ backend = "sqlite" => Clean
      /\ behind \in BOOLEAN
  BY DEF DraftIInv
<1>1. Clean' = Clean /\ versions' = versions /\ Confirmed' = Confirmed
  BY DEF Clean, Confirmed
<1>2. Follows(versions, versions', request[r], q)
  <2>1. \A v \in versions : v.key \notin Coming(request[r]) /\ v.id \notin Coming(request[r])
    BY <1>0 DEF NamesOK
  <2> QED
    BY <1>1, <2>1 DEF Follows
<1>3. NoNewNames(versions, versions', request[r])
  BY <1>1 DEF NoNewNames
<1>4. Evolves(versions, versions', Clean')
  BY <1>1, EvolvesSelf
<1>5. q.op = "none" \/ q.plan = request[r].plan
  BY NoRequestFacts
<1>6. KeepsAConfirmed' /\ SessionOK' /\ SingleOK' /\ BasesKept
  BY <1>1, <1>4, <1>5, PlainSession
<1> QED
  BY <1>0, <1>1, <1>2, <1>3, <1>4, <1>6, StepKeeps

\* A new request: its name is new.
LEMMA StartKeeps ==
    ASSUME DraftIInv, NEW r \in Requests, NEW op \in {"create", "update", "evaluate", "confirm"},
           NEW d \in Drafts, drafts[d] # NoDraft \/ op = "create",
           NEW at, at = IF op = "create" THEN "ensure" ELSE "read", Start(r, op, d, at)
    PROVE  DraftIInv' /\ NothingLost
<1> DEFINE n == issued + 1
           q == [NoRequest EXCEPT !.op = op, !.at = at, !.of = d, !.name = n, !.plan = plan]
<1>0. /\ VersionsOK(versions, Clean) /\ NamesOK /\ KeepsAConfirmed /\ SessionOK
      /\ request \in [Requests -> RequestRows] /\ drafts \in [Drafts -> DraftRows]
      /\ \A x \in Requests : RequestOK(request[x], versions, Clean, backend)
      /\ \A x \in Drafts : DraftOK(drafts[x], versions, Clean)
      /\ issued \in 0..MaxRequests /\ MaxRequests \in Nat /\ plan \in Plans
  BY DraftAssumption DEF DraftIInv
<1>1. /\ request' = [request EXCEPT ![r] = q] /\ issued' = n /\ issued < MaxRequests
      /\ request[r] = NoRequest
      /\ backend' = backend /\ versions' = versions /\ drafts' = drafts /\ plan' = plan
      /\ deaths' = deaths /\ raced' = raced /\ behind' = behind
  BY DEF Start, Become
<1>2. issued' \in 0..MaxRequests /\ n \in 1..MaxRequests /\ n > issued /\ issued \in Nat
  BY <1>0, <1>1
<1>3. q \in RequestRows /\ q.op = op /\ q.at = at /\ q.of = d /\ q.name = n /\ q.plan = plan
  <2>1. n \in Nat /\ at \in Places
    BY <1>2 DEF Places
  <2>2. NoRequest \in RequestRows
    BY NoRequestFacts
  <2> HIDE DEF n
  <2> QED
    BY <1>0, <2>1, <2>2 DEF RequestRows
<1>4. q.op # "none" /\ q.at \in {"read", "ensure"} /\ ~Holds(q)
  BY <1>3 DEF Holds
<1> HIDE DEF q
<1>5. Clean' = Clean /\ Confirmed' = Confirmed
  BY <1>1 DEF Clean, Confirmed
<1>6. request'[r] = q /\ \A x \in Requests : x # r => request'[x] = request[x]
  BY <1>0, <1>1
<1>7. RequestOK(q, versions, Clean, backend)
  <2>1. op # "create" => versions # {}
    BY <1>0 DEF DraftOK
  <2> QED
    BY <1>3, <1>4, <2>1 DEF RequestOK
<1>8. NamesOK'
  <2> DEFINE used == NamesUpTo(issued)
  <2>1. Coming(q) \subseteq {n, OriginalId(n)} /\ n \notin used /\ OriginalId(n) \notin used
    <3>1. Coming(q) \subseteq {q.name, OriginalId(q.name)}
      BY ComingFacts
    <3>2. q.name = n /\ issued \in 0..MaxRequests
      BY <1>0, <1>3
    <3> HIDE DEF n
    <3>3. n \notin NamesUpTo(issued) /\ OriginalId(n) \notin NamesUpTo(issued)
      BY <1>2, <3>2, NamesDiffer
    <3> QED
      BY <3>1, <3>2, <3>3
  <2>2. NamesUpTo(issued) \subseteq NamesUpTo(issued')
    BY <1>1, <1>2, NamesDiffer
  <2>3. \A x \in Requests : Coming(request[x]) \subseteq used
    <3>1. \A x \in Requests : request[x].op = "none" => Coming(request[x]) = {}
      BY ComingFacts
    <3>2. \A x \in Requests : request[x].op # "none" => Coming(request[x]) \subseteq used
      BY <1>0, <1>2, ComingFacts, NamesDiffer DEF NamesOK
    <3> QED
      BY <3>1, <3>2
  <2> HIDE DEF n, used
  <2>4. \A v \in versions : v.key \in used /\ v.id \in used
    BY <1>0 DEF NamesOK, used
  <2>5. \A v \in versions' : v.key \in NamesUpTo(issued') /\ v.id \in NamesUpTo(issued')
    BY <1>1, <2>2, <2>4 DEF used
  <2>6. \A x \in Requests : request'[x].op # "none" => request'[x].name \in 1..issued'
    BY <1>0, <1>1, <1>3, <1>6 DEF NamesOK, n
  <2>7. \A x \in Requests : Coming(q) \cap Coming(request[x]) = {}
    BY <2>1, <2>3
  <2>8. \A x, y \in Requests : x # y => Coming(request'[x]) \cap Coming(request'[y]) = {}
    BY <1>0, <1>6, <2>7 DEF NamesOK
  <2>9. \A x \in Requests : \A v \in versions' :
            v.key \notin Coming(request'[x]) /\ v.id \notin Coming(request'[x])
    BY <1>0, <1>1, <1>6, <2>1, <2>4 DEF NamesOK
  <2>10. ASSUME NEW y \in Requests, Holds(request'[y])
         PROVE  /\ request'[y].row.id \in NamesUpTo(issued')
                /\ \A x \in Requests : request'[y].row.id \notin Coming(request'[x])
    <3>1. y # r /\ request'[y] = request[y]
      BY <1>4, <1>6, <2>10
    <3>2. request[y].row.id \in used /\ \A x \in Requests : request[y].row.id \notin Coming(request[x])
      BY <1>0, <2>10, <3>1 DEF NamesOK, used
    <3> QED
      BY <1>6, <2>1, <2>2, <3>1, <3>2 DEF used
  <2> QED
    BY <2>5, <2>6, <2>8, <2>9, <2>10 DEF NamesOK
<1>9. Evolves(versions, versions', Clean')
  BY <1>1, EvolvesSelf
<1>10. KeepsAConfirmed' /\ SessionOK' /\ SingleOK' /\ BasesKept
  <2>1. request[r].op = "none"
    BY <1>1, NoRequestFacts
  <2> QED
    BY <1>1, <1>3, <1>4, <1>5, <1>9, <2>1, PlainSession
<1>11. request' \in [Requests -> RequestRows]
  BY <1>0, <1>1, <1>3
<1>12. \A x \in Requests : RequestOK(request[x], versions, Clean, backend)'
  BY <1>0, <1>1, <1>5, <1>6, <1>7
<1>13. \A x \in Drafts : DraftOK(drafts[x], versions, Clean)'
  BY <1>0, <1>1, <1>5
<1>14. /\ backend' \in {"mysql", "sqlite"} /\ (backend' = "sqlite" => Clean')
       /\ raced' \subseteq {"number", "rewrite", "confirm"} /\ behind' \in BOOLEAN
       /\ plan' \in Plans /\ deaths' \in Nat /\ drafts' \in [Drafts -> DraftRows]
       /\ VersionsOK(versions, Clean)'
  BY <1>1, <1>5 DEF DraftIInv
<1>15. NothingLost
  BY <1>9, <1>10 DEF NothingLost
<1> QED
  BY <1>2, <1>8, <1>10, <1>11, <1>12, <1>13, <1>14, <1>15 DEF DraftIInv

----------------------------------------------------------------------------
(* The steps that leave the versions alone.                                *)

LEMMA RequestFields ==
    ASSUME DraftIInv, NEW r \in Requests
    PROVE  /\ request[r] \in RequestRows /\ RequestOK(request[r], versions, Clean, backend)
           /\ request[r].op \in {"none", "create", "update", "evaluate", "confirm"}
           /\ request[r].at # "end" => request[r].op # "none" /\ request[r].of \in Drafts
           /\ request[r].draft \in DraftRows /\ request[r].base \in Nat /\ request[r].name \in Nat
           /\ request[r].row \in Row \cup {NoRow} /\ request[r].plan \in Plans
           /\ request[r].op # "none" => request[r].name \in 1..MaxRequests
           /\ VersionsOK(versions, Clean) /\ versions \subseteq Row
           /\ DOMAIN request = Requests
<1>1. /\ request \in [Requests -> RequestRows] /\ RequestOK(request[r], versions, Clean, backend)
      /\ VersionsOK(versions, Clean)
  BY DEF DraftIInv
<1>2. /\ request[r].op \in {"none", "create", "update", "evaluate", "confirm"}
      /\ request[r].draft \in DraftRows /\ request[r].base \in Nat /\ request[r].name \in Nat
      /\ request[r].row \in Row \cup {NoRow} /\ request[r].plan \in Plans
  BY <1>1 DEF RequestRows
<1>3. request[r].at # "end" => request[r].op # "none"
  BY <1>1, NoRequestFacts DEF RequestOK
<1>4. request[r].op # "none" => request[r].of \in Drafts
  BY <1>1 DEF RequestOK
<1>5. request[r].op # "none" => request[r].name \in 1..MaxRequests
  BY DraftAssumption DEF DraftIInv, NamesOK
<1> QED
  BY <1>1, <1>2, <1>3, <1>4, <1>5 DEF VersionsOK

LEMMA ReadDraftKeeps == ASSUME DraftIInv, NEW r \in Requests, ReadDraft(r) PROVE DraftIInv' /\ NothingLost
<1> DEFINE p == request[r]
           draft == drafts[p.of]
           go(at) == [[p EXCEPT !.draft = draft] EXCEPT !.at = at]
<1>0. /\ p \in RequestRows /\ p.at = "read" /\ p.of \in Drafts
      /\ p.op \in {"update", "evaluate", "confirm"} /\ versions # {}
      /\ RequestOK(p, versions, Clean, backend)
  <2>1. p.at = "read" /\ p.op # "none" /\ RequestOK(p, versions, Clean, backend)
    BY RequestFields DEF ReadDraft
  <2>2. p.op \in {"update", "evaluate", "confirm"} /\ versions # {}
    BY <2>1, RequestFields DEF RequestOK
  <2> QED
    BY <2>1, <2>2, RequestFields
<1>1. draft \in DraftRows /\ DraftOK(draft, versions, Clean)
  BY <1>0 DEF DraftIInv
<1>2. /\ \/ request' = [request EXCEPT ![r] = NoRequest]
         \/ p.op # "update" /\ request' = [request EXCEPT ![r] = go("base")]
         \/ p.op = "update" /\ request' = [request EXCEPT ![r] = go("supersede")]
      /\ UNCHANGED <<backend, versions, drafts, plan, issued, deaths, raced, behind>>
  <2>1. [p EXCEPT !.draft = draft].op = p.op
    BY <1>0 DEF RequestRows
  <2> QED
    BY <2>1 DEF ReadDraft, Become, End
<1>3. CASE request' = [request EXCEPT ![r] = NoRequest]
  BY <1>0, <1>2, <1>3, NoRequestFacts, QuietStep
<1>4. ASSUME NEW at \in {"base", "supersede"}, request' = [request EXCEPT ![r] = go(at)],
             at = "base" <=> p.op # "update"
      PROVE  DraftIInv' /\ NothingLost
  <2> DEFINE q == go(at)
  <2>1. at \in Places
    BY DEF Places
  <2>2. /\ q \in RequestRows /\ q.op = p.op /\ q.name = p.name /\ q.of = p.of /\ q.at = at
        /\ q.draft = draft /\ q.plan = p.plan
    <3> HIDE DEF draft
    <3> QED
      BY <1>0, <1>1, <2>1 DEF RequestRows
  <2>3. request' = [request EXCEPT ![r] = q]
    BY <1>4
  <2> HIDE DEF q, go
  <2>4. ~Holds(q)
    BY <2>2 DEF Holds
  <2>5. Coming(q) \subseteq Coming(p)
    BY <1>0, <1>4, <2>2 DEF Coming
  <2>6. RequestOK(q, versions, Clean, backend)
    BY <1>0, <1>1, <1>4, <2>2, <2>4 DEF RequestOK
  <2> QED
    BY <1>0, <1>2, <2>2, <2>3, <2>4, <2>5, <2>6, QuietStep
<1> QED
  BY <1>2, <1>3, <1>4

\* Where OnBase leads a request.
LEMMA OnBaseFacts ==
    ASSUME DraftIInv, NEW r \in Requests, NEW vs, NEW clean, NEW number \in Nat, vs # {},
           request[r].at \in {"base", "ensure", "original"},
           request[r].op = "confirm" => DraftOK(request[r].draft, vs, clean),
           OnBase(r, number)
    PROVE  \E q : /\ request' = [request EXCEPT ![r] = q]
                  /\ \/ q = NoRequest
                     \/ q.op = request[r].op /\ q.name = request[r].name /\ q.plan = request[r].plan
                  /\ RequestOK(q, vs, clean, backend) /\ ~Holds(q) /\ q.at # "state"
                  /\ Coming(q) \subseteq Coming(request[r])
                  /\ OriginalId(request[r].name) \notin Coming(q)
<1> DEFINE p == request[r]
           b == [p EXCEPT !.base = number]
           go(at) == [b EXCEPT !.at = at]
<1>0. /\ p \in RequestRows /\ p.of \in Drafts /\ p.name \in 1..MaxRequests
      /\ p.op \in {"create", "evaluate", "confirm"}
  <2>1. p.op # "none" /\ RequestOK(p, versions, Clean, backend)
    BY RequestFields
  <2>2. p.op # "update"
    BY <2>1 DEF RequestOK
  <2> QED
    BY <2>1, <2>2, RequestFields
<1>1. /\ b.op = p.op /\ b.draft = p.draft
      /\ \A at \in Places : /\ go(at) \in RequestRows /\ go(at).op = p.op /\ go(at).name = p.name
                            /\ go(at).of = p.of /\ go(at).at = at /\ go(at).plan = p.plan
                            /\ go(at).draft = p.draft /\ go(at).base = number
  BY <1>0 DEF RequestRows
<1>2. \/ request' = [request EXCEPT ![r] = NoRequest]
      \/ /\ p.op = "confirm" /\ ~Conflict(b, number)
         /\ request' = [request EXCEPT ![r] = go("fetch")]
      \/ p.op = "evaluate" /\ request' = [request EXCEPT ![r] = go("supersede")]
      \/ p.op = "create" /\ request' = [request EXCEPT ![r] = go("draft")]
  BY <1>1 DEF OnBase, Become, End
<1>3. CASE request' = [request EXCEPT ![r] = NoRequest]
  BY <1>3, NoRequestFacts
<1> HIDE DEF go
<1>4. CASE /\ p.op = "confirm" /\ ~Conflict(b, number)
           /\ request' = [request EXCEPT ![r] = go("fetch")]
  <2>1. p.draft.base = number /\ p.draft.status = "evaluated"
    BY <1>1, <1>4 DEF Conflict
  <2>2. "fetch" \in Places
    BY DEF Places
  <2> DEFINE q == go("fetch")
  <2>3. /\ q \in RequestRows /\ q.op = "confirm" /\ q.name = p.name /\ q.of = p.of /\ q.at = "fetch"
        /\ q.plan = p.plan /\ q.draft = p.draft /\ q.base = number
    BY <1>1, <1>4, <2>2
  <2> HIDE DEF q
  <2>4. ~Holds(q) /\ Coming(q) = {}
    BY <2>3 DEF Holds, Coming
  <2>5. RequestOK(q, vs, clean, backend)
    BY <1>0, <1>4, <2>1, <2>3, <2>4 DEF RequestOK
  <2> QED
    BY <1>4, <2>3, <2>4, <2>5 DEF q
<1>5. CASE p.op = "evaluate" /\ request' = [request EXCEPT ![r] = go("supersede")]
  <2>1. "supersede" \in Places
    BY DEF Places
  <2> DEFINE q == go("supersede")
  <2>2. /\ q \in RequestRows /\ q.op = "evaluate" /\ q.name = p.name /\ q.of = p.of
        /\ q.at = "supersede" /\ q.plan = p.plan
    BY <1>1, <1>5, <2>1
  <2> HIDE DEF q
  <2>3. ~Holds(q) /\ Coming(q) = {p.name} /\ p.name \in Coming(p)
    BY <1>5, <2>2 DEF Holds, Coming
  <2>4. OriginalId(p.name) # p.name
    BY <1>0, NamesDiffer
  <2>5. RequestOK(q, vs, clean, backend)
    BY <1>0, <2>2, <2>3 DEF RequestOK
  <2> QED
    BY <1>5, <2>2, <2>3, <2>4, <2>5 DEF q
<1>6. CASE p.op = "create" /\ request' = [request EXCEPT ![r] = go("draft")]
  <2>1. "draft" \in Places
    BY DEF Places
  <2> DEFINE q == go("draft")
  <2>2. /\ q \in RequestRows /\ q.op = "create" /\ q.name = p.name /\ q.of = p.of
        /\ q.at = "draft" /\ q.plan = p.plan
    BY <1>1, <1>6, <2>1
  <2> HIDE DEF q
  <2>3. ~Holds(q) /\ Coming(q) = {}
    BY <2>2 DEF Holds, Coming
  <2>4. RequestOK(q, vs, clean, backend)
    BY <1>0, <2>2, <2>3 DEF RequestOK
  <2> QED
    BY <1>6, <2>2, <2>3, <2>4 DEF q
<1> QED
  BY <1>2, <1>3, <1>4, <1>5, <1>6

\* A request that found the confirmed version.
LEMMA OnBaseKeeps ==
    ASSUME DraftIInv, NEW r \in Requests, request[r].at \in {"base", "ensure"},
           versions # {}, OnBase(r, ConfirmedNumber),
           UNCHANGED <<backend, versions, drafts, plan, issued, deaths, raced, behind>>
    PROVE  DraftIInv' /\ NothingLost
<1>1. /\ RequestOK(request[r], versions, Clean, backend) /\ VersionsOK(versions, Clean)
      /\ request[r].op # "none"
  BY RequestFields
<1>2. ConfirmedNumber \in Nat
  BY <1>1, NumbersAreNaturals
<1>3. request[r].op = "confirm" => DraftOK(request[r].draft, versions, Clean)
  BY <1>1 DEF RequestOK
<1>4. PICK q : /\ request' = [request EXCEPT ![r] = q]
               /\ \/ q = NoRequest
                  \/ q.op = request[r].op /\ q.name = request[r].name /\ q.plan = request[r].plan
               /\ RequestOK(q, versions, Clean, backend) /\ ~Holds(q) /\ q.at # "state"
               /\ Coming(q) \subseteq Coming(request[r])
  BY <1>2, <1>3, OnBaseFacts
<1> QED
  BY <1>1, <1>4, QuietStep

\* A request that goes on to look for, or to make, the original version.
LEMMA GoEnsureKeeps ==
    ASSUME DraftIInv, NEW r \in Requests, NEW at \in {"ensure", "original"},
           \/ request[r].op = "evaluate" /\ request[r].at = "base"
           \/ request[r].op \in {"create", "evaluate"} /\ request[r].at = "ensure",
           Go(r, at),
           UNCHANGED <<backend, versions, drafts, plan, issued, deaths, raced, behind>>
    PROVE  DraftIInv' /\ NothingLost
<1> DEFINE p == request[r]
           q == [p EXCEPT !.at = at]
<1>0. /\ p \in RequestRows /\ p.of \in Drafts /\ p.op \in {"create", "evaluate"}
      /\ RequestOK(p, versions, Clean, backend)
  BY RequestFields
<1>1. request' = [request EXCEPT ![r] = q]
  BY DEF Go, Become
<1>2. at \in Places
  BY DEF Places
<1>3. q \in RequestRows /\ q.op = p.op /\ q.name = p.name /\ q.of = p.of /\ q.at = at /\ q.plan = p.plan
  BY <1>0, <1>2 DEF RequestRows
<1> HIDE DEF q
<1>4. ~Holds(q) /\ Coming(q) \subseteq Coming(p)
  BY <1>0, <1>3 DEF Holds, Coming
<1>5. RequestOK(q, versions, Clean, backend)
  BY <1>0, <1>3, <1>4 DEF RequestOK
<1> QED
  BY <1>0, <1>1, <1>3, <1>4, <1>5, QuietStep

LEMMA ReadConfirmedKeeps == ASSUME DraftIInv, NEW r \in Requests, ReadConfirmed(r) PROVE DraftIInv' /\ NothingLost
<1>1. /\ request[r].at = "base"
      /\ UNCHANGED <<backend, versions, drafts, plan, issued, deaths, raced, behind>>
  BY DEF ReadConfirmed
<1>2. versions # {}
  <2>1. RequestOK(request[r], versions, Clean, backend) /\ request[r].op # "none"
        /\ request[r].op \in {"none", "create", "update", "evaluate", "confirm"}
    BY <1>1, RequestFields
  <2> QED
    BY <1>1, <2>1 DEF RequestOK
<1>3. CASE request[r].op = "evaluate" /\ Confirmed = {}
  BY <1>1, <1>3, GoEnsureKeeps DEF ReadConfirmed
<1>4. CASE ~(request[r].op = "evaluate" /\ Confirmed = {})
  BY <1>1, <1>2, <1>4, OnBaseKeeps DEF ReadConfirmed
<1> QED
  BY <1>3, <1>4

LEMMA EnsureOriginalKeeps == ASSUME DraftIInv, NEW r \in Requests, EnsureOriginal(r) PROVE DraftIInv' /\ NothingLost
<1>1. /\ request[r].at = "ensure"
      /\ UNCHANGED <<backend, versions, drafts, plan, issued, deaths, raced, behind>>
  BY DEF EnsureOriginal
<1>2. request[r].op \in {"create", "evaluate"}
  <2>1. RequestOK(request[r], versions, Clean, backend) /\ request[r].op # "none"
        /\ request[r].op \in {"none", "create", "update", "evaluate", "confirm"}
    BY <1>1, RequestFields
  <2> QED
    BY <1>1, <2>1 DEF RequestOK
<1>3. CASE Confirmed = {}
  BY <1>1, <1>2, <1>3, GoEnsureKeeps DEF EnsureOriginal
<1>4. CASE Confirmed # {}
  <2>1. versions # {}
    BY <1>4 DEF Confirmed
  <2> QED
    BY <1>1, <1>4, <2>1, OnBaseKeeps DEF EnsureOriginal
<1> QED
  BY <1>3, <1>4

LEMMA TakeNumberKeeps == ASSUME DraftIInv, NEW r \in Requests, TakeNumber(r) PROVE DraftIInv' /\ NothingLost
<1> DEFINE p == request[r]
           row == [key |-> p.name, id |-> p.name, number |-> NextNumber, status |-> "candidate",
                   plan |-> RebuiltBy(p.draft.plan, p.name), base |-> p.draft.base]
           q == [p EXCEPT !.at = "version", !.row = row]
<1>0. /\ p \in RequestRows /\ p.op = "evaluate" /\ p.at = "number" /\ p.of \in Drafts
      /\ RequestOK(p, versions, Clean, backend) /\ VersionsOK(versions, Clean)
      /\ p.draft \in DraftRows /\ p.name \in Nat /\ p.name \in 1..MaxRequests
  BY RequestFields DEF TakeNumber, At
<1>1. row \in Row
  <2>1. NextNumber \in Nat
    BY <1>0, NumbersAreNaturals
  <2>2. RebuiltBy(p.draft.plan, p.name) \in Plans /\ p.draft.base \in Nat
    <3>1. p.draft.plan \in Plans /\ p.draft.base \in Nat /\ p.name \in 0..MaxRequests
      BY <1>0 DEF DraftRows
    <3> HIDE DEF p
    <3> QED
      BY <3>1 DEF Plans, RebuiltBy
  <2> QED
    BY <1>0, <2>1, <2>2 DEF Row
<1>2. /\ request' = [request EXCEPT ![r] = q]
      /\ UNCHANGED <<backend, versions, drafts, plan, issued, deaths, raced, behind>>
  BY DEF TakeNumber, Become
<1>3. /\ row.key = p.name /\ row.id = p.name /\ row.status = "candidate"
      /\ row.base = p.draft.base
  OBVIOUS
<1> HIDE DEF row
<1>4. /\ q \in RequestRows /\ q.op = "evaluate" /\ q.at = "version" /\ q.of = p.of /\ q.name = p.name
      /\ q.draft = p.draft /\ q.row = row /\ q.plan = p.plan
  <2>1. "version" \in Places
    BY DEF Places
  <2> QED
    BY <1>0, <1>1, <2>1 DEF RequestRows
<1> HIDE DEF q
<1>5. ~Holds(q) /\ Coming(q) \subseteq Coming(p)
  BY <1>0, <1>4 DEF Holds, Coming
<1>6. versions # {}
  BY <1>0 DEF RequestOK
<1>7. RequestOK(q, versions, Clean, backend)
  BY <1>0, <1>1, <1>3, <1>4, <1>5, <1>6 DEF RequestOK
<1> QED
  BY <1>0, <1>2, <1>4, <1>5, <1>7, QuietStep

LEMMA FetchCandidateKeeps == ASSUME DraftIInv, NEW r \in Requests, FetchCandidate(r) PROVE DraftIInv' /\ NothingLost
<1> DEFINE p == request[r]
           at == IF backend = "sqlite" THEN "select" ELSE "confirm"
<1>0. /\ p \in RequestRows /\ p.op = "confirm" /\ p.at = "fetch" /\ p.of \in Drafts
      /\ RequestOK(p, versions, Clean, backend) /\ VersionsOK(versions, Clean)
      /\ versions \subseteq Row
  BY RequestFields DEF FetchCandidate, At
<1>1. UNCHANGED <<backend, versions, drafts, plan, issued, deaths, raced, behind>>
  BY DEF FetchCandidate
<1>2. CASE ByKey(p.draft.candidate) = {}
  <2>1. request' = [request EXCEPT ![r] = NoRequest]
    BY <1>2 DEF FetchCandidate, End, Become
  <2> QED
    BY <1>0, <1>1, <2>1, NoRequestFacts, QuietStep
<1>3. CASE ByKey(p.draft.candidate) # {}
  <2>1. PICK v \in ByKey(p.draft.candidate) :
            request' = [request EXCEPT ![r] = [p EXCEPT !.row = v, !.at = at]]
    BY <1>3 DEF FetchCandidate, Become
  <2> DEFINE q == [p EXCEPT !.row = v, !.at = at]
  <2>2. request' = [request EXCEPT ![r] = q]
    BY <2>1
  <2>3. v \in versions /\ v.key = p.draft.candidate /\ v \in Row
    BY <1>0, <2>1 DEF ByKey
  <2>4. /\ q \in RequestRows /\ q.op = "confirm" /\ q.at \in {"select", "confirm"} /\ q.of = p.of
        /\ q.name = p.name /\ q.draft = p.draft /\ q.base = p.base /\ q.row = v /\ q.plan = p.plan
    <3>1. at \in Places /\ at \in {"select", "confirm"}
      BY DEF Places
    <3> HIDE DEF at
    <3> QED
      BY <1>0, <2>3, <3>1 DEF RequestRows
  <2> HIDE DEF q
  <2>5. Tracks(versions, Clean, v)
    BY <1>0, <2>3 DEF VersionsOK, Tracks, Continues
  <2>6. Clean => v.base = p.base
    <3> SUFFICES ASSUME Clean PROVE v.base = p.base
      OBVIOUS
    <3>1. PICK w \in versions : w.key = p.draft.candidate /\ w.base = p.draft.base
      BY <1>0 DEF RequestOK, DraftOK, Offers
    <3>2. w = v
      BY <1>0, <2>3, <3>1 DEF VersionsOK
    <3> QED
      BY <1>0, <3>1, <3>2 DEF RequestOK
  <2>7. Coming(q) = {}
    BY <2>4 DEF Coming
  <2>8. RequestOK(q, versions, Clean, backend)
    BY <1>0, <2>3, <2>4, <2>5, <2>6 DEF RequestOK
  <2> QED
    BY <1>0, <1>1, <2>2, <2>3, <2>4, <2>7, <2>8, QuietStep
<1> QED
  BY <1>2, <1>3

LEMMA SelectConfirmedKeeps == ASSUME DraftIInv, NEW r \in Requests, SelectConfirmed(r) PROVE DraftIInv' /\ NothingLost
<1> DEFINE p == request[r]
           q == [p EXCEPT !.at = "confirm", !.old = ConfirmedIds]
<1>0. /\ p \in RequestRows /\ p.op = "confirm" /\ p.at = "select" /\ p.of \in Drafts
      /\ RequestOK(p, versions, Clean, backend) /\ versions \subseteq Row
  BY RequestFields DEF SelectConfirmed, At
<1>1. /\ request' = [request EXCEPT ![r] = q]
      /\ UNCHANGED <<backend, versions, drafts, plan, issued, deaths, raced, behind>>
  BY DEF SelectConfirmed, Become
<1>2. ConfirmedIds \in SUBSET Nat
  BY <1>0, RowFields DEF ConfirmedIds, Confirmed
<1>3. /\ q \in RequestRows /\ q.op = "confirm" /\ q.at = "confirm" /\ q.of = p.of
      /\ q.name = p.name /\ q.base = p.base /\ q.row = p.row /\ q.plan = p.plan
  <2>1. "confirm" \in Places
    BY DEF Places
  <2> QED
    BY <1>0, <1>2, <2>1 DEF RequestRows
<1> HIDE DEF q
<1>4. Coming(q) = {} /\ Holds(p) /\ Holds(q)
  BY <1>0, <1>3 DEF Coming, Holds
<1>5. RequestOK(q, versions, Clean, backend)
  BY <1>0, <1>3, <1>4 DEF RequestOK
<1> QED
  BY <1>0, <1>1, <1>3, <1>4, <1>5, QuietStep

LEMMA SaveStateKeeps == ASSUME DraftIInv, NEW r \in Requests, SaveState(r) PROVE DraftIInv' /\ NothingLost
<1> DEFINE p == request[r]
           q == [p EXCEPT !.at = "draft"]
<1>0. /\ p \in RequestRows /\ p.op = "confirm" /\ p.at = "state" /\ p.of \in Drafts
      /\ RequestOK(p, versions, Clean, backend) /\ VersionsOK(versions, Clean)
      /\ NamesOK /\ drafts \in [Drafts -> DraftRows] /\ request \in [Requests -> RequestRows]
      /\ deaths \in Nat /\ raced \subseteq {"number", "rewrite", "confirm"}
      /\ backend = "sqlite" => Clean
      /\ KeepsAConfirmed /\ SessionOK /\ SingleOK
  BY RequestFields DEF SaveState, At, DraftIInv
<1>1. /\ request' = [request EXCEPT ![r] = q] /\ plan' = p.row.plan /\ behind' = FALSE
      /\ backend' = backend /\ versions' = versions /\ drafts' = drafts /\ issued' = issued
      /\ deaths' = deaths /\ raced' = raced
  BY DEF SaveState, Go, Become
<1>2. q \in RequestRows /\ q.op = "confirm" /\ q.at = "draft" /\ q.of = p.of /\ q.name = p.name
      /\ q.plan = p.plan
  <2>1. "draft" \in Places
    BY DEF Places
  <2> QED
    BY <1>0, <2>1 DEF RequestRows
<1> HIDE DEF q
<1>3. ~Holds(q) /\ Coming(q) = {} /\ Holds(p) /\ versions # {}
  BY <1>0, <1>2 DEF Holds, Coming, RequestOK
<1>4. plan' \in Plans
  BY <1>0, <1>1, <1>3, RowFields DEF RequestOK, Tracks
<1>5. Clean' = Clean /\ Confirmed' = Confirmed
  BY <1>1 DEF Clean, Confirmed
<1>6. RequestOK(q, versions', Clean', backend)
  BY <1>0, <1>1, <1>2, <1>3, <1>5 DEF RequestOK
<1>7. Follows(versions, versions', p, q) /\ NoNewNames(versions, versions', p)
  BY <1>0, <1>1, <1>2, <1>3 DEF Follows, NoNewNames
<1>8. KeepsAConfirmed' /\ SingleOK'
  BY <1>0, <1>1, <1>5 DEF KeepsAConfirmed, SingleOK
<1>9. SessionOK'
  <2>0. \A v : v.plan = p.row.plan => Shows(v)'
    BY <1>1 DEF Shows
  <2>1. ASSUME raced' = {} PROVE Confirming' = {} /\ \A v \in Confirmed' : Shows(v)'
    <3>1. r \in Confirming /\ raced = {}
      BY <1>0, <1>1, <2>1 DEF Confirming, At
    <3>2. \A v \in Confirmed : v.plan = p.row.plan
      BY <1>0, <3>1 DEF SessionOK
    <3>3. \A x \in Confirming : x = r
      BY <1>0, <3>1 DEF SessionOK
    <3>4. request'[r] = q /\ \A x \in Requests : x # r => request'[x] = request[x]
      BY <1>0, <1>1
    <3>5. Confirming' = {}
      BY <1>2, <3>3, <3>4 DEF Confirming, At
    <3> QED
      BY <1>5, <2>0, <3>2, <3>5
  <2>2. ASSUME Clean' PROVE \E v \in versions' : v.status # "candidate" /\ Shows(v)'
    BY <1>0, <1>1, <1>5, <2>0, <2>2 DEF RequestOK, ConfirmedByNow
  <2> QED
    BY <1>1, <1>3, <2>1, <2>2 DEF SessionOK
<1>10. VersionsOK(versions', Clean') /\ Evolves(versions, versions', Clean')
  BY <1>0, <1>1, <1>5, EvolvesSelf
<1>11. drafts' \in [Drafts -> DraftRows] /\ \A d \in Drafts : drafts'[d] = drafts[d]
  BY <1>0, <1>1
<1>12. BasesKept
  BY <1>5 DEF BasesKept
<1> QED
  BY <1>0, <1>1, <1>4, <1>5, <1>6, <1>7, <1>8, <1>9, <1>10, <1>11, <1>12, StepKeeps

LEMMA SaveDraftKeeps == ASSUME DraftIInv, NEW r \in Requests, SaveDraft(r) PROVE DraftIInv' /\ NothingLost
<1> DEFINE p == request[r]
           d == p.of
<1>0. /\ p \in RequestRows /\ p.at = "draft" /\ p.op # "none" /\ d \in Drafts
      /\ p.op \in {"create", "update", "evaluate", "confirm"}
      /\ RequestOK(p, versions, Clean, backend) /\ VersionsOK(versions, Clean)
      /\ NamesOK /\ drafts \in [Drafts -> DraftRows] /\ plan \in Plans
      /\ deaths \in Nat /\ raced \subseteq {"number", "rewrite", "confirm"}
      /\ backend = "sqlite" => Clean
      /\ p.draft \in DraftRows /\ p.base \in Nat /\ issued \in 0..MaxRequests
      /\ p.name \in 1..MaxRequests /\ behind \in BOOLEAN
  BY RequestFields DEF SaveDraft, DraftIInv
<1>1. /\ request' = [request EXCEPT ![r] = NoRequest]
      /\ drafts' = [drafts EXCEPT ![d] = Saved(p)]
      /\ plan' = plan
      /\ backend' = backend /\ versions' = versions /\ issued' = issued
      /\ deaths' = deaths /\ raced' = raced /\ behind' = behind
  BY DEF SaveDraft, End, Become
<1>2. Clean' = Clean /\ Confirmed' = Confirmed
  BY <1>1 DEF Clean, Confirmed
<1>3. Written(p.name) \in Plans /\ versions # {}
  BY <1>0, DraftAssumption DEF Written, Plans, RequestOK
<1>4. DraftOK(Saved(p), versions, Clean)
  <2>1. CASE p.op = "create"
    <3>1. Saved(p) = [status |-> "editing", base |-> p.base, plan |-> Written(p.name), candidate |-> 0]
      BY <2>1 DEF Saved
    <3>2. Saved(p) \in DraftRows /\ Saved(p).status = "editing"
      BY <1>0, <1>3, <3>1 DEF DraftRows
    <3> QED
      BY <1>3, <3>2 DEF DraftOK
  <2>2. CASE p.op = "update"
    <3>1. Saved(p) = [p.draft EXCEPT !.status = "editing", !.plan = Written(p.name), !.candidate = 0]
      BY <2>2 DEF Saved
    <3>2. Saved(p) \in DraftRows /\ Saved(p).status = "editing"
      <4>1. /\ p.draft \in DraftRows /\ Written(p.name) \in Plans /\ 0 \in Nat
            /\ "editing" \in {"none", "editing", "evaluated", "confirmed"}
        BY <1>0, <1>3
      <4> HIDE DEF p
      <4> QED
        BY <3>1, <4>1 DEF DraftRows
    <3> QED
      BY <1>3, <3>2 DEF DraftOK
  <2>3. CASE p.op = "evaluate"
    <3>1. Saved(p) = [p.draft EXCEPT !.status = "evaluated", !.plan = p.row.plan,
                           !.candidate = p.row.id]
      BY <2>3 DEF Saved
    <3>2. /\ p.row.id \in Nat /\ p.row.plan \in Plans
          /\ Offers(versions, Clean, p.row.id, p.row.plan, p.draft.base)
      BY <1>0, <2>3, RowFields DEF RequestOK
    <3>3. /\ Saved(p) \in DraftRows /\ Saved(p).candidate = p.row.id
          /\ Saved(p).plan = p.row.plan /\ Saved(p).base = p.draft.base
      BY <1>0, <3>1, <3>2 DEF DraftRows
    <3> QED
      BY <1>3, <3>2, <3>3 DEF DraftOK, Offers
  <2>4. CASE p.op = "confirm"
    <3>1. Saved(p) = [p.draft EXCEPT !.status = "confirmed"]
      BY <2>4 DEF Saved
    <3>2. Saved(p) \in DraftRows /\ Saved(p).status = "confirmed"
      BY <1>0, <3>1 DEF DraftRows
    <3> QED
      BY <1>3, <3>2 DEF DraftOK
  <2> QED
    BY <1>0, <2>1, <2>2, <2>3, <2>4
<1>5. drafts' \in [Drafts -> DraftRows]
  <2>1. Saved(p) \in DraftRows
    BY <1>4 DEF DraftOK
  <2> QED
    BY <1>0, <1>1, <2>1
<1>6. \A x \in Drafts : drafts'[x] = drafts[x] \/ DraftOK(drafts'[x], versions', Clean')
  BY <1>0, <1>1, <1>2, <1>4
<1>7. Follows(versions, versions', p, NoRequest) /\ NoNewNames(versions, versions', p)
  BY <1>0, <1>1, NoRequestFacts DEF Follows, NoNewNames
<1>8. VersionsOK(versions', Clean') /\ Evolves(versions, versions', Clean')
  BY <1>0, <1>1, <1>2, EvolvesSelf
<1>9. KeepsAConfirmed' /\ SessionOK' /\ SingleOK' /\ BasesKept
  BY <1>0, <1>1, <1>2, <1>8, NoRequestFacts, PlainSession
<1>10. RequestOK(NoRequest, versions', Clean', backend)
  BY NoRequestFacts
<1> QED
  BY <1>0, <1>1, <1>2, <1>5, <1>6, <1>7, <1>8, <1>9, <1>10, StepKeeps

LEMMA DieKeeps == ASSUME DraftIInv, NEW r \in Requests, Die(r) PROVE DraftIInv' /\ NothingLost
<1> DEFINE p == request[r]
<1>0. /\ p \in RequestRows /\ p.op # "none" /\ VersionsOK(versions, Clean)
      /\ drafts \in [Drafts -> DraftRows] /\ plan \in Plans /\ request \in [Requests -> RequestRows]
      /\ deaths \in Nat /\ raced \subseteq {"number", "rewrite", "confirm"}
      /\ backend = "sqlite" => Clean
      /\ KeepsAConfirmed /\ SessionOK /\ SingleOK /\ behind \in BOOLEAN
  BY RequestFields DEF Die, DraftIInv
<1>1. /\ request' = [request EXCEPT ![r] = NoRequest] /\ deaths' = deaths + 1
      /\ drafts' = drafts /\ plan' = plan /\ backend' = backend /\ versions' = versions
      /\ issued' = issued /\ raced' = raced /\ behind' = (behind \/ r \in Confirming)
  BY DEF Die, End, Become
<1>2. Clean' = Clean /\ Confirmed' = Confirmed /\ deaths' \in Nat /\ behind' \in BOOLEAN
  BY <1>0, <1>1 DEF Clean, Confirmed
<1>3. Follows(versions, versions', p, NoRequest) /\ NoNewNames(versions, versions', p)
  BY <1>0, <1>1, NoRequestFacts DEF Follows, NoNewNames
<1>4. KeepsAConfirmed' /\ SingleOK' /\ BasesKept
  BY <1>0, <1>1, <1>2 DEF KeepsAConfirmed, SingleOK, BasesKept
<1>5. SessionOK'
  <2>1. request'[r] = NoRequest /\ \A x \in Requests : x # r => request'[x] = request[x]
    BY <1>0, <1>1
  <2>2. Confirming' = Confirming \ {r}
    BY <2>1, NoRequestFacts DEF Confirming, At
  <2>3. \A v : Shows(v)' = Shows(v)
    BY <1>1 DEF Shows
  <2>4. ASSUME raced' = {}
        PROVE  /\ (~behind' /\ Confirming' = {}) => \A v \in Confirmed' : Shows(v)'
               /\ \A x \in Confirming' : \A v \in Confirmed' : v.plan = request'[x].row.plan
               /\ \A x, y \in Confirming' : x = y
    <3>1. raced = {}
      BY <1>1, <2>4
    <3>2. ~behind' => ~behind /\ Confirming' = Confirming
      BY <1>1, <2>2
    <3>3. \A x \in Confirming' : x \in Confirming /\ request'[x] = request[x]
      BY <2>1, <2>2 DEF Confirming
    <3> QED
      BY <1>0, <1>2, <2>3, <3>1, <3>2, <3>3 DEF SessionOK
  <2>5. (Clean' /\ versions' # {}) => \E v \in versions' : v.status # "candidate" /\ Shows(v)'
    BY <1>0, <1>1, <1>2, <2>3 DEF SessionOK
  <2>6. versions' = {} => \A x \in Requests : request'[x].op # "none" => request'[x].plan = plan'
    BY <1>0, <1>1, <2>1, NoRequestFacts DEF SessionOK
  <2> QED
    BY <2>4, <2>5, <2>6 DEF SessionOK
<1>6. VersionsOK(versions', Clean') /\ Evolves(versions, versions', Clean')
  BY <1>0, <1>1, <1>2, EvolvesSelf
<1>7. RequestOK(NoRequest, versions', Clean', backend)
  BY NoRequestFacts
<1>8. drafts' \in [Drafts -> DraftRows] /\ \A d \in Drafts : drafts'[d] = drafts[d]
  BY <1>0, <1>1
<1> QED
  BY <1>0, <1>1, <1>2, <1>3, <1>4, <1>5, <1>6, <1>7, <1>8, StepKeeps

----------------------------------------------------------------------------
(* The steps that write versions.                                          *)

\* Rows that are written in place, under their keys and numbers.
LEMMA Rewritten ==
    ASSUME NEW vs, NEW c, NEW d, VersionsOK(vs, c), d => c,
           NEW f, f \in [vs -> Row],
           \A v \in vs : f[v].key = v.key /\ f[v].number = v.number,
           \A v, w \in vs : f[v].id # f[v].key => w.key # f[v].id,
           d => \A v \in vs : f[v].id = v.id /\ f[v].plan = v.plan /\ f[v].base = v.base,
           d => \A v \in vs : v.status # "candidate" => f[v].status # "candidate",
           NEW ws, ws = {f[v] : v \in vs}
    PROVE  VersionsOK(ws, d) /\ Evolves(vs, ws, d)
<1>1. ws \subseteq Row
  OBVIOUS
<1>2. \A v, w \in ws : v.number = w.number \/ v.key = w.key => v = w
  BY DEF VersionsOK
<1>3. \E b \in Nat : \A w \in ws : w.number <= b
  BY DEF VersionsOK
<1>4. ws # {} => \E w \in ws : w.number = 1
  BY DEF VersionsOK
<1>5. \A v, w \in ws : v.id # v.key => w.key # v.id
  OBVIOUS
<1>6. d => \A v \in ws : v.id = v.key
  BY DEF VersionsOK
<1>7. Evolves(vs, ws, d)
  BY DEF Evolves, Continues
<1> QED
  BY <1>1, <1>2, <1>3, <1>4, <1>5, <1>6, <1>7 DEF VersionsOK

LEMMA SupersedeCandidateKeeps ==
    ASSUME DraftIInv, NEW r \in Requests, SupersedeCandidate(r) PROVE DraftIInv' /\ NothingLost
<1> DEFINE p == request[r]
           id == p.draft.candidate
           next == IF p.op = "update" THEN "draft" ELSE "number"
           old == {v \in ByKey(id) : v.status = "candidate"}
<1>0. /\ p \in RequestRows /\ p.at = "supersede" /\ p.of \in Drafts /\ p.op \in {"update", "evaluate"}
      /\ RequestOK(p, versions, Clean, backend) /\ VersionsOK(versions, Clean)
      /\ versions \subseteq Row /\ versions # {}
      /\ NamesOK /\ drafts \in [Drafts -> DraftRows] /\ plan \in Plans
      /\ deaths \in Nat /\ raced \subseteq {"number", "rewrite", "confirm"}
      /\ backend = "sqlite" => Clean
      /\ behind \in BOOLEAN
  <2>1. p.op # "none" /\ p.at = "supersede" /\ RequestOK(p, versions, Clean, backend)
    BY RequestFields DEF SupersedeCandidate
  <2>2. p.op \in {"update", "evaluate"} /\ versions # {}
    BY <2>1, RequestFields DEF RequestOK
  <2> QED
    BY <2>1, <2>2, RequestFields DEF DraftIInv
<1>1. /\ backend' = backend /\ drafts' = drafts /\ plan' = plan /\ issued' = issued
      /\ deaths' = deaths /\ raced' = raced /\ behind' = behind
  BY DEF SupersedeCandidate
<1>2. \/ request' = [request EXCEPT ![r] = NoRequest] /\ versions' = versions
      \/ /\ backend = "sqlite" /\ versions' = versions
         /\ \E v \in old : request' = [request EXCEPT ![r] = [p EXCEPT !.at = "rewrite", !.row = v]]
      \/ /\ versions' = Supersede(id)
         /\ request' = [request EXCEPT ![r] = [p EXCEPT !.at = next]]
  BY DEF SupersedeCandidate, End, Go, Become
<1>3. CASE request' = [request EXCEPT ![r] = NoRequest] /\ versions' = versions
  BY <1>0, <1>1, <1>3, NoRequestFacts, QuietStep
<1>4. CASE /\ backend = "sqlite" /\ versions' = versions
           /\ \E v \in old : request' = [request EXCEPT ![r] = [p EXCEPT !.at = "rewrite", !.row = v]]
  <2>1. PICK v \in old : request' = [request EXCEPT ![r] = [p EXCEPT !.at = "rewrite", !.row = v]]
    BY <1>4
  <2> DEFINE q == [p EXCEPT !.at = "rewrite", !.row = v]
  <2>2. request' = [request EXCEPT ![r] = q]
    BY <2>1
  <2>3. v \in versions /\ v.status = "candidate" /\ v \in Row
    BY <1>0, <2>1 DEF ByKey
  <2>4. q \in RequestRows /\ q.op = p.op /\ q.at = "rewrite" /\ q.of = p.of /\ q.name = p.name /\ q.plan = p.plan /\ q.row = v
    <3>1. "rewrite" \in Places
      BY DEF Places
    <3> QED
      BY <1>0, <2>3, <3>1 DEF RequestRows
  <2> HIDE DEF q
  <2>5. Tracks(versions, Clean, v)
    BY <1>0, <2>3 DEF VersionsOK, Tracks, Continues
  <2>6. Coming(q) \subseteq Coming(p)
    BY <1>0, <2>4 DEF Coming
  <2>7. RequestOK(q, versions, Clean, backend)
    BY <1>0, <1>4, <2>3, <2>4, <2>5 DEF RequestOK
  <2> QED
    BY <1>0, <1>1, <1>4, <2>2, <2>3, <2>4, <2>6, <2>7, QuietStep
<1>5. CASE /\ versions' = Supersede(id)
           /\ request' = [request EXCEPT ![r] = [p EXCEPT !.at = next]]
  <2> DEFINE q == [p EXCEPT !.at = next]
             f == [v \in versions |-> IF v.key = id /\ v.status = "candidate"
                                      THEN [v EXCEPT !.status = "superseded"] ELSE v]
  <2>0. next \in Places /\ (p.op = "update" => next = "draft") /\ (p.op = "evaluate" => next = "number")
    BY DEF Places
  <2>1. versions' = {f[v] : v \in versions} /\ request' = [request EXCEPT ![r] = q]
    BY <1>5 DEF Supersede
  <2>2. /\ f \in [versions -> Row]
        /\ \A v \in versions : /\ f[v].key = v.key /\ f[v].number = v.number /\ f[v].id = v.id
                               /\ f[v].plan = v.plan /\ f[v].base = v.base
                               /\ v.status # "candidate" => f[v] = v
                               /\ f[v].status = "confirmed" => f[v] = v
    <3> SUFFICES ASSUME NEW v \in versions
                 PROVE  /\ f[v] \in Row
                        /\ f[v].key = v.key /\ f[v].number = v.number /\ f[v].id = v.id
                        /\ f[v].plan = v.plan /\ f[v].base = v.base
                        /\ v.status # "candidate" => f[v] = v
                        /\ f[v].status = "confirmed" => f[v] = v
      OBVIOUS
    <3>1. v \in Row
      BY <1>0
    <3>2. CASE v.key = id /\ v.status = "candidate"
      <4>1. f[v] = [v EXCEPT !.status = "superseded"]
        BY <3>2
      <4> QED
        BY <3>1, <3>2, <4>1 DEF Row
    <3>3. CASE ~(v.key = id /\ v.status = "candidate")
      <4>1. f[v] = v
        BY <3>3
      <4> QED
        BY <3>1, <4>1
    <3> QED
      BY <3>2, <3>3
  <2>3. /\ q \in RequestRows /\ q.op = p.op /\ q.at = next /\ q.of = p.of /\ q.name = p.name /\ q.plan = p.plan
    <3> HIDE DEF next
    <3> QED
      BY <1>0, <2>0 DEF RequestRows
  <2> HIDE DEF q, f, next
  <2>4. Clean' = Clean
    BY <1>1 DEF Clean
  <2>5. VersionsOK(versions', Clean') /\ Evolves(versions, versions', Clean')
    <3>1. \A v, w \in versions : f[v].id # f[v].key => w.key # f[v].id
      BY <1>0, <2>2 DEF VersionsOK
    <3> QED
      BY <1>0, <2>1, <2>2, <2>4, <3>1, Rewritten
  <2>6. Confirmed' = Confirmed
    BY <2>1, <2>2 DEF Confirmed
  <2>7. ~Holds(q) /\ (Coming(q) \subseteq Coming(p))
    BY <1>0, <2>0, <2>3 DEF Holds, Coming
  <2>8. NoNewNames(versions, versions', p)
    BY <2>1, <2>2 DEF NoNewNames
  <2>9. Follows(versions, versions', p, q)
    <3>1. \A v \in versions : v.key \notin Coming(p) /\ v.id \notin Coming(p)
      BY <1>0 DEF NamesOK
    <3>2. \A w \in versions' : w.key \notin Coming(p) /\ w.id \notin Coming(p)
      BY <2>1, <2>2, <3>1
    <3> QED
      BY <1>0, <2>3, <2>7, <3>2 DEF Follows
  <2>10. versions' # {}
    BY <1>0, <2>5 DEF Evolves
  <2>11. RequestOK(q, versions', Clean', backend)
    BY <1>0, <2>0, <2>3, <2>7, <2>10 DEF RequestOK
  <2>12. KeepsAConfirmed' /\ SessionOK' /\ SingleOK' /\ BasesKept
    <3>1. ~(q.op = "confirm" /\ q.at = "state") /\ ~(p.op = "confirm" /\ p.at = "state")
      BY <1>0, <2>3
    <3> QED
      BY <1>0, <1>1, <2>1, <2>3, <2>5, <2>6, <3>1, PlainSession
  <2>13. drafts' \in [Drafts -> DraftRows] /\ \A d \in Drafts : drafts'[d] = drafts[d]
    BY <1>0, <1>1
  <2> QED
    BY <1>0, <1>1, <2>1, <2>4, <2>5, <2>8, <2>9, <2>11, <2>12, <2>13, StepKeeps
<1> QED
  BY <1>2, <1>3, <1>4, <1>5

LEMMA RewriteCandidateKeeps ==
    ASSUME DraftIInv, NEW r \in Requests, RewriteCandidate(r) PROVE DraftIInv' /\ NothingLost
<1> DEFINE p == request[r]
           row == p.row
           next == IF p.op = "update" THEN "draft" ELSE "number"
           q == [p EXCEPT !.row = NoRow, !.at = next]
           gone == [row EXCEPT !.status = "superseded"]
           f == [v \in versions |-> IF v.key = row.key THEN gone ELSE v]
<1>0. /\ p \in RequestRows /\ p.at = "rewrite" /\ p.of \in Drafts /\ p.op \in {"update", "evaluate"}
      /\ RequestOK(p, versions, Clean, backend) /\ VersionsOK(versions, Clean)
      /\ versions \subseteq Row /\ versions # {}
      /\ NamesOK /\ drafts \in [Drafts -> DraftRows] /\ plan \in Plans
      /\ deaths \in Nat /\ behind \in BOOLEAN /\ raced \subseteq {"number", "rewrite", "confirm"}
      /\ Clean /\ Tracks(versions, Clean, row) /\ row.status = "candidate"
  <2>1. p.op # "none" /\ p.at = "rewrite" /\ RequestOK(p, versions, Clean, backend)
    BY RequestFields DEF RewriteCandidate
  <2>2. p.op \in {"update", "evaluate"} /\ versions # {}
    BY <2>1, RequestFields DEF RequestOK
  <2>3. Clean /\ Tracks(versions, Clean, row) /\ row.status = "candidate"
    BY <2>1 DEF RequestOK, DraftIInv, Holds
  <2> QED
    BY <2>1, <2>2, <2>3, RequestFields DEF DraftIInv
<1>1. /\ backend' = backend /\ drafts' = drafts /\ plan' = plan /\ issued' = issued
      /\ deaths' = deaths /\ behind' = behind /\ raced' = raced \cup {"rewrite" : v \in ByKey(row.key) \ {row}}
      /\ versions' = {f[v] : v \in versions}
      /\ request' = [request EXCEPT ![r] = q]
  BY DEF RewriteCandidate, Become
<1>2. Clean' = Clean
  BY <1>1 DEF Clean
<1>3. row \in Row /\ row.id = row.key
  BY <1>0 DEF Tracks
<1>4. PICK u \in versions : /\ u.key = row.key /\ u.number = row.number /\ u.id = row.id
                            /\ u.plan = row.plan /\ u.base = row.base
  BY <1>0 DEF Tracks, Continues
<1>5. /\ gone \in Row /\ gone.key = row.key /\ gone.number = row.number /\ gone.id = row.id
      /\ gone.plan = row.plan /\ gone.base = row.base /\ gone.status = "superseded"
  BY <1>3 DEF Row
<1>6. next \in Places /\ (p.op = "update" => next = "draft") /\ (p.op = "evaluate" => next = "number")
  BY DEF Places
<1>7. q \in RequestRows /\ q.op = p.op /\ q.at = next /\ q.of = p.of /\ q.name = p.name /\ q.plan = p.plan
  <2> HIDE DEF next
  <2> QED
    BY <1>0, <1>6 DEF RequestRows
<1> HIDE DEF gone, next, q
<1>8. /\ f \in [versions -> Row]
      /\ \A v \in versions : /\ f[v].key = v.key /\ f[v].number = v.number /\ f[v].id = v.id
                             /\ f[v].plan = v.plan /\ f[v].base = v.base
                             /\ f[v].status = "confirmed" => f[v] = v
                             /\ v.key # row.key => f[v] = v
                             /\ v.status # "candidate" => f[v].status # "candidate"
  <2> SUFFICES ASSUME NEW v \in versions
               PROVE  /\ f[v] \in Row
                      /\ f[v].key = v.key /\ f[v].number = v.number /\ f[v].id = v.id
                      /\ f[v].plan = v.plan /\ f[v].base = v.base
                      /\ f[v].status = "confirmed" => f[v] = v
                      /\ v.key # row.key => f[v] = v
                      /\ v.status # "candidate" => f[v].status # "candidate"
    OBVIOUS
  <2>1. CASE v.key = row.key
    <3>1. v = u /\ f[v] = gone
      BY <1>0, <1>4, <2>1 DEF VersionsOK
    <3> QED
      BY <1>4, <1>5, <2>1, <3>1
  <2>2. CASE v.key # row.key
    <3>1. f[v] = v /\ v \in Row
      BY <1>0, <2>2
    <3> QED
      BY <3>1
  <2> QED
    BY <2>1, <2>2
<1> HIDE DEF f
<1>9. VersionsOK(versions', Clean') /\ Evolves(versions, versions', Clean')
  <2>1. \A v, w \in versions : f[v].id # f[v].key => w.key # f[v].id
    BY <1>0, <1>8 DEF VersionsOK
  <2>3. versions' = {f[v] : v \in versions} /\ VersionsOK(versions, Clean) /\ Clean' = Clean
    BY <1>0, <1>1, <1>2
  <2>4. /\ f \in [versions -> Row]
        /\ \A v \in versions : f[v].key = v.key /\ f[v].number = v.number
        /\ Clean => \A v \in versions : f[v].id = v.id /\ f[v].plan = v.plan /\ f[v].base = v.base
        /\ Clean => \A v \in versions : v.status # "candidate" => f[v].status # "candidate"
    BY <1>8
  <2>5. VersionsOK(versions', Clean) /\ Evolves(versions, versions', Clean)
    BY <2>1, <2>3, <2>4, Rewritten
  <2> QED
    BY <2>3, <2>5
<1>10. "rewrite" \notin raced' => Confirmed' = Confirmed
  <2> SUFFICES ASSUME "rewrite" \notin raced' PROVE Confirmed' = Confirmed
    OBVIOUS
  <2>1. ASSUME NEW v \in ByKey(row.key) PROVE v = row
    <3>1. SUFFICES ASSUME v # row PROVE FALSE
      OBVIOUS
    <3>2. v \in ByKey(row.key) \ {row}
      BY <2>1, <3>1
    <3>3. "rewrite" \in {"rewrite" : x \in ByKey(row.key) \ {row}}
      BY <3>2
    <3> QED
      BY <1>1, <3>3
  <2>2. \A v \in versions : v.status = "confirmed" => v.key # row.key
    BY <1>0, <2>1 DEF ByKey
  <2>3. \A v \in versions : v.status = "confirmed" => f[v] = v
    BY <1>8, <2>2
  <2> QED
    BY <1>1, <1>8, <2>3 DEF Confirmed
<1>11. ~Holds(q) /\ (Coming(q) \subseteq Coming(p))
  BY <1>0, <1>6, <1>7 DEF Holds, Coming
<1>12. NoNewNames(versions, versions', p)
  BY <1>1, <1>8 DEF NoNewNames
<1>13. Follows(versions, versions', p, q)
  <2>1. \A v \in versions : v.key \notin Coming(p) /\ v.id \notin Coming(p)
    BY <1>0 DEF NamesOK
  <2>2. \A w \in versions' : w.key \notin Coming(p) /\ w.id \notin Coming(p)
    BY <1>1, <1>8, <2>1
  <2> QED
    BY <1>0, <1>7, <1>11, <2>2 DEF Follows
<1>14. versions' # {}
  BY <1>0, <1>9 DEF Evolves
<1>15. RequestOK(q, versions', Clean', backend)
  BY <1>0, <1>6, <1>7, <1>11, <1>14 DEF RequestOK
<1>16. KeepsAConfirmed' /\ SessionOK' /\ SingleOK' /\ BasesKept
  <2>1. ~(q.op = "confirm" /\ q.at = "state") /\ ~(p.op = "confirm" /\ p.at = "state")
    BY <1>0, <1>7
  <2>2. raced \subseteq raced'
    BY <1>1
  <2>3. Confirmed' \subseteq Confirmed
    BY <1>1, <1>8 DEF Confirmed
  <2> QED
    BY <1>0, <1>1, <1>7, <1>9, <1>10, <2>1, <2>2, <2>3, PlainSession
<1>17. /\ raced \subseteq raced' /\ raced' \subseteq {"number", "rewrite", "confirm"}
       /\ drafts' \in [Drafts -> DraftRows] /\ \A d \in Drafts : drafts'[d] = drafts[d]
  BY <1>0, <1>1
<1> QED
  BY <1>0, <1>1, <1>2, <1>9, <1>12, <1>13, <1>15, <1>16, <1>17, StepKeeps

\* save_version of a new version v: a row of its own, or, in MySQL, the JSON of
\* the row that has its number.
LEMMA InsertFacts ==
    ASSUME DraftIInv, NEW v \in Row, v.key = v.id,
           \A w \in versions : w.key # v.id /\ w.id # v.id,
           versions = {} => v.number = 1,
           versions' = Insert(v),
           raced' = raced \cup (IF Taken(v.number) = {} THEN {} ELSE {"number"})
    PROVE  /\ VersionsOK(versions', Clean') /\ Evolves(versions, versions', Clean')
           /\ Taken(v.number) = {} => versions' = versions \cup {v} /\ raced' = raced
           /\ Clean' => Taken(v.number) = {}
           /\ versions' # {}
           /\ \A w \in versions' : /\ (\E u \in versions : u.key = w.key) \/ w.key = v.key
                                   /\ (\E u \in versions : u.id = w.id) \/ w.id = v.id
<1>0. VersionsOK(versions, Clean) /\ versions \subseteq Row
  BY DEF DraftIInv, VersionsOK
<1>1. CASE Taken(v.number) = {}
  <2>1. versions' = versions \cup {v} /\ raced' = raced /\ Clean' = Clean
    BY <1>1 DEF Insert, Clean
  <2>2. \A w \in versions : w.number # v.number
    BY <1>1 DEF Taken
  <2>3. versions' \subseteq Row
    BY <1>0, <2>1
  <2>4. \A x, y \in versions' : x.number = y.number \/ x.key = y.key => x = y
    BY <1>0, <2>1, <2>2 DEF VersionsOK
  <2>5. \E b \in Nat : \A w \in versions' : w.number <= b
    <3>1. PICK b \in Nat : \A w \in versions : w.number <= b
      BY <1>0 DEF VersionsOK
    <3>2. v.number \in Nat
      BY RowFields
    <3>3. CASE v.number <= b
      BY <2>1, <3>1, <3>3
    <3>4. CASE ~(v.number <= b)
      <4>1. \A w \in versions : w.number \in Nat /\ w.number <= v.number
        BY <1>0, <3>1, <3>2, <3>4, RowFields
      <4> QED
        BY <2>1, <3>2, <4>1
    <3> QED
      BY <3>3, <3>4
  <2>6. \E w \in versions' : w.number = 1
    BY <1>0, <2>1 DEF VersionsOK
  <2>7. \A x, y \in versions' : x.id # x.key => y.key # x.id
    BY <1>0, <2>1 DEF VersionsOK
  <2>8. Clean => \A x \in versions' : x.id = x.key
    BY <1>0, <2>1 DEF VersionsOK
  <2>9. VersionsOK(versions', Clean')
    BY <2>1, <2>3, <2>4, <2>5, <2>6, <2>7, <2>8 DEF VersionsOK
  <2>10. Evolves(versions, versions', Clean')
    BY <2>1 DEF Evolves, Continues
  <2> QED
    BY <1>1, <2>1, <2>9, <2>10
<1>2. CASE Taken(v.number) # {}
  <2> DEFINE f == [w \in versions |-> IF w.number = v.number THEN [v EXCEPT !.key = w.key] ELSE w]
  <2>1. versions' = {f[w] : w \in versions} /\ ~Clean'
    BY <1>2 DEF Insert, Clean
  <2>2. /\ f \in [versions -> Row]
        /\ \A w \in versions : /\ f[w].key = w.key /\ f[w].number = w.number
                               /\ f[w] = w \/ f[w].id = v.id
    <3> SUFFICES ASSUME NEW w \in versions
                 PROVE  /\ f[w] \in Row
                        /\ f[w].key = w.key /\ f[w].number = w.number
                        /\ f[w] = w \/ f[w].id = v.id
      OBVIOUS
    <3>1. w \in Row /\ w.key \in Nat
      BY <1>0, RowFields
    <3>2. CASE w.number = v.number
      <4>1. f[w] = [v EXCEPT !.key = w.key]
        BY <3>2
      <4> QED
        BY <3>1, <3>2, <4>1 DEF Row
    <3>3. CASE w.number # v.number
      <4>1. f[w] = w
        BY <3>3
      <4> QED
        BY <3>1, <4>1
    <3> QED
      BY <3>2, <3>3
  <2> HIDE DEF f
  <2>3. \A x, y \in versions : f[x].id # f[x].key => y.key # f[x].id
    BY <1>0, <2>2 DEF VersionsOK
  <2>4. /\ f \in [versions -> Row]
        /\ \A w \in versions : f[w].key = w.key /\ f[w].number = w.number
    BY <2>2
  <2>5. VersionsOK(versions', Clean') /\ Evolves(versions, versions', Clean')
    BY <1>0, <2>1, <2>3, <2>4, Rewritten
  <2>6. versions' # {}
    BY <1>2, <2>1 DEF Taken
  <2>7. \A w \in versions' : /\ (\E u \in versions : u.key = w.key) \/ w.key = v.key
                             /\ (\E u \in versions : u.id = w.id) \/ w.id = v.id
    BY <2>1, <2>2
  <2> QED
    BY <1>2, <2>1, <2>5, <2>6, <2>7
<1> QED
  BY <1>1, <1>2

LEMMA SaveOriginalKeeps == ASSUME DraftIInv, NEW r \in Requests, SaveOriginal(r) PROVE DraftIInv' /\ NothingLost
<1> DEFINE p == request[r]
           id == OriginalId(p.name)
           v == [key |-> id, id |-> id, number |-> 1, status |-> "confirmed",
                 plan |-> RebuiltBy(p.plan, p.name), base |-> 0]
<1>0. /\ p \in RequestRows /\ p.op \in {"create", "evaluate"} /\ p.at = "original" /\ p.of \in Drafts
      /\ p.name \in 1..MaxRequests /\ p.plan \in Plans
      /\ RequestOK(p, versions, Clean, backend) /\ VersionsOK(versions, Clean)
      /\ versions \subseteq Row /\ request \in [Requests -> RequestRows]
      /\ NamesOK /\ drafts \in [Drafts -> DraftRows] /\ plan \in Plans /\ SessionOK
      /\ deaths \in Nat /\ raced \subseteq {"number", "rewrite", "confirm"} /\ behind \in BOOLEAN
      /\ backend \in {"mysql", "sqlite"} /\ (backend = "sqlite" => Clean)
      /\ \A x \in Requests : RequestOK(request[x], versions, Clean, backend)
  <2>1. p.at = "original" /\ p.op # "none" /\ RequestOK(p, versions, Clean, backend)
    BY RequestFields DEF SaveOriginal
  <2>2. p.op \in {"create", "evaluate"}
    BY <2>1, RequestFields DEF RequestOK
  <2> QED
    BY <2>1, <2>2, RequestFields DEF DraftIInv
<1>1. /\ backend' = backend /\ drafts' = drafts /\ plan' = plan /\ issued' = issued /\ deaths' = deaths
      /\ behind' = behind
  BY DEF SaveOriginal
<1>2. CASE Refused(1)
  <2>1. request' = [request EXCEPT ![r] = NoRequest] /\ versions' = versions /\ raced' = raced
    BY <1>2 DEF SaveOriginal, End, Become
  <2> QED
    BY <1>0, <1>1, <2>1, NoRequestFacts, QuietStep
<1>3. CASE ~Refused(1)
  <2>1. /\ versions' = Insert(v) /\ OnBase(r, 1)
        /\ raced' = raced \cup (IF Taken(1) = {} THEN {} ELSE {"number"})
    BY <1>3 DEF SaveOriginal
  <2>2. /\ v \in Row /\ v.key = id /\ v.id = id /\ v.number = 1 /\ v.status = "confirmed"
        /\ v.plan.of = p.plan.of /\ v.base = 0 /\ id \in Nat
    <3>1. id \in Nat
      BY <1>0, NamesDiffer
    <3>2. RebuiltBy(p.plan, p.name) \in Plans /\ RebuiltBy(p.plan, p.name).of = p.plan.of
      <4> DEFINE x == p.plan
                 n == p.name
      <4>1. x \in Plans /\ n \in 0..MaxRequests
        BY <1>0
      <4> HIDE DEF x, n
      <4>2. RebuiltBy(x, n) \in Plans /\ RebuiltBy(x, n).of = x.of
        BY <4>1 DEF Plans, RebuiltBy
      <4> QED
        BY <4>2 DEF x, n
    <3> HIDE DEF id
    <3> QED
      BY <3>1, <3>2 DEF Row
  <2> HIDE DEF v
  <2>3. id \in Coming(p)
    BY <1>0 DEF Coming
  <2> HIDE DEF id
  <2>4. \A w \in versions : w.key # v.id /\ w.id # v.id
    BY <1>0, <2>2, <2>3 DEF NamesOK
  <2>5. versions = {} \/ Taken(1) # {}
    BY <1>0 DEF VersionsOK, Taken
  <2>6. /\ VersionsOK(versions', Clean') /\ Evolves(versions, versions', Clean')
        /\ Taken(1) = {} => versions' = versions \cup {v} /\ raced' = raced
        /\ Clean' => Taken(1) = {}
        /\ versions' # {}
        /\ \A w \in versions' : /\ (\E u \in versions : u.key = w.key) \/ w.key = v.key
                                /\ (\E u \in versions : u.id = w.id) \/ w.id = v.id
    BY <2>1, <2>2, <2>4, InsertFacts
  <2>7. PICK q : /\ request' = [request EXCEPT ![r] = q]
                 /\ q = NoRequest \/ (q.op = p.op /\ q.name = p.name /\ q.plan = p.plan)
                 /\ RequestOK(q, versions', Clean', backend) /\ ~Holds(q) /\ q.at # "state"
                 /\ Coming(q) \subseteq Coming(p) /\ OriginalId(p.name) \notin Coming(q)
    BY <1>0, <2>1, <2>6, OnBaseFacts
  <2>8. NoNewNames(versions, versions', p)
    BY <2>2, <2>3, <2>6 DEF NoNewNames
  <2>9. Follows(versions, versions', p, q)
    <3>1. \A w \in versions : w.key \notin Coming(p) /\ w.id \notin Coming(p)
      BY <1>0 DEF NamesOK
    <3>2. \A w \in versions' : w.key \notin Coming(q) /\ w.id \notin Coming(q)
      BY <2>2, <2>6, <2>7, <3>1 DEF id
    <3> QED
      BY <1>0, <2>7, <3>2 DEF Follows
  <2>10. /\ raced \subseteq raced' /\ raced' \subseteq {"number", "rewrite", "confirm"}
         /\ backend = "sqlite" => Clean'
    <3>1. backend = "sqlite" => Taken(1) = {}
      BY <1>3 DEF Refused
    <3>2. Taken(1) = {} => Clean' = Clean
      BY <2>6 DEF Clean
    <3> QED
      BY <1>0, <2>1, <3>1, <3>2
  <2>11. Clean' => versions = {} /\ versions' = {v}
    BY <2>5, <2>6
  <2>12. Clean' => Confirmed' = {v}
    BY <2>2, <2>11 DEF Confirmed
  <2>13. KeepsAConfirmed' /\ SingleOK'
    BY <2>12 DEF KeepsAConfirmed, SingleOK, Clean
  <2>14. SessionOK'
    <3>1. ASSUME Clean', NEW w \in versions' PROVE w.status = "confirmed" /\ Shows(w)'
      <4>1. p.plan = plan
        BY <1>0, <2>11, <3>1 DEF SessionOK
      <4>2. w.status = "confirmed" /\ w.plan.of = plan.of /\ w.base = 0
        BY <2>2, <2>11, <3>1, <4>1
      <4> QED
        BY <1>1, <4>2 DEF Shows
    <3>2. ASSUME raced' = {} PROVE Confirming' = {} /\ \A w \in Confirmed' : Shows(w)'
      <4>1. Clean'
        BY <3>2 DEF Clean
      <4>2. \A x \in Requests : request[x].op # "confirm"
        BY <1>0, <2>11, <4>1 DEF RequestOK
      <4>3. request'[r] = q /\ \A x \in Requests : x # r => request'[x] = request[x]
        BY <1>0, <2>7
      <4>4. Confirming' = {}
        BY <2>7, <4>2, <4>3 DEF Confirming, At
      <4> QED
        BY <3>1, <4>1, <4>4 DEF Confirmed
    <3>3. Clean' => \E w \in versions' : w.status # "candidate" /\ Shows(w)'
      BY <2>11, <3>1
    <3> QED
      BY <2>6, <3>2, <3>3 DEF SessionOK
  <2>15. drafts' \in [Drafts -> DraftRows] /\ \A d \in Drafts : drafts'[d] = drafts[d]
    BY <1>0, <1>1
  <2>16. BasesKept
    BY <2>2, <2>12 DEF BasesKept, Clean
  <2> QED
    BY <1>0, <1>1, <2>6, <2>7, <2>8, <2>9, <2>10, <2>13, <2>14, <2>15, <2>16, StepKeeps
<1> QED
  BY <1>2, <1>3

LEMMA SaveCandidateKeeps == ASSUME DraftIInv, NEW r \in Requests, SaveCandidate(r) PROVE DraftIInv' /\ NothingLost
<1> DEFINE p == request[r]
           v == p.row
           q == [p EXCEPT !.at = "draft"]
<1>0. /\ p \in RequestRows /\ p.op = "evaluate" /\ p.at = "version" /\ p.of \in Drafts
      /\ RequestOK(p, versions, Clean, backend) /\ VersionsOK(versions, Clean)
      /\ versions \subseteq Row
      /\ NamesOK /\ drafts \in [Drafts -> DraftRows] /\ plan \in Plans
      /\ deaths \in Nat /\ behind \in BOOLEAN /\ raced \subseteq {"number", "rewrite", "confirm"}
      /\ backend \in {"mysql", "sqlite"} /\ (backend = "sqlite" => Clean)
  BY RequestFields DEF SaveCandidate, At, DraftIInv
<1>1. /\ backend' = backend /\ drafts' = drafts /\ plan' = plan /\ issued' = issued /\ deaths' = deaths
      /\ behind' = behind
  BY DEF SaveCandidate
<1>2. CASE Refused(v.number)
  <2>1. request' = [request EXCEPT ![r] = NoRequest] /\ versions' = versions /\ raced' = raced
    BY <1>2 DEF SaveCandidate, End, Become
  <2> QED
    BY <1>0, <1>1, <2>1, NoRequestFacts, QuietStep
<1>3. CASE ~Refused(v.number)
  <2>1. /\ versions' = Insert(v) /\ request' = [request EXCEPT ![r] = q]
        /\ raced' = raced \cup (IF Taken(v.number) = {} THEN {} ELSE {"number"})
    BY <1>3 DEF SaveCandidate, Go, Become
  <2>2. /\ v \in Row /\ v.key = p.name /\ v.id = p.name /\ v.status = "candidate"
        /\ v.base = p.draft.base /\ versions # {}
    BY <1>0 DEF RequestOK
  <2>3. /\ q \in RequestRows /\ q.op = "evaluate" /\ q.at = "draft" /\ q.of = p.of /\ q.name = p.name
        /\ q.row = v /\ q.draft = p.draft /\ q.plan = p.plan
    <3>1. "draft" \in Places
      BY DEF Places
    <3> QED
      BY <1>0, <3>1 DEF RequestRows
  <2> HIDE DEF q
  <2>4. p.name \in Coming(p) /\ Coming(q) = {} /\ ~Holds(q)
    BY <1>0, <2>3 DEF Coming, Holds
  <2>5. \A w \in versions : w.key # v.id /\ w.id # v.id
    BY <1>0, <2>2, <2>4 DEF NamesOK
  <2>6. /\ VersionsOK(versions', Clean') /\ Evolves(versions, versions', Clean')
        /\ Taken(v.number) = {} => versions' = versions \cup {v} /\ raced' = raced
        /\ Clean' => Taken(v.number) = {}
        /\ versions' # {}
        /\ \A w \in versions' : /\ (\E u \in versions : u.key = w.key) \/ w.key = v.key
                                /\ (\E u \in versions : u.id = w.id) \/ w.id = v.id
    <3>1. v.key = v.id /\ v.status # "confirmed"
      BY <2>2
    <3> HIDE DEF v
    <3> QED
      BY <2>1, <2>2, <2>5, <3>1, InsertFacts
  <2>7. NoNewNames(versions, versions', p) /\ Follows(versions, versions', p, q)
    BY <1>0, <2>2, <2>3, <2>4, <2>6 DEF NoNewNames, Follows
  <2>8. Clean' => versions' = versions \cup {v}
    BY <2>6
  <2>9. Offers(versions', Clean', v.id, v.plan, p.draft.base)
    BY <2>2, <2>8 DEF Offers
  <2>10. RequestOK(q, versions', Clean', backend)
    BY <1>0, <2>2, <2>3, <2>4, <2>6, <2>9 DEF RequestOK
  <2>11. /\ raced \subseteq raced' /\ raced' \subseteq {"number", "rewrite", "confirm"}
         /\ backend = "sqlite" => Clean'
    <3>1. backend = "sqlite" => Taken(v.number) = {}
      BY <1>3 DEF Refused
    <3>2. Taken(v.number) = {} => Clean' = Clean
      BY <2>6 DEF Clean
    <3> QED
      BY <1>0, <2>1, <3>1, <3>2
  <2>12. Clean' => Confirmed' = Confirmed
    BY <2>2, <2>8 DEF Confirmed
  <2>13. KeepsAConfirmed' /\ SessionOK' /\ SingleOK' /\ BasesKept
    <3>1. ~(q.op = "confirm" /\ q.at = "state") /\ ~(p.op = "confirm" /\ p.at = "state")
      BY <1>0, <2>3
    <3>2. raced' \cap {"number", "rewrite"} = {} => Confirmed' = Confirmed
      BY <2>12 DEF Clean
    <3>3. Clean' => Confirmed' \subseteq Confirmed
      BY <2>12
    <3> QED
      BY <1>0, <1>1, <2>1, <2>2, <2>3, <2>6, <2>11, <3>1, <3>2, <3>3, PlainSession
  <2>14. drafts' \in [Drafts -> DraftRows] /\ \A d \in Drafts : drafts'[d] = drafts[d]
    BY <1>0, <1>1
  <2> QED
    BY <1>0, <1>1, <2>1, <2>6, <2>7, <2>10, <2>11, <2>13, <2>14, StepKeeps
<1> QED
  BY <1>2, <1>3

\* confirm_version of a row that was read earlier.
LEMMA ConfirmFacts ==
    ASSUME VersionsOK(versions, Clean), NEW t, Tracks(versions, Clean, t),
           NEW ids, versions' = Confirm(t, ids \ {t.id}), Clean' = Clean
    PROVE  /\ VersionsOK(versions', Clean') /\ Evolves(versions, versions', Clean')
           /\ \A w \in versions' : /\ \E u \in versions : u.key = w.key
                                   /\ \E u \in versions : u.id = w.id \/ w.id = t.id
           /\ Clean => \E w \in versions' : /\ w.status = "confirmed" /\ w.key = t.key
                                             /\ w.plan = t.plan /\ w.base = t.base
           /\ Clean /\ ConfirmedIds \subseteq ids =>
                 \A w \in versions' : w.status = "confirmed" =>
                     w.key = t.id /\ w.plan = t.plan /\ w.base = t.base
<1> DEFINE old == ids \ {t.id}
           f == [v \in versions |-> IF v.key = t.id THEN [t EXCEPT !.status = "confirmed", !.key = v.key]
                                    ELSE IF v.key \in old THEN [v EXCEPT !.status = "superseded"]
                                    ELSE v]
<1>0. versions \subseteq Row /\ t \in Row
  BY DEF VersionsOK, Tracks
<1>1. versions' = {f[v] : v \in versions}
  BY DEF Confirm
<1>2. ASSUME NEW v \in versions, v.key = t.id
      PROVE  /\ f[v] \in Row /\ f[v].key = v.key /\ f[v].number = v.number
             /\ f[v].id = t.id /\ f[v].id = v.key /\ f[v].status = "confirmed"
             /\ f[v].plan = t.plan /\ f[v].base = t.base
             /\ Clean => v.id = t.id /\ v.plan = t.plan /\ v.base = t.base
  <2>1. f[v] = [t EXCEPT !.status = "confirmed", !.key = v.key] /\ v.key \in Nat
    BY <1>0, <1>2, RowFields
  <2>2. /\ f[v] \in Row /\ f[v].key = v.key /\ f[v].number = t.number /\ f[v].id = t.id
        /\ f[v].status = "confirmed" /\ f[v].plan = t.plan /\ f[v].base = t.base
    BY <1>0, <2>1 DEF Row
  <2>3. t.id = t.key
    BY <1>2 DEF Tracks
  <2>4. v.number = t.number
    BY <1>2, <2>3 DEF Tracks, VersionsOK
  <2>5. Clean => v.id = t.id /\ v.plan = t.plan /\ v.base = t.base
    BY <1>2, <2>3 DEF Tracks, Continues, VersionsOK
  <2> QED
    BY <1>2, <2>2, <2>4, <2>5
<1>3. ASSUME NEW v \in versions, v.key # t.id
      PROVE  /\ f[v] \in Row /\ f[v].key = v.key /\ f[v].number = v.number /\ f[v].id = v.id
             /\ f[v].plan = v.plan /\ f[v].base = v.base
             /\ f[v].status = "confirmed" => v.status = "confirmed" /\ v.key \notin old
             /\ v.status # "candidate" => f[v].status # "candidate"
  <2>1. v \in Row
    BY <1>0
  <2>2. CASE v.key \in old
    <3>1. f[v] = [v EXCEPT !.status = "superseded"]
      BY <1>3, <2>2
    <3> QED
      BY <2>1, <3>1 DEF Row
  <2>3. CASE v.key \notin old
    <3>1. f[v] = v
      BY <1>3, <2>3
    <3> QED
      BY <2>1, <2>3, <3>1
  <2> QED
    BY <2>2, <2>3
<1>4. Clean /\ ConfirmedIds \subseteq ids =>
          \A v \in versions : f[v].status = "confirmed" => v.key = t.id
  <2> SUFFICES ASSUME Clean, ConfirmedIds \subseteq ids, NEW v \in versions,
                      f[v].status = "confirmed", v.key # t.id
               PROVE  FALSE
    OBVIOUS
  <2>1. v.status = "confirmed" /\ v.key \notin old
    BY <1>3
  <2>2. v.id = v.key
    BY DEF VersionsOK
  <2>3. v.id \in ConfirmedIds
    BY <2>1 DEF Confirmed, ConfirmedIds
  <2> QED
    BY <2>1, <2>2, <2>3
<1> HIDE DEF f
<1>5. f \in [versions -> Row]
  <2>1. \A v \in versions : f[v] \in Row
    BY <1>2, <1>3
  <2> QED
    BY <2>1 DEF f
<1>6. \A v \in versions : f[v].key = v.key /\ f[v].number = v.number
  BY <1>2, <1>3
<1>7. \A v, w \in versions : f[v].id # f[v].key => w.key # f[v].id
  BY <1>2, <1>3 DEF VersionsOK
<1>8. Clean => \A v \in versions : f[v].id = v.id /\ f[v].plan = v.plan /\ f[v].base = v.base
  BY <1>2, <1>3
<1>10. VersionsOK(versions', Clean) /\ Evolves(versions, versions', Clean)
  <2>1. Clean => \A v \in versions : v.status # "candidate" => f[v].status # "candidate"
    BY <1>2, <1>3
  <2>2. VersionsOK(versions, Clean) /\ (Clean => Clean)
    OBVIOUS
  <2> HIDE DEF old
  <2> QED
    BY ONLY <1>1, <1>5, <1>6, <1>7, <1>8, <2>1, <2>2, Rewritten
<1>11. \A v \in versions : f[v].id = v.id \/ f[v].id = t.id
  BY <1>2, <1>3
<1>12. \A w \in versions' : /\ \E u \in versions : u.key = w.key
                            /\ \E u \in versions : u.id = w.id \/ w.id = t.id
  BY <1>1, <1>6, <1>11
<1>13. Clean => \E w \in versions' : /\ w.status = "confirmed" /\ w.key = t.key
                                      /\ w.plan = t.plan /\ w.base = t.base
  <2> SUFFICES ASSUME Clean
               PROVE  \E w \in versions' : /\ w.status = "confirmed" /\ w.key = t.key
                                            /\ w.plan = t.plan /\ w.base = t.base
    OBVIOUS
  <2>1. t.id = t.key /\ \E u \in versions : u.key = t.id
    BY DEF Tracks, Continues
  <2> QED
    BY <1>1, <1>2, <2>1
<1>14. Clean /\ ConfirmedIds \subseteq ids =>
           \A w \in versions' : w.status = "confirmed" =>
               w.key = t.id /\ w.plan = t.plan /\ w.base = t.base
  BY <1>1, <1>2, <1>4
<1> QED
  BY <1>10, <1>12, <1>13, <1>14

LEMMA ConfirmVersionKeeps == ASSUME DraftIInv, NEW r \in Requests, ConfirmVersion(r) PROVE DraftIInv' /\ NothingLost
<1> DEFINE p == request[r]
           q == [p EXCEPT !.at = "state"]
           ids == IF backend = "sqlite" THEN p.old ELSE ConfirmedIds
<1>0. /\ p \in RequestRows /\ p.op = "confirm" /\ p.at = "confirm" /\ p.of \in Drafts
      /\ RequestOK(p, versions, Clean, backend) /\ VersionsOK(versions, Clean)
      /\ versions \subseteq Row /\ request \in [Requests -> RequestRows]
      /\ NamesOK /\ drafts \in [Drafts -> DraftRows] /\ plan \in Plans /\ SessionOK
      /\ deaths \in Nat /\ behind \in BOOLEAN /\ raced \subseteq {"number", "rewrite", "confirm"}
      /\ backend \in {"mysql", "sqlite"} /\ (backend = "sqlite" => Clean)
  BY RequestFields DEF ConfirmVersion, At, DraftIInv
<1>1. /\ backend' = backend /\ drafts' = drafts /\ plan' = plan /\ issued' = issued /\ deaths' = deaths
      /\ behind' = behind
  BY DEF ConfirmVersion
<1>2. CASE backend = "mysql" /\ ByKey(p.row.id) = {}
  <2>1. request' = [request EXCEPT ![r] = NoRequest] /\ versions' = versions /\ raced' = raced
    BY <1>2 DEF ConfirmVersion, End, Become
  <2> QED
    BY <1>0, <1>1, <2>1, NoRequestFacts, QuietStep
<1>3. CASE ~(backend = "mysql" /\ ByKey(p.row.id) = {})
  <2>1. /\ versions' = Confirm(p.row, ids \ {p.row.id}) /\ request' = [request EXCEPT ![r] = q]
        /\ raced' = raced \cup (IF ConfirmedNumber = p.base /\ ids = ConfirmedIds /\ Confirming = {}
                                THEN {} ELSE {"confirm"})
    BY <1>3 DEF ConfirmVersion, Go, Become
  <2>2. /\ q \in RequestRows /\ q.op = "confirm" /\ q.at = "state" /\ q.of = p.of /\ q.name = p.name
        /\ q.row = p.row /\ q.base = p.base /\ q.plan = p.plan
    <3>1. "state" \in Places
      BY DEF Places
    <3> QED
      BY <1>0, <3>1 DEF RequestRows
  <2> HIDE DEF q, ids
  <2>3. Holds(p) /\ Holds(q) /\ Coming(q) = {} /\ Coming(p) = {}
    BY <1>0, <2>2 DEF Coming, Holds
  <2>4. Clean' = Clean
    BY <2>1 DEF Clean
  <2>5. Tracks(versions, Clean, p.row)
    BY <1>0, <2>3 DEF RequestOK
  <2>6. /\ VersionsOK(versions', Clean') /\ Evolves(versions, versions', Clean')
        /\ \A w \in versions' : /\ \E u \in versions : u.key = w.key
                                /\ \E u \in versions : u.id = w.id \/ w.id = p.row.id
        /\ Clean => \E w \in versions' : /\ w.status = "confirmed" /\ w.key = p.row.key
                                          /\ w.plan = p.row.plan /\ w.base = p.row.base
        /\ Clean /\ ConfirmedIds \subseteq ids =>
              \A w \in versions' : w.status = "confirmed" =>
                  w.key = p.row.id /\ w.plan = p.row.plan /\ w.base = p.row.base
    BY <1>0, <2>1, <2>4, <2>5, ConfirmFacts
  <2>7. NoNewNames(versions, versions', p) /\ Follows(versions, versions', p, q)
    BY <1>0, <2>2, <2>3, <2>6 DEF NoNewNames, Follows
  <2>8. RequestOK(p, versions', Clean', backend)
    <3>1. p.row.id # p.row.key => \A w \in versions' : w.key # p.row.id
      BY <2>5, <2>6 DEF Tracks
    <3> HIDE DEF p
    <3> QED
      BY <1>0, <2>4, <2>6, <3>1, RequestStays
  <2>9. RequestOK(q, versions', Clean', backend)
    <3>1. ConfirmedByNow(versions', Clean', q.row)
      BY <2>2, <2>4, <2>6 DEF ConfirmedByNow
    <3> QED
      BY <1>0, <2>2, <2>3, <2>8, <3>1 DEF RequestOK
  <2>10. raced \subseteq raced' /\ raced' \subseteq {"number", "rewrite", "confirm"}
    BY <1>0, <2>1
  <2>11. KeepsAConfirmed'
    <3> SUFFICES ASSUME raced' \cap {"number", "rewrite"} = {} PROVE Confirmed' # {}
      BY DEF KeepsAConfirmed
    <3>1. Clean
      BY <2>4 DEF Clean
    <3> QED
      BY <2>6, <3>1 DEF Confirmed
  <2>12. SessionOK'
    <3>0. request'[r] = q /\ \A x \in Requests : x # r => request'[x] = request[x]
      BY <1>0, <2>1
    <3>1. ASSUME raced' = {}
          PROVE  /\ Confirming' = {r}
                 /\ \A v \in Confirmed' : v.plan = request'[r].row.plan
      <4>1. Clean /\ Confirming = {} /\ ConfirmedIds \subseteq ids
        BY <2>1, <2>4, <3>1 DEF Clean
      <4>2. Confirming' = {r}
        BY <2>2, <3>0, <4>1 DEF Confirming, At
      <4>3. \A v \in Confirmed' : v.plan = p.row.plan
        BY <2>6, <4>1 DEF Confirmed
      <4> QED
        BY <2>2, <3>0, <4>2, <4>3
    <3>2. ASSUME Clean' PROVE \E v \in versions' : v.status # "candidate" /\ Shows(v)'
      <4>1. versions # {}
        BY <1>0 DEF RequestOK
      <4>2. PICK u \in versions : u.status # "candidate" /\ Shows(u)
        BY <1>0, <2>4, <3>2, <4>1 DEF SessionOK
      <4>3. PICK w \in versions' : Continues(u, w, Clean')
        BY <2>6 DEF Evolves
      <4> QED
        BY <1>1, <3>2, <4>2, <4>3 DEF Continues, Shows
    <3>3. versions' # {}
      BY <1>0, <2>6 DEF RequestOK, Evolves
    <3> QED
      BY <3>1, <3>2, <3>3 DEF SessionOK
  <2>13. drafts' \in [Drafts -> DraftRows] /\ \A d \in Drafts : drafts'[d] = drafts[d]
    BY <1>0, <1>1
  <2>14. BasesKept
    <3> SUFFICES ASSUME raced' = {}, NEW v \in Confirmed'
                 PROVE  v.base = 0 \/ \E w \in Confirmed : w.number = v.base
      BY DEF BasesKept
    <3>1. Clean /\ ConfirmedNumber = p.base /\ ConfirmedIds \subseteq ids
      BY <2>1, <2>4 DEF Clean
    <3>2. v.base = p.base
      BY <1>0, <2>6, <3>1 DEF Confirmed, RequestOK
    <3>3. CASE Confirmed = {}
      BY <3>1, <3>2, <3>3 DEF ConfirmedNumber
    <3>4. CASE Confirmed # {}
      BY <1>0, <3>1, <3>2, <3>4, NumbersAreNaturals
    <3> QED
      BY <3>3, <3>4
  <2>15. SingleOK'
    <3> SUFFICES ASSUME Clean', backend = "sqlite" => "confirm" \notin raced'
                 PROVE  \A v, w \in Confirmed' : v = w
      BY <1>1 DEF SingleOK
    <3>1. ConfirmedIds \subseteq ids
      BY <2>1 DEF ids
    <3>2. \A w \in Confirmed' : w \in versions' /\ w.key = p.row.id
      BY <2>4, <2>6, <3>1 DEF Confirmed
    <3> QED
      BY <2>6, <3>2 DEF VersionsOK
  <2> QED
    BY <1>0, <1>1, <2>1, <2>4, <2>6, <2>7, <2>9, <2>10, <2>11, <2>12, <2>13, <2>14, <2>15, StepKeeps
<1> QED
  BY <1>2, <1>3

----------------------------------------------------------------------------
(* The theorems.                                                           *)

LEMMA DraftInitInv == DraftInit => DraftIInv
<1> SUFFICES ASSUME DraftInit PROVE DraftIInv
  OBVIOUS
<1>1. /\ versions = {} /\ raced = {} /\ issued = 0 /\ deaths = 0 /\ plan = Written(0)
      /\ behind = FALSE
      /\ drafts = [d \in Drafts |-> NoDraft] /\ request = [r \in Requests |-> NoRequest]
      /\ backend \in {"mysql", "sqlite"}
  BY DraftAssumption DEF DraftInit
<1>2. VersionsOK(versions, Clean)
  BY <1>1 DEF VersionsOK
<1>3. /\ raced \subseteq {"number", "rewrite", "confirm"} /\ Clean /\ behind \in BOOLEAN
      /\ plan \in Plans /\ issued \in 0..MaxRequests /\ deaths \in Nat
  <2>1. Written(0) \in Plans /\ 0 \in 0..MaxRequests
    BY DraftAssumption, NoRequestFacts
  <2>2. behind \in BOOLEAN
    BY <1>1
  <2> QED
    BY <1>1, <2>1, <2>2 DEF Clean
<1>4. drafts \in [Drafts -> DraftRows] /\ \A d \in Drafts : DraftOK(drafts[d], versions, Clean)
  <2>1. NoDraft \in DraftRows /\ NoDraft.status = "none"
    BY NoRequestFacts DEF NoDraft
  <2> QED
    BY <1>1, <2>1 DEF DraftOK
<1>5. /\ request \in [Requests -> RequestRows]
      /\ \A r \in Requests : RequestOK(request[r], versions, Clean, backend)
  BY <1>1, NoRequestFacts
<1>6. NamesOK
  BY <1>1, NoRequestFacts DEF NamesOK
<1>7. Confirming = {} /\ Confirmed = {}
  BY <1>1, NoRequestFacts DEF Confirming, At, Confirmed
<1>8. KeepsAConfirmed /\ SessionOK /\ SingleOK
  BY <1>1, <1>7, NoRequestFacts DEF KeepsAConfirmed, SessionOK, SingleOK
<1> QED
  BY <1>1, <1>2, <1>3, <1>4, <1>5, <1>6, <1>8 DEF DraftIInv

LEMMA DraftNextInv == DraftIInv /\ [DraftNext]_draftVars => DraftIInv' /\ NothingLost
<1> SUFFICES ASSUME DraftIInv, [DraftNext]_draftVars PROVE DraftIInv' /\ NothingLost
  OBVIOUS
<1>1. ASSUME NEW r \in Requests,
             CreateDraft(r) \/ UpdateDraft(r) \/ EvaluateDraft(r) \/ ConfirmDraft(r)
      PROVE  DraftIInv' /\ NothingLost
  BY <1>1, StartKeeps DEF CreateDraft, UpdateDraft, EvaluateDraft, ConfirmDraft
<1>2. ASSUME NEW r \in Requests,
             \/ ReadDraft(r) \/ ReadConfirmed(r) \/ EnsureOriginal(r) \/ SaveOriginal(r)
             \/ SupersedeCandidate(r) \/ RewriteCandidate(r)
      PROVE  DraftIInv' /\ NothingLost
  BY <1>2, ReadDraftKeeps, ReadConfirmedKeeps, EnsureOriginalKeeps, SaveOriginalKeeps,
     SupersedeCandidateKeeps, RewriteCandidateKeeps
<1>3. ASSUME NEW r \in Requests,
             \/ TakeNumber(r) \/ SaveCandidate(r) \/ FetchCandidate(r) \/ SelectConfirmed(r)
             \/ ConfirmVersion(r)
      PROVE  DraftIInv' /\ NothingLost
  BY <1>3, TakeNumberKeeps, SaveCandidateKeeps, FetchCandidateKeeps, SelectConfirmedKeeps,
     ConfirmVersionKeeps
<1>4. ASSUME NEW r \in Requests, SaveState(r) \/ SaveDraft(r) \/ Die(r)
      PROVE  DraftIInv' /\ NothingLost
  BY <1>4, SaveStateKeeps, SaveDraftKeeps, DieKeeps
<1>5. CASE UNCHANGED draftVars
  <2>1. /\ backend' = backend /\ versions' = versions /\ drafts' = drafts /\ plan' = plan
        /\ request' = request /\ issued' = issued /\ deaths' = deaths /\ raced' = raced
        /\ behind' = behind
    BY <1>5 DEF draftVars
  <2>2. Clean' = Clean /\ NamesOK' = NamesOK /\ KeepsAConfirmed' = KeepsAConfirmed
        /\ SessionOK' = SessionOK /\ SingleOK' = SingleOK
    BY <2>1 DEF Clean, NamesOK, KeepsAConfirmed, SessionOK, SingleOK, Confirmed, Confirming, At, Shows
  <2>3. Confirmed' = Confirmed
    BY <2>1 DEF Confirmed
  <2>4. NothingLost
    BY <2>1, <2>3, EvolvesSelf DEF NothingLost, BasesKept
  <2> QED
    BY <2>1, <2>2, <2>4 DEF DraftIInv
<1> QED
  BY <1>1, <1>2, <1>3, <1>4, <1>5 DEF DraftNext

LEMMA DraftIInvImplies == DraftIInv => DraftInv
<1> SUFFICES ASSUME DraftIInv PROVE DraftInv
  OBVIOUS
<1>1. /\ VersionsOK(versions, Clean) /\ drafts \in [Drafts -> DraftRows] /\ plan \in Plans
      /\ raced \subseteq {"number", "rewrite", "confirm"} /\ behind \in BOOLEAN
      /\ \A d \in Drafts : DraftOK(drafts[d], versions, Clean)
  BY DEF DraftIInv
<1>2. DraftTypeOK
  BY <1>1, RequestFields DEF DraftTypeOK, VersionsOK, DraftRows
<1>3. OneConfirmed
  <2> SUFFICES ASSUME Clean, backend = "sqlite" => "confirm" \notin raced
               PROVE  Cardinality(Confirmed) <= 1
    BY DEF OneConfirmed, Clean
  <2>1. \A v, w \in Confirmed : v = w
    BY DEF DraftIInv, SingleOK
  <2>2. CASE Confirmed = {}
    BY <2>2, FS_EmptySet
  <2>3. CASE Confirmed # {}
    <3>1. PICK v : v \in Confirmed
      BY <2>3
    <3>2. Confirmed = {v}
      BY <2>1, <3>1
    <3> QED
      BY <3>2, FS_Singleton
  <2> QED
    BY <2>2, <2>3
<1>4. SessionShowsConfirmed /\ KeepsAConfirmed
  BY DEF DraftIInv, SessionOK, SessionShowsConfirmed, Clean
<1>5. EvaluatedIsItsCandidate
  BY <1>1 DEF DraftOK, Offers, EvaluatedIsItsCandidate, ByKey, Clean
<1> QED
  BY <1>2, <1>3, <1>4, <1>5 DEF DraftInv

\* For any number of drafts, request threads, requests and deaths, and for both
\* stores: one version is confirmed, the session shows its plan, and an evaluated
\* draft carries the plan of its candidate, each part up to the races it names.
THEOREM DraftInvariant == DraftSpec => []DraftInv
<1>1. DraftIInv /\ [DraftNext]_draftVars => DraftIInv'
  BY DraftNextInv
<1> QED
  BY <1>1, DraftInitInv, DraftIInvImplies, PTL DEF DraftSpec

LEMMA StepLosesNothing ==
    ASSUME DraftIInv, [DraftNext]_draftVars
    PROVE  /\ \A v \in Confirmed : "number" \in raced' \/ \E w \in versions' :
                  w.number = v.number /\ w.plan = v.plan /\ w.status # "candidate"
           /\ \A v \in Confirmed' : (v \notin Confirmed /\ raced' = {}) =>
                  v.base = 0 \/ \E w \in Confirmed : w.number = v.base
<1>1. NothingLost
  BY DraftNextInv
<1>2. ASSUME NEW v \in Confirmed, "number" \notin raced'
      PROVE  \E w \in versions' : w.number = v.number /\ w.plan = v.plan /\ w.status # "candidate"
  <2>1. v \in versions /\ v.status # "candidate" /\ Clean'
    BY <1>2 DEF Confirmed, Clean
  <2> QED
    BY <1>1, <2>1 DEF NothingLost, Evolves, Continues
<1> QED
  BY <1>1, <1>2 DEF NothingLost, BasesKept

\* No step of any request takes a confirmed version away from its number, and a
\* version is only confirmed in the place of the one its draft was made from,
\* unless two requests took one number or two confirmations overlapped.
THEOREM ConfirmedIsNeverLost == DraftSpec => NothingConfirmedIsLost
<1>1. DraftIInv /\ [DraftNext]_draftVars => DraftIInv'
  BY DraftNextInv
<1>2. DraftIInv /\ [DraftNext]_draftVars =>
          [\A v \in Confirmed : "number" \in raced' \/ \E w \in versions' :
              w.number = v.number /\ w.plan = v.plan /\ w.status # "candidate"]_draftVars
  BY StepLosesNothing
<1>3. DraftIInv /\ [DraftNext]_draftVars =>
          [\A v \in Confirmed' : (v \notin Confirmed /\ raced' = {}) =>
              v.base = 0 \/ \E w \in Confirmed : w.number = v.base]_draftVars
  BY StepLosesNothing
<1>4. DraftSpec => KeptUnlessNumberTaken
  BY <1>1, <1>2, DraftInitInv, PTL DEF DraftSpec, KeptUnlessNumberTaken
<1>5. DraftSpec => ReplacesItsBase
  BY <1>1, <1>3, DraftInitInv, PTL DEF DraftSpec, ReplacesItsBase
<1> QED
  BY <1>4, <1>5, PTL DEF NothingConfirmedIsLost

-----------------------------------------------------------------------------
(* The data migration.                                                     *)

----------------------------------------------------------------------------
(* The inductive invariant.                                                *)

RowStates == {"none", "source", "other"}

BatchRecords == [status : Statuses, records : SUBSET SourceRows, rolled : Nat,
                 ranDirty : BOOLEAN, checkDirty : BOOLEAN]

Works == [cmd : {"none", "execute", "rollback"}, batch : {0} \cup Batches,
          row : 0..(RowCount + 1), differ : 0..RowCount]

Checks == [cmd : {"none", "verify"}, batch : {0} \cup Batches,
           row : 1..(RowCount + 1), differ : 0..RowCount, dirty : BOOLEAN]

\* Types, and the positions of the two scans: a scan has found no more
\* differences than the rows it has passed.
ScanTypes ==
    /\ target \in [SourceRows -> RowStates] /\ original \in [SourceRows -> RowStates]
    /\ batch \in [Batches -> BatchRecords]
    /\ spent \in [stops : Nat, writes : Nat, commands : Nat]
    /\ writer \in Works
    /\ writer.cmd # "none" => writer.batch \in Batches
    /\ writer.cmd = "execute" => writer.row > 0 /\ writer.differ < writer.row
    /\ writer.cmd = "rollback" => writer.row + writer.differ <= RowCount
    /\ verifier \in Checks
    /\ verifier.cmd = "verify" => verifier.batch \in Batches /\ verifier.differ < verifier.row

\* The rows an execution has passed are there, unless it counted a conflict or
\* somebody else wrote.
ExecutedRows ==
    (writer.cmd = "execute" /\ writer.differ = 0 /\ ~batch[writer.batch].ranDirty) =>
        \A k \in SourceRows : k < writer.row => target[k] = "source"

VerifiedRows ==
    (verifier.cmd = "verify" /\ verifier.differ = 0 /\ ~verifier.dirty) =>
        \A k \in SourceRows : k < verifier.row => target[k] = "source"

\* The rows a rollback has passed and its batch has a record of are gone, unless
\* they are not the source's any more.
RolledRows ==
    writer.cmd = "rollback" =>
        \A k \in batch[writer.batch].records : k > writer.row => target[k] # "source"

ExecutesUnrolled ==
    writer.cmd = "execute" => batch[writer.batch].status \notin {"none", "rolled_back"}

UnstartedIsEmpty == \A b \in Batches : ~Started(b) => batch[b].records = {}

\* As long as the service has written nothing: only rows that were missing are
\* recorded, and a row that differs from the first target is a source row
\* recorded by a batch that is not rolled back.
OnlyRecordedDiffer ==
    spent.writes = 0 =>
        /\ \A b \in Batches : \A k \in batch[b].records : original[k] = "none"
        /\ \A k \in SourceRows :
              \/ target[k] = original[k]
              \/ /\ target[k] = "source" /\ original[k] = "none"
                 /\ \E b \in Batches : k \in batch[b].records /\ batch[b].status # "rolled_back"

MigrationIInv ==
    /\ ScanTypes /\ CompletedIsComplete /\ VerifiedIsTrue
    /\ ExecutedRows /\ VerifiedRows /\ RolledRows
    /\ ExecutesUnrolled /\ UnstartedIsEmpty /\ OnlyRecordedDiffer

----------------------------------------------------------------------------
(* What the steps have in common.                                          *)

LEMMA CountsArePositive == RowCount \in Nat /\ RowCount > 0 /\ MaxBatches \in Nat
BY MigrationAssumption

LEMMA NoWorkType == NoWork \in Works /\ NoWork.cmd = "none"
BY CountsArePositive DEF NoWork, Works

LEMMA NoCheckType == NoCheck \in Checks /\ NoCheck.cmd = "none"
BY CountsArePositive DEF NoCheck, Checks

LEMMA SpendEffect ==
    ASSUME ScanTypes, NEW what \in {"stops", "writes", "commands"}, NEW limit, Spend(what, limit)
    PROVE  /\ spent' \in [stops : Nat, writes : Nat, commands : Nat]
           /\ spent'.writes = IF what = "writes" THEN spent.writes + 1 ELSE spent.writes
BY DEF ScanTypes, Spend

\* A step that leaves the target, the records and the rolled-back batches alone.
\* The statuses it writes are not claims about the target.
LEMMA StatusStep ==
    ASSUME MigrationIInv, NEW b \in Batches, NEW new \in BatchRecords,
           batch' = [batch EXCEPT ![b] = new],
           new.records = batch[b].records,
           new.status \notin {"none", "completed", "verified", "rolled_back"},
           UNCHANGED <<target, original>>, spent'.writes = spent.writes
    PROVE  /\ batch' \in [Batches -> BatchRecords]
           /\ CompletedIsComplete' /\ VerifiedIsTrue' /\ UnstartedIsEmpty' /\ OnlyRecordedDiffer'
<1>0. batch \in [Batches -> BatchRecords]
  BY DEF MigrationIInv, ScanTypes
<1>1. batch' \in [Batches -> BatchRecords]
  BY <1>0
<1>2. /\ batch'[b] = new /\ \A c \in Batches : c # b => batch'[c] = batch[c]
      /\ \A c \in Batches : batch'[c].records = batch[c].records
  BY <1>0
<1>3. CompletedIsComplete' /\ VerifiedIsTrue' /\ UnstartedIsEmpty'
  BY <1>2 DEF MigrationIInv, CompletedIsComplete, VerifiedIsTrue, UnstartedIsEmpty, AllThere, Started
<1>4. OnlyRecordedDiffer'
  BY <1>2 DEF MigrationIInv, OnlyRecordedDiffer
<1> QED
  BY <1>1, <1>3, <1>4

\* A step that leaves the batches and the target alone.
LEMMA ScanStep ==
    ASSUME MigrationIInv, UNCHANGED <<target, original, batch>>, spent'.writes = spent.writes
    PROVE  /\ CompletedIsComplete' /\ VerifiedIsTrue' /\ UnstartedIsEmpty' /\ OnlyRecordedDiffer'
BY DEF MigrationIInv, CompletedIsComplete, VerifiedIsTrue, UnstartedIsEmpty, AllThere, Started,
       OnlyRecordedDiffer

----------------------------------------------------------------------------
(* execute.                                                                *)

LEMMA BeginExecuteInv ==
    ASSUME MigrationIInv, NEW b \in Batches, BeginBatch(b) \/ ResumeBatch(b)
    PROVE  MigrationIInv'
<1> DEFINE new == batch'[b]
<1>0. /\ batch \in [Batches -> BatchRecords] /\ writer \in Works /\ verifier \in Checks
      /\ ScanTypes
  BY DEF MigrationIInv, ScanTypes
<1>1. /\ new \in BatchRecords /\ new.records = batch[b].records /\ new.status = "running"
      /\ batch' = [batch EXCEPT ![b] = new]
  <2>1. CASE BeginBatch(b)
    <3>1. batch[b].records = {}
      BY <2>1 DEF BeginBatch, MigrationIInv, UnstartedIsEmpty
    <3>2. batch' = [batch EXCEPT ![b] = [NoBatch EXCEPT !.status = "running"]]
      BY <2>1 DEF BeginBatch
    <3> QED
      BY <1>0, <3>1, <3>2 DEF NoBatch, BatchRecords, Statuses
  <2>2. CASE ResumeBatch(b)
    <3>1. batch' = [batch EXCEPT ![b].status = "running", ![b].ranDirty = FALSE]
      BY <2>2 DEF ResumeBatch
    <3> QED
      BY <1>0, <3>1 DEF BatchRecords, Statuses
  <2> QED
    BY <2>1, <2>2
<1>2. /\ writer' = [NoWork EXCEPT !.cmd = "execute", !.batch = b]
      /\ UNCHANGED <<target, original, verifier>>
      /\ spent' \in [stops : Nat, writes : Nat, commands : Nat] /\ spent'.writes = spent.writes
  <2>1. CASE BeginBatch(b)
    BY <2>1, <1>0 DEF BeginBatch, ScanTypes
  <2>2. CASE ResumeBatch(b)
    BY <2>2, <1>0, SpendEffect DEF ResumeBatch
  <2> QED
    BY <2>1, <2>2
<1> HIDE DEF new
<1>3. /\ batch' \in [Batches -> BatchRecords]
      /\ CompletedIsComplete' /\ VerifiedIsTrue' /\ UnstartedIsEmpty' /\ OnlyRecordedDiffer'
  BY <1>1, <1>2, StatusStep
<1>4. /\ writer' \in Works /\ writer'.cmd = "execute" /\ writer'.batch = b /\ writer'.row = 1
      /\ writer'.differ = 0
  BY <1>2, NoWorkType DEF NoWork, Works
<1>5. ScanTypes'
  BY <1>0, <1>2, <1>3, <1>4 DEF ScanTypes
<1>6. ExecutedRows' /\ RolledRows' /\ ExecutesUnrolled'
  BY <1>1, <1>4 DEF ExecutedRows, RolledRows, ExecutesUnrolled, SourceRows, new
<1>7. VerifiedRows'
  BY <1>2 DEF MigrationIInv, VerifiedRows
<1> QED
  BY <1>3, <1>5, <1>6, <1>7 DEF MigrationIInv

\* A row that was missing is inserted and recorded.
LEMMA InsertRowInv ==
    ASSUME MigrationIInv, NEW k, k = writer.row, NEW b, b = writer.batch,
           writer.cmd = "execute", k <= RowCount,
           k \notin batch[b].records, target[k] = "none",
           target' = [target EXCEPT ![k] = "source"],
           batch' = [batch EXCEPT ![b].records = RecordsWith(b, k)],
           writer' = [writer EXCEPT !.row = @ + 1],
           UNCHANGED <<original, verifier, spent>>
    PROVE  MigrationIInv'
<1>0. /\ batch \in [Batches -> BatchRecords] /\ writer \in Works /\ b \in Batches
      /\ target \in [SourceRows -> RowStates] /\ original \in [SourceRows -> RowStates]
      /\ k \in SourceRows /\ k > 0 /\ writer.differ < k
  BY CountsArePositive DEF MigrationIInv, ScanTypes, Works, SourceRows
<1>1. /\ target' \in [SourceRows -> RowStates] /\ target'[k] = "source"
      /\ \A j \in SourceRows : j # k => target'[j] = target[j]
      /\ \A j \in SourceRows : target[j] = "source" => target'[j] = "source"
  BY <1>0 DEF RowStates
<1>2. /\ batch' \in [Batches -> BatchRecords]
      /\ batch'[b] = [batch[b] EXCEPT !.records = batch[b].records \cup {k}]
      /\ \A c \in Batches : c # b => batch'[c] = batch[c]
  BY <1>0 DEF RecordsWith, BatchRecords
<1>3. /\ \A c \in Batches : /\ batch'[c].status = batch[c].status
                            /\ batch'[c].ranDirty = batch[c].ranDirty
                            /\ batch'[c].checkDirty = batch[c].checkDirty
                            /\ batch[c].records \subseteq batch'[c].records
      /\ batch'[b].records = batch[b].records \cup {k}
  BY <1>0, <1>2 DEF BatchRecords
<1>4. /\ writer' \in Works /\ writer'.cmd = "execute" /\ writer'.batch = b
      /\ writer'.row = k + 1 /\ writer'.differ = writer.differ
  BY <1>0, CountsArePositive DEF Works
<1>5. ScanTypes'
  BY <1>0, <1>1, <1>2, <1>4 DEF MigrationIInv, ScanTypes, Works, SourceRows
<1>6. CompletedIsComplete' /\ VerifiedIsTrue'
  BY <1>1, <1>3 DEF MigrationIInv, CompletedIsComplete, VerifiedIsTrue, AllThere
<1>7. ExecutedRows'
  BY <1>0, <1>1, <1>3, <1>4, CountsArePositive DEF MigrationIInv, ExecutedRows, SourceRows
<1>8. VerifiedRows'
  BY <1>1 DEF MigrationIInv, VerifiedRows
<1>9. RolledRows' /\ ExecutesUnrolled'
  BY <1>0, <1>3, <1>4 DEF MigrationIInv, RolledRows, ExecutesUnrolled
<1>10. UnstartedIsEmpty'
  BY <1>0, <1>2, <1>3 DEF MigrationIInv, UnstartedIsEmpty, Started, ExecutesUnrolled
<1>11. OnlyRecordedDiffer'
  <2>1. SUFFICES ASSUME spent.writes = 0
                 PROVE  /\ \A c \in Batches : \A j \in batch'[c].records : original[j] = "none"
                        /\ \A j \in SourceRows :
                              \/ target'[j] = original[j]
                              \/ /\ target'[j] = "source" /\ original[j] = "none"
                                 /\ \E c \in Batches : j \in batch'[c].records /\ batch'[c].status # "rolled_back"
    BY DEF OnlyRecordedDiffer
  <2>2. original[k] = "none"
    BY <2>1, <1>0 DEF MigrationIInv, OnlyRecordedDiffer
  <2>3. \A c \in Batches : \A j \in batch'[c].records : original[j] = "none"
    BY <2>1, <2>2, <1>2, <1>3 DEF MigrationIInv, OnlyRecordedDiffer
  <2>4. k \in batch'[b].records /\ batch'[b].status # "rolled_back"
    BY <1>0, <1>3 DEF MigrationIInv, ExecutesUnrolled
  <2>5. ASSUME NEW j \in SourceRows, j # k, target'[j] # original[j]
        PROVE  /\ target'[j] = "source" /\ original[j] = "none"
               /\ \E c \in Batches : j \in batch'[c].records /\ batch'[c].status # "rolled_back"
    <3>1. /\ target[j] = "source" /\ original[j] = "none" /\ target'[j] = target[j]
          /\ \E c \in Batches : j \in batch[c].records /\ batch[c].status # "rolled_back"
      BY <2>1, <2>5, <1>1 DEF MigrationIInv, OnlyRecordedDiffer
    <3> QED
      BY <3>1, <1>3
  <2> QED
    BY <2>2, <2>3, <2>4, <2>5, <1>0, <1>1
<1> QED
  BY <1>5, <1>6, <1>7, <1>8, <1>9, <1>10, <1>11 DEF MigrationIInv

\* The writer gives the lock back, with a status that claims nothing or with the
\* batch as it was.
LEMMA WriterLeavesInv ==
    ASSUME MigrationIInv, writer' = NoWork, UNCHANGED <<target, original, verifier>>,
           spent' \in [stops : Nat, writes : Nat, commands : Nat], spent'.writes = spent.writes,
           UNCHANGED batch \/ \E b \in Batches, status \in {"failed", "completed_with_conflicts"} :
                                  batch' = Finished(b, status)
    PROVE  MigrationIInv'
<1>0. ScanTypes /\ batch \in [Batches -> BatchRecords]
  BY DEF MigrationIInv, ScanTypes
<1>1. /\ batch' \in [Batches -> BatchRecords]
      /\ CompletedIsComplete' /\ VerifiedIsTrue' /\ UnstartedIsEmpty' /\ OnlyRecordedDiffer'
  <2>1. CASE UNCHANGED batch
    BY <2>1, <1>0, ScanStep
  <2>2. ASSUME NEW b \in Batches, NEW status \in {"failed", "completed_with_conflicts"},
               batch' = Finished(b, status)
        PROVE  /\ batch' \in [Batches -> BatchRecords]
               /\ CompletedIsComplete' /\ VerifiedIsTrue' /\ UnstartedIsEmpty' /\ OnlyRecordedDiffer'
    <3> DEFINE new == [batch[b] EXCEPT !.status = status]
    <3>1. /\ new \in BatchRecords /\ new.records = batch[b].records /\ new.status = status
          /\ batch' = [batch EXCEPT ![b] = new]
      BY <2>2, <1>0 DEF Finished, BatchRecords, Statuses
    <3> QED
      BY <3>1, <2>2, StatusStep
  <2> QED
    BY <2>1, <2>2
<1>2. ScanTypes'
  BY <1>0, <1>1, NoWorkType DEF ScanTypes
<1>3. ExecutedRows' /\ RolledRows' /\ ExecutesUnrolled'
  BY NoWorkType DEF ExecutedRows, RolledRows, ExecutesUnrolled
<1>4. VerifiedRows'
  BY DEF MigrationIInv, VerifiedRows
<1> QED
  BY <1>1, <1>2, <1>3, <1>4 DEF MigrationIInv

LEMMA MigrateRowInv ==
    ASSUME MigrationIInv, MigrateRow
    PROVE  MigrationIInv'
<1> DEFINE b == writer.batch
           k == writer.row
<1>0. /\ writer.cmd = "execute" /\ k <= RowCount /\ UNCHANGED <<original, verifier, spent>>
      /\ writer \in Works /\ b \in Batches /\ k \in SourceRows /\ k > 0 /\ writer.differ < k
      /\ target \in [SourceRows -> RowStates] /\ ScanTypes
  BY CountsArePositive DEF MigrateRow, MigrationIInv, ScanTypes, Works, SourceRows
<1>1. CASE k \notin batch[b].records /\ target[k] = "none"
  BY <1>0, <1>1, InsertRowInv DEF MigrateRow
<1>2. CASE k \in batch[b].records /\ ~RecordHolds(k)
  <2>1. batch' = Finished(b, "failed") /\ writer' = NoWork /\ UNCHANGED target
    BY <1>2 DEF MigrateRow
  <2>2. spent' \in [stops : Nat, writes : Nat, commands : Nat]
    BY <1>0 DEF ScanTypes
  <2> QED
    BY <2>1, <2>2, <1>0, WriterLeavesInv
<1>3. CASE \/ k \in batch[b].records /\ RecordHolds(k)
           \/ k \notin batch[b].records /\ target[k] # "none"
  <2> DEFINE d == IF target[k] = "other" THEN 1 ELSE 0
  <2>1. /\ UNCHANGED <<target, batch>>
        /\ \/ writer' = [writer EXCEPT !.row = @ + 1] /\ d = 0
           \/ writer' = [writer EXCEPT !.row = @ + 1, !.differ = @ + d]
    BY <1>0, <1>3 DEF MigrateRow, RecordHolds
  <2>2. target[k] = "source" \/ (target[k] = "other" /\ d = 1)
    BY <1>0, <1>3 DEF RecordHolds, RowStates
  <2>3. d \in {0, 1} /\ writer.differ \in 0..RowCount
    BY <1>0 DEF Works
  <2> HIDE DEF d
  <2>4. /\ writer' \in Works /\ writer'.cmd = "execute" /\ writer'.batch = b
        /\ writer'.row = k + 1 /\ writer'.differ = writer.differ + d
        /\ writer'.differ < writer'.row
    <3>1. k + 1 \in 0..(RowCount + 1) /\ writer.differ + d \in 0..RowCount /\ writer.differ + d < k + 1
      BY <1>0, <2>3, CountsArePositive DEF SourceRows
    <3>2. CASE writer' = [writer EXCEPT !.row = @ + 1] /\ d = 0
      BY <3>1, <3>2, <1>0, <2>3, CountsArePositive DEF Works
    <3>3. CASE writer' = [writer EXCEPT !.row = @ + 1, !.differ = @ + d]
      BY <3>1, <3>3, <1>0 DEF Works
    <3> QED
      BY <2>1, <3>2, <3>3
  <2>5. ScanTypes'
    BY <1>0, <2>1, <2>4, CountsArePositive DEF ScanTypes, SourceRows
  <2>6. ExecutedRows'
    BY <1>0, <2>1, <2>2, <2>3, <2>4, CountsArePositive DEF MigrationIInv, ExecutedRows, SourceRows, Works
  <2>7. VerifiedRows' /\ RolledRows' /\ ExecutesUnrolled'
    BY <1>0, <2>1, <2>4 DEF MigrationIInv, VerifiedRows, RolledRows, ExecutesUnrolled
  <2>8. CompletedIsComplete' /\ VerifiedIsTrue' /\ UnstartedIsEmpty' /\ OnlyRecordedDiffer'
    BY <1>0, <2>1, ScanStep
  <2> QED
    BY <2>5, <2>6, <2>7, <2>8 DEF MigrationIInv
<1> QED
  BY <1>1, <1>2, <1>3

\* A batch that ends without conflicts is completed: its scan passed every row.
LEMMA FinishExecuteInv ==
    ASSUME MigrationIInv, FinishExecute
    PROVE  MigrationIInv'
<1> DEFINE b == writer.batch
<1>0. /\ writer.cmd = "execute" /\ writer.row > RowCount /\ writer' = NoWork
      /\ UNCHANGED <<target, original, verifier, spent>>
      /\ writer \in Works /\ b \in Batches /\ ScanTypes /\ batch \in [Batches -> BatchRecords]
  BY DEF FinishExecute, MigrationIInv, ScanTypes
<1>1. spent' \in [stops : Nat, writes : Nat, commands : Nat]
  BY <1>0 DEF ScanTypes
<1>2. CASE \E status \in {"failed", "completed_with_conflicts"} : batch' = Finished(b, status)
  BY <1>0, <1>1, <1>2, WriterLeavesInv
<1>3. CASE writer.differ = 0 /\ batch' = Finished(b, "completed")
  <2>1. /\ batch' \in [Batches -> BatchRecords] /\ batch'[b] = [batch[b] EXCEPT !.status = "completed"]
        /\ \A c \in Batches : c # b => batch'[c] = batch[c]
    BY <1>0, <1>3 DEF Finished, BatchRecords, Statuses
  <2>2. /\ batch'[b].status = "completed" /\ batch'[b].ranDirty = batch[b].ranDirty
        /\ batch'[b].records = batch[b].records
    BY <1>0, <2>1 DEF BatchRecords
  <2>3. ~batch[b].ranDirty => AllThere
    BY <1>0, <1>3, CountsArePositive DEF MigrationIInv, ExecutedRows, AllThere, SourceRows, Works
  <2>4. CompletedIsComplete' /\ VerifiedIsTrue'
    BY <1>0, <2>1, <2>2, <2>3 DEF MigrationIInv, CompletedIsComplete, VerifiedIsTrue, AllThere
  <2>5. \A c \in Batches : /\ batch'[c].records = batch[c].records
                           /\ batch[c].status # "rolled_back" => batch'[c].status # "rolled_back"
    BY <2>1, <2>2
  <2>6. UnstartedIsEmpty' /\ OnlyRecordedDiffer'
    <3>1. UnstartedIsEmpty'
      BY <2>1, <2>2 DEF MigrationIInv, UnstartedIsEmpty, Started
    <3>2. OnlyRecordedDiffer'
      BY <1>0, <2>5 DEF MigrationIInv, OnlyRecordedDiffer
    <3> QED
      BY <3>1, <3>2
  <2>7. ScanTypes'
    BY <1>0, <2>1, NoWorkType DEF ScanTypes
  <2>8. ExecutedRows' /\ RolledRows' /\ ExecutesUnrolled' /\ VerifiedRows'
    BY <1>0, NoWorkType DEF MigrationIInv, ExecutedRows, RolledRows, ExecutesUnrolled, VerifiedRows
  <2> QED
    BY <2>4, <2>6, <2>7, <2>8 DEF MigrationIInv
<1> QED
  BY <1>2, <1>3 DEF FinishExecute

----------------------------------------------------------------------------
(* rollback, and what the service writes.                                  *)

\* After a write of others no batch and no verification is expected to know the
\* target.
LEMMA DirtiedEffect ==
    ASSUME MigrationIInv, Dirtied
    PROVE  /\ batch' \in [Batches -> BatchRecords]
           /\ \A b \in Batches : /\ batch'[b].status = batch[b].status
                                 /\ batch'[b].records = batch[b].records
                                 /\ batch'[b].ranDirty /\ batch'[b].checkDirty
           /\ verifier' \in Checks /\ verifier'.cmd = verifier.cmd /\ verifier'.batch = verifier.batch
           /\ verifier'.row = verifier.row /\ verifier'.differ = verifier.differ
           /\ CompletedIsComplete' /\ VerifiedIsTrue' /\ VerifiedRows' /\ UnstartedIsEmpty'
<1>0. batch \in [Batches -> BatchRecords] /\ verifier \in Checks
  BY DEF MigrationIInv, ScanTypes
<1>1. batch' = [b \in Batches |-> [batch[b] EXCEPT !.ranDirty = TRUE, !.checkDirty = TRUE]]
  BY DEF Dirtied
<1>2. ASSUME NEW b \in Batches
      PROVE  /\ batch'[b] \in BatchRecords /\ batch'[b].status = batch[b].status
             /\ batch'[b].records = batch[b].records
             /\ batch'[b].ranDirty = TRUE /\ batch'[b].checkDirty = TRUE
  <2>1. batch[b] \in BatchRecords /\ batch'[b] = [batch[b] EXCEPT !.ranDirty = TRUE, !.checkDirty = TRUE]
    BY <1>0, <1>1
  <2> QED
    BY <2>1 DEF BatchRecords
<1>3. batch' \in [Batches -> BatchRecords]
  BY <1>1, <1>2
<1>4. /\ verifier' \in Checks /\ verifier'.cmd = verifier.cmd /\ verifier'.batch = verifier.batch
      /\ verifier'.row = verifier.row /\ verifier'.differ = verifier.differ /\ verifier'.dirty = TRUE
  BY <1>0 DEF Dirtied, Checks
<1>5. CompletedIsComplete' /\ VerifiedIsTrue' /\ VerifiedRows'
  BY <1>2, <1>4 DEF CompletedIsComplete, VerifiedIsTrue, VerifiedRows
<1>6. UnstartedIsEmpty'
  BY <1>2 DEF MigrationIInv, UnstartedIsEmpty, Started
<1> QED
  BY <1>2, <1>3, <1>4, <1>5, <1>6

LEMMA ServiceWritesInv ==
    ASSUME MigrationIInv, NEW k \in SourceRows, ServiceWrites(k)
    PROVE  MigrationIInv'
<1>0. ScanTypes /\ target \in [SourceRows -> RowStates] /\ UNCHANGED <<original, writer>>
  BY DEF MigrationIInv, ScanTypes, ServiceWrites
<1>1. /\ spent' \in [stops : Nat, writes : Nat, commands : Nat] /\ spent'.writes # 0
  BY <1>0, SpendEffect DEF ServiceWrites, ScanTypes
<1>2. /\ target' \in [SourceRows -> RowStates]
      /\ \A j \in SourceRows : target'[j] = "source" => target[j] = "source"
  BY <1>0 DEF ServiceWrites, RowStates
<1>3. /\ batch' \in [Batches -> BatchRecords]
      /\ \A b \in Batches : /\ batch'[b].status = batch[b].status
                            /\ batch'[b].records = batch[b].records
                            /\ batch'[b].ranDirty /\ batch'[b].checkDirty
      /\ verifier' \in Checks /\ verifier'.cmd = verifier.cmd /\ verifier'.batch = verifier.batch
      /\ verifier'.row = verifier.row /\ verifier'.differ = verifier.differ
      /\ CompletedIsComplete' /\ VerifiedIsTrue' /\ VerifiedRows' /\ UnstartedIsEmpty'
  BY DirtiedEffect DEF ServiceWrites
<1>4. ScanTypes'
  BY <1>0, <1>1, <1>2, <1>3 DEF ScanTypes
<1>5. ExecutedRows' /\ RolledRows' /\ ExecutesUnrolled'
  <2>1. writer.cmd # "none" => writer.batch \in Batches
    BY <1>0 DEF ScanTypes
  <2>2. ExecutedRows'
    BY <2>1, <1>0, <1>3 DEF ExecutedRows
  <2>3. RolledRows'
    <3>1. \A b \in Batches : batch[b].records \subseteq SourceRows
      BY <1>0 DEF ScanTypes, BatchRecords
    <3> QED
      BY <3>1, <2>1, <1>0, <1>2, <1>3 DEF MigrationIInv, RolledRows
  <2>4. ExecutesUnrolled'
    BY <2>1, <1>0, <1>3 DEF MigrationIInv, ExecutesUnrolled
  <2> QED
    BY <2>2, <2>3, <2>4
<1>6. OnlyRecordedDiffer'
  BY <1>1 DEF OnlyRecordedDiffer
<1> QED
  BY <1>3, <1>4, <1>5, <1>6 DEF MigrationIInv

LEMMA BeginRollbackInv ==
    ASSUME MigrationIInv, NEW b \in Batches, BeginRollback(b)
    PROVE  MigrationIInv'
<1>0. ScanTypes /\ UNCHANGED <<target, original, batch, verifier>>
  BY DEF MigrationIInv, BeginRollback
<1>1. spent' \in [stops : Nat, writes : Nat, commands : Nat] /\ spent'.writes = spent.writes
  BY <1>0, SpendEffect DEF BeginRollback
<1>2. /\ writer' \in Works /\ writer'.cmd = "rollback" /\ writer'.batch = b
      /\ writer'.row = RowCount /\ writer'.differ = 0
  BY CountsArePositive DEF BeginRollback, Works
<1>3. ScanTypes'
  BY <1>0, <1>1, <1>2, CountsArePositive DEF ScanTypes
<1>4. RolledRows'
  <2>1. batch[b].records \subseteq SourceRows
    BY <1>0 DEF ScanTypes, BatchRecords
  <2> QED
    BY <2>1, <1>0, <1>2, CountsArePositive DEF RolledRows, SourceRows
<1>5. ExecutedRows' /\ ExecutesUnrolled' /\ VerifiedRows'
  BY <1>0, <1>2 DEF MigrationIInv, ExecutedRows, ExecutesUnrolled, VerifiedRows
<1> QED
  BY <1>0, <1>1, <1>3, <1>4, <1>5, ScanStep DEF MigrationIInv

LEMMA RollbackRowInv ==
    ASSUME MigrationIInv, RollbackRow
    PROVE  MigrationIInv'
<1> DEFINE b == writer.batch
           k == writer.row
<1>0. /\ ScanTypes /\ writer.cmd = "rollback" /\ writer \in Works /\ b \in Batches
      /\ k \in SourceRows /\ writer.differ \in 0..RowCount /\ k + writer.differ <= RowCount
      /\ target \in [SourceRows -> RowStates] /\ original \in [SourceRows -> RowStates]
      /\ batch \in [Batches -> BatchRecords] /\ UNCHANGED <<original, spent>>
  BY CountsArePositive DEF MigrationIInv, ScanTypes, RollbackRow, RecordsLeft, Works, SourceRows
<1>1. \A c \in Batches : batch[c].records \subseteq SourceRows
  BY <1>0 DEF BatchRecords
<1>2. CASE k \in batch[b].records /\ RollbackDeletes(k)
  <2>1. /\ target' = [target EXCEPT ![k] = "none"] /\ Dirtied
        /\ writer' = [writer EXCEPT !.row = @ - 1] /\ target[k] = "source"
    BY <1>2 DEF RollbackRow, RollbackDeletes
  <2>2. /\ target' \in [SourceRows -> RowStates] /\ target'[k] = "none"
        /\ \A j \in SourceRows : j # k => target'[j] = target[j]
    BY <1>0, <2>1 DEF RowStates
  <2>3. /\ batch' \in [Batches -> BatchRecords]
        /\ \A c \in Batches : /\ batch'[c].status = batch[c].status
                              /\ batch'[c].records = batch[c].records
                              /\ batch'[c].ranDirty /\ batch'[c].checkDirty
        /\ verifier' \in Checks /\ verifier'.cmd = verifier.cmd /\ verifier'.batch = verifier.batch
        /\ verifier'.row = verifier.row /\ verifier'.differ = verifier.differ
        /\ CompletedIsComplete' /\ VerifiedIsTrue' /\ VerifiedRows' /\ UnstartedIsEmpty'
    BY <2>1, DirtiedEffect
  <2>4. /\ writer' \in Works /\ writer'.cmd = "rollback" /\ writer'.batch = b
        /\ writer'.row = k - 1 /\ writer'.differ = writer.differ
    <3>1. k - 1 \in 0..(RowCount + 1)
      BY <1>0, CountsArePositive DEF SourceRows
    <3> QED
      BY <3>1, <1>0, <2>1 DEF Works
  <2>5. ScanTypes'
    BY <1>0, <2>2, <2>3, <2>4, CountsArePositive DEF ScanTypes, SourceRows
  <2>6. RolledRows'
    <3>1. \A j \in batch[b].records : j > k => target[j] # "source"
      BY <1>0 DEF MigrationIInv, RolledRows
    <3>2. ASSUME NEW j \in batch[b].records, j > k - 1 PROVE target'[j] # "source"
      <4>1. j \in SourceRows /\ j \in Int /\ k \in Int
        BY <1>0, <1>1 DEF SourceRows
      <4>2. CASE j = k
        BY <2>2, <4>2
      <4>3. CASE j # k
        <5>1. j > k
          BY <3>2, <4>1, <4>3
        <5> QED
          BY <2>2, <3>1, <4>1, <4>3, <5>1
      <4> QED
        BY <4>2, <4>3
    <3>3. batch'[writer'.batch].records = batch[b].records /\ writer'.row = k - 1
      BY <1>0, <2>3, <2>4
    <3> QED
      BY <3>2, <3>3 DEF RolledRows
  <2>7. ExecutedRows' /\ ExecutesUnrolled'
    BY <2>4 DEF ExecutedRows, ExecutesUnrolled
  <2>8. OnlyRecordedDiffer'
    <3>1. SUFFICES ASSUME spent.writes = 0
                   PROVE  /\ \A c \in Batches : \A j \in batch'[c].records : original[j] = "none"
                          /\ \A j \in SourceRows :
                                \/ target'[j] = original[j]
                                \/ /\ target'[j] = "source" /\ original[j] = "none"
                                   /\ \E c \in Batches : j \in batch'[c].records /\ batch'[c].status # "rolled_back"
      BY <1>0 DEF OnlyRecordedDiffer
    <3>2. \A c \in Batches : \A j \in batch'[c].records : original[j] = "none"
      BY <3>1, <2>3 DEF MigrationIInv, OnlyRecordedDiffer
    <3>3. target'[k] = original[k]
      BY <3>2, <2>2, <2>3, <1>0, <1>2
    <3>4. \A j \in SourceRows : j # k =>
             \/ target'[j] = original[j]
             \/ /\ target'[j] = "source" /\ original[j] = "none"
                /\ \E c \in Batches : j \in batch'[c].records /\ batch'[c].status # "rolled_back"
      BY <3>1, <2>2, <2>3 DEF MigrationIInv, OnlyRecordedDiffer
    <3> QED
      BY <3>2, <3>3, <3>4
  <2> QED
    BY <2>3, <2>5, <2>6, <2>7, <2>8 DEF MigrationIInv
<1>3. CASE k \notin batch[b].records \/ ~RollbackDeletes(k)
  <2> DEFINE d == IF k \in batch[b].records /\ target[k] = "other" THEN 1 ELSE 0
  <2>1. /\ writer' = [writer EXCEPT !.row = @ - 1, !.differ = @ + d]
        /\ UNCHANGED <<target, batch, verifier>>
    BY <1>3 DEF RollbackRow
  <2>2. d \in {0, 1}
    OBVIOUS
  <2> HIDE DEF d
  <2>3. /\ writer' \in Works /\ writer'.cmd = "rollback" /\ writer'.batch = b
        /\ writer'.row = k - 1 /\ writer'.differ = writer.differ + d
        /\ writer'.row + writer'.differ <= RowCount
    <3>1. k - 1 \in 0..(RowCount + 1) /\ writer.differ + d \in 0..RowCount
          /\ (k - 1) + (writer.differ + d) <= RowCount
      BY <1>0, <2>2, CountsArePositive DEF SourceRows
    <3> QED
      BY <3>1, <2>1, <1>0 DEF Works
  <2>4. ScanTypes'
    BY <1>0, <2>1, <2>3 DEF ScanTypes
  <2>5. RolledRows'
    <3>1. k \in batch[b].records => target[k] # "source"
      BY <1>3 DEF RollbackDeletes
    <3> QED
      BY <3>1, <1>0, <1>1, <2>1, <2>3, CountsArePositive DEF MigrationIInv, RolledRows, SourceRows
  <2>6. ExecutedRows' /\ ExecutesUnrolled' /\ VerifiedRows'
    BY <2>1, <2>3 DEF MigrationIInv, ExecutedRows, ExecutesUnrolled, VerifiedRows
  <2> QED
    BY <1>0, <2>1, <2>4, <2>5, <2>6, ScanStep DEF MigrationIInv
<1> QED
  BY <1>2, <1>3

\* A batch is rolled back once its records are gone from the target: what still
\* differs from the first target belongs to another batch.
LEMMA FinishRollbackInv ==
    ASSUME MigrationIInv, FinishRollback
    PROVE  MigrationIInv'
<1> DEFINE b == writer.batch
           status == IF writer.differ = 0 THEN "rolled_back" ELSE "rollback_partial"
           new == [batch[b] EXCEPT !.status = status, !.rolled = @ + 1]
<1>0. /\ ScanTypes /\ writer.cmd = "rollback" /\ writer.row = 0 /\ b \in Batches /\ writer' = NoWork
      /\ batch \in [Batches -> BatchRecords] /\ UNCHANGED <<target, original, verifier, spent>>
  BY DEF MigrationIInv, ScanTypes, FinishRollback
<1>1. status \in {"rolled_back", "rollback_partial"}
  OBVIOUS
<1>2. batch' = [batch EXCEPT ![b] = new]
  BY <1>0 DEF FinishRollback
<1> HIDE DEF status
<1>3. new \in BatchRecords /\ new.status = status /\ new.records = batch[b].records
  <2>1. batch[b] \in BatchRecords /\ status \in Statuses
    BY <1>0, <1>1 DEF Statuses
  <2>2. batch[b].rolled + 1 \in Nat
    BY <2>1 DEF BatchRecords
  <2> QED
    BY <2>1, <2>2 DEF BatchRecords
<1>4. /\ batch' \in [Batches -> BatchRecords] /\ batch'[b] = new
      /\ \A c \in Batches : c # b => batch'[c] = batch[c]
  BY <1>0, <1>2, <1>3
<1>5. \A c \in Batches : batch'[c].records = batch[c].records
  BY <1>3, <1>4
<1>6. CompletedIsComplete' /\ VerifiedIsTrue'
  BY <1>0, <1>1, <1>3, <1>4 DEF MigrationIInv, CompletedIsComplete, VerifiedIsTrue, AllThere
<1>7. UnstartedIsEmpty'
  BY <1>1, <1>3, <1>4 DEF MigrationIInv, UnstartedIsEmpty, Started
<1>8. ScanTypes'
  BY <1>0, <1>4, NoWorkType DEF ScanTypes
<1>9. ExecutedRows' /\ RolledRows' /\ ExecutesUnrolled' /\ VerifiedRows'
  BY <1>0, NoWorkType DEF MigrationIInv, ExecutedRows, RolledRows, ExecutesUnrolled, VerifiedRows
<1>10. OnlyRecordedDiffer'
  <2>1. SUFFICES ASSUME spent.writes = 0
                 PROVE  /\ \A c \in Batches : \A j \in batch[c].records : original[j] = "none"
                        /\ \A j \in SourceRows :
                              \/ target[j] = original[j]
                              \/ /\ target[j] = "source" /\ original[j] = "none"
                                 /\ \E c \in Batches : j \in batch[c].records /\ batch'[c].status # "rolled_back"
    BY <1>0, <1>5 DEF OnlyRecordedDiffer
  <2>2. ASSUME NEW j \in SourceRows, target[j] # original[j]
        PROVE  /\ target[j] = "source" /\ original[j] = "none"
               /\ \E c \in Batches : j \in batch[c].records /\ batch'[c].status # "rolled_back"
    <3>1. /\ target[j] = "source" /\ original[j] = "none"
          /\ \E c \in Batches : j \in batch[c].records /\ batch[c].status # "rolled_back"
      BY <2>1, <2>2 DEF MigrationIInv, OnlyRecordedDiffer
    <3>2. j \notin batch[b].records
      BY <3>1, <1>0 DEF MigrationIInv, RolledRows, SourceRows
    <3> QED
      BY <3>1, <3>2, <1>4
  <2> QED
    BY <2>1, <2>2 DEF MigrationIInv, OnlyRecordedDiffer
<1> QED
  BY <1>6, <1>7, <1>8, <1>9, <1>10 DEF MigrationIInv

----------------------------------------------------------------------------
(* verify.                                                                 *)

LEMMA BeginVerifyInv ==
    ASSUME MigrationIInv, NEW b \in Batches, BeginVerify(b)
    PROVE  MigrationIInv'
<1>0. ScanTypes /\ UNCHANGED <<target, original, batch, writer>>
  BY DEF MigrationIInv, BeginVerify
<1>1. spent' \in [stops : Nat, writes : Nat, commands : Nat] /\ spent'.writes = spent.writes
  BY <1>0, SpendEffect DEF BeginVerify
<1>2. /\ verifier' \in Checks /\ verifier'.cmd = "verify" /\ verifier'.batch = b
      /\ verifier'.row = 1 /\ verifier'.differ = 0
  BY NoCheckType DEF BeginVerify, NoCheck, Checks
<1>3. ScanTypes'
  BY <1>0, <1>1, <1>2 DEF ScanTypes
<1>4. VerifiedRows'
  BY <1>2 DEF VerifiedRows, SourceRows
<1>5. ExecutedRows' /\ RolledRows' /\ ExecutesUnrolled'
  BY <1>0 DEF MigrationIInv, ExecutedRows, RolledRows, ExecutesUnrolled
<1> QED
  BY <1>0, <1>1, <1>3, <1>4, <1>5, ScanStep DEF MigrationIInv

LEMMA VerifyRowInv ==
    ASSUME MigrationIInv, VerifyRow
    PROVE  MigrationIInv'
<1> DEFINE k == verifier.row
           d == IF VerifyFails(k) THEN 1 ELSE 0
<1>0. /\ ScanTypes /\ verifier \in Checks /\ verifier.cmd = "verify" /\ k \in SourceRows
      /\ verifier.differ \in 0..RowCount /\ verifier.differ < k
      /\ UNCHANGED <<target, original, batch, writer, spent>>
  BY CountsArePositive DEF MigrationIInv, ScanTypes, VerifyRow, Checks, SourceRows
<1>1. verifier' = [verifier EXCEPT !.row = k + 1, !.differ = verifier.differ + d]
  BY DEF VerifyRow
<1>2. d \in {0, 1} /\ (d = 0 => target[k] = "source")
  BY DEF VerifyFails
<1> HIDE DEF d
<1>3. /\ verifier' \in Checks /\ verifier'.cmd = "verify" /\ verifier'.batch = verifier.batch
      /\ verifier'.row = k + 1 /\ verifier'.differ = verifier.differ + d
      /\ verifier'.differ < verifier'.row /\ verifier'.dirty = verifier.dirty
  <2>1. k + 1 \in 1..(RowCount + 1) /\ verifier.differ + d \in 0..RowCount /\ verifier.differ + d < k + 1
    BY <1>0, <1>2, CountsArePositive DEF SourceRows
  <2> QED
    BY <2>1, <1>0, <1>1 DEF Checks
<1>4. ScanTypes'
  BY <1>0, <1>3 DEF ScanTypes
<1>5. VerifiedRows'
  <2>1. SUFFICES ASSUME verifier'.differ = 0, ~verifier.dirty, NEW j \in SourceRows, j < k + 1
                 PROVE  target[j] = "source"
    BY <1>0, <1>3 DEF VerifiedRows
  <2>2. verifier.differ = 0 /\ d = 0
    BY <2>1, <1>0, <1>2, <1>3
  <2>3. j < k \/ j = k
    BY <2>1, <1>0 DEF SourceRows
  <2> QED
    BY <2>1, <2>2, <2>3, <1>0, <1>2 DEF MigrationIInv, VerifiedRows
<1>6. ExecutedRows' /\ RolledRows' /\ ExecutesUnrolled'
  BY <1>0 DEF MigrationIInv, ExecutedRows, RolledRows, ExecutesUnrolled
<1> QED
  BY <1>0, <1>4, <1>5, <1>6, ScanStep DEF MigrationIInv

\* A verification that found nothing has seen every row, and what it saw is
\* still there unless somebody wrote.
LEMMA FinishVerifyInv ==
    ASSUME MigrationIInv, FinishVerify
    PROVE  MigrationIInv'
<1> DEFINE b == verifier.batch
           status == IF verifier.differ = 0 THEN "verified" ELSE "verification_failed"
           new == [batch[b] EXCEPT !.status = status, !.checkDirty = verifier.dirty]
<1>0. /\ ScanTypes /\ verifier \in Checks /\ verifier.cmd = "verify" /\ verifier.row > RowCount
      /\ b \in Batches /\ verifier' = NoCheck /\ batch \in [Batches -> BatchRecords]
      /\ UNCHANGED <<target, original, writer, spent>>
  BY DEF MigrationIInv, ScanTypes, FinishVerify
<1>1. batch' = [batch EXCEPT ![b] = new]
  BY <1>0 DEF FinishVerify
<1>2. status \in {"verified", "verification_failed"} /\ (status = "verified" => verifier.differ = 0)
  OBVIOUS
<1> HIDE DEF status
<1>3. /\ new \in BatchRecords /\ new.status = status /\ new.records = batch[b].records
      /\ new.checkDirty = verifier.dirty /\ new.ranDirty = batch[b].ranDirty
  <2>1. batch[b] \in BatchRecords /\ status \in Statuses /\ verifier.dirty \in BOOLEAN
    BY <1>0, <1>2 DEF Statuses, Checks
  <2> QED
    BY <2>1 DEF BatchRecords
<1>4. /\ batch' \in [Batches -> BatchRecords] /\ batch'[b] = new
      /\ \A c \in Batches : c # b => batch'[c] = batch[c]
  BY <1>0, <1>1, <1>3
<1>5. \A c \in Batches : /\ batch'[c].records = batch[c].records
                         /\ batch'[c].ranDirty = batch[c].ranDirty
                         /\ batch'[c].status = "rolled_back" => batch[c].status = "rolled_back"
                         /\ batch'[c].status = "none" => batch[c].status = "none"
  BY <1>2, <1>3, <1>4
<1>6. (status = "verified" /\ ~verifier.dirty) => AllThere
  BY <1>0, <1>2, CountsArePositive DEF MigrationIInv, VerifiedRows, AllThere, SourceRows, Checks
<1>7. CompletedIsComplete' /\ VerifiedIsTrue'
  BY <1>0, <1>2, <1>3, <1>4, <1>6 DEF MigrationIInv, CompletedIsComplete, VerifiedIsTrue, AllThere
<1>8. UnstartedIsEmpty'
  BY <1>5 DEF MigrationIInv, UnstartedIsEmpty, Started
<1>9. ScanTypes'
  BY <1>0, <1>4, NoCheckType DEF ScanTypes
<1>10. ExecutedRows' /\ RolledRows' /\ ExecutesUnrolled'
  BY <1>0, <1>5 DEF MigrationIInv, ScanTypes, ExecutedRows, RolledRows, ExecutesUnrolled
<1>11. VerifiedRows'
  BY <1>0, NoCheckType DEF VerifiedRows
<1>12. OnlyRecordedDiffer'
  BY <1>0, <1>5 DEF MigrationIInv, OnlyRecordedDiffer
<1> QED
  BY <1>7, <1>8, <1>9, <1>10, <1>11, <1>12 DEF MigrationIInv

----------------------------------------------------------------------------
(* The theorems.                                                           *)

LEMMA MigrationInitInv == MigrationInit => MigrationIInv
<1> SUFFICES ASSUME MigrationInit PROVE MigrationIInv
  OBVIOUS
<1>1. NoBatch \in BatchRecords /\ NoBatch.status = "none" /\ NoBatch.records = {}
  BY DEF NoBatch, BatchRecords, Statuses
<1>2. ScanTypes
  BY <1>1, NoWorkType, NoCheckType DEF MigrationInit, ScanTypes, RowStates
<1>3. CompletedIsComplete /\ VerifiedIsTrue /\ UnstartedIsEmpty /\ OnlyRecordedDiffer
  BY <1>1 DEF MigrationInit, CompletedIsComplete, VerifiedIsTrue, UnstartedIsEmpty, OnlyRecordedDiffer
<1>4. ExecutedRows /\ VerifiedRows /\ RolledRows /\ ExecutesUnrolled
  BY NoWorkType, NoCheckType
     DEF MigrationInit, ExecutedRows, VerifiedRows, RolledRows, ExecutesUnrolled
<1> QED
  BY <1>2, <1>3, <1>4 DEF MigrationIInv

LEMMA MigrationNextInv == MigrationIInv /\ [MigrationNext]_migrationVars => MigrationIInv'
<1> SUFFICES ASSUME MigrationIInv, [MigrationNext]_migrationVars PROVE MigrationIInv'
  OBVIOUS
<1>0. ScanTypes
  BY DEF MigrationIInv
<1>1. ASSUME NEW b \in Batches, BeginBatch(b) \/ ResumeBatch(b) \/ BeginRollback(b) \/ BeginVerify(b)
      PROVE  MigrationIInv'
  BY <1>1, BeginExecuteInv, BeginRollbackInv, BeginVerifyInv
<1>2. CASE WriterDies
  BY <1>0, <1>2, SpendEffect, WriterLeavesInv DEF WriterDies
<1>3. CASE ExecuteRaises
  <2>1. writer.batch \in Batches
    BY <1>0, <1>3 DEF ExecuteRaises, ScanTypes
  <2> QED
    BY <2>1, <1>0, <1>3, SpendEffect, WriterLeavesInv DEF ExecuteRaises
<1>4. CASE VerifierDies
  <2>1. verifier' = NoCheck /\ UNCHANGED <<target, original, batch, writer>>
    BY <1>4 DEF VerifierDies
  <2>2. spent' \in [stops : Nat, writes : Nat, commands : Nat] /\ spent'.writes = spent.writes
    BY <1>0, <1>4, SpendEffect DEF VerifierDies
  <2>3. ScanTypes'
    BY <1>0, <2>1, <2>2, NoCheckType DEF ScanTypes
  <2>4. ExecutedRows' /\ VerifiedRows' /\ RolledRows' /\ ExecutesUnrolled'
    BY <2>1, NoCheckType DEF MigrationIInv, ExecutedRows, VerifiedRows, RolledRows, ExecutesUnrolled
  <2> QED
    BY <2>1, <2>2, <2>3, <2>4, ScanStep DEF MigrationIInv
<1>5. ASSUME NEW k \in SourceRows, ServiceWrites(k) PROVE MigrationIInv'
  BY <1>5, ServiceWritesInv
<1>6. CASE UNCHANGED migrationVars
  <2>1. UNCHANGED <<target, original, batch, writer, verifier, spent>>
    BY <1>6 DEF migrationVars
  <2>2. ScanTypes' /\ ExecutedRows' /\ VerifiedRows' /\ RolledRows' /\ ExecutesUnrolled'
    BY <2>1 DEF MigrationIInv, ScanTypes, ExecutedRows, VerifiedRows, RolledRows, ExecutesUnrolled
  <2> QED
    BY <2>1, <2>2, ScanStep DEF MigrationIInv
<1> QED
  BY <1>1, <1>2, <1>3, <1>4, <1>5, <1>6, MigrateRowInv, FinishExecuteInv, RollbackRowInv,
     FinishRollbackInv, VerifyRowInv, FinishVerifyInv DEF MigrationNext

\* Whatever was stopped, resumed, verified and rolled back, in any order and with
\* any number of rows and batches: a batch that is completed or verified has every
\* source row in the target, and when all are rolled back the target is the first.
THEOREM MigrationInvariant == MigrationSpec => []MigrationInv
<1>1. MigrationIInv => MigrationInv
  <2> SUFFICES ASSUME MigrationIInv PROVE MigrationInv
    OBVIOUS
  <2>1. MigrationTypeOK
    BY DEF MigrationIInv, ScanTypes, MigrationTypeOK, BatchRecords, Works, Checks, RowStates
  <2>2. RollbackRestores
    <3>1. SUFFICES ASSUME spent.writes = 0,
                          \A b \in Batches : Started(b) => batch[b].status = "rolled_back"
                   PROVE  target = original
      BY DEF RollbackRestores
    <3>2. \A k \in SourceRows : target[k] = original[k]
      BY <3>1 DEF MigrationIInv, OnlyRecordedDiffer, UnstartedIsEmpty
    <3> QED
      BY <3>2 DEF MigrationIInv, ScanTypes
  <2> QED
    BY <2>1, <2>2 DEF MigrationIInv, MigrationInv
<1> QED
  BY <1>1, MigrationInitInv, MigrationNextInv, PTL DEF MigrationSpec

\* No step of a batch or a rollback replaces or deletes a row that has the
\* service's content; only the service's own writes do.
THEOREM ServiceRowsAreAlwaysKept == MigrationSpec => ServiceRowsAreKept
<1> DEFINE Kept == \A k \in SourceRows : target[k] = "other" /\ target'[k] # "other" =>
                       spent'.writes > spent.writes
<1>1. ASSUME MigrationIInv, [MigrationNext]_migrationVars PROVE Kept
  <2>0. ScanTypes /\ target \in [SourceRows -> RowStates] /\ spent.writes \in Nat
    BY <1>1 DEF MigrationIInv, ScanTypes
  <2>1. CASE UNCHANGED target
    BY <2>1
  <2>2. CASE MigrateRow
    BY <2>0, <2>2 DEF MigrateRow, RowStates
  <2>3. CASE RollbackRow
    BY <2>0, <2>3 DEF RollbackRow, RollbackDeletes, RowStates
  <2>4. ASSUME NEW k \in SourceRows, ServiceWrites(k) PROVE Kept
    BY <2>0, <2>4, SpendEffect DEF ServiceWrites
  <2> QED
    BY <1>1, <2>1, <2>2, <2>3, <2>4
       DEF MigrationNext, migrationVars, BeginBatch, ResumeBatch, BeginRollback, BeginVerify,
           FinishExecute, FinishRollback, VerifyRow, FinishVerify, WriterDies, ExecuteRaises, VerifierDies
<1>2. MigrationIInv /\ [MigrationNext]_migrationVars => [Kept]_migrationVars
  BY <1>1
<1> QED
  BY <1>2, MigrationInitInv, MigrationNextInv, PTL DEF MigrationSpec, ServiceRowsAreKept

=============================================================================
