------------------------- MODULE PlanningLoopProofs -------------------------
(***************************************************************************)
(* Proofs about the planning loop, for every budget, every number of        *)
(* failures and restarts and every verdict of the evaluators.               *)
(*                                                                          *)
(* Handlers are compositions of a few updates (a report is made, analyses   *)
(* are cleared, a candidate is adopted, restored or settled).  Each update  *)
(* is shown to keep CoreOK, what holds of an AgentState whether or not it   *)
(* has been validated; what Decide looked at before the handler gives the   *)
(* conditions under which it does.                                          *)
(***************************************************************************)
EXTENDS PlanningLoop, FiniteSetTheorems, TLAPS

----------------------------------------------------------------------------
(* What holds of an AgentState.                                            *)

Fields == {"budget", "status", "finished", "step", "tools", "llm", "pool", "weather",
           "hotels", "plan", "made", "routes", "food", "content", "route", "commute",
           "schedule", "constraints", "validation", "accepted", "seen", "opt", "tried",
           "base", "query", "searched", "repairs", "done", "idle"}

Rec(t) == t = [f \in Fields |-> t[f]]

PlanRows == [id : Nat, flaws : SUBSET {"route", "schedule", "commute"}, enough : BOOLEAN,
             built : BOOLEAN]
ReportRows == [of : Nat, rec : BOOLEAN]
ConstraintRows == [of : Nat, built : BOOLEAN, pool : Nat, rec : BOOLEAN]
BaseRows == [plan : PlanRows, routes : Nat, route : ReportRows, commute : ReportRows,
             schedule : ReportRows, constraints : ConstraintRows]
OptStatuses == {"not_started", "supplement_needed", "candidate_pending", "completed", "skipped"}
RouteReports == {"route", "commute", "schedule"}

\* The fields that decisions and reports depend on have their types; the others
\* are free.
AgentTyped(t) ==
    /\ Rec(t)
    /\ t.seen = [e \in Evaluations |-> t.seen[e]]
    /\ t.budget \in Budget
    /\ t.status \in Statuses
    /\ t.finished \in BOOLEAN
    /\ t.step \in Nat /\ t.step <= t.budget.steps
    /\ t.pool \in Nat /\ t.made \in Nat
    /\ t.plan \in PlanRows
    /\ t.routes \in Nat /\ t.food \in Nat /\ t.content \in Nat
    /\ t.route \in ReportRows /\ t.commute \in ReportRows /\ t.schedule \in ReportRows
    /\ t.constraints \in ConstraintRows
    /\ t.opt \in [Optimizers -> OptStatuses]
    /\ t.tried \in [Optimizers -> Nat]
    /\ t.base \in [Optimizers -> BaseRows]

\* Plans are numbered as they are made, and attempts are bounded.
Numbered(t) ==
    /\ t.plan.id <= t.made /\ t.routes <= t.made /\ t.food <= t.made
    /\ \A o \in Optimizers : t.tried[o] <= t.budget.tries[o]

\* A report with number i, of the plan p with routes r, whose fingerprint is f: it
\* is of a plan that was made, of the current one only together with its routes,
\* and its fingerprint names one plan and that plan's routes.
ReportOK(i, f, p, r, made) ==
    /\ i <= made
    /\ i = p /\ i # 0 => r = p
    /\ f = <<>> \/ \E k \in Nat \ {0} : f = <<k, k>> /\ i \in {0, k}

\* The constraint report c with fingerprint f.
ConstraintOK(c, f) == c.of = 0 \/ f = <<>> \/ (f[1].id = c.of /\ f[1].built = c.built)

ReportsOK(t) ==
    /\ ReportOK(t.route.of, t.seen["route"], t.plan.id, t.routes, t.made)
    /\ ReportOK(t.commute.of, t.seen["commute"], t.plan.id, t.routes, t.made)
    /\ ReportOK(t.schedule.of, t.seen["schedule"], t.plan.id, t.routes, t.made)
    /\ t.plan.id # 0 /\ t.routes = t.plan.id => t.route.of = t.plan.id
    /\ ConstraintOK(t.constraints, t.seen["constraints"])

\* A baseline that optimiser o can restore: all it keeps is of one plan.
BaselineOK(b, o, made) ==
    /\ b.plan.id <= made
    /\ b.routes = b.plan.id /\ b.route.of = b.plan.id
    /\ o # "route" => b.schedule.of = b.plan.id
    /\ o \in {"constraint", "commute", "refill"} =>
         b.constraints.of = b.plan.id /\ b.constraints.built = b.plan.built
    /\ o = "commute" => b.commute.of = b.plan.id

\* opt and base agree, and at most one candidate waits.
BaselinesOK(opt, base, made) ==
    /\ \A o \in Optimizers : opt[o] = "candidate_pending" <=> base[o].plan.id # 0
    /\ \A o \in Optimizers : opt[o] = "candidate_pending" => BaselineOK(base[o], o, made)
    /\ \A o, q \in Optimizers :
          opt[o] = "candidate_pending" /\ opt[q] = "candidate_pending" => o = q

\* The texts are of the current plan only once no candidate waits.
ContentOK(t) ==
    /\ \A o \in Optimizers : Pending(t, o) => t.plan.id # 0 /\ t.content = 0
    /\ t.plan.id # 0 /\ t.content = t.plan.id => t.plan.built

\* The route optimiser has its turn before any other one adopts a candidate.
RouteFirst(t) ==
    /\ t.opt["route"] = "not_started" /\ t.route.of # 0 => t.route.rec /\ ~Exhausted(t, "route")
    /\ \A o \in Optimizers : Pending(t, o) => t.opt["route"] # "not_started"

Body(t) ==
    AgentTyped(t) /\ Numbered(t) /\ ReportsOK(t) /\ BaselinesOK(t.opt, t.base, t.made) /\ ContentOK(t)

CoreOK(t) == Body(t) /\ RouteFirst(t)

\* Everything before the verdict has been done: only then is a plan validated.
Ready(t) ==
    /\ t.pool # 0 /\ t.weather /\ t.hotels /\ t.plan.id # 0
    /\ t.routes = t.plan.id /\ t.food = t.plan.id /\ t.content = t.plan.id
    /\ Current(t, "route") /\ Current(t, "commute") /\ Current(t, "schedule")
    /\ ConstraintsCurrent(t)
    /\ \A o \in Optimizers : ~Pending(t, o)
    /\ t.opt["refill"] # "supplement_needed" /\ t.opt["commute"] # "supplement_needed"
    /\ ~(Wanted(t, "route", t.route) /\ t.tried["route"] < t.budget.tries["route"])
    /\ ~Wanted(t, "commute", t.commute) /\ ~Wanted(t, "schedule", t.schedule)
    /\ ~Wanted(t, "constraint", t.constraints)
    /\ ~RefillNeeded(t)

\* A verdict is about the plan as it is, and a finished session has one.
VerdictOK(t) ==
    /\ t.validation # "none" => Ready(t) /\ t.seen["validation"] = ValidationInput(t)
    /\ t.finished => t.validation # "none" /\ Deliverable(t)

AgentOK(t) == CoreOK(t) /\ VerdictOK(t)

Runs == [pc : {"step", "drain", "stopped"}, left : Nat, attempts : [Tools -> Nat]]

\* The inductive invariant: both the session and its checkpoint are sound, and
\* between two steps they are the same.
LoopIInv ==
    /\ AgentOK(s) /\ AgentOK(saved)
    /\ \E p \in Profiles : s.budget = p.budget
    /\ saved.budget = s.budget
    /\ run \in Runs /\ run.left <= s.budget.local
    /\ spare \in [faults : Nat, restarts : Nat]
    /\ IF run.pc = "drain" THEN saved.step < s.step ELSE saved = s

----------------------------------------------------------------------------
(* Updates of single fields.                                               *)

\* What no handler changes.
Outer(t, u) ==
    u.budget = t.budget /\ u.status = t.status /\ u.finished = t.finished /\ u.step = t.step

Collected(t, u) == u.pool = t.pool /\ u.weather = t.weather /\ u.hotels = t.hotels /\ u.food = t.food
SamePlan(t, u) == u.plan = t.plan /\ u.made = t.made /\ u.routes = t.routes /\ u.content = t.content
SameReports(t, u) ==
    u.route = t.route /\ u.commute = t.commute /\ u.schedule = t.schedule /\ u.constraints = t.constraints
SameTries(t, u) == u.opt = t.opt /\ u.tried = t.tried /\ u.base = t.base
SameVerdict(t, u) == u.validation = t.validation /\ u.accepted = t.accepted

\* Fields outside the invariant may change.
LEMMA Alike ==
    ASSUME NEW t, NEW u, Rec(u), Outer(t, u), u.pool = t.pool, u.food = t.food, SamePlan(t, u),
           SameReports(t, u), SameTries(t, u), u.seen = t.seen
    PROVE  (Body(t) => Body(u)) /\ (CoreOK(t) => CoreOK(u))
<1>1. AgentTyped(t) => AgentTyped(u)
  BY DEF AgentTyped, Outer, SamePlan, SameReports, SameTries
<1>2. Numbered(t) => Numbered(u)
  BY DEF Numbered, Outer, SamePlan, SameTries
<1>3. ReportsOK(t) => ReportsOK(u)
  BY DEF ReportsOK, SamePlan, SameReports
<1>4. BaselinesOK(t.opt, t.base, t.made) => BaselinesOK(u.opt, u.base, u.made)
  BY DEF SamePlan, SameTries
<1>5. ContentOK(t) => ContentOK(u)
  BY DEF ContentOK, SamePlan, SameTries, Pending
<1>6. RouteFirst(t) => RouteFirst(u)
  BY DEF RouteFirst, SameReports, SameTries, Pending, Exhausted, Outer
<1> QED
  BY <1>1, <1>2, <1>3, <1>4, <1>5, <1>6 DEF Body, CoreOK

\* A status other than "candidate_pending" for an optimiser without a candidate.
LEMMA SetOptKeeps ==
    ASSUME NEW t, Body(t), NEW o \in Optimizers, ~Pending(t, o),
           NEW x \in OptStatuses \ {"candidate_pending"},
           NEW u, Rec(u), Outer(t, u), u.pool = t.pool, u.food = t.food, SamePlan(t, u),
           SameReports(t, u), u.seen = t.seen, u.tried = t.tried, u.base = t.base,
           u.opt = [t.opt EXCEPT ![o] = x]
    PROVE  Body(u) /\ (RouteFirst(t) /\ (o # "route" \/ x # "not_started") => RouteFirst(u))
<1>1. /\ t.opt \in [Optimizers -> OptStatuses] /\ u.opt \in [Optimizers -> OptStatuses]
      /\ u.opt[o] = x /\ t.opt[o] # "candidate_pending"
      /\ \A q \in Optimizers \ {o} : u.opt[q] = t.opt[q]
  BY DEF Body, AgentTyped, Pending
<1>2. AgentTyped(u)
  BY <1>1 DEF Body, AgentTyped, Outer, SamePlan, SameReports
<1>3. Numbered(u)
  BY DEF Body, Numbered, Outer, SamePlan
<1>4. ReportsOK(u)
  BY DEF Body, ReportsOK, SamePlan, SameReports
<1>5. \A q \in Optimizers : u.opt[q] = "candidate_pending" <=> t.opt[q] = "candidate_pending"
  BY <1>1
<1>6. BaselinesOK(u.opt, u.base, u.made)
  BY <1>5 DEF Body, BaselinesOK, SamePlan
<1>7. ContentOK(u)
  BY <1>5 DEF Body, ContentOK, SamePlan, Pending
<1>8. ASSUME RouteFirst(t), o # "route" \/ x # "not_started" PROVE RouteFirst(u)
  <2>1. "route" \in Optimizers
    BY DEF Optimizers
  <2>2. u.opt["route"] = "not_started" => t.opt["route"] = "not_started"
    BY <1>1, <1>8, <2>1
  <2>3. u.route = t.route /\ (Exhausted(u, "route") <=> Exhausted(t, "route"))
    BY DEF SameReports, Exhausted, Outer
  <2> QED
    BY <1>5, <1>8, <2>2, <2>3 DEF RouteFirst, Pending
<1> QED
  BY <1>2, <1>3, <1>4, <1>6, <1>7, <1>8 DEF Body

\* _invalidate_evaluation_fingerprints
LEMMA InvalidateFacts ==
    ASSUME NEW t, Rec(t), NEW keys, NEW u, u = Invalidate(t, keys)
    PROVE  /\ Rec(u) /\ Outer(t, u) /\ Collected(t, u) /\ SamePlan(t, u) /\ SameReports(t, u)
           /\ SameTries(t, u) /\ u.validation = t.validation
           /\ u.seen = [e \in Evaluations |-> IF e \in keys THEN <<>> ELSE t.seen[e]]
<1>1. Rec(u)
  BY DEF Rec, Invalidate
<1>2. Outer(t, u) /\ Collected(t, u)
  BY DEF Rec, Fields, Invalidate, Outer, Collected
<1>3. SamePlan(t, u) /\ SameReports(t, u)
  BY DEF Rec, Fields, Invalidate, SamePlan, SameReports
<1>4. SameTries(t, u) /\ u.validation = t.validation
  BY DEF Rec, Fields, Invalidate, SameTries
<1>5. u.seen = [e \in Evaluations |-> IF e \in keys THEN <<>> ELSE t.seen[e]]
  BY DEF Rec, Fields, Invalidate
<1> QED
  BY <1>1, <1>2, <1>3, <1>4, <1>5

\* A missing fingerprint never makes a report match.
LEMMA Forgotten ==
    ASSUME NEW t, NEW u, Rec(u), Outer(t, u), u.pool = t.pool, u.food = t.food, SamePlan(t, u),
           SameReports(t, u), SameTries(t, u), NEW keys,
           u.seen = [e \in Evaluations |-> IF e \in keys THEN <<>> ELSE t.seen[e]]
    PROVE  (Body(t) => Body(u)) /\ (CoreOK(t) => CoreOK(u))
<1>1. AgentTyped(t) => AgentTyped(u)
  <2>1. u.seen = [e \in Evaluations |-> u.seen[e]]
    OBVIOUS
  <2> QED
    BY <2>1 DEF AgentTyped, Outer, SamePlan, SameReports, SameTries
<1>2. Numbered(t) => Numbered(u)
  BY DEF Numbered, Outer, SamePlan, SameTries
<1>3. ReportsOK(t) => ReportsOK(u)
  <2>1. \A e \in {"route", "commute", "schedule", "constraints"} :
            u.seen[e] = <<>> \/ u.seen[e] = t.seen[e]
    BY DEF Evaluations
  <2> QED
    BY <2>1 DEF ReportsOK, SamePlan, SameReports, ReportOK, ConstraintOK
<1>4. BaselinesOK(t.opt, t.base, t.made) => BaselinesOK(u.opt, u.base, u.made)
  BY DEF SamePlan, SameTries
<1>5. ContentOK(t) => ContentOK(u)
  BY DEF ContentOK, SamePlan, SameTries, Pending
<1>6. RouteFirst(t) => RouteFirst(u)
  BY DEF RouteFirst, SameReports, SameTries, Pending, Exhausted, Outer
<1> QED
  BY <1>1, <1>2, <1>3, <1>4, <1>5, <1>6 DEF Body, CoreOK

LEMMA SkipUnlessKeeps ==
    ASSUME NEW t, Body(t), NEW o \in Optimizers, NEW needed \in BOOLEAN, NEW u, u = SkipUnless(t, o, needed)
    PROVE  /\ Body(u) /\ (RouteFirst(t) => RouteFirst(u))
           /\ Outer(t, u) /\ Collected(t, u) /\ SamePlan(t, u) /\ SameReports(t, u)
           /\ SameVerdict(t, u) /\ u.seen = t.seen /\ u.tried = t.tried /\ u.base = t.base
           /\ u.opt = t.opt \/ u.opt = [t.opt EXCEPT ![o] = "skipped"]
           /\ \A q \in Optimizers : Pending(u, q) <=> Pending(t, q)
<1>0. Rec(t) /\ t.opt \in [Optimizers -> OptStatuses]
  BY DEF Body, AgentTyped
<1>1. CASE t.opt[o] = "not_started" /\ ~needed
  <2>1. u = [t EXCEPT !.opt[o] = "skipped"]
    BY <1>1 DEF SkipUnless
  <2>2. Rec(u)
    BY <1>0, <2>1 DEF Rec
  <2>3. Outer(t, u) /\ Collected(t, u) /\ SamePlan(t, u) /\ SameReports(t, u)
    BY <1>0, <2>1 DEF Rec, Fields, Outer, Collected, SamePlan, SameReports
  <2>4. /\ SameVerdict(t, u) /\ u.seen = t.seen /\ u.tried = t.tried /\ u.base = t.base
        /\ u.opt = [t.opt EXCEPT ![o] = "skipped"]
    BY <1>0, <2>1 DEF Rec, Fields, SameVerdict
  <2>5. ~Pending(t, o) /\ "skipped" \in OptStatuses \ {"candidate_pending"} /\ "skipped" # "not_started"
    BY <1>1 DEF Pending, OptStatuses
  <2>6. Body(u) /\ (RouteFirst(t) => RouteFirst(u))
    BY <2>2, <2>3, <2>4, <2>5, SetOptKeeps DEF Collected
  <2>7. u.opt[o] = "skipped" /\ \A q \in Optimizers \ {o} : u.opt[q] = t.opt[q]
    BY <1>0, <2>4
  <2> QED
    BY <2>3, <2>4, <2>5, <2>6, <2>7 DEF Pending
<1>2. CASE ~(t.opt[o] = "not_started" /\ ~needed)
  <2>1. u = t
    BY <1>2 DEF SkipUnless
  <2> QED
    BY <1>2, <2>1 DEF Outer, Collected, SamePlan, SameReports, SameVerdict
<1> QED
  BY <1>1, <1>2

LEMMA SkipKeeps ==
    ASSUME NEW t, CoreOK(t), NEW o \in Optimizers, ~Pending(t, o), NEW u, u = Skip(t, o)
    PROVE  CoreOK(u) /\ Outer(t, u) /\ SamePlan(t, u) /\ u.validation = t.validation
<1>0. Rec(t)
  BY DEF CoreOK, Body, AgentTyped
<1>1. Rec(u)
  BY <1>0 DEF Rec, Skip
<1>2. Outer(t, u) /\ Collected(t, u) /\ SamePlan(t, u) /\ SameReports(t, u)
  BY <1>0 DEF Rec, Fields, Outer, Collected, SamePlan, SameReports, Skip
<1>3. /\ u.validation = t.validation /\ u.seen = t.seen /\ u.tried = t.tried /\ u.base = t.base
      /\ u.opt = [t.opt EXCEPT ![o] = "skipped"]
  BY <1>0 DEF Rec, Fields, Skip
<1>4. "skipped" \in OptStatuses \ {"candidate_pending"} /\ "skipped" # "not_started"
  BY DEF OptStatuses
<1>5. Body(t) /\ RouteFirst(t)
  BY DEF CoreOK
<1>6. Body(u) /\ RouteFirst(u)
  BY <1>1, <1>2, <1>3, <1>4, <1>5, SetOptKeeps DEF Collected
<1> QED
  BY <1>2, <1>3, <1>6 DEF CoreOK

\* A report of the plan at hand, made from its routes.
LEMMA ReportKeeps ==
    ASSUME NEW t, Body(t), NEW e \in RouteReports, t.plan.id # 0, t.routes = t.plan.id,
           NEW u, u = Report(t, e)
    PROVE  /\ Body(u) /\ (e # "route" /\ RouteFirst(t) => RouteFirst(u))
           /\ Outer(t, u) /\ Collected(t, u) /\ SamePlan(t, u) /\ SameTries(t, u) /\ SameVerdict(t, u)
           /\ u.constraints = t.constraints /\ u.seen["constraints"] = t.seen["constraints"]
           /\ u[e].of = t.plan.id
           /\ \A q \in RouteReports \ {e} : u[q] = t[q]
<1> DEFINE r == [of |-> t.plan.id, rec |-> e \in t.plan.flaws]
<1>0. /\ Rec(t) /\ t.seen = [x \in Evaluations |-> t.seen[x]] /\ t.plan \in PlanRows
      /\ e \in Fields /\ e \in Evaluations
  BY DEF Body, AgentTyped, RouteReports, Fields, Evaluations
<1>1. r \in ReportRows /\ r.of = t.plan.id
  BY <1>0 DEF PlanRows, ReportRows
<1>2. u = [t EXCEPT ![e] = r, !.seen[e] = <<t.plan.id, t.routes>>]
  BY DEF Report, RouteInput
<1> HIDE DEF r
<1>3. Rec(u)
  BY <1>0, <1>2 DEF Rec
<1>3a. \A f \in Fields \ {e, "seen"} : u[f] = t[f]
  BY <1>0, <1>2 DEF Rec
<1>3b. e \in {"route", "commute", "schedule"}
  BY DEF RouteReports
<1>4. Outer(t, u) /\ Collected(t, u)
  BY ONLY <1>3a, <1>3b DEF Fields, Outer, Collected
<1>5. SamePlan(t, u) /\ SameTries(t, u)
  BY ONLY <1>3a, <1>3b DEF Fields, SamePlan, SameTries
<1>6. SameVerdict(t, u) /\ u.constraints = t.constraints
  BY ONLY <1>3a, <1>3b DEF Fields, SameVerdict
<1>7. u[e] = r /\ \A q \in RouteReports \ {e} : u[q] = t[q]
  BY <1>0, <1>2 DEF Rec, Fields, RouteReports
<1>8. u.seen = [t.seen EXCEPT ![e] = <<t.plan.id, t.routes>>]
  BY <1>0, <1>2 DEF Rec, Fields, RouteReports
<1>9. /\ u.seen = [x \in Evaluations |-> u.seen[x]]
      /\ u.seen[e] = <<t.plan.id, t.plan.id>>
      /\ \A q \in Evaluations \ {e} : u.seen[q] = t.seen[q]
  BY <1>0, <1>8
<1>10. u.seen["constraints"] = t.seen["constraints"]
  BY <1>9 DEF Evaluations, RouteReports
<1>11. AgentTyped(u)
  <2>1. u.route \in ReportRows /\ u.commute \in ReportRows /\ u.schedule \in ReportRows
    BY <1>1, <1>7 DEF Body, AgentTyped, RouteReports
  <2> QED
    BY <1>3, <1>4, <1>5, <1>6, <1>9, <2>1 DEF Body, AgentTyped, Outer, Collected, SamePlan, SameTries
<1>12. Numbered(u)
  BY <1>4, <1>5 DEF Body, Numbered, Outer, Collected, SamePlan, SameTries
<1>13. ASSUME NEW q \in RouteReports PROVE ReportOK(u[q].of, u.seen[q], u.plan.id, u.routes, u.made)
  <2>1. CASE q = e
    <3>1. t.plan.id \in Nat \ {0} /\ t.plan.id <= t.made
      BY <1>0 DEF Body, Numbered, PlanRows
    <3> QED
      BY <1>1, <1>5, <1>7, <1>9, <2>1, <3>1 DEF ReportOK, SamePlan
  <2>2. CASE q # e
    <3>1. ReportOK(t[q].of, t.seen[q], t.plan.id, t.routes, t.made)
      BY DEF Body, ReportsOK, RouteReports
    <3>2. u[q] = t[q] /\ u.seen[q] = t.seen[q]
      BY <1>7, <1>9, <2>2 DEF RouteReports, Evaluations
    <3> QED
      BY <1>5, <3>1, <3>2 DEF SamePlan
  <2> QED
    BY <2>1, <2>2
<1>14. u.route.of = t.plan.id
  BY <1>1, <1>7 DEF Body, ReportsOK, RouteReports
<1>15. ReportsOK(u)
  <2>1. ConstraintOK(u.constraints, u.seen["constraints"])
    BY <1>6, <1>10 DEF Body, ReportsOK
  <2> QED
    BY <1>5, <1>13, <1>14, <2>1 DEF ReportsOK, RouteReports, SamePlan
<1>16. BaselinesOK(u.opt, u.base, u.made) /\ ContentOK(u)
  BY <1>5 DEF Body, ContentOK, SamePlan, SameTries, Pending
<1>17. ASSUME e # "route", RouteFirst(t) PROVE RouteFirst(u)
  <2>1. u.route = t.route
    BY <1>7, <1>17 DEF RouteReports
  <2> QED
    BY <1>4, <1>5, <1>17, <2>1 DEF RouteFirst, SameTries, Pending, Exhausted, Outer
<1> QED
  BY <1>1, <1>4, <1>5, <1>6, <1>7, <1>10, <1>11, <1>12, <1>15, <1>16, <1>17 DEF Body

\* _refresh_schedule_quality
LEMMA RefreshScheduleKeeps ==
    ASSUME NEW t, Body(t), t.plan.id # 0, t.routes = t.plan.id,
           NEW u, u = RefreshScheduleQuality(t)
    PROVE  /\ Body(u) /\ (RouteFirst(t) => RouteFirst(u))
           /\ Outer(t, u) /\ Collected(t, u) /\ SamePlan(t, u) /\ SameVerdict(t, u)
           /\ u.schedule.of = t.plan.id /\ u.route = t.route /\ u.commute = t.commute
           /\ u.constraints = t.constraints /\ u.tried = t.tried /\ u.base = t.base
           /\ \A q \in Optimizers : Pending(u, q) <=> Pending(t, q)
<1> DEFINE v == Report(t, "schedule")
<1>1. "schedule" \in RouteReports /\ "schedule" \in Optimizers
  BY DEF RouteReports, Optimizers
<1>2. /\ Body(v) /\ (RouteFirst(t) => RouteFirst(v))
      /\ Outer(t, v) /\ Collected(t, v) /\ SamePlan(t, v) /\ SameTries(t, v) /\ SameVerdict(t, v)
      /\ v.constraints = t.constraints /\ v.schedule.of = t.plan.id
      /\ v.route = t.route /\ v.commute = t.commute
  BY <1>1, ReportKeeps DEF RouteReports
<1>3. \E n \in BOOLEAN : u = SkipUnless(v, "schedule", n)
  BY DEF RefreshScheduleQuality, SkipUnless
<1> HIDE DEF v
<1>4. /\ Body(u) /\ (RouteFirst(v) => RouteFirst(u))
      /\ Outer(v, u) /\ Collected(v, u) /\ SamePlan(v, u) /\ SameReports(v, u)
      /\ SameVerdict(v, u) /\ u.tried = v.tried /\ u.base = v.base
      /\ \A q \in Optimizers : Pending(u, q) <=> Pending(v, q)
  <2>1. PICK n \in BOOLEAN : u = SkipUnless(v, "schedule", n)
    BY <1>3
  <2>2. Body(v) /\ "schedule" \in Optimizers
    BY <1>1, <1>2
  <2> QED
    BY ONLY <2>1, <2>2, SkipUnlessKeeps
<1> QED
  BY <1>2, <1>4
     DEF Outer, Collected, SamePlan, SameReports, SameVerdict, SameTries, Pending

\* _refresh_commute_report
LEMMA RefreshCommuteKeeps ==
    ASSUME NEW t, CoreOK(t), t.plan.id # 0, t.routes = t.plan.id,
           NEW u, u = RefreshCommuteReport(t)
    PROVE  CoreOK(u) /\ Outer(t, u) /\ SamePlan(t, u) /\ u.validation = t.validation
<1> DEFINE v == Report(t, "commute")
<1>1. "commute" \in RouteReports /\ "commute" \in Optimizers /\ "commute" # "route" /\ Body(t) /\ RouteFirst(t)
  BY DEF RouteReports, Optimizers, CoreOK
<1>2. /\ Body(v) /\ RouteFirst(v)
      /\ Outer(t, v) /\ Collected(t, v) /\ SamePlan(t, v) /\ SameTries(t, v) /\ SameVerdict(t, v)
  BY <1>1, ReportKeeps
<1>3. CASE /\ v.commute.rec /\ t.commute.of # t.plan.id
           /\ t.opt["commute"] \in {"completed", "skipped"}
  <2>1. u = [v EXCEPT !.opt["commute"] = "not_started"]
    BY <1>3 DEF RefreshCommuteReport
  <2>2. ~Pending(v, "commute") /\ "not_started" \in OptStatuses \ {"candidate_pending"} /\ Rec(v)
    BY <1>2, <1>3 DEF Pending, SameTries, OptStatuses, Body, AgentTyped
  <2> HIDE DEF v
  <2>3. Rec(u)
    BY <2>1, <2>2 DEF Rec
  <2>4. Outer(v, u) /\ Collected(v, u) /\ SamePlan(v, u) /\ SameReports(v, u)
    BY <2>1, <2>2 DEF Rec, Fields, Outer, Collected, SamePlan, SameReports
  <2>5. /\ u.seen = v.seen /\ u.tried = v.tried /\ u.base = v.base /\ u.validation = v.validation
        /\ u.opt = [v.opt EXCEPT !["commute"] = "not_started"]
    BY <2>1, <2>2 DEF Rec, Fields
  <2>6. Body(u) /\ RouteFirst(u)
    BY <1>1, <1>2, <2>2, <2>3, <2>4, <2>5, SetOptKeeps DEF Collected
  <2> QED
    BY <1>2, <2>4, <2>5, <2>6 DEF CoreOK, Outer, SamePlan, SameVerdict
<1>4. CASE ~(/\ v.commute.rec /\ t.commute.of # t.plan.id
             /\ t.opt["commute"] \in {"completed", "skipped"})
  <2>1. PICK n \in BOOLEAN : u = SkipUnless(v, "commute", n)
    BY <1>4 DEF RefreshCommuteReport, SkipUnless
  <2> HIDE DEF v
  <2>3. Body(v) /\ "commute" \in Optimizers
    BY <1>1, <1>2
  <2>2. /\ Body(u) /\ (RouteFirst(v) => RouteFirst(u))
        /\ Outer(v, u) /\ SamePlan(v, u) /\ SameVerdict(v, u)
    BY ONLY <2>1, <2>3, SkipUnlessKeeps
  <2> QED
    BY <1>2, <2>2 DEF CoreOK, Outer, SamePlan, SameVerdict
<1> QED
  BY <1>3, <1>4

\* _refresh_constraint_report
LEMMA RefreshConstraintKeeps ==
    ASSUME NEW t, CoreOK(t), NEW rec \in BOOLEAN, NEW u, u = RefreshConstraintReport(t, rec)
    PROVE  /\ CoreOK(u) /\ Outer(t, u) /\ SamePlan(t, u) /\ u.validation = t.validation
           /\ u.route = t.route /\ u.commute = t.commute /\ u.schedule = t.schedule
           /\ u.tried = t.tried /\ u.base = t.base
           /\ u.constraints.of = t.plan.id /\ u.constraints.built = t.plan.built
           /\ u.opt = t.opt \/ u.opt = [t.opt EXCEPT !["constraint"] = "skipped"]
           /\ \A q \in Optimizers : Pending(u, q) <=> Pending(t, q)
<1> DEFINE c == [of |-> t.plan.id, built |-> t.plan.built, pool |-> t.pool, rec |-> rec]
           w == [t EXCEPT !.constraints = c]
           v == [w EXCEPT !.seen["constraints"] = ConstraintInput(t)]
<1>0. /\ Rec(t) /\ t.seen = [x \in Evaluations |-> t.seen[x]] /\ t.plan \in PlanRows
      /\ t.pool \in Nat /\ "constraints" \in Evaluations /\ "constraint" \in Optimizers
      /\ Body(t) /\ RouteFirst(t)
  BY DEF CoreOK, Body, AgentTyped, Evaluations, Optimizers
<1>1. c \in ConstraintRows /\ c.of = t.plan.id /\ c.built = t.plan.built
  BY <1>0 DEF ConstraintRows, PlanRows
<1>2. u = SkipUnless(v, "constraint", rec)
  BY DEF RefreshConstraintReport
<1> HIDE DEF c
<1>3. Rec(w) /\ \A f \in Fields \ {"constraints"} : w[f] = t[f]
  BY <1>0 DEF Rec
<1>4. w.constraints = c /\ w.seen = t.seen
  BY <1>0 DEF Rec, Fields
<1> HIDE DEF w
<1>5. Rec(v) /\ \A f \in Fields \ {"seen"} : v[f] = w[f]
  BY <1>3 DEF Rec
<1>6. v.seen = [t.seen EXCEPT !["constraints"] = ConstraintInput(t)] /\ v.constraints = c
  BY <1>3, <1>4 DEF Rec, Fields
<1> HIDE DEF v
<1>7. /\ v.seen = [x \in Evaluations |-> v.seen[x]] /\ v.seen["constraints"] = ConstraintInput(t)
      /\ \A q \in Evaluations \ {"constraints"} : v.seen[q] = t.seen[q]
  BY <1>0, <1>6
<1>8. \A f \in Fields \ {"seen", "constraints"} : v[f] = t[f]
  BY <1>3, <1>5
<1>9. Outer(t, v) /\ Collected(t, v) /\ SamePlan(t, v)
  BY ONLY <1>8 DEF Fields, Outer, Collected, SamePlan
<1>10. SameTries(t, v) /\ SameVerdict(t, v)
  BY ONLY <1>8 DEF Fields, SameTries, SameVerdict
<1>11. v.route = t.route /\ v.commute = t.commute /\ v.schedule = t.schedule
  BY ONLY <1>8 DEF Fields
<1>12. AgentTyped(v)
  BY <1>0, <1>1, <1>5, <1>6, <1>7, <1>9, <1>10, <1>11 DEF Body, AgentTyped, Outer, Collected, SamePlan, SameTries
<1>13. Numbered(v)
  BY <1>0, <1>9, <1>10 DEF Body, Numbered, Outer, Collected, SamePlan, SameTries
<1>14. ReportsOK(v)
  <2>1. v.seen["constraints"][1] = t.plan
    BY <1>7 DEF ConstraintInput
  <2>2. ConstraintOK(v.constraints, v.seen["constraints"])
    BY <1>1, <1>6, <2>1 DEF ConstraintOK
  <2>3. v.seen["route"] = t.seen["route"] /\ v.seen["commute"] = t.seen["commute"] /\ v.seen["schedule"] = t.seen["schedule"]
    BY <1>7 DEF Evaluations
  <2> QED
    BY <1>0, <1>9, <1>11, <2>2, <2>3 DEF Body, ReportsOK, SamePlan
<1>15. BaselinesOK(v.opt, v.base, v.made) /\ ContentOK(v)
  BY <1>0, <1>9, <1>10 DEF Body, ContentOK, SamePlan, SameTries, Pending
<1>16. RouteFirst(v)
  BY <1>0, <1>9, <1>10, <1>11 DEF RouteFirst, SameTries, Pending, Exhausted, Outer
<1>17. Body(v)
  BY <1>12, <1>13, <1>14, <1>15 DEF Body
<1>18. /\ Body(u) /\ RouteFirst(u)
       /\ Outer(v, u) /\ SamePlan(v, u) /\ SameReports(v, u) /\ SameVerdict(v, u)
       /\ u.tried = v.tried /\ u.base = v.base
       /\ u.opt = v.opt \/ u.opt = [v.opt EXCEPT !["constraint"] = "skipped"]
       /\ \A q \in Optimizers : Pending(u, q) <=> Pending(v, q)
  BY <1>0, <1>2, <1>16, <1>17, SkipUnlessKeeps
<1> QED
  BY <1>1, <1>6, <1>9, <1>10, <1>11, <1>18
     DEF CoreOK, Outer, SamePlan, SameReports, SameVerdict, SameTries, Pending

\* _synchronize_evaluation_fingerprints
LEMMA SynchronizeKeeps ==
    ASSUME NEW t, AgentTyped(t), Numbered(t), BaselinesOK(t.opt, t.base, t.made), ContentOK(t),
           t.plan.id # 0, t.routes = t.plan.id, t.route.of = t.plan.id,
           t.commute.of <= t.made, t.schedule.of <= t.made,
           NEW u, u = SynchronizeEvaluationFingerprints(t)
    PROVE  /\ Body(u) /\ (RouteFirst(t) => RouteFirst(u))
           /\ Outer(t, u) /\ Collected(t, u) /\ SamePlan(t, u) /\ SameReports(t, u)
           /\ SameTries(t, u) /\ SameVerdict(t, u)
           /\ \A e \in RouteReports : t[e].of = t.plan.id => u.seen[e] = <<t.plan.id, t.routes>>
           /\ ConstraintsMatch(t) /\ t.schedule.of # 0 => u.seen["constraints"] = ConstraintInput(t)
<1>0. Rec(t) /\ t.plan \in PlanRows
  BY DEF AgentTyped
<1>1. Rec(u) /\ \A f \in Fields \ {"seen"} : u[f] = t[f]
  BY <1>0 DEF Rec, SynchronizeEvaluationFingerprints
<1>2. u.seen = [e \in Evaluations |->
        IF e = "validation" THEN <<>>
        ELSE IF e = "constraints"
             THEN IF ConstraintsMatch(t) /\ t.schedule.of # 0 THEN ConstraintInput(t) ELSE <<>>
        ELSE IF t[e].of = t.plan.id THEN RouteInput(t) ELSE <<>>]
  BY <1>0 DEF Rec, Fields, SynchronizeEvaluationFingerprints
<1>3. u.seen = [x \in Evaluations |-> u.seen[x]]
  BY <1>2
<1>4. u.seen["constraints"] = IF ConstraintsMatch(t) /\ t.schedule.of # 0 THEN ConstraintInput(t) ELSE <<>>
  BY <1>2 DEF Evaluations
<1>5. \A e \in RouteReports : u.seen[e] = IF t[e].of = t.plan.id THEN <<t.plan.id, t.routes>> ELSE <<>>
  BY <1>2 DEF Evaluations, RouteReports, RouteInput
<1>6. Outer(t, u) /\ Collected(t, u) /\ SamePlan(t, u)
  BY ONLY <1>1 DEF Fields, Outer, Collected, SamePlan
<1>7. SameReports(t, u) /\ SameTries(t, u) /\ SameVerdict(t, u)
  BY ONLY <1>1 DEF Fields, SameReports, SameTries, SameVerdict
<1>8. AgentTyped(u)
  BY <1>1, <1>3, <1>6, <1>7 DEF AgentTyped, Outer, Collected, SamePlan, SameReports, SameTries
<1>9. Numbered(u)
  BY <1>6, <1>7 DEF Numbered, Outer, Collected, SamePlan, SameTries
<1>10. ConstraintOK(u.constraints, u.seen["constraints"])
  <2>1. CASE ConstraintsMatch(t) /\ t.schedule.of # 0
    <3>1. u.seen["constraints"][1] = t.plan
      BY <1>4, <2>1 DEF ConstraintInput
    <3> QED
      BY <1>7, <2>1, <3>1 DEF ConstraintOK, ConstraintsMatch, SameReports
  <2>2. CASE ~(ConstraintsMatch(t) /\ t.schedule.of # 0)
    BY <1>4, <2>2 DEF ConstraintOK
  <2> QED
    BY <2>1, <2>2
<1>11. ASSUME NEW e \in RouteReports PROVE ReportOK(t[e].of, u.seen[e], t.plan.id, t.routes, t.made)
  <2>1. t.plan.id \in Nat \ {0} /\ t[e].of <= t.made
    BY <1>0 DEF Numbered, RouteReports, PlanRows
  <2> QED
    BY <1>5, <2>1 DEF ReportOK
<1>12. ReportsOK(u)
  BY <1>6, <1>7, <1>10, <1>11 DEF ReportsOK, RouteReports, SamePlan, SameReports
<1>13. BaselinesOK(u.opt, u.base, u.made) /\ ContentOK(u)
  BY <1>6, <1>7 DEF ContentOK, SamePlan, SameTries, Pending
<1>14. RouteFirst(t) => RouteFirst(u)
  BY <1>6, <1>7 DEF RouteFirst, SameReports, SameTries, Pending, Exhausted, Outer
<1> QED
  BY <1>4, <1>5, <1>6, <1>7, <1>8, <1>9, <1>12, <1>13, <1>14 DEF Body

\* The analyses of one optimiser o are cleared; its report becomes empty.
Cleared(t, u, o, keys) ==
    /\ Rec(u) /\ Outer(t, u) /\ Collected(t, u) /\ SamePlan(t, u) /\ u.validation = t.validation
    /\ u.route = t.route
    /\ u.commute = IF o = "commute" THEN NoReport ELSE t.commute
    /\ u.schedule = IF o = "schedule" THEN NoReport ELSE t.schedule
    /\ u.constraints = IF o = "constraint" THEN NoConstraintReport ELSE t.constraints
    /\ u.opt = [t.opt EXCEPT ![o] = "not_started"]
    /\ u.base = [t.base EXCEPT ![o] = NoBaseline]
    /\ u.tried = t.tried \/ u.tried = [t.tried EXCEPT ![o] = 0]
    /\ u.seen = [e \in Evaluations |-> IF e \in keys THEN <<>> ELSE t.seen[e]]

LEMMA NothingRows ==
    /\ NoPlan \in PlanRows /\ NoReport \in ReportRows /\ NoConstraintReport \in ConstraintRows
    /\ NoBaseline \in BaseRows /\ NoBaseline.plan.id = 0 /\ NoReport.of = 0
    /\ NoConstraintReport.of = 0
<1>1. NoPlan \in PlanRows /\ NoPlan.id = 0
  BY DEF NoPlan, PlanRows
<1>2. NoReport \in ReportRows /\ NoReport.of = 0
  BY DEF NoReport, ReportRows
<1>3. NoConstraintReport \in ConstraintRows /\ NoConstraintReport.of = 0
  BY DEF NoConstraintReport, ConstraintRows
<1>4. NoBaseline \in BaseRows /\ NoBaseline.plan = NoPlan
  BY <1>1, <1>2, <1>3 DEF NoBaseline, BaseRows
<1> QED
  BY <1>1, <1>2, <1>3, <1>4

LEMMA ClearedKeeps ==
    ASSUME NEW t, CoreOK(t), NEW o \in {"commute", "schedule", "constraint"}, NEW keys, NEW u,
           Cleared(t, u, o, keys)
    PROVE  CoreOK(u)
<1>0. /\ o \in Optimizers /\ o # "route" /\ "route" \in Optimizers
      /\ t.opt \in [Optimizers -> OptStatuses] /\ t.base \in [Optimizers -> BaseRows]
      /\ t.tried \in [Optimizers -> Nat]
  BY DEF CoreOK, Body, AgentTyped, Optimizers
<1>1. /\ u.opt \in [Optimizers -> OptStatuses] /\ u.opt[o] = "not_started"
      /\ \A q \in Optimizers \ {o} : u.opt[q] = t.opt[q]
  BY <1>0 DEF Cleared, OptStatuses
<1>2. /\ u.base \in [Optimizers -> BaseRows] /\ u.base[o] = NoBaseline
      /\ \A q \in Optimizers \ {o} : u.base[q] = t.base[q]
  BY <1>0, NothingRows DEF Cleared
<1>3. /\ u.tried \in [Optimizers -> Nat] /\ u.tried["route"] = t.tried["route"]
      /\ \A q \in Optimizers : u.tried[q] = 0 \/ u.tried[q] = t.tried[q]
  BY <1>0 DEF Cleared
<1>4. /\ u.seen = [e \in Evaluations |-> u.seen[e]]
      /\ \A e \in Evaluations : u.seen[e] = <<>> \/ u.seen[e] = t.seen[e]
  BY DEF Cleared
<1>5. /\ Outer(t, u) /\ Collected(t, u) /\ SamePlan(t, u) /\ Rec(u) /\ u.route = t.route
      /\ u.commute \in {NoReport, t.commute} /\ u.schedule \in {NoReport, t.schedule}
      /\ u.constraints \in {NoConstraintReport, t.constraints}
  BY DEF Cleared
<1>6. AgentTyped(u)
  BY <1>1, <1>2, <1>3, <1>4, <1>5, NothingRows
     DEF CoreOK, Body, AgentTyped, Outer, Collected, SamePlan
<1>7. Numbered(u)
  <2>1. t.budget.tries \in [Optimizers -> Nat] /\ u.budget = t.budget
    BY <1>5 DEF CoreOK, Body, AgentTyped, Outer, Budget
  <2>2. \A q \in Optimizers : u.tried[q] <= u.budget.tries[q]
    <3>1. \A q \in Optimizers : t.tried[q] <= t.budget.tries[q] /\ t.budget.tries[q] \in Nat
      BY <2>1 DEF CoreOK, Body, Numbered
    <3> QED
      BY <1>3, <2>1, <3>1
  <2> QED
    BY <1>5, <2>2 DEF CoreOK, Body, Numbered, Collected, SamePlan
<1>8. ReportsOK(u)
  <2>1. \A e \in {"route", "commute", "schedule", "constraints"} :
            u.seen[e] = <<>> \/ u.seen[e] = t.seen[e]
    BY <1>4 DEF Evaluations
  <2>2. ReportOK(u.route.of, u.seen["route"], u.plan.id, u.routes, u.made)
    BY <1>5, <2>1 DEF CoreOK, Body, ReportsOK, ReportOK, SamePlan
  <2>3. ReportOK(u.commute.of, u.seen["commute"], u.plan.id, u.routes, u.made)
    <3>1. /\ ReportOK(t.commute.of, t.seen["commute"], t.plan.id, t.routes, t.made) /\ t.made \in Nat
          /\ u.plan = t.plan /\ u.routes = t.routes /\ u.made = t.made
          /\ u.commute.of = 0 \/ u.commute.of = t.commute.of
          /\ u.seen["commute"] = <<>> \/ u.seen["commute"] = t.seen["commute"]
      BY <1>5, <2>1, NothingRows DEF CoreOK, Body, AgentTyped, ReportsOK, SamePlan
    <3> QED
      BY <3>1 DEF ReportOK
  <2>4. ReportOK(u.schedule.of, u.seen["schedule"], u.plan.id, u.routes, u.made)
    <3>1. /\ ReportOK(t.schedule.of, t.seen["schedule"], t.plan.id, t.routes, t.made) /\ t.made \in Nat
          /\ u.plan = t.plan /\ u.routes = t.routes /\ u.made = t.made
          /\ u.schedule.of = 0 \/ u.schedule.of = t.schedule.of
          /\ u.seen["schedule"] = <<>> \/ u.seen["schedule"] = t.seen["schedule"]
      BY <1>5, <2>1, NothingRows DEF CoreOK, Body, AgentTyped, ReportsOK, SamePlan
    <3> QED
      BY <3>1 DEF ReportOK
  <2>5. ConstraintOK(u.constraints, u.seen["constraints"])
    BY <1>5, <2>1, NothingRows DEF CoreOK, Body, ReportsOK, ConstraintOK
  <2> QED
    BY <1>5, <2>2, <2>3, <2>4, <2>5 DEF CoreOK, Body, ReportsOK, SamePlan
<1>9. BaselinesOK(u.opt, u.base, u.made)
  BY <1>0, <1>1, <1>2, <1>5, NothingRows DEF CoreOK, Body, BaselinesOK, SamePlan
<1>10. ContentOK(u)
  BY <1>1, <1>5 DEF CoreOK, Body, ContentOK, SamePlan, Pending
<1>11. RouteFirst(u)
  <2>1. u.opt["route"] = t.opt["route"] /\ (Exhausted(u, "route") <=> Exhausted(t, "route"))
    BY <1>0, <1>1, <1>3, <1>5 DEF Exhausted, Outer
  <2> QED
    BY <1>1, <1>5, <2>1 DEF CoreOK, RouteFirst, Pending
<1> QED
  BY <1>6, <1>7, <1>8, <1>9, <1>10, <1>11 DEF CoreOK, Body

\* _clear_commute_analysis
LEMMA ClearCommuteFacts ==
    ASSUME NEW t, Rec(t), t.tried \in [Optimizers -> Nat], NEW reset \in BOOLEAN,
           NEW u, u = ClearCommuteAnalysis(t, reset)
    PROVE  Cleared(t, u, "commute", {"commute", "validation"})
<1> DEFINE v == Invalidate(t, {"commute", "validation"})
<1>1. /\ Rec(v) /\ Outer(t, v) /\ Collected(t, v) /\ SamePlan(t, v) /\ SameReports(t, v)
      /\ SameTries(t, v) /\ v.validation = t.validation
      /\ v.seen = [e \in Evaluations |-> IF e \in {"commute", "validation"} THEN <<>> ELSE t.seen[e]]
  BY InvalidateFacts
<1>2. u = [v EXCEPT
        !.commute = NoReport, !.opt["commute"] = "not_started", !.query = <<>>,
        !.base["commute"] = NoBaseline,
        !.tried["commute"] = IF reset THEN 0 ELSE @,
        !.searched["commute"] = IF reset THEN 0 ELSE @]
  BY DEF ClearCommuteAnalysis
<1> HIDE DEF v
<1>3. /\ Rec(u)
      /\ \A f \in Fields \ {"commute", "opt", "query", "base", "tried", "searched"} : u[f] = v[f]
  BY <1>1, <1>2 DEF Rec
<1>4. /\ u.commute = NoReport /\ u.opt = [v.opt EXCEPT !["commute"] = "not_started"]
      /\ u.base = [v.base EXCEPT !["commute"] = NoBaseline]
  BY <1>1, <1>2 DEF Rec, Fields
<1>5. u.tried = [v.tried EXCEPT !["commute"] = IF reset THEN 0 ELSE @]
  BY <1>1, <1>2 DEF Rec, Fields
<1>6. u.tried = v.tried \/ u.tried = [v.tried EXCEPT !["commute"] = 0]
  <2>1. v.tried \in [Optimizers -> Nat] /\ "commute" \in Optimizers
    BY <1>1 DEF SameTries, Optimizers
  <2>2. CASE reset = TRUE
    BY <1>5, <2>2
  <2>3. CASE reset = FALSE
    BY <1>5, <2>1, <2>3
  <2> QED
    BY <2>2, <2>3
<1>7. Outer(v, u) /\ Collected(v, u) /\ SamePlan(v, u)
  BY ONLY <1>3 DEF Fields, Outer, Collected, SamePlan
<1>8. /\ u.validation = v.validation /\ u.route = v.route /\ u.schedule = v.schedule
      /\ u.constraints = v.constraints /\ u.seen = v.seen
  BY ONLY <1>3 DEF Fields
<1>9. Outer(t, u) /\ Collected(t, u) /\ SamePlan(t, u)
  BY <1>1, <1>7 DEF Outer, Collected, SamePlan
<1>10. /\ u.validation = t.validation /\ u.route = t.route /\ u.schedule = t.schedule
       /\ u.constraints = t.constraints
       /\ u.seen = v.seen /\ v.opt = t.opt /\ v.tried = t.tried /\ v.base = t.base
  BY <1>1, <1>8 DEF SameReports, SameTries
<1>11. u.seen = [e \in Evaluations |-> IF e \in {"commute", "validation"} THEN <<>> ELSE t.seen[e]]
  BY <1>1, <1>10
<1>12. /\ u.opt = [t.opt EXCEPT !["commute"] = "not_started"] /\ u.base = [t.base EXCEPT !["commute"] = NoBaseline]
       /\ u.tried = t.tried \/ u.tried = [t.tried EXCEPT !["commute"] = 0]
  BY <1>4, <1>6, <1>10
<1>13. Rec(u) /\ u.commute = NoReport
  BY <1>3, <1>4
<1> QED
  BY ONLY <1>9, <1>10, <1>11, <1>12, <1>13 DEF Cleared

\* _clear_constraint_analysis
LEMMA ClearConstraintFacts ==
    ASSUME NEW t, Rec(t), t.tried \in [Optimizers -> Nat], NEW reset \in BOOLEAN,
           NEW u, u = ClearConstraintAnalysis(t, reset)
    PROVE  Cleared(t, u, "constraint", {"constraints", "validation"})
<1> DEFINE v == Invalidate(t, {"constraints", "validation"})
<1>1. /\ Rec(v) /\ Outer(t, v) /\ Collected(t, v) /\ SamePlan(t, v) /\ SameReports(t, v)
      /\ SameTries(t, v) /\ v.validation = t.validation
      /\ v.seen = [e \in Evaluations |-> IF e \in {"constraints", "validation"} THEN <<>> ELSE t.seen[e]]
  BY InvalidateFacts
<1>2. u = [v EXCEPT
        !.constraints = NoConstraintReport, !.opt["constraint"] = "not_started",
        !.base["constraint"] = NoBaseline,
        !.tried["constraint"] = IF reset THEN 0 ELSE @]
  BY DEF ClearConstraintAnalysis
<1> HIDE DEF v
<1>3. /\ Rec(u)
      /\ \A f \in Fields \ {"constraints", "opt", "base", "tried"} : u[f] = v[f]
  BY <1>1, <1>2 DEF Rec
<1>4. /\ u.constraints = NoConstraintReport /\ u.opt = [v.opt EXCEPT !["constraint"] = "not_started"]
      /\ u.base = [v.base EXCEPT !["constraint"] = NoBaseline]
  BY <1>1, <1>2 DEF Rec, Fields
<1>5. u.tried = [v.tried EXCEPT !["constraint"] = IF reset THEN 0 ELSE @]
  BY <1>1, <1>2 DEF Rec, Fields
<1>6. u.tried = v.tried \/ u.tried = [v.tried EXCEPT !["constraint"] = 0]
  <2>1. v.tried \in [Optimizers -> Nat] /\ "constraint" \in Optimizers
    BY <1>1 DEF SameTries, Optimizers
  <2>2. CASE reset = TRUE
    BY <1>5, <2>2
  <2>3. CASE reset = FALSE
    BY <1>5, <2>1, <2>3
  <2> QED
    BY <2>2, <2>3
<1>7. Outer(v, u) /\ Collected(v, u) /\ SamePlan(v, u)
  BY ONLY <1>3 DEF Fields, Outer, Collected, SamePlan
<1>8. /\ u.validation = v.validation /\ u.route = v.route /\ u.schedule = v.schedule
      /\ u.commute = v.commute /\ u.seen = v.seen
  BY ONLY <1>3 DEF Fields
<1>9. Outer(t, u) /\ Collected(t, u) /\ SamePlan(t, u)
  BY <1>1, <1>7 DEF Outer, Collected, SamePlan
<1>10. /\ u.validation = t.validation /\ u.route = t.route /\ u.schedule = t.schedule
       /\ u.commute = t.commute
       /\ u.seen = v.seen /\ v.opt = t.opt /\ v.tried = t.tried /\ v.base = t.base
  BY <1>1, <1>8 DEF SameReports, SameTries
<1>11. u.seen = [e \in Evaluations |-> IF e \in {"constraints", "validation"} THEN <<>> ELSE t.seen[e]]
  BY <1>1, <1>10
<1>12. /\ u.opt = [t.opt EXCEPT !["constraint"] = "not_started"] /\ u.base = [t.base EXCEPT !["constraint"] = NoBaseline]
       /\ u.tried = t.tried \/ u.tried = [t.tried EXCEPT !["constraint"] = 0]
  BY <1>4, <1>6, <1>10
<1>13. Rec(u) /\ u.constraints = NoConstraintReport
  BY <1>3, <1>4
<1> QED
  BY ONLY <1>9, <1>10, <1>11, <1>12, <1>13 DEF Cleared

LEMMA ClearScheduleFacts ==
    ASSUME NEW t, Rec(t), t.seen = [e \in Evaluations |-> t.seen[e]],
           NEW u, u = ClearScheduleOptimization(t)
    PROVE  Cleared(t, u, "schedule", {})
<1>1. Rec(u) /\ \A f \in Fields \ {"schedule", "opt", "base"} : u[f] = t[f]
  BY DEF Rec, ClearScheduleOptimization
<1>2. /\ u.schedule = NoReport /\ u.opt = [t.opt EXCEPT !["schedule"] = "not_started"]
      /\ u.base = [t.base EXCEPT !["schedule"] = NoBaseline]
  BY DEF Rec, Fields, ClearScheduleOptimization
<1>3. Outer(t, u) /\ Collected(t, u) /\ SamePlan(t, u)
  BY ONLY <1>1 DEF Fields, Outer, Collected, SamePlan
<1>4. /\ u.validation = t.validation /\ u.route = t.route /\ u.commute = t.commute
      /\ u.constraints = t.constraints /\ u.seen = t.seen /\ u.tried = t.tried
  BY ONLY <1>1 DEF Fields
<1> QED
  BY <1>1, <1>2, <1>3, <1>4 DEF Cleared

----------------------------------------------------------------------------
(* Candidates.                                                             *)

LEMMA BaselineFacts ==
    ASSUME NEW t, AgentTyped(t), NEW o \in Optimizers, NEW b,
           b = [f \in DOMAIN NoBaseline |-> IF f \in Kept(o) THEN t[f] ELSE NoBaseline[f]]
    PROVE  /\ b \in BaseRows /\ b.plan = t.plan /\ b.routes = t.routes /\ b.route = t.route
           /\ o # "route" => b.schedule = t.schedule
           /\ o \in {"constraint", "commute", "refill"} => b.constraints = t.constraints
           /\ o = "commute" => b.commute = t.commute
<1> DEFINE K == Kept(o)
<1>1. DOMAIN NoBaseline = {"plan", "routes", "route", "commute", "schedule", "constraints"}
  BY DEF NoBaseline
<1>2. /\ "plan" \in K /\ "routes" \in K /\ "route" \in K
      /\ o # "route" => "schedule" \in K
      /\ o \in {"constraint", "commute", "refill"} => "constraints" \in K
      /\ o = "commute" => "commute" \in K
  BY DEF Kept
<1> HIDE DEF K
<1>3. b = [f \in {"plan", "routes", "route", "commute", "schedule", "constraints"} |->
              IF f \in K THEN t[f] ELSE NoBaseline[f]]
  BY <1>1 DEF K
<1>4. /\ b.plan = t.plan /\ b.routes = t.routes /\ b.route = t.route
      /\ b.schedule = IF "schedule" \in K THEN t.schedule ELSE NoBaseline.schedule
      /\ b.constraints = IF "constraints" \in K THEN t.constraints ELSE NoBaseline.constraints
      /\ b.commute = IF "commute" \in K THEN t.commute ELSE NoBaseline.commute
  BY <1>2, <1>3
<1>5. /\ b.plan \in PlanRows /\ b.routes \in Nat /\ b.route \in ReportRows
      /\ b.schedule \in ReportRows /\ b.commute \in ReportRows /\ b.constraints \in ConstraintRows
  BY <1>4, NothingRows DEF AgentTyped, NoBaseline
<1>6. b = [plan |-> b.plan, routes |-> b.routes, route |-> b.route, commute |-> b.commute,
           schedule |-> b.schedule, constraints |-> b.constraints]
  BY <1>3
<1>7. b \in BaseRows
  BY <1>5, <1>6 DEF BaseRows
<1> QED
  BY <1>2, <1>4, <1>7

\* What has to be true before o adopts a candidate.
Adoptable(t, o) ==
    /\ \A q \in Optimizers : ~Pending(t, q)
    /\ t.plan.id # 0 /\ t.routes = t.plan.id /\ t.route.of = t.plan.id
    /\ o # "route" => t.schedule.of = t.plan.id /\ t.opt["route"] # "not_started"
    /\ o \in {"constraint", "commute", "refill"} => ConstraintsMatch(t)
    /\ o = "commute" => t.commute.of = t.plan.id
    /\ ~Exhausted(t, o)

LEMMA AdoptKeeps ==
    ASSUME NEW t, CoreOK(t), NEW o \in Optimizers, Adoptable(t, o),
           NEW p \in PlanRows, p.id = t.made + 1, NEW u, u = Adopt(t, o, p)
    PROVE  CoreOK(u) /\ Outer(t, u) /\ u.validation = "none"
<1> DEFINE b == [f \in DOMAIN NoBaseline |-> IF f \in Kept(o) THEN t[f] ELSE NoBaseline[f]]
<1>0. /\ AgentTyped(t) /\ Rec(t) /\ "route" \in Optimizers
      /\ t.opt \in [Optimizers -> OptStatuses] /\ t.base \in [Optimizers -> BaseRows]
      /\ t.tried \in [Optimizers -> Nat] /\ t.made \in Nat /\ t.plan \in PlanRows
      /\ t.budget.tries \in [Optimizers -> Nat]
  BY DEF CoreOK, Body, AgentTyped, Optimizers, Budget
<1>1. /\ b \in BaseRows /\ b.plan = t.plan /\ b.routes = t.routes /\ b.route = t.route
      /\ o # "route" => b.schedule = t.schedule
      /\ o \in {"constraint", "commute", "refill"} => b.constraints = t.constraints
      /\ o = "commute" => b.commute = t.commute
  BY <1>0, BaselineFacts
<1>2. u = [t EXCEPT !.base[o] = b,
              !.plan = p, !.made = p.id, !.tried[o] = @ + 1, !.opt[o] = "candidate_pending",
              !.routes = 0, !.route = NoReport, !.schedule = NoReport,
              !.content = 0, !.validation = "none"]
  BY DEF Adopt
<1> HIDE DEF b
<1>3. /\ Rec(u)
      /\ \A f \in Fields \ {"base", "plan", "made", "tried", "opt", "routes", "route", "schedule",
                            "content", "validation"} : u[f] = t[f]
  BY <1>0, <1>2 DEF Rec
<1>4. /\ u.plan = p /\ u.made = p.id /\ u.routes = 0 /\ u.route = NoReport /\ u.schedule = NoReport
      /\ u.content = 0 /\ u.validation = "none"
  <2>1. Rec(t)
    BY <1>0
  <2>2. u.plan = p /\ u.made = p.id /\ u.routes = 0
    BY ONLY <1>2, <2>1 DEF Rec, Fields
  <2>3. u.route = NoReport /\ u.schedule = NoReport
    BY ONLY <1>2, <2>1 DEF Rec, Fields
  <2>4. u.content = 0 /\ u.validation = "none"
    BY ONLY <1>2, <2>1 DEF Rec, Fields
  <2> QED
    BY <2>2, <2>3, <2>4
<1>5. /\ u.base = [t.base EXCEPT ![o] = b] /\ u.opt = [t.opt EXCEPT ![o] = "candidate_pending"]
      /\ u.tried = [t.tried EXCEPT ![o] = @ + 1]
  BY <1>0, <1>2 DEF Rec, Fields
<1>6. Outer(t, u) /\ Collected(t, u) /\ u.seen = t.seen
  BY ONLY <1>3 DEF Fields, Outer, Collected
<1>7. u.commute = t.commute /\ u.constraints = t.constraints
  BY ONLY <1>3 DEF Fields
<1>8. /\ u.base \in [Optimizers -> BaseRows] /\ u.base[o] = b
      /\ \A q \in Optimizers \ {o} : u.base[q] = t.base[q]
  BY <1>0, <1>1, <1>5
<1>9. /\ u.opt \in [Optimizers -> OptStatuses] /\ u.opt[o] = "candidate_pending"
      /\ \A q \in Optimizers \ {o} : u.opt[q] = t.opt[q] /\ u.opt[q] # "candidate_pending"
  BY <1>0, <1>5 DEF OptStatuses, Adoptable, Pending
<1>10. u.tried \in [Optimizers -> Nat] /\ \A q \in Optimizers : u.tried[q] <= t.budget.tries[q]
  <2>1. /\ \A q \in Optimizers : t.tried[q] <= t.budget.tries[q] /\ t.tried[q] \in Nat /\ t.budget.tries[q] \in Nat
        /\ t.tried[o] < t.budget.tries[o]
    BY <1>0 DEF CoreOK, Body, Numbered, Adoptable, Exhausted
  <2>2. u.tried[o] = t.tried[o] + 1 /\ \A q \in Optimizers \ {o} : u.tried[q] = t.tried[q]
    BY <1>0, <1>5
  <2>3. u.tried \in [Optimizers -> Nat]
    BY <1>0, <1>5, <2>1
  <2> QED
    BY <2>1, <2>2, <2>3
<1>11. AgentTyped(u)
  <2>1. p.id \in Nat
    BY DEF PlanRows
  <2> QED
    BY <1>0, <1>3, <1>4, <1>6, <1>7, <1>8, <1>9, <1>10, <2>1, NothingRows DEF AgentTyped, Outer, Collected
<1>12. t.routes <= t.made /\ t.food <= t.made /\ t.food \in Nat /\ t.plan.id <= t.made /\ t.plan.id \in Nat
  BY <1>0 DEF CoreOK, Body, Numbered, AgentTyped, PlanRows
<1>13. Numbered(u)
  <2>1. u.plan.id <= u.made /\ u.routes <= u.made /\ u.food <= u.made
    BY <1>0, <1>4, <1>6, <1>12 DEF Collected
  <2> QED
    BY <1>6, <1>10, <2>1 DEF Numbered, Outer
<1>14. ReportsOK(u)
  <2>1. ReportOK(t.commute.of, t.seen["commute"], t.plan.id, t.routes, t.made) /\ t.commute.of \in Nat
    BY <1>0 DEF CoreOK, Body, ReportsOK, AgentTyped, ReportRows
  <2>2. /\ ReportOK(t.route.of, t.seen["route"], t.plan.id, t.routes, t.made)
        /\ ReportOK(t.schedule.of, t.seen["schedule"], t.plan.id, t.routes, t.made)
    BY DEF CoreOK, Body, ReportsOK
  <2>3. ReportOK(t.commute.of, t.seen["commute"], p.id, 0, p.id)
    BY <1>0, <2>1 DEF ReportOK
  <2>4. ReportOK(0, t.seen["route"], p.id, 0, p.id) /\ ReportOK(0, t.seen["schedule"], p.id, 0, p.id)
    BY <1>0, <2>2 DEF ReportOK
  <2>5. ConstraintOK(t.constraints, t.seen["constraints"])
    BY DEF CoreOK, Body, ReportsOK
  <2>6. p.id # 0
    BY <1>0
  <2> QED
    BY <1>4, <1>6, <1>7, <2>3, <2>4, <2>5, <2>6, NothingRows DEF ReportsOK
<1>15. BaselineOK(b, o, p.id)
  BY <1>0, <1>1, <1>12 DEF BaselineOK, Adoptable, ConstraintsMatch
<1>16. BaselinesOK(u.opt, u.base, u.made)
  <2>1. \A q \in Optimizers \ {o} : u.base[q].plan.id = 0
    BY <1>8, <1>9 DEF CoreOK, Body, BaselinesOK
  <2>2. b.plan.id # 0
    BY <1>1 DEF Adoptable
  <2> QED
    BY <1>4, <1>8, <1>9, <1>15, <2>1, <2>2 DEF BaselinesOK
<1>17. ContentOK(u)
  <2>1. p.id # 0
    BY <1>0
  <2> QED
    BY <1>4, <2>1 DEF ContentOK
<1>18. RouteFirst(u)
  <2>1. u.opt["route"] # "not_started"
    BY <1>0, <1>9 DEF Adoptable
  <2> QED
    BY <2>1 DEF RouteFirst
<1> QED
  BY <1>4, <1>6, <1>11, <1>13, <1>14, <1>16, <1>17, <1>18 DEF CoreOK, Body

\* What gives a candidate up: the baseline with its reports, all of them current.
Reverted(u, o) ==
    /\ u.routes = u.plan.id
    /\ \A e \in Kept(o) \cap RouteReports : Current(u, e)
    /\ "constraints" \in Kept(o) => ConstraintsCurrent(u)

LEMMA RestoreKeeps ==
    ASSUME NEW t, CoreOK(t), NEW o \in Optimizers, Pending(t, o), NEW u, u = Restore(t, o)
    PROVE  /\ CoreOK(u) /\ Outer(t, u) /\ Reverted(u, o) /\ u.plan.id # 0 /\ u.routes = u.plan.id
           /\ SameTries(t, u)
<1> DEFINE K == Kept(o)
           b == t.base[o]
           v == [f \in DOMAIN t |-> IF f \in K THEN b[f] ELSE t[f]]
<1>0. /\ AgentTyped(t) /\ Rec(t) /\ b \in BaseRows /\ t.made \in Nat
  BY DEF CoreOK, Body, AgentTyped
<1>1. BaselineOK(b, o, t.made) /\ b.plan.id # 0 /\ t.content = 0
  BY DEF CoreOK, Body, BaselinesOK, ContentOK, Pending
<1>2. /\ "plan" \in K /\ "routes" \in K /\ "route" \in K
      /\ o # "route" <=> "schedule" \in K
      /\ o \in {"constraint", "commute", "refill"} <=> "constraints" \in K
      /\ o = "commute" <=> "commute" \in K
      /\ K \subseteq {"plan", "routes", "route", "commute", "schedule", "constraints"}
  BY DEF Kept, Optimizers
<1>3. u = SynchronizeEvaluationFingerprints(v)
  BY DEF Restore
<1> HIDE DEF K, b
<1>4. Rec(v) /\ \A f \in Fields : v[f] = IF f \in K THEN b[f] ELSE t[f]
  BY <1>0 DEF Rec
<1> HIDE DEF v
<1>5. \A f \in Fields \ {"plan", "routes", "route", "commute", "schedule", "constraints"} : v[f] = t[f]
  BY <1>2, <1>4
<1>6. Outer(t, v) /\ Collected(t, v)
  BY ONLY <1>5 DEF Fields, Outer, Collected
<1>7. SameTries(t, v) /\ v.seen = t.seen /\ v.made = t.made /\ v.content = t.content
  BY ONLY <1>5 DEF Fields, SameTries
<1>8. /\ v.plan = b.plan /\ v.routes = b.routes /\ v.route = b.route
      /\ v.schedule = IF "schedule" \in K THEN b.schedule ELSE t.schedule
      /\ v.constraints = IF "constraints" \in K THEN b.constraints ELSE t.constraints
      /\ v.commute = IF "commute" \in K THEN b.commute ELSE t.commute
  BY <1>2, <1>4 DEF Fields
<1>9. /\ b.plan \in PlanRows /\ b.routes \in Nat /\ b.route \in ReportRows /\ b.schedule \in ReportRows
      /\ b.constraints \in ConstraintRows /\ b.commute \in ReportRows
  BY <1>0 DEF BaseRows
<1>10. AgentTyped(v)
  <2>1. v.route \in ReportRows /\ v.commute \in ReportRows /\ v.schedule \in ReportRows /\ v.constraints \in ConstraintRows
    BY <1>0, <1>8, <1>9 DEF AgentTyped
  <2> QED
    BY <1>0, <1>4, <1>6, <1>7, <1>8, <1>9, <2>1 DEF AgentTyped, Outer, Collected, SameTries
<1>11. Numbered(v)
  <2>1. v.plan.id <= v.made /\ v.routes <= v.made
    BY <1>1, <1>7, <1>8 DEF BaselineOK
  <2> QED
    BY <1>6, <1>7, <2>1 DEF CoreOK, Body, Numbered, Outer, Collected, SameTries
<1>12. BaselinesOK(v.opt, v.base, v.made)
  BY <1>7 DEF CoreOK, Body, SameTries
<1>13. ContentOK(v)
  <2>1. v.plan.id # 0 /\ v.content = 0
    BY <1>1, <1>7, <1>8
  <2> QED
    BY <2>1 DEF ContentOK
<1>14. v.plan.id # 0 /\ v.routes = v.plan.id /\ v.route.of = v.plan.id
  BY <1>1, <1>8 DEF BaselineOK
<1>15. v.commute.of <= v.made /\ v.schedule.of <= v.made
  <2>1. t.commute.of <= t.made /\ t.schedule.of <= t.made
    BY DEF CoreOK, Body, ReportsOK, ReportOK
  <2>2. "commute" \in K => b.commute.of <= t.made
    BY <1>1, <1>2 DEF BaselineOK
  <2>3. "schedule" \in K => b.schedule.of <= t.made
    BY <1>1, <1>2 DEF BaselineOK
  <2> QED
    BY <1>7, <1>8, <2>1, <2>2, <2>3
<1>16. RouteFirst(v)
  <2>1. t.opt["route"] # "not_started" /\ v.opt = t.opt
    BY <1>7 DEF CoreOK, RouteFirst, SameTries
  <2> QED
    BY <2>1 DEF RouteFirst
<1>17. /\ Body(u) /\ RouteFirst(u)
       /\ Outer(v, u) /\ Collected(v, u) /\ SamePlan(v, u) /\ SameReports(v, u)
       /\ SameTries(v, u)
       /\ \A e \in RouteReports : v[e].of = v.plan.id => u.seen[e] = <<v.plan.id, v.routes>>
       /\ ConstraintsMatch(v) /\ v.schedule.of # 0 => u.seen["constraints"] = ConstraintInput(v)
  BY <1>3, <1>10, <1>11, <1>12, <1>13, <1>14, <1>15, <1>16, SynchronizeKeeps
<1>18. ASSUME NEW e \in K \cap RouteReports PROVE Current(u, e)
  <2>1. v[e].of = v.plan.id
    <3>1. CASE e = "route"
      BY <1>14, <3>1
    <3>2. CASE e = "schedule"
      BY <1>1, <1>2, <1>8, <3>2 DEF BaselineOK
    <3>3. CASE e = "commute"
      BY <1>1, <1>2, <1>8, <3>3 DEF BaselineOK
    <3> QED
      BY <3>1, <3>2, <3>3 DEF RouteReports
  <2>2. u[e] = v[e]
    BY <1>17 DEF SameReports, RouteReports
  <2>3. u.seen[e] = <<v.plan.id, v.routes>>
    BY <1>17, <2>1
  <2>4. u.seen[e] = RouteInput(u)
    BY <1>17, <2>3 DEF RouteInput, SamePlan
  <2>5. u.seen[e] # <<>>
    BY <2>3
  <2> QED
    BY <1>14, <2>1, <2>2, <2>4, <2>5 DEF Current, EvaluationIsCurrent
<1>19. ASSUME "constraints" \in K PROVE ConstraintsCurrent(u)
  <2>1. ConstraintsMatch(v) /\ v.schedule.of # 0
    BY <1>1, <1>2, <1>8, <1>19 DEF BaselineOK, ConstraintsMatch
  <2>2. u.seen["constraints"] = ConstraintInput(v)
    BY <1>17, <2>1
  <2>3. ConstraintInput(u) = ConstraintInput(v)
    BY <1>6, <1>17 DEF ConstraintInput, SamePlan, SameReports, Collected
  <2>4. ConstraintInput(v) # <<>>
    BY DEF ConstraintInput
  <2>5. u.constraints.of # 0
    BY <1>14, <1>17, <2>1 DEF ConstraintsMatch, SameReports
  <2> QED
    BY <2>2, <2>3, <2>4, <2>5 DEF ConstraintsCurrent, EvaluationIsCurrent
<1>20. Reverted(u, o) /\ u.plan.id # 0 /\ u.routes = u.plan.id
  BY <1>14, <1>17, <1>18, <1>19 DEF Reverted, SamePlan, K
<1> QED
  BY <1>6, <1>7, <1>17, <1>20 DEF CoreOK, Outer, SameTries

\* A candidate is kept or given up.
LEMMA SettleKeeps ==
    ASSUME NEW t, CoreOK(t), NEW o \in Optimizers, NEW x \in OptStatuses \ {"candidate_pending"},
           o # "route" \/ x # "not_started", NEW u, u = Settle(t, o, x)
    PROVE  /\ CoreOK(u) /\ Outer(t, u) /\ Collected(t, u) /\ SamePlan(t, u) /\ SameReports(t, u)
           /\ u.seen = t.seen /\ u.validation = "none" /\ Rec(u) /\ u.tried = t.tried
           /\ \A q \in Optimizers \ {o} : u.opt[q] = t.opt[q]
<1>0. /\ Rec(t) /\ "route" \in Optimizers
      /\ t.opt \in [Optimizers -> OptStatuses] /\ t.base \in [Optimizers -> BaseRows]
  BY DEF CoreOK, Body, AgentTyped, Optimizers
<1>1. Rec(u) /\ \A f \in Fields \ {"opt", "base", "validation"} : u[f] = t[f]
  BY <1>0 DEF Rec, Settle
<1>2. /\ u.opt = [t.opt EXCEPT ![o] = x] /\ u.base = [t.base EXCEPT ![o] = NoBaseline]
      /\ u.validation = "none"
  BY <1>0 DEF Rec, Fields, Settle
<1>3. Outer(t, u) /\ Collected(t, u) /\ SamePlan(t, u)
  BY ONLY <1>1 DEF Fields, Outer, Collected, SamePlan
<1>4. SameReports(t, u) /\ u.seen = t.seen /\ u.tried = t.tried
  BY ONLY <1>1 DEF Fields, SameReports
<1>5. /\ u.opt \in [Optimizers -> OptStatuses] /\ u.opt[o] = x
      /\ \A q \in Optimizers \ {o} : u.opt[q] = t.opt[q]
  BY <1>0, <1>2
<1>6. /\ u.base \in [Optimizers -> BaseRows] /\ u.base[o] = NoBaseline
      /\ \A q \in Optimizers \ {o} : u.base[q] = t.base[q]
  BY <1>0, <1>2, NothingRows
<1>7. AgentTyped(u)
  BY <1>1, <1>3, <1>4, <1>5, <1>6 DEF CoreOK, Body, AgentTyped, Outer, Collected, SamePlan, SameReports
<1>8. Numbered(u)
  BY <1>3, <1>4 DEF CoreOK, Body, Numbered, Outer, Collected, SamePlan
<1>9. ReportsOK(u)
  BY <1>3, <1>4 DEF CoreOK, Body, ReportsOK, SamePlan, SameReports
<1>10. BaselinesOK(u.opt, u.base, u.made)
  BY <1>3, <1>5, <1>6, NothingRows DEF CoreOK, Body, BaselinesOK, SamePlan
<1>11. \A q \in Optimizers : Pending(u, q) => Pending(t, q)
  BY <1>5 DEF Pending
<1>12. ContentOK(u)
  BY <1>3, <1>11 DEF CoreOK, Body, ContentOK, SamePlan
<1>13. RouteFirst(u)
  <2>1. u.opt["route"] = "not_started" => t.opt["route"] = "not_started"
    BY <1>0, <1>5
  <2>2. u.route = t.route /\ (Exhausted(u, "route") <=> Exhausted(t, "route"))
    BY <1>3, <1>4 DEF SameReports, Exhausted, Outer
  <2> QED
    BY <1>11, <2>1, <2>2 DEF CoreOK, RouteFirst
<1> QED
  BY <1>1, <1>2, <1>3, <1>4, <1>5, <1>7, <1>8, <1>9, <1>10, <1>12, <1>13 DEF CoreOK, Body

----------------------------------------------------------------------------
(* decide_next_action: what a decision tells about the state.              *)

Past(t) == t.plan.id # 0 /\ t.routes = t.plan.id

\* The route optimiser has nothing to do.
RoutesDone(t) ==
    /\ Past(t) /\ t.opt["refill"] # "supplement_needed" /\ Current(t, "route") /\ ~Pending(t, "route")
    /\ ~(Wanted(t, "route", t.route) /\ t.tried["route"] < t.budget.tries["route"])

\* No candidate waits and the reports that candidates are made from are current.
Quiet(t) ==
    /\ RoutesDone(t) /\ \A o \in Optimizers : ~Pending(t, o)
    /\ Current(t, "commute") /\ Current(t, "schedule")

LEMMA EarlyNone ==
    ASSUME NEW t, DecideEarly(t) = "none"
    PROVE  /\ t.pool # 0 /\ t.weather /\ t.hotels /\ RoutesDone(t)
           /\ \A o \in {"schedule", "constraint", "refill"} : ~Pending(t, o)
<1>1. t.pool # 0 /\ t.weather /\ t.hotels /\ Past(t) /\ t.opt["refill"] # "supplement_needed"
  BY DEF DecideEarly, Past
<1>2. /\ Current(t, "route") /\ ~Pending(t, "route")
      /\ ~(Wanted(t, "route", t.route) /\ t.tried["route"] < t.budget.tries["route"])
  BY <1>1 DEF DecideEarly, Past
<1>3. ~\E o \in {"schedule", "constraint", "refill"} : Pending(t, o)
  BY <1>1, <1>2 DEF DecideEarly, Past, AfterConstraints
<1> QED
  BY <1>1, <1>2, <1>3 DEF RoutesDone

EarlyActions == {"none", "search_attractions", "get_weather", "search_hotels", "generate_plan",
                 "estimate_routes", "supplement_attractions", "optimize_routes", "evaluate_schedule",
                 "optimize_schedule", "evaluate_constraints", "optimize_constraints",
                 "refill_attractions"}

\* An early decision other than "none".
LEMMA EarlySome ==
    ASSUME NEW t, DecideEarly(t) # "none"
    PROVE  /\ DecideEarly(t) \in EarlyActions
           /\ DecideEarly(t) = "generate_plan" => t.plan.id = 0
           /\ DecideEarly(t) = "estimate_routes" => t.plan.id # 0
           /\ DecideEarly(t) = "supplement_attractions" => t.opt["refill"] = "supplement_needed"
           /\ DecideEarly(t) = "optimize_routes" =>
                 Past(t) /\ (~Current(t, "route") \/ Pending(t, "route") \/ Wanted(t, "route", t.route))
           /\ DecideEarly(t) = "evaluate_schedule" => Past(t)
           /\ DecideEarly(t) = "optimize_schedule" => Past(t) /\ Pending(t, "schedule")
           /\ DecideEarly(t) = "optimize_constraints" => Past(t) /\ Pending(t, "constraint")
           /\ DecideEarly(t) = "refill_attractions" => Past(t) /\ Pending(t, "refill")
<1>1. CASE t.pool = 0 \/ ~t.weather \/ ~t.hotels \/ t.plan.id = 0 \/ t.routes # t.plan.id
           \/ t.opt["refill"] = "supplement_needed"
  BY <1>1 DEF DecideEarly, EarlyActions
<1>2. CASE ~(t.pool = 0 \/ ~t.weather \/ ~t.hotels \/ t.plan.id = 0 \/ t.routes # t.plan.id
           \/ t.opt["refill"] = "supplement_needed")
  <2>0. Past(t)
    BY <1>2 DEF Past
  <2>1. CASE \/ ~Current(t, "route") \/ Pending(t, "route")
             \/ Wanted(t, "route", t.route) /\ t.tried["route"] < t.budget.tries["route"]
    <3>1. DecideEarly(t) = "optimize_routes"
      BY <1>2, <2>1 DEF DecideEarly
    <3> QED
      BY <2>0, <2>1, <3>1 DEF EarlyActions
  <2>2. CASE ~(\/ ~Current(t, "route") \/ Pending(t, "route")
               \/ Wanted(t, "route", t.route) /\ t.tried["route"] < t.budget.tries["route"])
    <3>1. \E o \in {"schedule", "constraint", "refill"} : Pending(t, o)
      BY <1>2, <2>2 DEF DecideEarly
    <3>2. DecideEarly(t) =
              IF ~Current(t, "schedule") THEN "evaluate_schedule"
              ELSE IF Pending(t, "schedule") THEN "optimize_schedule"
              ELSE IF Pending(t, "constraint") THEN AfterConstraints(t, "optimize_constraints")
              ELSE AfterConstraints(t, "refill_attractions")
      BY <1>2, <2>2, <3>1 DEF DecideEarly
    <3> QED
      BY <2>0, <3>1, <3>2 DEF EarlyActions, AfterConstraints
  <2> QED
    BY <2>1, <2>2
<1> QED
  BY <1>1, <1>2

LateActions == {"evaluate_commute", "evaluate_schedule", "supplement_attractions",
                "replace_remote_attraction", "optimize_schedule", "evaluate_constraints",
                "optimize_constraints", "refill_attractions", "search_restaurants",
                "rebuild_plan_content", "validate_plan", "finish", "repair_plan"}

Verdicts == {"validate_plan", "finish", "repair_plan"}

LEMMA LateSome ==
    ASSUME NEW t, DecideEarly(t) = "none"
    PROVE  /\ DecideLate(t) \in LateActions
           /\ DecideLate(t) = "supplement_attractions" => t.opt["commute"] = "supplement_needed"
           /\ DecideLate(t) = "replace_remote_attraction" =>
                 Current(t, "commute") /\ Current(t, "schedule") /\ ConstraintsCurrent(t)
           /\ DecideLate(t) \in {"optimize_schedule", "optimize_constraints", "refill_attractions",
                                 "rebuild_plan_content"} => Quiet(t)
           /\ DecideLate(t) = "refill_attractions" => ConstraintsCurrent(t)
           /\ DecideLate(t) \in Verdicts <=> Ready(t)
           /\ DecideLate(t) = "finish" => ValidationCurrent(t) /\ Deliverable(t)
<1>0. /\ t.pool # 0 /\ t.weather /\ t.hotels /\ RoutesDone(t)
      /\ \A o \in {"schedule", "constraint", "refill"} : ~Pending(t, o)
  BY EarlyNone
<1> DEFINE late == DecideLate(t)
<1>1. CASE ~Current(t, "commute") \/ ~Current(t, "schedule") \/ t.opt["commute"] = "supplement_needed"
  <2>1. ~Ready(t)
    BY <1>1 DEF Ready
  <2> QED
    BY <1>1, <2>1 DEF DecideLate, LateActions, Verdicts
<1>2. CASE ~(~Current(t, "commute") \/ ~Current(t, "schedule") \/ t.opt["commute"] = "supplement_needed")
  <2>1. CASE Pending(t, "commute") \/ Wanted(t, "commute", t.commute)
    <3>1. late = AfterConstraints(t, "replace_remote_attraction")
      BY <1>2, <2>1 DEF DecideLate
    <3>2. ~Ready(t)
      BY <2>1 DEF Ready, Optimizers
    <3> QED
      BY <1>2, <3>1, <3>2 DEF AfterConstraints, LateActions, Verdicts
  <2>2. CASE ~(Pending(t, "commute") \/ Wanted(t, "commute", t.commute))
    <3>0. Quiet(t)
      BY <1>0, <1>2, <2>2 DEF Quiet, RoutesDone, Optimizers
    <3>1. CASE Wanted(t, "schedule", t.schedule)
      <4>1. late = "optimize_schedule"
        BY <1>2, <2>2, <3>1 DEF DecideLate
      <4>2. ~Ready(t)
        BY <3>1 DEF Ready
      <4> QED
        BY <3>0, <4>1, <4>2 DEF LateActions, Verdicts
    <3>2. CASE ~Wanted(t, "schedule", t.schedule) /\ RefillNeeded(t)
      <4>1. \/ late = AfterConstraints(t, "optimize_constraints")
            \/ late = AfterConstraints(t, "refill_attractions")
        BY <1>2, <2>2, <3>2 DEF DecideLate
      <4>2. ~Ready(t)
        BY <3>2 DEF Ready
      <4> QED
        BY <3>0, <4>1, <4>2 DEF AfterConstraints, LateActions, Verdicts
    <3>3. CASE ~Wanted(t, "schedule", t.schedule) /\ ~RefillNeeded(t)
      <4>1. late = IF t.food # t.plan.id THEN "search_restaurants"
                   ELSE IF t.content # t.plan.id THEN "rebuild_plan_content"
                   ELSE IF ~ConstraintsCurrent(t) THEN "evaluate_constraints"
                   ELSE IF Wanted(t, "constraint", t.constraints) THEN "optimize_constraints"
                   ELSE IF ~ValidationCurrent(t) THEN "validate_plan"
                   ELSE IF t.validation = "valid" \/ t.accepted THEN "finish"
                   ELSE IF t.validation = "repairable" /\ t.repairs < t.budget.repairs THEN "repair_plan"
                   ELSE "validate_plan"
        BY <1>2, <2>2, <3>3 DEF DecideLate
      <4>2. Ready(t) <=> /\ t.food = t.plan.id /\ t.content = t.plan.id
                         /\ ConstraintsCurrent(t) /\ ~Wanted(t, "constraint", t.constraints)
        BY <1>0, <1>2, <2>2, <3>0, <3>3 DEF Ready, Quiet, RoutesDone, Past
      <4> HIDE DEF late
      <4>3. late \in LateActions /\ (late \in Verdicts <=> Ready(t)) /\ late \notin
               {"supplement_attractions", "replace_remote_attraction", "refill_attractions"}
        BY <4>1, <4>2 DEF LateActions, Verdicts
      <4>4. late = "finish" => ValidationCurrent(t) /\ Deliverable(t)
        BY <4>1 DEF Deliverable
      <4> QED
        BY <3>0, <4>3, <4>4 DEF late
    <3> QED
      BY <3>1, <3>2, <3>3
  <2> QED
    BY <2>1, <2>2
<1> QED
  BY <1>1, <1>2

\* Everything the handlers need of the decision that led to them.
LEMMA Decided ==
    ASSUME NEW t, NEW a, Decide(t) = a
    PROVE  /\ a \in Tools \cup Local
           /\ a = "generate_plan" => t.plan.id = 0
           /\ a = "estimate_routes" => t.plan.id # 0
           /\ a = "supplement_attractions" =>
                 t.opt["refill"] = "supplement_needed" \/ t.opt["commute"] = "supplement_needed"
           /\ a = "optimize_routes" =>
                 Past(t) /\ (~Current(t, "route") \/ Pending(t, "route") \/ Wanted(t, "route", t.route))
           /\ a \in {"evaluate_commute", "evaluate_schedule"} => Past(t)
           /\ a = "optimize_schedule" => Past(t) /\ (Pending(t, "schedule") \/ Quiet(t))
           /\ a = "optimize_constraints" => Past(t) /\ (Pending(t, "constraint") \/ Quiet(t))
           /\ a = "refill_attractions" =>
                 Past(t) /\ (Pending(t, "refill") \/ (Quiet(t) /\ ConstraintsCurrent(t)))
           /\ a = "replace_remote_attraction" =>
                 /\ RoutesDone(t) /\ \A o \in Optimizers : Pending(t, o) => o = "commute"
                 /\ Current(t, "commute") /\ Current(t, "schedule") /\ ConstraintsCurrent(t)
           /\ a = "rebuild_plan_content" => Quiet(t)
           /\ a \in Verdicts <=> Ready(t)
           /\ a = "finish" => ValidationCurrent(t) /\ Deliverable(t)
<1>1. CASE DecideEarly(t) # "none"
  <2>1. a = DecideEarly(t)
    BY <1>1 DEF Decide
  <2>2. ~Ready(t)
    <3> SUFFICES ASSUME Ready(t) PROVE FALSE
      OBVIOUS
    <3>1. /\ t.pool # 0 /\ t.weather /\ t.hotels /\ t.plan.id # 0 /\ t.routes = t.plan.id
          /\ t.opt["refill"] # "supplement_needed" /\ Current(t, "route") /\ ~Pending(t, "route")
          /\ ~(Wanted(t, "route", t.route) /\ t.tried["route"] < t.budget.tries["route"])
          /\ ~\E o \in {"schedule", "constraint", "refill"} : Pending(t, o)
      BY DEF Ready, Optimizers
    <3>2. DecideEarly(t) = "none"
      BY <3>1 DEF DecideEarly
    <3> QED
      BY <1>1, <3>2
  <2>3. DecideEarly(t) \in EarlyActions
    BY <1>1, EarlySome
  <2>4. a \in Tools \cup Local /\ a \notin Verdicts /\ a \notin {"evaluate_commute", "replace_remote_attraction", "rebuild_plan_content"}
    BY <1>1, <2>1, <2>3 DEF EarlyActions, Tools, Local, Verdicts
  <2>5. /\ a = "generate_plan" => t.plan.id = 0
        /\ a = "estimate_routes" => t.plan.id # 0
        /\ a = "supplement_attractions" => t.opt["refill"] = "supplement_needed"
        /\ a = "optimize_routes" =>
              Past(t) /\ (~Current(t, "route") \/ Pending(t, "route") \/ Wanted(t, "route", t.route))
        /\ a = "evaluate_schedule" => Past(t)
        /\ a = "optimize_schedule" => Past(t) /\ Pending(t, "schedule")
        /\ a = "optimize_constraints" => Past(t) /\ Pending(t, "constraint")
        /\ a = "refill_attractions" => Past(t) /\ Pending(t, "refill")
    BY <1>1, <2>1, EarlySome
  <2>6. a # "finish"
    BY <2>4 DEF Verdicts
  <2>7. /\ a \in {"evaluate_commute", "evaluate_schedule"} => Past(t)
        /\ a = "supplement_attractions" =>
              t.opt["refill"] = "supplement_needed" \/ t.opt["commute"] = "supplement_needed"
        /\ a # "replace_remote_attraction" /\ a # "rebuild_plan_content" /\ ~(a \in Verdicts)
    BY ONLY <2>4, <2>5
  <2>8. /\ a = "optimize_schedule" => Past(t) /\ (Pending(t, "schedule") \/ Quiet(t))
        /\ a = "optimize_constraints" => Past(t) /\ (Pending(t, "constraint") \/ Quiet(t))
        /\ a = "refill_attractions" =>
              Past(t) /\ (Pending(t, "refill") \/ (Quiet(t) /\ ConstraintsCurrent(t)))
    BY ONLY <2>5
  <2> QED
    BY ONLY <2>2, <2>4, <2>5, <2>6, <2>7, <2>8
<1>2. CASE DecideEarly(t) = "none"
  <2>1. a = DecideLate(t)
    BY <1>2 DEF Decide
  <2>2. a \in LateActions /\ (a \in Verdicts <=> Ready(t)) /\ (a = "finish" => ValidationCurrent(t) /\ Deliverable(t))
    BY <1>2, <2>1, LateSome
  <2>3. a \in Tools \cup Local /\ a \notin {"generate_plan", "estimate_routes", "optimize_routes"}
    BY <2>2 DEF LateActions, Tools, Local
  <2>4. RoutesDone(t) /\ \A o \in Optimizers : Pending(t, o) => o = "commute"
    BY <1>2, EarlyNone DEF RoutesDone, Optimizers
  <2>5. Past(t)
    BY <2>4 DEF RoutesDone
  <2> QED
    BY <1>2, <2>1, <2>2, <2>3, <2>4, <2>5, LateSome
<1> QED
  BY <1>1, <1>2

----------------------------------------------------------------------------
(* The handlers.  Post is what each of them shows of its result: the part    *)
(* of the revert is RevertIsLocal.                                          *)

Post(t, u) ==
    /\ CoreOK(u) /\ Outer(t, u) /\ u.validation = "none"
    /\ \A o \in Optimizers :
          Pending(t, o) /\ ~Pending(u, o) /\ u.plan.id # t.plan.id => Reverted(u, o)

\* A report that counts as current is of the plan at hand and its routes.
LEMMA CurrentIsOf ==
    ASSUME NEW t, Body(t), t.plan.id # 0, NEW e \in RouteReports, Current(t, e)
    PROVE  t[e].of = t.plan.id /\ t.routes = t.plan.id
<1>1. ReportOK(t[e].of, t.seen[e], t.plan.id, t.routes, t.made) /\ t[e].of # 0
  BY DEF Body, ReportsOK, RouteReports, Current
<1>2. CASE t.seen[e] = <<>>
  <2>1. t[e].of = t.plan.id
    BY <1>2 DEF Current, EvaluationIsCurrent
  <2> QED
    BY <1>1, <2>1 DEF ReportOK
<1>3. CASE t.seen[e] # <<>>
  <2>1. t.seen[e] = <<t.plan.id, t.routes>>
    BY <1>3 DEF Current, EvaluationIsCurrent, RouteInput
  <2>2. PICK k \in Nat \ {0} : t.seen[e] = <<k, k>> /\ t[e].of \in {0, k}
    BY <1>1, <1>3 DEF ReportOK
  <2>3. t.plan.id = k /\ t.routes = k
    BY <2>1, <2>2
  <2> QED
    BY <1>1, <2>2, <2>3
<1> QED
  BY <1>2, <1>3

LEMMA ConstraintsCurrentMatch ==
    ASSUME NEW t, Body(t), ConstraintsCurrent(t) PROVE ConstraintsMatch(t)
<1>1. ConstraintOK(t.constraints, t.seen["constraints"]) /\ t.constraints.of # 0
  BY DEF Body, ReportsOK, ConstraintsCurrent
<1>2. CASE t.seen["constraints"] = <<>>
  BY <1>2 DEF ConstraintsCurrent, EvaluationIsCurrent
<1>3. CASE t.seen["constraints"] # <<>>
  <2>1. t.seen["constraints"] = <<t.plan, t.schedule, t.pool>>
    BY <1>3 DEF ConstraintsCurrent, EvaluationIsCurrent, ConstraintInput
  <2>2. t.seen["constraints"][1] = t.plan
    BY <2>1
  <2> QED
    BY <1>1, <1>3, <2>2 DEF ConstraintOK, ConstraintsMatch
<1> QED
  BY <1>2, <1>3

\* With the routes of the plan its route report is current.
LEMMA RouteIsCurrent == ASSUME NEW t, Body(t), Past(t) PROVE t.route.of = t.plan.id /\ Current(t, "route")
<1>1. t.route.of = t.plan.id /\ ReportOK(t.route.of, t.seen["route"], t.plan.id, t.routes, t.made)
  BY DEF Body, ReportsOK, Past
<1>2. CASE t.seen["route"] = <<>>
  BY <1>1, <1>2 DEF Current, EvaluationIsCurrent, Past
<1>3. CASE t.seen["route"] # <<>>
  <2>1. PICK k \in Nat \ {0} : t.seen["route"] = <<k, k>> /\ t.route.of \in {0, k}
    BY <1>1, <1>3 DEF ReportOK
  <2>2. t.seen["route"] = RouteInput(t)
    BY <1>1, <2>1 DEF Past, RouteInput
  <2> QED
    BY <1>1, <1>3, <2>2 DEF Current, EvaluationIsCurrent, Past
<1> QED
  BY <1>2, <1>3

\* Once the route optimiser has nothing to do it has been settled.
LEMMA RouteSettled == ASSUME NEW t, CoreOK(t), RoutesDone(t) PROVE t.opt["route"] # "not_started"
<1> SUFFICES ASSUME t.opt["route"] = "not_started" PROVE FALSE
  OBVIOUS
<1>1. t.route.of # 0
  BY DEF RoutesDone, Current
<1>2. t.route.rec /\ ~Exhausted(t, "route")
  BY <1>1 DEF CoreOK, RouteFirst
<1>3. t.tried["route"] \in Nat /\ t.budget.tries["route"] \in Nat
  BY DEF CoreOK, Body, AgentTyped, Budget, Optimizers
<1> QED
  BY <1>2, <1>3 DEF RoutesDone, Wanted, Exhausted

LEMMA ClearCommuteKeeps ==
    ASSUME NEW t, CoreOK(t), NEW reset \in BOOLEAN, NEW u, u = ClearCommuteAnalysis(t, reset)
    PROVE  CoreOK(u) /\ Outer(t, u) /\ u.validation = t.validation /\ SamePlan(t, u)
<1>1. Rec(t) /\ t.tried \in [Optimizers -> Nat]
  BY DEF CoreOK, Body, AgentTyped
<1>2. Cleared(t, u, "commute", {"commute", "validation"})
  BY <1>1, ClearCommuteFacts
<1>3. CoreOK(u)
  BY <1>2, ClearedKeeps
<1> QED
  BY <1>2, <1>3 DEF Cleared

LEMMA ClearConstraintKeeps ==
    ASSUME NEW t, CoreOK(t), NEW reset \in BOOLEAN, NEW u, u = ClearConstraintAnalysis(t, reset)
    PROVE  CoreOK(u) /\ Outer(t, u) /\ u.validation = t.validation /\ SamePlan(t, u)
<1>1. Rec(t) /\ t.tried \in [Optimizers -> Nat]
  BY DEF CoreOK, Body, AgentTyped
<1>2. Cleared(t, u, "constraint", {"constraints", "validation"})
  BY <1>1, ClearConstraintFacts
<1>3. CoreOK(u)
  BY <1>2, ClearedKeeps
<1> QED
  BY <1>2, <1>3 DEF Cleared

LEMMA ClearScheduleKeeps ==
    ASSUME NEW t, CoreOK(t), NEW u, u = ClearScheduleOptimization(t)
    PROVE  CoreOK(u) /\ Outer(t, u) /\ u.validation = t.validation /\ SamePlan(t, u)
<1>1. Rec(t) /\ t.seen = [e \in Evaluations |-> t.seen[e]]
  BY DEF CoreOK, Body, AgentTyped
<1>2. Cleared(t, u, "schedule", {})
  BY <1>1, ClearScheduleFacts
<1>3. CoreOK(u)
  BY <1>2, ClearedKeeps
<1> QED
  BY <1>2, <1>3 DEF Cleared

LEMMA CandidateRows ==
    ASSUME NEW t, AgentTyped(t), NEW o \in Optimizers, NEW p \in Candidates(t, o)
    PROVE  p \in PlanRows /\ p.id = t.made + 1
<1>1. t.plan.enough \in BOOLEAN /\ t.made \in Nat
  BY DEF AgentTyped, PlanRows
<1>2. PICK E \in SUBSET BOOLEAN :
          p \in [id : {t.made + 1}, flaws : Judgements, enough : E, built : {FALSE}]
  BY <1>1 DEF Candidates, Optimizers
<1>3. p.id = t.made + 1 /\ p.flaws \in Judgements /\ p.enough \in BOOLEAN /\ p.built = FALSE
  BY <1>2
<1>4. p = [id |-> p.id, flaws |-> p.flaws, enough |-> p.enough, built |-> p.built]
  BY <1>2
<1>5. p.flaws \in SUBSET {"route", "schedule", "commute"}
  <2>1. Judgements \subseteq SUBSET {"route", "schedule", "commute"}
    BY LimitsAssumption
  <2> QED
    BY ONLY <1>3, <2>1
<1>6. p.id \in Nat
  BY <1>1, <1>3
<1> QED
  BY <1>3, <1>4, <1>5, <1>6 DEF PlanRows

LEMMA LlmPlanRows ==
    ASSUME NEW t, AgentTyped(t), NEW p \in LlmPlans(t)
    PROVE  p \in PlanRows /\ p.id = t.made + 1
<1>1. t.made \in Nat
  BY DEF AgentTyped
<1>2. p.id = t.made + 1 /\ p.flaws \in Judgements /\ p.enough \in BOOLEAN /\ p.built = FALSE
  BY DEF LlmPlans
<1>3. p = [id |-> p.id, flaws |-> p.flaws, enough |-> p.enough, built |-> p.built]
  BY DEF LlmPlans
<1>4. p.flaws \in SUBSET {"route", "schedule", "commute"}
  <2>1. Judgements \subseteq SUBSET {"route", "schedule", "commute"}
    BY LimitsAssumption
  <2> QED
    BY ONLY <1>2, <2>1
<1>5. p.id \in Nat
  BY <1>1, <1>2
<1> QED
  BY <1>2, <1>3, <1>4, <1>5 DEF PlanRows

\* Three ways to Post: the plan stays, no candidate waited, or it was given up.
LEMMA PostPlan ==
    ASSUME NEW t, NEW u, CoreOK(u), Outer(t, u), u.validation = "none", u.plan = t.plan
    PROVE  Post(t, u)
BY DEF Post

LEMMA PostAdopt ==
    ASSUME NEW t, NEW u, CoreOK(u), Outer(t, u), u.validation = "none",
           \A q \in Optimizers : ~Pending(t, q)
    PROVE  Post(t, u)
BY DEF Post

LEMMA PostRevert ==
    ASSUME NEW t, CoreOK(t), NEW u, CoreOK(u), Outer(t, u), u.validation = "none",
           NEW o \in Optimizers, Pending(t, o), Reverted(u, o)
    PROVE  Post(t, u)
<1>1. \A q \in Optimizers : Pending(t, q) => q = o
  BY DEF CoreOK, Body, BaselinesOK, Pending
<1> QED
  BY <1>1 DEF Post

\* Reverted is about the plan, its reports and their fingerprints.
LEMMA RevertedAlike ==
    ASSUME NEW t, NEW u, NEW o, Reverted(t, o), u.plan = t.plan, u.routes = t.routes, u.pool = t.pool,
           SameReports(t, u), u.seen = t.seen
    PROVE  Reverted(u, o)
<1>1. \A e \in RouteReports : u[e] = t[e]
  BY DEF SameReports, RouteReports
<1>2. \A e \in RouteReports : Current(t, e) => Current(u, e)
  BY <1>1 DEF Current, EvaluationIsCurrent, RouteInput
<1>3. ConstraintsCurrent(t) => ConstraintsCurrent(u)
  BY DEF ConstraintsCurrent, EvaluationIsCurrent, ConstraintInput, ConstraintsMatch, SameReports
<1> QED
  BY <1>2, <1>3 DEF Reverted

\* A candidate is kept, or given up, and settled.
LEMMA SettlePost ==
    ASSUME NEW t, CoreOK(t), NEW o \in Optimizers, Pending(t, o),
           NEW x \in OptStatuses \ {"candidate_pending"}, o # "route" \/ x # "not_started",
           NEW v \in {t, Restore(t, o)}, NEW u, u = Settle(v, o, x)
    PROVE  Post(t, u)
<1>1. CASE v = t
  <2>1. CoreOK(u) /\ Outer(t, u) /\ SamePlan(t, u) /\ u.validation = "none"
    BY <1>1, SettleKeeps
  <2> QED
    BY <2>1, PostPlan DEF SamePlan
<1>2. CASE v = Restore(t, o)
  <2>1. CoreOK(v) /\ Outer(t, v) /\ Reverted(v, o)
    BY ONLY <1>2, RestoreKeeps, CoreOK(t), o \in Optimizers, Pending(t, o)
  <2>2. /\ CoreOK(u) /\ Outer(v, u) /\ Collected(v, u) /\ SamePlan(v, u) /\ SameReports(v, u)
        /\ u.seen = v.seen /\ u.validation = "none"
    BY ONLY <2>1, SettleKeeps, o \in Optimizers, x \in OptStatuses \ {"candidate_pending"},
            o # "route" \/ x # "not_started", u = Settle(v, o, x)
  <2>3. Reverted(u, o)
    BY ONLY <2>1, <2>2, RevertedAlike DEF SamePlan, Collected
  <2>4. Outer(t, u)
    BY ONLY <2>1, <2>2 DEF Outer
  <2> QED
    BY ONLY <2>2, <2>3, <2>4, PostRevert, CoreOK(t), o \in Optimizers, Pending(t, o)
<1> QED
  BY <1>1, <1>2

\* Reports and texts that are dropped.
LEMMA DroppedKeeps ==
    ASSUME NEW t, CoreOK(t), NEW u, Rec(u),
           \A f \in Fields \ {"content", "commute", "constraints"} : u[f] = t[f],
           u.content \in {t.content, 0}, u.commute \in {t.commute, NoReport},
           u.constraints \in {t.constraints, NoConstraintReport}
    PROVE  CoreOK(u) /\ Outer(t, u)
<1>1. /\ Outer(t, u) /\ Collected(t, u) /\ SameTries(t, u) /\ u.seen = t.seen
      /\ u.plan = t.plan /\ u.made = t.made /\ u.routes = t.routes
      /\ u.route = t.route /\ u.schedule = t.schedule
  BY ONLY \A f \in Fields \ {"content", "commute", "constraints"} : u[f] = t[f]
     DEF Fields, Outer, Collected, SameTries
<1>2. Body(t) /\ RouteFirst(t)
  BY DEF CoreOK
<1>3. AgentTyped(u)
  <2>1. u.content \in Nat /\ u.commute \in ReportRows /\ u.constraints \in ConstraintRows
    BY <1>2, NothingRows DEF Body, AgentTyped
  <2> QED
    BY <1>1, <1>2, <2>1 DEF Body, AgentTyped, Outer, Collected, SameTries
<1>4. Numbered(u)
  BY <1>1, <1>2 DEF Body, Numbered, Outer, Collected, SameTries
<1>5. ReportsOK(u)
  <2>1. t.made \in Nat /\ t.plan.id \in Nat
    BY <1>2 DEF Body, AgentTyped, PlanRows
  <2>2. ReportOK(u.commute.of, u.seen["commute"], u.plan.id, u.routes, u.made)
    BY <1>1, <1>2, <2>1, NothingRows DEF Body, ReportsOK, ReportOK
  <2>3. ConstraintOK(u.constraints, u.seen["constraints"])
    BY <1>1, <1>2, NothingRows DEF Body, ReportsOK, ConstraintOK
  <2> QED
    BY <1>1, <1>2, <2>2, <2>3 DEF Body, ReportsOK
<1>6. BaselinesOK(u.opt, u.base, u.made)
  BY <1>1, <1>2 DEF Body, SameTries
<1>7. ContentOK(u)
  BY <1>1, <1>2 DEF Body, ContentOK, Pending, SameTries
<1>8. RouteFirst(u)
  BY <1>1, <1>2 DEF RouteFirst, SameTries, Pending, Exhausted, Outer
<1> QED
  BY <1>1, <1>3, <1>4, <1>5, <1>6, <1>7, <1>8 DEF CoreOK, Body

\* A candidate is adopted and the commute analysis of the old plan is cleared.
LEMMA AdoptAfresh ==
    ASSUME NEW t, CoreOK(t), NEW o \in Optimizers, Adoptable(t, o), NEW p \in Candidates(t, o),
           NEW u, u = ClearCommuteAnalysis(Adopt(t, o, p), FALSE)
    PROVE  CoreOK(u) /\ Outer(t, u) /\ u.validation = "none"
<1> DEFINE v == Adopt(t, o, p)
<1>1. p \in PlanRows /\ p.id = t.made + 1
  BY CandidateRows DEF CoreOK, Body
<1>2. CoreOK(v) /\ Outer(t, v) /\ v.validation = "none"
  BY <1>1, AdoptKeeps
<1> HIDE DEF v
<1>3. FALSE \in BOOLEAN /\ u = ClearCommuteAnalysis(v, FALSE)
  BY DEF v
<1>4. CoreOK(u) /\ Outer(v, u) /\ u.validation = v.validation
  BY ONLY <1>2, <1>3, ClearCommuteKeeps
<1> QED
  BY ONLY <1>2, <1>4 DEF Outer

\* _optimize_routes gives its candidate up: the schedule is scored again.
LEMMA RouteReverted ==
    ASSUME NEW t, CoreOK(t), Pending(t, "route"), NEW w,
           w = [Restore(t, "route") EXCEPT !.opt["schedule"] = "not_started"],
           NEW r, r = SynchronizeEvaluationFingerprints(RefreshScheduleQuality(w)),
           NEW u, u = Settle(r, "route", "completed")
    PROVE  Post(t, u)
<1> DEFINE v == Restore(t, "route")
           x == RefreshScheduleQuality(w)
<1>0. "route" \in Optimizers /\ "schedule" \in Optimizers /\ "route" # "schedule"
  BY DEF Optimizers
<1>1. CoreOK(v) /\ Outer(t, v) /\ v.plan.id # 0 /\ v.routes = v.plan.id /\ SameTries(t, v)
  BY <1>0, RestoreKeeps
<1>2. Body(v) /\ RouteFirst(v) /\ Rec(v) /\ ~Pending(v, "schedule")
  <2>1. ~Pending(t, "schedule")
    BY <1>0 DEF CoreOK, Body, BaselinesOK, Pending
  <2> QED
    BY <1>1, <2>1 DEF CoreOK, Body, AgentTyped, Pending, SameTries
<1> HIDE DEF v
<1>3. w = [v EXCEPT !.opt["schedule"] = "not_started"]
  BY DEF v
<1>4. Rec(w) /\ \A f \in Fields \ {"opt"} : w[f] = v[f]
  BY ONLY <1>2, <1>3 DEF Rec
<1>5. w.opt = [v.opt EXCEPT !["schedule"] = "not_started"]
  BY ONLY <1>2, <1>3 DEF Rec, Fields
<1>6. /\ Outer(v, w) /\ Collected(v, w) /\ SamePlan(v, w) /\ SameReports(v, w) /\ w.seen = v.seen
      /\ w.tried = v.tried /\ w.base = v.base
  BY ONLY <1>4 DEF Fields, Outer, Collected, SamePlan, SameReports
<1>7. Body(w) /\ RouteFirst(w)
  <2>1. "not_started" \in OptStatuses \ {"candidate_pending"}
    BY DEF OptStatuses
  <2>2. w.pool = v.pool /\ w.food = v.food
    BY ONLY <1>6 DEF Collected
  <2> QED
    BY ONLY <1>0, <1>2, <1>4, <1>5, <1>6, <2>1, <2>2, SetOptKeeps
<1>8. w.plan.id # 0 /\ w.routes = w.plan.id
  BY ONLY <1>1, <1>6 DEF SamePlan
<1>9. /\ Body(x) /\ RouteFirst(x) /\ Outer(w, x) /\ SamePlan(w, x)
      /\ x.schedule.of = w.plan.id
  BY ONLY <1>7, <1>8, RefreshScheduleKeeps
<1> HIDE DEF x
<1>10. x.plan.id # 0 /\ x.routes = x.plan.id /\ x.route.of = x.plan.id /\ x.schedule.of = x.plan.id
  BY ONLY <1>8, <1>9 DEF SamePlan, Body, ReportsOK
<1>11. AgentTyped(x) /\ Numbered(x) /\ BaselinesOK(x.opt, x.base, x.made) /\ ContentOK(x)
  BY ONLY <1>9 DEF Body
<1>12. x.commute.of <= x.made /\ x.schedule.of <= x.made
  BY ONLY <1>9 DEF Body, ReportsOK, ReportOK
<1>13. r = SynchronizeEvaluationFingerprints(x)
  BY DEF x
<1>14. /\ Body(r) /\ RouteFirst(r) /\ Outer(x, r) /\ SamePlan(x, r) /\ SameReports(x, r)
       /\ \A e \in RouteReports : x[e].of = x.plan.id => r.seen[e] = <<x.plan.id, x.routes>>
  BY ONLY <1>9, <1>10, <1>11, <1>12, <1>13, SynchronizeKeeps
<1>15. Reverted(r, "route")
  <2>1. r.routes = r.plan.id /\ r.route.of = r.plan.id /\ r.plan.id # 0
    BY ONLY <1>10, <1>14 DEF SamePlan, SameReports
  <2>2. r.seen["route"] = <<r.plan.id, r.routes>>
    BY ONLY <1>10, <1>14 DEF SamePlan, RouteReports
  <2>3. Current(r, "route")
    BY ONLY <2>1, <2>2 DEF Current, EvaluationIsCurrent, RouteInput
  <2>4. Kept("route") = {"plan", "routes", "route"}
    BY DEF Kept
  <2> QED
    BY ONLY <2>1, <2>3, <2>4 DEF Reverted, RouteReports
<1>16. CoreOK(r) /\ "completed" \in OptStatuses \ {"candidate_pending"} /\ "completed" # "not_started"
  BY <1>14 DEF CoreOK, OptStatuses
<1>17. /\ CoreOK(u) /\ Outer(r, u) /\ Collected(r, u) /\ SamePlan(r, u) /\ SameReports(r, u)
       /\ u.seen = r.seen /\ u.validation = "none"
  BY ONLY <1>0, <1>16, SettleKeeps, u = Settle(r, "route", "completed")
<1>18. Reverted(u, "route")
  BY ONLY <1>15, <1>17, RevertedAlike DEF SamePlan, Collected
<1>19. Outer(t, u)
  BY ONLY <1>1, <1>6, <1>9, <1>14, <1>17 DEF Outer
<1> QED
  BY ONLY <1>0, <1>17, <1>18, <1>19, PostRevert, CoreOK(t), Pending(t, "route")

\* _optimize_routes
LEMMA OptimizeRoutesKeeps ==
    ASSUME NEW t, CoreOK(t), t.validation = "none", Decide(t) = "optimize_routes",
           NEW u \in OptimizeRoutes(t)
    PROVE  Post(t, u)
<1> DEFINE w == [Restore(t, "route") EXCEPT !.opt["schedule"] = "not_started"]
           r == SynchronizeEvaluationFingerprints(RefreshScheduleQuality(w))
           a(p) == ClearConstraintAnalysis(ClearScheduleOptimization(
                       ClearCommuteAnalysis(Adopt(t, "route", p), FALSE)), FALSE)
<1>1. /\ Past(t) /\ (~Current(t, "route") \/ Pending(t, "route") \/ Wanted(t, "route", t.route))
      /\ "route" \in Optimizers /\ Body(t) /\ RouteFirst(t)
  BY Decided DEF Optimizers, CoreOK
<1>2. t.route.of = t.plan.id /\ Current(t, "route")
  BY <1>1, RouteIsCurrent
<1>3. CASE Pending(t, "route")
  <2>1. u \in {Settle(t, "route", "completed"), Settle(r, "route", "completed")}
    BY <1>2, <1>3 DEF OptimizeRoutes
  <2>2. "completed" \in OptStatuses \ {"candidate_pending"} /\ "completed" # "not_started"
    BY DEF OptStatuses
  <2>3. CASE u = Settle(t, "route", "completed")
    BY <1>1, <1>3, <2>2, <2>3, SettlePost
  <2>4. CASE u = Settle(r, "route", "completed")
    BY <1>3, <2>4, RouteReverted
  <2> QED
    BY <2>1, <2>3, <2>4
<1>4. CASE ~Pending(t, "route") /\ u = Skip(t, "route")
  <2>1. CoreOK(u) /\ Outer(t, u) /\ SamePlan(t, u) /\ u.validation = t.validation
    BY <1>1, <1>4, SkipKeeps
  <2> QED
    BY <2>1, PostPlan DEF SamePlan
<1>5. CASE ~Pending(t, "route") /\ u # Skip(t, "route")
  <2>1. ~Exhausted(t, "route") /\ \E p \in Candidates(t, "route") : u = a(p)
    BY <1>2, <1>5 DEF OptimizeRoutes
  <2>2. PICK p \in Candidates(t, "route") : u = a(p)
    BY <2>1
  <2>3. \A q \in Optimizers : ~Pending(t, q)
    BY <1>1, <1>2, <1>5 DEF Wanted, RouteFirst
  <2>4. Adoptable(t, "route")
    BY <1>1, <1>2, <2>1, <2>3 DEF Adoptable, Past
  <2> DEFINE c == ClearCommuteAnalysis(Adopt(t, "route", p), FALSE)
             d == ClearScheduleOptimization(c)
  <2>5. CoreOK(c) /\ Outer(t, c) /\ c.validation = "none"
    BY <1>1, <2>4, AdoptAfresh
  <2> HIDE DEF c
  <2>6. CoreOK(d) /\ Outer(c, d) /\ d.validation = c.validation
    BY ONLY <2>5, ClearScheduleKeeps
  <2>7. u = ClearConstraintAnalysis(d, FALSE) /\ FALSE \in BOOLEAN
    BY <2>2 DEF c
  <2> HIDE DEF d
  <2>8. CoreOK(u) /\ Outer(d, u) /\ u.validation = d.validation
    BY ONLY <2>6, <2>7, ClearConstraintKeeps
  <2>9. Outer(t, u) /\ u.validation = "none"
    BY ONLY <2>5, <2>6, <2>8 DEF Outer
  <2> QED
    BY ONLY <2>3, <2>8, <2>9, PostAdopt
<1> QED
  BY <1>3, <1>4, <1>5

\* What Quiet gives to a schedule optimisation: its report is of the plan.
LEMMA QuietFacts ==
    ASSUME NEW t, CoreOK(t), Quiet(t)
    PROVE  /\ \A q \in Optimizers : ~Pending(t, q)
           /\ t.plan.id # 0 /\ t.routes = t.plan.id /\ t.route.of = t.plan.id
           /\ t.schedule.of = t.plan.id /\ t.commute.of = t.plan.id /\ t.opt["route"] # "not_started"
<1>1. Body(t) /\ t.plan.id # 0 /\ t.routes = t.plan.id /\ RoutesDone(t)
  BY DEF CoreOK, Quiet, RoutesDone, Past
<1>2. "schedule" \in RouteReports /\ "commute" \in RouteReports /\ Current(t, "schedule") /\ Current(t, "commute")
  BY DEF RouteReports, Quiet
<1>3. t.schedule.of = t.plan.id /\ t.commute.of = t.plan.id
  BY <1>1, <1>2, CurrentIsOf
<1>4. t.route.of = t.plan.id /\ t.opt["route"] # "not_started"
  BY <1>1, RouteIsCurrent, RouteSettled DEF Past
<1> QED
  BY <1>1, <1>3, <1>4 DEF Quiet

\* _optimize_schedule
LEMMA OptimizeScheduleKeeps ==
    ASSUME NEW t0, CoreOK(t0), t0.validation = "none", Decide(t0) = "optimize_schedule",
           NEW u \in OptimizeSchedule(t0)
    PROVE  Post(t0, u)
<1> DEFINE t == IF t0.schedule.of = t0.plan.id THEN t0 ELSE RefreshScheduleQuality(t0)
           a(p) == ClearConstraintAnalysis(
                       ClearCommuteAnalysis(Adopt(t, "schedule", p), FALSE), FALSE)
<1>1. /\ Past(t0) /\ (Pending(t0, "schedule") \/ Quiet(t0))
      /\ "schedule" \in Optimizers /\ "schedule" # "route" /\ Body(t0) /\ RouteFirst(t0)
  BY Decided DEF Optimizers, CoreOK
<1>2. /\ CoreOK(t) /\ Outer(t0, t) /\ SamePlan(t0, t) /\ t.validation = "none"
      /\ \A q \in Optimizers : Pending(t, q) <=> Pending(t0, q)
  <2>1. CASE t0.schedule.of = t0.plan.id
    BY <2>1 DEF Outer, SamePlan
  <2>2. CASE t0.schedule.of # t0.plan.id
    <3>1. t = RefreshScheduleQuality(t0) /\ t0.plan.id # 0 /\ t0.routes = t0.plan.id
      BY <1>1, <2>2 DEF Past
    <3> HIDE DEF t
    <3>2. /\ Body(t) /\ RouteFirst(t) /\ Outer(t0, t) /\ SamePlan(t0, t) /\ SameVerdict(t0, t)
          /\ \A q \in Optimizers : Pending(t, q) <=> Pending(t0, q)
      BY ONLY <1>1, <3>1, RefreshScheduleKeeps
    <3> QED
      BY <3>2 DEF CoreOK, SameVerdict
  <2> QED
    BY <2>1, <2>2
<1>3. Quiet(t0) => t = t0
  BY QuietFacts
<1>4. /\ Pending(t, "schedule") => \E v \in {t, Restore(t, "schedule")} : u = Settle(v, "schedule", "completed")
      /\ ~Pending(t, "schedule") => \/ u = Skip(t, "schedule")
                                    \/ ~Exhausted(t, "schedule") /\ \E p \in Candidates(t, "schedule") : u = a(p)
  BY DEF OptimizeSchedule
<1> HIDE DEF t
<1>5. CASE Pending(t, "schedule")
  <2>1. PICK v \in {t, Restore(t, "schedule")} : u = Settle(v, "schedule", "completed")
    BY <1>4, <1>5
  <2>2. "completed" \in OptStatuses \ {"candidate_pending"}
    BY DEF OptStatuses
  <2>3. Post(t, u)
    BY ONLY <1>1, <1>2, <1>5, <2>1, <2>2, SettlePost
  <2> QED
    BY ONLY <1>2, <2>3 DEF Post, Outer, SamePlan
<1>6. CASE ~Pending(t, "schedule") /\ u = Skip(t, "schedule")
  <2>1. CoreOK(u) /\ Outer(t, u) /\ SamePlan(t, u) /\ u.validation = t.validation
    BY <1>1, <1>2, <1>6, SkipKeeps
  <2>2. Outer(t0, u) /\ u.plan = t0.plan /\ u.validation = "none"
    BY ONLY <1>2, <2>1 DEF Outer, SamePlan
  <2> QED
    BY <2>1, <2>2, PostPlan
<1>7. CASE ~Pending(t, "schedule") /\ u # Skip(t, "schedule")
  <2>1. ~Exhausted(t, "schedule") /\ \E p \in Candidates(t, "schedule") : u = a(p)
    BY <1>4, <1>7
  <2>2. PICK p \in Candidates(t, "schedule") : u = a(p)
    BY <2>1
  <2>3. Quiet(t0) /\ t = t0
    BY <1>1, <1>2, <1>3, <1>7
  <2>4. Adoptable(t, "schedule") /\ \A q \in Optimizers : ~Pending(t0, q)
    BY <1>2, <2>1, <2>3, QuietFacts DEF Adoptable
  <2> DEFINE c == ClearCommuteAnalysis(Adopt(t, "schedule", p), FALSE)
  <2>5. CoreOK(c) /\ Outer(t, c) /\ c.validation = "none"
    BY <1>1, <1>2, <2>4, AdoptAfresh
  <2>7. u = ClearConstraintAnalysis(c, FALSE) /\ FALSE \in BOOLEAN
    BY <2>2 DEF c
  <2> HIDE DEF c
  <2>8. CoreOK(u) /\ Outer(c, u) /\ u.validation = c.validation
    BY ONLY <2>5, <2>7, ClearConstraintKeeps
  <2>9. Outer(t0, u) /\ u.validation = "none"
    BY ONLY <1>2, <2>5, <2>8 DEF Outer
  <2> QED
    BY ONLY <2>4, <2>8, <2>9, PostAdopt
<1> QED
  BY <1>5, <1>6, <1>7

\* A candidate is adopted and the reports on the old plan are dropped.
LEMMA AdoptDropping ==
    ASSUME NEW t, CoreOK(t), NEW o \in Optimizers, Adoptable(t, o), NEW p \in Candidates(t, o),
           NEW u, \/ u = [ClearCommuteAnalysis(Adopt(t, o, p), FALSE) EXCEPT
                             !.constraints = NoConstraintReport]
                  \/ u = [Adopt(t, o, p) EXCEPT !.commute = NoReport,
                                                !.constraints = NoConstraintReport]
    PROVE  CoreOK(u) /\ Outer(t, u) /\ u.validation = "none"
<1>1. CASE u = [ClearCommuteAnalysis(Adopt(t, o, p), FALSE) EXCEPT !.constraints = NoConstraintReport]
  <2> DEFINE v == ClearCommuteAnalysis(Adopt(t, o, p), FALSE)
  <2>1. CoreOK(v) /\ Outer(t, v) /\ v.validation = "none"
    BY AdoptAfresh
  <2>2. u = [v EXCEPT !.constraints = NoConstraintReport]
    BY <1>1
  <2> HIDE DEF v
  <2>3. Rec(v)
    BY <2>1 DEF CoreOK, Body, AgentTyped
  <2>4. Rec(u) /\ \A f \in Fields \ {"constraints"} : u[f] = v[f]
    BY ONLY <2>2, <2>3 DEF Rec
  <2>5. u.constraints = NoConstraintReport
    BY ONLY <2>2, <2>3 DEF Rec, Fields
  <2>6. u.content = v.content /\ u.commute = v.commute /\ u.validation = v.validation
    BY ONLY <2>4 DEF Fields
  <2>7. \A f \in Fields \ {"content", "commute", "constraints"} : u[f] = v[f]
    BY ONLY <2>4
  <2>8. CoreOK(u) /\ Outer(v, u)
    BY ONLY <2>1, <2>4, <2>5, <2>6, <2>7, DroppedKeeps
  <2> QED
    BY ONLY <2>1, <2>6, <2>8 DEF Outer
<1>2. CASE u = [Adopt(t, o, p) EXCEPT !.commute = NoReport, !.constraints = NoConstraintReport]
  <2> DEFINE v == Adopt(t, o, p)
  <2>0. p \in PlanRows /\ p.id = t.made + 1
    BY CandidateRows DEF CoreOK, Body
  <2>1. CoreOK(v) /\ Outer(t, v) /\ v.validation = "none"
    BY <2>0, AdoptKeeps
  <2>2. u = [v EXCEPT !.commute = NoReport, !.constraints = NoConstraintReport]
    BY <1>2
  <2> HIDE DEF v
  <2>3. Rec(v)
    BY <2>1 DEF CoreOK, Body, AgentTyped
  <2>4. Rec(u) /\ \A f \in Fields \ {"commute", "constraints"} : u[f] = v[f]
    BY ONLY <2>2, <2>3 DEF Rec
  <2>5. u.constraints = NoConstraintReport /\ u.commute = NoReport
    BY ONLY <2>2, <2>3 DEF Rec, Fields
  <2>6. u.content = v.content /\ u.validation = v.validation
    BY ONLY <2>4 DEF Fields
  <2>7. \A f \in Fields \ {"content", "commute", "constraints"} : u[f] = v[f]
    BY ONLY <2>4
  <2>8. CoreOK(u) /\ Outer(v, u)
    BY ONLY <2>1, <2>4, <2>5, <2>6, <2>7, DroppedKeeps
  <2> QED
    BY ONLY <2>1, <2>6, <2>8 DEF Outer
<1> QED
  BY <1>1, <1>2

\* _optimize_constraints
LEMMA OptimizeConstraintsKeeps ==
    ASSUME NEW t0, CoreOK(t0), t0.validation = "none", Decide(t0) = "optimize_constraints",
           NEW u \in OptimizeConstraints(t0)
    PROVE  Post(t0, u)
<1> DEFINE checked == IF ConstraintsMatch(t0) THEN {t0}
                      ELSE {RefreshConstraintReport(t0, rec) : rec \in BOOLEAN}
           a(t, p) == [ClearCommuteAnalysis(Adopt(t, "constraint", p), FALSE)
                          EXCEPT !.constraints = NoConstraintReport]
           o == "constraint"
<1>1. /\ Past(t0) /\ (Pending(t0, o) \/ Quiet(t0))
      /\ o \in Optimizers /\ o # "route" /\ Body(t0) /\ RouteFirst(t0)
  BY Decided DEF Optimizers, CoreOK
<1>2. PICK t \in checked :
         /\ Pending(t, o) => \E v \in {t, Restore(t, o)} : u = Settle(v, o, "completed")
         /\ ~Pending(t, o) => \/ u = Skip(t, o)
                              \/ ~Exhausted(t, o) /\ \E p \in Candidates(t, o) : u = a(t, p)
  BY DEF OptimizeConstraints
<1>3. /\ CoreOK(t) /\ Outer(t0, t) /\ SamePlan(t0, t) /\ t.validation = "none"
      /\ t.route = t0.route /\ t.schedule = t0.schedule
      /\ \A q \in Optimizers : Pending(t, q) <=> Pending(t0, q)
      /\ ConstraintsMatch(t) /\ (t.opt["route"] = "not_started" => t0.opt["route"] = "not_started")
  <2>1. CASE ConstraintsMatch(t0)
    BY <2>1 DEF Outer, SamePlan
  <2>2. CASE ~ConstraintsMatch(t0)
    <3>1. PICK rec \in BOOLEAN : t = RefreshConstraintReport(t0, rec)
      BY <2>2
    <3>2. /\ CoreOK(t) /\ Outer(t0, t) /\ SamePlan(t0, t) /\ t.validation = t0.validation
          /\ t.route = t0.route /\ t.schedule = t0.schedule
          /\ t.constraints.of = t0.plan.id /\ t.constraints.built = t0.plan.built
          /\ t.opt = t0.opt \/ t.opt = [t0.opt EXCEPT !["constraint"] = "skipped"]
          /\ \A q \in Optimizers : Pending(t, q) <=> Pending(t0, q)
      BY ONLY <3>1, CoreOK(t0), RefreshConstraintKeeps
    <3>3. t.opt["route"] = t0.opt["route"]
      BY <3>2 DEF CoreOK, Body, AgentTyped, Optimizers
    <3> QED
      BY <3>2, <3>3 DEF ConstraintsMatch, SamePlan
  <2> QED
    BY <2>1, <2>2
<1>5. CASE Pending(t, o)
  <2>1. PICK v \in {t, Restore(t, o)} : u = Settle(v, o, "completed")
    BY <1>2, <1>5
  <2>2. "completed" \in OptStatuses \ {"candidate_pending"}
    BY DEF OptStatuses
  <2>3. Post(t, u)
    BY ONLY <1>1, <1>3, <1>5, <2>1, <2>2, SettlePost
  <2> QED
    BY ONLY <1>3, <2>3 DEF Post, Outer, SamePlan
<1>6. CASE ~Pending(t, o) /\ u = Skip(t, o)
  <2>1. CoreOK(u) /\ Outer(t, u) /\ SamePlan(t, u) /\ u.validation = t.validation
    BY <1>1, <1>3, <1>6, SkipKeeps
  <2>2. Outer(t0, u) /\ u.plan = t0.plan /\ u.validation = "none"
    BY ONLY <1>3, <2>1 DEF Outer, SamePlan
  <2> QED
    BY <2>1, <2>2, PostPlan
<1>7. CASE ~Pending(t, o) /\ u # Skip(t, o)
  <2>1. ~Exhausted(t, o) /\ \E p \in Candidates(t, o) : u = a(t, p)
    BY <1>2, <1>7
  <2>2. PICK p \in Candidates(t, o) : u = a(t, p)
    BY <2>1
  <2>3. /\ \A q \in Optimizers : ~Pending(t0, q)
        /\ t0.plan.id # 0 /\ t0.routes = t0.plan.id /\ t0.route.of = t0.plan.id
        /\ t0.schedule.of = t0.plan.id /\ t0.opt["route"] # "not_started"
    BY <1>1, <1>3, <1>7, QuietFacts
  <2>4. Adoptable(t, o)
    BY <1>3, <2>1, <2>3 DEF Adoptable, SamePlan
  <2>5. CoreOK(u) /\ Outer(t, u) /\ u.validation = "none"
    BY ONLY <1>1, <1>3, <2>2, <2>4, AdoptDropping
  <2>6. Outer(t0, u)
    BY ONLY <1>3, <2>5 DEF Outer
  <2> QED
    BY ONLY <2>3, <2>5, <2>6, PostAdopt
<1> QED
  BY <1>5, <1>6, <1>7

\* No candidate: another search, or the optimiser gives up.
LEMMA WithoutCandidateKeeps ==
    ASSUME NEW t, CoreOK(t), NEW o \in {"commute", "refill"}, ~Pending(t, o),
           NEW u \in WithoutCandidate(t, o)
    PROVE  CoreOK(u) /\ Outer(t, u) /\ u.plan = t.plan /\ u.validation = t.validation
<1>0. o \in Optimizers /\ o # "route" /\ Rec(t) /\ Body(t) /\ RouteFirst(t)
  BY DEF Optimizers, CoreOK, Body, AgentTyped
<1>1. CASE u = Skip(t, o)
  BY <1>0, <1>1, SkipKeeps DEF SamePlan
<1>2. CASE u = [t EXCEPT !.opt[o] = "supplement_needed",
                         !.query = <<o, t.searched[o], t.plan.id>>]
  <2>1. Rec(u) /\ \A f \in Fields \ {"opt", "query"} : u[f] = t[f]
    BY ONLY <1>0, <1>2 DEF Rec
  <2>2. u.opt = [t.opt EXCEPT ![o] = "supplement_needed"]
    BY ONLY <1>0, <1>2 DEF Rec, Fields
  <2>3. /\ Outer(t, u) /\ u.pool = t.pool /\ u.food = t.food /\ SamePlan(t, u) /\ SameReports(t, u)
        /\ u.seen = t.seen /\ u.tried = t.tried /\ u.base = t.base /\ u.validation = t.validation
    BY ONLY <2>1 DEF Fields, Outer, SamePlan, SameReports
  <2>4. "supplement_needed" \in OptStatuses \ {"candidate_pending"}
    BY DEF OptStatuses
  <2>5. Body(u) /\ RouteFirst(u)
    BY ONLY <1>0, <2>1, <2>2, <2>3, <2>4, ~Pending(t, o), SetOptKeeps
  <2> QED
    BY <2>3, <2>5 DEF CoreOK, SamePlan
<1> QED
  BY <1>1, <1>2 DEF WithoutCandidate

\* A candidate is settled and the texts are to be rebuilt.
LEMMA SettleDropping ==
    ASSUME NEW t, CoreOK(t), NEW o \in Optimizers, Pending(t, o), o # "route",
           NEW x \in OptStatuses \ {"candidate_pending"},
           NEW v \in {t, Restore(t, o)}, NEW u, u = [Settle(v, o, x) EXCEPT !.content = 0]
    PROVE  Post(t, u)
<1> DEFINE w == Settle(v, o, x)
<1>1. Post(t, w)
  BY SettlePost
<1>2. u = [w EXCEPT !.content = 0]
  OBVIOUS
<1> HIDE DEF w
<1>3. CoreOK(w) /\ Rec(w)
  BY <1>1 DEF Post, CoreOK, Body, AgentTyped
<1>4. Rec(u) /\ \A f \in Fields \ {"content"} : u[f] = w[f]
  BY ONLY <1>2, <1>3 DEF Rec
<1>5. u.content = 0
  BY ONLY <1>2, <1>3 DEF Rec, Fields
<1>6. /\ u.commute = w.commute /\ u.constraints = w.constraints /\ u.validation = w.validation
      /\ u.plan = w.plan /\ u.routes = w.routes /\ u.pool = w.pool /\ SameReports(w, u)
      /\ u.seen = w.seen /\ u.opt = w.opt
  BY ONLY <1>4 DEF Fields, SameReports
<1>7. \A f \in Fields \ {"content", "commute", "constraints"} : u[f] = w[f]
  BY ONLY <1>4
<1>8. CoreOK(u) /\ Outer(w, u)
  BY ONLY <1>3, <1>4, <1>5, <1>6, <1>7, DroppedKeeps
<1>9. \A q \in Optimizers : Reverted(w, q) => Reverted(u, q)
  BY ONLY <1>6, RevertedAlike
<1>10. \A q \in Optimizers : Pending(u, q) <=> Pending(w, q)
  BY ONLY <1>6 DEF Pending
<1>11. Outer(t, u)
  BY ONLY <1>1, <1>8 DEF Post, Outer
<1> QED
  BY ONLY <1>1, <1>6, <1>8, <1>9, <1>10, <1>11 DEF Post

LEMMA AgainStatus ==
    ASSUME NEW t, NEW o
    PROVE  Again(t, o) \in OptStatuses \ {"candidate_pending"}
BY DEF Again, OptStatuses

\* _replace_remote_attraction
LEMMA ReplaceRemoteAttractionKeeps ==
    ASSUME NEW t, CoreOK(t), t.validation = "none", Decide(t) = "replace_remote_attraction",
           NEW u \in ReplaceRemoteAttraction(t)
    PROVE  Post(t, u)
<1> DEFINE o == "commute"
           a(p) == [Adopt(t, o, p) EXCEPT !.commute = NoReport, !.constraints = NoConstraintReport]
<1>1. /\ RoutesDone(t) /\ (\A q \in Optimizers : Pending(t, q) => q = o)
      /\ Current(t, "commute") /\ Current(t, "schedule") /\ ConstraintsCurrent(t)
      /\ o \in Optimizers /\ o # "route" /\ Body(t)
  BY Decided DEF Optimizers, CoreOK
<1>2. CASE Pending(t, o)
  <2>1. \E v \in {t, Restore(t, o)}, x \in {Again(t, o), "completed"} :
            u = [Settle(v, o, x) EXCEPT !.content = 0]
    BY <1>2 DEF ReplaceRemoteAttraction
  <2>2. PICK v \in {t, Restore(t, o)}, x \in {Again(t, o), "completed"} :
            u = [Settle(v, o, x) EXCEPT !.content = 0]
    BY <2>1
  <2>3. x \in OptStatuses \ {"candidate_pending"}
    BY ONLY <2>2, AgainStatus DEF OptStatuses
  <2> QED
    BY ONLY <1>1, <1>2, <2>2, <2>3, CoreOK(t), SettleDropping
<1>3. CASE ~Pending(t, o) /\ u \in WithoutCandidate(t, o)
  <2>1. CoreOK(u) /\ Outer(t, u) /\ u.plan = t.plan /\ u.validation = t.validation
    BY <1>3, WithoutCandidateKeeps
  <2> QED
    BY <2>1, PostPlan
<1>4. CASE ~Pending(t, o) /\ u \notin WithoutCandidate(t, o)
  <2>1. ~Exhausted(t, o) /\ \E p \in Candidates(t, o) : u = a(p)
    BY <1>4 DEF ReplaceRemoteAttraction, WithoutCandidate
  <2>2. PICK p \in Candidates(t, o) : u = a(p)
    BY <2>1
  <2>3. \A q \in Optimizers : ~Pending(t, q)
    BY <1>1, <1>4
  <2>4. Quiet(t) /\ ConstraintsMatch(t)
    BY <1>1, <2>3, ConstraintsCurrentMatch DEF Quiet
  <2>5. Adoptable(t, o)
    BY <2>1, <2>4, QuietFacts DEF Adoptable
  <2>6. CoreOK(u) /\ Outer(t, u) /\ u.validation = "none"
    BY ONLY <1>1, <2>2, <2>5, CoreOK(t), AdoptDropping
  <2> QED
    BY ONLY <2>3, <2>6, PostAdopt
<1> QED
  BY <1>2, <1>3, <1>4

\* _refill_attractions
LEMMA RefillAttractionsKeeps ==
    ASSUME NEW t, CoreOK(t), t.validation = "none", Decide(t) = "refill_attractions",
           NEW u \in RefillAttractions(t)
    PROVE  Post(t, u)
<1> DEFINE o == "refill"
           a(p) == [ClearCommuteAnalysis(Adopt(t, o, p), FALSE) EXCEPT
                       !.constraints = NoConstraintReport]
<1>1. /\ Past(t) /\ (Pending(t, o) \/ (Quiet(t) /\ ConstraintsCurrent(t)))
      /\ o \in Optimizers /\ o # "route" /\ Body(t) /\ RouteFirst(t) /\ Rec(t)
  BY Decided DEF Optimizers, CoreOK, Body, AgentTyped
<1>2. CASE Pending(t, o)
  <2>1. \E v \in {t, Restore(t, o)}, x \in {Again(t, o), "completed"} :
            u = [Settle(v, o, x) EXCEPT !.content = 0]
    BY <1>2 DEF RefillAttractions
  <2>2. PICK v \in {t, Restore(t, o)}, x \in {Again(t, o), "completed"} :
            u = [Settle(v, o, x) EXCEPT !.content = 0]
    BY <2>1
  <2>3. x \in OptStatuses \ {"candidate_pending"}
    BY ONLY <2>2, AgainStatus DEF OptStatuses
  <2> QED
    BY ONLY <1>1, <1>2, <2>2, <2>3, CoreOK(t), SettleDropping
<1>3. CASE ~Pending(t, o) /\ u \in WithoutCandidate(t, o)
  <2>1. CoreOK(u) /\ Outer(t, u) /\ u.plan = t.plan /\ u.validation = t.validation
    BY <1>3, WithoutCandidateKeeps
  <2> QED
    BY <2>1, PostPlan
<1>4. CASE ~Pending(t, o) /\ u = [t EXCEPT !.opt[o] = "completed"]
  <2>1. Rec(u) /\ \A f \in Fields \ {"opt"} : u[f] = t[f]
    BY ONLY <1>1, <1>4 DEF Rec
  <2>2. u.opt = [t.opt EXCEPT ![o] = "completed"]
    BY ONLY <1>1, <1>4 DEF Rec, Fields
  <2>3. /\ Outer(t, u) /\ u.pool = t.pool /\ u.food = t.food /\ SamePlan(t, u) /\ SameReports(t, u)
        /\ u.seen = t.seen /\ u.tried = t.tried /\ u.base = t.base /\ u.validation = t.validation
    BY ONLY <2>1 DEF Fields, Outer, SamePlan, SameReports
  <2>4. "completed" \in OptStatuses \ {"candidate_pending"}
    BY DEF OptStatuses
  <2>5. Body(u) /\ RouteFirst(u)
    <3>1. ~Pending(t, o)
      BY <1>4
    <3> QED
      BY ONLY <1>1, <2>1, <2>2, <2>3, <2>4, <3>1, SetOptKeeps
  <2> QED
    BY <2>3, <2>5, PostPlan DEF CoreOK, SamePlan
<1>5. CASE ~Pending(t, o) /\ u \notin WithoutCandidate(t, o) /\ u # [t EXCEPT !.opt[o] = "completed"]
  <2>1. ~Exhausted(t, o) /\ \E p \in Candidates(t, o) : u = a(p)
    BY <1>5 DEF RefillAttractions, WithoutCandidate
  <2>2. PICK p \in Candidates(t, o) : u = a(p)
    BY <2>1
  <2>3. \A q \in Optimizers : ~Pending(t, q)
    BY <1>1, <1>5, QuietFacts
  <2>4. Quiet(t) /\ ConstraintsMatch(t)
    BY <1>1, <1>5, ConstraintsCurrentMatch
  <2>5. Adoptable(t, o)
    BY <2>1, <2>4, QuietFacts DEF Adoptable
  <2>6. CoreOK(u) /\ Outer(t, u) /\ u.validation = "none"
    BY ONLY <1>1, <2>2, <2>5, CoreOK(t), AdoptDropping
  <2> QED
    BY ONLY <2>3, <2>6, PostAdopt
<1> QED
  BY <1>2, <1>3, <1>4, <1>5

\* Collected facts, counters, texts and verdicts: what decisions and reports do
\* not take as given.
Loose == {"status", "step", "finished", "tools", "llm", "pool", "weather", "hotels", "food", "content",
          "validation", "accepted", "seen", "query", "searched", "repairs", "done", "idle"}

LEMMA GatheredKeeps ==
    ASSUME NEW t, CoreOK(t), NEW u, Rec(u), \A f \in Fields \ Loose : u[f] = t[f],
           u.status \in Statuses, u.finished \in BOOLEAN, u.step \in Nat, u.step <= t.budget.steps, u.pool \in Nat,
           u.food \in {t.food, t.plan.id}, u.content \in {t.content, 0},
           u.seen = [e \in Evaluations |-> u.seen[e]],
           \A e \in Evaluations \ {"validation"} : u.seen[e] \in {<<>>, t.seen[e]}
    PROVE  CoreOK(u)
<1>1. /\ SameTries(t, u) /\ SameReports(t, u) /\ u.budget = t.budget
      /\ u.plan = t.plan /\ u.made = t.made /\ u.routes = t.routes
  BY ONLY \A f \in Fields \ Loose : u[f] = t[f] DEF Fields, Loose, SameTries, SameReports
<1>2. Body(t) /\ RouteFirst(t) /\ t.plan.id \in Nat
  BY DEF CoreOK, Body, AgentTyped, PlanRows
<1>3. AgentTyped(u)
  <2>1. u.content \in Nat /\ u.food \in Nat
    BY <1>2 DEF Body, AgentTyped
  <2> QED
    BY <1>1, <1>2, <2>1 DEF Body, AgentTyped, SameTries, SameReports
<1>4. Numbered(u)
  BY <1>1, <1>2 DEF Body, Numbered, SameTries
<1>5. ReportsOK(u)
  <2>1. \A e \in {"route", "commute", "schedule", "constraints"} : u.seen[e] = <<>> \/ u.seen[e] = t.seen[e]
    BY DEF Evaluations
  <2> QED
    BY <1>1, <1>2, <2>1 DEF Body, ReportsOK, SameReports, ReportOK, ConstraintOK
<1>6. BaselinesOK(u.opt, u.base, u.made)
  BY <1>1, <1>2 DEF Body, SameTries
<1>7. ContentOK(u)
  BY <1>1, <1>2 DEF Body, ContentOK, Pending, SameTries
<1>8. RouteFirst(u)
  BY <1>1, <1>2 DEF RouteFirst, SameTries, SameReports, Pending, Exhausted
<1> QED
  BY <1>3, <1>4, <1>5, <1>6, <1>7, <1>8 DEF CoreOK, Body

\* _rebuild_plan_content
LEMMA RebuildPlanContentKeeps ==
    ASSUME NEW t, CoreOK(t), t.validation = "none", Decide(t) = "rebuild_plan_content",
           NEW u, u = RebuildPlanContent(t)
    PROVE  Post(t, u)
<1> DEFINE p == [t.plan EXCEPT !.built = TRUE]
<1>1. Quiet(t) /\ Body(t) /\ RouteFirst(t) /\ Rec(t) /\ t.plan \in PlanRows
  BY Decided DEF CoreOK, Body, AgentTyped
<1>2. \A q \in Optimizers : ~Pending(t, q)
  BY <1>1 DEF Quiet
<1>3. p \in PlanRows /\ p.id = t.plan.id /\ p.built = TRUE
  BY <1>1 DEF PlanRows
<1>4. u = [t EXCEPT !.plan = p, !.content = t.plan.id, !.validation = "none"]
  BY <1>1 DEF RebuildPlanContent, Rec, Fields
<1> HIDE DEF p
<1>5. Rec(u) /\ \A f \in Fields \ {"plan", "content", "validation"} : u[f] = t[f]
  BY ONLY <1>1, <1>4 DEF Rec
<1>6. u.plan = p /\ u.content = t.plan.id /\ u.validation = "none"
  BY ONLY <1>1, <1>4 DEF Rec, Fields
<1>7. /\ Outer(t, u) /\ Collected(t, u) /\ SameReports(t, u) /\ SameTries(t, u)
      /\ u.seen = t.seen /\ u.made = t.made /\ u.routes = t.routes
  BY ONLY <1>5 DEF Fields, Outer, Collected, SameReports, SameTries
<1>8. AgentTyped(u)
  <2>1. u.content \in Nat
    BY <1>1, <1>6 DEF PlanRows
  <2> QED
    BY <1>1, <1>3, <1>5, <1>6, <1>7, <2>1
       DEF Body, AgentTyped, Outer, Collected, SameReports, SameTries
<1>9. Numbered(u)
  BY <1>1, <1>3, <1>6, <1>7 DEF Body, Numbered, Outer, Collected, SameTries
<1>10. ReportsOK(u)
  BY <1>1, <1>3, <1>6, <1>7 DEF Body, ReportsOK, SameReports
<1>11. BaselinesOK(u.opt, u.base, u.made)
  BY <1>1, <1>7 DEF Body, SameTries
<1>12. ContentOK(u)
  BY <1>2, <1>3, <1>6, <1>7 DEF ContentOK, Pending, SameTries
<1>13. RouteFirst(u)
  BY <1>1, <1>7 DEF RouteFirst, SameTries, SameReports, Pending, Exhausted, Outer
<1>14. CoreOK(u)
  BY <1>8, <1>9, <1>10, <1>11, <1>12, <1>13 DEF CoreOK, Body
<1> QED
  BY <1>2, <1>6, <1>7, <1>14, PostAdopt

\* The evaluations.
LEMMA EvaluationsKeep ==
    ASSUME NEW t, CoreOK(t), t.validation = "none", NEW u,
           \/ Decide(t) = "evaluate_commute" /\ u = RefreshCommuteReport(t)
           \/ Decide(t) = "evaluate_schedule" /\ u = RefreshScheduleQuality(t)
           \/ \E rec \in BOOLEAN : u = RefreshConstraintReport(t, rec)
    PROVE  Post(t, u)
<1>0. Body(t) /\ RouteFirst(t)
  BY DEF CoreOK
<1>1. CASE Decide(t) = "evaluate_commute" /\ u = RefreshCommuteReport(t)
  <2>1. t.plan.id # 0 /\ t.routes = t.plan.id
    BY <1>1, Decided DEF Past
  <2>2. CoreOK(u) /\ Outer(t, u) /\ SamePlan(t, u) /\ u.validation = t.validation
    BY <1>1, <2>1, RefreshCommuteKeeps
  <2> QED
    BY <2>2, PostPlan DEF SamePlan
<1>2. CASE Decide(t) = "evaluate_schedule" /\ u = RefreshScheduleQuality(t)
  <2>1. t.plan.id # 0 /\ t.routes = t.plan.id
    BY <1>2, Decided DEF Past
  <2>2. Body(u) /\ RouteFirst(u) /\ Outer(t, u) /\ SamePlan(t, u) /\ SameVerdict(t, u)
    BY <1>0, <1>2, <2>1, RefreshScheduleKeeps
  <2> QED
    BY <2>2, PostPlan DEF SamePlan, SameVerdict, CoreOK
<1>3. CASE \E rec \in BOOLEAN : u = RefreshConstraintReport(t, rec)
  <2>1. PICK rec \in BOOLEAN : u = RefreshConstraintReport(t, rec)
    BY <1>3
  <2>2. CoreOK(u) /\ Outer(t, u) /\ SamePlan(t, u) /\ u.validation = t.validation
    BY <2>1, RefreshConstraintKeeps
  <2> QED
    BY <2>2, PostPlan DEF SamePlan
<1> QED
  BY <1>1, <1>2, <1>3

----------------------------------------------------------------------------
(* The tools.                                                              *)

\* A new plan, of the model or of a repair: every analysis starts afresh.
LEMMA ClearRouteKeeps ==
    ASSUME NEW t, CoreOK(t), \A q \in Optimizers : ~Pending(t, q),
           NEW p \in PlanRows, p.id # 0, NEW m \in Nat, t.made <= m, p.id <= m, NEW reset \in BOOLEAN,
           NEW x, Rec(x), x.plan = p, x.made = m, \A f \in Fields \ {"plan", "made"} : x[f] = t[f],
           NEW u, u = ClearRouteAnalysis(x, reset)
    PROVE  CoreOK(u) /\ Outer(t, u) /\ u.validation = "none"
<1> DEFINE z == Invalidate(x, Evaluations)
           y == [z EXCEPT
                   !.routes = 0, !.route = NoReport, !.opt["route"] = "not_started",
                   !.base["route"] = NoBaseline, !.content = 0, !.validation = "none",
                   !.tried["route"] = IF reset THEN 0 ELSE @,
                   !.tried["schedule"] = IF reset THEN 0 ELSE @]
           c == ClearCommuteAnalysis(y, reset)
           d == ClearConstraintAnalysis(c, reset)
<1>0. /\ Rec(t) /\ Body(t) /\ RouteFirst(t) /\ t.opt \in [Optimizers -> OptStatuses]
      /\ t.base \in [Optimizers -> BaseRows] /\ t.tried \in [Optimizers -> Nat]
      /\ Optimizers = {"route", "schedule", "constraint", "commute", "refill"}
  BY DEF CoreOK, Body, AgentTyped, Optimizers
<1>1. u = ClearScheduleOptimization(d)
  BY DEF ClearRouteAnalysis
<1>2. Rec(x) /\ x.plan = p /\ x.made = m /\ \A f \in Fields \ {"plan", "made"} : x[f] = t[f]
  OBVIOUS
<1>3. /\ Rec(z) /\ Outer(x, z) /\ Collected(x, z) /\ SamePlan(x, z) /\ SameReports(x, z)
      /\ SameTries(x, z)
      /\ z.seen = [e \in Evaluations |-> IF e \in Evaluations THEN <<>> ELSE x.seen[e]]
  BY ONLY <1>2, InvalidateFacts
<1> HIDE DEF z
<1>4. z.opt = t.opt /\ z.base = t.base /\ z.tried = t.tried
  BY ONLY <1>2, <1>3 DEF SameTries, Fields
<1>5. /\ Rec(y)
      /\ \A f \in Fields \ {"routes", "route", "opt", "base", "content", "validation", "tried"} :
            y[f] = z[f]
  BY ONLY <1>3 DEF Rec
<1>6. y.routes = 0 /\ y.route = NoReport /\ y.content = 0 /\ y.validation = "none"
  BY ONLY <1>3 DEF Rec, Fields
<1>7. y.opt = [t.opt EXCEPT !["route"] = "not_started"] /\ y.base = [t.base EXCEPT !["route"] = NoBaseline]
  BY ONLY <1>3, <1>4 DEF Rec, Fields
<1>8. /\ y.tried \in [Optimizers -> Nat]
      /\ \A o \in Optimizers : y.tried[o] \in {0, t.tried[o]}
  <2>1. y.tried = [[t.tried EXCEPT !["route"] = IF reset THEN 0 ELSE @]
                      EXCEPT !["schedule"] = IF reset THEN 0 ELSE @]
    BY ONLY <1>3, <1>4 DEF Rec, Fields
  <2> QED
    BY <1>0, <2>1
<1> HIDE DEF y
<1>9. Cleared(y, c, "commute", {"commute", "validation"})
  BY ONLY <1>5, <1>8, ClearCommuteFacts, reset \in BOOLEAN
<1> HIDE DEF c
<1>10. Rec(c) /\ c.tried \in [Optimizers -> Nat] /\ \A o \in Optimizers : c.tried[o] \in {0, t.tried[o]}
  <2>1. Rec(c) /\ (c.tried = y.tried \/ c.tried = [y.tried EXCEPT !["commute"] = 0])
    BY ONLY <1>9 DEF Cleared
  <2>2. c.tried \in [Optimizers -> Nat] /\ \A o \in Optimizers : c.tried[o] \in {0, t.tried[o]}
    BY ONLY <1>0, <1>8, <2>1
  <2> QED
    BY <2>1, <2>2
<1>11. Cleared(c, d, "constraint", {"constraints", "validation"})
  BY ONLY <1>10, ClearConstraintFacts, reset \in BOOLEAN
<1> HIDE DEF d
<1>12. /\ Rec(d) /\ d.tried \in [Optimizers -> Nat] /\ \A o \in Optimizers : d.tried[o] \in {0, t.tried[o]}
       /\ d.seen = [e \in Evaluations |-> d.seen[e]]
  <2>1. Rec(d) /\ (d.tried = c.tried \/ d.tried = [c.tried EXCEPT !["constraint"] = 0])
    BY ONLY <1>11 DEF Cleared
  <2>2. d.tried \in [Optimizers -> Nat] /\ \A o \in Optimizers : d.tried[o] \in {0, t.tried[o]}
    BY ONLY <1>0, <1>10, <2>1
  <2>3. d.seen = [e \in Evaluations |-> IF e \in {"constraints", "validation"} THEN <<>> ELSE c.seen[e]]
    BY ONLY <1>11 DEF Cleared
  <2>4. d.seen = [e \in Evaluations |-> d.seen[e]]
    BY ONLY <2>3
  <2> QED
    BY <2>1, <2>2, <2>4
<1>13. Cleared(d, u, "schedule", {})
  BY ONLY <1>1, <1>12, ClearScheduleFacts
<1>14. /\ Rec(u) /\ u.tried \in [Optimizers -> Nat] /\ \A o \in Optimizers : u.tried[o] \in {0, t.tried[o]}
  <2>1. Rec(u) /\ (u.tried = d.tried \/ u.tried = [d.tried EXCEPT !["schedule"] = 0])
    BY ONLY <1>13 DEF Cleared
  <2>2. u.tried \in [Optimizers -> Nat] /\ \A o \in Optimizers : u.tried[o] \in {0, t.tried[o]}
    BY ONLY <1>0, <1>12, <2>1
  <2> QED
    BY <2>1, <2>2
<1>15. Outer(y, u) /\ Collected(y, u) /\ SamePlan(y, u) /\ u.validation = y.validation
  BY ONLY <1>9, <1>11, <1>13 DEF Cleared, Outer, Collected, SamePlan
<1>16. /\ u.route = NoReport /\ u.commute = NoReport /\ u.schedule = NoReport
       /\ u.constraints = NoConstraintReport
  BY ONLY <1>6, <1>9, <1>11, <1>13 DEF Cleared
<1>17. /\ Outer(t, y) /\ Collected(t, y) /\ y.plan = p /\ y.made = m
  <2>1. Outer(z, y) /\ Collected(z, y) /\ y.plan = z.plan /\ y.made = z.made
    BY ONLY <1>5 DEF Fields, Outer, Collected
  <2>2. Outer(t, x) /\ Collected(t, x)
    BY ONLY <1>2 DEF Fields, Outer, Collected
  <2> QED
    BY ONLY <1>2, <1>3, <2>1, <2>2 DEF Outer, Collected, SamePlan
<1>18. /\ u.opt \in [Optimizers -> OptStatuses] /\ u.base \in [Optimizers -> BaseRows]
       /\ \A o \in Optimizers : u.opt[o] \in {"not_started", t.opt[o]} /\ u.base[o] \in {NoBaseline, t.base[o]}
  <2>1. /\ u.opt = [[[[t.opt EXCEPT !["route"] = "not_started"] EXCEPT !["commute"] = "not_started"]
                        EXCEPT !["constraint"] = "not_started"] EXCEPT !["schedule"] = "not_started"]
        /\ u.base = [[[[t.base EXCEPT !["route"] = NoBaseline] EXCEPT !["commute"] = NoBaseline]
                        EXCEPT !["constraint"] = NoBaseline] EXCEPT !["schedule"] = NoBaseline]
    BY ONLY <1>7, <1>9, <1>11, <1>13 DEF Cleared
  <2>2. u.opt \in [Optimizers -> OptStatuses] /\ \A o \in Optimizers : u.opt[o] \in {"not_started", t.opt[o]}
    <3>1. "not_started" \in OptStatuses
      BY DEF OptStatuses
    <3> QED
      BY ONLY <1>0, <2>1, <3>1
  <2>3. u.base \in [Optimizers -> BaseRows] /\ \A o \in Optimizers : u.base[o] \in {NoBaseline, t.base[o]}
    BY ONLY <1>0, <2>1, NothingRows
  <2> QED
    BY <2>2, <2>3
<1>19. \A o \in Optimizers : ~Pending(u, o) /\ u.base[o].plan.id = 0
  BY <1>0, <1>18, NothingRows DEF Pending, Body, BaselinesOK
<1>20. u.seen = [e \in Evaluations |-> <<>>]
  <2>1. y.seen = [e \in Evaluations |-> <<>>]
    BY ONLY <1>3, <1>5 DEF Fields
  <2> QED
    BY ONLY <2>1, <1>9, <1>11, <1>13 DEF Cleared
<1>21. /\ Outer(t, u) /\ Collected(t, u) /\ u.plan = p /\ u.made = m /\ u.routes = 0 /\ u.content = 0
       /\ u.validation = "none"
  BY ONLY <1>6, <1>15, <1>17 DEF Outer, Collected, SamePlan
<1>22. AgentTyped(u)
  <2>1. u.seen = [e \in Evaluations |-> u.seen[e]]
    BY ONLY <1>20
  <2> QED
    BY <1>0, <1>14, <1>16, <1>18, <1>21, <2>1, NothingRows DEF Body, AgentTyped, Outer, Collected
<1>23. Numbered(u)
  <2>1. t.food <= m
    BY <1>0 DEF Body, Numbered, AgentTyped
  <2>2. \A o \in Optimizers : u.tried[o] <= u.budget.tries[o]
    <3>1. \A o \in Optimizers : t.budget.tries[o] \in Nat /\ t.tried[o] <= t.budget.tries[o]
      BY <1>0 DEF Body, AgentTyped, Budget, Numbered
    <3> QED
      BY <1>14, <1>21, <3>1 DEF Outer
  <2> QED
    BY <1>21, <2>1, <2>2 DEF Numbered, Collected
<1>24. ReportsOK(u)
  <2>1. \A e \in Evaluations : u.seen[e] = <<>>
    BY ONLY <1>20
  <2>2. p.id \in Nat /\ p.id # u.routes
    BY <1>21 DEF PlanRows
  <2> QED
    BY <1>16, <1>21, <2>1, <2>2, NothingRows DEF ReportsOK, ReportOK, ConstraintOK, Evaluations
<1>25. BaselinesOK(u.opt, u.base, u.made) /\ ContentOK(u) /\ RouteFirst(u)
  BY <1>16, <1>19, <1>21, NothingRows DEF BaselinesOK, ContentOK, RouteFirst, Pending
<1> QED
  BY <1>21, <1>22, <1>23, <1>24, <1>25 DEF CoreOK, Body

\* generate_plan and repair_plan
LEMMA NewPlanKeeps ==
    ASSUME NEW t, CoreOK(t), \A q \in Optimizers : ~Pending(t, q), NEW u,
           \/ \E p \in LlmPlans(t) : u = ClearRouteAnalysis([t EXCEPT !.plan = p, !.made = p.id], TRUE)
           \/ t.plan.id # 0 /\ u \in RepairPlan(t)
    PROVE  Post(t, u)
<1>0. AgentTyped(t) /\ t.made \in Nat /\ t.plan \in PlanRows /\ t.plan.id <= t.made /\ Rec(t)
  BY DEF CoreOK, Body, AgentTyped, Numbered
<1>1. CASE \E p \in LlmPlans(t) : u = ClearRouteAnalysis([t EXCEPT !.plan = p, !.made = p.id], TRUE)
  <2>1. PICK p \in LlmPlans(t) : u = ClearRouteAnalysis([t EXCEPT !.plan = p, !.made = p.id], TRUE)
    BY <1>1
  <2>2. p \in PlanRows /\ p.id = t.made + 1
    BY <1>0, LlmPlanRows
  <2>3. p.id # 0 /\ p.id \in Nat /\ t.made <= p.id /\ p.id <= p.id
    BY ONLY <1>0, <2>2
  <2>4. CoreOK(u) /\ Outer(t, u) /\ u.validation = "none"
    <3> DEFINE x == [t EXCEPT !.plan = p, !.made = p.id]
    <3>1. Rec(x) /\ x.plan = p /\ x.made = p.id /\ \A f \in Fields \ {"plan", "made"} : x[f] = t[f]
      <4>1. Rec(x) /\ \A f \in Fields \ {"plan", "made"} : x[f] = t[f]
        BY ONLY <1>0 DEF Rec
      <4>2. x.plan = p /\ x.made = p.id
        BY ONLY <1>0 DEF Rec, Fields
      <4> QED
        BY <4>1, <4>2
    <3>2. TRUE \in BOOLEAN /\ u = ClearRouteAnalysis(x, TRUE)
      BY <2>1
    <3> HIDE DEF x
    <3> QED
      BY ONLY <2>2, <2>3, <3>1, <3>2, ClearRouteKeeps, CoreOK(t), \A q \in Optimizers : ~Pending(t, q)
  <2> QED
    BY <2>4, PostAdopt
<1>2. CASE t.plan.id # 0 /\ u \in RepairPlan(t)
  <2> DEFINE m(p) == IF p.id > t.made THEN p.id ELSE t.made
             w(p) == ClearRouteAnalysis([t EXCEPT !.plan = p, !.made = m(p)], FALSE)
  <2>0. \A p : [t EXCEPT !.plan = p, !.made = IF p.id > @ THEN p.id ELSE @] = [t EXCEPT !.plan = p, !.made = m(p)]
    OBVIOUS
  <2>1. PICK c \in LlmPlans(t) \cup {[t.plan EXCEPT !.built = FALSE]} :
            u = [w(c) EXCEPT !.tried["schedule"] = 0, !.repairs = @ + 1]
    BY <1>2, <2>0 DEF RepairPlan
  <2> DEFINE p == c
  <2>2. p \in PlanRows /\ p.id # 0 /\ p.id \in Nat
    <3>1. CASE c \in LlmPlans(t)
      <4>1. c \in PlanRows /\ c.id = t.made + 1
        BY ONLY <1>0, <3>1, LlmPlanRows
      <4> QED
        BY ONLY <1>0, <4>1
    <3>2. CASE c = [t.plan EXCEPT !.built = FALSE]
      BY <1>0, <1>2, <3>2 DEF PlanRows
    <3> QED
      BY <2>1, <3>1, <3>2
  <2>3. m(p) \in Nat /\ t.made <= m(p) /\ p.id <= m(p)
    BY ONLY <1>0, <2>2
  <2> DEFINE v == w(p)
  <2> HIDE DEF m
  <2>4. CoreOK(v) /\ Outer(t, v) /\ v.validation = "none"
    <3> DEFINE k == m(p)
               x == [t EXCEPT !.plan = p, !.made = k]
    <3>1. k \in Nat /\ t.made <= k /\ p.id <= k
      BY <2>3
    <3>2. FALSE \in BOOLEAN /\ v = ClearRouteAnalysis(x, FALSE)
      OBVIOUS
    <3> HIDE DEF k, v, w, p
    <3>3. Rec(x) /\ x.plan = p /\ x.made = k /\ \A f \in Fields \ {"plan", "made"} : x[f] = t[f]
      <4>1. Rec(x) /\ \A f \in Fields \ {"plan", "made"} : x[f] = t[f]
        BY ONLY <1>0 DEF Rec
      <4>2. x.plan = p /\ x.made = k
        BY ONLY <1>0 DEF Rec, Fields
      <4> QED
        BY <4>1, <4>2
    <3> HIDE DEF x
    <3>4. p \in PlanRows /\ p.id # 0
      BY <2>2
    <3>5. PICK reset \in BOOLEAN : v = ClearRouteAnalysis(x, reset)
      BY ONLY <3>2
    <3> QED
      BY ONLY <3>1, <3>3, <3>4, <3>5, ClearRouteKeeps, CoreOK(t), \A q \in Optimizers : ~Pending(t, q)
  <2>5. u = [v EXCEPT !.tried["schedule"] = 0, !.repairs = @ + 1]
    BY <2>1
  <2> HIDE DEF v
  <2>6. Rec(v) /\ Body(v) /\ RouteFirst(v) /\ v.tried \in [Optimizers -> Nat] /\ v.budget \in Budget
    BY <2>4 DEF CoreOK, Body, AgentTyped
  <2>7. Rec(u) /\ \A f \in Fields \ {"tried", "repairs"} : u[f] = v[f]
    BY ONLY <2>5, <2>6 DEF Rec
  <2>8. u.tried = [v.tried EXCEPT !["schedule"] = 0]
    BY ONLY <2>5, <2>6 DEF Rec, Fields
  <2>9. /\ Outer(v, u) /\ u.pool = v.pool /\ u.food = v.food /\ SamePlan(v, u) /\ SameReports(v, u)
        /\ u.seen = v.seen /\ u.opt = v.opt /\ u.base = v.base /\ u.validation = v.validation
    BY ONLY <2>7 DEF Fields, Outer, SamePlan, SameReports
  <2>10. u.tried \in [Optimizers -> Nat] /\ u.tried["route"] = v.tried["route"]
         /\ \A o \in Optimizers : u.tried[o] \in {0, v.tried[o]}
    BY ONLY <2>6, <2>8 DEF Optimizers
  <2>11. AgentTyped(u)
    BY ONLY <2>6, <2>7, <2>9, <2>10 DEF Body, AgentTyped, Outer, SamePlan, SameReports
  <2>12. Numbered(u)
    <3>1. \A o \in Optimizers : v.budget.tries[o] \in Nat /\ v.tried[o] <= v.budget.tries[o]
      BY <2>6 DEF Body, Budget, Numbered
    <3>2. \A o \in Optimizers : u.tried[o] <= u.budget.tries[o]
      BY ONLY <2>9, <2>10, <3>1 DEF Outer
    <3> QED
      BY ONLY <2>6, <2>9, <3>2 DEF Body, Numbered, SamePlan
  <2>13. ReportsOK(u) /\ BaselinesOK(u.opt, u.base, u.made)
    BY ONLY <2>6, <2>9 DEF Body, ReportsOK, SamePlan, SameReports
  <2>14. ContentOK(u)
    BY ONLY <2>6, <2>9 DEF Body, ContentOK, SamePlan, Pending
  <2>15. RouteFirst(u)
    BY ONLY <2>6, <2>9, <2>10 DEF RouteFirst, SameReports, Pending, Exhausted, Outer
  <2>16. CoreOK(u)
    BY ONLY <2>11, <2>12, <2>13, <2>14, <2>15 DEF CoreOK, Body
  <2>17. Outer(t, u) /\ u.validation = "none"
    BY ONLY <2>4, <2>9 DEF Outer
  <2> QED
    BY <2>16, <2>17, PostAdopt
<1> QED
  BY <1>1, <1>2

\* estimate_routes: the routes of the plan, and the reports on them.
LEMMA EstimateRoutesKeeps ==
    ASSUME NEW t, CoreOK(t), t.validation = "none", t.plan.id # 0, NEW u, u = EstimateRoutes(t)
    PROVE  Post(t, u)
<1> DEFINE z == Invalidate(t, {"commute", "constraints", "validation"})
           y == [z EXCEPT !.routes = t.plan.id, !.validation = "none"]
           x == Report(y, "route")
           v == SkipUnless(x, "route", x.route.rec /\ ~Exhausted(x, "route"))
<1>0. /\ Rec(t) /\ Body(t) /\ RouteFirst(t) /\ t.plan \in PlanRows
      /\ t.seen = [e \in Evaluations |-> t.seen[e]] /\ "route" \in Optimizers
  BY DEF CoreOK, Body, AgentTyped, Optimizers
<1>1. u = RefreshScheduleQuality(v)
  BY DEF EstimateRoutes
<1>2. /\ Rec(z) /\ Outer(t, z) /\ Collected(t, z) /\ SamePlan(t, z) /\ SameReports(t, z)
      /\ SameTries(t, z)
      /\ z.seen = [e \in Evaluations |-> IF e \in {"commute", "constraints", "validation"} THEN <<>> ELSE t.seen[e]]
  BY ONLY <1>0, InvalidateFacts
<1> HIDE DEF z
<1>3. /\ Rec(y) /\ \A f \in Fields \ {"routes", "validation"} : y[f] = z[f]
  BY ONLY <1>2 DEF Rec
<1>4. y.routes = t.plan.id /\ y.validation = "none"
  BY ONLY <1>2 DEF Rec, Fields
<1>5. /\ Outer(t, y) /\ Collected(t, y) /\ SameReports(t, y) /\ SameTries(t, y)
      /\ y.plan = t.plan /\ y.made = t.made /\ y.content = t.content /\ y.seen = z.seen
  <2>1. /\ Outer(z, y) /\ Collected(z, y) /\ SameReports(z, y) /\ SameTries(z, y)
        /\ y.plan = z.plan /\ y.made = z.made /\ y.content = z.content /\ y.seen = z.seen
    BY ONLY <1>3 DEF Fields, Outer, Collected, SameReports, SameTries
  <2> QED
    BY ONLY <1>2, <2>1 DEF Outer, Collected, SameReports, SameTries, SamePlan
<1> HIDE DEF y
<1> DEFINE r == [of |-> t.plan.id, rec |-> "route" \in t.plan.flaws]
<1>6. x = [y EXCEPT !.route = r, !.seen["route"] = <<t.plan.id, t.plan.id>>]
  BY <1>4, <1>5 DEF Report, RouteInput
<1>7. r \in ReportRows /\ r.of = t.plan.id
  BY <1>0 DEF PlanRows, ReportRows
<1> HIDE DEF r, x
<1>8. Rec(x) /\ \A f \in Fields \ {"route", "seen"} : x[f] = y[f]
  BY ONLY <1>3, <1>6 DEF Rec
<1>9. x.route = r /\ x.seen = [y.seen EXCEPT !["route"] = <<t.plan.id, t.plan.id>>]
  BY ONLY <1>3, <1>6 DEF Rec, Fields
<1>10. /\ Outer(t, x) /\ Collected(t, x) /\ SamePlan(y, x) /\ SameTries(t, x) /\ x.validation = "none"
       /\ x.commute = t.commute /\ x.schedule = t.schedule /\ x.constraints = t.constraints
  <2>1. /\ Outer(y, x) /\ Collected(y, x) /\ SamePlan(y, x) /\ SameTries(y, x) /\ x.validation = y.validation
        /\ x.commute = y.commute /\ x.schedule = y.schedule /\ x.constraints = y.constraints
    BY ONLY <1>8 DEF Fields, Outer, Collected, SamePlan, SameTries
  <2> QED
    BY ONLY <1>4, <1>5, <2>1 DEF Outer, Collected, SameReports, SameTries
<1>11. /\ x.plan = t.plan /\ x.made = t.made /\ x.content = t.content /\ x.routes = t.plan.id
  BY ONLY <1>4, <1>5, <1>10 DEF SamePlan
<1>12. /\ x.seen = [e \in Evaluations |-> x.seen[e]]
       /\ x.seen["route"] = <<t.plan.id, t.plan.id>>
       /\ x.seen["commute"] = <<>> /\ x.seen["schedule"] = t.seen["schedule"]
       /\ x.seen["constraints"] = <<>>
  <2>1. y.seen = [e \in Evaluations |-> IF e \in {"commute", "constraints", "validation"} THEN <<>> ELSE t.seen[e]]
    BY ONLY <1>2, <1>5
  <2>2. Evaluations = {"route", "commute", "schedule", "constraints", "validation"}
    BY DEF Evaluations
  <2>3. x.seen = [e \in Evaluations |-> IF e = "route" THEN <<t.plan.id, t.plan.id>> ELSE y.seen[e]]
    BY ONLY <1>9, <2>1, <2>2
  <2> QED
    BY ONLY <2>1, <2>2, <2>3
<1>13. AgentTyped(x)
  <2>1. x.routes \in Nat
    BY <1>0, <1>11 DEF PlanRows
  <2> QED
    BY <1>0, <1>7, <1>8, <1>9, <1>10, <1>11, <1>12, <2>1 DEF Body, AgentTyped, Outer, Collected, SameTries
<1>14. Numbered(x)
  BY <1>0, <1>10, <1>11 DEF Body, Numbered, Outer, Collected, SameTries
<1>15. ReportsOK(x)
  <2>1. ReportOK(x.route.of, x.seen["route"], x.plan.id, x.routes, x.made)
    BY <1>0, <1>7, <1>9, <1>11, <1>12 DEF ReportOK, Body, Numbered, PlanRows
  <2>2. ReportOK(x.commute.of, x.seen["commute"], x.plan.id, x.routes, x.made)
    BY <1>0, <1>10, <1>11, <1>12 DEF ReportOK, Body, ReportsOK
  <2>3. ReportOK(x.schedule.of, x.seen["schedule"], x.plan.id, x.routes, x.made)
    BY <1>0, <1>10, <1>11, <1>12 DEF ReportOK, Body, ReportsOK
  <2>4. x.route.of = x.plan.id /\ ConstraintOK(x.constraints, x.seen["constraints"])
    BY <1>7, <1>9, <1>11, <1>12 DEF ConstraintOK
  <2> QED
    BY ONLY <2>1, <2>2, <2>3, <2>4 DEF ReportsOK
<1>16. BaselinesOK(x.opt, x.base, x.made)
  BY <1>0, <1>10, <1>11 DEF Body, SameTries
<1>17. ContentOK(x)
  BY <1>0, <1>10, <1>11 DEF Body, ContentOK, Pending, SameTries
<1>18. Body(x)
  BY ONLY <1>13, <1>14, <1>15, <1>16, <1>17 DEF Body
<1> DEFINE n == x.route.rec /\ ~Exhausted(x, "route")
<1>19. n \in BOOLEAN /\ v = SkipUnless(x, "route", n)
  BY <1>13 DEF AgentTyped, ReportRows
<1>20. (v.opt["route"] = "not_started" => n) /\ (v.opt["route"] = "not_started" => t.opt["route"] = "not_started")
  <2>1. CASE x.opt["route"] = "not_started" /\ ~n
    <3>1. v = [x EXCEPT !.opt["route"] = "skipped"]
      BY ONLY <1>19, <2>1 DEF SkipUnless
    <3>2. v.opt = [x.opt EXCEPT !["route"] = "skipped"] /\ x.opt \in [Optimizers -> OptStatuses]
      BY <1>8, <1>13, <3>1 DEF Rec, Fields, AgentTyped
    <3> QED
      BY ONLY <1>0, <3>2
  <2>2. CASE ~(x.opt["route"] = "not_started" /\ ~n)
    <3>1. v = x
      BY ONLY <1>19, <2>2 DEF SkipUnless
    <3> QED
      BY ONLY <1>10, <2>2, <3>1 DEF SameTries
  <2> QED
    BY <2>1, <2>2
<1>21. n => x.route.rec /\ ~Exhausted(x, "route")
  OBVIOUS
<1> HIDE DEF n, v
<1>22. /\ Body(v) /\ Outer(x, v) /\ Collected(x, v) /\ SamePlan(x, v) /\ SameReports(x, v)
       /\ SameVerdict(x, v) /\ v.tried = x.tried
       /\ \A q \in Optimizers : Pending(v, q) <=> Pending(x, q)
  BY ONLY <1>0, <1>18, <1>19, SkipUnlessKeeps
<1>23. RouteFirst(v)
  <2>1. v.opt["route"] = "not_started" => v.route.rec /\ ~Exhausted(v, "route")
    BY ONLY <1>20, <1>21, <1>22 DEF SameReports, Exhausted, Outer
  <2>2. \A o \in Optimizers : Pending(v, o) => Pending(t, o)
    BY ONLY <1>10, <1>22 DEF Pending, SameTries
  <2> QED
    BY ONLY <1>0, <1>20, <2>1, <2>2 DEF RouteFirst
<1>24. v.plan = t.plan /\ v.routes = t.plan.id /\ v.validation = "none"
  BY ONLY <1>10, <1>11, <1>22 DEF SamePlan, SameVerdict
<1>25. /\ Body(u) /\ RouteFirst(u) /\ Outer(v, u) /\ SamePlan(v, u) /\ SameVerdict(v, u)
  <2>1. v.plan.id # 0 /\ v.routes = v.plan.id
    BY <1>24
  <2> QED
    BY ONLY <1>1, <1>22, <1>23, <2>1, RefreshScheduleKeeps
<1>26. CoreOK(u) /\ Outer(t, u) /\ u.plan = t.plan /\ u.validation = "none"
  BY ONLY <1>10, <1>22, <1>24, <1>25 DEF CoreOK, Outer, SamePlan, SameVerdict
<1> QED
  BY ONLY <1>26, PostPlan

LEMMA InvalidateKeeps ==
    ASSUME NEW t, CoreOK(t), NEW keys, NEW u, u = Invalidate(t, keys) PROVE CoreOK(u)
<1>1. Rec(t) /\ t.seen = [e \in Evaluations |-> t.seen[e]]
  BY DEF CoreOK, Body, AgentTyped
<1>2. /\ Rec(u) /\ Outer(t, u) /\ Collected(t, u) /\ SamePlan(t, u) /\ SameReports(t, u)
      /\ SameTries(t, u) /\ u.validation = t.validation
      /\ u.seen = [e \in Evaluations |-> IF e \in keys THEN <<>> ELSE t.seen[e]]
  BY <1>1, InvalidateFacts
<1>3. u.pool = t.pool /\ u.food = t.food
  BY <1>2 DEF Collected
<1> QED
  BY <1>2, <1>3, Forgotten

\* A search for more attractions ends.
LEMMA CloseSearchKeeps ==
    ASSUME NEW t, CoreOK(t), t.opt["refill"] = "supplement_needed" \/ t.opt["commute"] = "supplement_needed",
           NEW x \in {"not_started", "skipped"}, NEW u, u = CloseSearch(t, x)
    PROVE  CoreOK(u) /\ Outer(t, u) /\ u.plan = t.plan /\ u.validation = t.validation
<1> DEFINE o == SearchUser(t)
<1>0. Rec(t) /\ Body(t) /\ RouteFirst(t)
  BY DEF CoreOK, Body, AgentTyped
<1>1. o \in Optimizers /\ o # "route" /\ ~Pending(t, o)
  BY DEF SearchUser, Optimizers, Pending
<1>2. u = [t EXCEPT !.searched[o] = @ + 1, !.query = <<>>, !.opt[o] = x]
  BY DEF CloseSearch
<1> HIDE DEF o
<1>3. Rec(u) /\ \A f \in Fields \ {"searched", "query", "opt"} : u[f] = t[f]
  BY ONLY <1>0, <1>2 DEF Rec
<1>4. u.opt = [t.opt EXCEPT ![o] = x]
  BY ONLY <1>0, <1>2 DEF Rec, Fields
<1>5. /\ Outer(t, u) /\ u.pool = t.pool /\ u.food = t.food /\ SamePlan(t, u) /\ SameReports(t, u)
      /\ u.seen = t.seen /\ u.tried = t.tried /\ u.base = t.base /\ u.validation = t.validation
  BY ONLY <1>3 DEF Fields, Outer, SamePlan, SameReports
<1>6. x \in OptStatuses \ {"candidate_pending"}
  BY DEF OptStatuses
<1>7. Body(u) /\ RouteFirst(u)
  BY ONLY <1>0, <1>1, <1>3, <1>4, <1>5, <1>6, SetOptKeeps
<1> QED
  BY <1>5, <1>7 DEF CoreOK, SamePlan

LEMMA FailedSupplementKeeps ==
    ASSUME NEW t, CoreOK(t), t.validation = "none", Decide(t) = "supplement_attractions",
           NEW u, u = FailedSupplement(t)
    PROVE  Post(t, u)
<1>1. t.opt["refill"] = "supplement_needed" \/ t.opt["commute"] = "supplement_needed"
  BY Decided
<1>2. PICK x \in {"not_started", "skipped"} : u = CloseSearch(t, x)
  BY DEF FailedSupplement
<1>3. CoreOK(u) /\ Outer(t, u) /\ u.plan = t.plan /\ u.validation = t.validation
  BY ONLY <1>1, <1>2, CoreOK(t), CloseSearchKeeps
<1> QED
  BY <1>3, PostPlan

\* supplement_attractions
LEMMA SupplementKeeps ==
    ASSUME NEW t, CoreOK(t), t.validation = "none", Decide(t) = "supplement_attractions",
           NEW n \in {t.pool, t.pool + 1}, NEW u,
           u = CloseSearch([Invalidate(t, {"constraints", "validation"}) EXCEPT !.pool = n], "not_started")
    PROVE  Post(t, u)
<1> DEFINE z == Invalidate(t, {"constraints", "validation"})
           y == [z EXCEPT !.pool = n]
<1>0. Rec(t) /\ t.pool \in Nat
  BY DEF CoreOK, Body, AgentTyped
<1>1. t.opt["refill"] = "supplement_needed" \/ t.opt["commute"] = "supplement_needed"
  BY Decided
<1>2. /\ Rec(z) /\ Outer(t, z) /\ Collected(t, z) /\ SamePlan(t, z) /\ SameReports(t, z)
      /\ SameTries(t, z) /\ z.validation = t.validation
      /\ z.seen = [e \in Evaluations |-> IF e \in {"constraints", "validation"} THEN <<>> ELSE t.seen[e]]
  BY ONLY <1>0, InvalidateFacts
<1>3. CoreOK(z)
  BY InvalidateKeeps
<1>4. u = CloseSearch(y, "not_started")
  OBVIOUS
<1> HIDE DEF z
<1>5. Rec(y) /\ \A f \in Fields \ {"pool"} : y[f] = z[f]
  BY ONLY <1>2 DEF Rec
<1>6. y.pool = n
  BY ONLY <1>2 DEF Rec, Fields
<1> HIDE DEF y
<1>7. CoreOK(y)
  <2>1. /\ y.status = z.status /\ y.finished = z.finished /\ y.step = z.step /\ y.food = z.food
        /\ y.content = z.content /\ y.seen = z.seen
    BY ONLY <1>5 DEF Fields
  <2>2. /\ z.status \in Statuses /\ z.finished \in BOOLEAN /\ z.step \in Nat /\ z.step <= z.budget.steps
        /\ z.seen = [e \in Evaluations |-> z.seen[e]]
    BY <1>3 DEF CoreOK, Body, AgentTyped
  <2>3. n \in Nat
    BY <1>0
  <2>4. \A f \in Fields \ Loose : y[f] = z[f]
    BY ONLY <1>5 DEF Loose
  <2>5. /\ y.status \in Statuses /\ y.finished \in BOOLEAN /\ y.step \in Nat /\ y.step <= z.budget.steps
        /\ y.pool \in Nat /\ y.food \in {z.food, z.plan.id} /\ y.content \in {z.content, 0}
    BY ONLY <1>6, <2>1, <2>2, <2>3
  <2>6. /\ y.seen = [e \in Evaluations |-> y.seen[e]]
        /\ \A e \in Evaluations \ {"validation"} : y.seen[e] \in {<<>>, z.seen[e]}
    BY ONLY <2>1, <2>2
  <2> QED
    BY ONLY <1>3, <1>5, <2>4, <2>5, <2>6, GatheredKeeps
<1>8. Outer(t, y) /\ y.plan = t.plan /\ y.opt = t.opt /\ y.validation = t.validation
  <2>1. Outer(z, y) /\ y.plan = z.plan /\ y.opt = z.opt /\ y.validation = z.validation
    BY ONLY <1>5 DEF Fields, Outer
  <2> QED
    BY ONLY <1>2, <2>1 DEF Outer, SamePlan, SameTries
<1>9. CoreOK(u) /\ Outer(y, u) /\ u.plan = y.plan /\ u.validation = y.validation
  <2>1. y.opt["refill"] = "supplement_needed" \/ y.opt["commute"] = "supplement_needed"
    BY <1>1, <1>8
  <2>2. "not_started" \in {"not_started", "skipped"}
    OBVIOUS
  <2> QED
    BY ONLY <1>4, <1>7, <2>1, <2>2, CloseSearchKeeps
<1>10. Outer(t, u) /\ u.plan = t.plan /\ u.validation = "none"
  BY ONLY <1>8, <1>9, t.validation = "none" DEF Outer
<1> QED
  BY ONLY <1>9, <1>10, PostPlan

\* search_restaurants
LEMMA RestaurantsKeep ==
    ASSUME NEW t, CoreOK(t), t.validation = "none", NEW u,
           u = [Invalidate(t, {"constraints", "validation"}) EXCEPT !.food = t.plan.id, !.content = 0]
    PROVE  Post(t, u)
<1> DEFINE z == Invalidate(t, {"constraints", "validation"})
<1>0. Rec(t)
  BY DEF CoreOK, Body, AgentTyped
<1>2. /\ Rec(z) /\ Outer(t, z) /\ Collected(t, z) /\ SamePlan(t, z) /\ SameReports(t, z)
      /\ SameTries(t, z) /\ z.validation = t.validation
      /\ z.seen = [e \in Evaluations |-> IF e \in {"constraints", "validation"} THEN <<>> ELSE t.seen[e]]
  BY ONLY <1>0, InvalidateFacts
<1>3. CoreOK(z)
  BY InvalidateKeeps
<1>4. u = [z EXCEPT !.food = t.plan.id, !.content = 0]
  OBVIOUS
<1> HIDE DEF z
<1>5. Rec(u) /\ \A f \in Fields \ {"food", "content"} : u[f] = z[f]
  BY ONLY <1>2, <1>4 DEF Rec
<1>6. u.food = t.plan.id /\ u.content = 0
  BY ONLY <1>2, <1>4 DEF Rec, Fields
<1>7. CoreOK(u)
  <2>1. u.status = z.status /\ u.finished = z.finished /\ u.step = z.step /\ u.pool = z.pool /\ u.seen = z.seen
    BY ONLY <1>5 DEF Fields
  <2>2. /\ z.status \in Statuses /\ z.finished \in BOOLEAN /\ z.step \in Nat /\ z.step <= z.budget.steps
        /\ z.seen = [e \in Evaluations |-> z.seen[e]] /\ z.pool \in Nat
    BY <1>3 DEF CoreOK, Body, AgentTyped
  <2>3. u.food = z.plan.id
    BY ONLY <1>2, <1>6 DEF SamePlan
  <2>4. \A f \in Fields \ Loose : u[f] = z[f]
    BY ONLY <1>5 DEF Loose
  <2>5. /\ u.status \in Statuses /\ u.finished \in BOOLEAN /\ u.step \in Nat /\ u.step <= z.budget.steps
        /\ u.pool \in Nat /\ u.food \in {z.food, z.plan.id} /\ u.content \in {z.content, 0}
    BY ONLY <1>6, <2>1, <2>2, <2>3
  <2>6. /\ u.seen = [e \in Evaluations |-> u.seen[e]]
        /\ \A e \in Evaluations \ {"validation"} : u.seen[e] \in {<<>>, z.seen[e]}
    BY ONLY <2>1, <2>2
  <2> QED
    BY ONLY <1>3, <1>5, <2>4, <2>5, <2>6, GatheredKeeps
<1>8. Outer(t, u) /\ u.plan = t.plan /\ u.validation = "none"
  <2>1. Outer(z, u) /\ u.plan = z.plan /\ u.validation = z.validation
    BY ONLY <1>5 DEF Fields, Outer
  <2> QED
    BY ONLY <1>2, <2>1, t.validation = "none" DEF Outer, SamePlan
<1> QED
  BY ONLY <1>7, <1>8, PostPlan

\* search_attractions, get_weather, search_hotels
LEMMA FactsKeep ==
    ASSUME NEW t, CoreOK(t), t.validation = "none", NEW u,
           u \in {[t EXCEPT !.pool = 1], [t EXCEPT !.weather = TRUE], [t EXCEPT !.hotels = TRUE]}
    PROVE  Post(t, u)
<1>0. Rec(t)
  BY DEF CoreOK, Body, AgentTyped
<1>1. Rec(u) /\ \A f \in Fields \ {"pool", "weather", "hotels"} : u[f] = t[f]
  <2>1. CASE u = [t EXCEPT !.pool = 1]
    BY ONLY <1>0, <2>1 DEF Rec
  <2>2. CASE u = [t EXCEPT !.weather = TRUE]
    BY ONLY <1>0, <2>2 DEF Rec
  <2>3. CASE u = [t EXCEPT !.hotels = TRUE]
    BY ONLY <1>0, <2>3 DEF Rec
  <2> QED
    BY <2>1, <2>2, <2>3
<1>2. u.pool \in {t.pool, 1}
  <2>1. CASE u = [t EXCEPT !.pool = 1]
    BY ONLY <1>0, <2>1 DEF Rec, Fields
  <2>2. CASE u = [t EXCEPT !.weather = TRUE]
    BY ONLY <1>0, <2>2 DEF Rec, Fields
  <2>3. CASE u = [t EXCEPT !.hotels = TRUE]
    BY ONLY <1>0, <2>3 DEF Rec, Fields
  <2> QED
    BY <2>1, <2>2, <2>3
<1>3. /\ u.status = t.status /\ u.finished = t.finished /\ u.step = t.step /\ u.food = t.food
      /\ u.content = t.content /\ u.seen = t.seen /\ Outer(t, u) /\ u.plan = t.plan /\ u.validation = t.validation
  BY ONLY <1>1 DEF Fields, Outer
<1>4. CoreOK(u)
  <2>2. /\ t.status \in Statuses /\ t.finished \in BOOLEAN /\ t.step \in Nat /\ t.step <= t.budget.steps
        /\ t.seen = [e \in Evaluations |-> t.seen[e]] /\ t.pool \in Nat
    BY DEF CoreOK, Body, AgentTyped
  <2>4. \A f \in Fields \ Loose : u[f] = t[f]
    BY ONLY <1>1 DEF Loose
  <2>5. /\ u.status \in Statuses /\ u.finished \in BOOLEAN /\ u.step \in Nat /\ u.step <= t.budget.steps
        /\ u.pool \in Nat /\ u.food \in {t.food, t.plan.id} /\ u.content \in {t.content, 0}
    BY ONLY <1>2, <1>3, <2>2
  <2>6. /\ u.seen = [e \in Evaluations |-> u.seen[e]]
        /\ \A e \in Evaluations \ {"validation"} : u.seen[e] \in {<<>>, t.seen[e]}
    BY ONLY <1>3, <2>2
  <2> QED
    BY ONLY <1>1, <2>4, <2>5, <2>6, CoreOK(t), GatheredKeeps
<1> QED
  BY <1>3, <1>4, PostPlan

----------------------------------------------------------------------------
(* Actions of the loop.                                                    *)

\* What a step or a verdict may change without touching the plan or its analyses.
Counters == {"status", "step", "tools", "llm", "done", "idle"}
Verdict == {"finished", "validation", "accepted", "seen"}

\* Decisions do not read the counters, and Ready does not read the verdict.
LEMMA ReadyAlike ==
    ASSUME NEW t, NEW u, \A f \in Fields \ (Counters \cup Verdict) : u[f] = t[f],
           \A e \in Evaluations \ {"validation"} : u.seen[e] = t.seen[e]
    PROVE  Ready(u) <=> Ready(t)
<1>1. /\ Collected(t, u) /\ SamePlan(t, u) /\ SameReports(t, u) /\ SameTries(t, u) /\ u.budget = t.budget
  BY ONLY \A f \in Fields \ (Counters \cup Verdict) : u[f] = t[f]
     DEF Fields, Counters, Verdict, Collected, SamePlan, SameReports, SameTries
<1>2. \A e \in {"route", "commute", "schedule", "constraints"} : u.seen[e] = t.seen[e]
  BY DEF Evaluations
<1>3. /\ Current(u, "route") <=> Current(t, "route")
      /\ Current(u, "commute") <=> Current(t, "commute")
      /\ Current(u, "schedule") <=> Current(t, "schedule")
  BY ONLY <1>1, <1>2 DEF Current, EvaluationIsCurrent, RouteInput, SamePlan, SameReports
<1>4. ConstraintsCurrent(u) <=> ConstraintsCurrent(t)
  BY ONLY <1>1, <1>2 DEF ConstraintsCurrent, EvaluationIsCurrent, ConstraintInput, ConstraintsMatch,
                         SamePlan, SameReports, Collected
<1>5. /\ \A o \in Optimizers : Pending(u, o) <=> Pending(t, o)
      /\ RefillNeeded(u) <=> RefillNeeded(t)
      /\ Wanted(u, "route", u.route) <=> Wanted(t, "route", t.route)
      /\ Wanted(u, "commute", u.commute) <=> Wanted(t, "commute", t.commute)
      /\ Wanted(u, "schedule", u.schedule) <=> Wanted(t, "schedule", t.schedule)
      /\ Wanted(u, "constraint", u.constraints) <=> Wanted(t, "constraint", t.constraints)
  BY ONLY <1>1 DEF Pending, RefillNeeded, Wanted, SamePlan, SameReports, SameTries
<1> QED
  BY ONLY <1>1, <1>3, <1>4, <1>5 DEF Ready, Collected, SamePlan, SameTries

LEMMA DecideAlike ==
    ASSUME NEW t, NEW u, \A f \in Fields \ Counters : u[f] = t[f]
    PROVE  Decide(u) = Decide(t)
<1>1. /\ Collected(t, u) /\ SamePlan(t, u) /\ SameReports(t, u) /\ SameTries(t, u) /\ SameVerdict(t, u)
      /\ u.budget = t.budget /\ u.seen = t.seen /\ u.repairs = t.repairs
  BY ONLY \A f \in Fields \ Counters : u[f] = t[f]
     DEF Fields, Counters, Collected, SamePlan, SameReports, SameTries, SameVerdict
<1>2. /\ Current(u, "route") <=> Current(t, "route")
      /\ Current(u, "commute") <=> Current(t, "commute")
      /\ Current(u, "schedule") <=> Current(t, "schedule")
  BY ONLY <1>1 DEF Current, EvaluationIsCurrent, RouteInput, SamePlan, SameReports
<1>3. ConstraintsCurrent(u) <=> ConstraintsCurrent(t)
  BY ONLY <1>1 DEF ConstraintsCurrent, EvaluationIsCurrent, ConstraintInput, ConstraintsMatch,
                   SamePlan, SameReports, Collected
<1>4. ValidationCurrent(u) <=> ValidationCurrent(t)
  BY ONLY <1>1 DEF ValidationCurrent, EvaluationIsCurrent, ValidationInput, SamePlan, SameReports,
                   Collected, SameVerdict
<1>5. /\ \A o : Pending(u, o) <=> Pending(t, o)
      /\ RefillNeeded(u) <=> RefillNeeded(t)
      /\ Wanted(u, "route", u.route) <=> Wanted(t, "route", t.route)
      /\ Wanted(u, "commute", u.commute) <=> Wanted(t, "commute", t.commute)
      /\ Wanted(u, "schedule", u.schedule) <=> Wanted(t, "schedule", t.schedule)
      /\ Wanted(u, "constraint", u.constraints) <=> Wanted(t, "constraint", t.constraints)
  BY ONLY <1>1 DEF Pending, RefillNeeded, Wanted, SamePlan, SameReports, SameTries
<1>6. \A a : AfterConstraints(u, a) = AfterConstraints(t, a)
  BY ONLY <1>3 DEF AfterConstraints
<1>7. DecideEarly(u) = DecideEarly(t)
  BY ONLY <1>1, <1>2, <1>5, <1>6 DEF DecideEarly, Collected, SamePlan, SameTries
<1>8. DecideLate(u) = DecideLate(t)
  BY ONLY <1>1, <1>2, <1>3, <1>4, <1>5, <1>6 DEF DecideLate, Collected, SamePlan, SameTries, SameVerdict
<1> QED
  BY ONLY <1>7, <1>8 DEF Decide

\* Counters change nothing that is promised.
LEMMA CountedKeeps ==
    ASSUME NEW t, AgentOK(t), NEW u, Rec(u), \A f \in Fields \ Counters : u[f] = t[f],
           u.status \in Statuses, u.step \in Nat, u.step <= t.budget.steps
    PROVE  /\ AgentOK(u) /\ u.budget = t.budget /\ u.plan = t.plan /\ u.finished = t.finished
           /\ u.validation = t.validation /\ u.opt = t.opt
           /\ \A o : Reverted(t, o) => Reverted(u, o)
<1>1. /\ Collected(t, u) /\ SamePlan(t, u) /\ SameReports(t, u) /\ SameTries(t, u) /\ SameVerdict(t, u)
      /\ u.budget = t.budget /\ u.seen = t.seen /\ u.finished = t.finished
  BY ONLY \A f \in Fields \ Counters : u[f] = t[f]
     DEF Fields, Counters, Collected, SamePlan, SameReports, SameTries, SameVerdict
<1>2. CoreOK(t) /\ VerdictOK(t)
  BY DEF AgentOK
<1>3. CoreOK(u)
  <2>1. \A f \in Fields \ Loose : u[f] = t[f]
    BY DEF Loose, Counters
  <2>2. t.finished \in BOOLEAN /\ t.pool \in Nat /\ t.seen = [e \in Evaluations |-> t.seen[e]]
    BY <1>2 DEF CoreOK, Body, AgentTyped
  <2>3. /\ u.finished \in BOOLEAN /\ u.pool \in Nat /\ u.food \in {t.food, t.plan.id} /\ u.content \in {t.content, 0}
    BY ONLY <1>1, <2>2 DEF Collected, SamePlan
  <2>4. /\ u.seen = [e \in Evaluations |-> u.seen[e]]
        /\ \A e \in Evaluations \ {"validation"} : u.seen[e] \in {<<>>, t.seen[e]}
    BY ONLY <1>1, <2>2
  <2> QED
    BY ONLY <1>2, <2>1, <2>3, <2>4, Rec(u), u.status \in Statuses, u.step \in Nat,
            u.step <= t.budget.steps, GatheredKeeps
<1>4. Ready(u) <=> Ready(t)
  <2>1. \A f \in Fields \ (Counters \cup Verdict) : u[f] = t[f]
    OBVIOUS
  <2>2. \A e \in Evaluations \ {"validation"} : u.seen[e] = t.seen[e]
    BY <1>1
  <2> QED
    BY ONLY <2>1, <2>2, ReadyAlike
<1>5. VerdictOK(u)
  BY ONLY <1>1, <1>2, <1>4 DEF VerdictOK, SameVerdict, ValidationInput, Deliverable, SamePlan, SameReports, Collected
<1>6. \A o : Reverted(t, o) => Reverted(u, o)
  BY ONLY <1>1, RevertedAlike DEF SamePlan, Collected
<1> QED
  BY <1>1, <1>3, <1>5, <1>6 DEF AgentOK, SamePlan, SameVerdict, SameTries

\* What an action leaves: a sound state of the same session and step, and a
\* candidate that was given up left its baseline behind.
Gives(t, u) ==
    /\ AgentOK(u) /\ u.budget = t.budget /\ u.step = t.step
    /\ \A o \in Optimizers :
          Pending(t, o) /\ ~Pending(u, o) /\ u.plan.id # t.plan.id => Reverted(u, o)

LEMMA PostGives ==
    ASSUME NEW t, ~t.finished, NEW u, Post(t, u) PROVE Gives(t, u)
BY DEF Post, Gives, AgentOK, VerdictOK, Outer

\* Only a plan that is ready has a verdict, so that other actions find none.
LEMMA NoVerdict ==
    ASSUME NEW t, AgentOK(t), NEW a, Decide(t) = a, a \notin Verdicts
    PROVE  t.validation = "none" /\ CoreOK(t)
<1>1. ~Ready(t)
  BY Decided
<1> QED
  BY <1>1 DEF AgentOK, VerdictOK

\* The plan with verdict v, good enough to deliver or not.
Judged(t, v, good) ==
    [t EXCEPT !.validation = v, !.accepted = (v = "valid" \/ good),
              !.seen["validation"] = ValidationInput(t)]

LEMMA Judging ==
    ASSUME NEW t
    PROVE  ValidatePlan(t) = {Judged(t, v, good) : v \in {"valid", "repairable", "fatal"}, good \in BOOLEAN}
BY DEF ValidatePlan, Judged

\* _validate_plan
LEMMA ValidatePlanKeeps ==
    ASSUME NEW t, AgentOK(t), ~t.finished, Decide(t) = "validate_plan", NEW u \in ValidatePlan(t)
    PROVE  Gives(t, u)
<1>0. CoreOK(t) /\ Rec(t) /\ t.seen = [e \in Evaluations |-> t.seen[e]] /\ t.finished \in BOOLEAN
  BY DEF AgentOK, CoreOK, Body, AgentTyped
<1>1. Ready(t)
  BY Decided DEF Verdicts
<1>2. PICK v \in {"valid", "repairable", "fatal"}, good \in BOOLEAN : u = Judged(t, v, good)
  BY Judging
<1>3. Rec(u) /\ \A f \in Fields \ {"validation", "accepted", "seen"} : u[f] = t[f]
  BY ONLY <1>0, <1>2 DEF Rec, Judged
<1>4. u.validation = v /\ u.seen = [t.seen EXCEPT !["validation"] = ValidationInput(t)]
  BY ONLY <1>0, <1>2 DEF Rec, Fields, Judged
<1>5. /\ u.seen["validation"] = ValidationInput(t) /\ u.seen = [e \in Evaluations |-> u.seen[e]]
      /\ \A e \in Evaluations \ {"validation"} : u.seen[e] = t.seen[e]
  <2>1. "validation" \in Evaluations
    BY DEF Evaluations
  <2> QED
    BY ONLY <1>0, <1>4, <2>1
<1>6. /\ Outer(t, u) /\ Collected(t, u) /\ SamePlan(t, u) /\ SameReports(t, u)
  BY ONLY <1>3 DEF Fields, Outer, Collected, SamePlan, SameReports
<1>7. ValidationInput(u) = ValidationInput(t)
  BY ONLY <1>6 DEF ValidationInput, SamePlan, SameReports, Collected
<1>8. Ready(u)
  <2>1. \A f \in Fields \ (Counters \cup Verdict) : u[f] = t[f]
    BY ONLY <1>3 DEF Verdict
  <2> QED
    BY ONLY <1>1, <1>5, <2>1, ReadyAlike
<1>9. CoreOK(u)
  <2>1. \A f \in Fields \ Loose : u[f] = t[f]
    BY ONLY <1>3 DEF Loose
  <2>2. /\ t.status \in Statuses /\ t.step \in Nat /\ t.step <= t.budget.steps /\ t.pool \in Nat
    BY <1>0 DEF CoreOK, Body, AgentTyped
  <2>3. /\ u.status \in Statuses /\ u.finished \in BOOLEAN /\ u.step \in Nat /\ u.step <= t.budget.steps
        /\ u.pool \in Nat /\ u.food \in {t.food, t.plan.id} /\ u.content \in {t.content, 0}
    BY ONLY <1>0, <1>6, <2>2 DEF Outer, Collected, SamePlan
  <2>4. \A e \in Evaluations \ {"validation"} : u.seen[e] \in {<<>>, t.seen[e]}
    BY ONLY <1>5
  <2> QED
    BY ONLY <1>0, <1>3, <1>5, <2>1, <2>3, <2>4, GatheredKeeps
<1>10. VerdictOK(u)
  BY <1>5, <1>6, <1>7, <1>8 DEF VerdictOK, Outer
<1> QED
  BY <1>6, <1>9, <1>10 DEF Gives, AgentOK, Outer, SamePlan

\* FINISH
LEMMA FinishKeeps ==
    ASSUME NEW t, AgentOK(t), Decide(t) = "finish",
           NEW u, u = [t EXCEPT !.finished = TRUE, !.status = "completed"]
    PROVE  Gives(t, u)
<1>0. CoreOK(t) /\ Rec(t) /\ t.seen = [e \in Evaluations |-> t.seen[e]] /\ VerdictOK(t)
  BY DEF AgentOK, CoreOK, Body, AgentTyped
<1>1. ValidationCurrent(t) /\ Deliverable(t)
  BY Decided
<1>2. t.validation # "none"
  BY <1>1 DEF ValidationCurrent
<1>3. Rec(u) /\ \A f \in Fields \ {"finished", "status"} : u[f] = t[f]
  BY ONLY <1>0, u = [t EXCEPT !.finished = TRUE, !.status = "completed"] DEF Rec
<1>4. u.finished = TRUE /\ u.status = "completed"
  BY ONLY <1>0, u = [t EXCEPT !.finished = TRUE, !.status = "completed"] DEF Rec, Fields
<1>6. /\ u.budget = t.budget /\ u.step = t.step /\ Collected(t, u) /\ SamePlan(t, u) /\ SameReports(t, u)
      /\ SameVerdict(t, u) /\ u.seen = t.seen
  BY ONLY <1>3 DEF Fields, Collected, SamePlan, SameReports, SameVerdict
<1>7. ValidationInput(u) = ValidationInput(t) /\ Deliverable(u)
  BY ONLY <1>1, <1>6 DEF ValidationInput, Deliverable, SamePlan, SameReports, Collected, SameVerdict
<1>8. Ready(u) <=> Ready(t)
  <2>1. \A f \in Fields \ (Counters \cup Verdict) : u[f] = t[f]
    BY ONLY <1>3 DEF Verdict, Counters
  <2>2. \A e \in Evaluations \ {"validation"} : u.seen[e] = t.seen[e]
    BY ONLY <1>6
  <2> QED
    BY ONLY <2>1, <2>2, ReadyAlike
<1>9. CoreOK(u)
  <2>1. \A f \in Fields \ Loose : u[f] = t[f]
    BY ONLY <1>3 DEF Loose
  <2>2. t.step \in Nat /\ t.step <= t.budget.steps /\ t.pool \in Nat
    BY <1>0 DEF CoreOK, Body, AgentTyped
  <2>3. /\ u.status \in Statuses /\ u.finished \in BOOLEAN /\ u.step \in Nat /\ u.step <= t.budget.steps
        /\ u.pool \in Nat /\ u.food \in {t.food, t.plan.id} /\ u.content \in {t.content, 0}
    BY ONLY <1>0, <1>4, <1>6, <2>2 DEF Statuses, Collected, SamePlan
  <2>4. /\ u.seen = [e \in Evaluations |-> u.seen[e]]
        /\ \A e \in Evaluations \ {"validation"} : u.seen[e] \in {<<>>, t.seen[e]}
    BY ONLY <1>0, <1>6
  <2> QED
    BY ONLY <1>0, <1>3, <2>1, <2>3, <2>4, GatheredKeeps
<1>10. VerdictOK(u)
  BY <1>0, <1>2, <1>6, <1>7, <1>8 DEF VerdictOK, SameVerdict
<1> QED
  BY <1>6, <1>9, <1>10 DEF Gives, AgentOK, SamePlan

\* The local actions.
LEMMA PerformGives ==
    ASSUME NEW t, AgentOK(t), ~t.finished, NEW a \in Local, Decide(t) = a, NEW u \in Perform(t, a)
    PROVE  Gives(t, u)
<1>1. CASE a = "validate_plan"
  <2>1. u \in ValidatePlan(t)
    BY <1>1 DEF Perform
  <2> QED
    BY <1>1, <2>1, ValidatePlanKeeps
<1>2. CASE a = "finish"
  <2>1. u = [t EXCEPT !.finished = TRUE, !.status = "completed"]
    BY <1>2 DEF Perform
  <2> QED
    BY <1>2, <2>1, FinishKeeps
<1>3. CASE a \notin {"validate_plan", "finish"}
  <2>0. a \notin Verdicts
    BY <1>3 DEF Verdicts, Local
  <2>1. CoreOK(t) /\ t.validation = "none"
    BY <2>0, NoVerdict
  <2>2. CASE a = "optimize_routes"
    BY <2>1, <2>2, OptimizeRoutesKeeps, PostGives DEF Perform
  <2>3. CASE a = "replace_remote_attraction"
    BY <2>1, <2>3, ReplaceRemoteAttractionKeeps, PostGives DEF Perform
  <2>4. CASE a = "optimize_schedule"
    BY <2>1, <2>4, OptimizeScheduleKeeps, PostGives DEF Perform
  <2>5. CASE a = "optimize_constraints"
    BY <2>1, <2>5, OptimizeConstraintsKeeps, PostGives DEF Perform
  <2>6. CASE a = "refill_attractions"
    BY <2>1, <2>6, RefillAttractionsKeeps, PostGives DEF Perform
  <2>7. CASE a = "rebuild_plan_content"
    BY <2>1, <2>7, RebuildPlanContentKeeps, PostGives DEF Perform
  <2>8. CASE a \in {"evaluate_commute", "evaluate_schedule", "evaluate_constraints"}
    <3>1. \/ Decide(t) = "evaluate_commute" /\ u = RefreshCommuteReport(t)
          \/ Decide(t) = "evaluate_schedule" /\ u = RefreshScheduleQuality(t)
          \/ \E rec \in BOOLEAN : u = RefreshConstraintReport(t, rec)
      BY <2>8 DEF Perform
    <3> QED
      BY <2>1, <3>1, EvaluationsKeep, PostGives
  <2> QED
    BY <1>3, <2>2, <2>3, <2>4, <2>5, <2>6, <2>7, <2>8 DEF Local
<1> QED
  BY <1>1, <1>2, <1>3

\* The results of the tools.
LEMMA ApplyGives ==
    ASSUME NEW t, AgentOK(t), ~t.finished, NEW a \in Tools, Decide(t) = a, NEW u \in Apply(t, a)
    PROVE  Gives(t, u)
<1>1. CASE a = "repair_plan"
  <2>1. Ready(t) /\ CoreOK(t)
    BY <1>1, Decided DEF Verdicts, AgentOK
  <2>2. t.plan.id # 0 /\ u \in RepairPlan(t) /\ \A q \in Optimizers : ~Pending(t, q)
    BY <1>1, <2>1 DEF Apply, Ready
  <2> QED
    BY <2>1, <2>2, NewPlanKeeps, PostGives
<1>2. CASE a # "repair_plan"
  <2>0. a \notin Verdicts
    BY <1>2 DEF Verdicts, Tools
  <2>1. CoreOK(t) /\ t.validation = "none"
    BY <2>0, NoVerdict
  <2>2. CASE a = "generate_plan"
    <3>1. t.plan.id = 0
      BY <2>2, Decided
    <3>2. \A q \in Optimizers : ~Pending(t, q)
      BY <2>1, <3>1 DEF CoreOK, Body, ContentOK
    <3>3. \E p \in LlmPlans(t) : u = ClearRouteAnalysis([t EXCEPT !.plan = p, !.made = p.id], TRUE)
      BY <2>2 DEF Apply
    <3> QED
      BY <2>1, <3>2, <3>3, NewPlanKeeps, PostGives
  <2>3. CASE a = "estimate_routes"
    <3>1. t.plan.id # 0 /\ u = EstimateRoutes(t)
      BY <2>3, Decided DEF Apply
    <3> QED
      BY <2>1, <3>1, EstimateRoutesKeeps, PostGives
  <2>4. CASE a = "supplement_attractions"
    <3>1. \E n \in {t.pool, t.pool + 1} :
             u = CloseSearch([Invalidate(t, {"constraints", "validation"}) EXCEPT !.pool = n], "not_started")
      BY <2>4 DEF Apply
    <3> QED
      BY <2>1, <2>4, <3>1, SupplementKeeps, PostGives
  <2>5. CASE a = "search_restaurants"
    <3>1. u = [Invalidate(t, {"constraints", "validation"}) EXCEPT !.food = t.plan.id, !.content = 0]
      BY <2>5 DEF Apply
    <3> QED
      BY <2>1, <3>1, RestaurantsKeep, PostGives
  <2>6. CASE a \in {"search_attractions", "get_weather", "search_hotels"}
    <3>1. u \in {[t EXCEPT !.pool = 1], [t EXCEPT !.weather = TRUE], [t EXCEPT !.hotels = TRUE]}
      BY <2>6 DEF Apply
    <3> QED
      BY <2>1, <3>1, FactsKeep, PostGives
  <2> QED
    BY <1>2, <2>2, <2>3, <2>4, <2>5, <2>6 DEF Tools
<1> QED
  BY <1>1, <1>2

\* A state t that an action may leave the session s in.
Led(t) ==
    /\ AgentOK(t) /\ t.budget = s.budget
    /\ \A o \in Optimizers :
          Pending(s, o) /\ ~Pending(t, o) /\ t.plan.id # s.plan.id => Reverted(t, o)

\* What every step of the loop does to the session and its checkpoint.
StepKept ==
    /\ AgentOK(s') /\ AgentOK(saved') /\ s'.budget = s.budget /\ saved'.budget = s.budget
    /\ run' \in Runs /\ run'.left <= s.budget.local
    /\ IF run'.pc = "drain" THEN saved'.step < s'.step ELSE saved' = s'
    /\ \A o \in Optimizers :
          Pending(s, o) /\ ~Pending(s', o) /\ s'.plan.id # s.plan.id /\ s'.step >= s.step
              => Reverted(s', o)

\* The chosen action starts in a state that differs in its counters.
LEMMA EnteredKeeps ==
    ASSUME LoopIInv, Choosing, NEW a, NEW t \in {s, Entered(a), Counted(a)}
    PROVE  /\ Led(t) /\ Decide(t) = Decide(s) /\ ~t.finished /\ t.plan = s.plan /\ t.opt = s.opt
           /\ t \in {Entered(a), Counted(a)} => saved.step < t.step
<1>0. /\ AgentOK(s) /\ Rec(s) /\ s.step \in Nat /\ s.step <= s.budget.steps /\ s.status \in Statuses
      /\ s.budget.steps \in Nat /\ s.finished \in BOOLEAN
  BY DEF LoopIInv, AgentOK, CoreOK, Body, AgentTyped, Budget
<1>1. /\ ~s.finished
      /\ At("step") => s.step < s.budget.steps /\ saved = s
      /\ ~At("step") => saved.step < s.step
  BY DEF Choosing, At, LoopIInv
<1> DEFINE k == IF At("step") THEN s.step + 1 ELSE s.step
<1>2. k \in Nat /\ k <= s.budget.steps /\ saved.step < k
  BY <1>0, <1>1
<1>3. Rec(t) /\ \A f \in Fields \ Counters : t[f] = s[f]
  <2>1. CASE t = s
    BY ONLY <1>0, <2>1
  <2>2. CASE t = Entered(a)
    BY ONLY <1>0, <2>2 DEF Rec, Entered, Counters
  <2>3. CASE t = Counted(a)
    <3> DEFINE v == Entered(a)
    <3>1. Rec(v) /\ \A f \in Fields \ Counters : v[f] = s[f]
      BY ONLY <1>0 DEF Rec, Entered, Counters
    <3>2. t = [v EXCEPT !.tools = @ + 1, !.llm = @ + LlmCost(a)]
      BY <2>3 DEF Counted
    <3> HIDE DEF v
    <3> QED
      BY ONLY <3>1, <3>2 DEF Rec, Counters
  <2> QED
    BY <2>1, <2>2, <2>3
<1>4. t.status = s.status /\ (t \in {Entered(a), Counted(a)} => t.step = k) /\ t.step \in {s.step, k}
  <2>1. t = Entered(a) => t.status = s.status /\ t.step = k
    BY ONLY <1>0 DEF Rec, Fields, Entered
  <2>2. t = Counted(a) => t.status = s.status /\ t.step = k
    <3> DEFINE v == Entered(a)
    <3>1. Rec(v) /\ v.status = s.status /\ v.step = k
      BY ONLY <1>0 DEF Rec, Fields, Entered
    <3>2. t = Counted(a) => t = [v EXCEPT !.tools = @ + 1, !.llm = @ + LlmCost(a)]
      BY DEF Counted
    <3> HIDE DEF v, k
    <3> QED
      BY ONLY <3>1, <3>2 DEF Rec, Fields
  <2> HIDE DEF k
  <2> QED
    BY <2>1, <2>2
<1> HIDE DEF k
<1>5. t.step \in Nat /\ t.step <= s.budget.steps /\ (t \in {Entered(a), Counted(a)} => saved.step < t.step)
  BY ONLY <1>0, <1>2, <1>4
<1>6. t.status \in Statuses
  BY ONLY <1>0, <1>4
<1>7. /\ AgentOK(t) /\ t.budget = s.budget /\ t.plan = s.plan /\ t.finished = s.finished
      /\ t.validation = s.validation /\ t.opt = s.opt
  BY ONLY <1>0, <1>3, <1>5, <1>6, CountedKeeps
<1>8. Decide(t) = Decide(s)
  BY ONLY <1>3, DecideAlike
<1> QED
  BY <1>1, <1>5, <1>7, <1>8 DEF Led

\* _record_convergence_result
LEMMA RecordKeeps ==
    ASSUME NEW t, AgentOK(t), NEW a, NEW u, u = RecordConvergenceResult(s, a, t)
    PROVE  /\ AgentOK(u) /\ u.budget = t.budget /\ u.step = t.step /\ u.plan = t.plan /\ u.opt = t.opt
           /\ \A o : Reverted(t, o) => Reverted(u, o)
<1>0. Rec(t) /\ t.step \in Nat /\ t.step <= t.budget.steps /\ t.status \in Statuses
  BY DEF AgentOK, CoreOK, Body, AgentTyped
<1>1. \E d, i, x : u = [t EXCEPT !.done = d, !.idle = i, !.status = x] /\ x \in {t.status, "convergence_stopped"}
  <2>1. CASE Business(s) # Business(t)
    <3>1. u = [t EXCEPT !.done = [k \in {<<a, Input(s, a)>>} |-> 1], !.idle = 0]
      BY <2>1 DEF RecordConvergenceResult
    <3> DEFINE d == [k \in {<<a, Input(s, a)>>} |-> 1]
    <3>2. u = [t EXCEPT !.done = d, !.idle = 0]
      BY <3>1
    <3> HIDE DEF d
    <3>3. u = [t EXCEPT !.done = d, !.idle = 0, !.status = t.status]
      BY ONLY <1>0, <3>2 DEF Rec, Fields
    <3> QED
      BY <3>3
  <2>2. CASE Business(s) = Business(t)
    BY <2>2 DEF RecordConvergenceResult
  <2> QED
    BY <2>1, <2>2
<1>2. PICK d, i, x : u = [t EXCEPT !.done = d, !.idle = i, !.status = x] /\ x \in {t.status, "convergence_stopped"}
  BY <1>1
<1>3. Rec(u) /\ \A f \in Fields \ {"done", "idle", "status"} : u[f] = t[f]
  BY ONLY <1>0, <1>2 DEF Rec
<1>4. u.status = x
  BY ONLY <1>0, <1>2 DEF Rec, Fields
<1>5. u.step = t.step
  BY ONLY <1>3 DEF Fields
<1>6. u.status \in Statuses
  BY ONLY <1>0, <1>2, <1>4 DEF Statuses
<1>7. \A f \in Fields \ Counters : u[f] = t[f]
  BY ONLY <1>3 DEF Counters
<1>8. u.step \in Nat /\ u.step <= t.budget.steps
  BY ONLY <1>0, <1>5
<1> QED
  BY ONLY <1>3, <1>5, <1>6, <1>7, <1>8, AgentOK(t), CountedKeeps

\* The session stops.
LEMMA HaltKeeps ==
    ASSUME LoopIInv, NEW t, Led(t), NEW x \in Statuses, Halt(t, x)
    PROVE  StepKept
<1>0. AgentOK(t) /\ Rec(t) /\ t.step \in Nat /\ t.step <= t.budget.steps
  BY DEF Led, AgentOK, CoreOK, Body, AgentTyped
<1> DEFINE u == [t EXCEPT !.status = x]
<1>1. s' = u /\ saved' = s' /\ run' = [run EXCEPT !.pc = "stopped"]
  BY DEF Halt
<1>2. Rec(u) /\ \A f \in Fields \ {"status"} : u[f] = t[f]
  BY ONLY <1>0 DEF Rec
<1>3. u.status = x
  BY ONLY <1>0 DEF Rec, Fields
<1> HIDE DEF u
<1>4. u.step = t.step
  BY ONLY <1>2 DEF Fields
<1>5. /\ \A f \in Fields \ Counters : u[f] = t[f]
      /\ u.step \in Nat /\ u.step <= t.budget.steps /\ u.status \in Statuses
  BY <1>0, <1>2, <1>3, <1>4 DEF Counters
<1>6. /\ AgentOK(u) /\ u.budget = t.budget /\ u.plan = t.plan /\ u.opt = t.opt
      /\ \A o : Reverted(t, o) => Reverted(u, o)
  BY ONLY <1>0, <1>2, <1>5, CountedKeeps
<1>7. run' \in Runs /\ run'.left = run.left /\ run'.pc = "stopped"
  BY <1>1 DEF LoopIInv, Runs
<1>8. \A o \in Optimizers : Pending(s, o) /\ ~Pending(u, o) /\ u.plan.id # s.plan.id => Reverted(u, o)
  BY ONLY <1>6, Led(t) DEF Led, Pending
<1> QED
  BY <1>1, <1>6, <1>7, <1>8 DEF StepKept, LoopIInv, Led

\* The step ends with its checkpoint.
LEMMA CommitKeeps ==
    ASSUME LoopIInv, NEW t, Led(t), NEW n \in [Tools -> Nat], Commit(t, n)
    PROVE  StepKept
<1>1. s' = t /\ saved' = t /\ run' = [pc |-> "step", left |-> 0, attempts |-> n]
  BY DEF Commit
<1>2. run' \in Runs /\ run'.left = 0 /\ run'.pc = "step"
  BY <1>1 DEF Runs
<1>3. s.budget.local \in Nat
  BY DEF LoopIInv, AgentOK, CoreOK, Body, AgentTyped, Budget
<1> QED
  BY <1>1, <1>2, <1>3 DEF StepKept, Led

\* The action succeeded.
LEMMA SucceedKeeps ==
    ASSUME LoopIInv, Choosing, NEW t, Led(t), saved.step < t.step, NEW a, NEW n \in [Tools -> Nat],
           Succeed(a, t, n)
    PROVE  StepKept
<1> DEFINE u == RecordConvergenceResult(s, a, t)
<1>1. /\ AgentOK(u) /\ u.budget = t.budget /\ u.step = t.step /\ u.plan = t.plan /\ u.opt = t.opt
      /\ \A o : Reverted(t, o) => Reverted(u, o)
  BY RecordKeeps DEF Led
<1>2. \/ Halt(u, "convergence_stopped")
      \/ /\ s' = u /\ UNCHANGED saved
         /\ run' = [pc |-> "drain", left |-> IF At("step") THEN s.budget.local ELSE run.left - 1,
                    attempts |-> n]
  BY DEF Succeed
<1> HIDE DEF u
<1>3. Led(u)
  BY ONLY <1>1, Led(t) DEF Led, Pending
<1>4. CASE Halt(u, "convergence_stopped")
  <2>1. "convergence_stopped" \in Statuses
    BY DEF Statuses
  <2> QED
    BY ONLY <1>3, <1>4, <2>1, LoopIInv, HaltKeeps
<1>5. CASE /\ s' = u /\ UNCHANGED saved
           /\ run' = [pc |-> "drain", left |-> IF At("step") THEN s.budget.local ELSE run.left - 1,
                      attempts |-> n]
  <2>1. s.budget.local \in Nat /\ run.left \in Nat /\ run.left <= s.budget.local /\ (~At("step") => run.left > 0)
    BY DEF LoopIInv, AgentOK, CoreOK, Body, AgentTyped, Budget, Runs, Choosing, At
  <2>2. run' \in Runs /\ run'.left <= s.budget.local /\ run'.pc = "drain"
    BY <1>5, <2>1 DEF Runs
  <2>3. saved'.step < s'.step
    BY <1>1, <1>5
  <2> QED
    BY <1>3, <1>5, <2>2, <2>3 DEF StepKept, LoopIInv, Led
<1> QED
  BY <1>2, <1>4, <1>5

LEMMA GivesLed ==
    ASSUME NEW e, Led(e), e.plan = s.plan, e.opt = s.opt, NEW t, Gives(e, t)
    PROVE  Led(t) /\ t.step = e.step
BY DEF Led, Gives, Pending

LEMMA LocalActionKeeps ==
    ASSUME LoopIInv, LocalAction
    PROVE  StepKept
<1> DEFINE a == Decide(s)
           e == Entered(a)
<1>0. Choosing /\ a \in Local /\ run.attempts \in [Tools -> Nat]
  BY DEF LocalAction, LoopIInv, Runs
<1>1. /\ Led(e) /\ Decide(e) = a /\ ~e.finished /\ e.plan = s.plan /\ e.opt = s.opt
      /\ saved.step < e.step /\ Led(s)
  BY <1>0, EnteredKeeps
<1>2. CASE Repeated(a)
  <2>1. Halt(s, "convergence_stopped") /\ "convergence_stopped" \in Statuses
    BY <1>2 DEF LocalAction, Statuses
  <2> QED
    BY ONLY <1>1, <2>1, LoopIInv, HaltKeeps
<1>3. CASE ~Repeated(a)
  <2>1. PICK t \in Perform(e, a) :
            IF a = "validate_plan" /\ ~Deliverable(t)
            THEN IF t.validation = "repairable" /\ t.repairs < t.budget.repairs
                 THEN Commit(t, run.attempts) ELSE Halt(t, "failed")
            ELSE Succeed(a, t, run.attempts)
    BY <1>3 DEF LocalAction
  <2> HIDE DEF e, a
  <2>2. Gives(e, t)
    BY ONLY <1>0, <1>1, <2>1, PerformGives DEF Led
  <2>3. Led(t) /\ t.step = e.step
    BY ONLY <1>1, <2>2, GivesLed
  <2>4. saved.step < t.step /\ "failed" \in Statuses
    BY <1>1, <2>3 DEF Statuses
  <2>5. \/ Commit(t, run.attempts)
        \/ Halt(t, "failed")
        \/ Succeed(a, t, run.attempts)
    BY ONLY <2>1
  <2>6. CASE Commit(t, run.attempts)
    BY ONLY <1>0, <2>3, <2>6, LoopIInv, CommitKeeps
  <2>7. CASE Halt(t, "failed")
    BY ONLY <2>3, <2>4, <2>7, LoopIInv, HaltKeeps
  <2>8. CASE Succeed(a, t, run.attempts)
    BY ONLY <1>0, <2>3, <2>4, <2>8, LoopIInv, SucceedKeeps
  <2> QED
    BY ONLY <2>5, <2>6, <2>7, <2>8
<1> QED
  BY <1>2, <1>3

LEMMA ToolActionKeeps ==
    ASSUME LoopIInv, ToolAction
    PROVE  StepKept
<1> DEFINE a == Decide(s)
           c == Counted(a)
           n == [run.attempts EXCEPT ![a] = @ + 1]
<1>0. Choosing /\ a \in Tools /\ n \in [Tools -> Nat]
  BY DEF ToolAction, LoopIInv, Runs
<1>1. /\ Led(c) /\ Decide(c) = a /\ ~c.finished /\ c.plan = s.plan /\ c.opt = s.opt
      /\ saved.step < c.step /\ Led(s) /\ Led(Entered(a))
  BY <1>0, EnteredKeeps
<1>2. CASE Repeated(a)
  <2>1. Halt(s, "convergence_stopped") /\ "convergence_stopped" \in Statuses
    BY <1>2 DEF ToolAction, Statuses
  <2> QED
    BY ONLY <1>1, <2>1, LoopIInv, HaltKeeps
<1>3. CASE ~Repeated(a) /\ OverBudget(a)
  <2>1. Halt(Entered(a), "budget_exhausted") /\ "budget_exhausted" \in Statuses
    BY <1>3 DEF ToolAction, Statuses
  <2> QED
    BY ONLY <1>1, <2>1, LoopIInv, HaltKeeps
<1>4. CASE ~Repeated(a) /\ ~OverBudget(a)
  <2>1. PICK t \in Apply(c, a) : Succeed(a, t, n)
    BY <1>4 DEF ToolAction
  <2> HIDE DEF c, a, n
  <2>2. Gives(c, t)
    BY ONLY <1>0, <1>1, <2>1, ApplyGives DEF Led
  <2>3. Led(t) /\ t.step = c.step
    BY ONLY <1>1, <2>2, GivesLed
  <2>4. saved.step < t.step
    BY <1>1, <2>3
  <2> QED
    BY ONLY <1>0, <2>1, <2>3, <2>4, LoopIInv, SucceedKeeps
<1> QED
  BY <1>2, <1>3, <1>4

LEMMA ToolFailureKeeps ==
    ASSUME LoopIInv, ToolFailure
    PROVE  StepKept
<1> DEFINE a == Decide(s)
           n == [run.attempts EXCEPT ![a] = @ + 1]
<1>0. Choosing /\ a \in Tools /\ n \in [Tools -> Nat]
  BY DEF ToolFailure, LoopIInv, Runs
<1>1. \A t \in {Entered(a), Counted(a)} :
         Led(t) /\ Decide(t) = a /\ ~t.finished /\ t.plan = s.plan /\ t.opt = s.opt
  BY <1>0, EnteredKeeps
<1>2. \E t \in {Entered(a), Counted(a)} :
         \/ Commit(t, n) \/ Halt(t, "budget_exhausted") \/ Halt(t, "failed")
         \/ a = "supplement_attractions" /\ Commit(FailedSupplement(t), n)
  BY DEF ToolFailure
<1> HIDE DEF a, n
<1>3. PICK t \in {Entered(a), Counted(a)} :
         \/ Commit(t, n) \/ Halt(t, "budget_exhausted") \/ Halt(t, "failed")
         \/ a = "supplement_attractions" /\ Commit(FailedSupplement(t), n)
  BY <1>2
<1>4. Led(t) /\ Decide(t) = a /\ ~t.finished /\ t.plan = s.plan /\ t.opt = s.opt
  BY <1>1
<1>5. "budget_exhausted" \in Statuses /\ "failed" \in Statuses
  BY DEF Statuses
<1>6. CASE Commit(t, n)
  BY ONLY <1>0, <1>4, <1>6, LoopIInv, CommitKeeps
<1>7. CASE Halt(t, "budget_exhausted") \/ Halt(t, "failed")
  BY ONLY <1>4, <1>5, <1>7, LoopIInv, HaltKeeps
<1>8. CASE a = "supplement_attractions" /\ Commit(FailedSupplement(t), n)
  <2> DEFINE u == FailedSupplement(t)
  <2>1. AgentOK(t) /\ a \notin Verdicts
    BY <1>4, <1>8 DEF Led, Verdicts
  <2>2. CoreOK(t) /\ t.validation = "none"
    BY ONLY <1>4, <2>1, NoVerdict
  <2>3. Gives(t, u)
    BY <1>4, <1>8, <2>2, FailedSupplementKeeps, PostGives
  <2>4. Commit(u, n)
    BY <1>8
  <2> HIDE DEF u
  <2>5. Led(u)
    BY ONLY <1>4, <2>3, GivesLed
  <2> QED
    BY ONLY <1>0, <2>4, <2>5, LoopIInv, CommitKeeps
<1> QED
  BY <1>3, <1>6, <1>7, <1>8

\* The actions that leave the session as it is.
LEMMA OthersKeep ==
    ASSUME LoopIInv, Expire \/ EndStep \/ Leave
    PROVE  StepKept
<1>1. Led(s) /\ run.attempts \in [Tools -> Nat]
  BY DEF LoopIInv, Led, Runs
<1>2. \/ \E x \in {"budget_exhausted", "completed", "max_steps_reached"} : Halt(s, x)
      \/ Commit(s, run.attempts)
  BY DEF Expire, EndStep, Leave
<1>3. CASE \E x \in {"budget_exhausted", "completed", "max_steps_reached"} : Halt(s, x)
  <2>1. PICK x \in {"budget_exhausted", "completed", "max_steps_reached"} : Halt(s, x)
    BY <1>3
  <2>2. x \in Statuses
    BY <2>1 DEF Statuses
  <2> QED
    BY ONLY <1>1, <2>1, <2>2, LoopIInv, HaltKeeps
<1>4. CASE Commit(s, run.attempts)
  BY ONLY <1>1, <1>4, LoopIInv, CommitKeeps
<1> QED
  BY <1>2, <1>3, <1>4

\* resume: the checkpoint is older than a step in progress, else the session.
LEMMA ResumeKeeps ==
    ASSUME LoopIInv, Resume
    PROVE  StepKept
<1> DEFINE u == [saved EXCEPT !.status = "running"]
<1>0. AgentOK(saved) /\ Rec(saved) /\ saved.step \in Nat /\ saved.step <= saved.budget.steps
  BY DEF LoopIInv, AgentOK, CoreOK, Body, AgentTyped
<1>1. s' = u /\ saved' = u /\ run' = Fresh
  BY DEF Resume
<1>2. Rec(u) /\ \A f \in Fields \ {"status"} : u[f] = saved[f]
  BY ONLY <1>0 DEF Rec
<1>3. u.status = "running"
  BY ONLY <1>0 DEF Rec, Fields
<1> HIDE DEF u
<1>4. u.step = saved.step
  BY ONLY <1>2 DEF Fields
<1>5. /\ \A f \in Fields \ Counters : u[f] = saved[f]
      /\ u.step \in Nat /\ u.step <= saved.budget.steps /\ u.status \in Statuses
  BY <1>0, <1>2, <1>3, <1>4 DEF Counters, Statuses
<1>6. AgentOK(u) /\ u.budget = saved.budget /\ u.plan = saved.plan
  BY ONLY <1>0, <1>2, <1>5, CountedKeeps
<1>7. run' \in Runs /\ run'.left = 0 /\ run'.pc = "step"
  BY <1>1 DEF Fresh, Runs
<1>8. u.step >= s.step => u.plan = s.plan
  <2>1. s.step \in Nat
    BY DEF LoopIInv, AgentOK, CoreOK, Body, AgentTyped
  <2>2. saved.step < s.step \/ saved = s
    BY DEF LoopIInv
  <2> QED
    BY ONLY <1>0, <1>4, <1>6, <2>1, <2>2
<1>9. s.budget.local \in Nat /\ saved.budget = s.budget
  BY DEF LoopIInv, AgentOK, CoreOK, Body, AgentTyped, Budget
<1> QED
  BY <1>1, <1>6, <1>7, <1>8, <1>9 DEF StepKept

LEMMA NextKeeps == ASSUME LoopIInv, Next PROVE StepKept /\ LoopIInv'
<1>1. StepKept
  BY LocalActionKeeps, ToolActionKeeps, ToolFailureKeeps, OthersKeep, ResumeKeeps DEF Next
<1>2. spare' \in [faults : Nat, restarts : Nat]
  BY DEF Next, LocalAction, ToolAction, ToolFailure, Expire, EndStep, Leave, Resume, LoopIInv
<1>3. \E p \in Profiles : s'.budget = p.budget
  BY <1>1 DEF StepKept, LoopIInv
<1> QED
  BY <1>1, <1>2, <1>3 DEF StepKept, LoopIInv

LEMMA LoopInit == Init => LoopIInv
<1> SUFFICES ASSUME Init PROVE LoopIInv
  OBVIOUS
<1>1. PICK p \in Profiles : /\ s = [NewState(p.budget) EXCEPT !.status = "running"]
                            /\ spare = [faults |-> p.faults, restarts |-> p.restarts]
  BY DEF Init
<1>2. p.budget \in Budget /\ p.faults \in Nat /\ p.restarts \in Nat
  BY LimitsAssumption
<1>3. saved = s /\ run = Fresh
  BY DEF Init
<1>4. Rec(s)
  BY <1>1 DEF Rec, Fields, NewState
<1>5. /\ s.budget = p.budget /\ s.status = "running" /\ s.finished = FALSE /\ s.step = 0 /\ s.pool = 0
      /\ s.made = 0 /\ s.plan = NoPlan /\ s.routes = 0 /\ s.food = 0 /\ s.content = 0
      /\ s.validation = "none"
  BY <1>1 DEF NewState
<1>6. /\ s.route = NoReport /\ s.commute = NoReport /\ s.schedule = NoReport
      /\ s.constraints = NoConstraintReport /\ s.seen = [e \in Evaluations |-> <<>>]
      /\ s.opt = [o \in Optimizers |-> "not_started"] /\ s.tried = [o \in Optimizers |-> 0]
      /\ s.base = [o \in Optimizers |-> NoBaseline]
  BY <1>1 DEF NewState
<1>7. AgentTyped(s)
  <2>1. s.seen = [e \in Evaluations |-> s.seen[e]]
    BY ONLY <1>6
  <2>2. s.opt \in [Optimizers -> OptStatuses] /\ s.tried \in [Optimizers -> Nat] /\ s.base \in [Optimizers -> BaseRows]
    BY <1>6, NothingRows DEF OptStatuses
  <2>3. s.status \in Statuses /\ s.budget \in Budget /\ s.step <= s.budget.steps
    BY <1>2, <1>5 DEF Statuses, Budget
  <2>3a. s.finished \in BOOLEAN
    <3>1. s.finished = FALSE
      BY <1>5
    <3> QED
      BY ONLY <3>1
  <2>4. /\ s.step \in Nat /\ s.pool \in Nat /\ s.made \in Nat
        /\ s.routes \in Nat /\ s.food \in Nat /\ s.content \in Nat
    BY ONLY <1>5
  <2>5. /\ s.plan \in PlanRows /\ s.route \in ReportRows /\ s.commute \in ReportRows
        /\ s.schedule \in ReportRows /\ s.constraints \in ConstraintRows
    BY ONLY <1>5, <1>6, NothingRows
  <2> QED
    BY ONLY <1>4, <2>1, <2>2, <2>3, <2>3a, <2>4, <2>5 DEF AgentTyped
<1>8. NoPlan.id = 0
  BY DEF NoPlan
<1>9. Numbered(s)
  <2>1. \A o \in Optimizers : s.budget.tries[o] \in Nat /\ s.tried[o] = 0
    BY <1>2, <1>5, <1>6 DEF Budget
  <2> QED
    BY ONLY <1>5, <1>8, <2>1 DEF Numbered
<1>10. ReportsOK(s)
  BY <1>5, <1>6, <1>8, NothingRows DEF ReportsOK, ReportOK, ConstraintOK, Evaluations
<1>11. \A o \in Optimizers : ~Pending(s, o) /\ s.base[o].plan.id = 0
  BY <1>6, NothingRows DEF Pending
<1>12. BaselinesOK(s.opt, s.base, s.made) /\ ContentOK(s) /\ RouteFirst(s)
  BY <1>5, <1>6, <1>8, <1>11, NothingRows DEF BaselinesOK, ContentOK, RouteFirst, Pending
<1>13. AgentOK(s)
  BY <1>5, <1>7, <1>9, <1>10, <1>12 DEF AgentOK, CoreOK, Body, VerdictOK
<1>14. run \in Runs /\ run.left = 0 /\ run.pc = "step"
  BY <1>3 DEF Fresh, Runs
<1>15. s.budget.local \in Nat /\ spare \in [faults : Nat, restarts : Nat]
  BY <1>1, <1>2, <1>5 DEF Budget
<1> QED
  BY <1>3, <1>5, <1>13, <1>14, <1>15 DEF LoopIInv

----------------------------------------------------------------------------
(* The theorems.                                                           *)

LEMMA LoopInduction == Spec => []LoopIInv
<1>1. Init => LoopIInv
  BY LoopInit
<1>2. LoopIInv /\ [Next]_vars => LoopIInv'
  <2>1. ASSUME LoopIInv, Next PROVE LoopIInv'
    BY <2>1, NextKeeps
  <2>2. ASSUME LoopIInv, UNCHANGED vars PROVE LoopIInv'
    <3>1. s' = s /\ saved' = saved /\ run' = run /\ spare' = spare
      BY <2>2 DEF vars
    <3> QED
      BY <2>2, <3>1 DEF LoopIInv
  <2> QED
    BY <2>1, <2>2
<1> QED
  BY <1>1, <1>2, PTL DEF Spec

LEMMA InvFromLoop == LoopIInv => LoopInv
<1> SUFFICES ASSUME LoopIInv PROVE LoopInv
  OBVIOUS
<1>0. /\ AgentOK(s) /\ CoreOK(s) /\ Body(s) /\ AgentTyped(s) /\ Numbered(s) /\ VerdictOK(s)
      /\ BaselinesOK(s.opt, s.base, s.made) /\ s.plan.id \in Nat /\ s.budget.steps \in Nat /\ s.budget.local \in Nat
  BY DEF LoopIInv, AgentOK, CoreOK, Body, AgentTyped, Budget, PlanRows
<1>1. LoopTypeOK
  <2>1. /\ \E p \in Profiles : s.budget = p.budget
        /\ s.status \in Statuses /\ s.step \in 0 .. s.budget.steps
    BY <1>0 DEF LoopIInv, AgentTyped
  <2>2. s.plan.id \in 0 .. s.made /\ s.routes \in 0 .. s.made /\ s.food \in 0 .. s.made
    BY <1>0 DEF AgentTyped, Numbered
  <2>3. /\ s.opt \in [Optimizers -> OptStatuses] /\ s.tried \in [Optimizers -> Nat]
        /\ \A o \in Optimizers : s.tried[o] <= s.budget.tries[o]
    BY <1>0 DEF AgentTyped, Numbered
  <2>4. /\ run.pc \in {"step", "drain", "stopped"} /\ run.left \in 0 .. s.budget.local
        /\ spare.faults \in Nat /\ spare.restarts \in Nat
    BY <1>0 DEF LoopIInv, Runs
  <2> QED
    BY <2>1, <2>2, <2>3, <2>4 DEF LoopTypeOK, OptStatuses
<1>2. CurrentReportsMatch
  <2>1. ASSUME s.plan.id # 0, NEW e \in RouteReports, Current(s, e)
        PROVE  s[e].of = s.plan.id /\ s.routes = s.plan.id
    BY <1>0, <2>1, CurrentIsOf
  <2>2. ConstraintsCurrent(s) => ConstraintsMatch(s)
    BY <1>0, ConstraintsCurrentMatch
  <2>3. s.validation # "none" => s.seen["validation"] = ValidationInput(s)
    BY <1>0 DEF VerdictOK
  <2> QED
    BY <2>1, <2>2, <2>3 DEF CurrentReportsMatch, RouteReports
<1>3. OneBaseline
  <2> DEFINE P == {o \in Optimizers : Pending(s, o)}
  <2>1. \A o, q \in P : o = q
    BY <1>0 DEF BaselinesOK, Pending
  <2>2. Cardinality(P) <= 1
    <3>1. CASE P = {}
      BY <3>1, FS_EmptySet
    <3>2. CASE P # {}
      <4>1. PICK o : P = {o}
        BY <2>1, <3>2
      <4>2. Cardinality(P) = 1
        BY <4>1, FS_Singleton
      <4> QED
        BY <4>2
    <3> QED
      BY <3>1, <3>2
  <2> QED
    BY <1>0, <2>2 DEF OneBaseline, BaselinesOK, Pending
<1> QED
  BY <1>1, <1>2, <1>3 DEF LoopInv

\* At every turn of TripOrchestrator's loop, for every budget and whatever the
\* evaluators find, the tools return and the restarts interrupt: a report that
\* decide_next_action takes for current was made for the plan at hand and its
\* routes, at most one optimiser has a candidate in place, and it has the
\* baseline that it may have to restore.
THEOREM LoopInvariant == Spec => []LoopInv
BY LoopInduction, InvFromLoop, PTL

LEMMA DeliveredFromLoop == LoopIInv => DeliveredIsVerified
<1> SUFFICES ASSUME LoopIInv, s.finished PROVE DeliveredIsVerified
  BY DEF DeliveredIsVerified
<1>0. AgentOK(s) /\ CoreOK(s) /\ Body(s) /\ VerdictOK(s)
  BY DEF LoopIInv, AgentOK, CoreOK
<1>1. Ready(s) /\ s.seen["validation"] = ValidationInput(s) /\ Deliverable(s)
  BY <1>0 DEF VerdictOK
<1>2. s.plan.id # 0 /\ s.routes = s.plan.id /\ s.food = s.plan.id /\ s.content = s.plan.id
  BY <1>1 DEF Ready
<1>3. \A e \in RouteReports : Current(s, e)
  BY <1>1 DEF Ready, RouteReports
<1>4. \A e \in RouteReports : s[e].of = s.plan.id
  BY <1>0, <1>2, <1>3, CurrentIsOf
<1>5. ConstraintsMatch(s)
  BY <1>0, <1>1, ConstraintsCurrentMatch DEF Ready
<1>6. s.plan.built
  BY <1>0, <1>2 DEF Body, ContentOK
<1>7. \A o \in Optimizers : ~Pending(s, o)
  BY <1>1 DEF Ready
<1> QED
  BY <1>1, <1>2, <1>4, <1>5, <1>6, <1>7 DEF DeliveredIsVerified, RouteReports

\* A plan that the FINISH branch of execute_action delivers is the one that was
\* validated: its routes, restaurants and reports are its own, its texts are
\* rebuilt and no optimiser still holds a baseline of it.
THEOREM DeliveredIsAlwaysVerified == Spec => []DeliveredIsVerified
BY LoopInduction, DeliveredFromLoop, PTL

\* An optimiser that gives its candidate up restores the plan with its routes and
\* every report it kept, all of them current, so that reverting calls no service.
THEOREM RevertsAreLocal == Spec => RevertIsLocal
<1> DEFINE A == \A o \in Optimizers :
          Pending(s, o) /\ ~Pending(s', o) /\ s'.plan.id # s.plan.id /\ s'.step >= s.step
              => /\ s'.routes = s'.plan.id
                 /\ \A e \in Kept(o) \cap {"route", "commute", "schedule"} : Current(s', e)
                 /\ "constraints" \in Kept(o) => ConstraintsCurrent(s')
<1>1. LoopIInv /\ [Next]_vars => [A]_vars
  <2> SUFFICES ASSUME LoopIInv, Next PROVE A
    OBVIOUS
  <2>1. StepKept
    BY NextKeeps
  <2> QED
    BY <2>1 DEF StepKept, Reverted, RouteReports
<1> QED
  BY <1>1, LoopInduction, PTL DEF Spec, RevertIsLocal

=============================================================================
