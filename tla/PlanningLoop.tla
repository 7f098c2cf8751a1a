---------------------------- MODULE PlanningLoop ----------------------------
(***************************************************************************)
(* TripOrchestrator: the deterministic loop that drives one AgentState from *)
(* a request to a delivered plan.  Each round decides the next action from  *)
(* the state alone, runs it, and goes on with local actions inside the same *)
(* physical step; a checkpoint closes the step.  Five optimisers replace    *)
(* the plan by a candidate, keep the old plan as a baseline, and accept or  *)
(* revert once real routes are known.                                       *)
(*                                                                          *)
(* A plan is a number for its places and their order, what the evaluators   *)
(* think of it, and whether its descriptions have been rebuilt.  Route      *)
(* estimates, restaurants and reports carry the number of the plan they     *)
(* were made for, which is what their fingerprints stand for; 0 is None.    *)
(***************************************************************************)
EXTENDS Naturals, FiniteSets, Sequences

Optimizers == {"route", "schedule", "constraint", "commute", "refill"}

CONSTANTS
    Profiles,       \* execution budgets, and the faults and restarts to expect
    MaxAttempts,    \* max_attempts_per_action
    Judgements      \* what a plan's route, schedule and commute reports may find

\* The limits of ExecutionBudget that the loop reads; searches is
\* max_commute_supplement_searches, repeats max_repeated_action_inputs and idle
\* max_no_progress_steps.
Budget == [steps : Nat \ {0}, local : Nat \ {0}, tools : Nat, llm : Nat, repairs : Nat,
           tries : [Optimizers -> Nat], searches : Nat, repeats : Nat \ {0},
           idle : Nat \ {0}]

\* The constructor checks of TripOrchestrator.
LimitsAccepted(b) ==
    /\ {MaxAttempts, b.steps, b.local, b.repeats, b.idle} \subseteq Nat \ {0}
    /\ {b.repairs, b.searches, b.tools, b.llm} \cup {b.tries[o] : o \in Optimizers} \subseteq Nat

ASSUME LimitsAssumption ==
    /\ Profiles \subseteq [budget : Budget, faults : Nat, restarts : Nat]
    /\ \A p \in Profiles : LimitsAccepted(p.budget)
    /\ Judgements \subseteq SUBSET {"route", "schedule", "commute"}

VARIABLES
    s,          \* the AgentState
    saved,      \* its last checkpoint
    run,        \* the call of _run_state that works on it
    spare       \* failures and restarts that may still come

vars == <<s, saved, run, spare>>

----------------------------------------------------------------------------
(* AgentState                                                              *)

Tools == {"search_attractions", "get_weather", "search_hotels", "generate_plan",
          "estimate_routes", "supplement_attractions", "search_restaurants",
          "repair_plan"}

\* _COMPRESSIBLE_LOCAL_ACTIONS: what calls no tool.
Local == {"optimize_routes", "evaluate_commute", "replace_remote_attraction",
          "evaluate_schedule", "optimize_schedule", "evaluate_constraints",
          "optimize_constraints", "refill_attractions", "rebuild_plan_content",
          "validate_plan", "finish"}

LlmCost(a) == IF a \in {"generate_plan", "repair_plan"} THEN 1 ELSE 0

NoPlan == [id |-> 0, flaws |-> {}, enough |-> FALSE, built |-> FALSE]

\* Reports: the plan they were made from and whether they recommend to
\* optimise it.  A constraint report was also made from a pool of attractions.
NoReport == [of |-> 0, rec |-> FALSE]
NoConstraintReport == [of |-> 0, built |-> FALSE, pool |-> 0, rec |-> FALSE]

NoBaseline == [plan |-> NoPlan, routes |-> 0, route |-> NoReport, commute |-> NoReport,
               schedule |-> NoReport, constraints |-> NoConstraintReport]

Evaluations == {"route", "commute", "schedule", "constraints", "validation"}

NewState(budget) ==
    [budget |-> budget, status |-> "pending", finished |-> FALSE, step |-> 0, tools |-> 0, llm |-> 0,
     pool |-> 0, weather |-> FALSE, hotels |-> FALSE, plan |-> NoPlan, made |-> 0,
     routes |-> 0, food |-> 0, content |-> 0,
     route |-> NoReport, commute |-> NoReport, schedule |-> NoReport,
     constraints |-> NoConstraintReport, validation |-> "none", accepted |-> FALSE,
     seen |-> [e \in Evaluations |-> <<>>],     \* evaluation_input_fingerprints
     opt |-> [o \in Optimizers |-> "not_started"],
     tried |-> [o \in Optimizers |-> 0],
     base |-> [o \in Optimizers |-> NoBaseline],
     query |-> <<>>, searched |-> [commute |-> 0, refill |-> 0], repairs |-> 0,
     done |-> <<>>, idle |-> 0]       \* successful_action_inputs, no_progress_streak

\* Mutant of EvaluationIsCurrent: a report counts as current when it exists.
EvaluationExists(t, e, input, legacy) == TRUE

\* _evaluation_is_current: the input fingerprint decides; without one, the
\* plan fingerprint kept with the report does.
EvaluationIsCurrent(t, e, input, legacy) ==
    IF t.seen[e] # <<>> THEN t.seen[e] = input ELSE legacy

\* route_quality_, commute_ and schedule_input_fingerprint
RouteInput(t) == <<t.plan.id, t.routes>>

\* constraint_input_fingerprint
ConstraintInput(t) == <<t.plan, t.schedule, t.pool>>

\* validation_input_fingerprint
ValidationInput(t) == <<t.plan, t.pool, t.routes, t.schedule, t.constraints>>

\* A route, commute or schedule report that decide_next_action relies on.
Current(t, e) ==
    /\ t[e].of # 0
    /\ EvaluationIsCurrent(t, e, RouteInput(t), t[e].of = t.plan.id)

\* constraint_plan_fingerprint covers the whole plan, its descriptions too.
ConstraintsMatch(t) == t.constraints.of = t.plan.id /\ t.constraints.built = t.plan.built

ConstraintsCurrent(t) ==
    /\ t.constraints.of # 0
    /\ EvaluationIsCurrent(t, "constraints", ConstraintInput(t), ConstraintsMatch(t))

ValidationCurrent(t) ==
    /\ t.validation # "none"
    /\ EvaluationIsCurrent(t, "validation", ValidationInput(t), TRUE)

----------------------------------------------------------------------------
(* decide_next_action                                                      *)

Pending(t, o) == t.opt[o] = "candidate_pending"
Wanted(t, o, report) == t.opt[o] = "not_started" /\ report.rec

RefillNeeded(t) ==
    /\ ~t.plan.enough
    /\ t.opt["refill"] \notin {"completed", "skipped"}
    /\ t.tried["refill"] < t.budget.tries["refill"]

\* The action that a pending candidate, or a search for one, waits for once
\* the schedule is current.
AfterConstraints(t, a) == IF ConstraintsCurrent(t) THEN a ELSE "evaluate_constraints"

\* The facts, the plan, its routes and their quality, and candidates that wait
\* for verification come first.
DecideEarly(t) ==
    IF t.pool = 0 THEN "search_attractions"
    ELSE IF ~t.weather THEN "get_weather"
    ELSE IF ~t.hotels THEN "search_hotels"
    ELSE IF t.plan.id = 0 THEN "generate_plan"
    ELSE IF t.routes # t.plan.id THEN "estimate_routes"
    ELSE IF t.opt["refill"] = "supplement_needed" THEN "supplement_attractions"
    ELSE IF \/ ~Current(t, "route")
            \/ Pending(t, "route")
            \/ Wanted(t, "route", t.route) /\ t.tried["route"] < t.budget.tries["route"]
         THEN "optimize_routes"
    ELSE IF \E o \in {"schedule", "constraint", "refill"} : Pending(t, o)
         THEN IF ~Current(t, "schedule") THEN "evaluate_schedule"
              ELSE IF Pending(t, "schedule") THEN "optimize_schedule"
              ELSE IF Pending(t, "constraint") THEN AfterConstraints(t, "optimize_constraints")
              ELSE AfterConstraints(t, "refill_attractions")
    ELSE "none"

\* Then commute, schedule and content, then the restaurants, the descriptions
\* and the verdict on the whole.
DecideLate(t) ==
    IF ~Current(t, "commute") THEN "evaluate_commute"
    ELSE IF ~Current(t, "schedule") THEN "evaluate_schedule"
    ELSE IF t.opt["commute"] = "supplement_needed" THEN "supplement_attractions"
    ELSE IF Pending(t, "commute") \/ Wanted(t, "commute", t.commute)
         THEN AfterConstraints(t, "replace_remote_attraction")
    ELSE IF Wanted(t, "schedule", t.schedule) THEN "optimize_schedule"
    ELSE IF RefillNeeded(t)
         THEN AfterConstraints(t, IF Wanted(t, "constraint", t.constraints)
                                  THEN "optimize_constraints" ELSE "refill_attractions")
    ELSE IF t.food # t.plan.id THEN "search_restaurants"
    ELSE IF t.content # t.plan.id THEN "rebuild_plan_content"
    ELSE IF ~ConstraintsCurrent(t) THEN "evaluate_constraints"
    ELSE IF Wanted(t, "constraint", t.constraints) THEN "optimize_constraints"
    ELSE IF ~ValidationCurrent(t) THEN "validate_plan"
    ELSE IF t.validation = "valid" \/ t.accepted THEN "finish"
    ELSE IF t.validation = "repairable" /\ t.repairs < t.budget.repairs THEN "repair_plan"
    ELSE "validate_plan"

Decide(t) == IF DecideEarly(t) # "none" THEN DecideEarly(t) ELSE DecideLate(t)

----------------------------------------------------------------------------
(* Reports and what invalidates them                                       *)

\* _invalidate_evaluation_fingerprints
Invalidate(t, keys) ==
    [t EXCEPT !.seen = [e \in Evaluations |-> IF e \in keys THEN <<>> ELSE @[e]],
              !.accepted = @ /\ "validation" \notin keys]

\* A route, commute or schedule report made now.
Report(t, e) ==
    [t EXCEPT ![e] = [of |-> t.plan.id, rec |-> e \in t.plan.flaws],
              !.seen[e] = RouteInput(t)]

SkipUnless(t, o, needed) ==
    IF t.opt[o] = "not_started" /\ ~needed THEN [t EXCEPT !.opt[o] = "skipped"] ELSE t

\* _refresh_route_quality
RefreshRouteQuality(t) == Report(t, "route")

\* _refresh_schedule_quality
RefreshScheduleQuality(t) ==
    SkipUnless(Report(t, "schedule"), "schedule", "schedule" \in t.plan.flaws)

\* _refresh_commute_report: a plan not judged before gives a settled
\* optimiser another chance.
RefreshCommuteReport(t) ==
    LET u == Report(t, "commute") IN
    IF /\ u.commute.rec
       /\ t.commute.of # t.plan.id
       /\ t.opt["commute"] \in {"completed", "skipped"}
    THEN [u EXCEPT !.opt["commute"] = "not_started"]
    ELSE SkipUnless(u, "commute", u.commute.rec)

\* _refresh_constraint_report, with verdict rec.
RefreshConstraintReport(t, rec) ==
    LET u == [t EXCEPT !.constraints = [of |-> t.plan.id, built |-> t.plan.built,
                                        pool |-> t.pool, rec |-> rec]]
    IN  SkipUnless([u EXCEPT !.seen["constraints"] = ConstraintInput(t)], "constraint", rec)

\* _synchronize_evaluation_fingerprints
SynchronizeEvaluationFingerprints(t) ==
    [t EXCEPT !.seen = [e \in Evaluations |->
        IF e = "validation" THEN <<>>
        ELSE IF e = "constraints"
             THEN IF ConstraintsMatch(t) /\ t.schedule.of # 0 THEN ConstraintInput(t) ELSE <<>>
        ELSE IF t[e].of = t.plan.id THEN RouteInput(t) ELSE <<>>]]

\* _clear_commute_analysis
ClearCommuteAnalysis(t, reset) ==
    [Invalidate(t, {"commute", "validation"}) EXCEPT
        !.commute = NoReport, !.opt["commute"] = "not_started", !.query = <<>>,
        !.base["commute"] = NoBaseline,
        !.tried["commute"] = IF reset THEN 0 ELSE @,
        !.searched["commute"] = IF reset THEN 0 ELSE @]

\* _clear_constraint_analysis
ClearConstraintAnalysis(t, reset) ==
    [Invalidate(t, {"constraints", "validation"}) EXCEPT
        !.constraints = NoConstraintReport, !.opt["constraint"] = "not_started",
        !.base["constraint"] = NoBaseline,
        !.tried["constraint"] = IF reset THEN 0 ELSE @]

ClearScheduleOptimization(t) ==
    [t EXCEPT !.schedule = NoReport, !.opt["schedule"] = "not_started",
              !.base["schedule"] = NoBaseline]

\* _clear_route_analysis
ClearRouteAnalysis(t, reset) ==
    LET u == [Invalidate(t, Evaluations) EXCEPT
                 !.routes = 0, !.route = NoReport, !.opt["route"] = "not_started",
                 !.base["route"] = NoBaseline, !.content = 0, !.validation = "none",
                 !.tried["route"] = IF reset THEN 0 ELSE @,
                 !.tried["schedule"] = IF reset THEN 0 ELSE @]
    IN  ClearScheduleOptimization(
            ClearConstraintAnalysis(ClearCommuteAnalysis(u, reset), reset))

----------------------------------------------------------------------------
(* Candidates                                                              *)

\* What an optimiser keeps of the plan it replaces.
Kept(o) ==
    {"plan", "routes", "route"}
        \cup (IF o = "route" THEN {} ELSE {"schedule"})
        \cup (IF o \in {"constraint", "commute", "refill"} THEN {"constraints"} ELSE {})
        \cup (IF o = "commute" THEN {"commute"} ELSE {})

\* The plans an optimiser may come up with: another arrangement of the places,
\* maybe with fewer of them, or with enough of them.
Candidates(t, o) ==
    LET enough == CASE o \in {"route", "commute"} -> {t.plan.enough}
                    [] o \in {"schedule", "constraint"} -> {t.plan.enough, FALSE}
                    [] o = "refill" -> {TRUE}
    IN  [id : {t.made + 1}, flaws : Judgements, enough : enough, built : {FALSE}]

\* The plan p replaces the current one until its routes are known.
Adopt(t, o, p) ==
    [t EXCEPT !.base[o] = [f \in DOMAIN NoBaseline |->
                              IF f \in Kept(o) THEN t[f] ELSE NoBaseline[f]],
              !.plan = p, !.made = p.id, !.tried[o] = @ + 1, !.opt[o] = "candidate_pending",
              !.routes = 0, !.route = NoReport, !.schedule = NoReport,
              !.content = 0, !.validation = "none"]

\* Mutant of Restore: the fingerprints stay those of the candidate.
RestoreOnly(t, o) == [f \in DOMAIN t |-> IF f \in Kept(o) THEN t.base[o][f] ELSE t[f]]

\* The plan and the reports as they were when the candidate was adopted.
Restore(t, o) ==
    SynchronizeEvaluationFingerprints(
        [f \in DOMAIN t |-> IF f \in Kept(o) THEN t.base[o][f] ELSE t[f]])

\* Mutant of Settle: the baseline is not cleared.
SettleOnly(t, o, status) == [t EXCEPT !.opt[o] = status, !.validation = "none"]

Settle(t, o, status) ==
    [t EXCEPT !.opt[o] = status, !.base[o] = NoBaseline, !.validation = "none"]

Skip(t, o) == [t EXCEPT !.opt[o] = "skipped"]

Exhausted(t, o) == t.tried[o] >= t.budget.tries[o]

\* _optimize_routes
OptimizeRoutes(t0) ==
    LET t == IF t0.route.of = t0.plan.id THEN t0 ELSE RefreshRouteQuality(t0)
        unscheduled(u) == [u EXCEPT !.opt["schedule"] = "not_started"]
        reverted == SynchronizeEvaluationFingerprints(
                        RefreshScheduleQuality(unscheduled(Restore(t, "route"))))
        adopt(p) == ClearConstraintAnalysis(ClearScheduleOptimization(
                        ClearCommuteAnalysis(Adopt(t, "route", p), FALSE)), FALSE)
    IN  IF Pending(t, "route")
        THEN {Settle(t, "route", "completed"), Settle(reverted, "route", "completed")}
        ELSE IF Exhausted(t, "route") \/ ~t.route.rec THEN {Skip(t, "route")}
        ELSE {Skip(t, "route")} \cup {adopt(p) : p \in Candidates(t, "route")}

\* _optimize_schedule
OptimizeSchedule(t0) ==
    LET t == IF t0.schedule.of = t0.plan.id THEN t0 ELSE RefreshScheduleQuality(t0)
        adopt(p) == ClearConstraintAnalysis(
                        ClearCommuteAnalysis(Adopt(t, "schedule", p), FALSE), FALSE)
    IN  IF Pending(t, "schedule")
        THEN {Settle(u, "schedule", "completed") : u \in {t, Restore(t, "schedule")}}
        ELSE IF Exhausted(t, "schedule") \/ ~t.schedule.rec THEN {Skip(t, "schedule")}
        ELSE {Skip(t, "schedule")} \cup {adopt(p) : p \in Candidates(t, "schedule")}

\* _optimize_constraints
OptimizeConstraints(t0) ==
    LET checked == IF ConstraintsMatch(t0) THEN {t0}
                   ELSE {RefreshConstraintReport(t0, rec) : rec \in BOOLEAN}
        adopt(t, p) == [ClearCommuteAnalysis(Adopt(t, "constraint", p), FALSE)
                           EXCEPT !.constraints = NoConstraintReport]
        optimize(t) ==
            IF Pending(t, "constraint")
            THEN {Settle(u, "constraint", "completed") : u \in {t, Restore(t, "constraint")}}
            ELSE IF Exhausted(t, "constraint") \/ ~t.constraints.rec
            THEN {Skip(t, "constraint")}
            ELSE {Skip(t, "constraint")}
                    \cup {adopt(t, p) : p \in Candidates(t, "constraint")}
    IN  UNION {optimize(t) : t \in checked}

\* No candidate: another search nearby when one is left and a query can be
\* built, else the optimiser gives up.
WithoutCandidate(t, o) ==
    {Skip(t, o)} \cup
        IF t.searched[o] < t.budget.searches
        THEN {[t EXCEPT !.opt[o] = "supplement_needed", !.query = <<o, t.searched[o], t.plan.id>>]}
        ELSE {}

\* The status of an optimiser that may try again while attempts are left.
Again(t, o) == IF Exhausted(t, o) THEN "skipped" ELSE "not_started"

\* _replace_remote_attraction.  Adopting a candidate leaves the fingerprints
\* of the old evaluations in place.
ReplaceRemoteAttraction(t) ==
    LET o == "commute"
        settle(u, status) == [Settle(u, o, status) EXCEPT !.content = 0]
        adopt(p) == [Adopt(t, o, p) EXCEPT !.commute = NoReport,
                                           !.constraints = NoConstraintReport]
    IN  IF Pending(t, o)
        THEN {settle(t, IF t.commute.rec THEN Again(t, o) ELSE "completed"),
              settle(Restore(t, o), Again(t, o))}
        ELSE IF Exhausted(t, o) THEN {Skip(t, o)}
        ELSE WithoutCandidate(t, o) \cup {adopt(p) : p \in Candidates(t, o)}

\* _refill_attractions
RefillAttractions(t) ==
    LET o == "refill"
        settle(u, status) == [Settle(u, o, status) EXCEPT !.content = 0]
        adopt(p) == [ClearCommuteAnalysis(Adopt(t, o, p), FALSE)
                        EXCEPT !.constraints = NoConstraintReport]
    IN  IF Pending(t, o)
        THEN {settle(Restore(t, o), Again(t, o))}
                \cup (IF t.plan.enough THEN {settle(t, "completed")} ELSE {})
        ELSE IF t.plan.enough THEN {[t EXCEPT !.opt[o] = "completed"]}
        ELSE IF Exhausted(t, o) THEN {Skip(t, o)}
        ELSE WithoutCandidate(t, o) \cup {adopt(p) : p \in Candidates(t, o)}

\* _rebuild_plan_content
RebuildPlanContent(t) ==
    [t EXCEPT !.plan.built = TRUE, !.content = t.plan.id, !.validation = "none"]

\* _validate_plan with PartialAcceptancePolicy: a plan with errors may still be
\* good enough to deliver.
ValidatePlan(t) ==
    {[t EXCEPT !.validation = v, !.accepted = (v = "valid" \/ good),
               !.seen["validation"] = ValidationInput(t)] :
        v \in {"valid", "repairable", "fatal"}, good \in BOOLEAN}

\* The local action a: the states it may lead to.
Perform(t, a) ==
    CASE a = "optimize_routes" -> OptimizeRoutes(t)
      [] a = "evaluate_commute" -> {RefreshCommuteReport(t)}
      [] a = "replace_remote_attraction" -> ReplaceRemoteAttraction(t)
      [] a = "evaluate_schedule" -> {RefreshScheduleQuality(t)}
      [] a = "optimize_schedule" -> OptimizeSchedule(t)
      [] a = "evaluate_constraints" -> {RefreshConstraintReport(t, rec) : rec \in BOOLEAN}
      [] a = "optimize_constraints" -> OptimizeConstraints(t)
      [] a = "refill_attractions" -> RefillAttractions(t)
      [] a = "rebuild_plan_content" -> {RebuildPlanContent(t)}
      [] a = "validate_plan" -> ValidatePlan(t)
      [] a = "finish" -> {[t EXCEPT !.finished = TRUE, !.status = "completed"]}

----------------------------------------------------------------------------
(* Tools: _apply_tool_result                                               *)

\* estimate_routes also scores the routes and the schedule.
EstimateRoutes(t) ==
    LET u == Report([Invalidate(t, {"commute", "constraints", "validation"}) EXCEPT
                        !.routes = t.plan.id, !.validation = "none"], "route")
        v == SkipUnless(u, "route", u.route.rec /\ ~Exhausted(u, "route"))
    IN  RefreshScheduleQuality(v)

\* The search that _build_tool_payload sends is the pending one; its user is
\* told by content_refill_status.
SearchUser(t) == IF t.opt["refill"] = "supplement_needed" THEN "refill" ELSE "commute"

CloseSearch(t, status) ==
    [t EXCEPT !.searched[SearchUser(t)] = @ + 1, !.query = <<>>,
              !.opt[SearchUser(t)] = status]

\* _handle_failed_attraction_supplement: an optional search that failed.
FailedSupplement(t) ==
    CloseSearch(t, IF SearchUser(t) = "refill" THEN "not_started" ELSE "skipped")

\* A plan of the model, with duplicate places removed.
LlmPlans(t) == [id : {t.made + 1}, flaws : Judgements, enough : BOOLEAN, built : {FALSE}]

\* Mutant of RepairPlan: every optimiser gets its tries back, as after generate_plan.
RepairAfresh(t) ==
    {[ClearRouteAnalysis([t EXCEPT !.plan = p, !.made = IF p.id > @ THEN p.id ELSE @], TRUE)
        EXCEPT !.repairs = @ + 1] :
            p \in LlmPlans(t) \cup {[t.plan EXCEPT !.built = FALSE]}}

\* repair_plan may change the texts and leave the places as they are.
RepairPlan(t) ==
    {[ClearRouteAnalysis([t EXCEPT !.plan = p, !.made = IF p.id > @ THEN p.id ELSE @], FALSE)
        EXCEPT !.tried["schedule"] = 0, !.repairs = @ + 1] :
            p \in LlmPlans(t) \cup {[t.plan EXCEPT !.built = FALSE]}}

\* The result of tool a: the states it may lead to.
Apply(t, a) ==
    CASE a = "search_attractions" -> {[t EXCEPT !.pool = 1]}
      [] a = "get_weather" -> {[t EXCEPT !.weather = TRUE]}
      [] a = "search_hotels" -> {[t EXCEPT !.hotels = TRUE]}
      [] a = "generate_plan" ->
            {ClearRouteAnalysis([t EXCEPT !.plan = p, !.made = p.id], TRUE) : p \in LlmPlans(t)}
      [] a = "estimate_routes" -> {EstimateRoutes(t)}
      [] a = "supplement_attractions" ->
            {CloseSearch([Invalidate(t, {"constraints", "validation"}) EXCEPT !.pool = n],
                         "not_started") : n \in {t.pool, t.pool + 1}}
      [] a = "search_restaurants" ->
            {[Invalidate(t, {"constraints", "validation"}) EXCEPT
                !.food = t.plan.id, !.content = 0]}
      [] a = "repair_plan" -> RepairPlan(t)

----------------------------------------------------------------------------
(* Convergence                                                             *)

\* business_state_fingerprint leaves out counters, baselines and the verdict
\* of the acceptance policy.
Business(t) ==
    [f \in DOMAIN t \ {"budget", "status", "step", "tools", "llm", "made", "accepted", "base",
                        "done", "idle"} |-> t[f]]

\* action_input_fingerprint: what the action depends on.
Input(t, a) ==
    CASE a \in {"search_attractions", "get_weather", "search_hotels"} -> <<>>
      [] a = "generate_plan" -> <<t.pool>>
      [] a = "estimate_routes" -> <<t.plan, t.pool>>
      [] a = "search_restaurants" -> <<t.plan>>
      [] a \in {"evaluate_commute", "evaluate_schedule"} -> RouteInput(t)
      [] a = "evaluate_constraints" -> ConstraintInput(t)
      [] a = "validate_plan" -> ValidationInput(t)
      [] a = "repair_plan" -> <<t.plan, t.validation, t.pool>>
      [] a = "supplement_attractions" -> <<t.query, t.pool>>
      [] a = "rebuild_plan_content" -> <<t.plan, t.routes, t.schedule, t.pool, t.food>>
      [] a = "finish" -> <<t.validation>>
      [] OTHER -> <<Business(t)>>

Times(t, key) == IF key \in DOMAIN t.done THEN t.done[key] ELSE 0

\* _record_convergence_result for the success of a, which led from t to u.
RecordConvergenceResult(t, a, u) ==
    LET key == <<a, Input(t, a)>>
        progress == Business(t) # Business(u)
        counted == [k \in DOMAIN t.done \cup {key} |->
                       IF k = key THEN Times(t, key) + 1 ELSE t.done[k]]
    IN  IF progress
        THEN [u EXCEPT !.done = [k \in {key} |-> 1], !.idle = 0]
        ELSE [u EXCEPT !.done = counted, !.idle = @ + 1,
                       !.status = IF t.idle + 1 >= t.budget.idle THEN "convergence_stopped" ELSE @]

----------------------------------------------------------------------------
(* _run_state and _drain_local_actions                                     *)

Fresh == [pc |-> "step", left |-> 0, attempts |-> [a \in Tools |-> 0]]

Init ==
    /\ \E p \in Profiles :
          /\ s = [NewState(p.budget) EXCEPT !.status = "running"]
          /\ spare = [faults |-> p.faults, restarts |-> p.restarts]
    /\ saved = s
    /\ run = Fresh

At(label) == run.pc = label

\* The loop is about to choose an action: a physical one or another local one.
Choosing ==
    /\ ~s.finished
    /\ \/ At("step") /\ s.step < s.budget.steps
       \/ At("drain") /\ run.left > 0 /\ Decide(s) \in Local

\* The state in which the chosen action starts.
Entered(a) ==
    [s EXCEPT !.step = IF At("step") THEN @ + 1 ELSE @]

Counted(a) ==
    [Entered(a) EXCEPT !.tools = @ + 1, !.llm = @ + LlmCost(a)]

Halt(t, status) ==
    /\ s' = [t EXCEPT !.status = status]
    /\ saved' = s'
    /\ run' = [run EXCEPT !.pc = "stopped"]

\* The end of a physical step: its checkpoint.
Commit(t, attempts) ==
    /\ s' = t
    /\ saved' = t
    /\ run' = [pc |-> "step", left |-> 0, attempts |-> attempts]

\* _prepare_convergence_action
Repeated(a) == Times(s, <<a, Input(s, a)>>) >= s.budget.repeats

\* Action a succeeded and led to t.
Succeed(a, t, attempts) ==
    LET u == RecordConvergenceResult(s, a, t) IN
    IF u.status = "convergence_stopped" THEN Halt(u, "convergence_stopped")
    ELSE /\ s' = u
         /\ run' = [pc |-> "drain", left |-> IF At("step") THEN s.budget.local ELSE run.left - 1,
                    attempts |-> attempts]
         /\ UNCHANGED saved

\* A validated plan that may be delivered.
Deliverable(t) == t.validation = "valid" \/ t.accepted

\* A local action; a failed validation goes to repair or ends the session.
LocalAction ==
    /\ Choosing
    /\ LET a == Decide(s) IN
          /\ a \in Local
          /\ IF Repeated(a) THEN Halt(s, "convergence_stopped")
             ELSE \E t \in Perform(Entered(a), a) :
                    IF a = "validate_plan" /\ ~Deliverable(t)
                    THEN IF t.validation = "repairable" /\ t.repairs < t.budget.repairs
                         THEN Commit(t, run.attempts) ELSE Halt(t, "failed")
                    ELSE Succeed(a, t, run.attempts)
    /\ UNCHANGED spare

\* _pre_call_budget_reason
OverBudget(a) == s.tools + 1 > s.budget.tools \/ s.llm + LlmCost(a) > s.budget.llm

\* A tool call that returns a usable result, or does not happen.
ToolAction ==
    /\ Choosing
    /\ LET a == Decide(s) IN
          /\ a \in Tools
          /\ IF Repeated(a) THEN Halt(s, "convergence_stopped")
             ELSE IF OverBudget(a) THEN Halt(Entered(a), "budget_exhausted")
             ELSE \E t \in Apply(Counted(a), a) :
                    Succeed(a, t, [run.attempts EXCEPT ![a] = @ + 1])
    /\ UNCHANGED spare

\* A call that fails, returns something unusable or is refused by the circuit
\* breaker, which spends no call.  decide_retry counts every attempt of this
\* action in this run, the successful ones too.
ToolFailure ==
    /\ Choosing
    /\ spare.faults > 0
    /\ spare' = [spare EXCEPT !.faults = @ - 1]
    /\ LET a == Decide(s)
           tries == [run.attempts EXCEPT ![a] = @ + 1]
       IN
          /\ a \in Tools /\ ~Repeated(a) /\ ~OverBudget(a)
          /\ \/ tries[a] < MaxAttempts /\ Commit(Counted(a), tries)
             \/ tries[a] < MaxAttempts /\ Halt(Counted(a), "budget_exhausted")
             \/ \E t \in {Entered(a), Counted(a)} :
                   IF a = "supplement_attractions" THEN Commit(FailedSupplement(t), tries)
                   ELSE Halt(t, "failed")

\* runtime_budget_reason: the deadline is checked before each choice.
Expire ==
    /\ ~s.finished
    /\ \/ At("step") /\ s.step < s.budget.steps
       \/ At("drain") /\ run.left > 0
    /\ spare.faults > 0
    /\ spare' = [spare EXCEPT !.faults = @ - 1]
    /\ Halt(s, "budget_exhausted")

\* The batch of local actions ends.
EndStep ==
    /\ At("drain")
    /\ s.finished \/ run.left = 0 \/ Decide(s) \notin Local
    /\ Commit(s, run.attempts)
    /\ UNCHANGED spare

\* The loop is left: the plan is delivered, or the steps are used up.
Leave ==
    /\ At("step")
    /\ s.finished \/ s.step >= s.budget.steps
    /\ IF s.finished THEN Halt(s, "completed") ELSE Halt(s, "max_steps_reached")
    /\ UNCHANGED spare

\* resume, after a crash or on a session that was stopped before its end.
Resume ==
    /\ spare.restarts > 0
    /\ ~saved.finished
    /\ spare' = [spare EXCEPT !.restarts = @ - 1]
    /\ s' = [saved EXCEPT !.status = "running"]
    /\ saved' = s'
    /\ run' = Fresh

Next == LocalAction \/ ToolAction \/ ToolFailure \/ Expire \/ EndStep \/ Leave \/ Resume

Spec == Init /\ [][Next]_vars

----------------------------------------------------------------------------
(* Properties                                                              *)

Statuses == {"running", "completed", "failed", "max_steps_reached", "budget_exhausted",
             "convergence_stopped"}

\* The type of the loop's state: a session is somewhere in its budget, and
\* plans are numbered in the order in which they were made.
LoopTypeOK ==
    /\ \E p \in Profiles : s.budget = p.budget
    /\ s.status \in Statuses
    /\ s.step \in 0 .. s.budget.steps
    /\ s.plan.id \in 0 .. s.made /\ s.routes \in 0 .. s.made /\ s.food \in 0 .. s.made
    /\ s.opt \in [Optimizers -> {"not_started", "supplement_needed", "candidate_pending",
                                 "completed", "skipped"}]
    /\ s.tried \in [Optimizers -> Nat] /\ \A o \in Optimizers : s.tried[o] <= s.budget.tries[o]
    /\ run.pc \in {"step", "drain", "stopped"}
    /\ run.left \in 0 .. s.budget.local
    /\ spare.faults \in Nat /\ spare.restarts \in Nat

\* A report that decide_next_action takes for current was made from the plan at
\* hand and from routes of that plan (_evaluation_is_current), whatever
\* candidates, reverts, repairs and restarts lie between.
CurrentReportsMatch ==
    s.plan.id # 0 =>
        /\ \A e \in {"route", "commute", "schedule"} :
              Current(s, e) => s[e].of = s.plan.id /\ s.routes = s.plan.id
        /\ ConstraintsCurrent(s) => ConstraintsMatch(s)
        /\ s.validation # "none" => s.seen["validation"] = ValidationInput(s)

\* A delivered plan is the one that was validated: its routes, reports and
\* restaurants are its own, its texts have been rebuilt, and no optimiser still
\* holds a baseline of it (the FINISH branch of execute_action).
DeliveredIsVerified ==
    s.finished =>
        /\ s.routes = s.plan.id /\ s.food = s.plan.id
        /\ \A e \in {"route", "commute", "schedule"} : s[e].of = s.plan.id
        /\ ConstraintsMatch(s)
        /\ s.plan.built
        /\ s.seen["validation"] = ValidationInput(s) /\ Deliverable(s)
        /\ \A o \in Optimizers : ~Pending(s, o)

\* Baselines never nest: while one optimiser waits for the verification of its
\* candidate no other one adopts a plan, and the waiting one has the baseline it
\* may have to restore (the "missing baseline data" errors cannot happen).
OneBaseline ==
    /\ Cardinality({o \in Optimizers : Pending(s, o)}) <= 1
    /\ \A o \in Optimizers : Pending(s, o) <=> s.base[o].plan.id # 0

\* Every successful action changes the business state and none is chosen again
\* for the same input, so _raise_convergence_stopped ends no session.
AlwaysProgress == s.status # "convergence_stopped"

\* The tool calls that the limits of a budget allow: the four that lead to the
\* first plan; routes and restaurants for it and for each repaired plan; routes
\* for each candidate (a repair gives the schedule its tries back); restaurants
\* once more for a candidate of the constraints, which come after them; and the
\* searches of each optimiser that may search.
CallsAllowed(b) ==
    LET plans == 1 + b.repairs
        candidates == b.tries["route"] + b.tries["schedule"] * plans + b.tries["constraint"]
                         + b.tries["commute"] + b.tries["refill"]
    IN  4 + b.repairs + plans + (plans + b.tries["constraint"]) + candidates
          + b.searches * Cardinality({o \in {"commute", "refill"} : b.tries[o] > 0})

\* A budget that covers its own limits lasts to a verdict when no call fails and
\* no restart happens: neither AGENT_MAX_STEPS nor the tool and model calls end
\* the session (AgentMaxStepsError, BUDGET_EXCEEDED).
BudgetSuffices ==
    LET b == s.budget IN
    CallsAllowed(b) <= b.steps /\ CallsAllowed(b) <= b.tools /\ 1 + b.repairs <= b.llm =>
        \A p \in Profiles :
            p.budget = b /\ spare = [faults |-> p.faults, restarts |-> p.restarts]
                => s.status \notin {"max_steps_reached", "budget_exhausted"}

\* Giving up a candidate calls no service: the restored plan has its routes and
\* all the reports that its optimiser kept are current again.
RevertIsLocal ==
    [][\A o \in Optimizers :
          Pending(s, o) /\ ~Pending(s', o) /\ s'.plan.id # s.plan.id /\ s'.step >= s.step
              => /\ s'.routes = s'.plan.id
                 /\ \A e \in Kept(o) \cap {"route", "commute", "schedule"} : Current(s', e)
                 /\ "constraints" \in Kept(o) => ConstraintsCurrent(s')]_vars

\* The constraint report of a delivered plan was made from the attraction pool
\* at hand, of which it is a function (constraint_input_fingerprint): a search
\* for more attractions makes the older report out of date.
ConstraintsSeePool ==
    s.finished => s.constraints.pool = s.pool

\* What the handlers rely on at every turn of the loop: reports that count as
\* current were made for the plan at hand, and at most one candidate waits, with
\* its baseline.
LoopInv == LoopTypeOK /\ CurrentReportsMatch /\ OneBaseline

\* A session without faults whose budget covers its limits reaches a verdict:
\* neither the convergence guard nor a budget ends it.
ReachesVerdict == AlwaysProgress /\ BudgetSuffices

=============================================================================
