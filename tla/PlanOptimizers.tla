--------------------------- MODULE PlanOptimizers ---------------------------
(***************************************************************************)
(* The deterministic optimizers and the plan they work on.  Every optimizer *)
(* scores a bounded list of candidates without roads; the orchestrator then *)
(* fetches the candidate's roads, evaluates it again and keeps it, or puts  *)
(* the stored plan back.  An action here is that whole exchange; the order  *)
(* of the exchanges, their budgets and what may come between proposal and   *)
(* verdict are the subject of PlanningLoop.                                 *)
(***************************************************************************)
EXTENDS DayTimeline

CONSTANTS
    FirstPlans,     \* what the planner may write
    FirstPools,     \* what the attraction search may return: [place, rating]
    Nearby,         \* what a search around the plan may return
    TravelDays,     \* request.travel_days
    MaxCandidates, MaxSources, MinImprove, MinTotal, DefaultStay,
    MaxSearches, FirstRadius, MaxRadius, PoolMax

Candidates == [place : Places, rating : Int]
Used(t) == UNION {ToSet(t.spots[d]) : d \in Days(t)}

\* No attraction is planned twice.
EachOnce(t) ==
    \A d, e \in Days(t) : \A i \in DOMAIN t.spots[d], j \in DOMAIN t.spots[e] :
        t.spots[d][i] = t.spots[e][j] => d = e /\ i = j

\* The constructor checks of RemoteAttractionReplacementOptimizer.
CandidatesAccepted == {MaxCandidates, DefaultStay} \subseteq Nat \ {0}

\* The candidates of the first search, each once, as the normalizer of the provider
\* returns them, and what is found later.  The planner may write attractions that
\* no search has found; a written plan has each identity once, as
\* remove_duplicate_attractions leaves it, and calls no restaurant open.
ASSUME OptimizerAssumption ==
    /\ CandidatesAccepted
    /\ {MinTotal, TravelDays, MaxSearches, MaxSources, PoolMax} \subseteq Nat
    /\ FirstRadius <= MaxRadius
    /\ FirstPools \subseteq Seq(Candidates) /\ Nearby \subseteq Candidates
    /\ \A s \in FirstPools : \A i, j \in DOMAIN s : s[i].place = s[j].place => i = j
    /\ \A t \in FirstPlans :
          /\ t.spots \in Seq(Seq(Places)) /\ t \in TripsOf(Len(t.spots)) /\ EachOnce(t)
          /\ \A d \in Days(t) : \A k \in DOMAIN t.meals[d] : t.meals[d][k].status # "open"

VARIABLES
    trip,       \* state.trip_plan
    roads,      \* what the route provider answers
    report,     \* the reports about the plan, by these roads
    pool,       \* state.attractions
    excluded,   \* commute_ and content_refill_excluded_candidate_identities
    searched,   \* the restaurant searches that were answered
    searches    \* supplement searches: for the commute, for the refill

planVars == <<trip, roads, report, pool, excluded, searched, searches>>

NoTrip == [spots |-> <<>>, hotel |-> <<>>, text |-> <<>>, meals |-> <<>>,
           stay |-> [p \in Places |-> 0]]

\* _source_for: the candidate of the pool with the attraction's id, else the first
\* with its name.
SourcesIn(candidates) ==
    [p \in Places |->
        IF \E i \in DOMAIN candidates : candidates[i].place = p THEN {p}
        ELSE {candidates[i].place : i \in {j \in DOMAIN candidates :
                 /\ Spot[candidates[j].place].name = Spot[p].name
                 /\ \A k \in 1..(j - 1) : Spot[candidates[k].place].name # Spot[p].name}}]

Known == SourcesIn(pool)
CountAttractions(t) == Total([d \in Days(t) |-> Len(t.spots[d])])

\* The record of S with the smallest key, if there is any; keys are unique.
Best(S) == {c \in S : \A x \in S : ~LexLess(x.key, c.key)}
BestPlan(S) == {c.plan : c \in Best(S)}
The(S) == CHOOSE c \in S : TRUE
OrElse(S, T) == IF S # {} THEN S ELSE T

\* The percentage is compared without its rounding.
Cheaper(before, after) ==
    after < before /\ 100 * (before - after) >= MinImprove * before

\* The plan as the optimizers judge it, and as the provider's roads show it.
Approximate(t) == Evaluate(t, NoRoads, Known)
Verified(t) == Evaluate(t, roads, Known)

\* No more legs without a route and no more slow ones.
RoutesSafe(before, after) ==
    after.quality.lost <= before.quality.lost /\ after.quality.slow <= before.quality.slow

ScheduleSafe(before, after) ==
    /\ after.schedule.overtime <= before.schedule.overtime
    /\ after.schedule.infeasible <= before.schedule.infeasible
    /\ after.schedule.fallbacks <= before.schedule.fallbacks

\* A verified candidate takes the place of the plan, or the plan is restored.
Settle(u, r, accepted) ==
    /\ trip' = IF accepted THEN u ELSE trip
    /\ report' = IF accepted THEN r ELSE report

----------------------------------------------------------------------------
(* Plans that differ from t in one attraction.                             *)

WithDay(t, d, q) == [t EXCEPT !.spots[d] = q]
Without(t, d, i) == WithDay(t, d, RemoveAt(t.spots[d], i))
MoveTo(t, d, i, e, k) ==
    LET u == Without(t, d, i) IN WithDay(u, e, InsertAt(u.spots[e], k, t.spots[d][i]))

\* The later days first, then the earlier ones.
OtherDays(t, d) == [k \in 1..(Len(t.spots) - d) |-> d + k] \o UpTo(d - 1)

\* Attraction i of day d at each place of each other day, in the order tried.
CrossDayMoves(t, d, i) ==
    FlattenSeq([n \in DOMAIN OtherDays(t, d) |->
        LET e == OtherDays(t, d)[n]
        IN  [k \in 1..(Len(t.spots[e]) + 1) |->
                [from |-> d, to |-> e, at |-> k, plan |-> MoveTo(t, d, i, e, k)]]])

----------------------------------------------------------------------------
(* DeterministicRouteOptimizer.                                            *)

PathDistance(q) == Total([i \in 1..(Len(q) - 1) |-> Distance(PlaceAt(q[i]), PlaceAt(q[i + 1]))])

\* The attraction of q nearest to the end of path, of those not on it.
Nearest(q, path) ==
    LET left == {i \in DOMAIN q : q[i] \notin ToSet(path)}
        key(i) == <<Distance(PlaceAt(Last(path)), PlaceAt(q[i])), i>>
    IN  q[The({i \in left : \A j \in left : ~LexLess(key(j), key(i))})]

NearestNeighbor(q) ==
    LET path[n \in 1..Len(q)] == IF n = 1 THEN <<q[1]>> ELSE Append(path[n - 1], Nearest(q, path[n - 1]))
    IN  path[Len(q)]

\* _bounded_orders: the first attraction stays; rank is the order of the names
\* of the strategies.
BoundedOrders(q) ==
    LET n == Len(q)
        turned(i, j) == [k \in DOMAIN q |-> IF k \in i..j THEN q[i + j - k] ELSE q[k]]
        twoOpt == FlattenSeq([i \in 1..(n - 2) |-> [j \in 1..(n - i - 1) |->
                     [rank |-> <<3, i, i + j>>, order |-> turned(i + 1, i + j + 1)]]])
        relocate == FlattenSeq([i \in 1..(n - 1) |-> [j \in 1..(n - 1) |->
                       [rank |-> <<2, i, j>>,
                        order |-> InsertAt(RemoveAt(q, i + 1), j + 1, q[i + 1])]]])
    IN  <<[rank |-> <<1, 0, 0>>, order |-> NearestNeighbor(q)]>> \o twoOpt \o relocate

\* The orders of all days that are new, as many as may be considered.
RouteOrders(t) ==
    LET ofDay(d) == IF Len(t.spots[d]) < 3 THEN <<>>
                    ELSE LET o == BoundedOrders(t.spots[d])
                         IN  [i \in DOMAIN o |-> [day |-> d, order |-> o[i].order, rank |-> o[i].rank]]
        all == FlattenSeq([d \in Days(t) |-> ofDay(d)])
        new == {i \in DOMAIN all :
                   /\ all[i].order # t.spots[all[i].day]
                   /\ \A j \in 1..(i - 1) : all[j].day # all[i].day \/ all[j].order # all[i].order}
    IN  Prefix(Selected(all, new), MaxCandidates)

RouteCandidate(t) ==
    LET shorter == {c \in ToSet(RouteOrders(t)) : PathDistance(c.order) < PathDistance(t.spots[c.day])}
    IN  BestPlan({[key |-> <<PathDistance(c.order), c.day>> \o c.rank,
                   plan |-> WithDay(t, c.day, c.order)] : c \in shorter})

\* is_route_quality_improvement
RouteAccepted(before, after) ==
    Cheaper(before.quality.cost, after.quality.cost) /\ RoutesSafe(before, after)

OptimizeRoutes ==
    /\ report.quality.improvable
    /\ \E u \in RouteCandidate(trip) : \E r \in {Verified(u)} :
          Settle(u, r, RouteAccepted(report, r))
    /\ UNCHANGED <<roads, pool, excluded, searched, searches>>

----------------------------------------------------------------------------
(* DeterministicScheduleOptimizer.                                         *)

\* _overloaded_days, the first one.
WorstDay(days) ==
    {d \in DOMAIN days : \A e \in DOMAIN days :
        ~LexLess(<<-OvertimeOf(days[e]), e>>, <<-OvertimeOf(days[d]), d>>)}

Costed(t, key) ==
    LET s == Schedule(t, NoRoads)
    IN  [key |-> <<ScheduleTotals(s).cost>> \o key, plan |-> t, days |-> s]

\* _find_cross_day_move, of the last attraction of day d.
ScheduleMoves(t, d, baseline) ==
    LET tried == IF t.spots[d] = <<>> THEN <<>>
                 ELSE Prefix(CrossDayMoves(t, d, Len(t.spots[d])), MaxCandidates)
    IN  {c \in {Costed(m.plan, <<m.to, m.at>>) : m \in ToSet(tried)} : Cheaper(baseline, c.key[1])}

\* The removals from day d that the budget still allows.
Removals(r, d) ==
    {Costed(Without(r.plan, d, i), <<i>>) :
        i \in {j \in DOMAIN r.plan.spots[d] : j <= MaxCandidates - r.considered}}

TakeRemoval(r, best, tried) ==
    IF \A c \in best : c.key[1] >= r.cost THEN [r EXCEPT !.done = TRUE]
    ELSE [plan |-> The(best).plan, cost |-> The(best).key[1], days |-> The(best).days,
          considered |-> r.considered + tried, done |-> FALSE]

\* One round of _build_overload_reduction: the removal from the worst day that
\* leaves the lowest cost.
ReduceOverload(r) ==
    IF r.done \/ \A d \in DOMAIN r.days : OvertimeOf(r.days[d]) = 0 THEN r
    ELSE LET tried == UNION {Removals(r, d) : d \in WorstDay(r.days)}
         IN  TakeRemoval(r, Best(tried), Cardinality(tried))

Reduced(c) ==
    LET round[n \in 0..MaxCandidates] ==
            IF n = 0 THEN [plan |-> c.plan, cost |-> c.key[1], days |-> c.days, considered |-> 0,
                           done |-> FALSE]
            ELSE ReduceOverload(round[n - 1])
    IN  round[MaxCandidates]

\* A move if one is good enough, else removals.
ScheduleCandidate(c, worst) ==
    OrElse(BestPlan(UNION {ScheduleMoves(c.plan, d, c.key[1]) : d \in worst}),
           {r.plan : r \in {x \in {Reduced(c)} : x.cost < c.key[1]}})

ScheduleAccepted(before, after) ==
    /\ Cheaper(before.schedule.cost, after.schedule.cost)
    /\ ScheduleSafe(before, after) /\ RoutesSafe(before, after)

OptimizeSchedule ==
    /\ report.schedule.infeasible > 0
    /\ \E u \in ScheduleCandidate(Costed(trip, <<>>), WorstDay(report.schedule.days)) :
          \E r \in {Verified(u)} : Settle(u, r, ScheduleAccepted(report, r))
    /\ UNCHANGED <<roads, pool, excluded, searched, searches>>

----------------------------------------------------------------------------
(* DeterministicConstraintOptimizer.                                       *)

CombinedCost(r) == r.constraints.cost + r.schedule.cost
HoursConflicts(r) == {x \in r.constraints.all : x.code = "hours"}

Weighed(t, key) == [key |-> <<CombinedCost(Approximate(t))>> \o key, plan |-> t]

\* Errors first, then the heavier, the earlier day, the earlier attraction.
Actionable(issues) ==
    LET key(x) == <<IF IsError(x) THEN 0 ELSE 1, -Penalty[x.code], x.day,
                    IF x.spot <= 0 THEN 1000000 ELSE x.spot, -x.spot>>
    IN  Sorted(issues, LAMBDA x, y : LexLess(key(x), key(y)))

\* _find_attraction_index: the first of the day with the id or the name of p.
SameAttraction(p, q) == p = q \/ Spot[p].name = Spot[q].name
FirstAlike(s, p) ==
    The({i \in DOMAIN s : SameAttraction(s[i], p) /\ \A j \in 1..(i - 1) : ~SameAttraction(s[j], p)})

ToEnd(t, d, p) ==
    LET i == FirstAlike(t.spots[d], p)
    IN  WithDay(t, d, Append(Selected(t.spots[d], DOMAIN t.spots[d] \ {i}), t.spots[d][i]))
InPlanOrder(conflicts) ==
    Sorted(conflicts, LAMBDA x, y : LexLess(<<x.day, x.spot>>, <<y.day, y.spot>>))

\* _repair_opening_hours_conflicts: all conflicts go to the end of their days;
\* ids and names, not positions, find them.
ReorderedForHours(t, conflicts) ==
    LET listed == InPlanOrder(conflicts)
        moved[n \in 0..Cardinality(conflicts)] ==
            IF n = 0 THEN t
            ELSE ToEnd(moved[n - 1], listed[n].day, t.spots[listed[n].day][listed[n].spot])
    IN  moved[Cardinality(conflicts)]

\* What then still conflicts is removed.
RemovedForHours(t, conflicts) ==
    [t EXCEPT !.spots = [d \in Days(t) |->
        Selected(t.spots[d], {i \in DOMAIN t.spots[d] : Issue("hours", d, i) \notin conflicts})]]

RepairedIf(u, r, baseline) ==
    IF HoursConflicts(r) = {} /\ CombinedCost(r) < CombinedCost(baseline) THEN {u} ELSE {}

RepairAfterMoves(u, r, baseline) ==
    IF HoursConflicts(r) = {} \/ MaxCandidates < 2 THEN RepairedIf(u, r, baseline)
    ELSE UNION {RepairedIf(v, Approximate(v), baseline) : v \in {RemovedForHours(u, HoursConflicts(r))}}

HoursRepair(t, baseline) ==
    IF HoursConflicts(baseline) = {} THEN {}
    ELSE UNION {RepairAfterMoves(u, Approximate(u), baseline) :
                   u \in {ReorderedForHours(t, HoursConflicts(baseline))}}

\* Within the day first, then to the other days.
IssueMoves(t, x) ==
    LET n == Len(t.spots[x.day])
        i == IF x.spot \in 1..n THEN x.spot ELSE n
        within == [k \in 1..(n - 1) |-> IF k < i THEN k ELSE k + 1]
    IN  IF n = 0 THEN <<>>
        ELSE [m \in DOMAIN within |-> [from |-> x.day, to |-> x.day, at |-> within[m],
                                       plan |-> MoveTo(t, x.day, i, x.day, within[m])]]
             \o CrossDayMoves(t, x.day, i)

ConstraintMoves(t, actionable) ==
    LET all == FlattenSeq([i \in DOMAIN actionable |-> IssueMoves(t, actionable[i])])
        new == {i \in DOMAIN all : \A j \in 1..(i - 1) : all[j].plan # all[i].plan}
    IN  {Weighed(m.plan, <<m.from, m.to, m.at>>) :
            m \in ToSet(Prefix(Selected(all, new), MaxCandidates))}

\* One attraction less on a day with an issue.
ConstraintRemovals(t, actionable) ==
    LET first == {i \in DOMAIN actionable : \A j \in 1..(i - 1) : actionable[j].day # actionable[i].day}
        ofDay(d) == [i \in DOMAIN t.spots[d] |-> <<d, i>>]
        days == Selected(actionable, first)
        all == FlattenSeq([n \in DOMAIN days |-> ofDay(days[n].day)])
    IN  {Weighed(Without(t, r[1], r[2]), r) : r \in ToSet(Prefix(all, MaxCandidates))}

ConstraintCandidate(t, actionable, baseline) ==
    OrElse(HoursRepair(t, baseline),
    OrElse(BestPlan({c \in ConstraintMoves(t, actionable) : c.key[1] < CombinedCost(baseline)}),
           BestPlan({c \in ConstraintRemovals(t, actionable) : c.key[1] < CombinedCost(baseline)})))

ConstraintsAccepted(before, after) ==
    /\ Cheaper(before.constraints.cost, after.constraints.cost)
    /\ after.constraints.errors <= before.constraints.errors
    /\ ScheduleSafe(before, after) /\ RoutesSafe(before, after)

OptimizeConstraints ==
    /\ report.constraints.all # {}
    /\ \E u \in ConstraintCandidate(trip, Actionable(report.constraints.all), Approximate(trip)) :
          \E r \in {Verified(u)} : Settle(u, r, ConstraintsAccepted(report, r))
    /\ UNCHANGED <<roads, pool, excluded, searched, searches>>

----------------------------------------------------------------------------
(* RemoteAttractionReplacementOptimizer.                                   *)

\* The candidates that are neither used nor rejected.
Fresh(t, out) == Selected(pool, {i \in DOMAIN pool : pool[i].place \notin Used(t) \cup out})

\* The sources that lie nearer to the neighbours of the issue's target.
Replacements(t, x) ==
    LET q == t.spots[x.day]
        sources == Prefix(Fresh(t, excluded.commute), MaxSources)
        far(p) == FarFromAnchors(t, x.day, x.target, PlaceAt(p))
        put(p) == [WithDay(t, x.day, [q EXCEPT ![x.target] = p])
                      EXCEPT !.stay[p] = IF t.stay[q[x.target]] = 0 THEN DefaultStay
                                         ELSE t.stay[q[x.target]]]
        near == {i \in DOMAIN sources : far(sources[i].place) < far(q[x.target])}
    IN  {[key |-> <<far(sources[i].place),
                    IF Spot[sources[i].place].kind = Spot[q[x.target]].kind THEN 0 ELSE 1,
                    IF Spot[sources[i].place].liked THEN -1 ELSE 0,
                    -sources[i].rating, i>>,
          place |-> sources[i].place, plan |-> put(sources[i].place)] : i \in near}

First(issues) == {x \in issues : \A y \in issues : ~IssueBefore(y, x)}

\* The best replacement for the first issue that has one.
ReplacementCandidate(t) ==
    UNION {Best(Replacements(t, x)) : x \in First({y \in report.commute : Replacements(t, y) # {}})}

LongestLeg(t) ==
    Largest(UNION {{RoadTime(roads, l) : l \in ToSet(Legs(t, d))} : d \in Days(t)})

ReplacementAccepted(c, r) ==
    /\ r.quality.lost <= report.quality.lost
    /\ Cardinality(r.commute) < Cardinality(report.commute)
    /\ LongestLeg(c.plan) < LongestLeg(trip)
    /\ \A x \in r.commute : PlaceAt(c.place) \notin {x.leg.from, x.leg.to}
    /\ r.schedule.overtime = 0 /\ r.schedule.infeasible = 0
    /\ r.constraints.errors = 0
    /\ CountAttractions(c.plan) = CountAttractions(trip)

\* A rejected replacement is not offered again.
ReplaceRemoteAttraction ==
    /\ \E c \in ReplacementCandidate(trip) : \E r \in {Verified(c.plan)} :
          /\ Settle(c.plan, r, ReplacementAccepted(c, r))
          /\ excluded' = IF ReplacementAccepted(c, r) THEN excluded
                         ELSE [excluded EXCEPT !.commute = @ \cup {c.place}]
    /\ UNCHANGED <<roads, pool, searched, searches>>

----------------------------------------------------------------------------
(* MinimumAttractionRefillOptimizer.                                       *)

Least(a, b) == IF a < b THEN a ELSE b
Most(a, b) == IF a < b THEN b ELSE a

\* What the orchestrator asks for, and what the optimizer aims at, which counts the
\* days of the plan too.
RequiredAttractions == Least(MinTotal, Most(1, TravelDays))
RequiredTotal(t) ==
    Least(Most(1, MinTotal),
          Most(1, Least(TravelDays, IF t.spots = <<>> THEN TravelDays ELSE Len(t.spots))))

NoAnchor == 10000

\* Source n before attraction k of day d, ranked.
Placed(r, n, d, k) ==
    LET p == r.left[n].place
        u == [WithDay(r.plan, d, InsertAt(r.plan.spots[d], k, p)) EXCEPT !.stay[p] = DefaultStay]
        near == IF Anchors(u, d, k) = <<>> THEN NoAnchor ELSE FarFromAnchors(u, d, k, PlaceAt(p))
        ranked(s) == [key |-> <<s.travel, s.days[d].travel, near, IF Spot[p].liked THEN -1 ELSE 0,
                                -r.left[n].rating, d, k, n>>,
                      plan |-> u, place |-> p, fits |-> s.overtime = 0]
    IN  ranked(ScheduleTotals(Schedule(u, NoRoads)))

Placements(r) ==
    Prefix(FlattenSeq([n \in DOMAIN r.left |-> FlattenSeq([d \in Days(r.plan) |->
               [k \in 1..(Len(r.plan.spots[d]) + 1) |-> <<n, d, k>>]])]),
           MaxSources - r.considered)

\* Bug: a source that was placed may be placed again.
TakePlacementAgain(r, best, tried) ==
    IF best = {} THEN [r EXCEPT !.failed = TRUE]
    ELSE [r EXCEPT !.plan = The(best).plan, !.added = @ \cup {The(best).place},
                   !.considered = @ + tried]

TakePlacement(r, best, tried) ==
    IF best = {} THEN [r EXCEPT !.failed = TRUE]
    ELSE [r EXCEPT !.plan = The(best).plan, !.added = @ \cup {The(best).place},
                   !.considered = @ + tried,
                   !.left = Selected(@, {i \in DOMAIN r.left : r.left[i].place # The(best).place})]

\* One round: the best feasible place for any of the sources that are left,
\* among the placements the budget still allows.
RefillOnce(r) ==
    IF r.failed \/ CountAttractions(r.plan) >= RequiredTotal(r.plan) THEN r
    ELSE TakePlacement(r, Best({c \in {Placed(r, x[1], x[2], x[3]) : x \in ToSet(Placements(r))} : c.fits}),
                       Len(Placements(r)))

Refilled(t) ==
    LET round[n \in 0..RequiredTotal(t)] ==
            IF n = 0 THEN [plan |-> t, added |-> {}, considered |-> 0, failed |-> FALSE,
                           left |-> Fresh(t, excluded.refill)]
            ELSE RefillOnce(round[n - 1])
    IN  round[RequiredTotal(t)]

RefillCandidate(t) ==
    IF CountAttractions(t) >= RequiredTotal(t) THEN {} ELSE {r \in {Refilled(t)} : ~r.failed}

\* Bug: what the refill does to the routes is not compared.
RefillAcceptedAnyRoute(u, r) ==
    /\ r.schedule.overtime = 0 /\ r.constraints.errors = 0
    /\ CountAttractions(u) >= RequiredAttractions

RefillAccepted(u, r) ==
    /\ RoutesSafe(report, r)
    /\ r.schedule.overtime = 0 /\ r.constraints.errors = 0
    /\ CountAttractions(u) >= RequiredAttractions

RefillAttractions ==
    /\ CountAttractions(trip) < RequiredAttractions
    /\ \E c \in RefillCandidate(trip) : \E r \in {Verified(c.plan)} :
          /\ Settle(c.plan, r, RefillAccepted(c.plan, r))
          /\ excluded' = IF RefillAccepted(c.plan, r) THEN excluded
                         ELSE [excluded EXCEPT !.refill = @ \cup c.added]
    /\ UNCHANGED <<roads, pool, searched, searches>>

----------------------------------------------------------------------------
(* CommuteCandidatePoolSupplementer.                                       *)

Radius(n) == IF FirstRadius * 2^n < MaxRadius THEN FirstRadius * 2^n ELSE MaxRadius

\* merge: a duplicate only takes the place of a lower rating.
AddCandidate(merged, c) ==
    IF \E i \in DOMAIN merged : merged[i].place = c.place
    THEN [i \in DOMAIN merged |->
            IF merged[i].place = c.place /\ c.rating > merged[i].rating THEN c ELSE merged[i]]
    ELSE Append(merged, c)

Merge(old, received) ==
    LET all == old \o received
        merged[n \in 0..Len(all)] == IF n = 0 THEN <<>> ELSE AddCandidate(merged[n - 1], all[n])
    IN  Prefix(merged[Len(all)], PoolMax)

\* What a search around the mean of the anchors can return: at most one page.
Answers(anchors, n) ==
    {<<>>} \cup {<<c>> : c \in {c \in Nearby :
        Distance(Len(anchors) * PlaceAt(c.place), Total(anchors)) <= Len(anchors) * Radius(n)}}

\* build_query: around the neighbours of the first issue's target.
CommuteAnchors(t) ==
    {Anchors(t, x.day, x.target) :
        x \in First({y \in report.commute : Anchors(t, y.day, y.target) # <<>>})}

AnchorsOfDay(t, d) ==
    [i \in DOMAIN t.spots[d] |-> PlaceAt(t.spots[d][i])]
    \o (IF HasStart(t, d) THEN <<HotelAt>> ELSE <<>>)

\* build_content_refill_query: around the attractions and the hotels of the
\* emptiest day that has any.
RefillAnchors(t) ==
    LET emptiest(days) == CHOOSE d \in days : \A e \in days :
                             ~LexLess(<<Len(t.spots[e]), e>>, <<Len(t.spots[d]), d>>)
    IN  {AnchorsOfDay(t, emptiest(v)) :
            v \in {{d \in Days(t) : AnchorsOfDay(t, d) # <<>>}} \ {{}}}

\* SUPPLEMENT_ATTRACTIONS: the pool grows and the constraints are evaluated
\* again, as the candidates carry the opening hours.
Supplement(anchors, n) ==
    /\ \E a \in Answers(anchors, n) : pool' = Merge(pool, a)
    /\ report' = Evaluate(trip, roads, SourcesIn(pool'))
    /\ UNCHANGED <<trip, roads, excluded, searched>>

SupplementForCommute ==
    /\ report.commute # {} /\ ReplacementCandidate(trip) = {}
    /\ searches.commute < MaxSearches
    /\ \E a \in CommuteAnchors(trip) : Supplement(a, searches.commute)
    /\ searches' = [searches EXCEPT !.commute = @ + 1]

SupplementForRefill ==
    /\ CountAttractions(trip) < RequiredAttractions /\ RefillCandidate(trip) = {}
    /\ searches.refill < MaxSearches
    /\ \E a \in RefillAnchors(trip) : Supplement(a, searches.refill)
    /\ searches' = [searches EXCEPT !.refill = @ + 1]

----------------------------------------------------------------------------
(* Restaurants and the rebuilt plan.                                       *)

\* One failing search fails them all and changes nothing.
SearchMeals ==
    /\ trip # NoTrip
    /\ searched' = SearchAnchors(trip)
    /\ UNCHANGED <<trip, roads, report, pool, excluded, searches>>

\* The part of the fingerprint that a new text can change.
SameModes(t, u) == \A d \in Days(t) : ModeOf(u.text[d]) = ModeOf(t.text[d])

\* A plan whose new texts would ask for other routes is refused with an error,
\* which the orchestrator does not handle: the plan stays as it was.
RebuildPlan ==
    /\ trip # NoTrip
    /\ \E u \in {Rebuilt(trip, roads, report.schedule.days, searched)} :
          Settle(u, Verified(u), SameModes(trip, u))
    /\ UNCHANGED <<roads, pool, excluded, searched, searches>>

\* The planner's plan, and the roads estimated for it.
GeneratePlan ==
    /\ trip = NoTrip
    /\ trip' \in FirstPlans /\ roads' \in Roads
    /\ report' = Evaluate(trip', roads', Known)
    /\ UNCHANGED <<pool, excluded, searched, searches>>

PlanInit ==
    /\ trip = NoTrip /\ roads = NoRoads
    /\ pool \in FirstPools /\ excluded = [commute |-> {}, refill |-> {}]
    /\ report = Verified(trip)
    /\ searched = {} /\ searches = [commute |-> 0, refill |-> 0]

PlanNext ==
    \/ GeneratePlan
    \/ OptimizeRoutes \/ OptimizeSchedule \/ OptimizeConstraints
    \/ ReplaceRemoteAttraction \/ RefillAttractions
    \/ SupplementForCommute \/ SupplementForRefill
    \/ SearchMeals \/ RebuildPlan

PlanSpec == PlanInit /\ [][PlanNext]_planVars

----------------------------------------------------------------------------
(* Properties.                                                             *)

\* Type correctness of the plan, the pool and the counters.
PlanTypeOK ==
    /\ \A d \in Days(trip) : trip.spots[d] \in Seq(Places) /\ trip.hotel[d] \in BOOLEAN
    /\ pool \in Seq(Candidates)
    /\ excluded.commute \subseteq Places /\ excluded.refill \subseteq Places
    /\ searches \in [commute : 0..MaxSearches, refill : 0..MaxSearches]
    /\ searched \subseteq Days(trip) \X ToSet(MealTypes)

\* However moves, removals, replacements, refills and searches that find the same
\* attraction again follow each other, no attraction is planned twice, and the pool
\* offers none twice.  The same place under two identities may be.
NoneTwice ==
    /\ Cardinality(Used(trip)) = CountAttractions(trip)
    /\ Cardinality({pool[i].place : i \in DOMAIN pool}) = Len(pool)

\* With any roads and in any order of visits lunch lies inside its window, unless
\* the day starts too late for it: append_item eats before an item that would push
\* lunch out of it.
LunchInWindow ==
    DayStart <= LunchUntil - LunchTime =>
    \A d \in Days(trip) : \A x \in ToSet(report.schedule.days[d].items) :
        x.type = "meal" => LunchFrom <= x.from /\ x.to <= LunchUntil

\* The minutes that decide about overtime are the minutes of the timeline: no
\* item is missing from the sum, and none overlaps the next.
TimelineAddsUp ==
    \A d \in Days(trip) : \E t \in {report.schedule.days[d]} :
        /\ t.required = t.now - DayStart
        /\ \A i \in 1..(Len(t.items) - 1) : t.items[i].to = t.items[i + 1].from

\* A restaurant that the plan calls open is open during the whole meal, also
\* when its hours or the meal run past midnight.
OpenMealsAreOpen ==
    \A d \in Days(trip) : \A m \in ToSet(trip.meals[d]) :
        m.status = "open" =>
            LET h == Restaurant[m.who].hours IN
            \A x \in m.from..(m.to - 1) :
                \/ h = <<0, 0>>
                \/ h[1] < h[2] /\ x % Midnight \in h[1]..(h[2] - 1)
                \/ h[1] > h[2] /\ (x % Midnight >= h[1] \/ x % Midnight < h[2])

\* The attraction blamed for a long leg exists and is an end of that leg, so
\* that replacing it can shorten the leg.
TargetIsAnEnd ==
    \A x \in report.commute :
        /\ x.target \in DOMAIN trip.spots[x.day]
        /\ PlaceAt(trip.spots[x.day][x.target]) \in {x.leg.from, x.leg.to}

\* The batch repair leaves the conflicting attractions of a day behind all the
\* others: moving the first does not make it move a wrong one after it, unless two
\* attractions of the day have one name.
ConflictsGoLast ==
    trip # NoTrip =>
    \E conflicts \in {HoursConflicts(Approximate(trip))} :
    \E moved \in {ReorderedForHours(trip, conflicts)} :
    \A d \in {e \in Days(trip) : \A i, j \in DOMAIN trip.spots[e] :
                  Spot[trip.spots[e][i]].name = Spot[trip.spots[e][j]].name => i = j} :
        LET late == {trip.spots[d][x.spot] : x \in {y \in conflicts : y.day = d}}
        IN  \A i, j \in DOMAIN moved.spots[d] :
                i < j /\ moved.spots[d][i] \in late => moved.spots[d][j] \in late

\* A supplement search neither drops nor reorders what the pool holds up to its
\* limit, and replaces a candidate only by a better rated one: what was to be tried
\* next is still there, and attractions of the plan keep their source.
PoolKeepsOld ==
    [][\A i \in DOMAIN pool : i <= PoolMax =>
          i \in DOMAIN pool' /\ pool'[i].place = pool[i].place
          /\ pool'[i].rating >= pool[i].rating]_planVars

\* No optimizer trades a leg that has a route for one that has none.
RoutesNotLost ==
    [][trip # NoTrip => report'.quality.lost <= report.quality.lost]_planVars

\* What every sequence of optimizer steps keeps of a plan and its reports: no
\* identity twice, lunch in its window, minutes that add up, restaurants that are
\* open when called so, and repairs that aim at the attraction at fault.
PlanInv ==
    /\ PlanTypeOK /\ NoneTwice /\ LunchInWindow /\ TimelineAddsUp
    /\ OpenMealsAreOpen /\ TargetIsAnEnd /\ ConflictsGoLast

\* No accepted candidate, supplement search or rebuilt text loses what the plan
\* had: its routes and the candidates it can fall back on.
OptimizersLoseNothing == RoutesNotLost /\ PoolKeepsOld

=============================================================================
