---------------------------- MODULE DayTimeline -----------------------------
(***************************************************************************)
(* What the evaluators compute for a plan, as operators: the legs of a day, *)
(* its timeline with lunch, the costs of routes, schedule and commute, the  *)
(* constraint issues, and the meals and transport texts of a rebuilt plan.  *)
(*                                                                          *)
(* A trip is [spots, hotel, text, meals, stay]: per day the ordered         *)
(* attractions, whether a hotel is bound, what the transport text says and  *)
(* the meals, and per attraction the minutes planned for it.                *)
(*                                                                          *)
(* An attraction stands for its attraction_identity: the key by its id, or  *)
(* without an id by its name.  One place can have two, the candidate found  *)
(* by the search and the same place as the planner writes it without an id. *)
(* Places lie on a line, which keeps the triangle inequality of the         *)
(* great-circle distance; a road table says what the provider answers.      *)
(***************************************************************************)
EXTENDS Integers, FiniteSets, Sequences, SequencesExt

CONSTANTS
    Spot,          \* per attraction: name, at, hours, shut, outdoor, wants, marks, kind, liked
    HotelAt,       \* where the hotels are
    Roads,         \* road tables: minutes between two positions, 0 if there is no route
    Restaurant,    \* per restaurant: day, meal, hours, far, rating
    Storms,        \* days with adverse weather
    DayStart, DayEnd, LunchFrom, LunchUntil, LunchTime, Noon, Midnight,
    RouteBuffer, RestBuffer, BreakfastAt, DinnerAt, MealTime,
    AskedMode,      \* the mode of request.transportation
    MinutesPerUnit, \* per mode, _FALLBACK_SPEED_KMH
    CommuteLimit,   \* per mode
    SoftLimit,      \* daily_attraction_soft_limit
    MaxAnchors,     \* restaurant searches of a plan
    LongLeg, LongDay, LongDistance, LowAverage, NoRoutePenalty

Places == DOMAIN Spot
Positions == {HotelAt} \cup {Spot[p].at : p \in Places}
Modes == {"transit", "driving", "walking"}
Hours == {<<>>} \cup ((0..Midnight) \X (0..Midnight))
Texts == [declared : Modes \cup {"none", "empty"}, marks : SUBSET Modes]
MealTypes == <<"breakfast", "lunch", "dinner">>
Meals == [who : {0} \cup DOMAIN Restaurant, from : Int, to : Int,
          status : {"open", "unknown", "fallback"}]

\* The plans of n days.
TripsOf(n) ==
    [spots : [1..n -> Seq(Places)], hotel : [1..n -> BOOLEAN], text : [1..n -> Texts],
     meals : [1..n -> Seq(Meals)], stay : [Places -> Nat]]

\* The constructor checks of ScheduleTimelineEvaluator.
SettingsAccepted ==
    /\ DayStart < DayEnd /\ LunchFrom < LunchUntil
    /\ {LunchTime, RouteBuffer, RestBuffer} \subseteq Nat
    /\ LunchTime <= LunchUntil - LunchFrom

ASSUME TimelineAssumption ==
    /\ SettingsAccepted
    /\ HotelAt \in Int /\ \A p \in Places : Spot[p].at \in Int
    /\ \A p \in Places : Spot[p].hours \in Hours /\ Spot[p].marks \subseteq Modes
    /\ Roads \subseteq [Positions \X Positions -> Nat]
    /\ \A r \in DOMAIN Restaurant : Restaurant[r].hours \in Hours
    /\ DOMAIN Restaurant \subseteq Nat \ {0}
    /\ AskedMode \in Modes
    /\ MinutesPerUnit \in [Modes -> Nat] /\ CommuteLimit \in [Modes -> Nat]
    /\ {DayStart, DayEnd, LunchFrom, LunchUntil, Noon, BreakfastAt, DinnerAt, MealTime} \subseteq Nat
    /\ {SoftLimit, MaxAnchors} \subseteq Nat /\ Midnight \in Nat \ {0}
    /\ DayEnd <= Midnight

Days(trip) == DOMAIN trip.spots
PlaceAt(p) == Spot[p].at
Distance(a, b) == IF a < b THEN b - a ELSE a - b
Total(f) == LET sum[n \in 0..Len(f)] == IF n = 0 THEN 0 ELSE sum[n - 1] + f[n] IN sum[Len(f)]
Prefix(s, n) == SubSeq(s, 1, IF Len(s) < n THEN Len(s) ELSE n)
UpTo(n) == [i \in 1..n |-> i]
Largest(S) == CHOOSE x \in S \cup {0} : \A y \in S : y <= x

\* The elements of s at the positions in I, in their order.
Selected(s, I) ==
    LET kept[n \in 0..Len(s)] ==
            IF n = 0 THEN <<>> ELSE IF n \in I THEN Append(kept[n - 1], s[n]) ELSE kept[n - 1]
    IN  kept[Len(s)]

\* The elements of S in the order of Less.
Sorted(S, Less(_, _)) ==
    [i \in 1..Cardinality(S) |-> CHOOSE x \in S : Cardinality({y \in S : Less(y, x)}) = i - 1]

LexLess(a, b) == \E i \in DOMAIN a : a[i] < b[i] /\ \A j \in 1..(i - 1) : a[j] = b[j]

----------------------------------------------------------------------------
(* plan_routes.                                                            *)

\* normalize_transportation_mode(day.transportation or request.transportation):
\* a declared mode, or the first whose markers occur anywhere in the text.
ModeOf(text) ==
    CASE text.declared = "empty" -> AskedMode
      [] text.declared \in Modes -> text.declared
      [] text.declared = "none" /\ "transit" \in text.marks -> "transit"
      [] text.declared = "none" /\ "transit" \notin text.marks /\ "driving" \in text.marks -> "driving"
      [] text.declared = "none" /\ text.marks = {"walking"} -> "walking"
      [] OTHER -> "transit"

\* resolve_day_hotels: the hotel of the day, or the last one before it.
HasStart(trip, d) == \E e \in 1..d : trip.hotel[e]
HasReturn(trip, d) == trip.hotel[d]

\* build_route_legs and expected_route_leg_keys; kind orders the leg types.
Legs(trip, d) ==
    LET q == trip.spots[d]
        n == Len(q)
        departure == IF HasStart(trip, d)
                     THEN <<[kind |-> 2, leg |-> 0, from |-> HotelAt, to |-> PlaceAt(q[1])]>> ELSE <<>>
        between == [i \in 1..(n - 1) |->
                       [kind |-> 1, leg |-> i, from |-> PlaceAt(q[i]), to |-> PlaceAt(q[i + 1])]]
        return == IF HasReturn(trip, d)
                  THEN <<[kind |-> 3, leg |-> 0, from |-> PlaceAt(q[n]), to |-> HotelAt]>> ELSE <<>>
    IN  IF q = <<>> THEN <<>> ELSE departure \o between \o return

NoRoads == [pair \in {} |-> 0]

RoadTime(roads, leg) ==
    IF roads = NoRoads THEN 0 ELSE roads[<<leg.from, leg.to>>]

\* _transport_minutes
LegTime(trip, d, roads, leg) ==
    LET fallback == Distance(leg.from, leg.to) * MinutesPerUnit[ModeOf(trip.text[d])]
        time == IF RoadTime(roads, leg) > 0 THEN RoadTime(roads, leg) ELSE fallback
    IN  IF time < 1 THEN 1 ELSE time

----------------------------------------------------------------------------
(* ScheduleTimelineEvaluator._evaluate_day.  required adds up the minutes   *)
(* as they are counted; items is the timeline.                              *)

AppendRawItem(t, type, i, minutes) ==
    IF minutes <= 0 THEN t
    ELSE [t EXCEPT !.now = @ + minutes,
                   !.items = Append(@, [type |-> type, spot |-> i, from |-> t.now,
                                        to |-> t.now + minutes])]

AppendLunch(t) ==
    LET wait == IF t.now < LunchFrom THEN LunchFrom - t.now ELSE 0
        u == AppendRawItem(AppendRawItem(t, "break", 0, wait), "meal", 0, LunchTime)
    IN  IF t.lunch \/ LunchTime = 0 THEN t ELSE [u EXCEPT !.lunch = TRUE, !.required = @ + wait + LunchTime]

\* Lunch comes before an item that would push it out of its window.
LunchIsDue(t, minutes) ==
    ~t.lunch /\ LunchTime > 0 /\ (t.now >= LunchFrom \/ t.now + minutes > LunchUntil - LunchTime)

AppendItem(t, type, i, minutes) ==
    LET u == IF minutes > 0 /\ LunchIsDue(t, minutes) THEN AppendLunch(t) ELSE t
    IN  [AppendRawItem(u, type, i, minutes) EXCEPT !.required = @ + minutes]

AppendLeg(t, trip, d, roads, leg, i) ==
    LET time == LegTime(trip, d, roads, leg)
        u == AppendItem(t, "transportation", i, time)
        v == [u EXCEPT !.travel = @ + time,
                       !.fallbacks = @ + (IF RoadTime(roads, leg) > 0 THEN 0 ELSE 1)]
    IN  AppendItem(v, "break", i, RouteBuffer)

\* An attraction and, when there is a next one, the rest and the way to it.
AppendVisit(t, trip, d, roads, i) ==
    LET q == trip.spots[d]
        u == AppendItem(t, "attraction", i, trip.stay[q[i]])
        leg == [kind |-> 1, leg |-> i, from |-> PlaceAt(q[i]), to |-> PlaceAt(q[i + 1])]
    IN  IF i = Len(q) THEN u
        ELSE AppendLeg(AppendItem(u, "break", i, RestBuffer), trip, d, roads, leg, i)

EmptyTimeline == [now |-> DayStart, items |-> <<>>, lunch |-> FALSE, required |-> 0,
                  travel |-> 0, fallbacks |-> 0]

LunchAfterNoon(t) == IF t.now > Noon THEN AppendLunch(t) ELSE t

WayOut(trip, d, roads) ==
    IF HasStart(trip, d) THEN AppendLeg(EmptyTimeline, trip, d, roads, Head(Legs(trip, d)), 1)
    ELSE EmptyTimeline

WayBack(t, trip, d, roads) ==
    IF HasReturn(trip, d) THEN AppendLeg(t, trip, d, roads, Last(Legs(trip, d)), Len(trip.spots[d]))
    ELSE t

Visits(trip, d, roads) ==
    LET visited[i \in 0..Len(trip.spots[d])] ==
            IF i = 0 THEN WayOut(trip, d, roads) ELSE AppendVisit(visited[i - 1], trip, d, roads, i)
    IN  visited[Len(trip.spots[d])]

Timeline(trip, d, roads) ==
    IF trip.spots[d] = <<>> THEN EmptyTimeline
    ELSE WayBack(LunchAfterNoon(Visits(trip, d, roads)), trip, d, roads)

OvertimeOf(t) == IF t.required > DayEnd - DayStart THEN t.required - (DayEnd - DayStart) ELSE 0

\* evaluate: per day the timeline, and what the optimizers compare.
Schedule(trip, roads) == [d \in Days(trip) |-> Timeline(trip, d, roads)]

ScheduleTotals(s) ==
    [days |-> s,
     overtime |-> Total([d \in DOMAIN s |-> OvertimeOf(s[d])]),
     infeasible |-> Cardinality({d \in DOMAIN s : OvertimeOf(s[d]) > 0}),
     fallbacks |-> Total([d \in DOMAIN s |-> s[d].fallbacks]),
     travel |-> Total([d \in DOMAIN s |-> s[d].travel]),
     cost |-> Total([d \in DOMAIN s |->
                        100 * OvertimeOf(s[d]) + 1000 * s[d].fallbacks + s[d].travel])]

----------------------------------------------------------------------------
(* evaluate_route_quality.  Costs are in tenths.                           *)

\* The legs of a day that have a route, with its minutes and distance.
UsableLegs(trip, d, roads) ==
    LET legs == Legs(trip, d)
        usable == Selected(legs, {i \in DOMAIN legs : RoadTime(roads, legs[i]) > 0})
    IN  [i \in DOMAIN usable |-> [time |-> RoadTime(roads, usable[i]),
                                  far |-> Distance(usable[i].from, usable[i].to)]]

DayRoutes(legs, usable) ==
    [lost |-> legs - Len(usable),
     slow |-> Cardinality({i \in DOMAIN usable : usable[i].time > LongLeg}),
     far |-> Cardinality({i \in DOMAIN usable : usable[i].far > LongDistance}),
     time |-> Total([i \in DOMAIN usable |-> usable[i].time]),
     cost |-> Total([i \in DOMAIN usable |-> 10 * usable[i].time + usable[i].far])
              + 10 * NoRoutePenalty * (legs - Len(usable))]

\* optimization_recommended of a day with n attractions.
Improvable(day, n, legs) ==
    /\ n >= 3
    /\ \/ day.lost > 0 \/ day.slow > 0 \/ day.far > 0 \/ day.time > LongDay
       \/ day.cost > 10 * LowAverage * legs

QualityTotals(trip, days) ==
    [lost |-> Total([d \in DOMAIN days |-> days[d].lost]),
     slow |-> Total([d \in DOMAIN days |-> days[d].slow]),
     cost |-> Total([d \in DOMAIN days |-> days[d].cost]),
     improvable |-> \E d \in DOMAIN days :
                       Improvable(days[d], Len(trip.spots[d]), Len(Legs(trip, d)))]

RouteQuality(trip, roads) ==
    QualityTotals(trip, [d \in Days(trip) |->
                            DayRoutes(Len(Legs(trip, d)), UsableLegs(trip, d, roads))])

----------------------------------------------------------------------------
(* CommuteConstraintEvaluator.                                             *)

\* The places before and after attraction i, where they are known.
Anchors(trip, d, i) ==
    LET q == trip.spots[d]
        before == IF i > 1 THEN <<PlaceAt(q[i - 1])>>
                  ELSE IF HasStart(trip, d) THEN <<HotelAt>> ELSE <<>>
        after == IF i < Len(q) THEN <<PlaceAt(q[i + 1])>>
                 ELSE IF HasReturn(trip, d) THEN <<HotelAt>> ELSE <<>>
    IN  before \o after

FarFromAnchors(trip, d, i, place) ==
    LET a == Anchors(trip, d, i) IN Total([k \in DOMAIN a |-> Distance(place, a[k])])

\* _target_attraction_index.  evaluate has refused routes of another plan, whose
\* fingerprint holds the names, so both names match and the distances decide.
Target(trip, d, leg) ==
    LET q == trip.spots[d]
        far(i) == FarFromAnchors(trip, d, i, PlaceAt(q[i]))
    IN  CASE leg.kind = 2 -> 1
          [] leg.kind = 3 -> Len(q)
          [] OTHER -> IF far(leg.leg) > far(leg.leg + 1) THEN leg.leg ELSE leg.leg + 1

CommuteIssues(trip, roads) ==
    UNION {{[day |-> d, leg |-> l, time |-> RoadTime(roads, l), target |-> Target(trip, d, l),
             excess |-> RoadTime(roads, l) - CommuteLimit[ModeOf(trip.text[d])]]
            : l \in {k \in ToSet(Legs(trip, d)) :
                        RoadTime(roads, k) > CommuteLimit[ModeOf(trip.text[d])]}}
           : d \in Days(trip)}

IssueBefore(x, y) ==
    LexLess(<<-x.excess, -x.time, x.day, x.leg.leg, x.leg.kind>>,
            <<-y.excess, -y.time, y.day, y.leg.leg, y.leg.kind>>)

----------------------------------------------------------------------------
(* ConstraintEvaluator.  An issue names its attraction, minus its meal, or  *)
(* neither with 0.                                                          *)

Penalty == [lunch |-> 1200, meal |-> 1500, shut |-> 1800, hours |-> 1600, period |-> 1400,
            load |-> 250, weather |-> 400]
IsError(issue) == issue.code \notin {"load", "weather"}

Issue(code, d, i) == [code |-> code, day |-> d, spot |-> i]

VisitItems(t, i) == {x \in ToSet(t.items) : x.type = "attraction" /\ x.spot = i}

\* parse_opening_ranges, of restaurants: hours past midnight, 00:00-00:00.
OpenRange(hours) ==
    CASE hours = <<>> -> {}
      [] hours # <<>> /\ hours[1] = hours[2] -> IF hours[1] = 0 THEN {<<0, Midnight>>} ELSE {}
      [] hours # <<>> /\ hours[1] < hours[2] -> {hours}
      [] OTHER -> {<<hours[1], hours[2] + Midnight>>}

\* opening_status_for_interval
OpeningStatus(hours, from, to) ==
    IF OpenRange(hours) = {} THEN "unknown"
    ELSE IF /\ from < to
            /\ \E r \in OpenRange(hours), o \in {0, Midnight} : from >= r[1] + o /\ to <= r[2] + o
    THEN "open" ELSE "closed"

\* _opening_ranges of the source of attraction p, which known has, if any;
\* anything else counts as unknown.
VisitHours(p, known) ==
    {h \in {Spot[k].hours : k \in known[p]} : h # <<>> /\ h[1] < h[2]}

HoursIssues(trip, d, t, known) ==
    LET q == trip.spots[d]
        shut == {i \in DOMAIN q : \E k \in known[q[i]] : d \in Spot[k].shut}
    IN  {Issue("shut", d, i) : i \in shut} \cup
        {Issue("hours", d, i) : i \in {j \in DOMAIN q \ shut :
            \E x \in VisitItems(t, j), h \in VisitHours(q[j], known) :
                x.from < h[1] \/ x.to > h[2]}}

DayIssues(trip, d, t, known) ==
    LET q == trip.spots[d]
        period(x) == IF x.from < Noon THEN "morning" ELSE "afternoon"
    IN  {Issue("lunch", d, 0) : x \in {y \in ToSet(t.items) :
            y.type = "meal" /\ (y.from < LunchFrom \/ y.to > LunchUntil)}} \cup
        HoursIssues(trip, d, t, known) \cup
        {Issue("period", d, i) : i \in {j \in DOMAIN q :
            \E x \in VisitItems(t, j) : Spot[q[j]].wants \notin {"any", period(x)}}} \cup
        {Issue("meal", d, -m) : m \in {k \in DOMAIN trip.meals[d] :
            /\ trip.meals[d][k].who \in DOMAIN Restaurant
            /\ OpeningStatus(Restaurant[trip.meals[d][k].who].hours, trip.meals[d][k].from,
                             trip.meals[d][k].to) = "closed"}} \cup
        {Issue("load", d, n) : n \in {Len(q)} \ (0..SoftLimit)} \cup
        {Issue("weather", d, i) : i \in {j \in DOMAIN q : d \in Storms /\ Spot[q[j]].outdoor}}

Issues(trip, s, known) == UNION {DayIssues(trip, d, s[d], known) : d \in Days(trip)}

IssueTotals(issues) ==
    [all |-> issues,
     cost |-> FoldSet(LAMBDA x, n : n + Penalty[x.code], 0, issues),
     errors |-> Cardinality({x \in issues : IsError(x)})]

\* The reports about a plan: what is evaluated with the roads of the provider,
\* or without any by the optimizers.
Report(trip, roads, s, known) ==
    [quality |-> RouteQuality(trip, roads),
     schedule |-> ScheduleTotals(s),
     constraints |-> IssueTotals(Issues(trip, s, known)),
     commute |-> CommuteIssues(trip, roads)]

Evaluate(trip, roads, known) == Report(trip, roads, Schedule(trip, roads), known)

----------------------------------------------------------------------------
(* build_restaurant_search_anchors and TripPlanConsistencyRebuilder.       *)

\* Lunches first, one breakfast, the dinners, the other breakfasts.
SearchAnchors(trip) ==
    LET placed == Selected(UpTo(Len(trip.spots)),
                           {d \in Days(trip) : trip.spots[d] # <<>> \/ HasStart(trip, d)})
        of(meal) == [i \in DOMAIN placed |-> <<placed[i], meal>>]
        all == of("lunch") \o Prefix(of("breakfast"), 1) \o of("dinner")
               \o SubSeq(of("breakfast"), 2, Len(placed))
    IN  ToSet(Prefix(all, MaxAnchors))

Clip(x, low, high) == IF x < low THEN low ELSE IF x > high THEN high ELSE x

\* meal_service_intervals, with lunch at the interval of the timeline's lunch.
LunchInterval(from, long) ==
    [from |-> Clip(from, LunchFrom, LunchUntil - long),
     to |-> Clip(from, LunchFrom, LunchUntil - long) + long]

PlannedLunch(lunches) ==
    IF lunches = <<>> THEN LunchInterval(Noon, Clip(MealTime, 1, LunchUntil - LunchFrom))
    ELSE LunchInterval(Last(lunches).from,
                       Clip(Last(lunches).to - Last(lunches).from, 1, LunchUntil - LunchFrom))

MealInterval(meal, t) ==
    CASE meal = "breakfast" -> [from |-> BreakfastAt, to |-> BreakfastAt + MealTime]
      [] meal = "lunch" -> PlannedLunch(Selected(t.items, {i \in DOMAIN t.items : t.items[i].type = "meal"}))
      [] meal = "dinner" ->
            LET from == Largest({x.to : x \in ToSet(t.items)} \cup {DinnerAt})
            IN  [from |-> from, to |-> from + MealTime]

\* The restaurants found for a meal that are not known to be closed then.
Found(d, meal, at, searched) ==
    {[who |-> r, from |-> at.from, to |-> at.to,
      status |-> OpeningStatus(Restaurant[r].hours, at.from, at.to)] :
        r \in {x \in DOMAIN Restaurant : Restaurant[x].day = d /\ Restaurant[x].meal = meal
                                         /\ <<d, meal>> \in searched}}

MealBefore(x, y) ==
    LexLess(<<IF x.status = "open" THEN 0 ELSE 1, Restaurant[x.who].far, -Restaurant[x.who].rating, x.who>>,
            <<IF y.status = "open" THEN 0 ELSE 1, Restaurant[y.who].far, -Restaurant[y.who].rating, y.who>>)

\* _build_meals: the best restaurant that is not yet used that day, else a meal
\* near the day's places.
PickMeal(found, at) ==
    LET best == {m \in found : \A x \in found : ~MealBefore(x, m)}
    IN  IF best = {} THEN [who |-> 0, from |-> at.from, to |-> at.to, status |-> "fallback"]
        ELSE CHOOSE m \in best : TRUE

NextMeal(d, meal, at, searched, meals) ==
    PickMeal({m \in Found(d, meal, at, searched) :
                 m.status # "closed" /\ \A i \in DOMAIN meals : meals[i].who # m.who}, at)

DayMeals(d, t, searched) ==
    LET next(meals, meal) == NextMeal(d, meal, MealInterval(meal, t), searched, meals)
        breakfast == next(<<>>, "breakfast")
        lunch == next(<<breakfast>>, "lunch")
    IN  <<breakfast, lunch, next(<<breakfast, lunch>>, "dinner")>>

\* _transportation_description: the mode is declared before the legs, or only
\* mentioned among the names of the attractions when no leg has a route.
TransportText(trip, d, roads) ==
    LET mode == ModeOf(trip.text[d])
        named == UNION {Spot[p].marks : p \in ToSet(trip.spots[d])}
    IN  IF \E l \in ToSet(Legs(trip, d)) : RoadTime(roads, l) > 0
        THEN [declared |-> mode, marks |-> {mode} \cup named]
        ELSE [declared |-> "none", marks |-> {mode} \cup named]

Rebuilt(trip, roads, s, searched) ==
    [trip EXCEPT !.text = [d \in Days(trip) |-> TransportText(trip, d, roads)],
                 !.meals = [d \in Days(trip) |-> DayMeals(d, s[d], searched)]]
=============================================================================
