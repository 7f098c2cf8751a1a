---------------------------- MODULE MCComponents ----------------------------
(***************************************************************************)
(* The components that share no state with each other or with the queue:   *)
(* focus picks the one that moves, the others keep one initial state.      *)
(***************************************************************************)
EXTENDS TripDraftVersions, ProviderCache, DataMigration, GuideRetrieval,
        PlanOptimizers, PlanValidation

VARIABLE focus

\* The sessions of the provider cache are interchangeable.
SessionSymmetry == Permutations(Sessions)

componentVars == <<focus, draftVars, cacheVars, migrationVars, ragVars, planVars,
                   validationVars>>

MCContents == {[match |-> 1, score |-> 1, bonus |-> 2, size |-> 1, builds |-> TRUE],
               [match |-> 3, score |-> 2, bonus |-> 0, size |-> 3, builds |-> TRUE],
               [match |-> 1, score |-> 2, bonus |-> 0, size |-> 1, builds |-> FALSE]}
MCFirstPublished == [g \in {1, 2, 3} |-> -g]

\* Five attractions along a line, two of which open late, and the fourth again as the
\* planner writes it, without its id; a hotel at 0.
Attraction(name, at, hours, shut, outdoor, wants, marks, kind, liked) ==
    [name |-> name, at |-> at, hours |-> hours, shut |-> shut, outdoor |-> outdoor, wants |-> wants,
     marks |-> marks, kind |-> kind, liked |-> liked]

MCSpot ==
    <<Attraction("lake", 2, <<25, 44>>, {}, TRUE, "any", {}, "park", TRUE),
      Attraction("tower", 7, <<35, 47>>, {}, FALSE, "any", {"transit"}, "museum", FALSE),
      Attraction("temple", 3, <<>>, {1}, FALSE, "any", {}, "museum", FALSE),
      Attraction("gate", 1, <<16, 42>>, {}, FALSE, "any", {}, "park", FALSE),
      Attraction("hill", 4, <<>>, {}, TRUE, "morning", {}, "museum", TRUE),
      Attraction("gate", 1, <<>>, {}, FALSE, "any", {}, "other", FALSE)>>

ARestaurant(day, meal, hours, far, rating) ==
    [day |-> day, meal |-> meal, hours |-> hours, far |-> far, rating |-> rating]

MCRestaurant ==
    <<ARestaurant(1, "lunch", <<20, 30>>, 1, 4), ARestaurant(1, "lunch", <<24, 25>>, 0, 4),
      ARestaurant(1, "dinner", <<34, 2>>, 1, 4), ARestaurant(2, "dinner", <<36, 38>>, 0, 4),
      ARestaurant(2, "dinner", <<0, 0>>, 2, 5), ARestaurant(2, "lunch", <<>>, 0, 4)>>

\* Roads everywhere; and a city where some ways are missing, others slow.
MCRoads ==
    {[pair \in Positions \X Positions |-> Distance(pair[1], pair[2])],
     [pair \in Positions \X Positions |->
        CASE 7 \in {pair[1], pair[2]} -> 2 * Distance(pair[1], pair[2])
          [] pair \in {<<2, 3>>, <<0, 1>>, <<1, 2>>} -> 0
          [] OTHER -> Distance(pair[1], pair[2])]}

MCMinutes == [transit |-> 2, driving |-> 1, walking |-> 4]
MCLimits == [transit |-> 4, driving |-> 3, walking |-> 2]

\* A first day with none, one or three of the first three attractions, and plans over
\* both days, one of them with the fourth as the planner writes it; the second day
\* may have no transport text.
Arrangements ==
    {q \in UNION {[1..n -> 1..3] : n \in 0..3} : \A i, j \in DOMAIN q : i # j => q[i] # q[j]}
ByCar == [declared |-> "none", marks |-> {"driving"}]
NoText == [declared |-> "empty", marks |-> {}]
MCPlan(a, b, text) ==
    [spots |-> <<a, b>>, hotel |-> <<Len(a) + Len(b) = 3, FALSE>>, text |-> <<ByCar, text>>,
     meals |-> << <<>>, <<>> >>, stay |-> [p \in 1..6 |-> 5]]
MCFirstPlans ==
    {MCPlan(a, <<>>, ByCar) : a \in {q \in Arrangements : Len(q) # 2}}
    \cup {MCPlan(<<1, 2>>, <<3>>, ByCar),
          MCPlan(<<6>>, <<>>, NoText), MCPlan(<<>>, <<6>>, NoText), MCPlan(<<1>>, <<3, 6>>, NoText)}

\* A pool without one of the planned attractions, and one that is longer than what
\* a search may leave of it.
MCFirstPools ==
    {[i \in 1..3 |-> [place |-> IF i = 3 THEN 4 ELSE i, rating |-> i]],
     [i \in 1..5 |-> [place |-> i, rating |-> i]]}
MCNearby == {[place |-> 5, rating |-> 4], [place |-> 1, rating |-> 3]}

\* A request for two days, the same with a wrong number of days or with dates
\* that cannot be; what may be wrong with a plan for the first of them.
MCCity == [name |-> "hangzhou", suffix |-> ""]
MCAsked == [city |-> MCCity, start |-> 1, end |-> 2, days |-> 2]
MCAskedTrips ==
    {MCAsked, [MCAsked EXCEPT !.days = 3], [MCAsked EXCEPT !.start = 3], [MCAsked EXCEPT !.end = 0]}

MCVisit(poi, name) == [poi |-> poi, name |-> name, stay |-> 60, onMap |-> TRUE]
MCDay(n, visits) ==
    [date |-> n, index |-> n - 1, empty |-> {}, spots |-> visits, hotel |-> "inn",
     meals |-> {"breakfast", "lunch", "dinner"}]
MCWritten(days) ==
    [city |-> MCCity, start |-> 1, end |-> 2, days |-> days, weather |-> <<1, 2>>,
     budget |-> <<3, 4, 7>>, suggestions |-> TRUE]
MCPois == <<"p1", "p2", "p3", "p4">>
MCLake == MCVisit("p1", "lake")
MCTemple == MCVisit("", "temple")
MCGood == MCWritten(<<MCDay(1, <<MCLake, MCTemple>>), MCDay(2, <<MCVisit("p2", "tower")>>)>>)
MCLlmPlans ==
    {MCGood, [MCGood EXCEPT !.city.suffix = "shi"],
     [MCGood EXCEPT !.city.suffix = "shi", !.suggestions = FALSE],
     [MCGood EXCEPT !.city.name = "suzhou", !.start = 2, !.end = 3],
     [MCGood EXCEPT !.suggestions = FALSE, !.weather = <<1, 1>>],
     [MCGood EXCEPT !.budget = <<3, -1, 7>>, !.weather = <<1, 2, 3>>],
     [MCGood EXCEPT !.budget = <<>>, !.days[1].empty = {"day.empty_description"}],
     [MCGood EXCEPT !.days[2].date = 1, !.days[2].index = 0],
     [MCGood EXCEPT !.days[2].date = 0, !.days[1].meals = {}],
     [MCGood EXCEPT !.days[1].spots[1].stay = 0, !.days[1].spots[2].onMap = FALSE],
     [MCGood EXCEPT !.days[1].hotel = "palace", !.days[2].spots[1].name = "ruin"],
     MCWritten(<<MCDay(1, <<MCLake, MCTemple>>), MCDay(2, <<MCTemple, MCLake, MCTemple>>)>>),
     MCWritten(<<MCDay(1, <<MCVisit("p1", "lakeside"), MCLake>>), MCDay(2, <<MCLake>>)>>),
     MCWritten(<<MCDay(1, <<MCLake, MCTemple>>)>>),
     MCWritten(<<MCDay(1, <<>>), MCDay(2, <<>>), MCDay(3, <<MCLake>>)>>),
     MCWritten(<<>>),
     MCWritten(<<MCDay(1, [i \in 1..4 |-> MCVisit(MCPois[i], "lakeside")]), MCDay(2, <<>>)>>)}
\* The temple as the search finds it has an id.
MCCatalogs ==
    {[pool |-> {}, hotels |-> {}],
     [pool |-> {MCVisit("p1", "lakeside"), MCVisit("p6", "temple"), MCVisit("p2", "tower")},
      hotels |-> {"inn"}]}
MCAlike == {{"lake", "lakeside"}}
MCEstimate(state, slow, far) == [state |-> state, slow |-> slow, far |-> far]
MCEstimates ==
    {MCEstimate("available", FALSE, FALSE), MCEstimate("available", TRUE, TRUE),
     MCEstimate("unavailable", FALSE, TRUE)}
MCEvaluation(lost, over, long, constraints, score) ==
    [lost |-> lost, overtime |-> <<over, 0, over>>, long |-> long, constraints |-> constraints,
     score |-> score]
MCConstraint(code, error) == [code |-> code, at |-> <<1>>, error |-> error]
MCEvaluations ==
    {MCEvaluation(0, 0, 0, {}, 300), MCEvaluation(0, 40, 0, {}, 240), MCEvaluation(0, 80, 0, {}, 200),
     MCEvaluation(1, 0, 1, {MCConstraint("load", FALSE)}, 250),
     MCEvaluation(0, 40, 0, {MCConstraint("hours", TRUE)}, 150)}
MCPartial ==
    [enabled |-> TRUE, score |-> 70, errors |-> 2, overtime |-> 60, lost |-> 0, long |-> 0,
     constraints |-> 0, perDay |-> 0, codes |-> {"plan.empty_suggestions", "schedule.daily_overtime"}]

DraftsRest == DraftInit /\ backend = CHOOSE b \in Backends : TRUE
CacheRests == CacheInit /\ domain = "route" /\ l1 = NoEntry
MigrationRests == MigrationInit /\ target = [k \in SourceRows |-> "none"]
\* Two guides that differ, and the session's own like the first.
GuidesDiffer ==
    /\ guide[1].content[1].score = 1 /\ guide[2].content[1].match = 3
    /\ guide[Own].content[1] = guide[1].content[1]
RagRests ==
    /\ RagInit /\ rag.settings = NoSettings
    /\ \A g \in Guides : guide[g].content[1] = CHOOSE c \in Contents : TRUE
PlanRests == PlanInit /\ Len(pool) = 3
ValidationRests == ValidationInit /\ asked = MCAsked /\ catalog.pool = {}
Init ==
    \/ /\ focus = "drafts" /\ DraftInit /\ CacheRests /\ MigrationRests /\ RagRests /\ PlanRests
       /\ ValidationRests
    \/ /\ focus = "cache" /\ CacheInit /\ DraftsRest /\ MigrationRests /\ RagRests /\ PlanRests
       /\ ValidationRests
    \/ /\ focus = "migration" /\ MigrationInit /\ DraftsRest /\ CacheRests /\ RagRests /\ PlanRests
       /\ ValidationRests
    \/ /\ focus = "rag" /\ RagInit /\ GuidesDiffer /\ DraftsRest /\ CacheRests /\ MigrationRests /\ PlanRests
       /\ ValidationRests
    \/ /\ focus = "plan" /\ PlanInit /\ DraftsRest /\ CacheRests /\ MigrationRests /\ RagRests
       /\ ValidationRests
    \/ /\ focus = "validation" /\ ValidationInit
       /\ DraftsRest /\ CacheRests /\ MigrationRests /\ RagRests /\ PlanRests

Next ==
    \/ /\ focus = "drafts" /\ DraftNext
       /\ UNCHANGED <<focus, cacheVars, migrationVars, ragVars, planVars, validationVars>>
    \/ /\ focus = "cache" /\ CacheNext
       /\ UNCHANGED <<focus, draftVars, migrationVars, ragVars, planVars, validationVars>>
    \/ /\ focus = "migration" /\ MigrationNext
       /\ UNCHANGED <<focus, draftVars, cacheVars, ragVars, planVars, validationVars>>
    \/ /\ focus = "rag" /\ RagNext
       /\ UNCHANGED <<focus, draftVars, cacheVars, migrationVars, planVars, validationVars>>
    \/ /\ focus = "plan" /\ PlanNext
       /\ UNCHANGED <<focus, draftVars, cacheVars, migrationVars, ragVars, validationVars>>
    \/ /\ focus = "validation" /\ ValidationNext
       /\ UNCHANGED <<focus, draftVars, cacheVars, migrationVars, ragVars, planVars>>

Spec == Init /\ [][Next]_componentVars
=============================================================================
