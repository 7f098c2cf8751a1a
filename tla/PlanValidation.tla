--------------------------- MODULE PlanValidation ---------------------------
(***************************************************************************)
(* What a plan written by the model has to stand up to: the normalizer that *)
(* drops repeated attractions, the optimizers that change it, the rebuilder *)
(* that writes its texts anew, the rules of TripPlanValidator, and the      *)
(* policy that accepts a plan in full, in part or not at all.  PlanningLoop *)
(* takes the verdicts as given, PlanOptimizers computes the changes; here   *)
(* any change may happen, and the verdicts are computed.                    *)
(*                                                                          *)
(* A date is a number, 0 when it cannot be parsed.  A city is [name,        *)
(* suffix]; a day is [date, index, empty, spots, meals, hotel], empty       *)
(* naming its blank texts; an attraction is [poi, name, stay, onMap].       *)
(***************************************************************************)
EXTENDS Integers, FiniteSets, Sequences, SequencesExt

CONSTANTS
    AskedTrips,   \* requests: [city, start, end, days]
    LlmPlans,     \* what the model may write
    Catalogs,     \* what the searches may have found: [pool, hotels]
    Alike,        \* pairs of names one of which contains the other
    Estimates,    \* what is known of a way: [state, slow, far]
    Evaluations,  \* the reports: [lost, overtime, long, constraints, score]
    MaxChanges,   \* bound on the changes of the optimizers to one plan
    MinContent,   \* minimum_total_attractions
    MaxRepairs,   \* max_repair_attempts
    Partial       \* the thresholds of partial acceptance

EmptyTexts == {"day.empty_description", "day.empty_transportation", "day.empty_accommodation"}

\* The meals that are asked for; others are not told apart.
EveryMeal == {"breakfast", "lunch", "dinner"}

PlanCities == [name : STRING, suffix : STRING]
PlanVisits == [poi : STRING, name : STRING, stay : Int, onMap : BOOLEAN]
PlanDays == [date : Nat, index : Nat, empty : SUBSET EmptyTexts, spots : Seq(PlanVisits),
             meals : SUBSET EveryMeal, hotel : STRING]

\* The codes of the constraint report are its own.
ASSUME ValidationAssumption ==
    /\ MinContent \in Nat /\ MaxRepairs \in Nat /\ MaxChanges \in Nat
    /\ \A c \in Catalogs : c.pool \subseteq PlanVisits
    /\ AskedTrips \subseteq [city : PlanCities, start : Nat, end : Nat, days : Nat]
    /\ LlmPlans \subseteq [city : PlanCities, start : Nat, end : Nat, days : Seq(PlanDays),
                           weather : Seq(Nat), budget : Seq(Int), suggestions : BOOLEAN]
    /\ \A e \in Evaluations : \A x \in e.constraints :
          x.code \notin {"attraction.duplicate_across_days", "plan.empty_suggestions"} \cup EmptyTexts

VARIABLES
    asked,      \* state.request
    catalog,    \* state.attractions, and the names in state.hotels
    written,    \* state.trip_plan
    evidence,   \* routes and reports about the plan
    verdict,    \* state.last_validation_result
    delivery,   \* state.acceptance_report
    repairs,    \* state.repair_count
    changes,    \* the optimizers' changes to the plan so far
    phase       \* what the loop does next

validationVars == <<asked, catalog, written, evidence, verdict, delivery, repairs, changes, phase>>

NoPlan == [days |-> <<>>]
NoEvidence == [routes |-> <<>>]
NoVerdict == [valid |-> FALSE, repairable |-> FALSE, issues |-> {}]
NoDelivery == [accepted |-> FALSE, partial |-> FALSE, level |-> "unusable"]

WrittenDays == DOMAIN written.days
SumUpTo(n, f(_)) == LET sum[i \in 0..n] == IF i = 0 THEN 0 ELSE sum[i - 1] + f(i) IN sum[n]
CountSpots == SumUpTo(Len(written.days), LAMBDA d : Len(written.days[d].spots))
CatalogNames == {v.name : v \in catalog.pool}

----------------------------------------------------------------------------
(* plan_normalizer.                                                        *)

\* attraction_identity
Identity(a) == IF a.poi # "" THEN <<"poi", a.poi>> ELSE <<"name", a.name>>

\* Whether attraction i of day d repeats one before it, on any day of the plan.
Repeated(p, d, i) ==
    \E e \in 1..d : \E j \in DOMAIN p.days[e].spots :
        (e < d \/ j < i) /\ Identity(p.days[e].spots[j]) = Identity(p.days[d].spots[i])

\* The attractions of day d that stay: of every one its first occurrence.
Kept(p, d) ==
    LET kept[i \in 0..Len(p.days[d].spots)] ==
            IF i = 0 THEN <<>>
            ELSE IF Repeated(p, d, i) THEN kept[i - 1] ELSE Append(kept[i - 1], i)
    IN  kept[Len(p.days[d].spots)]

\* remove_duplicate_attractions
RemoveDuplicateAttractions(p) ==
    [p EXCEPT !.days = [d \in DOMAIN p.days |->
        [p.days[d] EXCEPT !.spots = [k \in DOMAIN Kept(p, d) |-> p.days[d].spots[Kept(p, d)[k]]]]]]

----------------------------------------------------------------------------
(* What happens to the plan between the normalizer and the validator.      *)

Withdrawn(p, d, i) == [p EXCEPT !.days[d].spots = RemoveAt(@, i)]
Inserted(p, d, i, v) == [p EXCEPT !.days[d].spots = InsertAt(@, i, v)]

\* The candidates of the pool that the plan has not, by attraction_identity.
Unplanned(p) ==
    {v \in catalog.pool : \A d \in DOMAIN p.days : \A i \in DOMAIN p.days[d].spots :
        Identity(p.days[d].spots[i]) # Identity(v)}

\* A replacement stays as long as what it replaces, if that is said.
InPlaceOf(v, a) == [v EXCEPT !.stay = IF a.stay = 0 THEN @ ELSE a.stay]

Visited(p) == UNION {{<<d, i>> : i \in DOMAIN p.days[d].spots} : d \in DOMAIN p.days}
Slots(p) == UNION {{<<d, i>> : i \in 1..(Len(p.days[d].spots) + 1)} : d \in DOMAIN p.days}

\* The plans that differ from p in one attraction: removed, moved, replaced or added.
Changed(p) ==
    (UNION {LET u == Withdrawn(p, x[1], x[2])
                a == p.days[x[1]].spots[x[2]]
            IN  {u} \cup {Inserted(u, y[1], y[2], a) : y \in Slots(u)}
                    \cup {Inserted(u, x[1], x[2], InPlaceOf(v, a)) : v \in Unplanned(p)}
            : x \in Visited(p)})
    \cup UNION {{Inserted(p, y[1], y[2], v) : y \in Slots(p)} : v \in Unplanned(p)}

\* _build_budget, at one unit for each ticket, night and meal.
BudgetOf(p) ==
    LET tickets == SumUpTo(Len(p.days), LAMBDA d : Len(p.days[d].spots))
        nights == Cardinality({d \in DOMAIN p.days : p.days[d].hotel # ""})
        meals == 3 * Len(p.days)
    IN  <<tickets, nights, meals, tickets + nights + meals>>

\* rebuild: texts, meals and budget follow from the attractions and hotels.
RebuiltContent(p) ==
    [p EXCEPT !.days = [d \in DOMAIN p.days |->
                           [p.days[d] EXCEPT !.empty = {}, !.meals = EveryMeal]],
              !.budget = BudgetOf(p), !.suggestions = TRUE]

----------------------------------------------------------------------------
(* TripPlanValidator.  An issue is an error the model can repair, one it    *)
(* cannot, or a warning.                                                    *)

Error(code, at) == [code |-> code, at |-> at, error |-> TRUE, repairable |-> TRUE]
Fatal(code, at) == [code |-> code, at |-> at, error |-> TRUE, repairable |-> FALSE]
Warning(code, at) == [code |-> code, at |-> at, error |-> FALSE, repairable |-> TRUE]
When(condition, issue) == IF condition THEN {issue} ELSE {}

ExpectedDates ==
    IF asked.start = 0 \/ asked.end = 0 \/ asked.end < asked.start THEN <<>>
    ELSE [i \in 1..(asked.end - asked.start + 1) |-> asked.start + i - 1]

ValidateRequest ==
    When(asked.start = 0, Fatal("request.invalid_start_date", <<>>)) \cup
    When(asked.end = 0, Fatal("request.invalid_end_date", <<>>)) \cup
    When(0 \notin {asked.start, asked.end} /\ asked.end < asked.start,
         Fatal("request.invalid_date_range", <<>>)) \cup
    When(ExpectedDates # <<>> /\ Len(ExpectedDates) # asked.days,
         Fatal("request.travel_days_mismatch", <<>>))

\* The validator compares cities without their suffix, the policy below with it.
ValidatePlanIdentity ==
    When(written.city.name # asked.city.name, Error("plan.city_mismatch", <<>>)) \cup
    When(written.start # asked.start, Error("plan.start_date_mismatch", <<>>)) \cup
    When(written.end # asked.end, Error("plan.end_date_mismatch", <<>>))

ValidateDayDate(d, date) ==
    When(date = 0, Error("day.invalid_date", <<d>>)) \cup
    When(\E e \in 1..(d - 1) : written.days[e].date = date, Error("day.duplicate_date", <<d>>)) \cup
    IF d <= Len(ExpectedDates)
    THEN When(date # ExpectedDates[d], Error("day.date_sequence_mismatch", <<d>>))
    ELSE When(date # 0 /\ ExpectedDates # <<>>, Error("day.date_out_of_range", <<d>>))

ValidateDay(d, day) ==
    ValidateDayDate(d, day.date) \cup
    When(day.index # d - 1, Error("day.index_mismatch", <<d>>)) \cup
    {Error(code, <<d>>) : code \in day.empty} \cup
    When(day.spots = <<>>, Warning("day.no_attractions", <<d>>)) \cup
    When(Len(day.spots) > 4, Warning("day.too_many_attractions", <<d>>)) \cup
    When(day.meals # EveryMeal, Warning("day.meals_incomplete", <<d>>))

ValidateAttractions(d, spots) ==
    UNION {When(Repeated(written, d, i), Error("attraction.duplicate_across_days", <<d, i>>)) \cup
           When(spots[i].stay <= 0, Error("attraction.invalid_visit_duration", <<d, i>>)) \cup
           When(~spots[i].onMap, Error("attraction.invalid_location", <<d, i>>)) : i \in DOMAIN spots}

ValidateDays ==
    When(Len(written.days) # asked.days, Error("days.count_mismatch", <<>>)) \cup
    UNION {ValidateDay(d, written.days[d]) \cup ValidateAttractions(d, written.days[d].spots) :
              d \in WrittenDays}

RequiredContent ==
    LET days == IF asked.days > 1 THEN asked.days ELSE 1
    IN  IF MinContent < days THEN MinContent ELSE days

\* Too little content is the refill's business, not the model's.
ValidateMinimumContent ==
    When(CountSpots < RequiredContent,
         Fatal(IF CountSpots = 0 THEN "plan.no_attractions" ELSE "plan.insufficient_attractions", <<>>))

ValidateWeather ==
    LET told == ToSet(written.weather)
        expected == ToSet(ExpectedDates)
    IN  When(Len(written.weather) # Cardinality(told), Warning("weather.duplicate_dates", <<>>)) \cup
        When(~(expected \subseteq told), Warning("weather.missing_dates", <<>>)) \cup
        When(expected # {} /\ ~(told \subseteq expected), Warning("weather.out_of_range_dates", <<>>))

\* A budget is <<>>, or its parts and then its total.
ValidateBudget(budget) ==
    IF budget = <<>> THEN {Warning("budget.missing", <<>>)}
    ELSE LET n == Len(budget) - 1
         IN  {Error("budget.negative_component", <<i>>) : i \in {j \in 1..n : budget[j] < 0}} \cup
             When(SumUpTo(n, LAMBDA i : budget[i]) # budget[n + 1], Warning("budget.total_mismatch", <<>>))

\* _matches_source: one name contains the other.
MatchesSource(name, names) == \E c \in names : c = name \/ {c, name} \in Alike

ValidateSourceConsistency ==
    UNION {{Error("attraction.not_in_sources", <<d, i>>) :
               i \in {j \in DOMAIN written.days[d].spots : CatalogNames # {}
                         /\ ~MatchesSource(written.days[d].spots[j].name, CatalogNames)}} \cup
           When(written.days[d].hotel # "" /\ catalog.hotels # {}
                   /\ ~MatchesSource(written.days[d].hotel, catalog.hotels),
                Error("hotel.not_in_sources", <<d>>)) : d \in WrittenDays}

\* The estimates are found by the day's own index, whatever its position.
RouteKeys == UNION {{<<written.days[d].index, i>> : i \in 2..Len(written.days[d].spots)} : d \in WrittenDays}

ValidateWay(at, estimate) ==
    When(estimate.state = "available" /\ estimate.slow, Error("route.excessive_duration", at)) \cup
    When(estimate.state = "unavailable", Warning("route.unavailable", at)) \cup
    When(estimate.far, Warning("route.long_transfer", at))

ValidateRouteDistances ==
    UNION {UNION {ValidateWay(<<d, i>>, evidence.routes[<<written.days[d].index, i>>]) :
                     i \in 2..Len(written.days[d].spots)} : d \in WrittenDays}

ValidateScheduleCapacity ==
    {Error("schedule.daily_overtime", <<d>>) : d \in {e \in WrittenDays : evidence.overtime[e] > 0}}

\* What the constraint report holds is taken over as it is.
ValidateExecutionConstraints ==
    {[code |-> x.code, at |-> x.at, error |-> x.error, repairable |-> TRUE] :
        x \in evidence.constraints}

Validate ==
    ValidateRequest \cup ValidatePlanIdentity \cup ValidateDays \cup ValidateMinimumContent
    \cup ValidateWeather \cup ValidateBudget(written.budget) \cup ValidateSourceConsistency
    \cup ValidateRouteDistances \cup ValidateScheduleCapacity \cup ValidateExecutionConstraints
    \cup When(~written.suggestions, Error("plan.empty_suggestions", <<>>))

Errors(issues) == {x \in issues : x.error}

\* TripValidationResult.from_issues
FromIssues(issues) ==
    [valid |-> Errors(issues) = {},
     repairable |-> Errors(issues) # {} /\ \A x \in Errors(issues) : x.repairable,
     issues |-> issues]

----------------------------------------------------------------------------
(* PartialAcceptancePolicy.                                                *)

StructuralOk ==
    /\ written.city = asked.city /\ written.start = asked.start /\ written.end = asked.end
    /\ Len(written.days) = asked.days /\ written.days # <<>>

CoveredDays == {d \in WrittenDays : Len(written.days[d].spots) >= Partial.perDay}

\* Bug: the number of errors is limited, their kind is not.
CoreOkAnyCode(errors) ==
    /\ StructuralOk /\ CoveredDays = WrittenDays
    /\ evidence.lost <= Partial.lost
    /\ SumUpTo(Len(written.days), LAMBDA d : evidence.overtime[d]) <= Partial.overtime
    /\ evidence.long <= Partial.long
    /\ Cardinality(Errors(evidence.constraints)) <= Partial.constraints
    /\ Cardinality(errors) <= Partial.errors

\* The core checks.
CoreOk(errors) ==
    /\ StructuralOk /\ CoveredDays = WrittenDays
    /\ evidence.lost <= Partial.lost
    /\ SumUpTo(Len(written.days), LAMBDA d : evidence.overtime[d]) <= Partial.overtime
    /\ evidence.long <= Partial.long
    /\ Cardinality(Errors(evidence.constraints)) <= Partial.constraints
    /\ Cardinality(errors) <= Partial.errors
    /\ \A x \in errors : x.code \in Partial.codes

\* Whether the mean of the five scores reaches min: routes, schedule and
\* constraints (evidence.score is their sum), validation and content.
ScoreReaches(min, errors, warnings) ==
    LET n == IF written.days = <<>> THEN 1 ELSE Len(written.days)
        validation == IF 12 * errors + 2 * warnings > 100 THEN 0 ELSE 100 - 12 * errors - 2 * warnings
    IN  n * (evidence.score + validation) + 100 * Cardinality(CoveredDays) >= 5 * min * n

Level(valid, accepted, excellent) ==
    CASE valid -> IF excellent THEN "excellent" ELSE "acceptable"
      [] ~valid /\ accepted -> "acceptable"
      [] OTHER -> IF StructuralOk THEN "degraded" ELSE "unusable"

Delivered(valid, partial, warnings) ==
    [accepted |-> valid \/ partial, partial |-> ~valid /\ partial,
     level |-> Level(valid, partial, warnings = 0 /\ ScoreReaches(90, 0, 0))]

\* evaluate: a valid plan is always accepted.
EvaluateAcceptance(result) ==
    LET errors == Errors(result.issues)
        warnings == Cardinality(result.issues \ errors)
    IN  Delivered(result.valid,
                  /\ Partial.enabled /\ CoreOk(errors)
                  /\ ScoreReaches(Partial.score, Cardinality(errors), warnings),
                  warnings)

----------------------------------------------------------------------------
(* The loop around them.                                                   *)

ValidationInit ==
    /\ asked \in AskedTrips /\ catalog \in Catalogs
    /\ written = NoPlan /\ evidence = NoEvidence /\ verdict = NoVerdict /\ delivery = NoDelivery
    /\ repairs = 0 /\ changes = 0 /\ phase = "generate"

\* _normalize_llm_plan, before anything is looked up for the plan.
TakePlan ==
    /\ \E p \in LlmPlans : written' = RemoveDuplicateAttractions(p)
    /\ evidence' = NoEvidence /\ verdict' = NoVerdict /\ delivery' = NoDelivery
    /\ changes' = 0 /\ phase' = "evaluate"
    /\ UNCHANGED <<asked, catalog>>

GenerateWritten == phase = "generate" /\ TakePlan /\ UNCHANGED repairs

RepairWritten == phase = "repair" /\ TakePlan /\ repairs' = repairs + 1

\* A candidate of an optimizer or of the refill that is kept, one attraction at a time.
ChangeWritten ==
    /\ phase = "evaluate" /\ changes < MaxChanges
    /\ written' \in Changed(written) /\ changes' = changes + 1
    /\ UNCHANGED <<asked, catalog, evidence, verdict, delivery, repairs, phase>>

\* The rebuilt content, and the routes and reports about the plan.
GatherEvidence ==
    /\ phase = "evaluate"
    /\ written' = RebuiltContent(written)
    /\ \E r \in [RouteKeys -> Estimates], e \in Evaluations :
          evidence' = [routes |-> r, lost |-> e.lost, overtime |-> e.overtime, long |-> e.long,
                       constraints |-> e.constraints, score |-> e.score]
    /\ phase' = "validate"
    /\ UNCHANGED <<asked, catalog, verdict, delivery, repairs, changes>>

\* _validate_plan: finish, repair while that can help and may be tried, or fail.
ValidateWritten ==
    /\ phase = "validate"
    /\ \E result \in {FromIssues(Validate)} : \E acceptance \in {EvaluateAcceptance(result)} :
          /\ verdict' = result /\ delivery' = acceptance
          /\ phase' = IF acceptance.accepted THEN "finish"
                      ELSE IF result.repairable /\ repairs < MaxRepairs THEN "repair" ELSE "failed"
    /\ UNCHANGED <<asked, catalog, written, evidence, repairs, changes>>

FinishWritten ==
    /\ phase = "finish" /\ phase' = "completed"
    /\ UNCHANGED <<asked, catalog, written, evidence, verdict, delivery, repairs, changes>>

ValidationNext ==
    GenerateWritten \/ ChangeWritten \/ GatherEvidence \/ ValidateWritten \/ RepairWritten \/ FinishWritten

ValidationSpec == ValidationInit /\ [][ValidationNext]_validationVars

----------------------------------------------------------------------------
(* Properties.                                                             *)

\* Type correctness of the verdict, the delivery and the counters.
ValidationTypeOK ==
    /\ asked \in AskedTrips /\ catalog \in Catalogs
    /\ written.days \in Seq(PlanDays)
    /\ verdict.valid \in BOOLEAN /\ verdict.repairable \in BOOLEAN
    /\ delivery.level \in {"excellent", "acceptable", "degraded", "unusable"}
    /\ repairs \in 0..MaxRepairs /\ changes \in 0..MaxChanges
    /\ phase \in {"generate", "evaluate", "validate", "repair", "finish", "completed", "failed"}

\* One day for every date asked for, in their order, in the city asked for, with
\* the content required and with attractions the search has found.
FitsRequest ==
    /\ [d \in WrittenDays |-> written.days[d].date] = ExpectedDates
    /\ Len(written.days) = asked.days /\ written.city.name = asked.city.name
    /\ CountSpots >= RequiredContent
    /\ CatalogNames # {} => \A d \in WrittenDays : \A a \in ToSet(written.days[d].spots) :
                                MatchesSource(a.name, CatalogNames)

\* A plan that is delivered, in full or in part, is a plan for this request.
DeliveredFitsRequest == phase = "completed" => FitsRequest

\* The model is asked for a repair only when writing differently can help: the
\* request fits itself, and no error is left to others.
RepairCanHelp ==
    phase = "repair" =>
        /\ ExpectedDates # <<>> /\ Len(ExpectedDates) = asked.days
        /\ CountSpots >= RequiredContent

\* The validator never rejects for a repeated attraction: the normalizer has
\* dropped it from what the model wrote, first or as a repair, and no change of an
\* optimizer brings it back.  Nor does it ever reject for what the rebuilder writes.
PreparedForValidator ==
    \A x \in verdict.issues :
        x.code \notin {"attraction.duplicate_across_days", "plan.empty_suggestions"} \cup EmptyTexts

\* Validator, normalizer, optimizers and acceptance policy agree: what is delivered
\* fits the request, what is sent back can be mended, and repetitions and blank
\* texts are gone before they are judged.
ValidationInv ==
    ValidationTypeOK /\ DeliveredFitsRequest /\ RepairCanHelp /\ PreparedForValidator

=============================================================================
