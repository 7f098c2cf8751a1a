---------------------------- MODULE ProviderCache ----------------------------
(***************************************************************************)
(* The provider's cached reads, for one cache key used by several sessions. *)
(* Routes and restaurants go through Redis (L1), the database (L2) and then *)
(* the provider; POIs, hotels, weather and geocodes through Redis and the   *)
(* provider.  Each access is a step of its own: no lock spans two of them.  *)
(* Time passes in ticks; an entry keeps the age of its answer and the ticks *)
(* it has left.                                                             *)
(***************************************************************************)
EXTENDS Naturals, FiniteSets

CONSTANTS
    Sessions,        \* threads reading the key
    AnswerTtl,       \* AMAP_*_CACHE_TTL_SECONDS, in ticks
    UnavailableTtl,  \* AMAP_ROUTE_UNAVAILABLE_CACHE_TTL_SECONDS, in ticks
    MinTtl, MaxTtl,  \* CacheTTLPolicy.min_seconds and max_seconds, in ticks
    MaxDelay         \* bound: ticks a session may spend between two accesses

ASSUME CacheAssumption ==
    /\ IsFiniteSet(Sessions)
    /\ AnswerTtl \in Nat /\ UnavailableTtl \in Nat /\ MaxDelay \in Nat
    /\ MinTtl \in Nat \ {0} /\ MaxTtl \in Nat /\ MinTtl <= MaxTtl

Domains == {"route", "restaurant", "business"}

VARIABLES
    domain,  \* which cache the key belongs to; never changes
    l1, l2,  \* the key's entry in Redis and in the database
    reader   \* per session: where it is, and the answer it holds

cacheVars == <<domain, l1, l2, reader>>

\* value: "ok", "unavailable", "old" (written by an earlier schema) or "none".
NoEntry == [value |-> "none", age |-> 0, left |-> 0]

Resting == [at |-> "idle", value |-> "none", age |-> 0, left |-> 0, wait |-> 0]

CacheInit ==
    /\ domain \in Domains
    /\ l1 \in {NoEntry, [value |-> "old", age |-> 0, left |-> MaxTtl]}
    /\ l2 = NoEntry
    /\ reader = [s \in Sessions |-> Resting]

To(s, at) == reader' = [reader EXCEPT ![s] = [@ EXCEPT !.at = at, !.wait = 0]]

Hold(s, at, e) ==
    reader' = [reader EXCEPT ![s] = [at |-> at, value |-> e.value, age |-> e.age,
                                     left |-> e.left, wait |-> 0]]

AfterL1 == IF domain = "business" THEN "provider" ELSE "l2"

----------------------------------------------------------------------------
(* CacheTTLPolicy.resolve: nothing is stored for a ttl that is not positive; *)
(* any other is raised to the minimum and cut to the maximum.               *)
ResolvedTtl(ttl) ==
    CASE ttl = 0 -> 0
      [] ttl \in 1..(MinTtl - 1) -> MinTtl
      [] ttl \in MinTtl..MaxTtl -> ttl
      [] ttl > MaxTtl -> MaxTtl

\* _cache_set: an unavailable route is kept for less.
TtlOf(value) == IF value = "unavailable" THEN UnavailableTtl ELSE AnswerTtl

Stored(value, age, ttl) == [value |-> value, age |-> age, left |-> ttl]

----------------------------------------------------------------------------
(* The layers.                                                             *)

StartLookup(s) ==
    /\ reader[s].at = "idle"
    /\ To(s, "l1")
    /\ UNCHANGED <<domain, l1, l2>>

EstimateRoute(s) == domain = "route" /\ StartLookup(s)

SearchRestaurants(s) == domain = "restaurant" /\ StartLookup(s)

\* Attractions, hotels, weather, places: read through get_or_load.
SearchBusiness(s) == domain = "business" /\ StartLookup(s)

\* RedisCacheStore.get and model_validate: the envelope's version and the
\* payload's model must be current.
Usable(e) == e.value \in {"ok", "unavailable"}

\* Redis may fail at any access: the lookup goes on below.
ReadL1(s) ==
    /\ reader[s].at = "l1"
    /\ \/ To(s, AfterL1)
       \/ Usable(l1) /\ Hold(s, "answered", l1)
       \/ l1.value = "none" /\ To(s, AfterL1)
       \/ l1.value = "old" /\ ~Usable(l1) /\ To(s, "evict")
    /\ UNCHANGED <<domain, l1, l2>>

\* An entry that cannot be read is deleted by key, whatever is there by now.
EvictL1(s) ==
    /\ reader[s].at = "evict"
    /\ l1' \in {l1, NoEntry}
    /\ To(s, AfterL1)
    /\ UNCHANGED <<domain, l2>>

\* get_entry: a row with no ticks left is deleted by a second statement.
ReadL2(s) ==
    /\ reader[s].at = "l2"
    /\ \/ To(s, "provider")
       \/ l2.value = "none" /\ To(s, "provider")
       \/ l2.value # "none" /\ l2.left = 0 /\ To(s, "purge")
       \/ l2.value # "none" /\ l2.left > 0 /\ Hold(s, "backfill", l2)
    /\ UNCHANGED <<domain, l1, l2>>

DeleteExpired(s) ==
    /\ reader[s].at = "purge"
    /\ l2' = NoEntry
    /\ To(s, "provider")
    /\ UNCHANGED <<domain, l1>>

\* Bug: the copy gets the ttl of a new answer.
BackfillTtlWhole(s) == TtlOf(reader[s].value)

\* remaining_ttl_seconds, as read with the row.
BackfillTtl(s) == reader[s].left

Backfill(s) ==
    /\ reader[s].at = "backfill"
    /\ l1' \in {l1, Stored(reader[s].value, reader[s].age, ResolvedTtl(BackfillTtl(s)))}
    /\ To(s, "answered")
    /\ UNCHANGED <<domain, l2>>

----------------------------------------------------------------------------
(* The provider: _get_json and validate_amap_response turn what happened on *)
(* the wire into an error kind.                                             *)

Outcomes == {"answer", "local_quota", "timeout", "no_connection", "http_401", "http_429",
             "http_500", "http_400", "bad_json", "failed_status"}

ErrorKinds(outcome) ==
    CASE outcome = "answer" -> {"none"}
      [] outcome = "timeout" -> {"timeout"}
      [] outcome = "http_401" -> {"authorization"}
      [] outcome \in {"local_quota", "http_429"} -> {"rate_limit"}
      [] outcome = "http_400" -> {"invalid_input"}
      [] outcome = "bad_json" -> {"invalid_output"}
      [] outcome \in {"no_connection", "http_500"} -> {"upstream"}
      [] outcome = "failed_status" -> {"authorization", "rate_limit", "invalid_input", "upstream"}

\* estimate_routes isolates a leg's failure, unless it concerns every leg; the
\* other lookups raise whatever the provider raises.
Raises(kind) == kind # "none" /\ (domain # "route" \/ kind \in {"authorization", "rate_limit"})

StoreFirst == IF domain = "business" THEN "store_l1" ELSE "store_l2"

CallProvider(s) ==
    /\ reader[s].at = "provider"
    /\ \E outcome \in Outcomes : \E kind \in ErrorKinds(outcome) :
          \/ Raises(kind) /\ reader' = [reader EXCEPT ![s] = Resting]
          \/ ~Raises(kind) /\ Hold(s, StoreFirst,
                  Stored(IF kind = "none" THEN "ok" ELSE "unavailable", 0, 0))
    /\ UNCHANGED <<domain, l1, l2>>

\* set: L2 and then L1, each may fail without the other.
StoreL2(s) ==
    LET e == Stored(reader[s].value, reader[s].age, TtlOf(reader[s].value))
    IN  /\ reader[s].at = "store_l2"
        /\ l2' \in {l2} \cup {x \in {e} : x.left > 0}
        /\ To(s, "store_l1")
        /\ UNCHANGED <<domain, l1>>

StoreL1(s) ==
    LET e == Stored(reader[s].value, reader[s].age, ResolvedTtl(TtlOf(reader[s].value)))
    IN  /\ reader[s].at = "store_l1"
        /\ l1' \in {l1} \cup {x \in {e} : x.left > 0}
        /\ To(s, "answered")
        /\ UNCHANGED <<domain, l2>>

Return(s) ==
    /\ reader[s].at = "answered"
    /\ reader' = [reader EXCEPT ![s] = Resting]
    /\ UNCHANGED <<domain, l1, l2>>

----------------------------------------------------------------------------
(* Time.  Redis drops its entry by itself; the row waits for a reader.      *)

Older(e) == IF e.left > 1 THEN [e EXCEPT !.age = @ + 1, !.left = @ - 1] ELSE NoEntry

OlderRow(e) == IF e.left > 0 THEN [e EXCEPT !.age = @ + 1, !.left = @ - 1]
               ELSE [e EXCEPT !.age = 0]

Busy(s) == reader[s].at \notin {"idle", "answered"}

Tick ==
    /\ \A s \in Sessions : Busy(s) => reader[s].wait < MaxDelay
    /\ l1' = Older(l1)
    /\ l2' = OlderRow(l2)
    /\ reader' = [s \in Sessions |->
                     IF ~Busy(s) THEN reader[s]
                     ELSE [reader[s] EXCEPT !.wait = @ + 1,
                              !.age = IF reader[s].value = "none" THEN @ ELSE @ + 1]]
    /\ UNCHANGED domain

SessionStep(s) ==
    \/ EstimateRoute(s)
    \/ SearchRestaurants(s)
    \/ SearchBusiness(s)
    \/ ReadL1(s)
    \/ EvictL1(s)
    \/ ReadL2(s)
    \/ DeleteExpired(s)
    \/ Backfill(s)
    \/ CallProvider(s)
    \/ StoreL2(s)
    \/ StoreL1(s)
    \/ Return(s)

CacheNext == Tick \/ \E s \in Sessions : SessionStep(s)

CacheSpec == CacheInit /\ [][CacheNext]_cacheVars

----------------------------------------------------------------------------
\* The variables have their types.
CacheTypeOK ==
    /\ domain \in Domains
    /\ \A e \in {l1, l2} : e \in [value : {"none", "ok", "unavailable", "old"}, age : Nat, left : Nat]
    /\ \A s \in Sessions :
          /\ reader[s].at \in {"idle", "l1", "l2", "evict", "purge", "backfill", "provider",
                               "store_l1", "store_l2", "answered"}
          /\ reader[s].value \in {"none", "ok", "unavailable", "old"} /\ reader[s].age \in Nat

\* Whatever layers an answer has passed through, a session is never given one
\* that reaches the ttl of its kind plus the time its writer and its copier took,
\* unless the minimum ttl lengthened the copy in Redis: it does so once, and by
\* less than itself.  With the shipped minimum of one second a copy is not renewed.
ServedInTime ==
    \A s \in Sessions :
        reader[s].at = "answered" =>
            LET lifetime == IF reader[s].value = "unavailable" THEN UnavailableTtl ELSE AnswerTtl
            IN  \/ reader[s].age <= 2 * MaxDelay
                \/ reader[s].age < lifetime + 2 * MaxDelay + (MinTtl - 1)

\* A session is never given what an earlier version of the program cached.
ServedIsCurrent == \A s \in Sessions : reader[s].value # "old"

\* Only a single route leg is ever answered "unavailable", and in no cache of
\* another domain is a failure stored for the next session to read.
OnlyRoutesFail ==
    domain # "route" => \A e \in {l1, l2} \cup {reader[s] : s \in Sessions} :
                            e.value # "unavailable"

\* What a session is given, whatever layers and writers it has passed through: not
\* too old, not of another schema, and a failure only where a failed leg is an
\* answer.
CacheInv == CacheTypeOK /\ ServedInTime /\ ServedIsCurrent /\ OnlyRoutesFail

=============================================================================
