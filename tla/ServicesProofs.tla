--------------------------- MODULE ServicesProofs ---------------------------
(***************************************************************************)
(* Proofs about the services around a planning task: the circuit breaker of *)
(* a tool, the Redis client with its quotas, the notifications of a task    *)
(* and the layered provider cache; for any number of sessions and threads.  *)
(***************************************************************************)
EXTENDS ToolCircuitBreaker, RedisGuard, TaskNotifications, ProviderCache,
        FiniteSetTheorems, TLAPS

----------------------------------------------------------------------------
(* The circuit breaker.                                                    *)

\* A running call holds the permit it was admitted with.
CallsHavePermits == \A c \in Callers : caller[c].at = "calling" => caller[c].permit # "none"

BreakerIInv == BreakerInv /\ CallsHavePermits

Entries == [state : {"closed", "open", "half_open"}, failures : Nat,
            waited : BOOLEAN, probing : BOOLEAN]

\* Recording a result never leaves the entry half open, and leaves it closed
\* below the threshold only: every call settles the probe, its own or not.
LEMMA RecordSettles ==
    ASSUME NEW e \in Entries, e.state = "closed" => e.failures < FailureThreshold,
           NEW result \in {"success", "tracked", "untracked", "invalid"}
    PROVE  /\ Record(e, result) \in Entries
           /\ Record(e, result).state # "half_open"
           /\ Record(e, result).state = "closed" =>
                 Record(e, result).failures < FailureThreshold
<1>0. FailureThreshold \in Nat \ {0}
  BY BreakerAssumption
<1>1. CASE result = "success"
  BY <1>0, <1>1 DEF Record, Closed, Entries
<1>2. CASE result = "tracked" /\ e.state = "half_open"
  BY <1>0, <1>2 DEF Record, Opened, Entries
<1>3. CASE result = "tracked" /\ e.state # "half_open"
  <2> DEFINE more == [e EXCEPT !.failures = @ + 1]
  <2>1. more \in Entries /\ more.state = e.state /\ more.failures = e.failures + 1
    BY DEF Entries
  <2>2. Record(e, result) = IF more.failures >= FailureThreshold THEN Opened(more) ELSE more
    BY <1>3 DEF Record, Counted
  <2>3. CASE more.failures >= FailureThreshold
    BY <2>1, <2>2, <2>3 DEF Opened, Entries
  <2>4. CASE ~(more.failures >= FailureThreshold)
    BY <2>1, <2>2, <2>4, <1>0, <1>3 DEF Entries
  <2> QED
    BY <2>3, <2>4
<1>4. CASE result \in {"untracked", "invalid"} /\ e.state = "half_open"
  BY <1>0, <1>4 DEF Record, Closed, Entries
<1>5. CASE result \in {"untracked", "invalid"} /\ e.state # "half_open"
  BY <1>0, <1>5 DEF Record, Entries
<1> QED
  BY <1>1, <1>2, <1>3, <1>4, <1>5

\* An admitted call holds the state it leaves the entry in; admission makes the
\* entry half open with a probe, or leaves a closed one as it was.
LEMMA AdmitMarks ==
    ASSUME NEW e \in Entries, Allowed(e)
    PROVE  /\ Admit(e) \in Entries
           /\ Admit(e).state \in {"closed", "half_open"}
           /\ Admit(e).state = "half_open" => Admit(e).probing
           /\ Admit(e).state = "closed" => Admit(e) = e
BY DEF Admit, Allowed, Ready, Entries

CallerStates == [at : {"idle", "calling", "decide"}, permit : {"none", "closed", "half_open"},
                 result : {"none", "success", "tracked", "untracked", "invalid"},
                 attempt : 1..MaxAttemptsPerTool]

LEMMA IdleType == Idle \in CallerStates
BY BreakerAssumption DEF Idle, CallerStates

LEMMA BreakerInitInv == BreakerInit => BreakerIInv
<1> SUFFICES ASSUME BreakerInit PROVE BreakerIInv
  OBVIOUS
<1>1. BreakerTypeOK
  BY IdleType, BreakerAssumption DEF BreakerInit, BreakerTypeOK, Closed, CallerStates
<1>2. HalfOpenHasProbe /\ ClosedBelowThreshold
  BY BreakerAssumption DEF BreakerInit, HalfOpenHasProbe, ClosedBelowThreshold, Closed
<1>3. CallsHavePermits
  BY DEF BreakerInit, CallsHavePermits, Idle
<1> QED
  BY <1>1, <1>2, <1>3 DEF BreakerIInv, BreakerInv

\* The caller's part of the type and the permits, after one caller moved.
LEMMA CallerMoves ==
    ASSUME BreakerIInv, NEW c \in Callers, NEW new \in CallerStates,
           new.at = "calling" => new.permit # "none",
           caller' = [caller EXCEPT ![c] = new]
    PROVE  /\ caller' \in [Callers -> CallerStates]
           /\ CallsHavePermits'
           /\ caller'[c] = new
           /\ \A d \in Callers : d # c => caller'[d] = caller[d]
BY DEF BreakerIInv, BreakerInv, BreakerTypeOK, CallerStates, CallsHavePermits

LEMMA BeforeCallInv ==
    ASSUME BreakerIInv, NEW c \in Callers, BeforeCall(c)
    PROVE  BreakerIInv'
<1> DEFINE new == [caller[c] EXCEPT !.at = "calling", !.permit = entry'.state]
<1>0. entry \in Entries /\ caller \in [Callers -> CallerStates]
  BY DEF BreakerIInv, BreakerInv, BreakerTypeOK, Entries, CallerStates
<1>1. CASE Allowed(entry)
  <2>1. /\ entry' = Admit(entry) /\ caller' = [caller EXCEPT ![c] = new]
        /\ UNCHANGED <<healthy, abandoned>> /\ caller[c].at = "idle"
    BY <1>1 DEF BeforeCall
  <2>2. /\ entry' \in Entries /\ entry'.state \in {"closed", "half_open"}
        /\ entry'.state = "half_open" => entry'.probing
        /\ entry'.state = "closed" => entry' = entry
    BY <2>1, <1>0, <1>1, AdmitMarks
  <2>3. new \in CallerStates /\ new.at = "calling" /\ new.permit = entry'.state
    BY <2>2, <1>0 DEF CallerStates
  <2>4. /\ caller' \in [Callers -> CallerStates] /\ CallsHavePermits' /\ caller'[c] = new
    BY <2>1, <2>2, <2>3, CallerMoves
  <2>5. BreakerTypeOK'
    BY <2>1, <2>2, <2>4 DEF BreakerIInv, BreakerInv, BreakerTypeOK, Entries, CallerStates
  <2>6. HalfOpenHasProbe'
    BY <2>2, <2>3, <2>4 DEF HalfOpenHasProbe, InFlight
  <2>7. ClosedBelowThreshold'
    BY <2>2 DEF BreakerIInv, BreakerInv, ClosedBelowThreshold
  <2> QED
    BY <2>4, <2>5, <2>6, <2>7 DEF BreakerIInv, BreakerInv
<1>2. CASE ~Allowed(entry)
  <2>1. /\ caller' = [caller EXCEPT ![c] = Idle] /\ UNCHANGED <<entry, healthy, abandoned>>
        /\ caller[c].at = "idle"
    BY <1>2 DEF BeforeCall
  <2>2. /\ caller' \in [Callers -> CallerStates] /\ CallsHavePermits'
        /\ \A d \in Callers : d # c => caller'[d] = caller[d]
    BY <2>1, IdleType, CallerMoves DEF Idle
  <2>3. BreakerTypeOK'
    BY <2>1, <2>2 DEF BreakerIInv, BreakerInv, BreakerTypeOK, CallerStates
  <2>4. InFlight("half_open") \subseteq InFlight("half_open")'
    BY <2>1, <2>2 DEF InFlight
  <2>5. HalfOpenHasProbe' /\ ClosedBelowThreshold'
    BY <2>1, <2>4 DEF BreakerIInv, BreakerInv, HalfOpenHasProbe, ClosedBelowThreshold
  <2> QED
    BY <2>2, <2>3, <2>5 DEF BreakerIInv, BreakerInv
<1> QED
  BY <1>1, <1>2

LEMMA RecordResultInv ==
    ASSUME BreakerIInv, NEW c \in Callers, RecordResult(c)
    PROVE  BreakerIInv'
<1>0. entry \in Entries /\ caller \in [Callers -> CallerStates]
  BY DEF BreakerIInv, BreakerInv, BreakerTypeOK, Entries, CallerStates
<1>1. PICK result \in Answers :
         /\ entry' = Record(entry, result)
         /\ caller' = [caller EXCEPT ![c] = [@ EXCEPT !.at = "decide", !.permit = "none",
                                                      !.result = result]]
  BY DEF RecordResult
<1>2. result \in {"success", "tracked", "untracked", "invalid"}
  BY DEF Answers
<1>3. /\ entry' \in Entries /\ entry'.state # "half_open"
      /\ entry'.state = "closed" => entry'.failures < FailureThreshold
  BY <1>0, <1>1, <1>2, RecordSettles DEF BreakerIInv, BreakerInv, ClosedBelowThreshold
<1> DEFINE new == [caller[c] EXCEPT !.at = "decide", !.permit = "none", !.result = result]
<1>4. new \in CallerStates /\ new.at = "decide" /\ caller' = [caller EXCEPT ![c] = new]
  BY <1>0, <1>1, <1>2 DEF CallerStates
<1>5. caller' \in [Callers -> CallerStates] /\ CallsHavePermits'
  BY <1>4, CallerMoves
<1>6. UNCHANGED <<healthy, abandoned>>
  BY DEF RecordResult
<1>7. BreakerTypeOK'
  BY <1>3, <1>5, <1>6 DEF BreakerIInv, BreakerInv, BreakerTypeOK, Entries, CallerStates
<1>8. HalfOpenHasProbe' /\ ClosedBelowThreshold'
  BY <1>3 DEF HalfOpenHasProbe, ClosedBelowThreshold
<1> QED
  BY <1>5, <1>7, <1>8 DEF BreakerIInv, BreakerInv

LEMMA AbandonInv ==
    ASSUME BreakerIInv, NEW c \in Callers, Abandon(c)
    PROVE  BreakerIInv'
<1>0. caller \in [Callers -> CallerStates] /\ abandoned \in [closed : Nat, half_open : Nat]
  BY DEF BreakerIInv, BreakerInv, BreakerTypeOK, CallerStates
<1>1. /\ caller[c].at = "calling" /\ caller' = [caller EXCEPT ![c] = Idle]
      /\ abandoned' = [abandoned EXCEPT ![caller[c].permit] = @ + 1]
      /\ UNCHANGED <<entry, healthy>>
  BY DEF Abandon
<1>2. caller[c].permit \in {"closed", "half_open"}
  BY <1>0, <1>1 DEF BreakerIInv, CallsHavePermits, CallerStates
<1>3. /\ abandoned' \in [closed : Nat, half_open : Nat]
      /\ abandoned'.half_open >= abandoned.half_open
      /\ caller[c].permit = "half_open" => abandoned'.half_open > 0
  BY <1>0, <1>1, <1>2
<1>4. /\ caller' \in [Callers -> CallerStates] /\ CallsHavePermits'
      /\ \A d \in Callers : d # c => caller'[d] = caller[d]
  BY <1>1, IdleType, CallerMoves DEF Idle
<1>5. BreakerTypeOK'
  BY <1>1, <1>3, <1>4 DEF BreakerIInv, BreakerInv, BreakerTypeOK, CallerStates
<1>6. HalfOpenHasProbe'
  <2>0. entry'.state = "half_open" => entry'.probing
    BY <1>1 DEF BreakerIInv, BreakerInv, HalfOpenHasProbe
  <2>1. SUFFICES ASSUME entry'.state = "half_open", ~(abandoned'.half_open > 0)
                 PROVE  InFlight("half_open")' # {}
    BY <2>0 DEF HalfOpenHasProbe
  <2>2. caller[c].permit # "half_open" /\ ~(abandoned.half_open > 0)
    BY <2>1, <1>0, <1>3
  <2>3. InFlight("half_open") # {}
    BY <2>1, <2>2, <1>1 DEF BreakerIInv, BreakerInv, HalfOpenHasProbe
  <2>4. PICK d \in InFlight("half_open") : d \in Callers
    BY <2>3 DEF InFlight
  <2>5. d # c
    BY <2>2, <2>4 DEF InFlight
  <2>6. d \in InFlight("half_open")'
    BY <2>4, <2>5, <1>4 DEF InFlight
  <2> QED
    BY <2>3, <2>6, <1>1
<1>7. ClosedBelowThreshold'
  BY <1>1 DEF BreakerIInv, BreakerInv, ClosedBelowThreshold
<1> QED
  BY <1>4, <1>5, <1>6, <1>7 DEF BreakerIInv, BreakerInv

LEMMA DecideRetryInv ==
    ASSUME BreakerIInv, NEW c \in Callers, DecideRetry(c)
    PROVE  BreakerIInv'
<1> DEFINE again == [Idle EXCEPT !.attempt = caller[c].attempt + 1]
<1>0. caller \in [Callers -> CallerStates]
  BY DEF BreakerIInv, BreakerInv, BreakerTypeOK, CallerStates
<1> DEFINE new == IF /\ caller[c].result \in {"tracked", "invalid"}
                     /\ caller[c].attempt < MaxAttemptsPerTool
                     /\ entry.state # "open"
                    THEN again ELSE Idle
<1>1. caller' = [caller EXCEPT ![c] = new]
  BY <1>0 DEF DecideRetry
<1>2. new \in CallerStates /\ new.at = "idle"
  BY <1>0, IdleType, BreakerAssumption DEF CallerStates, Idle
<1>3. caller[c].at = "decide" /\ UNCHANGED <<entry, healthy, abandoned>>
  BY DEF DecideRetry
<1>4. /\ caller' \in [Callers -> CallerStates] /\ CallsHavePermits'
      /\ \A d \in Callers : d # c => caller'[d] = caller[d]
  BY <1>1, <1>2, CallerMoves
<1>5. BreakerTypeOK'
  BY <1>3, <1>4 DEF BreakerIInv, BreakerInv, BreakerTypeOK, CallerStates
<1>6. InFlight("half_open") \subseteq InFlight("half_open")'
  BY <1>3, <1>4 DEF InFlight
<1>7. HalfOpenHasProbe' /\ ClosedBelowThreshold'
  BY <1>3, <1>6 DEF BreakerIInv, BreakerInv, HalfOpenHasProbe, ClosedBelowThreshold
<1> QED
  BY <1>4, <1>5, <1>7 DEF BreakerIInv, BreakerInv

LEMMA BreakerNextInv == BreakerIInv /\ [BreakerNext]_breakerVars => BreakerIInv'
<1> SUFFICES ASSUME BreakerIInv, [BreakerNext]_breakerVars PROVE BreakerIInv'
  OBVIOUS
<1>1. ASSUME NEW c \in Callers, BeforeCall(c) \/ RecordResult(c) \/ Abandon(c) \/ DecideRetry(c)
      PROVE  BreakerIInv'
  BY <1>1, BeforeCallInv, RecordResultInv, AbandonInv, DecideRetryInv
<1>2. CASE RecoveryTimeout
  <2>1. /\ entry.state = "open" /\ entry' = [entry EXCEPT !.waited = TRUE]
        /\ UNCHANGED <<caller, healthy, abandoned>>
    BY <1>2 DEF RecoveryTimeout
  <2>2. BreakerTypeOK' /\ entry'.state = "open"
    BY <2>1 DEF BreakerIInv, BreakerInv, BreakerTypeOK
  <2> QED
    BY <2>1, <2>2 DEF BreakerIInv, BreakerInv, HalfOpenHasProbe, ClosedBelowThreshold, CallsHavePermits
<1>3. CASE ProviderChanges \/ UNCHANGED breakerVars
  <2>1. UNCHANGED <<entry, caller, abandoned>> /\ (healthy' = healthy \/ healthy' = ~healthy)
    BY <1>3 DEF ProviderChanges, breakerVars
  <2>2. InFlight("half_open")' = InFlight("half_open")
    BY <2>1 DEF InFlight
  <2> QED
    BY <2>1, <2>2 DEF BreakerIInv, BreakerInv, BreakerTypeOK, HalfOpenHasProbe, ClosedBelowThreshold, CallsHavePermits
<1> QED
  BY <1>1, <1>2, <1>3 DEF BreakerNext

\* For any number of sessions and any threshold: between any two of before_call
\* and record_result of any sessions, a half-open entry has its probe in flight
\* (or one that left by an exception), and a closed one is below the threshold.
THEOREM BreakerInvariant == BreakerSpec => []BreakerInv
<1>1. BreakerIInv => BreakerInv
  BY DEF BreakerIInv
<1> QED
  BY <1>1, BreakerInitInv, BreakerNextInv, PTL DEF BreakerSpec

----------------------------------------------------------------------------
(* The Redis client and its quotas.                                        *)

\* The only open pool is the manager's current client.
PoolIsCurrent == pools = {manager.client} \ {0}

\* A request under way works for a policy; a health check is not one.
RequestsHavePolicies ==
    /\ \A t \in Requesters : command[t].at # "idle" => command[t].policy \in Policies
    /\ command[Checker].at \in {"idle", "sent", "received"}

\* Requests the current window's counter has let through, which have not yet
\* heard of it.
Admitting(p) == {t \in Requesters : /\ command[t].at \in {"served", "received"} /\ command[t].policy = p
                                    /\ command[t].current # 0
                                    /\ Admits(p, command[t].current)}

\* What a window has admitted and will admit, its counter has counted, up to
\* the limit.
AdmissionsCounted ==
    \A p \in Policies :
        /\ quota[p].admitted + Cardinality(Admitting(p)) <= quota[p].count
        /\ quota[p].admitted + Cardinality(Admitting(p)) <= Limit[p]

Keys(p) == [count : 0..(Limit[p] + 1), expires : BOOLEAN, admitted : Nat]

GuardIInv ==
    /\ GuardTypeOK
    /\ DOMAIN quota = Policies /\ quota = [p \in Policies |-> quota[p]]
    /\ PoolIsCurrent /\ RequestsHavePolicies /\ AdmissionsCounted

Commands == [at : {"idle", "check", "sent", "served", "received"}, client : {0} \cup Clients,
             policy : {0} \cup Policies, current : 0..(Limit[1] + Limit[2] + 1)]

LEMMA PolicyFacts ==
    /\ Policies = 1..2 /\ Cardinality(Policies) = 2
    /\ Limit[1] \in Nat \ {0} /\ Limit[2] \in Nat \ {0}
    /\ \A p \in Policies : Limit[p] \in Nat \ {0} /\ Limit[p] <= Limit[1] + Limit[2]
<1>1. Policies = 1..2
  BY GuardAssumption DEF Policies
<1>2. Cardinality(1..2) = 2
  <2>1. 1 \in Int /\ 2 \in Int /\ ~(1 > 2) /\ 2 - 1 + 1 = 2
    OBVIOUS
  <2> QED
    BY <2>1, FS_Interval
<1> QED
  BY <1>1, <1>2, GuardAssumption

LEMMA ThreadsFinite ==
    /\ IsFiniteSet(GuardThreads) /\ Cardinality(GuardThreads) \in Nat
    /\ IsFiniteSet(Clients) /\ Cardinality(Clients) = Cardinality(GuardThreads) + 1
<1>1. IsFiniteSet(GuardThreads)
  BY GuardAssumption, FS_AddElement DEF GuardThreads
<1>2. Cardinality(GuardThreads) \in Nat
  BY <1>1, FS_CardinalityType
<1> QED
  BY <1>1, <1>2, FS_Interval DEF Clients

\* A number for a new pool is always free: the threads' commands hold one fewer
\* than there are.
LEMMA FreshClientExists ==
    ASSUME command \in [GuardThreads -> Commands], pools = {}
    PROVE  FreshClient \in Clients
<1> DEFINE f == [t \in GuardThreads |-> command[t].client]
           T == {command[t].client : t \in GuardThreads}
<1>1. f \in Surjection(GuardThreads, T)
  BY DEF Surjection
<1>2. IsFiniteSet(T) /\ Cardinality(T) <= Cardinality(GuardThreads)
  BY <1>1, ThreadsFinite, FS_Surjection, Zenon
<1>3. \E c \in Clients : c \notin T
  <2>1. SUFFICES ASSUME Clients \subseteq T PROVE FALSE
    OBVIOUS
  <2>2. Cardinality(Clients) <= Cardinality(T)
    BY <2>1, <1>2, FS_Subset
  <2>3. Cardinality(T) \in Nat
    BY <1>2, FS_CardinalityType
  <2> QED
    BY <2>2, <2>3, <1>2, ThreadsFinite
<1> QED
  BY <1>3 DEF FreshClient

LEMMA AdmittingFinite ==
    ASSUME NEW p PROVE IsFiniteSet(Admitting(p)) /\ Cardinality(Admitting(p)) \in Nat
BY GuardAssumption, FS_Subset, FS_CardinalityType DEF Admitting

LEMMA NoCommandType == NoCommand \in Commands
BY PolicyFacts DEF NoCommand, Commands

LEMMA PassedType ==
    ASSUME GuardIInv, NEW t \in GuardThreads, command[t].policy \in Policies
    PROVE  /\ Passed(t) \in Commands /\ Passed(t).at \in {"idle", "check"}
           /\ Passed(t).at # "idle" => Passed(t).policy \in Policies
<1>1. Passed(t) = NoCommand \/ (command[t].policy # 2 /\
                                Passed(t) = [NoCommand EXCEPT !.at = "check",
                                                 !.policy = command[t].policy + 1])
  BY PolicyFacts DEF Passed
<1>2. CASE Passed(t) = NoCommand
  BY <1>2, NoCommandType DEF NoCommand
<1>3. CASE Passed(t) # NoCommand
  <2>1. command[t].policy + 1 \in Policies
    BY <1>1, <1>3, PolicyFacts
  <2>2. Passed(t) = [NoCommand EXCEPT !.at = "check", !.policy = command[t].policy + 1]
    BY <1>1, <1>3
  <2> QED
    BY <2>1, <2>2, NoCommandType DEF NoCommand, Commands
<1> QED
  BY <1>2, <1>3

\* With or without fail_open, a request that could not ask goes on or ends.
LEMMA UnaskedType ==
    ASSUME GuardIInv, NEW t \in GuardThreads, command[t].policy \in Policies
    PROVE  /\ Unasked(t) \in Commands /\ Unasked(t).at \in {"idle", "check"}
           /\ Unasked(t).at # "idle" => Unasked(t).policy \in Policies
BY PassedType, NoCommandType DEF Unasked, NoCommand

\* A thread that gives up or goes on with a command that is not served yet
\* keeps the books of the quotas.
LEMMA UnservedMoves ==
    ASSUME GuardIInv, NEW t \in GuardThreads, NEW new \in Commands,
           t \in Requesters => new.at \in {"idle", "check", "sent"},
           t \in Requesters /\ new.at # "idle" => new.policy \in Policies,
           t = Checker => new.at \in {"idle", "sent", "received"},
           command' = [command EXCEPT ![t] = new], UNCHANGED quota
    PROVE  /\ command' \in [GuardThreads -> Commands]
           /\ RequestsHavePolicies' /\ AdmissionsCounted'
<1>0. command \in [GuardThreads -> Commands]
  BY DEF GuardIInv, GuardTypeOK, Commands
<1>1. command' \in [GuardThreads -> Commands]
  BY <1>0
<1>2. RequestsHavePolicies'
  BY <1>0, GuardAssumption DEF GuardIInv, RequestsHavePolicies, GuardThreads
<1>3. ASSUME NEW p \in Policies
      PROVE  Cardinality(Admitting(p)') <= Cardinality(Admitting(p)) /\ Cardinality(Admitting(p)') \in Nat
  <2>1. Admitting(p)' \subseteq Admitting(p)
    BY <1>0 DEF Admitting
  <2> QED
    BY <2>1, AdmittingFinite, FS_Subset, FS_CardinalityType
<1>4. AdmissionsCounted'
  <2>1. ASSUME NEW p \in Policies
        PROVE  /\ quota'[p].admitted + Cardinality(Admitting(p)') <= quota'[p].count
               /\ quota'[p].admitted + Cardinality(Admitting(p)') <= Limit[p]
    <3>1. quota[p] \in Keys(p)
      BY DEF GuardIInv, GuardTypeOK, Keys
    <3>2. /\ quota[p].admitted + Cardinality(Admitting(p)) <= quota[p].count
          /\ quota[p].admitted + Cardinality(Admitting(p)) <= Limit[p]
      BY DEF GuardIInv, AdmissionsCounted
    <3> QED
      BY <3>1, <3>2, <1>3, AdmittingFinite, PolicyFacts DEF Keys
  <2> QED
    BY <2>1 DEF AdmissionsCounted
<1> QED
  BY <1>1, <1>2, <1>4

LEMMA GuardInitInv == GuardInit => GuardIInv
<1> SUFFICES ASSUME GuardInit PROVE GuardIInv
  OBVIOUS
<1>1. command = [t \in GuardThreads |-> NoCommand] /\ quota = [p \in Policies |-> NoKey] /\ pools = {}
  BY DEF GuardInit
<1>2. \A p \in Policies : quota[p] \in Keys(p)
  BY <1>1, PolicyFacts DEF NoKey, Keys
<1>3. GuardTypeOK
  BY <1>1, <1>2, NoCommandType, GuardAssumption DEF GuardInit, GuardTypeOK, Commands, Keys
<1>4. PoolIsCurrent /\ RequestsHavePolicies
  BY <1>1 DEF GuardInit, PoolIsCurrent, RequestsHavePolicies, NoCommand, GuardThreads
<1>5. \A p \in Policies : Admitting(p) = {}
  BY <1>1 DEF Admitting, NoCommand, GuardThreads
<1>6. ASSUME NEW p \in Policies
      PROVE  quota[p].admitted = 0 /\ quota[p].count = 0 /\ Cardinality(Admitting(p)) = 0
  BY <1>1, <1>5, FS_EmptySet DEF NoKey
<1>7. AdmissionsCounted
  BY <1>6, PolicyFacts DEF AdmissionsCounted
<1> QED
  BY <1>1, <1>3, <1>4, <1>7 DEF GuardIInv

\* get_client: the current client, or a new one that becomes current.
LEMMA GetClientEffect ==
    ASSUME GuardIInv, NEW t \in GuardThreads, command[t].at \in {"idle", "check"},
           t \in Requesters => command[t].policy \in Policies,
           GetClient(t), UNCHANGED <<redis, quota, failOpen>>
    PROVE  GuardIInv'
<1> DEFINE c == IF manager.client = 0 THEN FreshClient ELSE manager.client
           new == [command[t] EXCEPT !.at = "sent", !.client = c]
<1>0. /\ command \in [GuardThreads -> Commands] /\ pools \subseteq Clients
      /\ manager \in [client : {0} \cup pools, cooling : BOOLEAN, degraded : BOOLEAN]
      /\ pools = {manager.client} \ {0}
  BY DEF GuardIInv, GuardTypeOK, Commands, PoolIsCurrent
<1>1. c \in Clients /\ (manager.client # 0 => c = manager.client)
  <2>1. CASE manager.client = 0
    BY <2>1, <1>0, FreshClientExists
  <2>2. CASE manager.client # 0
    BY <2>2, <1>0
  <2> QED
    BY <2>1, <2>2
<1>2. /\ manager' = [manager EXCEPT !.client = c] /\ pools' = pools \cup {c}
      /\ command' = [command EXCEPT ![t] = new]
  BY DEF GetClient
<1> HIDE DEF c
<1>3. new \in Commands /\ new.at = "sent" /\ new.policy = command[t].policy
  <2>1. command[t] \in Commands
    BY <1>0
  <2> QED
    BY <2>1, <1>1 DEF Commands
<1>4. /\ command' \in [GuardThreads -> Commands]
      /\ RequestsHavePolicies' /\ AdmissionsCounted'
  BY <1>2, <1>3, UnservedMoves
<1>5. c # 0 /\ pools' = {c} /\ manager'.client = c
  BY <1>0, <1>1, <1>2, ThreadsFinite DEF Clients
<1>6. GuardTypeOK'
  BY <1>0, <1>1, <1>2, <1>4, <1>5 DEF GuardIInv, GuardTypeOK, Commands
<1>7. PoolIsCurrent'
  BY <1>5 DEF PoolIsCurrent
<1> QED
  BY <1>4, <1>6, <1>7 DEF GuardIInv

\* The manager's bookkeeping after a command ended: the client stays current
\* and open, or is closed.
LEMMA ManagerEffect ==
    ASSUME GuardIInv, (MarkHealthy /\ UNCHANGED pools) \/ MarkDegraded \/ UNCHANGED <<manager, pools>>
    PROVE  /\ manager' \in [client : {0} \cup pools', cooling : BOOLEAN, degraded : BOOLEAN]
           /\ pools' \subseteq Clients /\ PoolIsCurrent'
<1>0. /\ pools \subseteq Clients /\ pools = {manager.client} \ {0}
      /\ manager \in [client : {0} \cup pools, cooling : BOOLEAN, degraded : BOOLEAN]
  BY DEF GuardIInv, GuardTypeOK, PoolIsCurrent
<1>1. CASE MarkHealthy /\ UNCHANGED pools
  BY <1>0, <1>1 DEF MarkHealthy, PoolIsCurrent
<1>2. CASE MarkDegraded
  BY <1>0, <1>2 DEF MarkDegraded, PoolIsCurrent
<1>3. CASE UNCHANGED <<manager, pools>>
  BY <1>0, <1>3 DEF PoolIsCurrent
<1> QED
  BY <1>1, <1>2, <1>3

\* A step that ends or goes on with a thread's command without an answer of the
\* script.
LEMMA UnservedStep ==
    ASSUME GuardIInv, NEW t \in GuardThreads, NEW new \in Commands,
           t \in Requesters => new.at \in {"idle", "check", "sent"},
           t \in Requesters /\ new.at # "idle" => new.policy \in Policies,
           t = Checker => new.at \in {"idle", "sent", "received"},
           command' = [command EXCEPT ![t] = new], UNCHANGED <<redis, quota, failOpen>>,
           (MarkHealthy /\ UNCHANGED pools) \/ MarkDegraded \/ UNCHANGED <<manager, pools>>
    PROVE  GuardIInv'
<1>1. /\ command' \in [GuardThreads -> Commands]
      /\ RequestsHavePolicies' /\ AdmissionsCounted'
  BY UnservedMoves
<1>2. /\ manager' \in [client : {0} \cup pools', cooling : BOOLEAN, degraded : BOOLEAN]
      /\ pools' \subseteq Clients /\ PoolIsCurrent'
  BY ManagerEffect
<1>3. GuardTypeOK'
  BY <1>1, <1>2 DEF GuardIInv, GuardTypeOK, Commands
<1> QED
  BY <1>1, <1>2, <1>3 DEF GuardIInv

\* The counter of a window that stays open, after the script has run for t: it
\* lets t through when it is still within the limit.
LEMMA ScriptRunsInv ==
    ASSUME GuardIInv, NEW t \in Requesters, ScriptRuns(t)
    PROVE  GuardIInv'
<1> DEFINE p == command[t].policy
           new == [command[t] EXCEPT !.at = "served", !.current = KeyCounted(p).count]
<1>0. /\ command \in [GuardThreads -> Commands] /\ t \in GuardThreads /\ t # Checker
      /\ command[t].at = "sent" /\ quota = [q \in Policies |-> quota[q]]
  BY GuardAssumption DEF GuardIInv, GuardTypeOK, Commands, GuardThreads, ScriptRuns
<1>1. p \in Policies
  BY <1>0 DEF GuardIInv, RequestsHavePolicies
<1>2. /\ quota' = [quota EXCEPT ![p] = KeyCounted(p)] /\ command' = [command EXCEPT ![t] = new]
      /\ UNCHANGED <<redis, manager, pools, failOpen>>
  BY DEF ScriptRuns
<1>3. \A q \in Policies : quota[q] \in Keys(q)
  BY DEF GuardIInv, GuardTypeOK, Keys
<1>4. /\ KeyCounted(p) \in Keys(p) /\ KeyCounted(p).admitted = quota[p].admitted
      /\ KeyCounted(p).count = IF quota[p].count > Limit[p] THEN quota[p].count ELSE quota[p].count + 1
  <2>1. quota[p] \in Keys(p) /\ Limit[p] \in Nat
    BY <1>1, <1>3, PolicyFacts
  <2> DEFINE n == IF quota[p].count > Limit[p] THEN quota[p].count ELSE quota[p].count + 1
             e == quota[p].expires \/ quota[p].count = 0
  <2>2. n \in 0..(Limit[p] + 1)
    BY <2>1 DEF Keys
  <2>3. e \in BOOLEAN
    BY Zenon
  <2>4. KeyCounted(p) = [quota[p] EXCEPT !.count = n, !.expires = e]
    BY DEF KeyCounted
  <2> HIDE DEF n, e
  <2>5. KeyCounted(p) \in Keys(p) /\ KeyCounted(p).admitted = quota[p].admitted /\ KeyCounted(p).count = n
    BY <2>1, <2>2, <2>3, <2>4 DEF Keys
  <2> QED
    BY <2>5 DEF n
<1> HIDE DEF p
<1>5. new \in Commands
  <2>1. KeyCounted(p).count \in 0..(Limit[1] + Limit[2] + 1)
    BY <1>1, <1>4, PolicyFacts DEF Keys
  <2>2. command[t] \in Commands
    BY <1>0
  <2> QED
    BY <2>1, <2>2 DEF Commands
<1>6. /\ command' \in [GuardThreads -> Commands] /\ command'[t] = new
      /\ \A u \in GuardThreads : u # t => command'[u] = command[u]
      /\ Requesters \subseteq GuardThreads
      /\ new.at = "served" /\ new.policy = p /\ new.current = KeyCounted(p).count
  BY <1>0, <1>2, <1>5 DEF Commands, p, GuardThreads
<1>7. /\ quota' = [q \in Policies |-> quota'[q]] /\ DOMAIN quota' = Policies
      /\ quota'[p] = KeyCounted(p) /\ \A q \in Policies : q # p => quota'[q] = quota[q]
  BY <1>0, <1>1, <1>2
<1>8. GuardTypeOK' /\ PoolIsCurrent'
  BY <1>2, <1>3, <1>4, <1>6, <1>7 DEF GuardIInv, GuardTypeOK, Commands, Keys, PoolIsCurrent
<1>9. RequestsHavePolicies'
  BY <1>0, <1>1, <1>6 DEF GuardIInv, RequestsHavePolicies, GuardThreads
<1>10. ASSUME NEW q \in Policies
       PROVE  /\ quota'[q].admitted + Cardinality(Admitting(q)') <= quota'[q].count
              /\ quota'[q].admitted + Cardinality(Admitting(q)') <= Limit[q]
  <2>0. /\ quota[q].admitted + Cardinality(Admitting(q)) <= quota[q].count
        /\ quota[q].admitted + Cardinality(Admitting(q)) <= Limit[q]
        /\ quota[q] \in Keys(q) /\ Limit[q] \in Nat /\ Cardinality(Admitting(q)) \in Nat
    BY <1>3, PolicyFacts, AdmittingFinite DEF GuardIInv, AdmissionsCounted
  <2>1. CASE q # p
    <3>1. Admitting(q)' = Admitting(q)
      BY <1>0, <1>6, <2>1 DEF Admitting, p
    <3> QED
      BY <2>0, <2>1, <3>1, <1>7
  <2>2. CASE q = p /\ quota[p].count >= Limit[p]
    <3>1. ~Admits(p, new.current)
      BY <2>0, <2>2, <1>4, <1>6 DEF Admits, Keys
    <3>2. Admitting(q)' = Admitting(q)
      BY <3>1, <1>0, <1>6, <2>2 DEF Admitting, Admits
    <3> QED
      BY <2>0, <2>2, <3>2, <1>4, <1>7 DEF Keys
  <2>3. CASE q = p /\ quota[p].count < Limit[p]
    <3>1. Admitting(q)' \subseteq Admitting(q) \cup {t}
      BY <1>0, <1>6 DEF Admitting, Admits
    <3>2. IsFiniteSet(Admitting(q) \cup {t}) /\ Cardinality(Admitting(q) \cup {t}) <= Cardinality(Admitting(q)) + 1
      <4>1. /\ IsFiniteSet(Admitting(q) \cup {t})
            /\ Cardinality(Admitting(q) \cup {t}) =
                  IF t \in Admitting(q) THEN Cardinality(Admitting(q)) ELSE Cardinality(Admitting(q)) + 1
        BY AdmittingFinite, FS_AddElement, Zenon
      <4> QED
        BY <4>1, <2>0
    <3>3. /\ Cardinality(Admitting(q)') <= Cardinality(Admitting(q)) + 1
          /\ Cardinality(Admitting(q)') \in Nat
      <4>1. Cardinality(Admitting(q) \cup {t}) \in Nat
        BY <3>2, FS_CardinalityType
      <4>2. IsFiniteSet(Admitting(q)') /\ Cardinality(Admitting(q)') <= Cardinality(Admitting(q) \cup {t})
        BY <3>1, <3>2, FS_Subset
      <4>3. Cardinality(Admitting(q)') \in Nat
        BY <4>2, FS_CardinalityType
      <4> QED
        BY <4>1, <4>2, <4>3, <3>2, <2>0
    <3> QED
      BY <2>0, <2>3, <3>3, <1>4, <1>7 DEF Keys
  <2> QED
    BY <2>1, <2>2, <2>3, <2>0 DEF Keys
<1> QED
  BY <1>7, <1>8, <1>9, <1>10 DEF GuardIInv, AdmissionsCounted

\* The reply is there: nothing is decided yet, and the books stay as they are.
LEMMA ReplyArrivesInv ==
    ASSUME GuardIInv, NEW t \in GuardThreads, ReplyArrives(t)
    PROVE  GuardIInv'
<1> DEFINE new == [command[t] EXCEPT !.at = "received", !.client = 0]
<1>0. command \in [GuardThreads -> Commands] /\ Requesters \subseteq GuardThreads
  BY DEF GuardIInv, GuardTypeOK, Commands, GuardThreads
<1>1. /\ command[t].at = (IF t = Checker THEN "sent" ELSE "served")
      /\ command' = [command EXCEPT ![t] = new]
      /\ UNCHANGED <<redis, manager, pools, quota, failOpen>>
  BY DEF ReplyArrives
<1>2. /\ new \in Commands /\ new.at = "received" /\ new.policy = command[t].policy
      /\ new.current = command[t].current
  <2>1. command[t] \in Commands
    BY <1>0
  <2> QED
    BY <2>1 DEF Commands
<1> HIDE DEF new
<1>3. /\ command' \in [GuardThreads -> Commands] /\ command'[t] = new
      /\ \A u \in GuardThreads : u # t => command'[u] = command[u]
  BY <1>0, <1>1, <1>2
<1>4. GuardTypeOK' /\ PoolIsCurrent'
  BY <1>1, <1>3 DEF GuardIInv, GuardTypeOK, Commands, PoolIsCurrent
<1>5. RequestsHavePolicies'
  <2>1. ASSUME NEW u \in Requesters, command'[u].at # "idle" PROVE command'[u].policy \in Policies
    <3>1. CASE u = t
      <4>1. t \in Requesters /\ t # Checker
        BY <3>1, GuardAssumption
      <4>2. command[t].at = "served"
        BY <4>1, <1>1
      <4> QED
        BY <3>1, <4>1, <4>2, <1>2, <1>3 DEF GuardIInv, RequestsHavePolicies
    <3>2. CASE u # t
      BY <2>1, <3>2, <1>0, <1>3 DEF GuardIInv, RequestsHavePolicies
    <3> QED
      BY <3>1, <3>2
  <2>2. command'[Checker].at \in {"idle", "sent", "received"}
    BY <1>2, <1>3 DEF GuardIInv, RequestsHavePolicies, GuardThreads
  <2> QED
    BY <2>1, <2>2 DEF RequestsHavePolicies
<1>6. ASSUME NEW q \in Policies PROVE Admitting(q)' = Admitting(q)
  <2>1. ASSUME NEW u \in Requesters
        PROVE  /\ command'[u].at \in {"served", "received"} <=> command[u].at \in {"served", "received"}
               /\ command'[u].policy = command[u].policy /\ command'[u].current = command[u].current
    <3>1. CASE u = t
      <4>1. command[t].at = "served"
        BY <3>1, <1>1, GuardAssumption
      <4> QED
        BY <3>1, <4>1, <1>2, <1>3
    <3>2. CASE u # t
      BY <3>2, <1>0, <1>3
    <3> QED
      BY <3>1, <3>2
  <2> QED
    BY <2>1 DEF Admitting, Admits
<1>7. AdmissionsCounted'
  BY <1>1, <1>6 DEF GuardIInv, AdmissionsCounted
<1> QED
  BY <1>1, <1>4, <1>5, <1>7 DEF GuardIInv

LEMMA AcquireAnsweredInv ==
    ASSUME GuardIInv, NEW t \in Requesters, AcquireAnswered(t)
    PROVE  GuardIInv'
<1> DEFINE p == command[t].policy
           passes == Admits(p, command[t].current)
           new == IF passes THEN Passed(t) ELSE NoCommand
<1>0. /\ command \in [GuardThreads -> Commands] /\ t \in GuardThreads /\ t # Checker
      /\ command[t].at = "received" /\ quota = [q \in Policies |-> quota[q]]
      /\ Requesters \subseteq GuardThreads
  BY GuardAssumption DEF GuardIInv, GuardTypeOK, Commands, GuardThreads, AcquireAnswered
<1>1. p \in Policies
  BY <1>0 DEF GuardIInv, RequestsHavePolicies
<1>2. /\ new \in Commands /\ new.at \in {"idle", "check"}
      /\ new.at # "idle" => new.policy \in Policies
  BY <1>0, <1>1, PassedType, NoCommandType DEF NoCommand
<1>3. /\ command' = [command EXCEPT ![t] = new] /\ UNCHANGED <<redis, pools, failOpen>> /\ MarkHealthy
      /\ quota' = IF passes /\ command[t].current # 0
                    THEN [quota EXCEPT ![p].admitted = @ + 1] ELSE quota
  BY DEF AcquireAnswered
<1> HIDE DEF new
<1>4. CASE ~(passes /\ command[t].current # 0)
  BY <1>0, <1>2, <1>3, <1>4, UnservedStep
<1>5. CASE passes /\ command[t].current # 0
  <2>1. /\ command' \in [GuardThreads -> Commands] /\ command'[t] = new
        /\ \A u \in GuardThreads : u # t => command'[u] = command[u]
    BY <1>0, <1>2, <1>3
  <2>2. \A q \in Policies : quota[q] \in Keys(q)
    BY DEF GuardIInv, GuardTypeOK, Keys
  <2>3. /\ quota' = [q \in Policies |-> quota'[q]] /\ DOMAIN quota' = Policies
        /\ quota'[p] = [quota[p] EXCEPT !.admitted = @ + 1]
        /\ \A q \in Policies : q # p => quota'[q] = quota[q]
    BY <1>0, <1>1, <1>3, <1>5
  <2>4. quota'[p] \in Keys(p) /\ quota'[p].admitted = quota[p].admitted + 1 /\ quota'[p].count = quota[p].count
    <3>1. quota[p] \in Keys(p)
      BY <1>1, <2>2
    <3> QED
      BY <2>3, <3>1 DEF Keys
  <2>5. /\ manager' \in [client : {0} \cup pools', cooling : BOOLEAN, degraded : BOOLEAN]
        /\ pools' \subseteq Clients /\ PoolIsCurrent'
    BY <1>3, ManagerEffect
  <2>6. \A q \in Policies : quota'[q] \in Keys(q)
    BY <2>2, <2>3, <2>4
  <2>7. GuardTypeOK'
    BY <1>3, <2>1, <2>5, <2>6 DEF GuardIInv, GuardTypeOK, Commands, Keys
  <2>8. RequestsHavePolicies'
    BY <1>0, <1>2, <2>1 DEF GuardIInv, RequestsHavePolicies, GuardThreads
  <2>9. ASSUME NEW q \in Policies
        PROVE  /\ quota'[q].admitted + Cardinality(Admitting(q)') <= quota'[q].count
               /\ quota'[q].admitted + Cardinality(Admitting(q)') <= Limit[q]
    <3>0. /\ quota[q].admitted + Cardinality(Admitting(q)) <= quota[q].count
          /\ quota[q].admitted + Cardinality(Admitting(q)) <= Limit[q]
          /\ quota[q] \in Keys(q) /\ Limit[q] \in Nat /\ Cardinality(Admitting(q)) \in Nat
      BY <2>2, PolicyFacts, AdmittingFinite DEF GuardIInv, AdmissionsCounted
    <3>1. CASE q # p
      <4>1. Admitting(q)' = Admitting(q)
        BY <1>0, <1>2, <2>1, <3>1 DEF Admitting, Admits
      <4> QED
        BY <3>0, <3>1, <4>1, <2>3
    <3>2. CASE q = p
      <4>1. t \in Admitting(q)
        BY <1>0, <1>5, <3>2 DEF Admitting
      <4>2. Admitting(q)' = Admitting(q) \ {t}
        BY <1>0, <1>2, <2>1 DEF Admitting, Admits
      <4>3. Cardinality(Admitting(q)') = Cardinality(Admitting(q)) - 1
        BY <4>1, <4>2, AdmittingFinite, FS_RemoveElement
      <4> QED
        BY <3>0, <3>2, <4>3, <2>4 DEF Keys
    <3> QED
      BY <3>1, <3>2
  <2> QED
    BY <2>3, <2>5, <2>7, <2>8, <2>9 DEF GuardIInv, AdmissionsCounted
<1> QED
  BY <1>4, <1>5

\* The key expires: its counts go, and so does the claim of the requests that
\* it has let through.
LEMMA WindowEndsInv ==
    ASSUME GuardIInv, NEW p \in Policies, WindowEnds(p)
    PROVE  GuardIInv'
<1>0. /\ command \in [GuardThreads -> Commands] /\ quota = [q \in Policies |-> quota[q]]
      /\ \A q \in Policies : quota[q] \in Keys(q)
  BY DEF GuardIInv, GuardTypeOK, Commands, Keys
<1>1. /\ quota' = [quota EXCEPT ![p] = NoKey] /\ command' = Forget(p)
      /\ UNCHANGED <<redis, manager, pools, failOpen>>
  BY DEF WindowEnds
<1>2. NoKey \in Keys(p) /\ NoKey.admitted = 0 /\ NoKey.count = 0
  BY PolicyFacts DEF NoKey, Keys
<1>3. /\ quota' = [q \in Policies |-> quota'[q]] /\ DOMAIN quota' = Policies
      /\ quota'[p] = NoKey /\ \A q \in Policies : q # p => quota'[q] = quota[q]
  BY <1>0, <1>1
<1>4. ASSUME NEW u \in GuardThreads
      PROVE  /\ command'[u] \in Commands
             /\ command'[u].at = command[u].at /\ command'[u].policy = command[u].policy
             /\ \/ command'[u] = command[u]
                \/ command[u].policy = p /\ command'[u].current = 0
             /\ command[u].at \in {"served", "received"} /\ command[u].policy = p =>
                   command'[u].current = 0 \/ ~Admits(p, command'[u].current)
  <2>1. command[u] \in Commands
    BY <1>0
  <2>2. command'[u] = IF command[u].at \in {"served", "received"} /\ command[u].policy = p
                         /\ Admits(p, command[u].current)
                      THEN [command[u] EXCEPT !.current = 0] ELSE command[u]
    BY <1>1 DEF Forget
  <2>3. 0 \in 0..(Limit[1] + Limit[2] + 1)
    BY PolicyFacts
  <2> QED
    BY <2>1, <2>2, <2>3 DEF Commands
<1>5. command' \in [GuardThreads -> Commands]
  BY <1>1, <1>4 DEF Forget
<1>6. GuardTypeOK' /\ PoolIsCurrent'
  BY <1>0, <1>1, <1>2, <1>3, <1>5 DEF GuardIInv, GuardTypeOK, Commands, Keys, PoolIsCurrent
<1>7. RequestsHavePolicies'
  BY <1>4 DEF GuardIInv, RequestsHavePolicies, GuardThreads
<1>8. ASSUME NEW q \in Policies
      PROVE  /\ quota'[q].admitted + Cardinality(Admitting(q)') <= quota'[q].count
             /\ quota'[q].admitted + Cardinality(Admitting(q)') <= Limit[q]
  <2>1. CASE q = p
    <3>1. Admitting(q)' = {}
      BY <2>1, <1>4 DEF Admitting, Admits, GuardThreads
    <3>2. Cardinality(Admitting(q)') = 0
      BY <3>1, FS_EmptySet
    <3> QED
      BY <2>1, <3>2, <1>2, <1>3, PolicyFacts
  <2>2. CASE q # p
    <3>1. Admitting(q)' = Admitting(q)
      BY <2>2, <1>4 DEF Admitting, Admits, GuardThreads
    <3> QED
      BY <2>2, <3>1, <1>3 DEF GuardIInv, AdmissionsCounted
  <2> QED
    BY <2>1, <2>2
<1> QED
  BY <1>3, <1>6, <1>7, <1>8 DEF GuardIInv, AdmissionsCounted

LEMMA RequestStepInv ==
    ASSUME GuardIInv, NEW t \in Requesters, RequestStep(t)
    PROVE  GuardIInv'
<1>0. /\ t \in GuardThreads /\ t # Checker /\ command \in [GuardThreads -> Commands]
      /\ command[t].at # "idle" => command[t].policy \in Policies
  BY GuardAssumption DEF GuardIInv, RequestsHavePolicies, GuardThreads, GuardTypeOK, Commands
<1>1. CASE BeginAcquire(t)
  <2> DEFINE new == [NoCommand EXCEPT !.at = "check", !.policy = 1]
  <2>1. new \in Commands /\ new.at = "check" /\ new.policy \in Policies
    <3>1. 1 \in Policies
      BY PolicyFacts
    <3> QED
      BY <3>1, NoCommandType DEF NoCommand, Commands
  <2>2. command' = [command EXCEPT ![t] = new] /\ UNCHANGED <<redis, manager, pools, quota, failOpen>>
    BY <1>1 DEF BeginAcquire
  <2> HIDE DEF new
  <2> QED
    BY <2>1, <2>2, <1>0, UnservedStep
<1>2. CASE AcquireBypassed(t)
  <2>1. /\ command' = [command EXCEPT ![t] = Unasked(t)]
        /\ UNCHANGED <<redis, manager, pools, quota, failOpen>>
        /\ command[t].policy \in Policies
    BY <1>0, <1>2 DEF AcquireBypassed
  <2> QED
    BY <2>1, <1>0, UnaskedType, UnservedStep
<1>3. CASE AcquireSent(t)
  BY <1>0, <1>3, GetClientEffect DEF AcquireSent
<1>4. CASE AcquireFails(t)
  <2>1. /\ command' = [command EXCEPT ![t] = Unasked(t)] /\ UNCHANGED <<redis, quota, failOpen>>
        /\ MarkDegraded /\ command[t].policy \in Policies
    BY <1>0, <1>4 DEF AcquireFails
  <2> QED
    BY <2>1, <1>0, UnaskedType, UnservedStep
<1> QED
  BY <1>0, <1>1, <1>2, <1>3, <1>4, ScriptRunsInv, ReplyArrivesInv, AcquireAnsweredInv DEF RequestStep

LEMMA GuardNextInv == GuardIInv /\ [GuardNext]_guardVars => GuardIInv'
<1> SUFFICES ASSUME GuardIInv, [GuardNext]_guardVars PROVE GuardIInv'
  OBVIOUS
<1>0. Checker \in GuardThreads /\ Checker \notin Requesters
  BY GuardAssumption DEF GuardThreads
<1>1. ASSUME NEW t \in Requesters, RequestStep(t) PROVE GuardIInv'
  BY <1>1, RequestStepInv
<1>2. CASE StartCheck
  BY <1>0, <1>2, GetClientEffect DEF StartCheck
<1>3. CASE CheckPasses \/ CheckFails
  <2>1. /\ command' = [command EXCEPT ![Checker] = NoCommand] /\ UNCHANGED <<redis, quota, failOpen>>
        /\ (MarkHealthy /\ UNCHANGED pools) \/ MarkDegraded
    BY <1>3 DEF CheckPasses, CheckFails
  <2>2. NoCommand.at = "idle"
    BY DEF NoCommand
  <2> QED
    BY <2>1, <2>2, <1>0, NoCommandType, UnservedStep
<1>4. ASSUME NEW p \in Policies, WindowEnds(p) PROVE GuardIInv'
  BY <1>4, WindowEndsInv
<1>5. CASE CooldownEnds \/ RedisFails \/ RedisReturns \/ UNCHANGED guardVars
  <2>1. /\ UNCHANGED <<pools, command, quota, failOpen>>
        /\ manager' = manager \/ manager' = [manager EXCEPT !.cooling = FALSE]
    BY <1>5 DEF CooldownEnds, RedisFails, RedisReturns, guardVars
  <2>2. redis' \in [up : BOOLEAN, outages : 0..MaxOutages]
    <3>0. redis \in [up : BOOLEAN, outages : 0..MaxOutages] /\ MaxOutages \in Nat
      BY GuardAssumption DEF GuardIInv, GuardTypeOK
    <3>1. CASE RedisFails
      BY <3>0, <3>1 DEF RedisFails
    <3>2. CASE RedisReturns
      BY <3>0, <3>2 DEF RedisReturns
    <3>3. CASE CooldownEnds \/ UNCHANGED guardVars
      BY <3>0, <3>3 DEF CooldownEnds, guardVars
    <3> QED
      BY <1>5, <3>1, <3>2, <3>3
  <2>3. GuardTypeOK'
    BY <2>1, <2>2 DEF GuardIInv, GuardTypeOK
  <2>4. PoolIsCurrent'
    BY <2>1 DEF GuardIInv, GuardTypeOK, PoolIsCurrent
  <2>5. \A p \in Policies : Admitting(p)' = Admitting(p)
    BY <2>1 DEF Admitting, Admits
  <2> QED
    BY <2>1, <2>3, <2>4, <2>5 DEF GuardIInv, RequestsHavePolicies, AdmissionsCounted
<1> QED
  BY <1>0, <1>1, <1>2, <1>3, <1>4, <1>5, ReplyArrivesInv DEF GuardNext

\* For any number of threads, limits and outages: the client the manager hands
\* out is open, and a window admits no more requests than its limit, however
\* answers, failures and the end of the window interleave.
THEOREM GuardInvariant == GuardSpec => []GuardInv
<1>1. GuardIInv => GuardInv
  <2> SUFFICES ASSUME GuardIInv PROVE QuotaHolds
    BY DEF GuardIInv, GuardInv
  <2>2. ASSUME NEW p \in Policies PROVE quota[p].admitted <= Limit[p]
    <3>1. quota[p].admitted \in Nat
      BY DEF GuardIInv, GuardTypeOK
    <3>2. quota[p].admitted + Cardinality(Admitting(p)) <= Limit[p]
      BY DEF GuardIInv, AdmissionsCounted
    <3>3. Cardinality(Admitting(p)) \in Nat /\ Limit[p] \in Nat
      BY AdmittingFinite, PolicyFacts
    <3> QED
      BY <3>1, <3>2, <3>3
  <2> QED
    BY <2>2 DEF QuotaHolds
<1> QED
  BY <1>1, GuardInitInv, GuardNextInv, PTL DEF GuardSpec

----------------------------------------------------------------------------
(* The layered cache.                                                      *)

\* How long an answer of a kind is kept.
KeptFor(value) == IF value = "unavailable" THEN UnavailableTtl ELSE AnswerTtl

Results == {"ok", "unavailable"}

CacheEntries == [value : {"none", "ok", "unavailable", "old"}, age : Nat, left : Nat]

Readers ==
    [at : {"idle", "l1", "l2", "evict", "purge", "backfill", "provider", "store_l1", "store_l2",
           "answered"},
     value : {"none"} \cup Results, age : Nat, left : Nat, wait : 0..MaxDelay]

\* Age and remaining time add up to the ttl and the delay of the writer for a row;
\* for an entry in Redis, to that, the delay of the copier and what the minimum ttl
\* may add to a copy.
RowOK(e) ==
    /\ e \in CacheEntries /\ e.value # "old"
    /\ e.value # "none" => e.age + e.left <= KeptFor(e.value) + MaxDelay

CopyEnds(value) == KeptFor(value) + 2 * MaxDelay + (MinTtl - 1)

RedisOK(e) ==
    /\ e \in CacheEntries
    /\ e.value \in Results => e.left > 0 /\ e.age + e.left <= CopyEnds(e.value)

ReaderOK(q) ==
    /\ q \in Readers
    /\ q.at \in {"idle", "l1", "l2", "evict", "purge", "provider"} => q.value = "none" /\ q.age = 0
    /\ q.at \in {"backfill", "store_l1", "store_l2", "answered"} => q.value \in Results
    /\ q.at = "backfill" => /\ q.left > 0
                            /\ q.age + q.left <= KeptFor(q.value) + MaxDelay + q.wait
    /\ q.at = "store_l2" => q.age <= q.wait
    /\ q.at = "store_l1" => q.age <= MaxDelay + q.wait
    /\ q.at = "answered" => q.age <= 2 * MaxDelay \/ q.age < CopyEnds(q.value)

CacheIInv ==
    /\ domain \in Domains
    /\ RedisOK(l1) /\ RowOK(l2)
    /\ reader \in [Sessions -> Readers] /\ \A s \in Sessions : ReaderOK(reader[s])
    /\ domain # "route" => /\ l1.value # "unavailable" /\ l2.value # "unavailable"
                           /\ \A s \in Sessions : reader[s].value # "unavailable"

LEMMA CacheBounds ==
    /\ AnswerTtl \in Nat /\ UnavailableTtl \in Nat /\ MaxDelay \in Nat
    /\ MinTtl \in Nat /\ MinTtl > 0 /\ MaxTtl \in Nat /\ MinTtl <= MaxTtl
    /\ \A v : KeptFor(v) \in Nat /\ CopyEnds(v) \in Nat
    /\ \A v : CopyEnds(v) = KeptFor(v) + 2 * MaxDelay + (MinTtl - 1)
<1>1. /\ AnswerTtl \in Nat /\ UnavailableTtl \in Nat /\ MaxDelay \in Nat
      /\ MinTtl \in Nat /\ MinTtl > 0 /\ MaxTtl \in Nat /\ MinTtl <= MaxTtl
  BY CacheAssumption
<1>2. \A v : KeptFor(v) \in Nat
  BY <1>1 DEF KeptFor
<1> QED
  BY <1>1, <1>2 DEF CopyEnds

LEMMA CacheIInvImplies ==
    ASSUME CacheIInv
    PROVE  CacheInv
<1>1. ASSUME NEW s \in Sessions
      PROVE  /\ reader[s].at \in {"idle", "l1", "l2", "evict", "purge", "backfill", "provider",
                                  "store_l1", "store_l2", "answered"}
             /\ reader[s].value \in {"none", "ok", "unavailable"} /\ reader[s].age \in Nat
             /\ reader[s].at = "answered" =>
                   reader[s].age <= 2 * MaxDelay \/ reader[s].age < CopyEnds(reader[s].value)
  BY <1>1 DEF CacheIInv, ReaderOK, Readers, Results
<1>2. CacheTypeOK
  BY <1>1 DEF CacheTypeOK, CacheIInv, RedisOK, RowOK, CacheEntries
<1>3. ServedInTime
  BY <1>1 DEF ServedInTime, CopyEnds, KeptFor
<1>4. ServedIsCurrent
  BY <1>1 DEF ServedIsCurrent
<1>5. OnlyRoutesFail
  BY DEF OnlyRoutesFail, CacheIInv
<1> QED
  BY <1>2, <1>3, <1>4, <1>5 DEF CacheInv

LEMMA CacheInitInv ==
    ASSUME CacheInit
    PROVE  CacheIInv
<1>1. MaxTtl \in Nat /\ MaxDelay \in Nat
  BY CacheAssumption
<1>2. ASSUME NEW e \in {NoEntry, [value |-> "old", age |-> 0, left |-> MaxTtl]}
      PROVE  RedisOK(e) /\ e.value # "unavailable"
  BY <1>1, <1>2 DEF RedisOK, CacheEntries, NoEntry, Results
<1>3. RowOK(NoEntry) /\ NoEntry.value = "none"
  BY DEF RowOK, CacheEntries, NoEntry
<1>4. ReaderOK(Resting) /\ Resting \in Readers /\ Resting.value = "none"
  BY <1>1 DEF ReaderOK, Readers, Resting
<1> QED
  BY <1>2, <1>3, <1>4 DEF CacheIInv, CacheInit

\* A step of one session keeps the invariant when what it holds, and what it
\* leaves in either layer, is in time and of a kind its domain allows.
LEMMA SessionMoves ==
    ASSUME CacheIInv, NEW s \in Sessions, NEW q, ReaderOK(q), UNCHANGED domain,
           reader' = [reader EXCEPT ![s] = q],
           l1' = l1 \/ RedisOK(l1'), l2' = l2 \/ RowOK(l2'),
           domain # "route" => /\ q.value # "unavailable"
                               /\ l1' = l1 \/ l1'.value # "unavailable"
                               /\ l2' = l2 \/ l2'.value # "unavailable"
    PROVE  CacheIInv'
<1>1. q \in Readers
  BY DEF ReaderOK
<1>2. /\ reader \in [Sessions -> Readers] /\ domain' \in Domains
      /\ RedisOK(l1') /\ RowOK(l2')
  BY DEF CacheIInv
<1>3. /\ reader' \in [Sessions -> Readers] /\ reader'[s] = q
      /\ \A u \in Sessions \ {s} : reader'[u] = reader[u]
  BY <1>1, <1>2
<1>4. \A u \in Sessions : ReaderOK(reader'[u])
  BY <1>3 DEF CacheIInv
<1>5. domain' # "route" => /\ l1'.value # "unavailable" /\ l2'.value # "unavailable"
                           /\ \A u \in Sessions : reader'[u].value # "unavailable"
  BY <1>3 DEF CacheIInv
<1> QED
  BY <1>2, <1>3, <1>4, <1>5 DEF CacheIInv

\* Moving on without an answer.
LEMMA SessionGoes ==
    ASSUME CacheIInv, NEW s \in Sessions,
           NEW at \in {"l1", "l2", "evict", "purge", "provider"},
           reader[s].at \in {"idle", "l1", "l2", "evict", "purge"},
           To(s, at), UNCHANGED domain,
           l1' = l1 \/ l1' = NoEntry, l2' = l2 \/ l2' = NoEntry
    PROVE  CacheIInv'
<1> DEFINE q == [reader[s] EXCEPT !.at = at, !.wait = 0]
<1>1. reader[s] \in Readers /\ ReaderOK(reader[s])
  BY DEF CacheIInv
<1>2. reader[s].value = "none" /\ reader[s].age = 0
  BY <1>1 DEF ReaderOK
<1>3. /\ q \in Readers /\ q.at = at /\ q.value = reader[s].value /\ q.age = reader[s].age
  <2>1. 0 \in 0..MaxDelay
    BY CacheAssumption
  <2> QED
    BY <1>1, <2>1 DEF Readers
<1>4. reader' = [reader EXCEPT ![s] = q]
  BY DEF To
<1> HIDE DEF q
<1>5. ReaderOK(q)
  BY <1>2, <1>3 DEF ReaderOK
<1>6. RedisOK(NoEntry) /\ RowOK(NoEntry) /\ NoEntry.value = "none"
  BY DEF RedisOK, RowOK, NoEntry, CacheEntries, Results
<1> QED
  BY <1>2, <1>3, <1>4, <1>5, <1>6, SessionMoves

LEMMA ReadL1Inv ==
    ASSUME CacheIInv, NEW s \in Sessions, ReadL1(s)
    PROVE  CacheIInv'
<1>1. reader[s].at = "l1" /\ UNCHANGED <<domain, l1, l2>>
  BY DEF ReadL1
<1>2. ASSUME NEW at \in {"l2", "evict", "provider"}, To(s, at) PROVE CacheIInv'
  BY <1>1, <1>2, SessionGoes
<1>3. CASE Usable(l1) /\ Hold(s, "answered", l1)
  <2> DEFINE q == [at |-> "answered", value |-> l1.value, age |-> l1.age, left |-> l1.left,
                   wait |-> 0]
  <2>1. RedisOK(l1) /\ l1.value \in Results
    BY <1>3 DEF CacheIInv, Usable, Results
  <2>2. l1 \in CacheEntries /\ l1.left > 0 /\ l1.age + l1.left <= CopyEnds(l1.value)
    BY <2>1 DEF RedisOK
  <2>3. l1.age \in Nat /\ l1.left \in Nat /\ CopyEnds(l1.value) \in Nat /\ MaxDelay \in Nat
    BY <2>2, CacheBounds DEF CacheEntries
  <2>5. l1.age < CopyEnds(l1.value)
    BY <2>2, <2>3
  <2>6. /\ q \in Readers /\ q.at = "answered" /\ q.value = l1.value /\ q.age = l1.age
    BY <2>1, <2>3 DEF Readers
  <2>7. reader' = [reader EXCEPT ![s] = q]
    BY <1>3 DEF Hold
  <2> HIDE DEF q
  <2>8. ReaderOK(q)
    BY <2>1, <2>5, <2>6 DEF ReaderOK
  <2>9. domain # "route" => q.value # "unavailable"
    BY <2>6 DEF CacheIInv
  <2> QED
    BY <1>1, <2>7, <2>8, <2>9, SessionMoves
<1> QED
  BY <1>2, <1>3 DEF ReadL1, AfterL1

LEMMA ReadL2Inv ==
    ASSUME CacheIInv, NEW s \in Sessions, ReadL2(s)
    PROVE  CacheIInv'
<1>1. reader[s].at = "l2" /\ UNCHANGED <<domain, l1, l2>>
  BY DEF ReadL2
<1>2. ASSUME NEW at \in {"purge", "provider"}, To(s, at) PROVE CacheIInv'
  BY <1>1, <1>2, SessionGoes
<1>3. CASE l2.value # "none" /\ l2.left > 0 /\ Hold(s, "backfill", l2)
  <2> DEFINE q == [at |-> "backfill", value |-> l2.value, age |-> l2.age, left |-> l2.left,
                   wait |-> 0]
  <2>1. RowOK(l2) /\ l2 # NoEntry /\ l2 \in CacheEntries
    BY <1>3 DEF CacheIInv, RowOK, NoEntry
  <2>2. l2.value \in Results
    BY <1>3, <2>1 DEF RowOK, CacheEntries, Results
  <2>3. l2.age \in Nat /\ l2.left \in Nat /\ MaxDelay \in Nat /\ KeptFor(l2.value) \in Nat
    BY <2>1, CacheBounds DEF CacheEntries
  <2>4. l2.age + l2.left <= KeptFor(l2.value) + MaxDelay
    BY <1>3, <2>1 DEF RowOK
  <2>5. l2.age + l2.left <= KeptFor(l2.value) + MaxDelay + 0
    BY <2>3, <2>4
  <2>6. /\ q \in Readers /\ q.at = "backfill" /\ q.value = l2.value /\ q.age = l2.age
        /\ q.left = l2.left /\ q.wait = 0
    BY <2>2, <2>3 DEF Readers
  <2>7. reader' = [reader EXCEPT ![s] = q]
    BY <1>3 DEF Hold
  <2> HIDE DEF q
  <2>8. ReaderOK(q)
    BY <1>3, <2>2, <2>5, <2>6 DEF ReaderOK
  <2>9. domain # "route" => q.value # "unavailable"
    BY <2>6 DEF CacheIInv
  <2> QED
    BY <1>1, <2>7, <2>8, <2>9, SessionMoves
<1> QED
  BY <1>2, <1>3 DEF ReadL2

LEMMA StoredEntry ==
    ASSUME NEW value, NEW age, NEW ttl
    PROVE  /\ Stored(value, age, ttl).value = value /\ Stored(value, age, ttl).age = age
           /\ Stored(value, age, ttl).left = ttl
           /\ value # "none" => Stored(value, age, ttl) # NoEntry
           /\ value \in Results /\ age \in Nat /\ ttl \in Nat => Stored(value, age, ttl) \in CacheEntries
BY DEF Stored, NoEntry, Results, CacheEntries

LEMMA ResolvedBounds ==
    ASSUME NEW ttl \in Nat
    PROVE  /\ ResolvedTtl(ttl) \in Nat
           /\ ttl > 0 => ResolvedTtl(ttl) > 0 /\ ResolvedTtl(ttl) <= ttl + (MinTtl - 1)
           /\ ttl = 0 => ResolvedTtl(ttl) = 0
<1>1. MinTtl \in Nat /\ MinTtl > 0 /\ MaxTtl \in Nat /\ MinTtl <= MaxTtl
  BY CacheAssumption
<1> QED
  BY <1>1 DEF ResolvedTtl

\* The time an answer spends with the session counts: a copy is not younger.
LEMMA StoresInTime ==
    ASSUME NEW value \in Results, NEW age \in Nat, NEW ttl \in Nat
    PROVE  /\ ttl > 0 /\ age + ttl <= CopyEnds(value) => RedisOK(Stored(value, age, ttl))
           /\ age + ttl <= KeptFor(value) + MaxDelay => RowOK(Stored(value, age, ttl))
<1> DEFINE e == Stored(value, age, ttl)
<1>1. e.value = value /\ e.age = age /\ e.left = ttl /\ e \in CacheEntries
      /\ value # "none" /\ value # "old"
  BY StoredEntry DEF Results
<1> HIDE DEF e
<1> QED
  BY <1>1 DEF RedisOK, RowOK, e

LEMMA BackfillInv ==
    ASSUME CacheIInv, NEW s \in Sessions, Backfill(s)
    PROVE  CacheIInv'
<1> DEFINE r == reader[s]
           q == [r EXCEPT !.at = "answered", !.wait = 0]
           ttl == ResolvedTtl(r.left)
<1>1. r.at = "backfill" /\ UNCHANGED <<domain, l2>> /\ r \in Readers /\ ReaderOK(r)
      /\ l1' \in {l1, Stored(r.value, r.age, ttl)} /\ reader' = [reader EXCEPT ![s] = q]
  BY DEF Backfill, BackfillTtl, To, CacheIInv
<1>2. r.age \in Nat /\ r.left \in Nat /\ r.wait \in 0..MaxDelay /\ MaxDelay \in Nat
      /\ KeptFor(r.value) \in Nat /\ MinTtl \in Nat /\ MinTtl > 0
      /\ CopyEnds(r.value) = KeptFor(r.value) + 2 * MaxDelay + (MinTtl - 1)
  BY <1>1, CacheBounds DEF Readers
<1>3. /\ r.value \in Results /\ r.left > 0
      /\ r.age + r.left <= KeptFor(r.value) + MaxDelay + r.wait
  BY <1>1 DEF ReaderOK
<1>4. ttl \in Nat /\ ttl > 0 /\ ttl <= r.left + (MinTtl - 1)
  BY <1>2, <1>3, ResolvedBounds
<1>5. q \in Readers /\ q.at = "answered" /\ q.value = r.value /\ q.age = r.age
  <2>1. 0 \in 0..MaxDelay
    BY <1>2
  <2> QED
    BY <1>1, <2>1 DEF Readers
<1> HIDE DEF q, ttl
<1>6. r.age + ttl <= CopyEnds(r.value) /\ r.age < CopyEnds(r.value)
  BY <1>2, <1>3, <1>4
<1>7. RedisOK(Stored(r.value, r.age, ttl)) /\ Stored(r.value, r.age, ttl).value = r.value
  BY <1>2, <1>3, <1>4, <1>6, StoresInTime, StoredEntry
<1>8. ReaderOK(q)
  BY <1>3, <1>5, <1>6 DEF ReaderOK
<1>9. domain # "route" => r.value # "unavailable"
  BY DEF CacheIInv
<1> QED
  BY <1>1, <1>5, <1>7, <1>8, <1>9, SessionMoves

LEMMA RestingInv ==
    ASSUME CacheIInv, NEW s \in Sessions,
           reader' = [reader EXCEPT ![s] = Resting], UNCHANGED <<domain, l1, l2>>
    PROVE  CacheIInv'
<1>1. ReaderOK(Resting) /\ Resting.value = "none"
  BY CacheBounds DEF ReaderOK, Readers, Resting
<1> QED
  BY <1>1, SessionMoves

LEMMA CallProviderInv ==
    ASSUME CacheIInv, NEW s \in Sessions, CallProvider(s)
    PROVE  CacheIInv'
<1>1. UNCHANGED <<domain, l1, l2>>
  BY DEF CallProvider
<1>2. PICK kind :
          \/ Raises(kind) /\ reader' = [reader EXCEPT ![s] = Resting]
          \/ ~Raises(kind) /\ Hold(s, StoreFirst,
                  Stored(IF kind = "none" THEN "ok" ELSE "unavailable", 0, 0))
  BY DEF CallProvider
<1>3. CASE reader' = [reader EXCEPT ![s] = Resting]
  BY <1>1, <1>3, RestingInv
<1>4. CASE ~Raises(kind) /\ Hold(s, StoreFirst,
                  Stored(IF kind = "none" THEN "ok" ELSE "unavailable", 0, 0))
  <2> DEFINE value == IF kind = "none" THEN "ok" ELSE "unavailable"
             at == StoreFirst
             q == [at |-> at, value |-> value, age |-> 0, left |-> 0, wait |-> 0]
  <2>1. value \in Results /\ at \in {"store_l1", "store_l2"}
    BY DEF Results, StoreFirst
  <2>2. domain # "route" => value # "unavailable"
    BY <1>4 DEF Raises
  <2>3. reader' = [reader EXCEPT ![s] = q]
    BY <1>4 DEF Hold, Stored
  <2> HIDE DEF value, at
  <2>4. q \in Readers /\ q.at = at /\ q.value = value /\ q.age = 0 /\ q.wait = 0 /\ MaxDelay \in Nat
    BY <2>1, CacheBounds DEF Readers
  <2> HIDE DEF q
  <2>5. ReaderOK(q)
    BY <2>1, <2>4 DEF ReaderOK
  <2> QED
    BY <1>1, <2>2, <2>3, <2>4, <2>5, SessionMoves
<1> QED
  BY <1>2, <1>3, <1>4

LEMMA StoreL2Inv ==
    ASSUME CacheIInv, NEW s \in Sessions, StoreL2(s)
    PROVE  CacheIInv'
<1> DEFINE r == reader[s]
           q == [r EXCEPT !.at = "store_l1", !.wait = 0]
           ttl == TtlOf(r.value)
           e == Stored(r.value, r.age, ttl)
<1>1. r.at = "store_l2" /\ UNCHANGED <<domain, l1>> /\ r \in Readers /\ ReaderOK(r)
      /\ l2' \in {l2} \cup {x \in {e} : x.left > 0} /\ reader' = [reader EXCEPT ![s] = q]
  BY DEF StoreL2, To, CacheIInv
<1>2. r.age \in Nat /\ r.left \in Nat /\ r.wait \in 0..MaxDelay /\ MaxDelay \in Nat
  BY <1>1, CacheBounds DEF Readers
<1>3. r.value \in Results /\ r.age <= r.wait
  BY <1>1 DEF ReaderOK
<1>4. ttl = KeptFor(r.value) /\ ttl \in Nat
  BY CacheBounds DEF TtlOf, KeptFor
<1>5. q \in Readers /\ q.at = "store_l1" /\ q.value = r.value /\ q.age = r.age /\ q.wait = 0
  <2>1. 0 \in 0..MaxDelay
    BY <1>2
  <2> QED
    BY <1>1, <2>1 DEF Readers
<1> HIDE DEF q, ttl
<1>6. r.age + ttl <= KeptFor(r.value) + MaxDelay /\ r.age <= MaxDelay + 0
  BY <1>2, <1>3, <1>4
<1>7. RowOK(e) /\ e.value = r.value
  BY <1>2, <1>3, <1>4, <1>6, StoresInTime, StoredEntry
<1>8. ReaderOK(q)
  BY <1>3, <1>5, <1>6 DEF ReaderOK
<1>9. domain # "route" => r.value # "unavailable"
  BY DEF CacheIInv
<1>10. l2' = l2 \/ l2' = e
  BY <1>1
<1> HIDE DEF e
<1> QED
  BY <1>1, <1>5, <1>7, <1>8, <1>9, <1>10, SessionMoves

LEMMA StoreL1Inv ==
    ASSUME CacheIInv, NEW s \in Sessions, StoreL1(s)
    PROVE  CacheIInv'
<1> DEFINE r == reader[s]
           q == [r EXCEPT !.at = "answered", !.wait = 0]
           ttl == ResolvedTtl(TtlOf(r.value))
           e == Stored(r.value, r.age, ttl)
<1>1. r.at = "store_l1" /\ UNCHANGED <<domain, l2>> /\ r \in Readers /\ ReaderOK(r)
      /\ l1' \in {l1} \cup {x \in {e} : x.left > 0} /\ reader' = [reader EXCEPT ![s] = q]
  BY DEF StoreL1, To, CacheIInv
<1>2. r.age \in Nat /\ r.left \in Nat /\ r.wait \in 0..MaxDelay /\ MaxDelay \in Nat
  BY <1>1, CacheBounds DEF Readers
<1>3. r.value \in Results /\ r.age <= MaxDelay + r.wait
  BY <1>1 DEF ReaderOK
<1>4. /\ TtlOf(r.value) = KeptFor(r.value) /\ KeptFor(r.value) \in Nat
      /\ MinTtl \in Nat /\ MinTtl > 0
      /\ CopyEnds(r.value) = KeptFor(r.value) + 2 * MaxDelay + (MinTtl - 1)
  BY CacheBounds DEF TtlOf, KeptFor
<1>5. ttl \in Nat /\ (ttl > 0 => ttl <= KeptFor(r.value) + (MinTtl - 1))
  BY <1>4, ResolvedBounds
<1>6. q \in Readers /\ q.at = "answered" /\ q.value = r.value /\ q.age = r.age
  <2>1. 0 \in 0..MaxDelay
    BY <1>2
  <2> QED
    BY <1>1, <2>1 DEF Readers
<1> HIDE DEF q, ttl
<1>7. r.age <= 2 * MaxDelay /\ (ttl > 0 => r.age + ttl <= CopyEnds(r.value))
  BY <1>2, <1>3, <1>4, <1>5
<1>8. e.value = r.value /\ e.left = ttl /\ (e.left > 0 => RedisOK(e))
  BY <1>2, <1>3, <1>5, <1>7, StoresInTime, StoredEntry
<1>9. ReaderOK(q)
  BY <1>3, <1>6, <1>7 DEF ReaderOK
<1>10. domain # "route" => r.value # "unavailable"
  BY DEF CacheIInv
<1>11. l1' = l1 \/ (l1' = e /\ e.left > 0)
  BY <1>1
<1> HIDE DEF e
<1> QED
  BY <1>1, <1>6, <1>8, <1>9, <1>10, <1>11, SessionMoves

LEMMA TickInv ==
    ASSUME CacheIInv, Tick
    PROVE  CacheIInv'
<1>1. MaxDelay \in Nat /\ (\A v : KeptFor(v) \in Nat /\ CopyEnds(v) \in Nat) /\ RedisOK(l1) /\ RowOK(l2)
  BY CacheBounds DEF CacheIInv
<1>2. /\ l1' = Older(l1) /\ l2' = OlderRow(l2) /\ domain' = domain
      /\ reader' = [s \in Sessions |->
                       IF ~Busy(s) THEN reader[s]
                       ELSE [reader[s] EXCEPT !.wait = @ + 1,
                                !.age = IF reader[s].value = "none" THEN @ ELSE @ + 1]]
      /\ \A s \in Sessions : Busy(s) => reader[s].wait < MaxDelay
  BY DEF Tick
<1>3. NoEntry \in CacheEntries
  BY DEF NoEntry, CacheEntries
<1>4. ASSUME NEW e \in CacheEntries, e.left > 0
      PROVE  LET f == [e EXCEPT !.age = @ + 1, !.left = @ - 1]
             IN  /\ f \in CacheEntries /\ f.value = e.value /\ f.left = e.left - 1
                 /\ f.age + f.left = e.age + e.left
  <2> DEFINE f == [e EXCEPT !.age = @ + 1, !.left = @ - 1]
  <2>1. e.age \in Nat /\ e.left \in Nat /\ e.age + 1 \in Nat /\ e.left - 1 \in Nat
    BY <1>4 DEF CacheEntries
  <2>2. f \in CacheEntries /\ f.value = e.value /\ f.left = e.left - 1 /\ f.age = e.age + 1
    BY <2>1 DEF CacheEntries
  <2> HIDE DEF f
  <2> QED
    BY <2>1, <2>2 DEF f
<1>5. RedisOK(l1') /\ (l1'.value # "unavailable" \/ l1'.value = l1.value)
  <2>1. CASE l1.left > 1
    <3> DEFINE f == [l1 EXCEPT !.age = @ + 1, !.left = @ - 1]
    <3>1. l1 \in CacheEntries /\ l1.left \in Nat /\ l1.left > 0
      BY <1>1, <2>1 DEF RedisOK, CacheEntries
    <3>2. /\ f \in CacheEntries /\ f.value = l1.value /\ f.left = l1.left - 1
          /\ f.age + f.left = l1.age + l1.left
      BY <1>4, <3>1
    <3>3. l1' = f
      BY <1>2, <2>1 DEF Older
    <3> HIDE DEF f
    <3>4. f.left > 0
      BY <2>1, <3>1, <3>2
    <3> QED
      BY <1>1, <3>2, <3>3, <3>4 DEF RedisOK
  <2>2. CASE ~(l1.left > 1)
    <3>1. l1' = NoEntry /\ NoEntry.value = "none"
      BY <1>2, <2>2 DEF Older, NoEntry
    <3> QED
      BY <1>3, <3>1 DEF RedisOK, Results
  <2> QED
    BY <2>1, <2>2
<1>6. RowOK(l2') /\ l2'.value = l2.value
  <2>1. CASE l2.left > 0
    <3> DEFINE f == [l2 EXCEPT !.age = @ + 1, !.left = @ - 1]
    <3>1. f \in CacheEntries /\ f.value = l2.value /\ f.age + f.left = l2.age + l2.left
      BY <1>1, <1>4, <2>1 DEF RowOK
    <3>2. l2' = f
      BY <1>2, <2>1 DEF OlderRow
    <3> HIDE DEF f
    <3> QED
      BY <1>1, <3>1, <3>2 DEF RowOK
  <2>2. CASE ~(l2.left > 0)
    <3> DEFINE f == [l2 EXCEPT !.age = 0]
    <3>1. f \in CacheEntries /\ f.value = l2.value /\ f.left = l2.left /\ f.age = 0
          /\ l2.age \in Nat /\ l2.left \in Nat
      BY <1>1 DEF RowOK, CacheEntries
    <3>2. l2' = f
      BY <1>2, <2>2 DEF OlderRow
    <3> HIDE DEF f
    <3>3. f.age + f.left <= l2.age + l2.left
      BY <3>1
    <3>4. l2.value # "none" => f.age + f.left <= KeptFor(l2.value) + MaxDelay
      <4>1. KeptFor(l2.value) \in Nat
        BY <1>1
      <4> QED
        BY <1>1, <3>1, <3>3, <4>1 DEF RowOK
    <3> QED
      BY <1>1, <3>1, <3>2, <3>4 DEF RowOK
  <2> QED
    BY <2>1, <2>2
<1>7. ASSUME NEW s \in Sessions
      PROVE  ReaderOK(reader'[s]) /\ reader'[s].value = reader[s].value
  <2> DEFINE r == reader[s]
             q == reader'[s]
  <2>1. r \in Readers /\ ReaderOK(r)
    BY DEF CacheIInv
  <2>2. CASE ~Busy(s)
    BY <1>2, <2>1, <2>2
  <2>3. CASE Busy(s)
    <3>1. /\ r.age \in Nat /\ r.left \in Nat /\ r.wait \in 0..MaxDelay /\ r.wait < MaxDelay
          /\ r.at \notin {"idle", "answered"} /\ r.value \in {"none"} \cup Results
      BY <1>2, <2>1, <2>3 DEF Readers, Busy
    <3> DEFINE older == IF r.value = "none" THEN r.age ELSE r.age + 1
    <3>2. q = [r EXCEPT !.wait = r.wait + 1, !.age = older]
      BY <1>2, <2>3
    <3>3. older \in Nat /\ r.wait + 1 \in 0..MaxDelay /\ (r.value = "none" => older = r.age)
          /\ older <= r.age + 1
      BY <1>1, <3>1
    <3> HIDE DEF older
    <3>4. /\ q \in Readers /\ q.at = r.at /\ q.value = r.value /\ q.age = older
          /\ q.left = r.left /\ q.wait = r.wait + 1
      BY <2>1, <3>2, <3>3 DEF Readers
    <3> HIDE DEF q
    <3>5. q.at \in {"idle", "l1", "l2", "evict", "purge", "provider"} => q.value = "none" /\ q.age = 0
      BY <2>1, <3>3, <3>4 DEF ReaderOK
    <3>6. q.at \in {"backfill", "store_l1", "store_l2", "answered"} => q.value \in Results
      BY <2>1, <3>4 DEF ReaderOK
    <3>7. q.at = "backfill" => /\ q.left > 0
                               /\ q.age + q.left <= KeptFor(q.value) + MaxDelay + q.wait
      <4> SUFFICES ASSUME q.at = "backfill"
                   PROVE  /\ q.left > 0
                          /\ q.age + q.left <= KeptFor(q.value) + MaxDelay + q.wait
        OBVIOUS
      <4>1. /\ r.left > 0
            /\ r.age + r.left <= KeptFor(r.value) + MaxDelay + r.wait
        BY <2>1, <3>4 DEF ReaderOK
      <4>2. KeptFor(r.value) \in Nat
        BY <1>1
      <4> QED
        BY <1>1, <3>1, <3>3, <3>4, <4>1, <4>2
    <3>8. q.at = "store_l2" => q.age <= q.wait
      <4> SUFFICES ASSUME q.at = "store_l2" PROVE q.age <= q.wait
        OBVIOUS
      <4>1. r.age <= r.wait
        BY <2>1, <3>4 DEF ReaderOK
      <4> QED
        BY <1>1, <3>1, <3>3, <3>4, <4>1
    <3>9. q.at = "store_l1" => q.age <= MaxDelay + q.wait
      <4> SUFFICES ASSUME q.at = "store_l1" PROVE q.age <= MaxDelay + q.wait
        OBVIOUS
      <4>1. r.age <= MaxDelay + r.wait
        BY <2>1, <3>4 DEF ReaderOK
      <4> QED
        BY <1>1, <3>1, <3>3, <3>4, <4>1
    <3>10. q.at # "answered"
      BY <3>1, <3>4
    <3>11. ReaderOK(q)
      BY <3>4, <3>5, <3>6, <3>7, <3>8, <3>9, <3>10 DEF ReaderOK
    <3> QED
      BY <3>4, <3>11 DEF q
  <2> QED
    BY <2>2, <2>3
<1>8. reader' \in [Sessions -> Readers]
  <2>1. \A s \in Sessions : reader'[s] \in Readers
    BY <1>7 DEF ReaderOK
  <2>2. reader' = [s \in Sessions |-> reader'[s]]
    BY <1>2
  <2> QED
    BY <2>1, <2>2
<1>9. domain # "route" => /\ l1'.value # "unavailable" /\ l2'.value # "unavailable"
                          /\ \A s \in Sessions : reader'[s].value # "unavailable"
  BY <1>5, <1>6, <1>7 DEF CacheIInv
<1> QED
  BY <1>2, <1>5, <1>6, <1>7, <1>8, <1>9 DEF CacheIInv

LEMMA CacheNextInv ==
    ASSUME CacheIInv, [CacheNext]_cacheVars
    PROVE  CacheIInv'
<1>1. CASE UNCHANGED cacheVars
  BY <1>1 DEF cacheVars, CacheIInv
<1>2. CASE Tick
  BY <1>2, TickInv
<1>3. ASSUME NEW s \in Sessions, SessionStep(s) PROVE CacheIInv'
  <2>1. CASE EstimateRoute(s) \/ SearchRestaurants(s) \/ SearchBusiness(s)
    <3>1. reader[s].at = "idle" /\ To(s, "l1") /\ UNCHANGED <<domain, l1, l2>>
      BY <2>1 DEF EstimateRoute, SearchRestaurants, SearchBusiness, StartLookup
    <3> QED
      BY <3>1, SessionGoes
  <2>2. CASE EvictL1(s)
    <3>1. /\ reader[s].at = "evict" /\ (To(s, "l2") \/ To(s, "provider"))
          /\ UNCHANGED <<domain, l2>> /\ (l1' = l1 \/ l1' = NoEntry)
      BY <2>2 DEF EvictL1, AfterL1
    <3> QED
      BY <3>1, SessionGoes
  <2>3. CASE DeleteExpired(s)
    BY <2>3, SessionGoes DEF DeleteExpired
  <2>4. CASE Return(s)
    BY <2>4, RestingInv DEF Return
  <2> QED
    BY <1>3, <2>1, <2>2, <2>3, <2>4, ReadL1Inv, ReadL2Inv, BackfillInv, CallProviderInv,
       StoreL2Inv, StoreL1Inv DEF SessionStep
<1> QED
  BY <1>1, <1>2, <1>3 DEF CacheNext

\* What a session is given by the layered cache is in time, of the present schema,
\* and a failure only where a failed leg is an answer: for any number of sessions,
\* any delays between their accesses, any times to live and any bounds on them that
\* CacheTTLPolicy accepts; what the minimum ttl adds is part of the bound.
THEOREM CacheInvariant == CacheSpec => []CacheInv
<1>1. CacheInit => CacheIInv
  BY CacheInitInv
<1>2. CacheIInv /\ [CacheNext]_cacheVars => CacheIInv'
  BY CacheNextInv
<1>3. CacheIInv => CacheInv
  BY CacheIInvImplies
<1> QED
  BY <1>1, <1>2, <1>3, PTL DEF CacheSpec

----------------------------------------------------------------------------
(* Notifications.                                                          *)

TaskRows == [status : {"none", "queued", "running", "settled", "deleted"},
             events : 0..(MaxProgress + 4), cancel : BOOLEAN]

Steps == Messages \cup {"snapshot", "forget"}

WorkerThreads == [at : {"top", "claim", "empty", "wait", "run"}, woken : BOOLEAN, todo : Seq(Steps),
                  copy : TaskRows, left : 0..MaxProgress]

StreamStates == [at : {"off", "cursor", "list", "task", "fill", "wait"}, woken : BOOLEAN,
                 full : BOOLEAN, copy : TaskRows]

NotifyTypes ==
    /\ task \in TaskRows /\ snapshot \in TaskRows
    /\ api \in [todo : Seq(Steps), copy : TaskRows] /\ worker \in WorkerThreads
    /\ stream \in StreamStates
    /\ signalled \in BOOLEAN /\ wire \in [Processes -> SUBSET Messages]
    /\ lost \in 0..MaxLost /\ got \in Nat

Has(todo, m) == \E i \in 1..Len(todo) : todo[i] = m

\* The events that a task can have had, by how far it has come.
EventsCounted ==
    /\ task.status = "none" => task.events = 0
    /\ task.status = "queued" => task.events = 1
    /\ task.status \in {"none", "queued"} => worker.left = MaxProgress /\ ~task.cancel
    /\ task.status = "running" =>
          task.events + worker.left = MaxProgress + 2 + (IF task.cancel THEN 1 ELSE 0)
    /\ task.status = "running" <=> worker.at = "run"

\* A copy of the row was committed, and the row may have moved on since.
Behind(c, t) ==
    /\ c.events <= t.events
    /\ c.cancel => t.cancel
    /\ c.status \in {"settled", "deleted"} => t.status \in {"settled", "deleted"}

CopiesBehind == Behind(api.copy, task) /\ Behind(worker.copy, task) /\ Behind(snapshot, task)
                /\ Behind(stream.copy, task)

\* From the moment the events are listed, not only when it sleeps, a stream that
\* lacks one has been signalled or will be.
StreamHears ==
    (stream.at \in {"task", "fill", "wait"} /\ got < task.events /\ ~stream.woken
        /\ task.status # "deleted") =>
        \/ \E m \in Messages : Has(api.todo, m) \/ Has(worker.todo, m)
        \/ wire["api"] # {} \/ lost > 0 \/ stream.full

WorkerHears ==
    (worker.at \in {"empty", "wait"} /\ task.status = "queued" /\ ~worker.woken) =>
        Has(api.todo, "available") \/ "available" \in wire["worker"] \/ lost > 0

\* Every cancellation on its way to the worker's coordinator is in the row.
CancelsCommitted ==
    /\ ~Has(worker.todo, "cancellation")
    /\ (signalled \/ Has(api.todo, "cancellation") \/ "cancellation" \in wire["worker"]) => task.cancel

NotifyIInv ==
    /\ NotifyTypes /\ EventsCounted /\ CopiesBehind /\ StreamHears /\ WorkerHears
    /\ CancelsCommitted

LEMMA TodoFacts ==
    ASSUME NEW todo \in Seq(Steps), todo # <<>>
    PROVE  /\ Head(todo) \in Steps /\ Tail(todo) \in Seq(Steps)
           /\ \A m : Has(Tail(todo), m) => Has(todo, m)
           /\ \A m : Has(todo, m) => Head(todo) = m \/ Has(Tail(todo), m)
<1>1. Len(todo) \in Nat /\ Len(todo) > 0 /\ Len(Tail(todo)) = Len(todo) - 1
  OBVIOUS
<1>2. \A i \in 1..Len(Tail(todo)) : Tail(todo)[i] = todo[i + 1]
  OBVIOUS
<1>3. ASSUME NEW m, Has(Tail(todo), m) PROVE Has(todo, m)
  <2>1. PICK i \in 1..Len(Tail(todo)) : Tail(todo)[i] = m
    BY <1>3 DEF Has
  <2>2. i + 1 \in 1..Len(todo) /\ todo[i + 1] = m
    BY <1>1, <1>2, <2>1
  <2> QED
    BY <2>2 DEF Has
<1>4. ASSUME NEW m, Has(todo, m), Head(todo) # m PROVE Has(Tail(todo), m)
  <2>1. PICK i \in 1..Len(todo) : todo[i] = m
    BY <1>4 DEF Has
  <2>2. i # 1
    BY <1>4, <2>1
  <2>3. i - 1 \in 1..Len(Tail(todo)) /\ Tail(todo)[i - 1] = todo[(i - 1) + 1]
    BY <1>1, <1>2, <2>1, <2>2
  <2>4. Tail(todo)[i - 1] = m
    BY <2>1, <2>3
  <2> QED
    BY <2>3, <2>4 DEF Has
<1> QED
  BY <1>3, <1>4

LEMMA TodoLists ==
    /\ <<>> \in Seq(Steps) /\ \A m : ~Has(<<>>, m)
    /\ \A a \in Steps : <<a>> \in Seq(Steps) /\ \A m : Has(<<a>>, m) <=> m = a
    /\ \A a, b \in Steps : <<a, b>> \in Seq(Steps) /\ \A m : Has(<<a, b>>, m) <=> m \in {a, b}
    /\ \A a, b, c \in Steps : <<a, b, c>> \in Seq(Steps)
                              /\ \A m : Has(<<a, b, c>>, m) <=> m \in {a, b, c}
<1>1. <<>> \in Seq(Steps) /\ \A m : ~Has(<<>>, m)
  BY DEF Has
<1>2. ASSUME NEW a \in Steps
      PROVE  <<a>> \in Seq(Steps) /\ \A m : Has(<<a>>, m) <=> m = a
  BY DEF Has
<1>3. ASSUME NEW a \in Steps, NEW b \in Steps
      PROVE  <<a, b>> \in Seq(Steps) /\ \A m : Has(<<a, b>>, m) <=> m \in {a, b}
  <2>1. Len(<<a, b>>) = 2 /\ <<a, b>>[1] = a /\ <<a, b>>[2] = b /\ <<a, b>> \in Seq(Steps)
    OBVIOUS
  <2>2. 1..2 = {1, 2}
    OBVIOUS
  <2> QED
    BY <2>1, <2>2 DEF Has
<1>4. ASSUME NEW a \in Steps, NEW b \in Steps, NEW c \in Steps
      PROVE  <<a, b, c>> \in Seq(Steps) /\ \A m : Has(<<a, b, c>>, m) <=> m \in {a, b, c}
  <2>1. /\ Len(<<a, b, c>>) = 3 /\ <<a, b, c>>[1] = a /\ <<a, b, c>>[2] = b /\ <<a, b, c>>[3] = c
        /\ <<a, b, c>> \in Seq(Steps)
    OBVIOUS
  <2>2. 1..3 = {1, 2, 3}
    OBVIOUS
  <2> QED
    BY <2>1, <2>2 DEF Has
<1> QED
  BY <1>1, <1>2, <1>3, <1>4

LEMMA NotifyFields ==
    ASSUME NotifyTypes
    PROVE  /\ task.status \in {"none", "queued", "running", "settled", "deleted"}
           /\ task.events \in 0..(MaxProgress + 4) /\ task.cancel \in BOOLEAN
           /\ api.todo \in Seq(Steps) /\ api.copy \in TaskRows
           /\ worker.at \in {"top", "claim", "empty", "wait", "run"} /\ worker.woken \in BOOLEAN
           /\ worker.todo \in Seq(Steps) /\ worker.copy \in TaskRows
           /\ worker.left \in 0..MaxProgress
           /\ stream.at \in {"off", "cursor", "list", "task", "fill", "wait"}
           /\ stream.woken \in BOOLEAN /\ stream.full \in BOOLEAN /\ stream.copy \in TaskRows
           /\ MaxProgress \in Nat /\ EventLimit \in Nat /\ EventLimit > 0 /\ MaxLost \in Nat
           /\ lost \in Nat
BY NotificationAssumption DEF NotifyTypes, TaskRows, WorkerThreads, StreamStates

LEMMA NoTaskFacts ==
    /\ NoTask \in TaskRows /\ NoTask.events = 0 /\ NoTask.cancel = FALSE /\ NoTask.status = "none"
    /\ Off \in StreamStates /\ Off.at = "off" /\ Off.copy = NoTask
BY NotificationAssumption DEF NoTask, TaskRows, Off, StreamStates

\* Committed rows only move on.
LEMMA BehindMoves ==
    ASSUME NEW c \in TaskRows, NEW t \in TaskRows, NEW u \in TaskRows, Behind(c, t), Behind(t, u)
    PROVE  Behind(c, u)
BY NotificationAssumption DEF Behind, TaskRows

LEMMA BehindSelf ==
    ASSUME NEW t \in TaskRows
    PROVE  Behind(t, t) /\ Behind(NoTask, t)
BY NotificationAssumption DEF Behind, TaskRows, NoTask

LEMMA NotifyIInvImplies ==
    ASSUME NotifyIInv PROVE NotifyInv
<1>1. NotifyTypes
  BY DEF NotifyIInv
<1>2. NotifyTypeOK
  BY <1>1, NotifyFields DEF NotifyTypeOK, NotifyTypes, TaskRows, Steps
<1>3. StreamIsWoken
  BY DEF NotifyIInv, StreamHears, StreamIsWoken, PendingEvent, Pending, Has
<1>4. WorkerIsWoken
  BY DEF NotifyIInv, WorkerHears, WorkerIsWoken, Pending, Has
<1>5. CancelSignalIsTrue
  BY DEF NotifyIInv, CancelsCommitted, CancelSignalIsTrue
<1>6. SnapshotWasCommitted
  BY DEF NotifyIInv, CopiesBehind, Behind, SnapshotWasCommitted, Terminal
<1> QED
  BY <1>2, <1>3, <1>4, <1>5, <1>6 DEF NotifyInv

LEMMA NotifyInitInv == NotifyInit => NotifyIInv
<1> SUFFICES ASSUME NotifyInit PROVE NotifyIInv
  OBVIOUS
<1>1. NotifyTypes
  <2>1. api \in [todo : Seq(Steps), copy : TaskRows] /\ worker \in WorkerThreads
    BY NoTaskFacts, TodoLists, NotificationAssumption DEF NotifyInit, WorkerThreads
  <2>2. wire \in [Processes -> SUBSET Messages] /\ lost \in 0..MaxLost /\ got \in Nat
    BY NotificationAssumption DEF NotifyInit
  <2> QED
    BY <2>1, <2>2, NoTaskFacts DEF NotifyTypes, NotifyInit
<1>2. EventsCounted
  BY NoTaskFacts DEF NotifyInit, EventsCounted
<1>3. CopiesBehind
  BY NoTaskFacts, BehindSelf DEF NotifyInit, CopiesBehind
<1>4. StreamHears /\ WorkerHears
  BY NoTaskFacts DEF NotifyInit, StreamHears, WorkerHears
<1>5. CancelsCommitted
  <2>1. api.todo = <<>> /\ worker.todo = <<>> /\ wire["worker"] = {} /\ ~signalled
    BY DEF NotifyInit, Processes
  <2> QED
    BY <2>1, TodoLists DEF CancelsCommitted
<1> QED
  BY <1>1, <1>2, <1>3, <1>4, <1>5 DEF NotifyIInv

\* Copies stay behind the row when it moves on and each is kept, dropped or
\* taken from the old or the new row.
LEMMA CopiesMove ==
    ASSUME NotifyTypes, CopiesBehind, task' \in TaskRows, Behind(task, task'),
           api'.copy \in {api.copy, NoTask, task'},
           worker'.copy \in {worker.copy, NoTask, task'},
           snapshot' \in {snapshot, NoTask, api.copy, worker.copy, stream.copy},
           stream'.copy \in {stream.copy, NoTask, task}
    PROVE  CopiesBehind'
<1>1. /\ api.copy \in TaskRows /\ worker.copy \in TaskRows /\ snapshot \in TaskRows
      /\ stream.copy \in TaskRows /\ task \in TaskRows
  BY NotifyFields DEF NotifyTypes
<1>2. /\ Behind(api.copy, task') /\ Behind(worker.copy, task') /\ Behind(snapshot, task')
      /\ Behind(stream.copy, task')
  BY <1>1, BehindMoves DEF CopiesBehind
<1>3. Behind(NoTask, task') /\ Behind(task', task')
  BY BehindSelf
<1> QED
  BY <1>2, <1>3 DEF CopiesBehind

LEMMA NewEventFacts ==
    ASSUME NEW t \in TaskRows, t.events < MaxProgress + 4,
           NEW s \in {"queued", "running", "settled"}
    PROVE  /\ NewEvent(t, s) \in TaskRows /\ NewEvent(t, s).status = s
           /\ NewEvent(t, s).events = t.events + 1 /\ NewEvent(t, s).cancel = t.cancel
<1>1. t.events \in 0..(MaxProgress + 4) /\ t.cancel \in BOOLEAN
  BY DEF TaskRows
<1>2. t.events + 1 \in 0..(MaxProgress + 4)
  BY <1>1, NotificationAssumption
<1>3. s \in {"none", "queued", "running", "settled", "deleted"}
  OBVIOUS
<1>4. t \in [status : {"none", "queued", "running", "settled", "deleted"},
           events : Nat, cancel : BOOLEAN]
  BY NotificationAssumption DEF TaskRows
<1>5. /\ NewEvent(t, s).status = s /\ NewEvent(t, s).cancel = t.cancel
      /\ NewEvent(t, s).events = t.events + 1
  BY <1>4 DEF NewEvent
<1>6. NewEvent(t, s) \in TaskRows
  BY <1>1, <1>2, <1>3 DEF NewEvent, TaskRows
<1> QED
  BY <1>5, <1>6

LEMMA CreateTaskNotifies == ASSUME NotifyIInv, CreateTask PROVE NotifyIInv'
<1>0. NotifyTypes /\ EventsCounted /\ CopiesBehind /\ CancelsCommitted
  BY DEF NotifyIInv
<1>1. /\ task \in TaskRows /\ task.status = "none" /\ task.events = 0 /\ task.cancel = FALSE
      /\ worker.left = MaxProgress
  BY <1>0, NotifyFields DEF CreateTask, EventsCounted, NotifyTypes
<1>2. /\ task' \in TaskRows /\ task'.status = "queued" /\ task'.events = 1 /\ task'.cancel = FALSE
  BY <1>1, NewEventFacts, NotificationAssumption DEF CreateTask
<1>3. /\ api' = [todo |-> <<"snapshot", "available">>, copy |-> task']
      /\ api'.todo = <<"snapshot", "available">> /\ api'.copy = task'
      /\ worker' = worker /\ signalled' = signalled /\ wire' = wire /\ lost' = lost
      /\ snapshot' = snapshot /\ stream' = stream /\ got' = got
  BY DEF CreateTask
<1>4. "snapshot" \in Steps /\ "available" \in Steps /\ "available" \in Messages
  BY DEF Steps, Messages
<1>5. api'.todo \in Seq(Steps) /\ \A m : Has(api'.todo, m) <=> m \in {"snapshot", "available"}
  BY <1>3, <1>4, TodoLists
<1>6. api' \in [todo : Seq(Steps), copy : TaskRows]
  BY <1>2, <1>3, <1>5
<1>7. NotifyTypes'
  BY <1>0, <1>2, <1>3, <1>6 DEF NotifyTypes
<1>8. EventsCounted'
  BY <1>0, <1>1, <1>2, <1>3 DEF EventsCounted
<1>9. CopiesBehind'
  <2>1. Behind(task, task')
    BY <1>1, <1>2 DEF Behind
  <2> QED
    BY <1>0, <1>2, <1>3, <2>1, CopiesMove
<1>10. StreamHears' /\ WorkerHears'
  BY <1>3, <1>4, <1>5 DEF StreamHears, WorkerHears
<1>11. CancelsCommitted'
  BY <1>0, <1>1, <1>3, <1>5 DEF CancelsCommitted
<1> QED
  BY <1>7, <1>8, <1>9, <1>10, <1>11 DEF NotifyIInv

LEMMA RequestCancelNotifies == ASSUME NotifyIInv, RequestCancel PROVE NotifyIInv'
<1>0. NotifyTypes /\ EventsCounted /\ CopiesBehind /\ CancelsCommitted /\ WorkerHears
  BY DEF NotifyIInv
<1> DEFINE s == IF task.status = "queued" THEN "settled" ELSE "running"
           done == <<"snapshot", "cancellation", "event">>
<1>1. /\ task \in TaskRows /\ task.status \in {"queued", "running"} /\ task.cancel = FALSE
      /\ task.events \in Nat /\ worker.left \in Nat /\ MaxProgress \in Nat
  BY <1>0, NotifyFields DEF RequestCancel, NotifyTypes
<1>2. /\ task.events < MaxProgress + 3
      /\ task.status = "queued" => task.events = 1 /\ worker.at # "run"
      /\ task.status = "running" => task.events + worker.left = MaxProgress + 2 /\ worker.at = "run"
  BY <1>0, <1>1 DEF EventsCounted
<1>3. s \in {"queued", "running", "settled"}
  BY <1>1
<1> DEFINE t == NewEvent(task, s)
<1>4. /\ t \in TaskRows /\ t.status = s /\ t.events = task.events + 1
  BY <1>1, <1>2, <1>3, NewEventFacts
<1>5. task' = [t EXCEPT !.cancel = TRUE]
  BY DEF RequestCancel
<1>6. task' \in TaskRows /\ task'.status = s /\ task'.events = task.events + 1 /\ task'.cancel = TRUE
  <2> HIDE DEF t, s
  <2> QED
    BY <1>4, <1>5 DEF TaskRows
<1>7. /\ api' = [todo |-> done, copy |-> task']
      /\ worker' = worker /\ signalled' = signalled /\ wire' = wire /\ lost' = lost
      /\ snapshot' = snapshot /\ stream' = stream /\ got' = got
  BY DEF RequestCancel
<1>8. /\ "snapshot" \in Steps /\ "cancellation" \in Steps /\ "event" \in Steps
      /\ "event" \in Messages
  BY DEF Steps, Messages
<1>9. done \in Seq(Steps) /\ \A m : Has(done, m) <=> m \in {"snapshot", "cancellation", "event"}
  BY <1>8, TodoLists
<1> HIDE DEF done, t
<1>10. api' \in [todo : Seq(Steps), copy : TaskRows] /\ api'.todo = done /\ api'.copy = task'
  BY <1>6, <1>7, <1>9
<1>11. NotifyTypes'
  BY <1>0, <1>6, <1>7, <1>10 DEF NotifyTypes
<1>12. EventsCounted'
  BY <1>1, <1>2, <1>6, <1>7 DEF EventsCounted
<1>13. CopiesBehind'
  <2>1. Behind(task, task')
    BY <1>1, <1>6 DEF Behind
  <2> QED
    BY <1>0, <1>6, <1>7, <1>10, <2>1, CopiesMove
<1>14. StreamHears'
  BY <1>8, <1>9, <1>10 DEF StreamHears
<1>15. WorkerHears'
  BY <1>6, <1>1 DEF WorkerHears
<1>16. CancelsCommitted'
  BY <1>0, <1>6, <1>7 DEF CancelsCommitted
<1> QED
  BY <1>11, <1>12, <1>13, <1>14, <1>15, <1>16 DEF NotifyIInv

LEMMA DeleteSessionNotifies == ASSUME NotifyIInv, DeleteSession PROVE NotifyIInv'
<1>0. NotifyTypes /\ EventsCounted /\ CopiesBehind /\ CancelsCommitted
  BY DEF NotifyIInv
<1>1. task \in TaskRows /\ task.status = "settled" /\ worker.at # "run" /\ task.events \in Nat
  BY <1>0, NotifyFields DEF DeleteSession, NotifyTypes, EventsCounted
<1>2. /\ task' \in TaskRows /\ task'.status = "deleted" /\ task'.events = task.events
      /\ task'.cancel = task.cancel
  BY <1>1 DEF DeleteSession, TaskRows
<1>3. /\ api' = [todo |-> <<"forget">>, copy |-> NoTask]
      /\ worker' = worker /\ signalled' = signalled /\ wire' = wire /\ lost' = lost
      /\ snapshot' = snapshot /\ stream' = stream /\ got' = got
  BY DEF DeleteSession
<1>4. <<"forget">> \in Seq(Steps) /\ \A m : Has(<<"forget">>, m) <=> m = "forget"
  <2>1. "forget" \in Steps
    BY DEF Steps
  <2> QED
    BY <2>1, TodoLists
<1>5. /\ api' \in [todo : Seq(Steps), copy : TaskRows] /\ api'.todo = <<"forget">>
      /\ api'.copy = NoTask
  BY <1>3, <1>4, NoTaskFacts
<1>6. NotifyTypes'
  BY <1>0, <1>2, <1>3, <1>5 DEF NotifyTypes
<1>7. EventsCounted'
  BY <1>1, <1>2, <1>3 DEF EventsCounted
<1>8. CopiesBehind'
  <2>1. Behind(task, task')
    BY <1>1, <1>2 DEF Behind
  <2> QED
    BY <1>0, <1>2, <1>3, <1>5, <2>1, CopiesMove
<1>9. StreamHears' /\ WorkerHears'
  BY <1>2 DEF StreamHears, WorkerHears
<1>10. CancelsCommitted'
  <2>1. ~Has(api'.todo, "cancellation")
    BY <1>4, <1>5
  <2> QED
    BY <1>0, <1>2, <1>3, <2>1 DEF CancelsCommitted
<1> QED
  BY <1>6, <1>7, <1>8, <1>9, <1>10 DEF NotifyIInv

\* What a write of the worker leaves behind: the row moves on by one event, and
\* the worker has an event to publish.
LEMMA WorkerWriteNotifies ==
    ASSUME NotifyIInv, NEW s \in {"running", "settled"}, NEW at \in {"top", "run"},
           NEW todo, todo \in {<<"snapshot", "event">>, <<"event", "snapshot">>},
           NEW left \in 0..MaxProgress,
           at = "run" <=> s = "running",
           task.events < MaxProgress + 4, task.status \in {"queued", "running"},
           task.status = "queued" => ~task.cancel /\ s = "running",
           s = "running" =>
               task.events + 1 + left = MaxProgress + 2 + (IF task.cancel THEN 1 ELSE 0),
           task' = NewEvent(task, s),
           worker' \in WorkerThreads, worker'.at = at, worker'.todo = todo,
           worker'.copy = task', worker'.left = left,
           UNCHANGED <<api, signalled, wire, lost, snapshot, stream, got>>
    PROVE  NotifyIInv'
<1>0. NotifyTypes /\ EventsCounted /\ CopiesBehind /\ CancelsCommitted
  BY DEF NotifyIInv
<1>1. task \in TaskRows /\ task.events \in Nat /\ MaxProgress \in Nat /\ task.cancel \in BOOLEAN
  BY <1>0, NotifyFields DEF NotifyTypes
<1>2. /\ task' \in TaskRows /\ task'.status = s /\ task'.events = task.events + 1
      /\ task'.cancel = task.cancel
  BY <1>1, NewEventFacts
<1>3. /\ Has(todo, "event") /\ ~Has(todo, "cancellation")
  <2>1. "snapshot" \in Steps /\ "event" \in Steps
    BY DEF Steps, Messages
  <2>2. \A m : Has(<<"snapshot", "event">>, m) <=> m \in {"snapshot", "event"}
    BY <2>1, TodoLists
  <2>3. \A m : Has(<<"event", "snapshot">>, m) <=> m \in {"event", "snapshot"}
    BY <2>1, TodoLists
  <2> QED
    BY <2>2, <2>3
<1>4. NotifyTypes'
  BY <1>0, <1>2 DEF NotifyTypes
<1>5. EventsCounted'
  <2>1. task'.status \notin {"none", "queued"} /\ (task'.status = "running" <=> worker'.at = "run")
    BY <1>2
  <2>2. task'.status = "running" =>
            task'.events + worker'.left = MaxProgress + 2 + (IF task'.cancel THEN 1 ELSE 0)
    BY <1>1, <1>2
  <2> QED
    BY <2>1, <2>2 DEF EventsCounted
<1>6. CopiesBehind'
  <2>1. Behind(task, task')
    BY <1>1, <1>2 DEF Behind
  <2> QED
    BY <1>0, <1>2, <2>1, CopiesMove
<1>7. StreamHears'
  <2>1. "event" \in Messages
    BY DEF Messages
  <2> QED
    BY <1>3, <2>1 DEF StreamHears
<1>8. WorkerHears'
  BY <1>2 DEF WorkerHears
<1>9. CancelsCommitted'
  BY <1>0, <1>2, <1>3 DEF CancelsCommitted
<1> QED
  BY <1>4, <1>5, <1>6, <1>7, <1>8, <1>9 DEF NotifyIInv

LEMMA ClaimNextNotifies == ASSUME NotifyIInv, ClaimNext PROVE NotifyIInv'
<1>0. NotifyTypes /\ EventsCounted /\ CopiesBehind /\ StreamHears /\ WorkerHears /\ CancelsCommitted
  BY DEF NotifyIInv
<1>1. /\ task \in TaskRows /\ task.events \in Nat /\ MaxProgress \in Nat /\ worker \in WorkerThreads
      /\ worker.at = "claim" /\ task.status # "running"
  BY <1>0, NotifyFields DEF NotifyTypes, ClaimNext, EventsCounted
<1>2. CASE task.status = "queued"
  <2> DEFINE todo == <<"snapshot", "event">>
  <2>1. task' = NewEvent(task, "running")
    BY <1>2 DEF ClaimNext
  <2>2. worker' = [worker EXCEPT !.at = "run", !.todo = todo, !.copy = task', !.woken = FALSE]
    BY <1>2 DEF ClaimNext
  <2>3. task.events = 1 /\ worker.left = MaxProgress /\ ~task.cancel
    BY <1>0, <1>2 DEF EventsCounted
  <2>4. task' \in TaskRows
    BY <1>1, <2>1, <2>3, NewEventFacts
  <2>5. todo \in Seq(Steps)
    <3>1. "snapshot" \in Steps /\ "event" \in Steps
      BY DEF Steps, Messages
    <3> QED
      BY <3>1, TodoLists
  <2>6. todo \in {<<"snapshot", "event">>, <<"event", "snapshot">>}
    OBVIOUS
  <2> HIDE DEF todo
  <2>7. /\ worker' \in WorkerThreads /\ worker'.at = "run" /\ worker'.todo = todo
        /\ worker'.copy = task' /\ worker'.left = worker.left
    BY <1>1, <2>2, <2>4, <2>5 DEF WorkerThreads
  <2>8. worker.left \in 0..MaxProgress
    BY <1>1, <2>3
  <2>9. task.events < MaxProgress + 4
    BY <1>1, <2>3
  <2>10. task.events + 1 + worker.left = MaxProgress + 2 + (IF task.cancel THEN 1 ELSE 0)
    BY <1>1, <2>3
  <2>11. UNCHANGED <<api, signalled, wire, lost, snapshot, stream, got>>
    BY DEF ClaimNext
  <2> QED
    BY <1>2, <2>1, <2>3, <2>6, <2>7, <2>8, <2>9, <2>10, <2>11, WorkerWriteNotifies
<1>3. CASE task.status # "queued"
  <2>1. /\ worker' = [worker EXCEPT !.at = "empty"]
        /\ task' = task /\ api' = api /\ signalled' = signalled /\ wire' = wire /\ lost' = lost
        /\ snapshot' = snapshot /\ stream' = stream /\ got' = got
    BY <1>3 DEF ClaimNext
  <2>2. /\ worker' \in WorkerThreads /\ worker'.at = "empty" /\ worker'.todo = worker.todo
        /\ worker'.copy = worker.copy /\ worker'.left = worker.left
    BY <1>1, <2>1 DEF WorkerThreads
  <2>3. NotifyTypes'
    BY <1>0, <2>1, <2>2 DEF NotifyTypes
  <2>4. EventsCounted' /\ CopiesBehind'
    BY <1>0, <1>1, <2>1, <2>2 DEF EventsCounted, CopiesBehind
  <2>5. StreamHears' /\ WorkerHears' /\ CancelsCommitted'
    BY <1>0, <1>3, <2>1, <2>2 DEF StreamHears, WorkerHears, CancelsCommitted
  <2> QED
    BY <2>3, <2>4, <2>5 DEF NotifyIInv
<1> QED
  BY <1>2, <1>3

LEMMA WorkerWritesNotifies ==
    ASSUME NotifyIInv, NEW s \in {"running", "settled"}, NEW at \in {"top", "run"},
           at = "run" <=> s = "running", at = "run" => worker.left > 0, WorkerWrites(s, at)
    PROVE  NotifyIInv'
<1> DEFINE todo == <<"event", "snapshot">>
           left == IF at = "run" THEN worker.left - 1 ELSE worker.left
<1>0. NotifyTypes /\ EventsCounted
  BY DEF NotifyIInv
<1>1. /\ task \in TaskRows /\ task.events \in Nat /\ MaxProgress \in Nat /\ worker \in WorkerThreads
      /\ worker.at = "run" /\ task.status = "running" /\ task.cancel \in BOOLEAN
      /\ worker.left \in 0..MaxProgress
      /\ task.events + worker.left = MaxProgress + 2 + (IF task.cancel THEN 1 ELSE 0)
  BY <1>0, NotifyFields DEF NotifyTypes, WorkerWrites, EventsCounted
<1>2. task' = NewEvent(task, s)
  BY DEF WorkerWrites
<1>3. worker' = [worker EXCEPT !.at = at, !.todo = todo, !.copy = task', !.woken = FALSE,
                               !.left = left]
  BY DEF WorkerWrites
<1>4. task.events < MaxProgress + 4
  BY <1>1
<1>5. task' \in TaskRows
  BY <1>1, <1>2, <1>4, NewEventFacts
<1>6. todo \in Seq(Steps)
  <2>1. "snapshot" \in Steps /\ "event" \in Steps
    BY DEF Steps, Messages
  <2> QED
    BY <2>1, TodoLists
<1>7. todo \in {<<"snapshot", "event">>, <<"event", "snapshot">>}
  OBVIOUS
<1>8. left \in 0..MaxProgress
  BY <1>1
<1>9. s = "running" => task.events + 1 + left = MaxProgress + 2 + (IF task.cancel THEN 1 ELSE 0)
  BY <1>1
<1>10. at \in {"top", "claim", "empty", "wait", "run"}
  OBVIOUS
<1>11. UNCHANGED <<api, signalled, wire, lost, snapshot, stream, got>>
  BY DEF WorkerWrites
<1> HIDE DEF todo, left
<1>12. /\ worker' \in WorkerThreads /\ worker'.at = at /\ worker'.todo = todo
       /\ worker'.copy = task' /\ worker'.left = left
  BY <1>1, <1>3, <1>5, <1>6, <1>8, <1>10 DEF WorkerThreads
<1> QED
  BY <1>1, <1>2, <1>4, <1>7, <1>8, <1>9, <1>11, <1>12, WorkerWriteNotifies

LEMMA ProgressNotifies ==
    ASSUME NotifyIInv, RecordProgress \/ MarkCancelled \/ MarkSettled PROVE NotifyIInv'
<1>1. CASE RecordProgress
  BY <1>1, WorkerWritesNotifies DEF RecordProgress
<1>2. CASE MarkCancelled
  BY <1>2, WorkerWritesNotifies DEF MarkCancelled
<1>3. CASE MarkSettled
  BY <1>3, WorkerWritesNotifies DEF MarkSettled
<1> QED
  BY <1>1, <1>2, <1>3

\* Signal only sets flags, and sets every flag of the process that the message
\* concerns.
LEMMA SignalFacts ==
    ASSUME NotifyTypes, NEW p \in Processes, NEW m \in Messages, NEW w \in WorkerThreads,
           Signal(p, m, w)
    PROVE  /\ stream' \in StreamStates /\ stream'.at = stream.at /\ stream'.full = stream.full
           /\ stream'.copy = stream.copy /\ (stream.woken => stream'.woken)
           /\ (p = "api" /\ stream.at \in Listening) => stream'.woken
           /\ worker' \in WorkerThreads /\ worker'.at = w.at /\ worker'.todo = w.todo
           /\ worker'.copy = w.copy /\ worker'.left = w.left /\ (w.woken => worker'.woken)
           /\ (p = "worker" /\ m \in Heard(p) /\ w.at \in {"empty", "wait"}) => worker'.woken
           /\ signalled' \in BOOLEAN
           /\ signalled' => signalled \/ (p = "worker" /\ m = "cancellation")
<1>1. /\ stream' \in StreamStates /\ stream'.at = stream.at /\ stream'.full = stream.full
      /\ stream'.copy = stream.copy /\ (stream.woken => stream'.woken)
      /\ (p = "api" /\ stream.at \in Listening) => stream'.woken
  <2>1. CASE p = "api" /\ stream.at \in Listening
    <3>1. stream' = [stream EXCEPT !.woken = TRUE]
      BY <2>1 DEF Signal
    <3> QED
      BY <3>1 DEF NotifyTypes, StreamStates
  <2>2. CASE ~(p = "api" /\ stream.at \in Listening)
    <3>1. stream' = stream
      BY <2>2 DEF Signal
    <3> QED
      BY <2>2, <3>1 DEF NotifyTypes
  <2> QED
    BY <2>1, <2>2
<1>2. /\ worker' \in WorkerThreads /\ worker'.at = w.at /\ worker'.todo = w.todo
      /\ worker'.copy = w.copy /\ worker'.left = w.left /\ (w.woken => worker'.woken)
      /\ (p = "worker" /\ m \in Heard(p) /\ w.at \in {"empty", "wait"}) => worker'.woken
  <2>1. CASE p = "worker" /\ m \in Heard(p) /\ w.at \in {"claim", "empty", "wait"}
    <3>1. worker' = [w EXCEPT !.woken = TRUE]
      BY <2>1 DEF Signal
    <3> QED
      BY <3>1 DEF WorkerThreads
  <2>2. CASE ~(p = "worker" /\ m \in Heard(p) /\ w.at \in {"claim", "empty", "wait"})
    <3>1. worker' = w
      BY <2>2 DEF Signal
    <3> QED
      BY <2>2, <3>1
  <2> QED
    BY <2>1, <2>2
<1>3. signalled' \in BOOLEAN /\ (signalled' => signalled \/ (p = "worker" /\ m = "cancellation"))
  BY DEF Signal
<1> QED
  BY <1>1, <1>2, <1>3

\* A published message is on its way to the other process, or is lost.
LEMMA PublishFacts ==
    ASSUME NotifyTypes, NEW p \in Processes, NEW m \in Messages, NEW w, Publish(p, m, w)
    PROVE  /\ wire' \in [Processes -> SUBSET Messages] /\ lost' \in 0..MaxLost
           /\ lost > 0 => lost' > 0
           /\ \A q \in Processes : wire[q] \subseteq wire'[q] /\ wire'[q] \subseteq wire[q] \cup {m}
           /\ lost' > 0 \/ \A q \in Processes \ {p} : m \in Heard(q) => m \in wire'[q]
           /\ wire'[p] = wire[p]
<1>0. lost \in 0..MaxLost /\ MaxLost \in Nat /\ wire \in [Processes -> SUBSET Messages]
  BY NotificationAssumption DEF NotifyTypes
<1>1. CASE /\ wire' = [q \in Processes |-> wire[q] \cup (IF q = p THEN {} ELSE {m} \cap Heard(q))]
           /\ lost' = lost
  BY <1>0, <1>1
<1>2. CASE lost < MaxLost /\ lost' = lost + 1 /\ wire' = wire
  BY <1>0, <1>2
<1> QED
  BY <1>1, <1>2 DEF Publish

LEMMA ApiStepNotifies == ASSUME NotifyIInv, ApiStep PROVE NotifyIInv'
<1> DEFINE h == Head(api.todo)
           rest == Tail(api.todo)
<1>0. NotifyTypes /\ EventsCounted /\ CopiesBehind /\ StreamHears /\ WorkerHears /\ CancelsCommitted
  BY DEF NotifyIInv
<1>1. api.todo \in Seq(Steps) /\ api.todo # <<>> /\ api.copy \in TaskRows /\ worker \in WorkerThreads
  BY <1>0, NotifyFields DEF ApiStep, NotifyTypes
<1>2. /\ h \in Steps /\ rest \in Seq(Steps)
      /\ \A m : Has(rest, m) => Has(api.todo, m)
      /\ \A m : Has(api.todo, m) => h = m \/ Has(rest, m)
  BY <1>1, TodoFacts
<1>3. /\ api' \in [todo : Seq(Steps), copy : TaskRows] /\ api'.todo = rest
      /\ api'.copy \in {api.copy, NoTask}
  <2> HIDE DEF rest
  <2>1. api' = [todo |-> rest, copy |-> IF Len(api.todo) = 1 THEN NoTask ELSE api.copy]
    BY DEF ApiStep, rest
  <2> QED
    BY <1>1, <1>2, <2>1, NoTaskFacts
<1>4. task' = task /\ got' = got
  BY DEF ApiStep
<1>5. task' \in TaskRows /\ Behind(task, task')
  BY <1>0, <1>4, BehindSelf DEF NotifyTypes
<1>6. Has(api.todo, h)
  <2>1. Len(api.todo) \in Nat /\ Len(api.todo) > 0 /\ h = api.todo[1]
    BY <1>1
  <2>2. 1 \in 1..Len(api.todo)
    BY <2>1
  <2> QED
    BY <2>1, <2>2 DEF Has
<1> HIDE DEF h, rest
<1>7. CASE h \in Messages
  <2>1. Publish("api", h, worker) /\ snapshot' = snapshot
    BY <1>7 DEF ApiStep, h
  <2>2. "api" \in Processes /\ "worker" \in Processes /\ "worker" \in Processes \ {"api"}
    BY DEF Processes
  <2>3. Signal("api", h, worker)
    BY <2>1 DEF Publish
  <2>4. /\ stream' \in StreamStates /\ stream'.at = stream.at /\ stream'.full = stream.full
        /\ stream'.copy = stream.copy
        /\ stream.at \in Listening => stream'.woken
        /\ worker' \in WorkerThreads /\ worker'.at = worker.at /\ worker'.todo = worker.todo
        /\ worker'.copy = worker.copy /\ worker'.left = worker.left
        /\ worker.woken => worker'.woken
        /\ signalled' \in BOOLEAN
        /\ signalled' => signalled
    <3>1. "api" # "worker"
      OBVIOUS
    <3> QED
      BY <1>0, <1>1, <1>7, <2>2, <2>3, <3>1, SignalFacts
  <2>5. /\ wire' \in [Processes -> SUBSET Messages] /\ lost' \in 0..MaxLost
        /\ lost > 0 => lost' > 0
        /\ wire["worker"] \subseteq wire'["worker"]
        /\ wire'["worker"] \subseteq wire["worker"] \cup {h}
        /\ lost' > 0 \/ (h \in Heard("worker") => h \in wire'["worker"])
    BY <1>0, <1>7, <2>1, <2>2, PublishFacts
  <2>6. NotifyTypes'
    BY <1>0, <1>3, <1>4, <2>1, <2>4, <2>5 DEF NotifyTypes
  <2>7. EventsCounted'
    BY <1>0, <1>4, <2>4 DEF EventsCounted
  <2>8. CopiesBehind'
    BY <1>0, <1>3, <1>5, <2>1, <2>4, CopiesMove
  <2>9. StreamHears'
    BY <2>4 DEF StreamHears, Listening
  <2>10. WorkerHears'
    <3>1. "available" \in Heard("worker")
      BY DEF Heard
    <3>2. Has(api.todo, "available") =>
              Has(api'.todo, "available") \/ "available" \in wire'["worker"] \/ lost' > 0
      BY <1>2, <1>3, <2>5, <3>1
    <3> QED
      BY <1>0, <1>4, <2>4, <2>5, <3>2 DEF WorkerHears
  <2>11. CancelsCommitted'
    BY <1>0, <1>2, <1>3, <1>4, <1>6, <2>4, <2>5 DEF CancelsCommitted
  <2> QED
    BY <2>6, <2>7, <2>8, <2>9, <2>10, <2>11 DEF NotifyIInv
<1>8. CASE h \notin Messages
  <2>1. /\ snapshot' \in {NoTask, api.copy, snapshot}
        /\ worker' = worker /\ signalled' = signalled /\ wire' = wire /\ lost' = lost
        /\ stream' = stream
    BY <1>8 DEF ApiStep, CacheWrite, h
  <2>2. \A m \in Messages : Has(api.todo, m) => Has(api'.todo, m)
    BY <1>2, <1>3, <1>8
  <2>3. NotifyTypes'
    BY <1>0, <1>1, <1>3, <1>4, <2>1, NoTaskFacts DEF NotifyTypes
  <2>4. EventsCounted'
    BY <1>0, <1>4, <2>1 DEF EventsCounted
  <2>5. CopiesBehind'
    BY <1>0, <1>3, <1>5, <2>1, CopiesMove
  <2>6. StreamHears'
    BY <1>0, <1>4, <2>1, <2>2 DEF StreamHears
  <2>7. WorkerHears'
    <3>1. "available" \in Messages
      BY DEF Messages
    <3> QED
      BY <1>0, <1>4, <2>1, <2>2, <3>1 DEF WorkerHears
  <2>8. CancelsCommitted'
    BY <1>0, <1>2, <1>3, <1>4, <2>1 DEF CancelsCommitted
  <2> QED
    BY <2>3, <2>4, <2>5, <2>6, <2>7, <2>8 DEF NotifyIInv
<1> QED
  BY <1>7, <1>8

LEMMA WorkerStepNotifies == ASSUME NotifyIInv, WorkerStep PROVE NotifyIInv'
<1> DEFINE h == Head(worker.todo)
           more == Tail(worker.todo)
           kept == IF Len(worker.todo) = 1 THEN NoTask ELSE worker.copy
           rest == [worker EXCEPT !.todo = more, !.copy = kept]
<1>0. NotifyTypes /\ EventsCounted /\ CopiesBehind /\ StreamHears /\ WorkerHears /\ CancelsCommitted
  BY DEF NotifyIInv
<1>1. /\ worker.todo \in Seq(Steps) /\ worker.todo # <<>> /\ worker.copy \in TaskRows
      /\ worker \in WorkerThreads
  BY <1>0, NotifyFields DEF WorkerStep, NotifyTypes
<1>2. /\ h \in Steps /\ more \in Seq(Steps)
      /\ \A m : Has(more, m) => Has(worker.todo, m)
      /\ \A m : Has(worker.todo, m) => h = m \/ Has(more, m)
  BY <1>1, TodoFacts
<1>3. task' = task /\ got' = got /\ api' = api
  BY DEF WorkerStep
<1>4. task' \in TaskRows /\ Behind(task, task')
  BY <1>0, <1>3, BehindSelf DEF NotifyTypes
<1>5. h # "cancellation"
  <2>1. Len(worker.todo) \in Nat /\ Len(worker.todo) > 0 /\ h = worker.todo[1]
    BY <1>1
  <2>2. 1 \in 1..Len(worker.todo)
    BY <2>1
  <2> QED
    BY <1>0, <2>1, <2>2 DEF Has, CancelsCommitted
<1>6. kept \in TaskRows /\ kept \in {worker.copy, NoTask}
  BY <1>1, NoTaskFacts
<1>7. IF h \in Messages
        THEN Publish("worker", h, rest) /\ snapshot' = snapshot
        ELSE /\ snapshot' \in {worker.copy, snapshot} /\ worker' = rest
             /\ signalled' = signalled /\ wire' = wire /\ lost' = lost /\ stream' = stream
  BY DEF WorkerStep, CacheWrite
<1> HIDE DEF h, more, kept
<1>8. /\ rest \in WorkerThreads /\ rest.at = worker.at /\ rest.todo = more /\ rest.copy = kept
      /\ rest.left = worker.left /\ rest.woken = worker.woken
  BY <1>1, <1>2, <1>6 DEF WorkerThreads
<1> HIDE DEF rest
<1>9. ~Has(more, "cancellation")
  BY <1>0, <1>2 DEF CancelsCommitted
<1>10. CASE h \in Messages
  <2>1. Publish("worker", h, rest) /\ snapshot' = snapshot
    BY <1>7, <1>10
  <2>2. "api" \in Processes /\ "worker" \in Processes /\ "api" \in Processes \ {"worker"}
    BY DEF Processes
  <2>3. Signal("worker", h, rest)
    BY <2>1 DEF Publish
  <2>4. /\ stream' \in StreamStates /\ stream'.at = stream.at /\ stream'.full = stream.full
        /\ stream'.copy = stream.copy
        /\ worker' \in WorkerThreads /\ worker'.at = worker.at /\ worker'.todo = more
        /\ worker'.copy = kept /\ worker'.left = worker.left
        /\ worker.woken => worker'.woken
        /\ signalled' \in BOOLEAN
        /\ signalled' => signalled
    BY <1>0, <1>5, <1>8, <1>10, <2>2, <2>3, SignalFacts
  <2>5. /\ wire' \in [Processes -> SUBSET Messages] /\ lost' \in 0..MaxLost
        /\ lost > 0 => lost' > 0
        /\ wire'["worker"] = wire["worker"]
        /\ lost' > 0 \/ (h \in Heard("api") => h \in wire'["api"])
    BY <1>0, <1>10, <2>1, <2>2, PublishFacts
  <2>6. NotifyTypes'
    BY <1>0, <1>3, <2>1, <2>4, <2>5 DEF NotifyTypes
  <2>7. EventsCounted'
    BY <1>0, <1>3, <2>4 DEF EventsCounted
  <2>8. CopiesBehind'
    <3>1. worker'.copy \in {worker.copy, NoTask, task'}
      BY <1>6, <2>4
    <3> QED
      BY <1>0, <1>3, <1>4, <2>1, <2>4, <3>1, CopiesMove
  <2>9. StreamHears'
    <3>1. h \in Heard("api")
      BY <1>10 DEF Heard
    <3>2. lost' > 0 \/ wire'["api"] # {}
      BY <2>5, <3>1
    <3> QED
      BY <3>2 DEF StreamHears
  <2>10. WorkerHears'
    BY <1>0, <1>3, <2>4, <2>5 DEF WorkerHears
  <2>11. CancelsCommitted'
    BY <1>0, <1>3, <1>9, <2>4, <2>5 DEF CancelsCommitted
  <2> QED
    BY <2>6, <2>7, <2>8, <2>9, <2>10, <2>11 DEF NotifyIInv
<1>11. CASE h \notin Messages
  <2>1. /\ snapshot' \in {worker.copy, snapshot} /\ worker' = rest
        /\ signalled' = signalled /\ wire' = wire /\ lost' = lost /\ stream' = stream
    BY <1>7, <1>11
  <2>2. \A m \in Messages : Has(worker.todo, m) => Has(worker'.todo, m)
    BY <1>2, <1>8, <1>11, <2>1
  <2>3. NotifyTypes'
    BY <1>0, <1>1, <1>3, <1>8, <2>1 DEF NotifyTypes
  <2>4. EventsCounted'
    BY <1>0, <1>3, <1>8, <2>1 DEF EventsCounted
  <2>5. CopiesBehind'
    BY <1>0, <1>3, <1>4, <1>6, <1>8, <2>1, CopiesMove
  <2>6. StreamHears'
    BY <1>0, <1>3, <2>1, <2>2 DEF StreamHears
  <2>7. WorkerHears'
    BY <1>0, <1>3, <1>8, <2>1 DEF WorkerHears
  <2>8. CancelsCommitted'
    BY <1>0, <1>3, <1>8, <1>9, <2>1 DEF CancelsCommitted
  <2> QED
    BY <2>3, <2>4, <2>5, <2>6, <2>7, <2>8 DEF NotifyIInv
<1> QED
  BY <1>10, <1>11

LEMMA ReceiveNotifies == ASSUME NotifyIInv, NEW p \in Processes, Receive(p) PROVE NotifyIInv'
<1>0. NotifyTypes /\ EventsCounted /\ CopiesBehind /\ StreamHears /\ WorkerHears /\ CancelsCommitted
  BY DEF NotifyIInv
<1>1. PICK m \in wire[p] : Signal(p, m, worker) /\ wire' = [wire EXCEPT ![p] = @ \ {m}]
  BY DEF Receive
<1>2. /\ task' = task /\ api' = api /\ lost' = lost /\ snapshot' = snapshot /\ got' = got
  BY DEF Receive
<1>3. wire \in [Processes -> SUBSET Messages] /\ worker \in WorkerThreads
  BY <1>0 DEF NotifyTypes
<1>4. m \in Messages
  BY <1>1, <1>3
<1>5. /\ wire' \in [Processes -> SUBSET Messages] /\ wire'[p] = wire[p] \ {m}
      /\ \A q \in Processes : q # p => wire'[q] = wire[q]
      /\ \A q \in Processes : wire'[q] \subseteq wire[q]
  BY <1>1, <1>3
<1>6. /\ stream' \in StreamStates /\ stream'.at = stream.at /\ stream'.full = stream.full
      /\ stream'.copy = stream.copy /\ (stream.woken => stream'.woken)
      /\ (p = "api" /\ stream.at \in Listening) => stream'.woken
      /\ worker' \in WorkerThreads /\ worker'.at = worker.at /\ worker'.todo = worker.todo
      /\ worker'.copy = worker.copy /\ worker'.left = worker.left /\ (worker.woken => worker'.woken)
      /\ (p = "worker" /\ m \in Heard(p) /\ worker.at \in {"empty", "wait"}) => worker'.woken
      /\ signalled' \in BOOLEAN
      /\ signalled' => signalled \/ (p = "worker" /\ m = "cancellation")
  BY <1>0, <1>1, <1>3, <1>4, SignalFacts
<1>7. "api" \in Processes /\ "worker" \in Processes /\ p \in {"api", "worker"}
  BY DEF Processes
<1>8. NotifyTypes'
  BY <1>0, <1>2, <1>5, <1>6 DEF NotifyTypes
<1>9. EventsCounted'
  BY <1>0, <1>2, <1>6 DEF EventsCounted
<1>10. CopiesBehind'
  BY <1>0, <1>2, <1>6 DEF CopiesBehind
<1>11. StreamHears'
  <2>1. CASE p = "api"
    BY <1>6, <2>1 DEF StreamHears, Listening
  <2>2. CASE p = "worker"
    <3>1. wire'["api"] = wire["api"]
      BY <1>5, <1>7, <2>2
    <3> QED
      BY <1>0, <1>2, <1>6, <3>1 DEF StreamHears
  <2> QED
    BY <1>7, <2>1, <2>2
<1>12. WorkerHears'
  <2>1. CASE p = "worker" /\ m = "available"
    BY <1>6, <2>1 DEF WorkerHears, Heard
  <2>2. CASE ~(p = "worker" /\ m = "available")
    <3>1. "available" \in wire["worker"] => "available" \in wire'["worker"]
      BY <1>5, <1>7, <2>2
    <3> QED
      BY <1>0, <1>2, <1>6, <3>1 DEF WorkerHears
  <2> QED
    BY <2>1, <2>2
<1>13. CancelsCommitted'
  <2>1. (p = "worker" /\ m = "cancellation") => "cancellation" \in wire["worker"]
    BY <1>1
  <2>2. wire'["worker"] \subseteq wire["worker"]
    BY <1>5, <1>7
  <2> QED
    BY <1>0, <1>2, <1>6, <2>1, <2>2 DEF CancelsCommitted
<1> QED
  BY <1>8, <1>9, <1>10, <1>11, <1>12, <1>13 DEF NotifyIInv

LEMMA DropNotifies == ASSUME NotifyIInv, NEW p \in Processes, Drop(p) PROVE NotifyIInv'
<1>0. NotifyTypes /\ EventsCounted /\ CopiesBehind /\ StreamHears /\ WorkerHears /\ CancelsCommitted
  BY DEF NotifyIInv
<1>1. /\ task' = task /\ api' = api /\ worker' = worker /\ signalled' = signalled
      /\ snapshot' = snapshot /\ stream' = stream /\ got' = got
      /\ wire' = [wire EXCEPT ![p] = {}]
  BY DEF Drop
<1>2. lost' \in 0..MaxLost /\ lost' > 0
  BY <1>0, NotificationAssumption DEF Drop, NotifyTypes
<1>3. wire' \in [Processes -> SUBSET Messages] /\ wire'["worker"] \subseteq wire["worker"]
  BY <1>0, <1>1 DEF NotifyTypes, Processes
<1>4. NotifyTypes'
  BY <1>0, <1>1, <1>2, <1>3 DEF NotifyTypes
<1>5. EventsCounted' /\ CopiesBehind'
  BY <1>0, <1>1 DEF EventsCounted, CopiesBehind
<1>6. StreamHears' /\ WorkerHears'
  BY <1>2 DEF StreamHears, WorkerHears
<1>7. CancelsCommitted'
  BY <1>0, <1>1, <1>3 DEF CancelsCommitted
<1> QED
  BY <1>4, <1>5, <1>6, <1>7 DEF NotifyIInv

LEMMA PruneNotifies == ASSUME NotifyIInv, PruneCancellation PROVE NotifyIInv'
<1>0. NotifyTypes /\ EventsCounted /\ CopiesBehind /\ StreamHears /\ WorkerHears /\ CancelsCommitted
  BY DEF NotifyIInv
<1>1. /\ task' = task /\ api' = api /\ worker' = worker /\ signalled' = FALSE /\ wire' = wire
      /\ lost' = lost /\ snapshot' = snapshot /\ stream' = stream /\ got' = got
  BY DEF PruneCancellation
<1>2. NotifyTypes'
  BY <1>0, <1>1 DEF NotifyTypes
<1>3. EventsCounted' /\ CopiesBehind'
  BY <1>0, <1>1 DEF EventsCounted, CopiesBehind
<1>4. StreamHears' /\ WorkerHears' /\ CancelsCommitted'
  BY <1>0, <1>1 DEF StreamHears, WorkerHears, CancelsCommitted
<1> QED
  BY <1>2, <1>3, <1>4 DEF NotifyIInv

\* The idle rounds of the worker.
LEMMA IdleNotifies == ASSUME NotifyIInv, Loop \/ Sleep \/ WorkerWakes PROVE NotifyIInv'
<1>0. NotifyTypes /\ EventsCounted /\ CopiesBehind /\ StreamHears /\ WorkerHears /\ CancelsCommitted
  BY DEF NotifyIInv
<1>1. /\ task' = task /\ api' = api /\ signalled' = signalled /\ wire' = wire
      /\ lost' = lost /\ snapshot' = snapshot /\ stream' = stream /\ got' = got
  BY DEF Loop, Sleep, WorkerWakes
<1>2. worker \in WorkerThreads
  BY <1>0 DEF NotifyTypes
<1>3. /\ worker' \in WorkerThreads /\ worker'.todo = worker.todo /\ worker'.copy = worker.copy
      /\ worker'.left = worker.left
      /\ worker.at # "run" /\ worker'.at # "run"
      /\ worker'.at \in {"empty", "wait"} => worker.at = "empty" /\ worker'.woken = worker.woken
  <2>1. CASE Loop
    <3>1. worker' = [worker EXCEPT !.at = "claim", !.woken = FALSE] /\ worker.at = "top"
      BY <2>1 DEF Loop
    <3> QED
      BY <1>2, <3>1 DEF WorkerThreads
  <2>2. CASE Sleep
    <3>1. worker' = [worker EXCEPT !.at = "wait"] /\ worker.at = "empty"
      BY <2>2 DEF Sleep
    <3> QED
      BY <1>2, <3>1 DEF WorkerThreads
  <2>3. CASE WorkerWakes
    <3>1. worker' = [worker EXCEPT !.at = "top", !.woken = FALSE] /\ worker.at = "wait"
      BY <2>3 DEF WorkerWakes
    <3> QED
      BY <1>2, <3>1 DEF WorkerThreads
  <2> QED
    BY <2>1, <2>2, <2>3
<1>4. NotifyTypes'
  BY <1>0, <1>1, <1>3 DEF NotifyTypes
<1>5. EventsCounted' /\ CopiesBehind'
  BY <1>0, <1>1, <1>3 DEF EventsCounted, CopiesBehind
<1>6. StreamHears' /\ CancelsCommitted'
  BY <1>0, <1>1, <1>3 DEF StreamHears, CancelsCommitted
<1>7. WorkerHears'
  BY <1>0, <1>1, <1>3 DEF WorkerHears
<1> QED
  BY <1>4, <1>5, <1>6, <1>7 DEF NotifyIInv

\* What a step of the stream or the expiry of the snapshot has to respect: a
\* stream that has listed the events knows of all of them, or knows that the
\* batch was cut off, or was in that state already.
LEMMA StreamNotifies ==
    ASSUME NotifyIInv,
           task' = task, api' = api, worker' = worker, signalled' = signalled, wire' = wire,
           lost' = lost,
           stream' \in StreamStates, got' \in Nat,
           stream'.copy \in {stream.copy, NoTask, task},
           snapshot' \in {snapshot, NoTask, stream.copy},
           stream'.at \in {"task", "fill", "wait"} =>
               \/ got' >= task.events \/ stream'.full \/ task.status = "deleted"
               \/ /\ stream.at \in {"task", "fill", "wait"} /\ stream'.woken = stream.woken
                  /\ stream'.full = stream.full /\ got' = got
    PROVE  NotifyIInv'
<1>0. NotifyTypes /\ EventsCounted /\ CopiesBehind /\ StreamHears /\ WorkerHears /\ CancelsCommitted
  BY DEF NotifyIInv
<1>1. snapshot' \in TaskRows /\ task' \in TaskRows /\ Behind(task, task') /\ task.events \in Nat
  BY <1>0, NotifyFields, NoTaskFacts, BehindSelf DEF NotifyTypes
<1>2. NotifyTypes'
  BY <1>0, <1>1 DEF NotifyTypes
<1>3. EventsCounted'
  BY <1>0 DEF EventsCounted
<1>4. CopiesBehind'
  BY <1>0, <1>1, CopiesMove
<1>5. StreamHears'
  <2>1. CASE stream'.at \notin {"task", "fill", "wait"}
    BY <2>1 DEF StreamHears
  <2>2. CASE got' >= task.events
    <3>1. ~(got' < task'.events)
      BY <1>1, <2>2
    <3> QED
      BY <3>1 DEF StreamHears
  <2>3. CASE stream'.full
    BY <2>3 DEF StreamHears
  <2>4. CASE task.status = "deleted"
    BY <2>4 DEF StreamHears
  <2>5. CASE /\ stream.at \in {"task", "fill", "wait"} /\ stream'.woken = stream.woken
             /\ stream'.full = stream.full /\ got' = got
    BY <1>0, <2>5 DEF StreamHears
  <2> QED
    BY <2>1, <2>2, <2>3, <2>4, <2>5
<1>6. WorkerHears' /\ CancelsCommitted'
  BY <1>0 DEF WorkerHears, CancelsCommitted
<1> QED
  BY <1>2, <1>3, <1>4, <1>5, <1>6 DEF NotifyIInv

LEMMA ConnectNotifies ==
    ASSUME NotifyIInv, Connect \/ TakeCursor \/ StreamWakes \/ SnapshotExpires
    PROVE  NotifyIInv'
<1>0. NotifyTypes /\ stream \in StreamStates /\ got \in Nat
  BY DEF NotifyIInv, NotifyTypes
<1>1. CASE Connect \/ StreamWakes
  <2>1. /\ stream' = [Off EXCEPT !.at = "cursor"]
        /\ task' = task /\ api' = api /\ worker' = worker /\ signalled' = signalled
        /\ wire' = wire /\ lost' = lost /\ snapshot' = snapshot /\ got' = got
    BY <1>1 DEF Connect, StreamWakes
  <2>2. stream' \in StreamStates /\ stream'.at = "cursor" /\ stream'.copy = NoTask
    BY <2>1, NoTaskFacts DEF Off, StreamStates
  <2> QED
    BY <1>0, <2>1, <2>2, StreamNotifies
<1>2. CASE TakeCursor
  <2>1. /\ stream' = [stream EXCEPT !.at = "list", !.woken = FALSE]
        /\ task' = task /\ api' = api /\ worker' = worker /\ signalled' = signalled
        /\ wire' = wire /\ lost' = lost /\ snapshot' = snapshot /\ got' = got
    BY <1>2 DEF TakeCursor
  <2>2. stream' \in StreamStates /\ stream'.at = "list" /\ stream'.copy = stream.copy
    BY <1>0, <2>1 DEF StreamStates
  <2> QED
    BY <1>0, <2>1, <2>2, StreamNotifies
<1>3. CASE SnapshotExpires
  <2>1. /\ snapshot' = NoTask /\ stream' = stream
        /\ task' = task /\ api' = api /\ worker' = worker /\ signalled' = signalled
        /\ wire' = wire /\ lost' = lost /\ got' = got
    BY <1>3 DEF SnapshotExpires
  <2> QED
    BY <1>0, <2>1, StreamNotifies
<1> QED
  BY <1>1, <1>2, <1>3

LEMMA ListEventsNotifies == ASSUME NotifyIInv, ListEvents PROVE NotifyIInv'
<1> DEFINE upto == IF task.events < got + EventLimit THEN task.events ELSE got + EventLimit
<1>0. /\ NotifyTypes /\ stream \in StreamStates /\ got \in Nat /\ task.events \in Nat
      /\ EventLimit \in Nat
  BY NotifyFields DEF NotifyIInv, NotifyTypes
<1>1. /\ task' = task /\ api' = api /\ worker' = worker /\ signalled' = signalled
      /\ wire' = wire /\ lost' = lost /\ snapshot' = snapshot
  BY DEF ListEvents
<1>2. CASE task.status = "deleted"
  <2>1. stream' = Off /\ got' = got
    BY <1>2 DEF ListEvents
  <2> QED
    BY <1>0, <1>1, <2>1, NoTaskFacts, StreamNotifies
<1>3. CASE task.status # "deleted"
  <2>1. PICK to \in (IF upto > got THEN got + 1 ELSE got)..upto :
            got' = to /\ stream' = Listed(to, upto)
    BY <1>3 DEF ListEvents
  <2>2. upto \in Nat /\ (upto >= task.events \/ upto = got + EventLimit)
    BY <1>0
  <2>3. to \in Nat /\ to <= upto
    BY <1>0, <2>1, <2>2
  <2> HIDE DEF upto
  <2>4. CASE to < upto
    <3>1. stream' = Off
      BY <2>1, <2>4 DEF Listed
    <3> QED
      BY <1>0, <1>1, <2>1, <2>3, <3>1, NoTaskFacts, StreamNotifies
  <2>5. CASE ~(to < upto)
    <3>1. to = upto
      BY <2>2, <2>3, <2>5
    <3>2. stream' = [stream EXCEPT !.at = "task", !.full = (upto = got + EventLimit)]
      BY <2>1, <2>5 DEF Listed
    <3>3. (upto = got + EventLimit) \in BOOLEAN
      OBVIOUS
    <3>4. /\ stream' \in StreamStates /\ stream'.copy = stream.copy
          /\ stream'.full = (upto = got + EventLimit)
      BY <1>0, <3>2, <3>3 DEF StreamStates
    <3>5. got' \in Nat /\ (got' >= task.events \/ stream'.full)
      BY <2>1, <2>2, <3>1, <3>4
    <3> QED
      BY <1>1, <3>4, <3>5, StreamNotifies
  <2> QED
    BY <2>4, <2>5
<1> QED
  BY <1>2, <1>3

LEMMA StreamStopsFacts ==
    ASSUME stream \in StreamStates, NEW t
    PROVE  /\ StreamStops(t) \in StreamStates /\ StreamStops(t).copy = NoTask
           /\ StreamStops(t).at \in {"off", "wait"}
           /\ StreamStops(t).at = "wait" =>
                 StreamStops(t).woken = stream.woken /\ StreamStops(t).full = stream.full
<1>1. CASE Terminal(t)
  BY <1>1, NoTaskFacts DEF StreamStops
<1>2. CASE ~Terminal(t)
  <2>1. StreamStops(t) = [stream EXCEPT !.at = "wait", !.copy = NoTask]
    BY <1>2 DEF StreamStops
  <2> QED
    BY <2>1, NoTaskFacts DEF StreamStates
<1> QED
  BY <1>1, <1>2

LEMMA CheckTaskNotifies == ASSUME NotifyIInv, CheckTask \/ FillFromStream PROVE NotifyIInv'
<1>0. NotifyTypes /\ stream \in StreamStates /\ got \in Nat /\ task \in TaskRows
  BY DEF NotifyIInv, NotifyTypes
<1>1. /\ task' = task /\ api' = api /\ worker' = worker /\ signalled' = signalled
      /\ wire' = wire /\ lost' = lost /\ got' = got
  BY DEF CheckTask, FillFromStream
<1>2. CASE CheckTask
  <2>1. stream.at = "task" /\ snapshot' = snapshot
    BY <1>2 DEF CheckTask
  <2>2. CASE snapshot # NoTask
    <3>1. stream' = StreamStops(snapshot)
      BY <1>2, <2>2 DEF CheckTask
    <3> QED
      BY <1>0, <1>1, <2>1, <3>1, StreamStopsFacts, StreamNotifies
  <2>3. CASE snapshot = NoTask /\ task.status = "deleted"
    <3>1. stream' = Off
      BY <1>2, <2>3 DEF CheckTask
    <3> QED
      BY <1>0, <1>1, <2>1, <3>1, NoTaskFacts, StreamNotifies
  <2>4. CASE snapshot = NoTask /\ task.status # "deleted"
    <3>1. stream' = [stream EXCEPT !.at = "fill", !.copy = task]
      BY <1>2, <2>4 DEF CheckTask
    <3>2. /\ stream' \in StreamStates /\ stream'.copy = task /\ stream'.woken = stream.woken
          /\ stream'.full = stream.full
      BY <1>0, <3>1 DEF StreamStates
    <3> QED
      BY <1>0, <1>1, <2>1, <3>2, StreamNotifies
  <2> QED
    BY <2>2, <2>3, <2>4
<1>3. CASE FillFromStream
  <2>1. /\ stream.at = "fill" /\ snapshot' \in {stream.copy, snapshot}
        /\ stream' = StreamStops(stream.copy)
    BY <1>3 DEF FillFromStream, CacheWrite
  <2> QED
    BY <1>0, <1>1, <2>1, StreamStopsFacts, StreamNotifies
<1> QED
  BY <1>2, <1>3

LEMMA NotifyNextInv == NotifyIInv /\ [NotifyNext]_notifyVars => NotifyIInv'
<1> SUFFICES ASSUME NotifyIInv, [NotifyNext]_notifyVars PROVE NotifyIInv'
  OBVIOUS
<1>1. CASE CreateTask \/ RequestCancel \/ DeleteSession \/ ApiStep
  BY <1>1, CreateTaskNotifies, RequestCancelNotifies, DeleteSessionNotifies, ApiStepNotifies
<1>2. CASE WorkerRuns \/ RecordProgress \/ MarkSettled
  BY <1>2, IdleNotifies, ClaimNextNotifies, WorkerStepNotifies, ProgressNotifies DEF WorkerRuns
<1>3. CASE Connect \/ StreamStep \/ SnapshotExpires
  BY <1>3, ConnectNotifies, ListEventsNotifies, CheckTaskNotifies DEF StreamStep
<1>4. CASE \E p \in Processes : Receive(p) \/ Drop(p)
  BY <1>4, ReceiveNotifies, DropNotifies
<1>5. CASE PruneCancellation
  BY <1>5, PruneNotifies
<1>6. CASE UNCHANGED notifyVars
  <2>1. /\ task' = task /\ api' = api /\ worker' = worker /\ signalled' = signalled /\ wire' = wire
        /\ lost' = lost /\ snapshot' = snapshot /\ stream' = stream /\ got' = got
    BY <1>6 DEF notifyVars
  <2>2. stream \in StreamStates /\ got \in Nat
    BY DEF NotifyIInv, NotifyTypes
  <2> QED
    BY <2>1, <2>2, StreamNotifies
<1> QED
  BY <1>1, <1>2, <1>3, <1>4, <1>5, <1>6 DEF NotifyNext

\* For any number of progress events, any limit of list_events and any number of
\* lost messages: a stream or a worker that sleeps while something waits for it
\* has been signalled or will be, unless a message was lost or the batch was cut
\* off; the cancellation that check_cancelled finds in memory is in the database;
\* and the cached task is a row that was committed.
THEOREM NotifyInvariant == NotifySpec => []NotifyInv
<1>1. NotifyIInv => NotifyInv
  BY NotifyIInvImplies
<1> QED
  BY <1>1, NotifyInitInv, NotifyNextInv, PTL DEF NotifySpec
=============================================================================
