------------------------- MODULE ToolCircuitBreaker -------------------------
(***************************************************************************)
(* ExecutionPolicy and the process-wide CircuitBreaker, for one tool.       *)
(* Every session that runs in the process calls the tool through            *)
(* execute_once: before_call, the call itself, record_result.  The lock is  *)
(* held inside before_call and inside record_result, not between them, so a *)
(* result may be recorded in a state its call never saw.                    *)
(***************************************************************************)
EXTENDS Naturals, FiniteSets

CONSTANTS
    Callers,            \* sessions in flight
    FailureThreshold,   \* failure_threshold
    MaxAttemptsPerTool, \* max_attempts_per_action
    MaxAbandoned        \* bound: calls that leave by an exception

ASSUME BreakerAssumption ==
    /\ IsFiniteSet(Callers)
    /\ FailureThreshold \in Nat \ {0}
    /\ MaxAttemptsPerTool \in Nat \ {0}
    /\ MaxAbandoned \in Nat

VARIABLES
    entry,      \* the _CircuitEntry: waited says that recovery_timeout_seconds
                \* have passed since opened_at
    caller,     \* where each session is in its action
    healthy,    \* whether the provider answers
    abandoned   \* calls that never recorded a result, by the permit they held

breakerVars == <<entry, caller, healthy, abandoned>>

Closed == [state |-> "closed", failures |-> 0, waited |-> FALSE, probing |-> FALSE]

\* A call's permit is "closed" or "half_open" while it runs.
Idle == [at |-> "idle", permit |-> "none", result |-> "none", attempt |-> 1]

BreakerInit ==
    /\ entry = Closed
    /\ caller = [c \in Callers |-> Idle]
    /\ healthy = TRUE
    /\ abandoned = [closed |-> 0, half_open |-> 0]

InFlight(permit) == {c \in Callers : caller[c].at = "calling" /\ caller[c].permit = permit}

----------------------------------------------------------------------------
\* before_call: an entry that has waited long enough turns half open.
Ready(e) == e.state = "open" /\ e.waited

Allowed(e) == e.state = "closed" \/ Ready(e) \/ (e.state = "half_open" /\ ~e.probing)

\* Bug: the flag of the probe in flight is not set.
AdmitUnmarked(e) == IF e.state = "closed" THEN e ELSE [e EXCEPT !.state = "half_open"]

Admit(e) == IF e.state = "closed" THEN e
            ELSE [e EXCEPT !.state = "half_open", !.probing = TRUE]

\* _open keeps the failure count; _close clears everything.
Opened(e) == [e EXCEPT !.state = "open", !.waited = FALSE, !.probing = FALSE]

\* A tracked failure outside half_open; the threshold may be passed again while
\* open, which starts the recovery timeout anew.
Counted(e) == LET more == [e EXCEPT !.failures = @ + 1]
              IN  IF more.failures >= FailureThreshold THEN Opened(more) ELSE more

\* Bug: a failure that is not tracked is ignored while half open too.
RecordIgnoring(e, result) ==
    CASE result = "success" -> Closed
      [] result = "tracked" /\ e.state = "half_open" -> Opened(e)
      [] result = "tracked" /\ e.state # "half_open" -> Counted(e)
      [] OTHER -> e

\* record_result: success closes from any state; a tracked failure reopens a
\* half-open entry and counts in the others; an untracked one closes a
\* half-open entry and is ignored in the others.
Record(e, result) ==
    CASE result = "success" -> Closed
      [] result = "tracked" /\ e.state = "half_open" -> Opened(e)
      [] result = "tracked" /\ e.state # "half_open" -> Counted(e)
      [] result \in {"untracked", "invalid"} /\ e.state = "half_open" -> Closed
      [] OTHER -> e

----------------------------------------------------------------------------
\* execute_once up to the call: the rejected session gets CIRCUIT_OPEN, which
\* is not retryable, and gives the action up.
BeforeCall(c) ==
    /\ caller[c].at = "idle"
    /\ IF Allowed(entry)
         THEN /\ entry' = Admit(entry)
              /\ caller' = [caller EXCEPT ![c] = [@ EXCEPT !.at = "calling",
                                                           !.permit = entry'.state]]
         ELSE /\ caller' = [caller EXCEPT ![c] = Idle]
              /\ UNCHANGED entry
    /\ UNCHANGED <<healthy, abandoned>>

\* ToolRegistry.execute: a handler's answer is a success, an untracked failure
\* (authorization, input) or an invalid output, untracked but retryable; a provider
\* that is down gives a tracked one (rate limit, timeout, upstream, execution).
Answers == {"untracked", "invalid"} \cup (IF healthy THEN {"success"} ELSE {"tracked"})

RecordResult(c) ==
    /\ caller[c].at = "calling"
    /\ \E result \in Answers :
         /\ entry' = Record(entry, result)
         /\ caller' = [caller EXCEPT ![c] = [@ EXCEPT !.at = "decide", !.permit = "none",
                                                      !.result = result]]
    /\ UNCHANGED <<healthy, abandoned>>

\* TaskCancellationRequested and TaskLeaseLostError leave execute, and so does
\* a database error of the cancellation check before the input is validated:
\* record_result is not reached.
Abandon(c) ==
    /\ caller[c].at = "calling"
    /\ abandoned.closed + abandoned.half_open < MaxAbandoned
    /\ caller' = [caller EXCEPT ![c] = Idle]
    /\ abandoned' = [abandoned EXCEPT ![caller[c].permit] = @ + 1]
    /\ UNCHANGED <<entry, healthy>>

\* decide_retry: only retryable results, while attempts are left and the entry
\* is not open.
DecideRetry(c) ==
    /\ caller[c].at = "decide"
    /\ caller' = [caller EXCEPT ![c] =
         IF /\ @.result \in {"tracked", "invalid"}
            /\ @.attempt < MaxAttemptsPerTool
            /\ entry.state # "open"
           THEN [Idle EXCEPT !.attempt = caller[c].attempt + 1]
           ELSE Idle]
    /\ UNCHANGED <<entry, healthy, abandoned>>

\* The clock passes opened_at + recovery_timeout_seconds.
RecoveryTimeout ==
    /\ entry.state = "open" /\ ~entry.waited
    /\ entry' = [entry EXCEPT !.waited = TRUE]
    /\ UNCHANGED <<caller, healthy, abandoned>>

ProviderChanges ==
    /\ healthy' = ~healthy
    /\ UNCHANGED <<entry, caller, abandoned>>

BreakerNext ==
    \/ \E c \in Callers : BeforeCall(c) \/ RecordResult(c) \/ Abandon(c) \/ DecideRetry(c)
    \/ RecoveryTimeout
    \/ ProviderChanges

BreakerSpec == BreakerInit /\ [][BreakerNext]_breakerVars

----------------------------------------------------------------------------
\* The variables have their types; no attempt exceeds max_attempts_per_action.
BreakerTypeOK ==
    /\ entry \in [state : {"closed", "open", "half_open"}, failures : Nat,
                  waited : BOOLEAN, probing : BOOLEAN]
    /\ caller \in [Callers -> [at : {"idle", "calling", "decide"},
                               permit : {"none", "closed", "half_open"},
                               result : {"none", "success", "tracked", "untracked", "invalid"},
                               attempt : 1..MaxAttemptsPerTool]]
    /\ healthy \in BOOLEAN
    /\ abandoned \in [closed : Nat, half_open : Nat]

\* A half-open entry has a probe, whoever recorded what in the meantime: the
\* probe that made it half open is still running, or left without recording a
\* result.  Were it otherwise, record_result had let a second request through
\* or had left the entry half open with nobody to settle it.
HalfOpenHasProbe ==
    entry.state = "half_open" =>
        /\ entry.probing
        /\ InFlight("half_open") # {} \/ abandoned.half_open > 0

\* A closed entry is below the threshold, although results of calls admitted
\* before it opened are counted after it closed again.
ClosedBelowThreshold == entry.state = "closed" => entry.failures < FailureThreshold

\* While no probe leaves without a result, the breaker of a provider that has
\* recovered for good is closed again and again: no order of late results and
\* rejections keeps it shut out.
BreakerCloses ==
    <>[](healthy /\ abandoned.half_open = 0) => []<>(entry.state = "closed")

\* What holds of the entry between any two of before_call and record_result of
\* any sessions: a half-open entry has its probe, a closed one is below the
\* threshold.
BreakerInv == BreakerTypeOK /\ HalfOpenHasProbe /\ ClosedBelowThreshold

=============================================================================
