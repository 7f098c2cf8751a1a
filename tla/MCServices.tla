----------------------------- MODULE MCServices -----------------------------
(***************************************************************************)
(* The services around a planning task that do not touch each other's      *)
(* state: the circuit breaker of a tool, the notifications of a task, the  *)
(* Redis client with its quotas.  focus picks the one that moves; the      *)
(* others stay in their first state, so that the instances add up.          *)
(***************************************************************************)
EXTENDS ToolCircuitBreaker, TaskNotifications, RedisGuard

VARIABLE focus

MCLimit == <<1, 1>>

servicesVars == <<focus, breakerVars, notifyVars, guardVars>>

Init ==
    /\ focus \in {"breaker", "notify", "guard"}
    /\ BreakerInit /\ NotifyInit /\ GuardInit
    /\ focus # "guard" => failOpen

Breaking ==
    /\ focus = "breaker" /\ BreakerNext
    /\ UNCHANGED <<focus, notifyVars, guardVars>>

Notifying ==
    /\ focus = "notify" /\ NotifyNext
    /\ UNCHANGED <<focus, breakerVars, guardVars>>

Guarding ==
    /\ focus = "guard" /\ GuardNext
    /\ UNCHANGED <<focus, breakerVars, notifyVars>>

Next == Breaking \/ Notifying \/ Guarding

----------------------------------------------------------------------------
\* Time passes, a call ends (every client has a timeout) and sessions keep
\* asking for the tool; the provider owes nothing.
BreakerFairness ==
    /\ WF_breakerVars(focus = "breaker" /\ RecoveryTimeout)
    /\ \A c \in Callers :
          WF_breakerVars(focus = "breaker" /\ (BeforeCall(c) \/ RecordResult(c) \/ DecideRetry(c)))

\* Threads run, waits time out, keys expire and EventSource reconnects; nobody
\* has to cancel or delete, and no message has to arrive.
NotifyFairness ==
    /\ WF_notifyVars(focus = "notify" /\ ApiStep)
    /\ WF_notifyVars(focus = "notify" /\ (WorkerRuns \/ MarkSettled))
    /\ WF_notifyVars(focus = "notify" /\ (StreamStep \/ Connect))
    /\ WF_notifyVars(focus = "notify" /\ SnapshotExpires)

\* Commands end by their socket timeout, time passes, Redis is restarted by its
\* operators, and the metrics endpoint asks for the health again and again.
GuardFairness ==
    /\ \A t \in Requesters : WF_guardVars(focus = "guard" /\ RequestStep(t))
    /\ WF_guardVars(focus = "guard" /\ (StartCheck \/ ReplyArrives(Checker) \/ CheckPasses \/ CheckFails))
    /\ WF_guardVars(focus = "guard" /\ CooldownEnds)
    /\ \A p \in Policies : WF_guardVars(focus = "guard" /\ WindowEnds(p))
    /\ WF_guardVars(focus = "guard" /\ RedisReturns)

Spec ==
    /\ Init /\ [][Next]_servicesVars
    /\ BreakerFairness /\ NotifyFairness /\ GuardFairness

=============================================================================
