----------------------------- MODULE RedisGuard -----------------------------
(***************************************************************************)
(* RedisClientManager shared by the threads of one process, and the fixed   *)
(* window quotas that ProviderQuotaController checks through it before      *)
(* every provider call.  The manager's lock is held inside get_client,      *)
(* _mark_healthy and _mark_degraded, never across a command: a command may  *)
(* end after the manager has been degraded, cooled down or given a new      *)
(* client by somebody else, and so may its success be noted.                *)
(***************************************************************************)
EXTENDS Naturals, FiniteSets

CONSTANTS
    Requesters,  \* threads that call a provider
    Checker,     \* the thread of check_health; the subscriber behaves alike
    Limit,       \* QuotaPolicy.limit of each policy, in the order checked
    MaxOutages   \* bound: times Redis fails

ASSUME GuardAssumption ==
    /\ IsFiniteSet(Requesters) /\ Checker \notin Requesters
    /\ Limit \in [1..2 -> Nat \ {0}]
    /\ MaxOutages \in Nat

Policies == DOMAIN Limit
GuardThreads == Requesters \cup {Checker}
\* A pool is numbered; a number is free once nobody refers to it.
Clients == 1..(Cardinality(GuardThreads) + 1)

VARIABLES
    redis,    \* whether the server answers, and the outages so far
    manager,  \* _client (0: None), whether the cooldown runs, _degraded
    pools,    \* clients created and not closed
    command,  \* per thread: the command under way
    quota,    \* per policy: the key's counter, whether it expires, and the
              \* requests it has admitted since it was created
    failOpen  \* REDIS_PROVIDER_RATE_LIMIT_FAIL_OPEN; never changes

guardVars == <<redis, manager, pools, command, quota, failOpen>>

NoCommand == [at |-> "idle", client |-> 0, policy |-> 0, current |-> 0]
NoKey == [count |-> 0, expires |-> FALSE, admitted |-> 0]

GuardInit ==
    /\ redis = [up |-> TRUE, outages |-> 0]
    /\ manager = [client |-> 0, cooling |-> FALSE, degraded |-> FALSE]
    /\ pools = {}
    /\ command = [t \in GuardThreads |-> NoCommand]
    /\ quota = [p \in Policies |-> NoKey]
    /\ failOpen \in BOOLEAN

----------------------------------------------------------------------------
(* The manager.                                                            *)

\* get_client: None while the cooldown runs, unless the caller forces a retry;
\* otherwise the current client, created when there is none.
Bypassed(force) == manager.cooling /\ ~force

FreshClient == CHOOSE c \in Clients :
                   c \notin pools /\ \A t \in GuardThreads : command[t].client # c

GetClient(t) ==
    LET c == IF manager.client = 0 THEN FreshClient ELSE manager.client
    IN  /\ manager' = [manager EXCEPT !.client = c]
        /\ pools' = pools \cup {c}
        /\ command' = [command EXCEPT ![t] = [@ EXCEPT !.at = "sent", !.client = c]]

\* _mark_healthy, whichever client the success came from.
MarkHealthy == manager' = [manager EXCEPT !.cooling = FALSE, !.degraded = FALSE]

\* _mark_degraded closes the client that is current now, which need not be the
\* one the command failed on.
MarkDegraded ==
    /\ manager' = [client |-> 0, cooling |-> TRUE, degraded |-> TRUE]
    /\ pools' = pools \ {manager.client}

\* Disconnecting a pool breaks the commands on it; a dead server breaks all.
Broken(t) == ~redis.up \/ command[t].client \notin pools

CooldownEnds ==
    /\ manager.cooling
    \* A live server answers, and a closed pool fails, within the cooldown, and the
    \* thread takes note of it.
    /\ redis.up => \A t \in GuardThreads : command[t].at \notin {"sent", "served", "received"}
    /\ manager' = [manager EXCEPT !.cooling = FALSE]
    /\ UNCHANGED <<redis, pools, command, quota, failOpen>>

----------------------------------------------------------------------------
(* check_health.                                                           *)

StartCheck ==
    /\ command[Checker].at = "idle"
    /\ GetClient(Checker)
    /\ UNCHANGED <<redis, quota, failOpen>>

\* operation(client), or the PING, has returned; the manager does not know yet.
ReplyArrives(t) ==
    /\ command[t].at = (IF t = Checker THEN "sent" ELSE "served") /\ ~Broken(t)
    /\ command' = [command EXCEPT ![t] = [@ EXCEPT !.at = "received", !.client = 0]]
    /\ UNCHANGED <<redis, manager, pools, quota, failOpen>>

CheckPasses ==
    /\ command[Checker].at = "received"
    /\ MarkHealthy
    /\ command' = [command EXCEPT ![Checker] = NoCommand]
    /\ UNCHANGED <<redis, pools, quota, failOpen>>

CheckFails ==
    /\ command[Checker].at = "sent" /\ Broken(Checker)
    /\ MarkDegraded
    /\ command' = [command EXCEPT ![Checker] = NoCommand]
    /\ UNCHANGED <<redis, quota, failOpen>>

----------------------------------------------------------------------------
(* ProviderQuotaController._acquire: the policies in order; the first that  *)
(* rejects ends the request, what the earlier ones counted stays counted.   *)

BeginAcquire(t) ==
    /\ command[t].at = "idle"
    /\ command' = [command EXCEPT ![t] = [NoCommand EXCEPT !.at = "check", !.policy = 1]]
    /\ UNCHANGED <<redis, manager, pools, quota, failOpen>>

\* The next policy, or the provider call when none is left.
Passed(t) == IF command[t].policy = Cardinality(Policies) THEN NoCommand
             ELSE [NoCommand EXCEPT !.at = "check", !.policy = command[t].policy + 1]

\* The fallback: fail_open lets the request pass this policy, otherwise it is
\* rejected.
Unasked(t) == IF failOpen THEN Passed(t) ELSE NoCommand

\* The cooldown runs.
AcquireBypassed(t) ==
    /\ command[t].at = "check" /\ Bypassed(FALSE)
    /\ command' = [command EXCEPT ![t] = Unasked(t)]
    /\ UNCHANGED <<redis, manager, pools, quota, failOpen>>

AcquireSent(t) ==
    /\ command[t].at = "check" /\ ~Bypassed(FALSE)
    /\ GetClient(t)
    /\ UNCHANGED <<redis, quota, failOpen>>

\* Bug: the window's length is set by the request that fills it.
KeyCountedLate(p) ==
    [quota[p] EXCEPT !.count = IF @ > Limit[p] THEN @ ELSE @ + 1,
                     !.expires = @ \/ quota[p].count + 1 > Limit[p] + 1]

\* The script: INCRBY, and PEXPIRE for the increment that created the key.
\* Beyond limit + 1 the counter's value makes no difference.
KeyCounted(p) ==
    [quota[p] EXCEPT !.count = IF @ > Limit[p] THEN @ ELSE @ + 1,
                     !.expires = @ \/ quota[p].count = 0]

ScriptRuns(t) ==
    LET p == command[t].policy
    IN  /\ t \in Requesters /\ command[t].at = "sent" /\ ~Broken(t)
        /\ quota' = [quota EXCEPT ![p] = KeyCounted(p)]
        /\ command' = [command EXCEPT ![t] = [@ EXCEPT !.at = "served",
                                                       !.current = KeyCounted(p).count]]
        /\ UNCHANGED <<redis, manager, pools, failOpen>>

\* Bug: a request at the limit plus one still passes.
AdmitsOneMore(p, current) == current <= Limit[p] + 1

Admits(p, current) == current <= Limit[p]

\* _mark_healthy, whatever became of the pool since the reply, and the decision;
\* current = 0 marks an answer whose window has ended meanwhile: it passes, and
\* counts for the old window.
AcquireAnswered(t) ==
    LET p == command[t].policy
        passes == Admits(p, command[t].current)
    IN  /\ t \in Requesters /\ command[t].at = "received"
        /\ MarkHealthy
        /\ command' = [command EXCEPT ![t] = IF passes THEN Passed(t) ELSE NoCommand]
        /\ quota' = IF passes /\ command[t].current # 0
                    THEN [quota EXCEPT ![p].admitted = @ + 1] ELSE quota
        /\ UNCHANGED <<redis, pools, failOpen>>

\* The command fails, before or after the script ran.
AcquireFails(t) ==
    /\ t \in Requesters /\ command[t].at \in {"sent", "served"} /\ Broken(t)
    /\ MarkDegraded
    /\ command' = [command EXCEPT ![t] = Unasked(t)]
    /\ UNCHANGED <<redis, quota, failOpen>>

----------------------------------------------------------------------------
(* The server.                                                             *)

Forget(p) == [t \in GuardThreads |->
                 IF command[t].at \in {"served", "received"} /\ command[t].policy = p
                    /\ Admits(p, command[t].current)
                 THEN [command[t] EXCEPT !.current = 0] ELSE command[t]]

WindowEnds(p) ==
    /\ quota[p].expires
    /\ quota' = [quota EXCEPT ![p] = NoKey]
    /\ command' = Forget(p)
    /\ UNCHANGED <<redis, manager, pools, failOpen>>

RedisFails ==
    /\ redis.up /\ redis.outages < MaxOutages
    /\ redis' = [up |-> FALSE, outages |-> redis.outages + 1]
    /\ UNCHANGED <<manager, pools, command, quota, failOpen>>

RedisReturns ==
    /\ ~redis.up
    /\ redis' = [redis EXCEPT !.up = TRUE]
    /\ UNCHANGED <<manager, pools, command, quota, failOpen>>

RequestStep(t) ==
    \/ BeginAcquire(t)
    \/ AcquireBypassed(t)
    \/ AcquireSent(t)
    \/ ScriptRuns(t)
    \/ ReplyArrives(t)
    \/ AcquireAnswered(t)
    \/ AcquireFails(t)

GuardNext ==
    \/ \E t \in Requesters : RequestStep(t)
    \/ StartCheck
    \/ ReplyArrives(Checker)
    \/ CheckPasses
    \/ CheckFails
    \/ CooldownEnds
    \/ \E p \in Policies : WindowEnds(p)
    \/ RedisFails
    \/ RedisReturns

GuardSpec == GuardInit /\ [][GuardNext]_guardVars

----------------------------------------------------------------------------
\* The variables have their types; there is one client at most that is both
\* current and open, and the current one is open.
GuardTypeOK ==
    /\ redis \in [up : BOOLEAN, outages : 0..MaxOutages]
    /\ manager \in [client : {0} \cup pools, cooling : BOOLEAN, degraded : BOOLEAN]
    /\ pools \subseteq Clients
    /\ command \in [GuardThreads -> [at : {"idle", "check", "sent", "served", "received"},
                                     client : {0} \cup Clients, policy : {0} \cup Policies,
                                     current : 0..(Limit[1] + Limit[2] + 1)]]
    /\ \A p \in Policies :
          quota[p] \in [count : 0..(Limit[p] + 1), expires : BOOLEAN, admitted : Nat]
    /\ failOpen \in BOOLEAN

\* However the commands of several threads interleave with failures, retries
\* and the end of the window, a window never admits more requests than its
\* limit, except those that fail_open lets through while Redis cannot be asked.
QuotaHolds == \A p \in Policies : quota[p].admitted <= Limit[p]

\* Every window ends: a counter never stays in Redis without an expiry, which
\* would lock the provider out for good.
WindowsEnd == \A p \in Policies : []<>(quota[p].count = 0)

\* Late failures on closed pools may close a newer, working client, but once
\* Redis stays up the manager leaves the degraded mode again and again.
RedisRecovers == []<>(~manager.degraded)

\* However failures degrade and replace the client between the checks of the
\* policies, the current client is open and no window admits more than its limit.
GuardInv == GuardTypeOK /\ QuotaHolds

\* Neither a counter nor the degraded mode outlives its cause: every window ends,
\* and the client comes back once Redis does.
RedisComesBack == WindowsEnd /\ RedisRecovers

=============================================================================
