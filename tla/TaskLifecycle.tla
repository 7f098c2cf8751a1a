--------------------------- MODULE TaskLifecycle ---------------------------
(***************************************************************************)
(* What the asynchronous task API promises a client about one task, however *)
(* many workers, processes and failures are behind it: the life of a task   *)
(* is submitted, executed in one or more attempts, and settled once.        *)
(***************************************************************************)
EXTENDS Naturals

CONSTANT Tasks

VARIABLES
    phase,      \* where the task is in its life
    asked,      \* the client has asked for its cancellation
    attempts,   \* how often an execution has begun
    shown       \* the progress shown to the client, in percent

lifeVars == <<phase, asked, attempts, shown>>

Outcomes == {"succeeded", "failed", "cancelled", "timed_out"}

Init ==
    /\ phase = [t \in Tasks |-> "absent"]
    /\ asked = [t \in Tasks |-> FALSE]
    /\ attempts = [t \in Tasks |-> 0]
    /\ shown = [t \in Tasks |-> 0]

Submit(t) ==
    /\ phase[t] = "absent"
    /\ phase' = [phase EXCEPT ![t] = "queued"]
    /\ UNCHANGED <<asked, attempts, shown>>

\* An attempt begins, the first one or a recovery; never after a cancellation
\* was asked for, and never with less progress than was shown.
Begin(t) ==
    /\ phase[t] \in {"queued", "running"}
    /\ ~asked[t]
    /\ phase' = [phase EXCEPT ![t] = "running"]
    /\ attempts' = [attempts EXCEPT ![t] = @ + 1]
    /\ \E p \in {shown[t], 1} : p >= shown[t] /\ shown' = [shown EXCEPT ![t] = p]
    /\ UNCHANGED asked

\* Progress only grows, and 100 percent is kept for success.
Advance(t) ==
    /\ phase[t] = "running"
    /\ shown'[t] \in shown[t]..99
    /\ shown' = [shown EXCEPT ![t] = shown'[t]]
    /\ UNCHANGED <<phase, asked, attempts>>

\* A task that no worker has begun is cancelled at once.
AskCancel(t) ==
    /\ phase[t] \in {"queued", "running"}
    /\ asked' = [asked EXCEPT ![t] = TRUE]
    /\ phase' = [phase EXCEPT ![t] = IF @ = "queued" THEN "cancelled" ELSE @]
    /\ UNCHANGED <<attempts, shown>>

\* The one outcome of a task that was begun.
Settle(t, outcome) ==
    /\ phase[t] = "running"
    /\ outcome = "cancelled" => asked[t]
    /\ phase' = [phase EXCEPT ![t] = outcome]
    /\ shown' = [shown EXCEPT ![t] = IF outcome = "succeeded" THEN 100 ELSE @]
    /\ UNCHANGED <<asked, attempts>>

Delete(t) ==
    /\ phase[t] \notin {"absent", "deleted"}
    /\ phase' = [phase EXCEPT ![t] = "deleted"]
    /\ asked' = [asked EXCEPT ![t] = FALSE]
    /\ attempts' = [attempts EXCEPT ![t] = 0]
    /\ shown' = [shown EXCEPT ![t] = 0]

Next ==
    \E t \in Tasks :
        \/ Submit(t) \/ Begin(t) \/ Advance(t) \/ AskCancel(t) \/ Delete(t)
        \/ \E outcome \in Outcomes : Settle(t, outcome)

Spec == Init /\ [][Next]_lifeVars

=============================================================================
