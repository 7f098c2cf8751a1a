-------------------------- MODULE MCTripTaskStore --------------------------
(* Bounds for TLC: the logs hold MaxLog events together and a task is       *)
(* claimed at most MaxAttempts times.                                       *)
EXTENDS TripTaskStore, TLC, FiniteSetsExt

CONSTANTS MaxLog, MaxAttempts

Bounded ==
    /\ MapThenSumSet(LAMBDA t : Len(events[t]), Tasks) <= MaxLog
    /\ \A t \in Tasks : tasks[t].attempt <= MaxAttempts

\* Task ids, worker ids, keys, users and requests are only compared.
Symmetry ==
    Permutations(Tasks) \cup Permutations(Workers) \cup Permutations(Users)
        \cup Permutations(Keys) \cup Permutations(Requests)
=============================================================================
