-------------------------- MODULE MCTripTaskWorker --------------------------
(* TLC instances of the worker runtime.                                     *)
EXTENDS TripTaskWorker, TLC

MCMarkOf == [act |-> 27, finish |-> 99]
MCMarks == {27, 29, 99, 100}

\* No action reads the event log, so states that differ only in it have the
\* same futures.  Used by the runs whose properties do not mention the log.
LogFree == <<tasks, wk, ckpt, faults>>

Symmetry == Permutations(Workers)
=============================================================================
