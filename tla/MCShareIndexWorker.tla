------------------------- MODULE MCShareIndexWorker -------------------------
(* TLC instances of the index workers, the synchronous requests and the     *)
(* operator's commands.                                                     *)
EXTENDS IndexMaintenance, TLC

=============================================================================
