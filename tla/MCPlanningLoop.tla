--------------------------- MODULE MCPlanningLoop ---------------------------
(* TLC instances of the planning loop: sessions with different limits, whose *)
(* steps, tool calls and model calls are just what these limits allow.       *)
EXTENDS PlanningLoop, TLC

\* One objection at a time.
MCJudgements == {{}, {"route"}, {"schedule"}, {"commute"}}

Session(tries, searches, repairs, faults, restarts) ==
    LET limits == [steps |-> 1, local |-> 8, tools |-> 0, llm |-> 1 + repairs, repairs |-> repairs,
                   tries |-> [o \in Optimizers |-> IF o \in DOMAIN tries THEN tries[o] ELSE 0],
                   searches |-> searches, repeats |-> 1, idle |-> 3]
    IN  [budget |-> [limits EXCEPT !.steps = CallsAllowed(limits), !.tools = CallsAllowed(limits)],
         faults |-> faults, restarts |-> restarts]

MCProfiles ==
    {Session([route |-> 1, schedule |-> 1, constraint |-> 1], 0, 1, 0, 0),
     Session([commute |-> 1, schedule |-> 1], 1, 1, 0, 0),
     Session([refill |-> 1, constraint |-> 1], 1, 1, 0, 0),
     Session([commute |-> 1, refill |-> 1, schedule |-> 1], 1, 0, 0, 0),
     Session([commute |-> 2, refill |-> 1], 1, 0, 0, 0),
     Session([commute |-> 1, constraint |-> 1], 1, 0, 0, 0),
     Session([route |-> 1, schedule |-> 1, refill |-> 2], 2, 0, 0, 0),
     Session([schedule |-> 1, constraint |-> 1], 0, 2, 0, 0),
     Session([commute |-> 1], 1, 0, 1, 0),
     Session([schedule |-> 1], 0, 0, 1, 1)}
=============================================================================
