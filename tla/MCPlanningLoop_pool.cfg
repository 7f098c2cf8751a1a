CONSTANTS
    Profiles <- MCProfiles
    Judgements <- MCJudgements
    MaxAttempts = 2
SPECIFICATION Spec
CHECK_DEADLOCK FALSE
INVARIANT ConstraintsSeePool
