CONSTANTS
    Profiles <- MCProfiles
    Judgements <- MCJudgements
    MaxAttempts = 2
SPECIFICATION Spec
CHECK_DEADLOCK FALSE
INVARIANTS LoopInv DeliveredIsVerified ReachesVerdict
PROPERTY RevertIsLocal
