SPECIFICATION Spec
CONSTANTS
    Users <- TwoUsers
    Units = 2
    Rounds = 2
    Resetters <- TwoUsers
INVARIANTS ResetClearsFlags
CHECK_DEADLOCK FALSE
