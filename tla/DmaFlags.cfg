SPECIFICATION Spec
CONSTANTS
    Users <- ThreeUsers
    Units = 2
    Rounds = 2
    Resetters <- Apart
INVARIANTS TrueCompletion
PROPERTIES EveryTransferSeen
CHECK_DEADLOCK FALSE
