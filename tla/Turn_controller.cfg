CONSTANTS
    MaxTurns = 2
    MaxRounds = 2
    MaxBatch = 1
    MaxShells = 1
SPECIFICATION FairSpec
INVARIANTS TypeOK TurnInv QuietBetweenTurns CancelHitsItsTurn InterruptKeepsSession
PROPERTIES NoGrantAfterInterrupt GrantStaysInTurn CancelledTurnEndsOrAsks
CHECK_DEADLOCK FALSE
