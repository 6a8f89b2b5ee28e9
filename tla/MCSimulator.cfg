SPECIFICATION Spec
CONSTANTS
    Persistence = 3
    MaxJump = 2
    ControlCalls <- SmallControlCalls
INVARIANTS
    PersistentObstacleCuts
    LastAlertIsTheLevel
PROPERTIES
    TruckStandsWhileCut
    CutIsJustified
