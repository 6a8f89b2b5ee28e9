CONSTANTS
  ClockModulus = 6
  WarningTime = 220
  CriticalTime = 125
  EmergencyTime = 65
  StationaryWarning = 7500
  StationaryCritical = 4500
  StationaryEmergency = 2200
  ReactionTime = 55
  BrakingDeceleration = 180
  SafetyMargin = 2500
  EmergencyPersistence = 2
  SensorFaultCutPersistence = 3
  MovingSpeedFloor = 5
  ResetMaxSpeed = 3
  LatchMotorCut = TRUE
  Speeds = {0, 100}
  Ranges = {2000, 30000}
  Direction = "FORWARD"
  RelayEnabled = TRUE
  SafetyPeriod = 1
  MaxGap = 2
SPECIFICATION Spec
INVARIANTS
  NearestIsNullOrARange
