SPECIFICATION FairSpec
CONSTANTS
  StageDwell = 8
  RecoveryConfirmation = 2
  MaxInterval = 2
  RestartDelay = 8
  TargetInGeofence = TRUE
INVARIANTS
  TypeOK
  EscalationIsPaced
  EscalationIsTimely
PROPERTIES
  RecoveryIsConfirmed
  CrashDoesNotRepeat
  ImplementsFallbackLadder
  PersistentFeasibilityRecovers
