SPECIFICATION Spec
CONSTANTS
  StageDwell = 8
  RecoveryConfirmation = 2
  MaxInterval = 2
  RestartDelay = 8
  TargetInGeofence = TRUE
INVARIANT AltitudeKnownInAltitudeSeparation
