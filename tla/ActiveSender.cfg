SPECIFICATION Spec
CONSTANTS
  MaxGap = 2
  MinDuration = 3
  MinSamples = 3
  CommandAge = 3
  MaxInterval = 4
  Authorized = TRUE
INVARIANTS
  TypeOK
  LatchedIsSilent
  WarmupEvidenceIsReal
PROPERTIES
  HonoursContract
