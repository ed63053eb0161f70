SPECIFICATION FairSpec
CONSTANTS
  HoldFrames = 2
  LegacyAutomation = TRUE
INVARIANTS
  TypeOK
  FollowingWasConfirmed
  TargetIsSelected
PROPERTIES
  HoldIsTerminal
  AttemptIsDecided
