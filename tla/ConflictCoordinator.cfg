SPECIFICATION FairSpec
CONSTANTS
  First = First
  Second = Second
  ReleaseFrames = 2
  ObservationsPerFrame = 2
  MaxEncounters = 2
INVARIANTS
  TypeOK
  OneRightOfWay
  LaneChangeIsYielders
PROPERTIES
  RightOfWayIsHeld
  ReleaseIsConfirmed
  LaneChangeIsKept
  SuppressionLifts
