SPECIFICATION FairSpec
CONSTANTS
  PrestreamFrames = 1
  SettleFrames = 1
  MaxAttempts = 2
  Started <- MCStarted
  PilotModes = {"position", "other"}
INVARIANTS
  TypeOK
  EntryIsBounded
PROPERTIES
  CompanionIsAlone
  RecoveryIsOwed
  AbandonedModeIsLeft
