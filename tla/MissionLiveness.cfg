SPECIFICATION FairSpec
CONSTANTS
  Plans = {p1}
  Actions = {"start"}
  Situations = {"clear", "cbf", "severe"}
  PilotModes = {}
  MaxAttempts = 2
  RetryDelay = 1
  SetpointLoss = 1
  MaxInFlight = 1
PROPERTIES
  EnteringResolves
  LatchedFlightLeavesOffboard
