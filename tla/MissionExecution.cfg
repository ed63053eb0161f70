SPECIFICATION Spec
CONSTANTS
  Plans = {p1}
  Actions = {"start", "stop"}
  Situations = {"clear", "unaccepted", "severe", "cbf", "hold", "recommend"}
  PilotModes = {"position"}
  MaxAttempts = 2
  RetryDelay = 2
  SetpointLoss = 1
  MaxInFlight = 1
INVARIANTS
  TypeOK
  FlagsAgree
  LatchEndsExecution
PROPERTIES
  RequestsAreWanted
  ImplementsLifecycle
