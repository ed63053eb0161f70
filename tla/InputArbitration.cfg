CONSTANTS
    LegacyAutomation = TRUE
    RawAttitude = TRUE
SPECIFICATION Spec
INVARIANTS TypeOK RevokedStaysOut
