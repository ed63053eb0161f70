SPECIFICATION Spec
CONSTANTS
  First = First
  Second = Second
  ReleaseFrames = 2
  ObservationsPerFrame = 2
  MaxEncounters = 2
PROPERTIES
  AlternatesBetweenEncounters
