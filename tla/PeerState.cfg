SPECIFICATION Spec
CONSTANTS
  PeerA = PeerA
  PeerB = PeerB
  Endpoints <- TwoEndpoints
  MaxAge = 1
  Period = 1
  MaxIteration = 1
  MaxDelay = 1
  MaxSequence = 2
  MaxInFlight = 2
INVARIANTS
  TypeOK
  UnpricedAgeIsBounded
PROPERTIES
  NewestSampleIsKept
