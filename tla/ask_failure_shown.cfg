SPECIFICATION Spec
CONSTANTS
  alice = alice
  bob = bob
  Aida = Aida
  Chat <- OneChat
  MaxHistory = 4
  Models <- LocalOnly
  MaxPrompts = 2
  MaxFaults = 0
CHECK_DEADLOCK FALSE
INVARIANT
  FailureIsShown
