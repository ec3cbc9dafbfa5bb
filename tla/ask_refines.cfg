SPECIFICATION FairSpec
CONSTANTS
  alice = alice
  bob = bob
  Aida = Aida
  Chat <- OneChat
  MaxHistory = 2
  Models <- AnyModel
  MaxPrompts = 3
  MaxFaults = 2
CHECK_DEADLOCK FALSE
PROPERTIES
  QueueDrains
  ImplementsChatService
