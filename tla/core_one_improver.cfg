SPECIFICATION Spec
CONSTANTS
  small = small
  big = big
  cloud = cloud
  mirror = mirror
  inproc = inproc
  standalone = standalone
  AgentLine = AgentLine
  Entry <- MCEntry
  ModelId <- MCModelId
  Skill <- MCSkill
  IdOf <- MCIdOf
  SkillsOf <- MCSkillsOf
  VramOf <- MCVramOf
  RamOf <- MCRamOf
  CloudOf <- MCCloudOf
  InProc = inproc
  Improver <- OneImprover
  Versions <- RepeatsId
  SettingsFiles <- AirGapSettings
  Hardware <- TwoHardware
  MaxServed = 4
  MaxEdits = 1
  MaxFaults = 1
  MinSamples = 5
INVARIANTS
  TypeOK
  OnlyReordered
  IntactUnlessKilled
  LocalFirst
  PopularFirst
  UsageLossBounded
  UnloggedBounded
  NoRepeatedReorder
PROPERTY
  OrderMovesForward
