SPECIFICATION FairSpec
CONSTANTS
  small = small
  big = big
  cloud = cloud
  mirror = mirror
  inproc = inproc
  standalone = standalone
  AgentLine = AgentLine
  Entry <- MCEntry
  ModelId <- MCModelId
  Skill <- OneSkill
  IdOf <- MCIdOf
  SkillsOf <- AllCoding
  VramOf <- MCVramOf
  RamOf <- MCRamOf
  CloudOf <- MCCloudOf
  InProc = inproc
  Improver <- TwoImprovers
  Versions <- SwapsCloud
  SettingsFiles <- CloudFirst
  Hardware <- OneHardware
  MaxServed = 2
  MaxEdits = 1
  MaxFaults = 1
  MinSamples = 2
INVARIANTS
  OnlyReordered
  IntactUnlessKilled
  UnloggedBounded
PROPERTY
  PromotionReachesDisk
