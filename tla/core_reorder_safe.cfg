SPECIFICATION Spec
CONSTANTS
  small = small
  big = big
  cloud = cloud
  mirror = mirror
  inproc = inproc
  standalone = standalone
  AgentLine = AgentLine
  Entry <- MCEntry
  ModelId <- MCModelId
  Skill <- MCSkill
  IdOf <- MCIdOf
  SkillsOf <- MCSkillsOf
  VramOf <- MCVramOf
  RamOf <- MCRamOf
  CloudOf <- MCCloudOf
  InProc = inproc
  Improver <- OneImprover
  Versions <- AllThree
  SettingsFiles <- OneSettings
  Hardware <- OneHardware
  MaxServed = 2
  MaxEdits = 0
  MaxFaults = 1
  MinSamples = 2
INVARIANT
  ReorderIsSafe
