SPECIFICATION Spec
CONSTANTS
  small = small
  big = big
  cloud = cloud
  mirror = mirror
  inproc = inproc
  standalone = standalone
  AgentLine = AgentLine
  Entry <- MCEntry
  ModelId <- MCModelId
  Skill <- MCSkill
  IdOf <- MCIdOf
  SkillsOf <- MCSkillsOf
  VramOf <- MCVramOf
  RamOf <- MCRamOf
  CloudOf <- MCCloudOf
  InProc = inproc
  Improver <- OneImprover
  Versions <- DropsCloud
  SettingsFiles <- OneSettings
  Hardware <- OneHardware
  MaxServed = 2
  MaxEdits = 1
  MaxFaults = 0
  MinSamples = 2
INVARIANT
  UserEditKept
