SPECIFICATION SetupFairSpec
CONSTANTS
  deepseek = deepseek
  coder = coder
  qwen = qwen
  console = console
  desktop = desktop
  Model <- TwoModels
  FileOf <- OwnFiles
  Starters <- OneStarter
  MaxVersion = 1
  MaxFaults = 1
  Always <- OnEveryMachine
  CodingModel = coder
  GeneralModel = coder
  Login <- TwoShells
  Hardware <- WithoutGpu
  Conversations <- PrivateOrNot
  AiProfiles <- CutOff
  FirstAirGapped = FALSE
  SkillsOf <- MCSkillsOf
  VramOf <- MCVramOf
  RamOf <- MCRamOf
  AskedToSeed <- OneModel
  MaxSetups = 2
CHECK_DEADLOCK FALSE
INVARIANTS
  SetupTypeOK
  SavedWasApplied
  SettingsFollowProfile
PROPERTY
  SetupEnds
