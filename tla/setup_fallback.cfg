SPECIFICATION SetupFairSpec
CONSTANTS
  deepseek = deepseek
  coder = coder
  qwen = qwen
  console = console
  desktop = desktop
  Model <- ThreeModels
  FileOf <- OwnFiles
  Starters <- OneStarter
  MaxVersion = 2
  MaxFaults = 0
  Always <- OnEveryMachine
  CodingModel = coder
  GeneralModel = qwen
  Login <- OneShell
  Hardware <- Boundaries
  Conversations <- Undecided
  AiProfiles <- CutOff
  FirstAirGapped = FALSE
  SkillsOf <- MCSkillsOf
  VramOf <- MCVramOf
  RamOf <- MCRamOf
  AskedToSeed <- OneModel
  MaxSetups = 1
CHECK_DEADLOCK FALSE
PROPERTY
  NoPeersFallsBack
