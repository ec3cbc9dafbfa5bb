SPECIFICATION SetupSpec
CONSTANTS
  deepseek = deepseek
  coder = coder
  qwen = qwen
  console = console
  desktop = desktop
  Model <- ThreeModels
  FileOf <- OwnFiles
  Starters <- OneStarter
  MaxVersion = 1
  MaxFaults = 0
  Always <- OnEveryMachine
  CodingModel = coder
  GeneralModel = qwen
  Login <- OneShell
  Hardware <- WithoutGpu
  Conversations <- Undecided
  AiProfiles <- CutOff
  FirstAirGapped = FALSE
  SkillsOf <- MCSkillsOf
  VramOf <- MCVramOf
  RamOf <- MCRamOf
  AskedToSeed <- OneModel
  MaxSetups = 1
INVARIANT
  LocalModelsTakeOver
