SPECIFICATION SeederFairSpec
CONSTANTS
  qwen = qwen
  llava = llava
  Model <- TwoModels
  FileOf <- OwnFiles
  Starters <- InOrder
  MaxVersion = 2
  MaxFaults = 2
INVARIANTS
  SeederTypeOK
  AnnouncedIsOnDisk
  SeededIsAnnounced
PROPERTY
  StartersSeeded
  LinkStays
