CONSTANTS
  Cpu = 4740
  Commands = {"boot", "memtest", "gpio", "nand", "reset", "go"}
  MaxCmds = 4
  MaxFailed = 2
  MaxRestarts = 2
SPECIFICATION FairSpec
INVARIANTS
  TypeOK
  ConfiguredRight
  BootReportsStage2
  LostForCause
  MemtestHonest
  EP1Drained
PROPERTY CommandEnds
