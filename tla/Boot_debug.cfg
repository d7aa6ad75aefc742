CONSTANTS
  Cpu = 4740
  Commands = {"boot", "memtest", "gpio"}
  MaxCmds = 3
  MaxFailed = 0
  MaxRestarts = 0
SPECIFICATION Spec
INVARIANT BootMakesStage2
