CONSTANTS
  Scripts <- MCScripts
  Sessions <- MCSessions
  Typed <- MCTyped
  Numbers <- MCNumbers
  Kernels <- MCKernels
  Heap = {0, 65536}
  Sizes = {32768, 65536}
  MaxTyped = 3
  MaxFailed = 2
SPECIFICATION Spec
CHECK_DEADLOCK FALSE
INVARIANTS
  CommandsMatchDevice
  BootFindsMemory
  KernelIntact
PROPERTY BatchStopsAtFailure
