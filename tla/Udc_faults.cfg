CONSTANTS
  FifoSize = 2
  Lens = {1, 3}
  Ops = {"program", "read", "config"}
  FullSpeed = TRUE
  MaxReq = 2
  MaxTimeouts = 1
  MaxResets = 1
SPECIFICATION Spec
INVARIANTS
  NoCounterWrap
  EP0ReadyForSetup
  NoFifoOverrun
  ExchangesInStep
