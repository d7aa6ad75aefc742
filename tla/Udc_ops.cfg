CONSTANTS
  FifoSize = 2
  Lens = {2, 3}
  Ops = {"query", "mark_bad", "erase", "program", "read", "read_oob", "read_raw", "read_to_ram", "config", "sdram"}
  FullSpeed = FALSE
  MaxReq = 2
  MaxTimeouts = 0
  MaxResets = 1
SPECIFICATION FairSpec
INVARIANTS
  TypeOK
  ExchangesInStep
PROPERTY ExchangeCompletes
