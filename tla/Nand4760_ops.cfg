CONSTANTS
  pagesize = 4096
  ppb = 6
  bad_block_page = 6
  BchBits = {8, 24}
  forceerase = FALSE
  nand_plane = 1
  wp_pin = FALSE
  Blocks = 5
  Requests <- MCRequests
  MaxOps = 3
  MaxFails = 2
  MaxMarksLost = 1
  MaxCorrected = 1
  MaxBad = 1
SPECIFICATION Spec
INVARIANT ReadBack
PROPERTY ImplementsDevice
