CONSTANTS
  pagesize = 2048
  ppb = 10
  bad_block_page = 10
  EccPos = 6
  nand_force_erase = TRUE
  nand_plane = 1
  nand_bpc = 2
  wp_pin = TRUE
  Blocks = 2
  Requests <- MCChipRequests
  MaxOps = 2
  MaxFails = 2
  MaxMarksLost = 0
  MaxCorrected = 1
  MaxBad = 2
SPECIFICATION FairSpec
INVARIANT ChipsAgree
PROPERTIES
  OperationEnds
  ImplementsDevice
