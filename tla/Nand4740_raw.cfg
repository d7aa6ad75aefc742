CONSTANTS
  pagesize = 4096
  ppb = 10
  bad_block_page = 9
  EccPos = 24
  nand_force_erase = FALSE
  nand_plane = 1
  nand_bpc = 0
  wp_pin = FALSE
  Blocks = 3
  Requests <- MCRawRequests
  MaxOps = 2
  MaxFails = 0
  MaxMarksLost = 0
  MaxCorrected = 0
  MaxBad = 1
SPECIFICATION Spec
INVARIANT RawDoesNotSkip
