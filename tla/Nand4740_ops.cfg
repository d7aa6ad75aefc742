CONSTANTS
  pagesize = 4096
  ppb = 10
  bad_block_page = 9
  EccPos = 24
  nand_force_erase = FALSE
  nand_plane = 1
  nand_bpc = 0
  wp_pin = FALSE
  Blocks = 4
  Requests <- MCRequests
  MaxOps = 3
  MaxFails = 1
  MaxMarksLost = 1
  MaxCorrected = 1
  MaxBad = 1
SPECIFICATION Spec
INVARIANTS
  TypeOK
  ReadBack
  LoaderLayout
  ProgramAvoidsBadBlocks
  EraseCoversRequest
  SettingsRestored
PROPERTY BadStaysBad
