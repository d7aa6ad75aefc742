CONSTANTS
  pagesize = 2048
  ppb = 4
  bad_block_page = 3
  EccPos = 6
  nand_force_erase = FALSE
  nand_plane = 1
  nand_bpc = 0
  wp_pin = FALSE
  Blocks = 5
  Requests <- MCFileRequests
  MaxOps = 40
  MaxFails = 1
  MaxMarksLost = 1
  MaxCorrected = 0
  MaxBad = 1
  Lengths = {11000, 20000}
  Blanks = {{5}}
  StartPages = {4}
  Tools = {"usbboot", "jzboot"}
  ChunkPages = 6
  MaxCmds = 2
  MaxLost = 1
SPECIFICATION FileSpec
INVARIANTS
  VerifiedStays
  NoFalseAlarm
  FileReadsBack
  DumpIsFile
