----------------------------- MODULE MCXbboot ------------------------------
(***************************************************************************)
(* Configuration files for the checks of SocHeader: documented ones that   *)
(* span the ranges, and ones that are rejected, crash usbboot or pass its  *)
(* checks although the chip cannot do what they say.                       *)
(***************************************************************************)
EXTENDS SocHeader

Config(ext, speed, div, baud, width, banks, row, col, ps, oob, ppb) ==
  [i \in Items |->
     CASE i = "EXTCLK" -> ext [] i = "CPUSPEED" -> speed [] i = "PHMDIV" -> div
       [] i = "BOUDRATE" -> baud [] i = "BUSWIDTH" -> width [] i = "BANKS" -> banks
       [] i = "ROWADDR" -> row [] i = "COLADDR" -> col [] i = "PAGESIZE" -> ps
       [] i = "OOBSIZE" -> oob [] i = "PAGEPERBLOCK" -> ppb]
Clocked(ext, speed, div) == Config(ext, speed, div, 57600, 16, 4, 13, 9, 2048, 64, 128)
Sized(width, banks, row, col) == Config(12, 252, 3, 57600, width, banks, row, col, 4096, 128, 128)

MCConfigs ==
  {Clocked(12, 252, 3), Clocked(24, 240, 4), Clocked(13, 156, 2), Clocked(19, 228, 3),
   Clocked(12, 48, 32), Clocked(12, 96, 1), Clocked(12, 336, 3), Clocked(12, 264, 3), Clocked(12, 252, 5)}
  \cup {Sized(w, b, r, c) : w \in {16, 32}, b \in {2, 4}, r \in {11, 13}, c \in {8, 12}}
  \cup {Clocked(0, 252, 3), Clocked(12, 252, 0), Clocked(28, 252, 3), Clocked(16, 144, 33),
        Clocked(25, 250, 2), Sized(16, 8, 13, 9), Sized(16, 4, 14, 9),
        Config(12, 252, 3, 57600, 16, 4, 13, 9, 512, 64, 32)}
MCPins == {20, 80, 121}
MCLinePins == {20, 126}
=============================================================================
