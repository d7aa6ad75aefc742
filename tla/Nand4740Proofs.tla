--------------------------- MODULE Nand4740Proofs ---------------------------
(***************************************************************************)
(* Theorems about Nand4740, for every geometry and any number of chips,    *)
(* every set of requests and any number of failing commands and lost       *)
(* markers: types, settings and bad blocks; then what the driver does to   *)
(* the blocks of the flash, which it marks and unmarks, what an erase      *)
(* request leaves behind, and that the driver implements NandDevice.       *)
(***************************************************************************)
EXTENDS Nand4740, SequenceTheorems, FiniteSetTheorems, TLAPS

\* The driver's settings are the configured ones, or saved while a program
\* request runs, unless a page in the loader's layout failed.
SettingsInv ==
  ~splFail =>
    IF Running("program")
    THEN sav = [oob |-> pagesize \div 32, ecc |-> EccPos]
    ELSE oobsize = pagesize \div 32 /\ ecc_pos = EccPos

\* A request that starts at a block restarts at a block, and is never in the
\* middle of a block marked bad.
AlignedInv ==
  (rq.op = "program" /\ rq.start % ppb = 0) =>
    /\ ~notes.hitBad
    /\ busy => /\ spage % ppb = 0
               /\ cur % ppb # 0 => ~IsBad(flash, cur \div ppb)

\* The inductive invariant.
IndInv == TypeOK /\ SettingsInv /\ AlignedInv

-----------------------------------------------------------------------------
(* Arithmetic of pages and blocks.                                         *)

LEMMA DivModType ==
  ASSUME NEW p \in Nat, NEW m \in Nat \ {0}
  PROVE  p % m \in 0..(m - 1) /\ p \div m \in Nat /\ p = m * (p \div m) + (p % m)
  OBVIOUS

LEMMA DivModUnique ==
  ASSUME NEW q \in Nat, NEW m \in Nat \ {0}, NEW r \in 0..(m - 1), NEW p \in Nat,
         p = m * q + r
  PROVE  p % m = r /\ p \div m = q
  OBVIOUS

\* The next page is in the same block unless it is the first of a block.
LEMMA NextPageSameBlock ==
  ASSUME NEW p \in Nat, NEW m \in Nat \ {0}, (p + 1) % m # 0
  PROVE  (p + 1) \div m = p \div m
  OBVIOUS

\* One block further on is the same page of a block.
LEMMA NextBlockSamePage ==
  ASSUME NEW p \in Nat, NEW m \in Nat \ {0}
  PROVE  (p + m) % m = p % m
<1> DEFINE q == p \div m
           r == p % m
<1>1. q \in Nat /\ r \in 0..(m - 1) /\ p = m * q + r
  BY DivModType
<1>2. m * (q + 1) = m * q + m
  BY <1>1
<1>3. p + m = m * (q + 1) + r
  BY <1>1, <1>2
<1> HIDE DEF q, r
<1>4. (p + m) % m = r
  BY <1>1, <1>3, DivModUnique
<1> QED
  BY <1>4 DEF r

LEMMA Geometry == ppb \in Nat \ {0} /\ Blocks * ppb \in Nat \ {0} /\ pagesize \in Nat \ {0}
<1>1. ppb \in Nat \ {0} /\ Blocks \in Nat \ {0} /\ pagesize \in Nat \ {0}
  BY GeometryAssumption
<1> QED
  BY <1>1

LEMMA ChipType == ASSUME NEW b \in Nat PROVE Chip(b) \in Chips
<1>1. CASE nand_bpc = 0
  BY <1>1 DEF Chip, Chips
<1>2. CASE nand_bpc # 0
  <2>1. nand_bpc \in Nat \ {0}
    BY <1>2, HandAssumption, GeometryAssumption
  <2>2. b \div nand_bpc \in Nat
    BY <2>1, DivModType
  <2>3. (b \div nand_bpc) % 4 \in 0..3
    BY <2>2
  <2> QED
    BY <1>2, <2>3 DEF Chip, Chips
<1> QED
  BY <1>1, <1>2

LEMMA CellType == ASSUME NEW chip \in Chips, NEW p \in Nat PROVE Cell(chip, p) \in Cells
<1>1. p % (Blocks * ppb) \in 0..(Blocks * ppb - 1)
  BY Geometry, DivModType
<1> QED
  BY <1>1 DEF Cell, Cells, Rows

LEMMA MarkerType == ASSUME NEW b \in Nat PROVE MarkerPages(b) \subseteq Nat
<1>1. b * ppb \in Nat /\ ppb \in Nat /\ ppb > 3 /\ bad_block_page \in Nat
  BY GeometryAssumption
<1> QED
  BY <1>1 DEF MarkerPages

-----------------------------------------------------------------------------
(* Contents of the flash.                                                  *)

LEMMA SpecialPages == Erased \in PageSet /\ Zero \in PageSet /\ Garbage \in PageSet
  BY DEF Erased, Zero, Garbage, Page, PageSet

LEMMA SetBlockType ==
  ASSUME NEW f \in [Cells -> PageSet], NEW chip, NEW b, NEW page \in PageSet
  PROVE  SetBlock(f, chip, b, page) \in [Cells -> PageSet]
  BY DEF SetBlock

LEMMA MarkingType ==
  ASSUME CountTypeOK, NEW f \in [Cells -> PageSet], NEW chip, NEW b, Marking(f, chip, b)
  PROVE  flash' \in [Cells -> PageSet] /\ marksLost' \in 0..MaxMarksLost
<1>1. MarkBad(f, chip, b) \in [Cells -> PageSet]
  BY SpecialPages DEF MarkBad
<1> QED
  BY <1>1, BoundAssumption DEF Marking, CountTypeOK

\* Programming a page with anything but zeros marks no block.
LEMMA ProgramKeepsGood ==
  ASSUME NEW f \in [Cells -> PageSet], NEW c \in Cells, NEW page \in PageSet, page # Zero,
         NEW b \in Nat, IsBad([f EXCEPT ![c] = Programmed(@, page)], b)
  PROVE  IsBad(f, b)
<1>1. PICK p \in MarkerPages(b) :
        [f EXCEPT ![c] = Programmed(@, page)][Cell(Chip(b), p)] = Zero
  BY DEF IsBad
<1>2. Cell(Chip(b), p) \in Cells
  BY <1>1, MarkerType, ChipType, CellType
<1>3. Programmed(f[c], page) = Zero => f[c] = Zero
  BY DEF Programmed, Zero, Erased, Garbage, Page
<1>4. f[Cell(Chip(b), p)] = Zero
  BY <1>1, <1>2, <1>3
<1> QED
  BY <1>1, <1>4 DEF IsBad

-----------------------------------------------------------------------------
(* IndInv is inductive.                                                    *)

LEMMA NoteType ==
  /\ \A good, failed \in Nat, hitBad, fresh, lost \in BOOLEAN :
       Note(good, failed, hitBad, fresh, lost) \in NoteSet
  /\ \A nt \in NoteSet : /\ nt.good \in Nat /\ nt.failed \in Nat /\ nt.hitBad \in BOOLEAN
                         /\ nt.fresh \in BOOLEAN /\ nt.lost \in BOOLEAN
<1>1. \A good, failed \in Nat, hitBad, fresh, lost \in BOOLEAN :
        Note(good, failed, hitBad, fresh, lost) \in NoteSet
  BY Zenon DEF Note, NoteSet
<1>2. \A nt \in NoteSet : /\ nt.good \in Nat /\ nt.failed \in Nat /\ nt.hitBad \in BOOLEAN
                          /\ nt.fresh \in BOOLEAN /\ nt.lost \in BOOLEAN
  BY DEF NoteSet
<1> QED
  BY <1>1, <1>2

LEMMA NoneType ==
  /\ NoRequest \in RequestOrNone /\ NoRequest.op = "none" /\ NoNotes \in NoteSet
  /\ NoImage \in [rq : RequestOrNone, id : Nat, datasize : Nat, end : Nat, ecc : Nat,
                  notes : NoteSet]
<1>1. NoRequest \in RequestOrNone /\ NoRequest.op = "none" /\ NoNotes \in NoteSet
  BY NoteType DEF NoRequest, RequestOrNone, NoNotes
<1> QED
  BY <1>1 DEF NoImage

LEMMA RequestType ==
  /\ \A r \in Requests : r \in RequestOrNone
  /\ \A r \in RequestOrNone : r.start \in Nat /\ r.count \in Nat /\ r.option \in Options
  BY RequestAssumption DEF RequestOrNone, RequestSet, NoRequest, Options

LEMMA OobType == pagesize \div 32 \in Nat /\ EccPos \in Nat
  BY GeometryAssumption

LEMMA InitInv == Init => IndInv
<1> SUFFICES ASSUME Init PROVE IndInv
  OBVIOUS
<1>1. FlashTypeOK
  BY SpecialPages DEF Init, FlashTypeOK
<1>2. DriverTypeOK
  <2>1. 0 \in Chips
    BY DEF Chips
  <2>2. <<>> \in Seq(PageSet)
    BY EmptySeq
  <2> QED
    BY <2>1, <2>2, OobType DEF Init, DriverTypeOK
<1>3. LoopTypeOK
  BY NoneType DEF Init, LoopTypeOK
<1>4. CountTypeOK
  BY BoundAssumption DEF Init, CountTypeOK
<1>5. NoteTypeOK
  BY NoneType DEF Init, NoteTypeOK
<1>6. SettingsInv /\ AlignedInv
  BY NoneType DEF Init, SettingsInv, AlignedInv, Running
<1> QED
  BY <1>1, <1>2, <1>3, <1>4, <1>5, <1>6 DEF IndInv, TypeOK

LEMMA nand_init_4740Inv ==
  ASSUME IndInv, nand_init_4740
  PROVE  IndInv'
<1> USE DEF IndInv, TypeOK
<1>1. Chip(0) \in Chips
  BY ChipType
<1>2. FlashTypeOK' /\ DriverTypeOK' /\ LoopTypeOK'
  BY <1>1, OobType DEF nand_init_4740, FlashTypeOK, DriverTypeOK, LoopTypeOK, progVars
<1>3. CountTypeOK' /\ NoteTypeOK'
  <2>1. ops' \in 0..MaxOps
    BY BoundAssumption DEF nand_init_4740, CountTypeOK
  <2> QED
    BY <2>1 DEF nand_init_4740, CountTypeOK, NoteTypeOK
<1>4. SettingsInv' /\ AlignedInv'
  BY DEF nand_init_4740, SettingsInv, AlignedInv, Running
<1> QED
  BY <1>2, <1>3, <1>4

LEMMA nand_mark_bad_4740Inv ==
  ASSUME IndInv, nand_mark_bad_4740
  PROVE  IndInv'
<1> USE DEF IndInv, TypeOK
<1>1. PICK r \in Requests :
        /\ r.op = "mark_bad" /\ rq' = r /\ Marking(flash, sel, r.start)
        /\ ret' = r.start * ppb + IF bad_block_page >= ppb THEN ppb - 1 ELSE bad_block_page
  BY DEF nand_mark_bad_4740
<1>2. /\ ~busy /\ ops < MaxOps /\ wp' = PinLow /\ ops' = ops + 1
      /\ image' = NoImage /\ notes' = NoNotes
      /\ UNCHANGED <<sel, cfgVars, hs3, busy, cur, i, progVars, blk_num, buf, fails, corrected,
                     splFail>>
  BY DEF nand_mark_bad_4740
<1>3. FlashTypeOK' /\ marksLost' \in 0..MaxMarksLost
  BY <1>1, MarkingType DEF FlashTypeOK
<1>4. ret' \in Nat /\ rq' \in RequestOrNone
  <2>1. r.start \in Nat /\ ppb \in Nat /\ ppb > 3 /\ bad_block_page \in Nat
    BY <1>1, RequestType, GeometryAssumption
  <2>2. r.start * ppb \in Nat
    BY <2>1
  <2> QED
    BY <1>1, <2>1, <2>2, RequestType
<1>5. DriverTypeOK' /\ LoopTypeOK'
  BY <1>2, <1>4 DEF DriverTypeOK, LoopTypeOK, cfgVars, progVars, PinLow
<1>6. CountTypeOK' /\ NoteTypeOK'
  BY <1>2, <1>3, NoneType, BoundAssumption DEF CountTypeOK, NoteTypeOK
<1>7. SettingsInv' /\ AlignedInv'
  BY <1>1, <1>2 DEF SettingsInv, AlignedInv, Running, cfgVars
<1> QED
  BY <1>3, <1>5, <1>6, <1>7

\* The common part of the operations' beginnings.
LEMMA StartFacts ==
  ASSUME IndInv, NEW op, Start(op)
  PROVE  /\ rq' \in RequestOrNone /\ rq'.op = op /\ rq'.start \in Nat /\ rq'.count \in Nat
         /\ FlashTypeOK' /\ CountTypeOK' /\ ~busy
<1> USE DEF IndInv, TypeOK
<1>1. PICK r \in Requests : r.op = op /\ rq' = r
  BY DEF Start
<1>2. CountTypeOK'
  BY BoundAssumption DEF Start, CountTypeOK
<1> QED
  BY <1>1, <1>2, RequestType DEF Start, FlashTypeOK

LEMMA EraseStartInv ==
  ASSUME IndInv, EraseStart
  PROVE  IndInv'
<1> USE DEF IndInv, TypeOK
<1>1. /\ rq' \in RequestOrNone /\ rq'.op = "erase" /\ rq'.start \in Nat /\ rq'.count \in Nat
      /\ FlashTypeOK' /\ CountTypeOK' /\ ~busy
  BY StartFacts DEF EraseStart
<1>2. cur' \in Nat
  BY <1>1, Geometry DEF EraseStart
<1>3. DriverTypeOK' /\ LoopTypeOK'
  BY <1>1, <1>2 DEF EraseStart, Start, DriverTypeOK, LoopTypeOK, progVars, PinHigh
<1>4. NoteTypeOK'
  BY NoneType DEF EraseStart, Start, NoteTypeOK
<1>5. SettingsInv' /\ AlignedInv'
  BY <1>1 DEF EraseStart, Start, SettingsInv, AlignedInv, Running
<1> QED
  BY <1>1, <1>3, <1>4, <1>5

LEMMA ProgramStartInv ==
  ASSUME IndInv, ProgramStart
  PROVE  IndInv'
<1> USE DEF IndInv, TypeOK
<1>1. /\ rq' \in RequestOrNone /\ rq'.op = "program" /\ rq'.start \in Nat /\ rq'.count \in Nat
      /\ FlashTypeOK' /\ CountTypeOK' /\ ~busy
  BY StartFacts DEF ProgramStart
<1>2. datasize' \in Nat
  BY Geometry DEF ProgramStart, DriverTypeOK
<1>3. DriverTypeOK' /\ LoopTypeOK'
  BY <1>1, <1>2 DEF ProgramStart, Start, DriverTypeOK, LoopTypeOK, PinHigh
<1>4. NoteTypeOK' /\ notes'.hitBad = FALSE
  <2>1. FreshFrom(rq'.start) \in BOOLEAN
    BY DEF FreshFrom
  <2>2. notes' = Note(0, 0, FALSE, FreshFrom(rq'.start), FALSE)
    BY DEF ProgramStart
  <2>3. notes' \in NoteSet /\ notes'.hitBad = FALSE
    BY <2>1, <2>2, NoteType DEF Note
  <2> QED
    BY <2>3, NoneType DEF ProgramStart, Start, NoteTypeOK
<1>5. SettingsInv'
  BY <1>1 DEF ProgramStart, Start, SettingsInv, Running
<1>6. AlignedInv'
  BY <1>1, <1>4 DEF ProgramStart, AlignedInv
<1> QED
  BY <1>1, <1>3, <1>4, <1>5, <1>6

LEMMA ReadStartInv ==
  ASSUME IndInv, ReadStart
  PROVE  IndInv'
<1> USE DEF IndInv, TypeOK
<1>1. PICK op \in ReadOps : Start(op)
  BY DEF ReadStart
<1>2. /\ rq' \in RequestOrNone /\ rq'.op = op /\ rq'.start \in Nat /\ rq'.count \in Nat
      /\ FlashTypeOK' /\ CountTypeOK' /\ ~busy
  BY <1>1, StartFacts
<1>3. rq'.op # "program"
  BY <1>1, <1>2 DEF ReadOps
<1>4. DriverTypeOK' /\ LoopTypeOK'
  BY <1>1, <1>2, EmptySeq DEF ReadStart, Start, DriverTypeOK, LoopTypeOK, progVars
<1>5. NoteTypeOK'
  BY <1>1, NoneType DEF ReadStart, Start, NoteTypeOK
<1>6. SettingsInv' /\ AlignedInv'
  BY <1>1, <1>2, <1>3 DEF ReadStart, Start, SettingsInv, AlignedInv, Running
<1> QED
  BY <1>2, <1>4, <1>5, <1>6

\* What an iteration of the erase loop keeps, once the flash is typed.
LEMMA EraseStepInv ==
  ASSUME IndInv, EraseSkipBad \/ EraseBlock \/ EraseFail \/ EraseDone
  PROVE  IndInv'
<1> USE DEF IndInv, TypeOK
<1>1. /\ Running("erase") /\ rq' = rq /\ busy' \in BOOLEAN
      /\ UNCHANGED <<cfgVars, hs3, i, progVars, buf, ops, corrected, image, splFail>>
      /\ sel' \in {sel, Chip(cur \div ppb)} /\ cur' \in {cur, cur + ppb} /\ ret' \in {ret, cur}
      /\ wp' \in {wp, PinLow}
  BY DEF EraseSkipBad, EraseBlock, EraseFail, EraseDone, EraseLoop, Finish, cfgVars, progVars,
         DriverTypeOK
<1>2. cur' \in Nat /\ sel' \in Chips /\ ret' \in Nat
  <2>0. cur \in Nat /\ ppb \in Nat \ {0}
    BY Geometry DEF LoopTypeOK
  <2>1. cur \div ppb \in Nat /\ cur + ppb \in Nat
    BY <2>0, DivModType
  <2>2. Chip(cur \div ppb) \in Chips
    BY <2>1, ChipType
  <2> QED
    BY <1>1, <2>0, <2>1, <2>2 DEF DriverTypeOK
<1>3. blk_num' \in Nat
  <2>1. blk_num' \in {blk_num, blk_num + nand_plane}
    BY DEF EraseSkipBad, EraseBlock, EraseFail, EraseDone
  <2>2. blk_num \in Nat /\ nand_plane \in Nat
    BY HandAssumption DEF LoopTypeOK
  <2> QED
    BY <2>1, <2>2
<1>4. FlashTypeOK' /\ marksLost' \in 0..MaxMarksLost /\ fails' \in 0..MaxFails
  <2>1. CASE EraseSkipBad \/ EraseDone
    BY <2>1 DEF EraseSkipBad, EraseDone, FlashTypeOK, CountTypeOK
  <2>2. CASE EraseBlock
    BY <2>2, SetBlockType, SpecialPages DEF EraseBlock, FlashTypeOK, CountTypeOK
  <2>3. CASE EraseFail
    <3> DEFINE f == IF Protected THEN flash ELSE SetBlock(flash, sel', cur \div ppb, Garbage)
    <3>1. f \in [Cells -> PageSet]
      BY SetBlockType, SpecialPages DEF FlashTypeOK
    <3>2. Marking(f, sel', cur \div ppb)
      BY <2>3 DEF EraseFail
    <3>3. fails' \in 0..MaxFails
      BY <2>3, BoundAssumption DEF EraseFail, CountTypeOK
    <3> HIDE DEF f
    <3> QED
      BY <3>1, <3>2, <3>3, MarkingType DEF FlashTypeOK
  <2> QED
    BY <2>1, <2>2, <2>3
<1>5. notes' \in NoteSet
  <2>0. notes.good \in Nat /\ notes.failed \in Nat /\ notes.lost \in BOOLEAN
    BY NoteType DEF NoteTypeOK
  <2>1. notes.good + 1 \in Nat /\ notes.failed + 1 \in Nat
    BY <2>0
  <2>2. CASE EraseFail
    <3>1. (notes.lost \/ marksLost' # marksLost) \in BOOLEAN
      OBVIOUS
    <3> QED
      BY <2>0, <2>1, <2>2, <3>1, NoteType DEF EraseFail
  <2>3. CASE EraseBlock
    BY <2>0, <2>1, <2>3, NoteType DEF EraseBlock
  <2>4. CASE EraseSkipBad \/ EraseDone
    BY <2>4 DEF EraseSkipBad, EraseDone, NoteTypeOK
  <2> QED
    BY <2>2, <2>3, <2>4
<1>6. DriverTypeOK' /\ LoopTypeOK'
  BY <1>1, <1>2, <1>3 DEF DriverTypeOK, LoopTypeOK, cfgVars, progVars, PinLow
<1>7. CountTypeOK' /\ NoteTypeOK'
  BY <1>1, <1>4, <1>5 DEF CountTypeOK, NoteTypeOK
<1>8. SettingsInv' /\ AlignedInv'
  BY <1>1 DEF SettingsInv, AlignedInv, Running, cfgVars
<1> QED
  BY <1>4, <1>6, <1>7, <1>8

LEMMA ReadStepInv ==
  ASSUME IndInv, ReadStep
  PROVE  IndInv'
<1> USE DEF IndInv, TypeOK
<1>1. /\ rq.op # "program" /\ rq' = rq /\ busy' \in BOOLEAN
      /\ UNCHANGED <<flash, wp, cfgVars, progVars, blk_num, ops, fails, marksLost, image,
                     notes, splFail>>
      /\ ret' \in {ret, cur}
  BY DEF ReadStep, ReadSkipBad, ReadPage, ReadRawPage, ReadOobPage, ReadDone, ReadLoop, Finish,
         Running, ReadOps
<1>2. cur' \in {cur, cur + 1, cur + ppb} /\ i' \in {i, i + 1}
  BY DEF ReadStep, ReadSkipBad, ReadPage, ReadRawPage, ReadOobPage, ReadDone, TakePage
<1>3. /\ cur \in Nat /\ i \in Nat /\ Chip(cur \div ppb) \in Chips /\ Chip(i \div ppb) \in Chips
  BY Geometry, DivModType, ChipType DEF LoopTypeOK
<1>4. sel' \in Chips
  BY <1>3 DEF ReadStep, ReadSkipBad, ReadPage, ReadRawPage, ReadOobPage, ReadDone, DriverTypeOK
<1>5. buf' \in Seq(PageSet)
  <2>1. \A chip \in Chips : Append(buf, flash[Cell(chip, cur)]) \in Seq(PageSet)
    <3> SUFFICES ASSUME NEW chip \in Chips
                 PROVE  Append(buf, flash[Cell(chip, cur)]) \in Seq(PageSet)
      OBVIOUS
    <3>1. flash[Cell(chip, cur)] \in PageSet
      BY <1>3, CellType DEF FlashTypeOK
    <3> QED
      BY <3>1, AppendProperties DEF DriverTypeOK
  <2>2. CASE ReadSkipBad \/ ReadDone
    BY <2>2 DEF ReadSkipBad, ReadDone, Finish, DriverTypeOK
  <2>3. CASE ReadPage \/ ReadOobPage
    BY <1>3, <1>4, <2>1, <2>3 DEF ReadPage, ReadOobPage, TakePage
  <2>4. CASE ReadRawPage
    BY <1>3, <2>1, <2>4 DEF ReadRawPage, TakePage
  <2> QED
    BY <2>2, <2>3, <2>4 DEF ReadStep
<1>6. hs3' \in {0, 1} /\ corrected' \in 0..MaxCorrected
  BY BoundAssumption
     DEF ReadStep, ReadSkipBad, ReadPage, ReadRawPage, ReadOobPage, ReadDone, DriverTypeOK,
         CountTypeOK
<1>7. FlashTypeOK' /\ DriverTypeOK'
  BY <1>1, <1>3, <1>4, <1>5, <1>6 DEF FlashTypeOK, DriverTypeOK, cfgVars
<1>8. LoopTypeOK'
  BY <1>1, <1>2, <1>3, Geometry DEF LoopTypeOK, progVars
<1>9. CountTypeOK' /\ NoteTypeOK'
  BY <1>1, <1>6 DEF CountTypeOK, NoteTypeOK
<1>10. SettingsInv' /\ AlignedInv'
  BY <1>1 DEF SettingsInv, AlignedInv, Running, cfgVars
<1> QED
  BY <1>7, <1>8, <1>9, <1>10

\* What an iteration of the program loop has in common.
LEMMA ProgramLoopFacts ==
  ASSUME IndInv, ProgramLoop
  PROVE  /\ Running("program") /\ busy' = busy /\ rq' = rq /\ sel' = Chip(cur \div ppb)
         /\ cur \in Nat /\ i \in Nat /\ cur \div ppb \in Nat /\ sel' \in Chips
         /\ oobsize' \in Nat /\ ecc_pos' \in Nat /\ source \in Nat
         /\ ecccnt \in Nat /\ pagesize \in Nat
         /\ UNCHANGED <<hs3, datasize, blk_num, buf, ret, ops, corrected, image>>
<1> USE DEF IndInv, TypeOK
<1>1. /\ Running("program") /\ busy' = busy /\ rq' = rq /\ sel' = Chip(cur \div ppb)
      /\ UNCHANGED <<hs3, datasize, blk_num, buf, ret, ops, corrected, image>>
      /\ oobsize' \in {64, sav.oob} /\ ecc_pos' \in {6, sav.ecc}
  BY DEF ProgramLoop
<1>2. cur \in Nat /\ i \in Nat /\ sav.oob \in Nat /\ sav.ecc \in Nat /\ tmpbuf \in Nat
  BY DEF LoopTypeOK
<1>3. cur \div ppb \in Nat
  BY <1>2, Geometry, DivModType
<1>4. sel' \in Chips
  BY <1>1, <1>3, ChipType
<1>5. source \in Nat
  BY <1>2 DEF source
<1>6. ecccnt \in Nat /\ pagesize \in Nat
  BY GeometryAssumption DEF ecccnt
<1> QED
  BY <1>1, <1>2, <1>3, <1>4, <1>5, <1>6

\* Typing of a step of the loop, from what is particular to it.
LEMMA ProgramTyped ==
  ASSUME IndInv, ProgramLoop, FlashTypeOK', wp' \in BOOLEAN,
         cur' \in Nat, i' \in Nat, spage' \in Nat, tmpbuf' \in Nat,
         sav' \in [oob : Nat, ecc : Nat],
         fails' \in 0..MaxFails, marksLost' \in 0..MaxMarksLost,
         notes' \in NoteSet, splFail' \in BOOLEAN
  PROVE  TypeOK'
<1> USE DEF IndInv, TypeOK
<1>1. DriverTypeOK' /\ LoopTypeOK'
  BY ProgramLoopFacts DEF DriverTypeOK, LoopTypeOK
<1>2. CountTypeOK' /\ NoteTypeOK'
  BY ProgramLoopFacts DEF CountTypeOK, NoteTypeOK
<1> QED
  BY <1>1, <1>2

\* A step that keeps the saved settings keeps SettingsInv.
LEMMA ProgramKeepsSettings ==
  ASSUME IndInv, ProgramLoop, UNCHANGED <<sav, splFail>>
  PROVE  SettingsInv'
  BY ProgramLoopFacts DEF IndInv, SettingsInv, Running

LEMMA ProgramSkipBadInv ==
  ASSUME IndInv, ProgramSkipBad
  PROVE  IndInv'
<1>1. /\ ProgramLoop /\ BadHere /\ cur' = cur + ppb /\ tmpbuf' = source
      /\ UNCHANGED <<flash, wp, i, spage, sav, fails, marksLost, notes, splFail>>
  BY DEF ProgramSkipBad
<1>2. cur \in Nat /\ source \in Nat /\ ppb \in Nat \ {0} /\ rq' = rq /\ Running("program")
  BY <1>1, ProgramLoopFacts, Geometry
<1>3. cur' \in Nat /\ tmpbuf' \in Nat
  BY <1>1, <1>2
<1>4. TypeOK'
  BY <1>1, <1>3, ProgramTyped
     DEF IndInv, TypeOK, FlashTypeOK, DriverTypeOK, LoopTypeOK, CountTypeOK, NoteTypeOK
<1>5. SettingsInv'
  BY <1>1, ProgramKeepsSettings
<1>6. cur' % ppb = 0
  BY <1>1, <1>2, NextBlockSamePage DEF BadHere
<1>7. AlignedInv'
  BY <1>1, <1>2, <1>6 DEF IndInv, AlignedInv, Running
<1> QED
  BY <1>4, <1>5, <1>7 DEF IndInv

\* The next page of a good block, and of a block whose first page was checked.
LEMMA GoodBlockGoesOn ==
  ASSUME IndInv, ProgramLoop, ~BadHere, cur' = cur + 1, UNCHANGED spage,
         \A b \in Nat : IsBad(flash', b) => IsBad(flash, b),
         rq.start % ppb = 0,
         notes'.hitBad => notes.hitBad \/ IsBad(flash, cur \div ppb)
  PROVE  AlignedInv'
<1>1. /\ cur \in Nat /\ cur \div ppb \in Nat /\ ppb \in Nat \ {0} /\ rq' = rq
      /\ Running("program")
  BY ProgramLoopFacts, Geometry
<1>2. ~IsBad(flash, cur \div ppb) /\ spage % ppb = 0 /\ ~notes.hitBad
  BY <1>1 DEF IndInv, AlignedInv, BadHere, Running
<1>3. ASSUME (cur + 1) % ppb # 0 PROVE ~IsBad(flash', (cur + 1) \div ppb)
  <2>1. (cur + 1) \div ppb = cur \div ppb
    BY <1>1, <1>3, NextPageSameBlock
  <2> QED
    BY <1>1, <1>2, <2>1
<1> QED
  BY <1>2, <1>3 DEF AlignedInv

LEMMA ProgramSkipFFInv ==
  ASSUME IndInv, ProgramSkipFF
  PROVE  IndInv'
<1>1. /\ ProgramLoop /\ ~BadHere /\ tmpbuf' = source + datasize /\ i' = i + 1
      /\ cur' = cur + 1
      /\ UNCHANGED <<flash, wp, spage, sav, fails, marksLost, notes, splFail>>
  BY DEF ProgramSkipFF
<1>2. cur \in Nat /\ i \in Nat /\ source \in Nat /\ datasize \in Nat
  BY <1>1, ProgramLoopFacts DEF IndInv, TypeOK, LoopTypeOK
<1>3. cur' \in Nat /\ i' \in Nat /\ tmpbuf' \in Nat
  BY <1>1, <1>2
<1>4. TypeOK'
  BY <1>1, <1>3, ProgramTyped
     DEF IndInv, TypeOK, FlashTypeOK, DriverTypeOK, LoopTypeOK, CountTypeOK, NoteTypeOK
<1>5. SettingsInv'
  BY <1>1, ProgramKeepsSettings
<1>6. AlignedInv'
  <2>1. CASE rq.start % ppb = 0
    BY <1>1, <2>1, GoodBlockGoesOn
  <2>2. CASE rq.start % ppb # 0
    BY <1>1, <2>2, ProgramLoopFacts DEF AlignedInv
  <2> QED
    BY <2>1, <2>2
<1> QED
  BY <1>4, <1>5, <1>6 DEF IndInv

\* What is written is a page, and no marker.
LEMMA ProgramWritten ==
  ASSUME IndInv, ProgramLoop
  PROVE  Written \in PageSet /\ Written # Zero
<1>1. source \in Nat /\ ecc_pos' \in Nat /\ ops \in Nat
  BY ProgramLoopFacts, BoundAssumption DEF IndInv, TypeOK, CountTypeOK
<1>2. Page("data", ops, source, ImageEcc) \in PageSet
  BY <1>1 DEF Page, PageSet
<1>3. /\ Page("data", ops, source, ecc_pos') \in PageSet
      /\ Page("spl", ops, source, ecc_pos') \in PageSet
  BY <1>1 DEF Page, PageSet
<1>4. Written.kind \in {"data", "spl"}
  BY DEF Written, Page
<1> QED
  BY <1>2, <1>3, <1>4 DEF Written, Zero, Page

LEMMA ProgramPageInv ==
  ASSUME IndInv, ProgramPage
  PROVE  IndInv'
<1> DEFINE c == Cell(sel', cur)
<1>1. /\ ProgramLoop /\ ~BadHere /\ tmpbuf' = source + Advance /\ i' = i + 1 /\ cur' = cur + 1
      /\ flash' = (IF Protected THEN flash ELSE [flash EXCEPT ![c] = Programmed(@, Written)])
      /\ notes' = Note(0, notes.failed, notes.hitBad \/ IsBad(flash, cur \div ppb), notes.fresh,
                       notes.lost)
      /\ UNCHANGED <<wp, spage, sav, fails, marksLost, splFail>>
  BY DEF ProgramPage
<1>2. /\ cur \in Nat /\ i \in Nat /\ source \in Nat /\ oobsize' \in Nat /\ ecc_pos' \in Nat
      /\ sel' \in Chips /\ ecccnt \in Nat /\ pagesize \in Nat
  BY <1>1, ProgramLoopFacts
<1>3. rq.option \in Options /\ ops \in Nat
  BY RequestType, BoundAssumption DEF IndInv, TypeOK, LoopTypeOK, CountTypeOK
<1>4. Written \in PageSet /\ Written # Zero
  BY <1>1, ProgramWritten
<1>5. Advance \in Nat
  <2>1. ecccnt * 512 \in Nat
    BY <1>2
  <2> QED
    BY <1>2, <1>3, <2>1 DEF Advance, Options
<1>6. c \in Cells
  BY <1>2, CellType
<1>7. FlashTypeOK' /\ \A b \in Nat : IsBad(flash', b) => IsBad(flash, b)
  <2> HIDE DEF c
  <2>1. flash \in [Cells -> PageSet]
    BY DEF IndInv, TypeOK, FlashTypeOK
  <2>2. Programmed(flash[c], Written) \in PageSet
    BY <1>4, SpecialPages DEF Programmed
  <2>3. CASE Protected
    BY <1>1, <2>1, <2>3 DEF FlashTypeOK
  <2>4. CASE ~Protected
    <3>1. flash' = [flash EXCEPT ![c] = Programmed(@, Written)]
      BY <1>1, <2>4
    <3> QED
      BY <1>4, <1>6, <2>1, <2>2, <3>1, ProgramKeepsGood DEF FlashTypeOK
  <2> QED
    BY <2>3, <2>4
<1>8. notes' \in NoteSet
  <2>1. (notes.hitBad \/ IsBad(flash, cur \div ppb)) \in BOOLEAN
    OBVIOUS
  <2>2. notes.failed \in Nat /\ notes.fresh \in BOOLEAN /\ notes.lost \in BOOLEAN
    BY NoteType DEF IndInv, TypeOK, NoteTypeOK
  <2> QED
    BY <1>1, <2>1, <2>2, NoteType
<1>9. cur' \in Nat /\ i' \in Nat /\ tmpbuf' \in Nat
  BY <1>1, <1>2, <1>5
<1>10. TypeOK'
  BY <1>1, <1>7, <1>8, <1>9, ProgramTyped
     DEF IndInv, TypeOK, DriverTypeOK, LoopTypeOK, CountTypeOK, NoteTypeOK
<1>11. SettingsInv'
  BY <1>1, ProgramKeepsSettings
<1>12. AlignedInv'
  <2>1. notes'.hitBad => notes.hitBad \/ IsBad(flash, cur \div ppb)
    BY <1>1 DEF Note
  <2>2. CASE rq.start % ppb = 0
    BY <1>1, <1>7, <2>1, <2>2, GoodBlockGoesOn
  <2>3. CASE rq.start % ppb # 0
    BY <1>1, <2>3, ProgramLoopFacts DEF AlignedInv
  <2> QED
    BY <2>2, <2>3
<1> QED
  BY <1>10, <1>11, <1>12 DEF IndInv

\* The restart: one block further on, at the same page of the block.
LEMMA ProgramFailInv ==
  ASSUME IndInv, ProgramFail
  PROVE  IndInv'
<1>1. /\ ProgramLoop /\ ~BadHere /\ fails < MaxFails /\ fails' = fails + 1 /\ wp' = PinLow
      /\ spage' = spage + ppb /\ cur' = spage' /\ tmpbuf' = 0 /\ i' = 0
      /\ sav' = [oob |-> oobsize', ecc |-> ecc_pos']
      /\ notes' = Note(0, notes.failed + 1, notes.hitBad \/ IsBad(flash, cur \div ppb),
                       notes.fresh, notes.lost \/ marksLost' # marksLost)
      /\ splFail' = (splFail \/ cur < SPL_PAGES)
  BY DEF ProgramFail
<1>2. /\ cur \in Nat /\ oobsize' \in Nat /\ ecc_pos' \in Nat /\ rq' = rq /\ busy' = busy
      /\ spage \in Nat /\ ppb \in Nat \ {0} /\ Running("program")
  BY <1>1, ProgramLoopFacts, Geometry DEF IndInv, TypeOK, LoopTypeOK
<1>3. FlashTypeOK' /\ marksLost' \in 0..MaxMarksLost
  <2>1. PICK page \in {Erased, Garbage} :
          Marking(SetBlock(flash, sel', cur \div ppb, page), sel', cur \div ppb)
    BY DEF ProgramFail
  <2>2. SetBlock(flash, sel', cur \div ppb, page) \in [Cells -> PageSet]
    BY <2>1, SetBlockType, SpecialPages DEF IndInv, TypeOK, FlashTypeOK
  <2> QED
    BY <2>1, <2>2, MarkingType DEF IndInv, TypeOK, FlashTypeOK
<1>4. notes' \in NoteSet
  <2>1. /\ (notes.hitBad \/ IsBad(flash, cur \div ppb)) \in BOOLEAN
        /\ (notes.lost \/ marksLost' # marksLost) \in BOOLEAN
    OBVIOUS
  <2>2. notes.failed \in Nat /\ notes.fresh \in BOOLEAN
    BY NoteType DEF IndInv, TypeOK, NoteTypeOK
  <2>3. notes.failed + 1 \in Nat
    BY <2>2
  <2> QED
    BY <1>1, <2>1, <2>2, <2>3, NoteType
<1>5. /\ cur' \in Nat /\ i' \in Nat /\ spage' \in Nat /\ tmpbuf' \in Nat
      /\ sav' \in [oob : Nat, ecc : Nat]
  BY <1>1, <1>2
<1>6. fails' \in 0..MaxFails
  BY <1>1, BoundAssumption DEF IndInv, TypeOK, CountTypeOK
<1>7. wp' \in BOOLEAN /\ splFail' \in BOOLEAN
  BY <1>1 DEF PinLow, IndInv, TypeOK, DriverTypeOK, NoteTypeOK
<1>8. TypeOK'
  BY <1>1, <1>3, <1>4, <1>5, <1>6, <1>7, ProgramTyped
<1>9. SettingsInv'
  <2> SUFFICES ASSUME ~splFail'
               PROVE  Running("program")' /\ sav' = [oob |-> pagesize \div 32, ecc |-> EccPos]
    BY DEF SettingsInv
  <2>1. ~splFail /\ ~(cur < SPL_PAGES)
    BY <1>1
  <2>2. sav = [oob |-> pagesize \div 32, ecc |-> EccPos]
    BY <1>2, <2>1 DEF IndInv, SettingsInv
  <2>3. oobsize' = sav.oob /\ ecc_pos' = sav.ecc
    BY <1>1, <2>1 DEF ProgramLoop
  <2> QED
    BY <1>1, <1>2, <2>2, <2>3 DEF Running
<1>10. AlignedInv'
  <2> SUFFICES ASSUME rq.start % ppb = 0
               PROVE  ~notes'.hitBad /\ spage' % ppb = 0 /\ cur' % ppb = 0
    BY <1>2 DEF AlignedInv
  <2>1. ~notes.hitBad /\ spage % ppb = 0 /\ ~IsBad(flash, cur \div ppb)
    BY <1>1, <1>2 DEF IndInv, AlignedInv, BadHere, Running
  <2>2. ~notes'.hitBad
    BY <1>1, <2>1 DEF Note
  <2> QED
    BY <1>1, <1>2, <2>1, <2>2, NextBlockSamePage
<1> QED
  BY <1>8, <1>9, <1>10 DEF IndInv

LEMMA ProgramDoneInv ==
  ASSUME IndInv, ProgramDone
  PROVE  IndInv'
<1> USE DEF IndInv, TypeOK
<1>1. /\ Running("program") /\ busy' = FALSE /\ ret' = cur /\ wp' = PinLow
      /\ oobsize' = sav.oob /\ ecc_pos' = sav.ecc
      /\ image' = [rq |-> rq, id |-> ops, datasize |-> datasize, end |-> cur, ecc |-> sav.ecc,
                   notes |-> notes]
      /\ UNCHANGED <<rq, ops, buf, flash, sel, hs3, cur, i, progVars, blk_num, fails, marksLost,
                     corrected, notes, splFail>>
  BY DEF ProgramDone, Finish
<1>2. FlashTypeOK' /\ DriverTypeOK' /\ LoopTypeOK' /\ CountTypeOK'
  BY <1>1 DEF FlashTypeOK, DriverTypeOK, LoopTypeOK, CountTypeOK, progVars, PinLow
<1>3. NoteTypeOK'
  BY <1>1, BoundAssumption DEF NoteTypeOK, LoopTypeOK, CountTypeOK
<1>4. SettingsInv' /\ AlignedInv'
  BY <1>1 DEF SettingsInv, AlignedInv, Running
<1> QED
  BY <1>2, <1>3, <1>4

LEMMA StutterInv ==
  ASSUME IndInv, UNCHANGED vars
  PROVE  IndInv'
<1> USE DEF IndInv, TypeOK, vars
<1>1. FlashTypeOK' /\ DriverTypeOK' /\ LoopTypeOK'
  BY DEF FlashTypeOK, DriverTypeOK, LoopTypeOK, cfgVars, progVars
<1>2. CountTypeOK' /\ NoteTypeOK'
  BY DEF CountTypeOK, NoteTypeOK, countVars
<1>3. SettingsInv' /\ AlignedInv'
  BY DEF SettingsInv, AlignedInv, Running, cfgVars, progVars
<1> QED
  BY <1>1, <1>2, <1>3

LEMMA NextInv == IndInv /\ [Next]_vars => IndInv'
<1> SUFFICES ASSUME IndInv, [Next]_vars PROVE IndInv'
  OBVIOUS
<1>1. CASE EraseStep
  BY <1>1, EraseStepInv DEF EraseStep
<1>2. CASE ProgramStep
  BY <1>2, ProgramSkipBadInv, ProgramSkipFFInv, ProgramPageInv, ProgramFailInv, ProgramDoneInv
     DEF ProgramStep
<1>3. CASE ReadStep
  BY <1>3, ReadStepInv
<1>4. CASE Host
  BY <1>4, nand_init_4740Inv, nand_mark_bad_4740Inv, EraseStartInv, ProgramStartInv,
     ReadStartInv DEF Host
<1>5. CASE AllServed \/ UNCHANGED vars
  BY <1>5, StutterInv DEF AllServed
<1> QED
  BY <1>1, <1>2, <1>3, <1>4, <1>5 DEF Next, Driver

-----------------------------------------------------------------------------
(* The theorems.                                                           *)

\* IndInv holds in every reachable state.
THEOREM Invariance == Spec => []IndInv
<1> QED
  BY InitInv, NextInv, PTL DEF Spec

\* Every variable of the driver keeps its type (TypeOK), in particular the
\* contents of every page.
THEOREM TypeCorrect == Spec => []TypeOK
<1>1. IndInv => TypeOK
  BY DEF IndInv
<1> QED
  BY <1>1, Invariance, PTL

\* nand_program_4740 leaves the driver's settings as configured, unless a page
\* in the loader's layout failed.
THEOREM SettingsAreRestored == Spec => []SettingsRestored
<1>1. IndInv => SettingsRestored
  BY DEF IndInv, SettingsInv, SettingsRestored, Running
<1> QED
  BY <1>1, Invariance, PTL

\* A program request that starts at a block never writes into a block marked
\* bad, whatever fails and however often it restarts.
THEOREM BadBlocksAvoided == Spec => []ProgramAvoidsBadBlocks
<1>1. IndInv => ProgramAvoidsBadBlocks
  BY DEF IndInv, AlignedInv, ProgramAvoidsBadBlocks
<1> QED
  BY <1>1, Invariance, PTL

-----------------------------------------------------------------------------
(* The blocks of the device.                                               *)

\* Blocks of all chips, and the block of the device that block number b, which
\* may lie beyond its end, is served by.
AllBlocks == Blocks * Cardinality(Chips)
BlockNumbers == 0..(AllBlocks - 1)
IsHome(x, chip, b) == Chip(x) = chip /\ x % Blocks = b % Blocks
Bad(f) == {b \in BlockNumbers : IsBad(f, b)}

\* The page of its block a marker is on.
MarkerOffsets ==
  IF bad_block_page >= ppb THEN {0, 1, ppb - 2, ppb - 1} ELSE {bad_block_page}

\* Row o of block b of its chip.
Row(b, o) == (b % Blocks) * ppb + o

-----------------------------------------------------------------------------
(* Arithmetic of blocks and cells.                                         *)

LEMMA Numbers ==
  /\ ppb \in Nat \ {0} /\ ppb > 3 /\ Blocks \in Nat \ {0} /\ nand_bpc \in {0, Blocks}
  /\ bad_block_page \in Nat
  BY GeometryAssumption, HandAssumption

LEMMA OffsetType == MarkerOffsets \subseteq 0..(ppb - 1) /\ MarkerOffsets # {}
  BY Numbers DEF MarkerOffsets

LEMMA MulMono ==
  ASSUME NEW x \in Nat, NEW y \in Nat, NEW m \in Nat, x <= y
  PROVE  x * m <= y * m /\ x * m \in Nat /\ y * m \in Nat
  OBVIOUS

\* A chip takes page o of block b to row o of the block's place on it.
LEMMA CellOfBlock ==
  ASSUME NEW chip, NEW b \in Nat, NEW o \in 0..(ppb - 1)
  PROVE  Cell(chip, b * ppb + o) = <<chip, Row(b, o)>>
<1> DEFINE q == b \div Blocks
           r == b % Blocks
           m == Blocks * ppb
<1>1. q \in Nat /\ r \in 0..(Blocks - 1) /\ b = Blocks * q + r
  BY Numbers, DivModType
<1>2. m \in Nat \ {0} /\ ppb \in Nat \ {0} /\ Blocks \in Nat \ {0} /\ o \in Nat
  BY Geometry, Numbers
<1> HIDE DEF q, r, m
<1>3. r * ppb + o \in 0..(m - 1)
  <2>1. r * ppb <= (Blocks - 1) * ppb /\ r * ppb \in Nat
    BY <1>1, <1>2, MulMono
  <2>2. (Blocks - 1) * ppb = m - ppb
    BY <1>2 DEF m
  <2>3. m \in Nat /\ ppb \in Nat
    BY <1>2
  <2> QED
    BY <2>1, <2>2, <2>3
<1>4. b * ppb + o = m * q + (r * ppb + o)
  BY <1>1, <1>2 DEF m
<1>5. b * ppb + o \in Nat
  BY <1>2
<1> DEFINE s == r * ppb + o
           p == b * ppb + o
<1>6. p % m = s
  <2> HIDE DEF s, p
  <2>1. s \in 0..(m - 1) /\ p = m * q + s /\ p \in Nat
    BY <1>3, <1>4, <1>5 DEF s, p
  <2> QED
    BY <1>1, <1>2, <2>1, DivModUnique
<1> QED
  BY <1>6 DEF Cell, Row, r, m

\* The page of a block is in the block, and every page is the page of a block.
LEMMA PageOfBlock ==
  ASSUME NEW p \in Nat
  PROVE  /\ p \div ppb \in Nat /\ p % ppb \in 0..(ppb - 1)
         /\ p = (p \div ppb) * ppb + (p % ppb)
<1> DEFINE q == p \div ppb
<1>1. q \in Nat /\ p % ppb \in 0..(ppb - 1) /\ p = ppb * q + (p % ppb)
  BY Numbers, DivModType
<1> HIDE DEF q
<1>2. ppb * q = q * ppb
  BY <1>1, Numbers
<1> QED
  BY <1>1, <1>2 DEF q

LEMMA BlockOfPage ==
  ASSUME NEW b \in Nat, NEW o \in 0..(ppb - 1)
  PROVE  (b * ppb + o) \div ppb = b /\ (b * ppb + o) % ppb = o
<1>1. b * ppb + o \in Nat /\ b * ppb + o = ppb * b + o
  BY Numbers
<1> QED
  BY <1>1, Numbers, DivModUnique

LEMMA MarkersOfBlock ==
  ASSUME NEW b \in Nat
  PROVE  MarkerPages(b) = {b * ppb + o : o \in MarkerOffsets}
<1>1. b * ppb \in Nat /\ ppb \in Nat
  BY Numbers
<1>2. /\ b * ppb + (ppb - 2) = b * ppb + ppb - 2 /\ b * ppb + (ppb - 1) = b * ppb + ppb - 1
      /\ b * ppb + 0 = b * ppb
  BY <1>1
<1> QED
  BY <1>2 DEF MarkerPages, MarkerOffsets

\* A block is bad by the pages of its place on its chip.
LEMMA BadByRows ==
  ASSUME NEW f, NEW b \in Nat
  PROVE  IsBad(f, b) <=> \E o \in MarkerOffsets : f[<<Chip(b), Row(b, o)>>] = Zero
<1>1. \A o \in MarkerOffsets : Cell(Chip(b), b * ppb + o) = <<Chip(b), Row(b, o)>>
  BY OffsetType, CellOfBlock
<1>2. IsBad(f, b) <=> \E p \in {b * ppb + o : o \in MarkerOffsets} : f[Cell(Chip(b), p)] = Zero
  BY MarkersOfBlock DEF IsBad
<1>3. (\E p \in {b * ppb + o : o \in MarkerOffsets} : f[Cell(Chip(b), p)] = Zero)
        <=> \E o \in MarkerOffsets : f[Cell(Chip(b), b * ppb + o)] = Zero
  OBVIOUS
<1> QED
  BY <1>1, <1>2, <1>3, Zenon

LEMMA RowIsCell ==
  ASSUME NEW chip \in Chips, NEW b \in Nat, NEW o \in 0..(ppb - 1)
  PROVE  <<chip, Row(b, o)>> \in Cells /\ Row(b, o) \in Nat
<1>1. b * ppb + o \in Nat
  BY Numbers
<1>2. b % Blocks \in Nat
  BY Numbers, DivModType
<1>3. Row(b, o) \in Nat
  BY <1>2, Numbers DEF Row
<1> QED
  BY <1>1, <1>3, CellType, CellOfBlock

\* Rows of different places differ.
LEMMA RowsApart ==
  ASSUME NEW b \in Nat, NEW x \in Nat, NEW o \in 0..(ppb - 1), NEW p \in 0..(ppb - 1)
  PROVE  /\ Row(b, o) = Row(x, p) => b % Blocks = x % Blocks /\ o = p
         /\ Row(b, o) \div ppb = b % Blocks
<1>1. b % Blocks \in Nat /\ x % Blocks \in Nat
  BY Numbers, DivModType
<1>2. /\ Row(b, o) \div ppb = b % Blocks /\ Row(b, o) % ppb = o
      /\ Row(x, p) \div ppb = x % Blocks /\ Row(x, p) % ppb = p
  BY <1>1, BlockOfPage DEF Row
<1> QED
  BY <1>2

\* SetBlock changes the rows of its block, and no others.
LEMMA SetBlockRows ==
  ASSUME NEW f \in [Cells -> PageSet], NEW chip \in Chips, NEW b \in Nat, NEW page,
         NEW c \in Chips, NEW x \in Nat, NEW o \in 0..(ppb - 1)
  PROVE  SetBlock(f, chip, b, page)[<<c, Row(x, o)>>] =
           IF c = chip /\ x % Blocks = b % Blocks THEN page ELSE f[<<c, Row(x, o)>>]
<1>1. <<c, Row(x, o)>> \in Cells
  BY RowIsCell
<1>2. Row(x, o) \div ppb = x % Blocks
  BY RowsApart
<1> QED
  BY <1>1, <1>2 DEF SetBlock, InBlock

\* MarkBad changes the marker rows of its block, and no others.
LEMMA MarkBadRows ==
  ASSUME NEW f \in [Cells -> PageSet], NEW chip \in Chips, NEW b \in Nat,
         NEW c \in Chips, NEW x \in Nat, NEW o \in 0..(ppb - 1)
  PROVE  MarkBad(f, chip, b)[<<c, Row(x, o)>>] =
           IF c = chip /\ x % Blocks = b % Blocks /\ o \in MarkerOffsets THEN Zero
           ELSE f[<<c, Row(x, o)>>]
<1>1. <<c, Row(x, o)>> \in Cells
  BY RowIsCell
<1>2. {Cell(chip, p) : p \in MarkerPages(b)} = {<<chip, Row(b, m)>> : m \in MarkerOffsets}
  <2>1. \A m \in MarkerOffsets : Cell(chip, b * ppb + m) = <<chip, Row(b, m)>>
    BY OffsetType, CellOfBlock
  <2> QED
    BY <2>1, MarkersOfBlock
<1>3. <<c, Row(x, o)>> \in {<<chip, Row(b, m)>> : m \in MarkerOffsets}
        <=> c = chip /\ x % Blocks = b % Blocks /\ o \in MarkerOffsets
  <2>1. ASSUME NEW m \in MarkerOffsets, <<c, Row(x, o)>> = <<chip, Row(b, m)>>
        PROVE  c = chip /\ x % Blocks = b % Blocks /\ o \in MarkerOffsets
    <3>1. m \in 0..(ppb - 1) /\ Row(x, o) = Row(b, m) /\ c = chip
      BY <2>1, OffsetType
    <3>2. x % Blocks = b % Blocks /\ o = m
      BY <3>1, RowsApart
    <3> QED
      BY <3>1, <3>2
  <2>2. ASSUME c = chip, x % Blocks = b % Blocks, o \in MarkerOffsets
        PROVE  <<c, Row(x, o)>> = <<chip, Row(b, o)>>
    BY <2>2 DEF Row
  <2> QED
    BY <2>1, <2>2
<1> QED
  BY <1>1, <1>2, <1>3 DEF MarkBad

-----------------------------------------------------------------------------
(* The blocks of the device.                                               *)

LEMMA ChipsCard == Cardinality(Chips) = IF nand_bpc = 0 THEN 1 ELSE 4
<1>1. Cardinality({0}) = 1
  BY FS_Singleton
<1>2. Cardinality(0..3) = 4
  <2>0. 0 \in Int /\ 3 \in Int
    OBVIOUS
  <2>1. Cardinality(0..3) = IF 0 > 3 THEN 0 ELSE 3 - 0 + 1
    BY <2>0, FS_Interval, Zenon
  <2> QED
    BY <2>1
<1> QED
  BY <1>1, <1>2 DEF Chips

LEMMA ChipCount == AllBlocks = IF nand_bpc = 0 THEN Blocks ELSE 4 * Blocks
  BY ChipsCard, Numbers DEF AllBlocks

\* One block of the device is at each place of each chip.
LEMMA HomeUnique ==
  ASSUME NEW x \in BlockNumbers, NEW y \in BlockNumbers,
         Chip(x) = Chip(y), x % Blocks = y % Blocks
  PROVE  x = y
<1>0. x \in Nat /\ y \in Nat /\ Blocks \in Nat \ {0}
  BY Numbers DEF BlockNumbers
<1>1. CASE nand_bpc = 0
  <2>1. x < Blocks /\ y < Blocks
    BY <1>0, <1>1, ChipCount DEF BlockNumbers
  <2>2. x % Blocks = x /\ y % Blocks = y
    BY <1>0, <2>1
  <2> QED
    BY <2>2
<1>2. CASE nand_bpc = Blocks
  <2> DEFINE p == x \div Blocks
             q == y \div Blocks
  <2>1. /\ p \in Nat /\ x % Blocks \in 0..(Blocks - 1) /\ x = Blocks * p + (x % Blocks)
        /\ q \in Nat /\ y % Blocks \in 0..(Blocks - 1) /\ y = Blocks * q + (y % Blocks)
    BY <1>0, DivModType
  <2>2. x < 4 * Blocks /\ y < 4 * Blocks
    BY <1>0, <1>2, ChipCount DEF BlockNumbers
  <2>3. p % 4 = q % 4
    BY <1>0, <1>2 DEF Chip
  <2> HIDE DEF p, q
  <2>4. p < 4
    <3> SUFFICES ASSUME p >= 4 PROVE FALSE
      BY <2>1
    <3>1. 4 * Blocks <= p * Blocks
      BY <1>0, <2>1, MulMono
    <3> QED
      BY <1>0, <2>1, <2>2, <3>1
  <2>5. q < 4
    <3> SUFFICES ASSUME q >= 4 PROVE FALSE
      BY <2>1
    <3>1. 4 * Blocks <= q * Blocks
      BY <1>0, <2>1, MulMono
    <3> QED
      BY <1>0, <2>1, <2>2, <3>1
  <2>6. p = q
    BY <2>1, <2>3, <2>4, <2>5
  <2> QED
    BY <2>1, <2>6
<1> QED
  BY <1>1, <1>2, Numbers

\* Every block number of a chip has a block of the device that serves it.
LEMMA HomeExists ==
  ASSUME NEW chip \in Chips, NEW b \in Nat
  PROVE  \E x \in BlockNumbers : IsHome(x, chip, b)
<1> DEFINE r == b % Blocks
           x == chip * Blocks + r
<1>0. Blocks \in Nat \ {0} /\ r \in 0..(Blocks - 1)
  BY Numbers, DivModType
<1>1. chip \in 0..3 /\ (nand_bpc = 0 => chip = 0)
  BY DEF Chips
<1> HIDE DEF r
<1>2. x \in Nat /\ x = Blocks * chip + r
  BY <1>0, <1>1
<1>3. x % Blocks = r /\ x \div Blocks = chip
  BY <1>0, <1>1, <1>2, DivModUnique
<1>4. x < AllBlocks
  <2>1. CASE nand_bpc = 0
    BY <1>0, <1>1, <2>1, ChipCount
  <2>2. CASE nand_bpc # 0
    <3>1. chip * Blocks <= 3 * Blocks
      BY <1>0, <1>1, MulMono
    <3>2. AllBlocks = 4 * Blocks
      BY <2>2, ChipCount
    <3> QED
      BY <1>0, <1>1, <3>1, <3>2
  <2> QED
    BY <2>1, <2>2
<1>5. Chip(x) = chip
  <2>1. CASE nand_bpc = 0
    BY <1>1, <2>1 DEF Chip
  <2>2. CASE nand_bpc # 0
    <3>1. nand_bpc = Blocks
      BY <2>2, Numbers
    <3> QED
      BY <1>1, <1>3, <2>2, <3>1 DEF Chip
  <2> QED
    BY <2>1, <2>2
<1>6. x \in BlockNumbers
  BY <1>2, <1>4, ChipCount, Numbers DEF BlockNumbers
<1> QED
  BY <1>3, <1>5, <1>6 DEF IsHome, r

\* Block numbers beyond the end come round again.
LEMMA HomeOfNumber ==
  ASSUME NEW b \in Nat
  PROVE  b % AllBlocks \in BlockNumbers /\ IsHome(b % AllBlocks, Chip(b), b)
<1>0. Blocks \in Nat \ {0} /\ AllBlocks \in Nat \ {0}
  BY ChipCount, Numbers
<1> DEFINE q == b \div AllBlocks
           x == b % AllBlocks
           p == x \div Blocks
           r == x % Blocks
<1>1. q \in Nat /\ x \in 0..(AllBlocks - 1) /\ b = AllBlocks * q + x
  BY <1>0, DivModType
<1> HIDE DEF q, x
<1>2. p \in Nat /\ r \in 0..(Blocks - 1) /\ x = Blocks * p + r
  <2>1. x \in Nat
    BY <1>0, <1>1
  <2> QED
    BY <1>0, <2>1, DivModType
<1> HIDE DEF p, r
<1>3. CASE nand_bpc = 0
  <2>1. AllBlocks = Blocks
    BY <1>3, ChipCount
  <2>2. b = Blocks * (q + p) + r /\ q + p \in Nat
    BY <1>0, <1>1, <1>2, <2>1
  <2>3. b % Blocks = r
    BY <1>0, <1>2, <2>2, DivModUnique
  <2> QED
    BY <1>1, <1>3, <2>3 DEF IsHome, Chip, BlockNumbers, r, x
<1>4. CASE nand_bpc = Blocks /\ nand_bpc # 0
  <2>1. AllBlocks = 4 * Blocks
    BY <1>4, ChipCount
  <2>2. AllBlocks * q = Blocks * (4 * q)
    BY <1>0, <1>1, <2>1
  <2>3. b = Blocks * (4 * q + p) + r /\ 4 * q + p \in Nat
    BY <1>0, <1>1, <1>2, <2>2
  <2>4. b % Blocks = r /\ b \div Blocks = 4 * q + p
    BY <1>0, <1>2, <2>3, DivModUnique
  <2>5. (4 * q + p) % 4 = p % 4
    BY <1>1, <1>2
  <2>6. Chip(x) = p % 4 /\ Chip(b) = p % 4
    BY <1>4, <2>4, <2>5 DEF Chip, p
  <2> QED
    BY <1>1, <2>4, <2>6 DEF IsHome, BlockNumbers, r, x
<1> QED
  BY <1>3, <1>4, Numbers

\* Whether a block number is bad is decided at its home.
LEMMA BadAtHome ==
  ASSUME NEW f, NEW b \in Nat, NEW x \in Nat, IsHome(x, Chip(b), b)
  PROVE  IsBad(f, b) <=> IsBad(f, x)
  BY BadByRows DEF IsHome, Row

\* Filling a block with anything but zeros makes its home good.
LEMMA BadAfterSet ==
  ASSUME NEW f \in [Cells -> PageSet], NEW chip \in Chips, NEW b \in Nat,
         NEW x \in BlockNumbers, IsHome(x, chip, b), NEW page \in {Erased, Garbage}
  PROVE  Bad(SetBlock(f, chip, b, page)) = Bad(f) \ {x}
<1> DEFINE g == SetBlock(f, chip, b, page)
<1>1. page # Zero
  BY DEF Erased, Garbage, Zero, Page
<1>2. ASSUME NEW y \in BlockNumbers
      PROVE  IsBad(g, y) <=> IsBad(f, y) /\ y # x
  <2>0. y \in Nat /\ x \in Nat /\ Chip(y) \in Chips
    BY <1>2, ChipType DEF BlockNumbers
  <2>1. \A o \in MarkerOffsets :
          g[<<Chip(y), Row(y, o)>>] =
            IF Chip(y) = chip /\ y % Blocks = b % Blocks THEN page ELSE f[<<Chip(y), Row(y, o)>>]
    BY <2>0, OffsetType, SetBlockRows
  <2>2. (Chip(y) = chip /\ y % Blocks = b % Blocks) <=> y = x
    BY <1>2, HomeUnique DEF IsHome
  <2> HIDE DEF g
  <2> QED
    BY <1>1, <2>0, <2>1, <2>2, BadByRows
<1> QED
  BY <1>2 DEF Bad

\* Marking a block makes its home bad.
LEMMA BadAfterMark ==
  ASSUME NEW f \in [Cells -> PageSet], NEW chip \in Chips, NEW b \in Nat,
         NEW x \in BlockNumbers, IsHome(x, chip, b)
  PROVE  Bad(MarkBad(f, chip, b)) = Bad(f) \cup {x}
<1> DEFINE g == MarkBad(f, chip, b)
<1>1. ASSUME NEW y \in BlockNumbers
      PROVE  IsBad(g, y) <=> IsBad(f, y) \/ y = x
  <2>0. y \in Nat /\ x \in Nat /\ Chip(y) \in Chips
    BY <1>1, ChipType DEF BlockNumbers
  <2>1. \A o \in MarkerOffsets :
          g[<<Chip(y), Row(y, o)>>] =
            IF Chip(y) = chip /\ y % Blocks = b % Blocks THEN Zero ELSE f[<<Chip(y), Row(y, o)>>]
    BY <2>0, OffsetType, MarkBadRows
  <2>2. (Chip(y) = chip /\ y % Blocks = b % Blocks) <=> y = x
    BY <1>1, HomeUnique DEF IsHome
  <2> HIDE DEF g
  <2> QED
    BY <2>0, <2>1, <2>2, BadByRows, OffsetType
<1> QED
  BY <1>1 DEF Bad

-----------------------------------------------------------------------------
(* The invariant of the running operations.                                *)

\* An erase request is at the beginning of a block, and its pin is up unless a
\* block failed.
EraseAligned == Running("erase") => cur % ppb = 0 /\ (wp_pin /\ notes.failed = 0 => wp)

\* With one plane it has tried as many blocks as it has gone past, less the bad
\* ones it made up for.
Tried == notes.good + notes.failed
EraseCounted ==
  (rq.op = "erase" /\ nand_plane = 1) =>
    /\ rq.count <= blk_num /\ Tried <= rq.count
    /\ cur = (rq.start + (blk_num - rq.count) + Tried) * ppb
    /\ nand_force_erase => blk_num = rq.count
    /\ ~busy => Tried = rq.count /\ ret = cur

\* The pages it has gone past are erased or in bad blocks.
Clean(f, p) == IsBad(f, p \div ppb) \/ f[Cell(Chip(p \div ppb), p)] = Erased
EraseClean ==
  (rq.op = "erase" /\ cur <= TotalPages /\ ~notes.lost /\ (wp_pin => notes.failed = 0)) =>
    \A p \in (rq.start * ppb)..(cur - 1) : Clean(flash, p)

\* Of the blocks it has gone past, the good ones were erased, or failed and
\* kept no marker.
GoodBlocks(f, from, to) == {b \in from..(to - 1) : b \notin Bad(f)}
EraseGood ==
  (Running("erase") /\ nand_plane = 1 /\ ~nand_force_erase /\ cur <= AllBlocks * ppb) =>
    Cardinality(GoodBlocks(flash, rq.start, cur \div ppb)) \in notes.good..Tried

\* The pages a request that began at page `from' has taken up to page e.
Skips(f, from, p) == (p \div ppb) * ppb >= from /\ (p \div ppb) % AllBlocks \in Bad(f)
Taken(f, from, e) == {p \in from..(e - 1) : ~Skips(f, from, p)}

\* A program or read request for n pages that began at page `from' and has come
\* to page e has taken k pages, the last of them right before its end, and is
\* not in the middle of a bad block it could have skipped.
Walk(f, from, e, k, n) ==
  /\ from \in Nat /\ from <= e /\ k <= n
  /\ k = Cardinality(Taken(f, from, e))
  /\ n = 0 => e = from
  /\ n > 0 /\ k = n => e - 1 \in Taken(f, from, e)
  /\ e % ppb # 0 => ~Skips(f, from, e)

Walking ==
  /\ Running("program") =>
       spage = rq.start + notes.failed * ppb /\ Walk(flash, spage, cur, i, rq.count)
  /\ Running("read") \/ Running("read_raw") => Walk(flash, rq.start, cur, i, rq.count)
  /\ Running("read_oob") => cur = rq.start + i /\ i <= rq.count

DeviceInv == EraseAligned /\ EraseCounted /\ EraseClean /\ EraseGood /\ Walking

-----------------------------------------------------------------------------
(* What each step does to the set of bad blocks.                           *)

LEMMA Typed ==
  ASSUME IndInv
  PROVE  /\ flash \in [Cells -> PageSet] /\ sel \in Chips /\ cur \in Nat /\ i \in Nat
         /\ spage \in Nat /\ blk_num \in Nat /\ rq.start \in Nat /\ rq.count \in Nat
         /\ notes.good \in Nat /\ notes.failed \in Nat /\ CountTypeOK
         /\ cur \div ppb \in Nat /\ Chip(cur \div ppb) \in Chips
<1>1. /\ flash \in [Cells -> PageSet] /\ sel \in Chips /\ cur \in Nat /\ i \in Nat
      /\ spage \in Nat /\ blk_num \in Nat /\ CountTypeOK
  BY DEF IndInv, TypeOK, FlashTypeOK, DriverTypeOK, LoopTypeOK
<1>2. rq.start \in Nat /\ rq.count \in Nat /\ notes.good \in Nat /\ notes.failed \in Nat
  BY RequestType, NoteType DEF IndInv, TypeOK, LoopTypeOK, NoteTypeOK
<1>3. cur \div ppb \in Nat /\ Chip(cur \div ppb) \in Chips
  BY <1>1, PageOfBlock, ChipType
<1> QED
  BY <1>1, <1>2, <1>3

\* The marker takes, or is lost and counted.
LEMMA MarkingBad ==
  ASSUME CountTypeOK, NEW f \in [Cells -> PageSet], NEW chip \in Chips, NEW b \in Nat,
         NEW x \in BlockNumbers, IsHome(x, chip, b), Marking(f, chip, b)
  PROVE  \/ /\ marksLost' = marksLost /\ flash' = MarkBad(f, chip, b)
            /\ Bad(flash') = Bad(f) \cup {x}
         \/ marksLost' # marksLost /\ flash' = f
<1>1. CASE flash' = MarkBad(f, chip, b) /\ marksLost' = marksLost
  BY <1>1, BadAfterMark
<1>2. CASE flash' = f /\ marksLost' = marksLost + 1
  <2>1. marksLost \in Nat
    BY BoundAssumption DEF CountTypeOK
  <2>2. marksLost' # marksLost
    BY <1>2, <2>1
  <2> QED
    BY <1>2, <2>2
<1> QED
  BY <1>1, <1>2 DEF Marking

\* A block that fails is marked, unless the marker is lost.
LEMMA FailBad ==
  ASSUME IndInv, EraseFail \/ ProgramFail
  PROVE  /\ Bad(flash') \in {Bad(flash) \ {(cur \div ppb) % AllBlocks},
                             Bad(flash) \cup {(cur \div ppb) % AllBlocks}}
         /\ marksLost' = marksLost =>
              Bad(flash') = Bad(flash) \cup {(cur \div ppb) % AllBlocks}
<1> DEFINE b == cur \div ppb
           x == b % AllBlocks
<1>0. b \in Nat /\ Chip(b) \in Chips /\ flash \in [Cells -> PageSet] /\ CountTypeOK
  BY Typed
<1>1. x \in BlockNumbers /\ IsHome(x, Chip(b), b)
  BY <1>0, HomeOfNumber
<1>2. sel' = Chip(b)
  BY DEF EraseFail, ProgramFail, EraseLoop, ProgramLoop
<1> HIDE DEF b, x
<1>3. PICK f \in [Cells -> PageSet] :
        Marking(f, Chip(b), b) /\ Bad(f) \in {Bad(flash), Bad(flash) \ {x}}
  <2>1. CASE EraseFail
    <3> DEFINE g == IF Protected THEN flash ELSE SetBlock(flash, Chip(b), b, Garbage)
    <3>1. Marking(g, Chip(b), b)
      BY <1>2, <2>1 DEF EraseFail, b
    <3>2. SetBlock(flash, Chip(b), b, Garbage) \in [Cells -> PageSet]
      BY <1>0, SetBlockType, SpecialPages
    <3>3. Bad(SetBlock(flash, Chip(b), b, Garbage)) = Bad(flash) \ {x}
      BY <1>0, <1>1, BadAfterSet
    <3> QED
      BY <1>0, <3>1, <3>2, <3>3
  <2>2. CASE ProgramFail
    <3>1. PICK page \in {Erased, Garbage} : Marking(SetBlock(flash, Chip(b), b, page), Chip(b), b)
      BY <1>2, <2>2 DEF ProgramFail, b
    <3>2. SetBlock(flash, Chip(b), b, page) \in [Cells -> PageSet]
      BY <1>0, SetBlockType, SpecialPages
    <3>3. Bad(SetBlock(flash, Chip(b), b, page)) = Bad(flash) \ {x}
      BY <1>0, <1>1, BadAfterSet
    <3> QED
      BY <3>1, <3>2, <3>3
  <2> QED
    BY <2>1, <2>2
<1>4. \/ marksLost' = marksLost /\ Bad(flash') = Bad(f) \cup {x}
      \/ marksLost' # marksLost /\ flash' = f
  BY <1>0, <1>1, <1>3, MarkingBad
<1>5. /\ Bad(flash') \in {Bad(flash) \ {x}, Bad(flash) \cup {x}}
      /\ marksLost' = marksLost => Bad(flash') = Bad(flash) \cup {x}
  <2>1. CASE marksLost' = marksLost /\ Bad(flash') = Bad(f) \cup {x}
    <3>1. Bad(f) \cup {x} = Bad(flash) \cup {x}
      BY <1>3
    <3> QED
      BY <2>1, <3>1
  <2>2. CASE marksLost' # marksLost /\ flash' = f
    <3>1. Bad(flash) \in {Bad(flash) \ {x}, Bad(flash) \cup {x}}
      <4>1. CASE x \in Bad(flash)
        <5>1. Bad(flash) \cup {x} = Bad(flash)
          BY <4>1
        <5> QED
          BY <5>1
      <4>2. CASE x \notin Bad(flash)
        <5>1. Bad(flash) \ {x} = Bad(flash)
          BY <4>2
        <5> QED
          BY <5>1
      <4> QED
        BY <4>1, <4>2
    <3> QED
      BY <1>3, <2>2, <3>1
  <2> QED
    BY <1>4, <2>1, <2>2
<1> QED
  BY <1>5 DEF x, b

\* An erased block is good; without force it was good before.
LEMMA EraseBlockBad ==
  ASSUME IndInv, EraseBlock
  PROVE  /\ Bad(flash') \in {Bad(flash), Bad(flash) \ {(cur \div ppb) % AllBlocks}}
         /\ ~nand_force_erase => Bad(flash') = Bad(flash)
<1> DEFINE b == cur \div ppb
           x == b % AllBlocks
<1>0. b \in Nat /\ Chip(b) \in Chips /\ flash \in [Cells -> PageSet]
  BY Typed
<1>1. x \in BlockNumbers /\ IsHome(x, Chip(b), b) /\ x \in Nat
  BY <1>0, HomeOfNumber DEF BlockNumbers
<1>2. /\ flash' = (IF Protected THEN flash ELSE SetBlock(flash, Chip(b), b, Erased))
      /\ nand_force_erase \/ ~IsBad(flash, b)
  BY DEF EraseBlock, EraseLoop
<1> HIDE DEF b, x
<1>3. Bad(SetBlock(flash, Chip(b), b, Erased)) = Bad(flash) \ {x}
  BY <1>0, <1>1, BadAfterSet
<1>4. ~nand_force_erase => Bad(flash) \ {x} = Bad(flash)
  <2>1. IsBad(flash, b) <=> IsBad(flash, x)
    BY <1>0, <1>1, BadAtHome
  <2> QED
    BY <1>2, <2>1 DEF Bad
<1>5. /\ Bad(flash') \in {Bad(flash), Bad(flash) \ {x}}
      /\ ~nand_force_erase => Bad(flash') = Bad(flash)
  BY <1>2, <1>3, <1>4
<1> QED
  BY <1>5 DEF x, b

\* Programming a page neither marks nor unmarks a block.
LEMMA ProgramPageBad ==
  ASSUME IndInv, ProgramPage
  PROVE  Bad(flash') = Bad(flash)
<1> DEFINE c == Cell(sel', cur)
<1>1. ProgramLoop /\ flash' = IF Protected THEN flash
                              ELSE [flash EXCEPT ![c] = Programmed(@, Written)]
  BY DEF ProgramPage
<1>2. Written \in PageSet /\ Written # Zero
  BY ProgramWritten DEF ProgramPage
<1>3. c \in Cells /\ flash \in [Cells -> PageSet]
  BY <1>1, ProgramLoopFacts, Typed, CellType
<1> HIDE DEF c
<1>4. CASE Protected
  BY <1>1, <1>4
<1>5. CASE ~Protected
  <2>1. flash' = [flash EXCEPT ![c] = Programmed(@, Written)]
    BY <1>1, <1>5
  <2>2. Programmed(Zero, Written) = Zero
    BY DEF Programmed, Zero, Erased, Garbage, Page
  <2>3. ASSUME NEW b \in BlockNumbers PROVE IsBad(flash', b) <=> IsBad(flash, b)
    <3>0. b \in Nat
      BY <2>3 DEF BlockNumbers
    <3>1. IsBad(flash', b) => IsBad(flash, b)
      BY <1>2, <1>3, <2>1, <3>0, ProgramKeepsGood
    <3>2. ASSUME NEW p \in MarkerPages(b), flash[Cell(Chip(b), p)] = Zero
          PROVE  flash'[Cell(Chip(b), p)] = Zero
      <4>1. Cell(Chip(b), p) \in Cells
        BY <3>0, <3>2, MarkerType, ChipType, CellType
      <4> QED
        BY <1>3, <2>1, <2>2, <3>2, <4>1
    <3> QED
      BY <3>1, <3>2 DEF IsBad
  <2> QED
    BY <2>3 DEF Bad
<1> QED
  BY <1>4, <1>5

\* The host's marker takes, on the selected chip, or is lost.
LEMMA MarkBad4740Bad ==
  ASSUME IndInv, nand_mark_bad_4740
  PROVE  /\ rq' \in Requests /\ rq'.op = "mark_bad"
         /\ \E x \in BlockNumbers : /\ x % Blocks = rq'.start % Blocks
                                    /\ Bad(flash') \in {Bad(flash), Bad(flash) \cup {x}}
<1>1. PICK r \in Requests : r.op = "mark_bad" /\ rq' = r /\ Marking(flash, sel, r.start)
  BY DEF nand_mark_bad_4740
<1>2. r.start \in Nat /\ sel \in Chips /\ CountTypeOK /\ flash \in [Cells -> PageSet]
  BY Typed, RequestType
<1>3. PICK x \in BlockNumbers : IsHome(x, sel, r.start)
  BY <1>2, HomeExists
<1>4. Bad(flash') \in {Bad(flash), Bad(flash) \cup {x}}
  BY <1>1, <1>2, <1>3, MarkingBad
<1> QED
  BY <1>1, <1>3, <1>4 DEF IsHome

\* Every other step leaves the flash alone.
LEMMA OthersKeepFlash ==
  ASSUME Next, ~nand_mark_bad_4740, ~EraseBlock, ~EraseFail, ~ProgramPage, ~ProgramFail
  PROVE  UNCHANGED flash
<1>1. CASE nand_init_4740 \/ EraseStart \/ ProgramStart \/ ReadStart
  BY <1>1 DEF nand_init_4740, EraseStart, ProgramStart, ReadStart, Start
<1>2. CASE EraseSkipBad \/ EraseDone \/ ProgramSkipBad \/ ProgramSkipFF \/ ProgramDone
  BY <1>2 DEF EraseSkipBad, EraseDone, ProgramSkipBad, ProgramSkipFF, ProgramDone
<1>3. CASE ReadStep
  BY <1>3 DEF ReadStep, ReadSkipBad, ReadPage, ReadRawPage, ReadOobPage, ReadDone, ReadLoop
<1>4. CASE AllServed
  BY <1>4 DEF AllServed, vars
<1> QED
  BY <1>1, <1>2, <1>3, <1>4 DEF Next, Driver, Host, EraseStep, ProgramStep

\* A block is unmarked by an erase with force, or when a marker is lost.
LEMMA UnmarkedBy ==
  ASSUME IndInv, Next, NEW b \in BlockNumbers, IsBad(flash, b), ~IsBad(flash', b)
  PROVE  (nand_force_erase /\ rq.op = "erase") \/ marksLost' # marksLost
<1>0. b \in Bad(flash) /\ b \notin Bad(flash')
  BY DEF Bad
<1>1. CASE nand_mark_bad_4740
  BY <1>0, <1>1, MarkBad4740Bad
<1>2. CASE EraseBlock
  <2>1. rq.op = "erase"
    BY <1>2 DEF EraseBlock, EraseLoop, Running
  <2> QED
    BY <1>0, <1>2, <2>1, EraseBlockBad
<1>3. CASE EraseFail \/ ProgramFail
  BY <1>0, <1>3, FailBad
<1>4. CASE ProgramPage
  BY <1>0, <1>4, ProgramPageBad
<1> QED
  BY <1>0, <1>1, <1>2, <1>3, <1>4, OthersKeepFlash

\* A block marked bad stays marked, for every geometry and on every chip, but
\* for an erase with force and a marker write that did not take.
THEOREM BadBlocksStayBad == Spec => BadStaysBad
<1>1. IndInv /\ [Next]_vars =>
        [\A b \in 0..(Blocks * Cardinality(Chips) - 1) :
           IsBad(flash, b) /\ ~IsBad(flash', b)
             => (nand_force_erase /\ rq.op = "erase") \/ marksLost' # marksLost]_vars
  BY UnmarkedBy DEF BlockNumbers, AllBlocks
<1> QED
  BY <1>1, Invariance, PTL DEF Spec, BadStaysBad

-----------------------------------------------------------------------------
(* Erase requests.                                                         *)

LEMMA AllPages == TotalPages = AllBlocks * ppb /\ AllBlocks \in Nat \ {0}
<1>1. Cardinality(Chips) \in {1, 4}
  BY ChipsCard
<1> QED
  BY <1>1, Numbers DEF TotalPages, AllBlocks

\* The block after block b, and the pages between.
LEMMA NextBlock ==
  ASSUME NEW p \in Nat, p % ppb = 0
  PROVE  /\ p = (p \div ppb) * ppb /\ (p + ppb) % ppb = 0 /\ (p + ppb) \div ppb = p \div ppb + 1
         /\ \A q \in p..(p + ppb - 1) : q \div ppb = p \div ppb
         /\ \A q \in 0..(p - 1) : q \div ppb < p \div ppb
         /\ p + ppb <= AllBlocks * ppb => p \div ppb < AllBlocks
<1> DEFINE b == p \div ppb
<1>0. ppb \in Nat \ {0} /\ b \in Nat /\ AllBlocks \in Nat \ {0}
  BY Numbers, PageOfBlock, AllPages
<1>1. p = b * ppb
  BY PageOfBlock, <1>0
<1> HIDE DEF b
<1>2. p + ppb = (b + 1) * ppb
  BY <1>0, <1>1
<1>3. (p + ppb) % ppb = 0 /\ (p + ppb) \div ppb = b + 1
  <2>1. (b + 1) * ppb + 0 = p + ppb /\ b + 1 \in Nat /\ 0 \in 0..(ppb - 1)
    BY <1>0, <1>1, <1>2
  <2> QED
    BY <2>1, BlockOfPage
<1>4. ASSUME NEW q \in p..(p + ppb - 1) PROVE q \div ppb = b
  <2>1. q - p \in 0..(ppb - 1) /\ q = b * ppb + (q - p)
    BY <1>0, <1>1, <1>4
  <2> QED
    BY <1>0, <2>1, BlockOfPage
<1>5. ASSUME NEW q \in 0..(p - 1) PROVE q \div ppb < b
  <2> DEFINE d == q \div ppb
  <2>0. q \in Nat /\ q < p
    BY <1>5
  <2>1. d \in Nat /\ q % ppb \in Nat /\ q = d * ppb + (q % ppb)
    BY <2>0, PageOfBlock
  <2> HIDE DEF d
  <2>2. ASSUME b <= d PROVE FALSE
    <3>1. b * ppb <= d * ppb
      BY <1>0, <2>1, <2>2, MulMono
    <3> QED
      BY <1>0, <1>1, <2>0, <2>1, <3>1
  <2> QED
    BY <1>0, <2>1, <2>2 DEF d
<1>6. ASSUME p + ppb <= AllBlocks * ppb PROVE b < AllBlocks
  <2>1. ASSUME AllBlocks <= b PROVE FALSE
    <3>1. AllBlocks * ppb <= b * ppb
      BY <1>0, <2>1, MulMono
    <3> QED
      BY <1>0, <1>1, <1>6, <3>1
  <2> QED
    BY <1>0, <2>1
<1> QED
  BY <1>1, <1>3, <1>4, <1>5, <1>6 DEF b

\* What every iteration of the erase loop does.
LEMMA EraseLoopFacts ==
  ASSUME IndInv, DeviceInv, EraseSkipBad \/ EraseBlock \/ EraseFail
  PROVE  /\ Running("erase") /\ cur < (rq.start + blk_num) * ppb /\ cur' = cur + ppb
         /\ UNCHANGED <<busy, rq, ret>> /\ cur % ppb = 0 /\ cur \in Nat /\ cur' % ppb = 0
         /\ cur' \div ppb = cur \div ppb + 1 /\ cur \div ppb \in Nat /\ sel' = Chip(cur \div ppb)
         /\ cur = (cur \div ppb) * ppb
<1>1. EraseLoop
  BY DEF EraseSkipBad, EraseBlock, EraseFail
<1>2. /\ Running("erase") /\ cur < (rq.start + blk_num) * ppb /\ cur' = cur + ppb
      /\ UNCHANGED <<busy, rq, ret>> /\ sel' = Chip(cur \div ppb)
  BY <1>1 DEF EraseLoop
<1>3. cur % ppb = 0 /\ cur \in Nat /\ cur \div ppb \in Nat
  BY <1>2, Typed DEF DeviceInv, EraseAligned
<1> QED
  BY <1>2, <1>3, NextBlock

\* The steps of other operations leave a finished erase as it is.
LEMMA EraseElsewhere ==
  ASSUME IndInv, Next, ~EraseStart, ~EraseStep
  PROVE  \/ rq'.op # "erase"
         \/ ~busy /\ UNCHANGED <<busy, rq, cur, blk_num, notes, ret, flash>>
<1>1. CASE ProgramStep
  BY <1>1 DEF ProgramStep, ProgramSkipBad, ProgramSkipFF, ProgramPage, ProgramFail, ProgramDone,
              ProgramLoop, Running, Finish
<1>2. CASE ReadStep
  BY <1>2 DEF ReadStep, ReadSkipBad, ReadPage, ReadRawPage, ReadOobPage, ReadDone,
              ReadLoop, Running, Finish, ReadOps
<1>3. CASE nand_mark_bad_4740
  BY <1>3, MarkBad4740Bad
<1>4. CASE nand_init_4740
  BY <1>4 DEF nand_init_4740
<1>5. CASE ProgramStart
  <2>1. rq'.op = "program"
    BY <1>5, StartFacts DEF ProgramStart
  <2> QED
    BY <2>1
<1>6. CASE ReadStart
  <2>1. PICK op \in ReadOps : Start(op)
    BY <1>6 DEF ReadStart
  <2>2. rq'.op = op
    BY <2>1, StartFacts
  <2> QED
    BY <2>1, <2>2 DEF ReadOps
<1>7. CASE AllServed
  BY <1>7 DEF AllServed, vars
<1> QED
  BY <1>1, <1>2, <1>3, <1>4, <1>5, <1>6, <1>7 DEF Next, Driver, Host

LEMMA EraseAlignedNext ==
  ASSUME IndInv, DeviceInv, Next
  PROVE  EraseAligned'
<1>1. CASE EraseStart
  <2>1. rq'.start \in Nat
    BY <1>1, StartFacts DEF EraseStart
  <2>2. cur' = rq'.start * ppb + 0 /\ 0 \in 0..(ppb - 1)
    BY <1>1, <2>1, Numbers DEF EraseStart
  <2>3. cur' % ppb = 0
    BY <2>1, <2>2, BlockOfPage
  <2>4. wp_pin => wp'
    BY <1>1 DEF EraseStart, PinHigh
  <2> QED
    BY <2>3, <2>4 DEF EraseAligned
<1>2. CASE EraseSkipBad \/ EraseBlock \/ EraseFail
  <2>1. Running("erase") /\ cur' % ppb = 0
    BY <1>2, EraseLoopFacts
  <2>2. notes.failed \in Nat
    BY Typed
  <2>3. notes'.failed = 0 => UNCHANGED wp /\ notes.failed = 0
    <3>1. CASE EraseSkipBad \/ EraseBlock
      BY <3>1 DEF EraseSkipBad, EraseBlock, Note
    <3>2. CASE EraseFail
      <4>1. notes'.failed = notes.failed + 1
        BY <3>2 DEF EraseFail, Note
      <4> QED
        BY <2>2, <4>1
    <3> QED
      BY <1>2, <3>1, <3>2
  <2> QED
    BY <2>1, <2>3 DEF EraseAligned, DeviceInv
<1>3. CASE EraseDone
  BY <1>3 DEF EraseDone, Finish, EraseAligned, Running
<1>4. CASE ~EraseStart /\ ~EraseStep
  BY <1>4, EraseElsewhere DEF EraseAligned, Running
<1> QED
  BY <1>1, <1>2, <1>3, <1>4 DEF EraseStep

LEMMA EraseCountedNext ==
  ASSUME IndInv, DeviceInv, Next
  PROVE  EraseCounted'
<1> SUFFICES ASSUME rq'.op = "erase", nand_plane = 1
             PROVE  /\ rq'.count <= blk_num' /\ Tried' <= rq'.count
                    /\ cur' = (rq'.start + (blk_num' - rq'.count) + Tried') * ppb
                    /\ nand_force_erase => blk_num' = rq'.count
                    /\ ~busy' => Tried' = rq'.count /\ ret' = cur'
  BY DEF EraseCounted
<1>0. /\ ppb \in Nat \ {0} /\ cur \in Nat /\ rq.start \in Nat /\ rq.count \in Nat
      /\ blk_num \in Nat /\ notes.good \in Nat /\ notes.failed \in Nat /\ Tried \in Nat
  BY Typed, Numbers DEF Tried
<1>1. CASE EraseStart
  <2>1. rq'.start \in Nat /\ rq'.count \in Nat
    BY <1>1, StartFacts DEF EraseStart
  <2>2. Tried' = 0 /\ blk_num' = rq'.count /\ cur' = rq'.start * ppb /\ busy' = TRUE
    BY <1>1 DEF EraseStart, Tried, NoNotes, Note
  <2> QED
    BY <1>0, <2>1, <2>2
<1>2. CASE EraseSkipBad \/ EraseBlock \/ EraseFail
  <2>1. /\ Running("erase") /\ cur < (rq.start + blk_num) * ppb /\ cur' = cur + ppb
        /\ UNCHANGED <<busy, rq, ret>>
    BY <1>2, EraseLoopFacts
  <2>2. /\ rq.count <= blk_num /\ Tried <= rq.count
        /\ cur = (rq.start + (blk_num - rq.count) + Tried) * ppb
        /\ nand_force_erase => blk_num = rq.count
    BY <2>1 DEF DeviceInv, EraseCounted, Running
  <2>3. Tried < rq.count
    <3>1. ASSUME Tried = rq.count PROVE FALSE
      <4>1. rq.start + (blk_num - rq.count) + Tried = rq.start + blk_num
        BY <1>0, <3>1
      <4>2. (rq.start + blk_num) * ppb \in Nat
        BY <1>0
      <4> QED
        BY <1>0, <2>1, <2>2, <4>1, <4>2
    <3> QED
      BY <1>0, <2>2, <3>1
  <2>4. \/ ~nand_force_erase /\ blk_num' = blk_num + 1 /\ Tried' = Tried
        \/ blk_num' = blk_num /\ Tried' = Tried + 1
    <3>1. CASE EraseSkipBad
      BY <3>1 DEF EraseSkipBad, Tried
    <3>2. CASE EraseBlock \/ EraseFail
      <4>1. /\ blk_num' = blk_num
            /\ \/ notes'.good = notes.good + 1 /\ notes'.failed = notes.failed
               \/ notes'.good = notes.good /\ notes'.failed = notes.failed + 1
        BY <3>2 DEF EraseBlock, EraseFail, Note
      <4> QED
        BY <1>0, <4>1 DEF Tried
    <3> QED
      BY <1>2, <3>1, <3>2
  <2>5. rq'.start + (blk_num' - rq'.count) + Tried' = rq.start + (blk_num - rq.count) + Tried + 1
    <3>1. rq'.start = rq.start /\ rq'.count = rq.count
      BY <2>1
    <3>2. rq.start + (blk_num' - rq.count) + Tried' = rq.start + (blk_num - rq.count) + Tried + 1
      BY <1>0, <2>4
    <3> QED
      BY <3>1, <3>2
  <2>6. cur' = (rq'.start + (blk_num' - rq'.count) + Tried') * ppb
    <3> DEFINE k == rq.start + (blk_num - rq.count) + Tried
    <3>1. k \in Nat
      BY <1>0, <2>2
    <3> HIDE DEF k
    <3>2. (k + 1) * ppb = k * ppb + ppb
      BY <1>0, <3>1
    <3> QED
      BY <2>1, <2>2, <2>5, <3>2 DEF k
  <2> QED
    BY <1>0, <2>1, <2>2, <2>3, <2>4, <2>6 DEF Running
<1>3. CASE EraseDone
  <2>1. /\ Running("erase") /\ cur >= (rq.start + blk_num) * ppb /\ ret' = cur
        /\ UNCHANGED <<rq, cur, blk_num, notes>>
    BY <1>3 DEF EraseDone, Finish
  <2>2. /\ rq.count <= blk_num /\ Tried <= rq.count
        /\ cur = (rq.start + (blk_num - rq.count) + Tried) * ppb
        /\ nand_force_erase => blk_num = rq.count
    BY <2>1 DEF DeviceInv, EraseCounted, Running
  <2>3. ASSUME Tried < rq.count PROVE FALSE
    <3> DEFINE k == rq.start + (blk_num - rq.count) + Tried
    <3>1. k \in Nat /\ k + 1 <= rq.start + blk_num /\ rq.start + blk_num \in Nat
      BY <1>0, <2>2, <2>3
    <3>2. cur = k * ppb
      BY <2>2
    <3> HIDE DEF k
    <3>3. (k + 1) * ppb <= (rq.start + blk_num) * ppb /\ (k + 1) * ppb = k * ppb + ppb
      BY <1>0, <3>1, MulMono
    <3> QED
      BY <1>0, <2>1, <3>1, <3>2, <3>3
  <2>4. Tried = rq.count /\ Tried' = Tried
    BY <1>0, <2>1, <2>2, <2>3 DEF Tried
  <2> QED
    BY <2>1, <2>2, <2>4
<1>4. CASE ~EraseStart /\ ~EraseStep
  BY <1>4, EraseElsewhere DEF DeviceInv, EraseCounted, Tried
<1> QED
  BY <1>1, <1>2, <1>3, <1>4 DEF EraseStep

\* A step that changes block b alone keeps the other blocks clean.
OnlyIn(f, g, b) ==
  \A chip \in Chips, x \in Nat, o \in 0..(ppb - 1) :
    ~(chip = Chip(b) /\ x % Blocks = b % Blocks) =>
      g[<<chip, Row(x, o)>>] = f[<<chip, Row(x, o)>>]

LEMMA CleanElsewhere ==
  ASSUME NEW f, NEW g, NEW b \in BlockNumbers, OnlyIn(f, g, b),
         NEW p \in Nat, p \div ppb \in BlockNumbers, p \div ppb # b, Clean(f, p)
  PROVE  Clean(g, p)
<1> DEFINE x == p \div ppb
           o == p % ppb
<1>1. x \in Nat /\ o \in 0..(ppb - 1) /\ p = x * ppb + o /\ Chip(x) \in Chips
  BY PageOfBlock, ChipType
<1>2. ~(Chip(x) = Chip(b) /\ x % Blocks = b % Blocks)
  BY HomeUnique
<1>3. Cell(Chip(x), p) = <<Chip(x), Row(x, o)>>
  <2> HIDE DEF x, o
  <2> QED
    BY <1>1, CellOfBlock
<1> HIDE DEF x, o
<1>4. g[Cell(Chip(x), p)] = f[Cell(Chip(x), p)]
  BY <1>1, <1>2, <1>3 DEF OnlyIn
<1>5. \A m \in MarkerOffsets : g[<<Chip(x), Row(x, m)>>] = f[<<Chip(x), Row(x, m)>>]
  BY <1>1, <1>2, OffsetType DEF OnlyIn
<1>6. IsBad(g, x) <=> IsBad(f, x)
  BY <1>1, <1>5, BadByRows
<1> QED
  BY <1>4, <1>6 DEF Clean, x

LEMMA SetBlockOnly ==
  ASSUME NEW f \in [Cells -> PageSet], NEW b \in Nat, NEW page
  PROVE  OnlyIn(f, SetBlock(f, Chip(b), b, page), b)
  BY ChipType, SetBlockRows DEF OnlyIn

LEMMA MarkBadOnly ==
  ASSUME NEW f \in [Cells -> PageSet], NEW b \in Nat
  PROVE  OnlyIn(f, MarkBad(f, Chip(b), b), b)
  BY ChipType, MarkBadRows DEF OnlyIn

\* An iteration of the loop changes its block alone, and leaves it clean unless
\* the pin was down or a marker was lost.
LEMMA EraseLoopClean ==
  ASSUME IndInv, DeviceInv, EraseSkipBad \/ EraseBlock \/ EraseFail, ~notes'.lost,
         wp_pin => notes'.failed = 0, cur' <= TotalPages
  PROVE  /\ OnlyIn(flash, flash', cur \div ppb)
         /\ \A p \in cur..(cur + ppb - 1) : Clean(flash', p)
         /\ ~notes.lost /\ (wp_pin => notes.failed = 0)
<1> DEFINE b == cur \div ppb
<1>0. /\ Running("erase") /\ cur % ppb = 0 /\ cur \in Nat /\ b \in Nat /\ sel' = Chip(b)
      /\ flash \in [Cells -> PageSet] /\ Chip(b) \in Chips /\ notes.failed \in Nat /\ CountTypeOK
      /\ cur = b * ppb
  BY EraseLoopFacts, Typed
<1>1. \A p \in cur..(cur + ppb - 1) : p \div ppb = b /\ p \in Nat
  <2>1. \A p \in cur..(cur + ppb - 1) : p \div ppb = b
    BY <1>0, NextBlock
  <2>2. \A p \in cur..(cur + ppb - 1) : p \in Nat
    BY <1>0, Numbers
  <2> QED
    BY <2>1, <2>2
<1>2. CASE EraseSkipBad
  <2>1. UNCHANGED <<flash, notes>> /\ IsBad(flash, b)
    BY <1>2 DEF EraseSkipBad
  <2> HIDE DEF b
  <2>2. \A p \in cur..(cur + ppb - 1) : Clean(flash', p)
    BY <1>1, <2>1 DEF Clean
  <2> QED
    BY <2>1, <2>2 DEF OnlyIn, b
<1>3. CASE EraseBlock
  <2>1. /\ flash' = (IF Protected THEN flash ELSE SetBlock(flash, Chip(b), b, Erased))
        /\ notes'.failed = notes.failed /\ notes'.lost = notes.lost
    BY <1>0, <1>3 DEF EraseBlock, Note
  <2>2. ~Protected
    BY <1>0, <2>1 DEF Protected, DeviceInv, EraseAligned
  <2>3. flash' = SetBlock(flash, Chip(b), b, Erased)
    BY <2>1, <2>2
  <2> HIDE DEF b
  <2>4. OnlyIn(flash, flash', b)
    BY <1>0, <2>3, SetBlockOnly
  <2>5. ASSUME NEW p \in cur..(cur + ppb - 1) PROVE Clean(flash', p)
    <3>1. p \div ppb = b /\ p \in Nat
      BY <1>1
    <3>2. p % ppb \in 0..(ppb - 1) /\ p = b * ppb + (p % ppb)
      BY <3>1, PageOfBlock
    <3>3. Cell(Chip(b), p) = <<Chip(b), Row(b, p % ppb)>>
      BY <1>0, <3>2, CellOfBlock
    <3>4. flash'[<<Chip(b), Row(b, p % ppb)>>] = Erased
      BY <1>0, <2>3, <3>2, SetBlockRows
    <3> QED
      BY <3>1, <3>3, <3>4 DEF Clean
  <2> QED
    BY <2>1, <2>4, <2>5 DEF b
<1>4. CASE EraseFail
  <2> DEFINE f == SetBlock(flash, Chip(b), b, Garbage)
  <2>1. /\ Marking(IF Protected THEN flash ELSE f, Chip(b), b)
        /\ notes' = Note(notes.good, notes.failed + 1, FALSE, FALSE,
                         notes.lost \/ marksLost' # marksLost)
    BY <1>0, <1>4 DEF EraseFail
  <2>2. notes'.failed = notes.failed + 1 /\ ~notes.lost /\ marksLost' = marksLost
    BY <2>1 DEF Note
  <2>3. ~wp_pin /\ ~Protected
    BY <1>0, <2>2 DEF Protected
  <2>4. f \in [Cells -> PageSet]
    BY <1>0, SetBlockType, SpecialPages
  <2>5. OnlyIn(flash, f, b)
    BY <1>0, SetBlockOnly
  <2> HIDE DEF b, f
  <2>6. flash' = MarkBad(f, Chip(b), b)
    <3>1. marksLost' # marksLost + 1
      BY <1>0, <2>2, BoundAssumption DEF CountTypeOK
    <3> QED
      BY <2>1, <2>3, <3>1 DEF Marking
  <2>7. OnlyIn(f, flash', b)
    BY <1>0, <2>4, <2>6, MarkBadOnly
  <2>8. OnlyIn(flash, flash', b)
    BY <2>5, <2>7 DEF OnlyIn
  <2>9. IsBad(flash', b)
    <3>1. PICK o \in MarkerOffsets : o \in 0..(ppb - 1)
      BY OffsetType
    <3>2. flash'[<<Chip(b), Row(b, o)>>] = Zero
      BY <1>0, <2>4, <2>6, <3>1, MarkBadRows
    <3> QED
      BY <1>0, <3>1, <3>2, BadByRows
  <2>10. \A p \in cur..(cur + ppb - 1) : Clean(flash', p)
    BY <1>1, <2>9 DEF Clean
  <2> QED
    BY <2>2, <2>3, <2>8, <2>10 DEF b
<1> QED
  BY <1>2, <1>3, <1>4

LEMMA EraseCleanNext ==
  ASSUME IndInv, DeviceInv, Next
  PROVE  EraseClean'
<1> SUFFICES ASSUME rq'.op = "erase", cur' <= TotalPages, ~notes'.lost,
                    wp_pin => notes'.failed = 0,
                    NEW p \in (rq'.start * ppb)..(cur' - 1)
             PROVE  Clean(flash', p)
  BY DEF EraseClean, Clean
<1>1. CASE EraseStart
  <2>1. rq'.start \in Nat /\ cur' = rq'.start * ppb
    BY <1>1, StartFacts DEF EraseStart
  <2> QED
    BY <2>1, Numbers
<1>2. CASE EraseSkipBad \/ EraseBlock \/ EraseFail
  <2> DEFINE b == cur \div ppb
  <2>1. /\ OnlyIn(flash, flash', b) /\ \A q \in cur..(cur + ppb - 1) : Clean(flash', q)
        /\ ~notes.lost /\ (wp_pin => notes.failed = 0)
    BY <1>2, EraseLoopClean
  <2>2. /\ cur \in Nat /\ cur % ppb = 0 /\ cur' = cur + ppb /\ rq' = rq /\ b \in Nat
        /\ rq.op = "erase"
    BY <1>2, EraseLoopFacts DEF Running
  <2>3. /\ b < AllBlocks /\ \A q \in 0..(cur - 1) : q \div ppb < b
    BY <2>2, NextBlock, AllPages
  <2>4. ppb \in Nat /\ rq.start * ppb \in Nat /\ TotalPages \in Nat
    BY Numbers, Typed, AllPages
  <2> HIDE DEF b
  <2>5. CASE p >= cur
    BY <2>1, <2>2, <2>4, <2>5
  <2>6. CASE p < cur
    <3>1. p \in (rq.start * ppb)..(cur - 1) /\ p \in Nat /\ p \in 0..(cur - 1)
      BY <2>2, <2>4, <2>6
    <3>2. cur <= TotalPages
      BY <2>2, <2>4
    <3>3. Clean(flash, p)
      BY <2>1, <2>2, <3>1, <3>2 DEF DeviceInv, EraseClean
    <3>4. p \div ppb < b /\ p \div ppb \in Nat
      BY <2>3, <3>1, PageOfBlock
    <3>5. b \in BlockNumbers /\ p \div ppb \in BlockNumbers /\ p \div ppb # b
      BY <2>2, <2>3, <3>4, AllPages DEF BlockNumbers
    <3> QED
      BY <2>1, <3>1, <3>3, <3>5, CleanElsewhere
  <2> QED
    BY <2>2, <2>4, <2>5, <2>6
<1>3. CASE EraseDone
  BY <1>3 DEF EraseDone, Finish, DeviceInv, EraseClean, Running
<1>4. CASE ~EraseStart /\ ~EraseStep
  BY <1>4, EraseElsewhere DEF DeviceInv, EraseClean
<1> QED
  BY <1>1, <1>2, <1>3, <1>4 DEF EraseStep

LEMMA GoodBlocksGrow ==
  ASSUME NEW f, NEW from \in Nat, NEW to \in Nat
  PROVE  /\ IsFiniteSet(GoodBlocks(f, from, to))
         /\ Cardinality(GoodBlocks(f, from, to)) \in Nat
         /\ from <= to =>
              Cardinality(GoodBlocks(f, from, to + 1)) =
                Cardinality(GoodBlocks(f, from, to)) + IF to \in Bad(f) THEN 0 ELSE 1
<1> DEFINE S == GoodBlocks(f, from, to)
<1>1. IsFiniteSet(S) /\ Cardinality(S) \in Nat
  <2>1. IsFiniteSet(from..(to - 1))
    BY FS_Interval
  <2>2. IsFiniteSet(S)
    BY <2>1, FS_Subset DEF GoodBlocks
  <2> QED
    BY <2>2, FS_CardinalityType
<1>2. ASSUME from <= to
      PROVE  Cardinality(GoodBlocks(f, from, to + 1)) =
               Cardinality(S) + IF to \in Bad(f) THEN 0 ELSE 1
  <2>1. from..((to + 1) - 1) = (from..(to - 1)) \cup {to} /\ to \notin from..(to - 1)
    BY <1>2
  <2>2. CASE to \in Bad(f)
    <3>1. GoodBlocks(f, from, to + 1) = S
      BY <2>1, <2>2 DEF GoodBlocks
    <3> QED
      BY <1>1, <2>2, <3>1
  <2>3. CASE to \notin Bad(f)
    <3>1. GoodBlocks(f, from, to + 1) = S \cup {to} /\ to \notin S
      BY <2>1, <2>3 DEF GoodBlocks
    <3>2. Cardinality(S \cup {to}) = Cardinality(S) + 1
      BY <1>1, <3>1, FS_AddElement
    <3> QED
      BY <2>3, <3>1, <3>2
  <2> QED
    BY <2>2, <2>3
<1> QED
  BY <1>1, <1>2

LEMMA EraseGoodNext ==
  ASSUME IndInv, DeviceInv, Next
  PROVE  EraseGood'
<1> SUFFICES ASSUME Running("erase")', nand_plane = 1, ~nand_force_erase,
                    cur' <= AllBlocks * ppb
             PROVE  Cardinality(GoodBlocks(flash', rq'.start, cur' \div ppb))
                      \in notes'.good..Tried'
  BY DEF EraseGood
<1>0. /\ ppb \in Nat \ {0} /\ cur \in Nat /\ rq.start \in Nat
      /\ notes.good \in Nat /\ notes.failed \in Nat /\ Tried \in Nat
  BY Typed, Numbers DEF Tried
<1>1. CASE EraseStart
  <2>1. rq'.start \in Nat /\ cur' = rq'.start * ppb /\ notes'.good = 0 /\ Tried' = 0
    BY <1>1, StartFacts DEF EraseStart, NoNotes, Note, Tried
  <2>2. cur' \div ppb = rq'.start
    <3>1. rq'.start * ppb + 0 = cur' /\ 0 \in 0..(ppb - 1)
      BY <1>0, <2>1
    <3> QED
      BY <2>1, <3>1, BlockOfPage
  <2>3. GoodBlocks(flash', rq'.start, rq'.start) = {}
    BY <2>1 DEF GoodBlocks
  <2>4. Cardinality(GoodBlocks(flash', rq'.start, cur' \div ppb)) = 0
    BY <2>2, <2>3, FS_EmptySet, Zenon
  <2> QED
    BY <2>1, <2>4
<1>2. CASE EraseSkipBad \/ EraseBlock \/ EraseFail
  <2> DEFINE b == cur \div ppb
             from == rq.start
             n == Cardinality(GoodBlocks(flash, from, b))
  <2>1. /\ Running("erase") /\ cur % ppb = 0 /\ cur \in Nat /\ b \in Nat /\ rq' = rq
        /\ cur' \div ppb = b + 1 /\ cur' = cur + ppb /\ cur = b * ppb
    BY <1>2, EraseLoopFacts
  <2>2. b < AllBlocks
    BY <2>1, NextBlock
  <2>3. n \in notes.good..Tried
    <3>1. cur <= AllBlocks * ppb
      BY <1>0, <2>1, AllPages
    <3> QED
      BY <2>1, <3>1 DEF DeviceInv, EraseGood
  <2>4. from <= b
    <3>0. /\ rq.count <= blk_num /\ cur = (from + (blk_num - rq.count) + Tried) * ppb
          /\ rq.count \in Nat /\ blk_num \in Nat /\ from \in Nat
      BY <2>1, Typed DEF DeviceInv, EraseCounted, Running
    <3> DEFINE k == from + (blk_num - rq.count) + Tried
    <3>1. k \in Nat /\ from <= k /\ k * ppb + 0 = cur /\ 0 \in 0..(ppb - 1)
      BY <1>0, <3>0
    <3> HIDE DEF k
    <3>2. b = k
      BY <3>1, BlockOfPage
    <3> QED
      BY <3>1, <3>2
  <2>5. b % AllBlocks = b
    BY <2>1, <2>2, AllPages
  <2> HIDE DEF b, from
  <2>6. GoodBlocks(flash', from, b) = GoodBlocks(flash, from, b) /\
        \/ b \in Bad(flash') /\ UNCHANGED notes
        \/ b \notin Bad(flash') /\ notes'.good = notes.good + 1 /\ notes'.failed = notes.failed
        \/ notes'.good = notes.good /\ notes'.failed = notes.failed + 1
    <3>0. \A x \in from..(b - 1) : x # b
      BY <2>1
    <3>1. CASE EraseSkipBad
      <4>1. UNCHANGED <<flash, notes>> /\ IsBad(flash, b)
        BY <3>1 DEF EraseSkipBad, b
      <4>2. b \in Bad(flash)
        BY <2>1, <2>2, <4>1, AllPages DEF Bad, BlockNumbers
      <4> QED
        BY <4>1, <4>2
    <3>2. CASE EraseBlock
      <4>1. /\ notes'.good = notes.good + 1 /\ notes'.failed = notes.failed
            /\ ~IsBad(flash, b)
        BY <3>2 DEF EraseBlock, Note, b
      <4>2. Bad(flash') = Bad(flash)
        BY <3>2, EraseBlockBad
      <4>3. b \notin Bad(flash')
        BY <4>1, <4>2 DEF Bad
      <4> QED
        BY <4>1, <4>2, <4>3 DEF GoodBlocks
    <3>3. CASE EraseFail
      <4>1. notes'.good = notes.good /\ notes'.failed = notes.failed + 1
        BY <3>3 DEF EraseFail, Note
      <4>2. Bad(flash') \in {Bad(flash) \ {b}, Bad(flash) \cup {b}}
        BY <2>5, <3>3, FailBad DEF b
      <4>3. \A x : x # b => (x \in Bad(flash') <=> x \in Bad(flash))
        BY <4>2
      <4> QED
        BY <3>0, <4>1, <4>3 DEF GoodBlocks
    <3> QED
      BY <1>2, <3>1, <3>2, <3>3
  <2>7. /\ Cardinality(GoodBlocks(flash', from, b + 1)) =
             Cardinality(GoodBlocks(flash', from, b)) + IF b \in Bad(flash') THEN 0 ELSE 1
        /\ n \in Nat
    <3>1. from \in Nat /\ b \in Nat
      BY <1>0, <2>1 DEF from
    <3>2. n \in Nat
      BY <3>1, GoodBlocksGrow
    <3>3. Cardinality(GoodBlocks(flash', from, b + 1)) =
            Cardinality(GoodBlocks(flash', from, b)) + IF b \in Bad(flash') THEN 0 ELSE 1
      BY <2>4, <3>1, GoodBlocksGrow, Zenon
    <3> QED
      BY <3>2, <3>3
  <2>8. Cardinality(GoodBlocks(flash', from, b + 1)) = n + IF b \in Bad(flash') THEN 0 ELSE 1
    BY <2>6, <2>7
  <2> HIDE DEF n
  <2>9. n + (IF b \in Bad(flash') THEN 0 ELSE 1) \in notes'.good..Tried'
    BY <1>0, <2>3, <2>6, <2>7 DEF Tried
  <2> QED
    BY <2>1, <2>8, <2>9 DEF from
<1>3. CASE EraseDone
  BY <1>3 DEF EraseDone, Finish, Running
<1>4. CASE ~EraseStart /\ ~EraseStep
  BY <1>4, EraseElsewhere DEF Running
<1> QED
  BY <1>1, <1>2, <1>3, <1>4 DEF EraseStep

-----------------------------------------------------------------------------
(* Program and read requests.                                              *)

LEMMA BadMember ==
  ASSUME NEW f, NEW b \in Nat
  PROVE  IsBad(f, b) <=> b % AllBlocks \in Bad(f)
<1>1. b % AllBlocks \in BlockNumbers /\ IsHome(b % AllBlocks, Chip(b), b)
  BY HomeOfNumber
<1>2. b % AllBlocks \in Nat
  BY <1>1 DEF BlockNumbers
<1>3. IsBad(f, b) <=> IsBad(f, b % AllBlocks)
  BY <1>1, <1>2, BadAtHome
<1> QED
  BY <1>1, <1>3 DEF Bad

LEMMA TakenType ==
  ASSUME NEW f, NEW from \in Nat, NEW e \in Nat
  PROVE  IsFiniteSet(Taken(f, from, e)) /\ Cardinality(Taken(f, from, e)) \in Nat
<1>1. IsFiniteSet(from..(e - 1))
  BY FS_Interval
<1>2. IsFiniteSet(Taken(f, from, e))
  BY <1>1, FS_Subset DEF Taken
<1> QED
  BY <1>2, FS_CardinalityType

\* A request begins.
LEMMA WalkStart ==
  ASSUME NEW f, NEW from \in Nat, NEW n \in Nat
  PROVE  Walk(f, from, from, 0, n)
<1>1. Taken(f, from, from) = {}
  BY DEF Taken
<1>2. Cardinality(Taken(f, from, from)) = 0
  BY <1>1, FS_EmptySet, Zenon
<1>3. ASSUME from % ppb # 0 PROVE ~Skips(f, from, from)
  <2> DEFINE q == from \div ppb
             r == from % ppb
  <2>1. q \in Nat /\ r \in 0..(ppb - 1) /\ from = q * ppb + r /\ r # 0
    BY <1>3, PageOfBlock
  <2> HIDE DEF q, r
  <2>2. q * ppb < from
    BY <2>1, Numbers
  <2> QED
    BY <2>1, <2>2, Numbers DEF Skips, q
<1> QED
  BY <1>2, <1>3 DEF Walk

\* It goes over a bad block and takes none of its pages.
LEMMA WalkOver ==
  ASSUME NEW f, NEW from, NEW e \in Nat, NEW k \in Nat, NEW n \in Nat,
         Walk(f, from, e, k, n), k < n, e % ppb = 0, IsBad(f, e \div ppb)
  PROVE  Walk(f, from, e + ppb, k, n)
<1>0. from \in Nat /\ from <= e /\ ppb \in Nat \ {0} /\ k = Cardinality(Taken(f, from, e))
  BY Numbers DEF Walk
<1>1. /\ e = (e \div ppb) * ppb /\ (e + ppb) % ppb = 0
      /\ \A q \in e..(e + ppb - 1) : q \div ppb = e \div ppb
  BY NextBlock
<1>2. (e \div ppb) % AllBlocks \in Bad(f)
  BY BadMember, PageOfBlock
<1>3. \A q \in e..(e + ppb - 1) : Skips(f, from, q)
  BY <1>0, <1>1, <1>2 DEF Skips
<1>4. from..((e + ppb) - 1) = (from..(e - 1)) \cup (e..(e + ppb - 1))
  BY <1>0
<1>5. Taken(f, from, e + ppb) = Taken(f, from, e)
  BY <1>3, <1>4 DEF Taken
<1> QED
  BY <1>0, <1>1, <1>5 DEF Walk

\* It takes a page, and may program it.
LEMMA WalkOn ==
  ASSUME NEW f, NEW g, Bad(g) = Bad(f), NEW from, NEW e \in Nat, NEW k \in Nat, NEW n \in Nat,
         Walk(f, from, e, k, n), k < n, ~(e % ppb = 0 /\ IsBad(f, e \div ppb))
  PROVE  Walk(g, from, e + 1, k + 1, n)
<1>0. from \in Nat /\ from <= e /\ ppb \in Nat \ {0} /\ k = Cardinality(Taken(f, from, e))
  BY Numbers DEF Walk
<1>1. ~Skips(f, from, e)
  <2>1. CASE e % ppb # 0
    BY <2>1 DEF Walk
  <2>2. CASE e % ppb = 0
    BY <2>2, BadMember, PageOfBlock DEF Skips
  <2> QED
    BY <2>1, <2>2
<1>2. \A q : Skips(g, from, q) <=> Skips(f, from, q)
  BY DEF Skips
<1>3. from..((e + 1) - 1) = (from..(e - 1)) \cup {e} /\ e \notin from..(e - 1)
  BY <1>0
<1>4. Taken(g, from, e + 1) = Taken(f, from, e) \cup {e} /\ e \notin Taken(f, from, e)
  BY <1>1, <1>2, <1>3 DEF Taken
<1>5. Cardinality(Taken(g, from, e + 1)) = k + 1
  <2>1. IsFiniteSet(Taken(f, from, e))
    BY <1>0, TakenType
  <2> QED
    BY <1>0, <1>4, <2>1, FS_AddElement
<1>6. (e + 1) - 1 \in Taken(g, from, e + 1)
  BY <1>4
<1>7. ASSUME (e + 1) % ppb # 0 PROVE ~Skips(g, from, e + 1)
  <2>1. (e + 1) \div ppb = e \div ppb
    BY <1>0, <1>7, NextPageSameBlock
  <2> QED
    BY <1>1, <1>2, <2>1 DEF Skips
<1> QED
  BY <1>0, <1>5, <1>6, <1>7 DEF Walk

\* The steps of a program request.
LEMMA WalkingProgram ==
  ASSUME IndInv, DeviceInv, ProgramSkipBad \/ ProgramSkipFF \/ ProgramPage \/ ProgramFail
  PROVE  Walking'
<1>1. /\ ProgramLoop /\ Running("program") /\ rq' = rq /\ i < rq.count
  BY DEF ProgramSkipBad, ProgramSkipFF, ProgramPage, ProgramFail, ProgramLoop
<1>2. spage = rq.start + notes.failed * ppb /\ Walk(flash, spage, cur, i, rq.count)
  BY <1>1 DEF DeviceInv, Walking
<1>3. /\ cur \in Nat /\ i \in Nat /\ spage \in Nat /\ rq.start \in Nat /\ rq.count \in Nat
      /\ notes.failed \in Nat /\ ppb \in Nat \ {0}
  BY Typed, Numbers
<1>4. spage' = rq.start + notes'.failed * ppb
  <2>1. CASE ProgramSkipBad \/ ProgramSkipFF \/ ProgramPage
    <3>1. spage' = spage /\ notes'.failed = notes.failed
      BY <2>1 DEF ProgramSkipBad, ProgramSkipFF, ProgramPage, Note
    <3> QED
      BY <1>2, <3>1
  <2>2. CASE ProgramFail
    <3>1. spage' = spage + ppb /\ notes'.failed = notes.failed + 1
      BY <2>2 DEF ProgramFail, Note
    <3>2. (notes.failed + 1) * ppb = notes.failed * ppb + ppb /\ notes.failed * ppb \in Nat
      BY <1>3
    <3> QED
      BY <1>2, <1>3, <3>1, <3>2
  <2> QED
    BY <2>1, <2>2
<1>5. Walk(flash', spage', cur', i', rq.count)
  <2>1. CASE ProgramSkipBad
    <3>1. BadHere /\ cur' = cur + ppb /\ UNCHANGED <<flash, i, spage>>
      BY <2>1 DEF ProgramSkipBad
    <3>2. Walk(flash, spage, cur + ppb, i, rq.count)
      BY <1>1, <1>2, <1>3, <3>1, WalkOver DEF BadHere
    <3> QED
      BY <3>1, <3>2
  <2>2. CASE ProgramSkipFF \/ ProgramPage
    <3>1. ~BadHere /\ cur' = cur + 1 /\ i' = i + 1 /\ spage' = spage
      BY <2>2 DEF ProgramSkipFF, ProgramPage
    <3>2. Bad(flash') = Bad(flash)
      BY <2>2, ProgramPageBad DEF ProgramSkipFF
    <3>3. Walk(flash', spage, cur + 1, i + 1, rq.count)
      BY <1>1, <1>2, <1>3, <3>1, <3>2, WalkOn DEF BadHere
    <3> QED
      BY <3>1, <3>3
  <2>3. CASE ProgramFail
    <3>1. cur' = spage' /\ i' = 0 /\ spage' = spage + ppb
      BY <2>3 DEF ProgramFail
    <3>2. spage' \in Nat
      BY <1>3, <3>1
    <3> QED
      BY <1>3, <3>1, <3>2, WalkStart
  <2> QED
    BY <2>1, <2>2, <2>3
<1> QED
  BY <1>1, <1>4, <1>5 DEF Walking, Running

\* The steps of a read request.
LEMMA WalkingRead ==
  ASSUME IndInv, DeviceInv, ReadSkipBad \/ ReadPage \/ ReadRawPage \/ ReadOobPage
  PROVE  Walking'
<1>1. rq' = rq /\ busy /\ i < rq.count /\ UNCHANGED flash /\ rq.op \in ReadOps
  BY DEF ReadSkipBad, ReadPage, ReadRawPage, ReadOobPage, ReadLoop, Running, ReadOps
<1>2. /\ cur \in Nat /\ i \in Nat /\ rq.start \in Nat /\ rq.count \in Nat
  BY Typed
<1>3. CASE ReadOobPage
  <2>1. rq.op = "read_oob" /\ cur' = cur + 1 /\ i' = i + 1
    BY <1>3 DEF ReadOobPage, ReadLoop, Running, TakePage
  <2>2. cur = rq.start + i
    BY <1>1, <2>1 DEF DeviceInv, Walking, Running
  <2> QED
    BY <1>1, <1>2, <2>1, <2>2 DEF Walking, Running
<1>4. CASE ReadSkipBad \/ ReadPage \/ ReadRawPage
  <2>1. rq.op \in {"read", "read_raw"}
    BY <1>4 DEF ReadSkipBad, ReadPage, ReadRawPage, ReadLoop, Running
  <2>2. Walk(flash, rq.start, cur, i, rq.count)
    BY <1>1, <2>1 DEF DeviceInv, Walking, Running
  <2>3. CASE ReadSkipBad
    <3>1. BadHere /\ cur' = cur + ppb /\ i' = i
      BY <2>3 DEF ReadSkipBad
    <3>2. Walk(flash, rq.start, cur + ppb, i, rq.count)
      BY <1>1, <1>2, <2>2, <3>1, WalkOver DEF BadHere
    <3> QED
      BY <1>1, <2>1, <3>1, <3>2 DEF Walking, Running
  <2>4. CASE ReadPage \/ ReadRawPage
    <3>1. ~BadHere /\ cur' = cur + 1 /\ i' = i + 1
      BY <2>4 DEF ReadPage, ReadRawPage, TakePage
    <3>2. Walk(flash, rq.start, cur + 1, i + 1, rq.count)
      BY <1>1, <1>2, <2>2, <3>1, WalkOn DEF BadHere
    <3> QED
      BY <1>1, <2>1, <3>1, <3>2 DEF Walking, Running
  <2> QED
    BY <1>4, <2>3, <2>4
<1> QED
  BY <1>3, <1>4

LEMMA WalkingNext ==
  ASSUME IndInv, DeviceInv, Next
  PROVE  Walking'
<1>1. CASE ProgramStart
  <2>1. rq'.op = "program" /\ rq'.start \in Nat /\ rq'.count \in Nat
    BY <1>1, StartFacts DEF ProgramStart
  <2>2. cur' = rq'.start /\ spage' = rq'.start /\ i' = 0 /\ notes'.failed = 0
    BY <1>1 DEF ProgramStart, Note
  <2>3. Walk(flash', spage', cur', i', rq'.count)
    BY <2>1, <2>2, WalkStart
  <2>4. spage' = rq'.start + notes'.failed * ppb
    BY <2>1, <2>2, Numbers
  <2> QED
    BY <2>1, <2>3, <2>4 DEF Walking, Running
<1>2. CASE ReadStart
  <2>1. PICK op \in ReadOps : Start(op)
    BY <1>2 DEF ReadStart
  <2>2. rq'.op = op /\ rq'.start \in Nat /\ rq'.count \in Nat
    BY <2>1, StartFacts
  <2>3. cur' = rq'.start /\ i' = 0
    BY <1>2 DEF ReadStart
  <2>4. Walk(flash', rq'.start, cur', i', rq'.count)
    BY <2>2, <2>3, WalkStart
  <2>5. cur' = rq'.start + i' /\ i' <= rq'.count
    BY <2>2, <2>3
  <2> QED
    BY <2>1, <2>2, <2>4, <2>5 DEF Walking, Running, ReadOps
<1>3. CASE EraseStart
  <2>1. rq'.op = "erase"
    BY <1>3, StartFacts DEF EraseStart
  <2> QED
    BY <2>1 DEF Walking, Running
<1>4. CASE nand_init_4740 \/ nand_mark_bad_4740 \/ EraseDone \/ ProgramDone \/ ReadDone
           \/ AllServed
  <2>1. ~busy'
    BY <1>4 DEF nand_init_4740, nand_mark_bad_4740, EraseDone, ProgramDone, ReadDone, AllServed,
                Finish, vars
  <2> QED
    BY <2>1 DEF Walking, Running
<1>5. CASE EraseSkipBad \/ EraseBlock \/ EraseFail
  <2>1. rq'.op = "erase"
    BY <1>5, EraseLoopFacts DEF Running
  <2> QED
    BY <2>1 DEF Walking, Running
<1>6. CASE ProgramStep
  BY <1>4, <1>6, WalkingProgram DEF ProgramStep
<1>7. CASE ReadStep
  BY <1>4, <1>7, WalkingRead DEF ReadStep
<1> QED
  BY <1>1, <1>2, <1>3, <1>4, <1>5, <1>6, <1>7 DEF Next, Driver, Host, EraseStep

-----------------------------------------------------------------------------
(* The invariant holds, and what follows from it.                          *)

LEMMA DeviceInit == Init => DeviceInv
<1> SUFFICES ASSUME Init PROVE DeviceInv
  OBVIOUS
<1>1. busy = FALSE /\ rq.op = "none"
  BY NoneType DEF Init
<1> QED
  BY <1>1 DEF DeviceInv, EraseAligned, EraseCounted, EraseClean, EraseGood, Walking, Running

LEMMA DeviceNext == IndInv /\ DeviceInv /\ [Next]_vars => DeviceInv'
<1> SUFFICES ASSUME IndInv, DeviceInv, [Next]_vars PROVE DeviceInv'
  OBVIOUS
<1>1. CASE Next
  BY <1>1, EraseAlignedNext, EraseCountedNext, EraseCleanNext, EraseGoodNext, WalkingNext
     DEF DeviceInv
<1>2. CASE UNCHANGED vars
  <2>1. EraseAligned' /\ EraseCounted' /\ EraseClean'
    BY <1>2 DEF DeviceInv, EraseAligned, EraseCounted, EraseClean, Clean, Running, Tried, vars
  <2>2. EraseGood' /\ Walking'
    BY <1>2 DEF DeviceInv, EraseGood, Walking, Running, Tried, vars, progVars
  <2> QED
    BY <2>1, <2>2 DEF DeviceInv
<1> QED
  BY <1>1, <1>2

\* What the running operation has done so far is as DeviceInv says, in every
\* reachable state.
THEOREM DeviceInvariance == Spec => [](IndInv /\ DeviceInv)
<1> QED
  BY InitInv, NextInv, DeviceInit, DeviceNext, PTL DEF Spec

\* nand_erase_4740 with one plane tries as many blocks as asked for and leaves
\* every page it went past erased or in a bad block, for every geometry and
\* number of chips, whatever blocks were bad or failed.
THEOREM EraseIsComplete == Spec => []EraseCoversRequest
<1>1. IndInv /\ DeviceInv => EraseCoversRequest
  <2> SUFFICES ASSUME IndInv, DeviceInv, ~busy, rq.op = "erase", nand_plane = 1,
                      ret <= TotalPages, ~notes.lost
               PROVE  /\ notes.good + notes.failed = rq.count
                      /\ (wp_pin => notes.failed = 0) =>
                         \A p \in (rq.start * ppb)..(ret - 1) : Clean(flash, p)
    BY DEF EraseCoversRequest, Clean
  <2>1. Tried = rq.count /\ ret = cur
    BY DEF DeviceInv, EraseCounted
  <2> QED
    BY <2>1 DEF DeviceInv, EraseClean, Tried
<1> QED
  BY <1>1, DeviceInvariance, PTL

-----------------------------------------------------------------------------
(* Refinement of NandDevice.                                               *)

DeviceBad == {b \in 0..(Blocks * Cardinality(Chips) - 1) : IsBad(flash, b)}

LEMMA DeviceBadIsBad == DeviceBad = Bad(flash) /\ DeviceBad' = Bad(flash')
  BY DEF DeviceBad, Bad, BlockNumbers, AllBlocks

LEMMA RefinesInit == Init => Device!Init
<1> SUFFICES ASSUME Init PROVE Device!Init
  OBVIOUS
<1>1. busy = FALSE /\ notes.failed = 0
  BY DEF Init, NoNotes, Note
<1> QED
  BY <1>1 DEF Device!Init, Device!BlockNumbers

\* NandDevice counts as this module does.
LEMMA SameCardinality == ASSUME NEW S PROVE Device!Cardinality(S) = Cardinality(S)
  BY Zenon DEF Device!Cardinality, Cardinality

\* A request for n pages that has taken all of them ends where EndsAt says.
LEMMA WalkEnds ==
  ASSUME NEW from, NEW e \in Nat, NEW k \in Nat, NEW n \in Nat, Walk(flash, from, e, k, n), k >= n
  PROVE  Device!EndsAt(from, n, e)
<1> DEFINE taken == {p \in from..(e - 1) :
                       (p \div ppb) * ppb >= from =>
                         (p \div ppb) % (Blocks * Cardinality(Chips)) \notin DeviceBad}
<1>1. taken = Taken(flash, from, e)
  BY DeviceBadIsBad DEF Taken, Skips, AllBlocks
<1>2. k = n /\ k = Cardinality(taken)
  <2> HIDE DEF taken
  <2>1. k <= n /\ k = Cardinality(taken)
    BY <1>1 DEF Walk
  <2> QED
    BY <2>1
<1>3. IF n <= 0 THEN e = from ELSE e - 1 \in taken /\ Cardinality(taken) = n
  BY <1>1, <1>2 DEF Walk
<1> QED
  BY <1>3, SameCardinality DEF Device!EndsAt, DeviceBad

\* The request of the host begins.
LEMMA RefinesStart ==
  ASSUME IndInv, EraseStart \/ ProgramStart \/ ReadStart
  PROVE  Device!Accept
<1>1. /\ ~busy /\ busy' = TRUE /\ UNCHANGED <<flash, ret>> /\ notes'.failed = 0
  BY DEF EraseStart, ProgramStart, ReadStart, Start, NoNotes, Note
<1>2. DeviceBad' = DeviceBad
  BY <1>1, DeviceBadIsBad
<1> QED
  BY <1>1, <1>2 DEF Device!Accept, DeviceBad

\* A block fails.
LEMMA RefinesFail ==
  ASSUME IndInv, EraseFail \/ ProgramFail
  PROVE  Device!Retire
<1>1. /\ busy /\ rq.op \in {"erase", "program"} /\ notes'.failed = notes.failed + 1
      /\ UNCHANGED <<busy, rq, ret>>
  BY DEF EraseFail, ProgramFail, EraseLoop, ProgramLoop, Running, Note
<1> DEFINE x == (cur \div ppb) % AllBlocks
<1>2. x \in BlockNumbers
  BY Typed, HomeOfNumber
<1>3. Bad(flash') \in {Bad(flash) \ {x}, Bad(flash) \cup {x}}
  BY FailBad
<1> HIDE DEF x
<1>4. \E b \in BlockNumbers : DeviceBad' \in {DeviceBad \ {b}, DeviceBad \cup {b}}
  BY <1>2, <1>3, DeviceBadIsBad
<1> QED
  BY <1>1, <1>4 DEF Device!Retire, Device!BlockNumbers, BlockNumbers, AllBlocks, DeviceBad

\* A block is erased: with force a bad one is good again.
LEMMA RefinesErase ==
  ASSUME IndInv, EraseBlock
  PROVE  Device!Recover \/ UNCHANGED Device!deviceVars
<1>1. /\ busy /\ rq.op = "erase" /\ notes'.failed = notes.failed /\ UNCHANGED <<busy, rq, ret>>
  BY DEF EraseBlock, EraseLoop, Running, Note
<1> DEFINE x == (cur \div ppb) % AllBlocks
<1>2. /\ Bad(flash') \in {Bad(flash), Bad(flash) \ {x}}
      /\ ~nand_force_erase => Bad(flash') = Bad(flash)
  BY EraseBlockBad
<1> HIDE DEF x
<1>3. CASE Bad(flash') = Bad(flash)
  <2>1. DeviceBad' = DeviceBad
    BY <1>3, DeviceBadIsBad
  <2> QED
    BY <1>1, <2>1 DEF Device!deviceVars, DeviceBad
<1>4. CASE Bad(flash') # Bad(flash)
  <2>1. nand_force_erase /\ x \in Bad(flash) /\ Bad(flash') = Bad(flash) \ {x}
    BY <1>2, <1>4
  <2>2. \E b \in DeviceBad : DeviceBad' = DeviceBad \ {b}
    BY <2>1, DeviceBadIsBad
  <2> QED
    BY <1>1, <2>1, <2>2 DEF Device!Recover, DeviceBad
<1> QED
  BY <1>3, <1>4

\* The host has a block marked.
LEMMA RefinesMark ==
  ASSUME IndInv, nand_mark_bad_4740
  PROVE  Device!Mark
<1>1. ~busy /\ notes'.failed = 0 /\ UNCHANGED busy /\ rq'.op = "mark_bad"
  BY MarkBad4740Bad DEF nand_mark_bad_4740, NoNotes, Note
<1>2. PICK x \in BlockNumbers : /\ x % Blocks = rq'.start % Blocks
                                /\ Bad(flash') \in {Bad(flash), Bad(flash) \cup {x}}
  BY MarkBad4740Bad
<1>3. \E b \in BlockNumbers : /\ b % Blocks = rq'.start % Blocks
                              /\ DeviceBad' \in {DeviceBad, DeviceBad \cup {b}}
  BY <1>2, DeviceBadIsBad
<1> QED
  BY <1>1, <1>3 DEF Device!Mark, Device!BlockNumbers, BlockNumbers, AllBlocks, DeviceBad

\* An erase request ends.
LEMMA RefinesEraseDone ==
  ASSUME IndInv, DeviceInv, nand_plane = 1, EraseDone
  PROVE  Device!EraseEnds(ret')
<1>0. /\ Running("erase") /\ cur >= (rq.start + blk_num) * ppb /\ ret' = cur
      /\ cur \in Nat /\ rq.start \in Nat /\ rq.count \in Nat /\ blk_num \in Nat
      /\ notes.good \in Nat /\ notes.failed \in Nat /\ ppb \in Nat \ {0} /\ cur % ppb = 0
  BY Typed, Numbers DEF EraseDone, Finish, DeviceInv, EraseAligned
<1>1. /\ Tried' = rq'.count /\ rq' = rq /\ notes' = notes /\ blk_num' = blk_num /\ cur' = cur
      /\ cur = (rq.start + (blk_num - rq.count) + Tried) * ppb
      /\ nand_force_erase => blk_num = rq.count
  <2>1. EraseCounted'
    BY EraseCountedNext DEF Next, Driver, EraseStep
  <2>2. rq' = rq /\ notes' = notes /\ blk_num' = blk_num /\ cur' = cur /\ busy' = FALSE
    BY DEF EraseDone, Finish
  <2> QED
    BY <1>0, <2>1, <2>2 DEF DeviceInv, EraseCounted, Running
<1>2. Tried = rq.count
  BY <1>1 DEF Tried
<1>3. CASE nand_force_erase
  <2>1. rq.start + (blk_num - rq.count) + Tried = rq.start + rq.count + 0
    BY <1>0, <1>1, <1>2, <1>3
  <2>2. ret' = (rq.start + rq.count + 0) * ppb
    BY <1>0, <1>1, <2>1
  <2> QED
    BY <1>3, <2>2 DEF Device!EraseEnds
<1>4. CASE ~nand_force_erase
  <2> DEFINE good == {b \in rq.start..(cur \div ppb - 1) : b \notin DeviceBad}
  <2>1. good = GoodBlocks(flash, rq.start, cur \div ppb)
    BY DeviceBadIsBad DEF GoodBlocks
  <2>2. ASSUME cur <= AllBlocks * ppb
        PROVE  Cardinality(good) \in (rq.count - notes.failed)..rq.count
    <3>1. Cardinality(good) \in notes.good..Tried
      BY <1>0, <1>4, <2>1, <2>2 DEF DeviceInv, EraseGood
    <3>2. notes.good = rq.count - notes.failed
      BY <1>0, <1>2 DEF Tried
    <3> QED
      BY <1>2, <3>1, <3>2
  <2>3. cur > AllBlocks * ppb \/ cur <= AllBlocks * ppb
    BY <1>0, AllPages
  <2>4. \/ cur > Blocks * Cardinality(Chips) * ppb
        \/ cur % ppb = 0 /\ Cardinality(good) \in (rq.count - notes.failed)..rq.count
    BY <1>0, <2>2, <2>3 DEF AllBlocks
  <2> QED
    BY <1>0, <1>4, <2>4, SameCardinality DEF Device!EraseEnds, DeviceBad
<1> QED
  BY <1>3, <1>4

\* A request ends where NandDevice says.
LEMMA RefinesDone ==
  ASSUME IndInv, DeviceInv, nand_plane = 1, EraseDone \/ ProgramDone \/ ReadDone
  PROVE  Device!Finish
<1>0. /\ cur \in Nat /\ i \in Nat /\ rq.start \in Nat /\ rq.count \in Nat
      /\ notes.failed \in Nat /\ ppb \in Nat
  BY Typed, Numbers
<1>1. /\ busy /\ busy' = FALSE /\ ret' = cur /\ UNCHANGED <<rq, flash, notes>>
  BY DEF EraseDone, ProgramDone, ReadDone, Finish, Running
<1>2. DeviceBad' = DeviceBad
  BY <1>1, DeviceBadIsBad
<1>3. CASE EraseDone
  <2>1. rq.op = "erase" /\ Device!EraseEnds(ret')
    BY <1>3, RefinesEraseDone DEF EraseDone, Running
  <2> QED
    BY <1>1, <1>2, <2>1 DEF Device!Finish, DeviceBad
<1>4. CASE ProgramDone
  <2>1. Running("program") /\ i >= rq.count
    BY <1>4 DEF ProgramDone
  <2>2. spage = rq.start + notes.failed * ppb /\ Walk(flash, spage, cur, i, rq.count)
    BY <2>1 DEF DeviceInv, Walking
  <2>3. Device!EndsAt(spage, rq.count, cur)
    BY <1>0, <2>1, <2>2, WalkEnds
  <2>4. Device!ProgramEnds(ret')
    BY <1>1, <2>2, <2>3 DEF Device!ProgramEnds
  <2> QED
    BY <1>1, <1>2, <2>1, <2>4 DEF Device!Finish, DeviceBad, Running
<1>5. CASE ReadDone
  <2>1. rq.op \in ReadOps /\ i >= rq.count
    BY <1>5 DEF ReadDone
  <2>2. CASE rq.op = "read_oob"
    <3>1. cur = rq.start + i /\ i <= rq.count
      BY <1>1, <2>2 DEF DeviceInv, Walking, Running
    <3>2. ret' = rq.start + rq.count
      BY <1>0, <1>1, <2>1, <3>1
    <3> QED
      BY <1>1, <1>2, <2>2, <3>2 DEF Device!Finish, DeviceBad
  <2>3. CASE rq.op \in {"read", "read_raw"}
    <3>1. Walk(flash, rq.start, cur, i, rq.count)
      BY <1>1, <2>3 DEF DeviceInv, Walking, Running
    <3>2. Device!EndsAt(rq.start, rq.count, ret')
      BY <1>0, <1>1, <2>1, <3>1, WalkEnds
    <3>3. Device!ReadEnds(ret')
      BY <1>0, <3>2 DEF Device!ReadEnds
    <3> QED
      BY <1>1, <1>2, <2>3, <3>2, <3>3 DEF Device!Finish, DeviceBad
  <2> QED
    BY <2>1, <2>2, <2>3 DEF ReadOps
<1> QED
  BY <1>3, <1>4, <1>5

\* The remaining steps are internal to the driver.
LEMMA RefinesOthers ==
  ASSUME IndInv, nand_init_4740 \/ EraseSkipBad \/ ProgramSkipBad \/ ProgramSkipFF
                 \/ ProgramPage \/ ReadSkipBad \/ ReadPage \/ ReadRawPage \/ ReadOobPage
                 \/ AllServed \/ UNCHANGED vars
  PROVE  UNCHANGED Device!deviceVars
<1>1. UNCHANGED <<busy, rq, ret>> /\ notes'.failed = notes.failed
  <2>1. CASE nand_init_4740 \/ EraseSkipBad
    BY <2>1 DEF nand_init_4740, EraseSkipBad, EraseLoop
  <2>2. CASE ProgramSkipBad \/ ProgramSkipFF \/ ProgramPage
    BY <2>2 DEF ProgramSkipBad, ProgramSkipFF, ProgramPage, ProgramLoop, Note
  <2>3. CASE ReadSkipBad \/ ReadPage \/ ReadRawPage \/ ReadOobPage
    BY <2>3 DEF ReadSkipBad, ReadPage, ReadRawPage, ReadOobPage, ReadLoop
  <2>4. CASE AllServed \/ UNCHANGED vars
    BY <2>4 DEF AllServed, vars
  <2> QED
    BY <2>1, <2>2, <2>3, <2>4
<1>2. Bad(flash') = Bad(flash)
  <2>1. CASE ProgramPage
    BY <2>1, ProgramPageBad
  <2>2. CASE nand_init_4740 \/ EraseSkipBad \/ ProgramSkipBad \/ ProgramSkipFF
    BY <2>2 DEF nand_init_4740, EraseSkipBad, ProgramSkipBad, ProgramSkipFF
  <2>3. CASE ReadSkipBad \/ ReadPage \/ ReadRawPage \/ ReadOobPage
    BY <2>3 DEF ReadSkipBad, ReadPage, ReadRawPage, ReadOobPage, ReadLoop
  <2>4. CASE AllServed \/ UNCHANGED vars
    BY <2>4 DEF AllServed, vars
  <2> QED
    BY <2>1, <2>2, <2>3, <2>4
<1>3. DeviceBad' = DeviceBad
  BY <1>2, DeviceBadIsBad
<1> QED
  BY <1>1, <1>3 DEF Device!deviceVars, DeviceBad

\* Every step of the driver is a step of NandDevice or leaves it alone.
LEMMA RefinesNext ==
  ASSUME IndInv, DeviceInv, nand_plane = 1, [Next]_vars
  PROVE  [Device!Next]_(Device!deviceVars)
<1>1. CASE Host
  BY <1>1, RefinesStart, RefinesMark, RefinesOthers DEF Host, Device!Next
<1>2. CASE EraseStep
  BY <1>2, RefinesFail, RefinesErase, RefinesDone, RefinesOthers DEF EraseStep, Device!Next
<1>3. CASE ProgramStep
  BY <1>3, RefinesFail, RefinesDone, RefinesOthers DEF ProgramStep, Device!Next
<1>4. CASE ReadStep
  BY <1>4, RefinesDone, RefinesOthers DEF ReadStep, Device!Next
<1>5. CASE AllServed \/ UNCHANGED vars
  BY <1>5, RefinesOthers
<1> QED
  BY <1>1, <1>2, <1>3, <1>4, <1>5 DEF Next, Driver

\* The driver of the Jz4740 with one plane implements NandDevice: blocks are
\* retired and recovered one at a time and for cause, and every request ends at
\* the page its length and the bad blocks determine, for every geometry, number
\* of chips, set of requests, and any number of failures and lost markers.
THEOREM Refinement == nand_plane = 1 => (Spec => ImplementsDevice)
<1> SUFFICES ASSUME nand_plane = 1 PROVE Spec => ImplementsDevice
  OBVIOUS
<1>1. IndInv /\ DeviceInv /\ [Next]_vars => [Device!Next]_(Device!deviceVars)
  BY RefinesNext
<1> QED
  BY <1>1, RefinesInit, DeviceInvariance, PTL DEF Spec, ImplementsDevice, Device!Spec
=============================================================================
