------------------------------ MODULE Nand4740 ------------------------------
(***************************************************************************)
(* The JZ4740 NAND driver of the stage 2 firmware (nandflash_4740.c) on    *)
(* one flash chip, or on four of them when blocks per chip is configured.  *)
(*                                                                         *)
(* Every loop iteration of an operation is one step; a page or block       *)
(* command may report failure, and a read may need correction.  Offsets    *)
(* and sizes are the code's bytes; the contents of a page are abstracted   *)
(* to the program request and the buffer offset they were taken from.      *)
(***************************************************************************)
EXTENDS Integers, Sequences, FiniteSets

CONSTANTS
  pagesize, ppb, bad_block_page, EccPos,  \* nand_init_4740's parameters
  nand_force_erase, nand_plane, nand_bpc, \* fields of Hand
  wp_pin,        \* a write protect pin is configured
  Blocks,        \* blocks of one chip
  Requests,      \* requests the host makes
  MaxOps,        \* bound: requests
  MaxFails,      \* bound: failing erase and program commands
  MaxMarksLost,  \* bound: marker writes that do not take
  MaxCorrected,  \* bound: reads that need correction
  MaxBad         \* bound: blocks bad from the factory

ASSUME GeometryAssumption ==
  /\ pagesize \in {2048, 4096} /\ ppb \in Nat /\ ppb > 3 /\ Blocks \in Nat \ {0}
  /\ bad_block_page \in Nat /\ EccPos \in Nat
ASSUME HandAssumption ==
  /\ nand_force_erase \in BOOLEAN /\ wp_pin \in BOOLEAN /\ nand_plane \in Nat
  /\ nand_bpc \in {0, Blocks}
ASSUME BoundAssumption ==
  /\ MaxOps \in Nat /\ MaxFails \in Nat /\ MaxMarksLost \in Nat /\ MaxCorrected \in Nat
  /\ MaxBad \in Nat

Options == {"NO_OOB", "OOB_ECC", "OOB_NO_ECC"}
OpNames == {"erase", "program", "read", "read_raw", "read_oob", "mark_bad"}

\* start is a block for erase and mark_bad, a page otherwise; ff is the set
\* of pages of the image that are all 0xff.
RequestSet == [op : OpNames, start : Nat, count : Nat, option : Options, ff : SUBSET Nat]
ASSUME RequestAssumption == Requests \subseteq RequestSet

Chips == IF nand_bpc = 0 THEN {0} ELSE 0..3
Rows  == 0..(Blocks * ppb - 1)
Cells == Chips \X Rows

VARIABLES
  flash,            \* [Cells -> page contents]
  sel,              \* the chip addrport, dataport and cmdport lead to
  wp,               \* write protect pin high: commands take effect
  oobsize, ecc_pos, \* the driver's settings
  hs3,              \* handshake_PKT[3]
  busy, rq,         \* an operation is running; it, or the last one
  cur, i, spage, tmpbuf, datasize, sav, blk_num,  \* its locals
  buf, ret,         \* what it read and what it returned
  ops, fails, marksLost, corrected,
  \* bookkeeping for the properties
  image,            \* the last program request, while the flash is as it left it
  notes,            \* what happened during the running operation
  splFail           \* a page below SPL_PAGES failed since nand_init_4740

cfgVars   == <<oobsize, ecc_pos>>
progVars  == <<spage, tmpbuf, datasize, sav>>
countVars == <<ops, fails, marksLost, corrected>>
vars == <<flash, sel, wp, cfgVars, hs3, busy, rq, cur, i, progVars, blk_num, buf, ret,
          countVars, image, notes, splFail>>

-----------------------------------------------------------------------------
(* The chips (external hardware).                                          *)

Page(kind, id, off, ecc) == [kind |-> kind, id |-> id, off |-> off, ecc |-> ecc]
Erased  == Page("erased", 0, 0, 0)
Zero    == Page("zero", 0, 0, 0)
Garbage == Page("garbage", 0, 0, 0)

\* Programming clears bits: only an erased page takes the data.
Programmed(old, new) ==
  CASE old = Erased -> new
    [] old = Zero -> Zero
    [] OTHER -> Garbage

\* A chip ignores the address bits beyond its size.
Cell(chip, page) == <<chip, page % (Blocks * ppb)>>

InBlock(c, chip, block) == c[1] = chip /\ c[2] \div ppb = block % Blocks
SetBlock(f, chip, block, page) == [c \in Cells |-> IF InBlock(c, chip, block) THEN page ELSE f[c]]

Protected == wp_pin /\ ~wp

-----------------------------------------------------------------------------
(* Helpers of the driver.                                                  *)

\* select_chip
Chip(block) == IF nand_bpc = 0 THEN 0 ELSE (block \div nand_bpc) % 4

MarkerPages(block) ==
  IF bad_block_page >= ppb
  THEN {block * ppb, block * ppb + 1, block * ppb + ppb - 2, block * ppb + ppb - 1}
  ELSE {block * ppb + bad_block_page}

\* nand_check_block: read_oob selects the chip itself.
IsBad(f, block) == \E p \in MarkerPages(block) : f[Cell(Chip(block), p)] = Zero

\* nand_mark_bad_4740 on the chip selected by whoever called it: zeros
\* programmed over whatever is there.  nand_mark_bad_page raises and lowers
\* the pin itself.
MarkBad(f, chip, block) ==
  [c \in Cells |-> IF c \in {Cell(chip, p) : p \in MarkerPages(block)} THEN Zero ELSE f[c]]

\* The marker pages may refuse the data; nobody reads their status.
Marking(f, chip, block) ==
  \/ flash' = MarkBad(f, chip, block) /\ UNCHANGED marksLost
  \/ marksLost < MaxMarksLost /\ flash' = f /\ marksLost' = marksLost + 1

PinLow  == IF wp_pin THEN FALSE ELSE wp
PinHigh == IF wp_pin THEN TRUE ELSE wp

-----------------------------------------------------------------------------
(* Requests.                                                               *)

SPL_PAGES == 8          \* pages in the boot ROM's own layout
ImageEcc  == -1         \* parity bytes taken from the image

NoRequest == [op |-> "none", start |-> 0, count |-> 0, option |-> "NO_OOB", ff |-> {}]
Note(good, failed, hitBad, fresh, lost) ==
  [good |-> good, failed |-> failed, hitBad |-> hitBad, fresh |-> fresh, lost |-> lost]
NoNotes   == Note(0, 0, FALSE, FALSE, FALSE)
NoImage   == [rq |-> NoRequest, id |-> 0, datasize |-> 0, end |-> 0, ecc |-> 0, notes |-> NoNotes]

TotalPages == Blocks * ppb * Cardinality(Chips)

\* Every page the request may come to that is not in a bad block is erased.
FreshFrom(page) ==
  \A p \in page..(TotalPages - 1) :
    IsBad(flash, p \div ppb) \/ flash[Cell(Chip(p \div ppb), p)] = Erased

Running(op) == busy /\ rq.op = op

Init ==
  /\ \E bad \in SUBSET (0..(Blocks * Cardinality(Chips) - 1)) :
       /\ Cardinality(bad) <= MaxBad
       /\ flash = [c \in Cells |->
                     IF \E b \in bad : c \in {Cell(Chip(b), p) : p \in MarkerPages(b)}
                     THEN Zero ELSE Erased]
  /\ sel = 0 /\ wp = FALSE /\ oobsize = pagesize \div 32 /\ ecc_pos = EccPos /\ hs3 = 0
  /\ busy = FALSE /\ rq = NoRequest /\ cur = 0 /\ i = 0 /\ spage = 0 /\ tmpbuf = 0
  /\ datasize = 0 /\ sav = [oob |-> 0, ecc |-> 0] /\ blk_num = 0 /\ buf = <<>> /\ ret = 0
  /\ ops = 0 /\ fails = 0 /\ marksLost = 0 /\ corrected = 0
  /\ image = NoImage /\ notes = NoNotes /\ splFail = FALSE

\* Board_Init: the settings come from Hand again.
nand_init_4740 ==
  /\ ~busy /\ ops < MaxOps
  /\ oobsize' = pagesize \div 32 /\ ecc_pos' = EccPos
  /\ sel' = Chip(0)
  /\ ops' = ops + 1 /\ splFail' = FALSE
  /\ UNCHANGED <<flash, wp, hs3, busy, rq, cur, i, progVars, blk_num, buf, ret, fails,
                 marksLost, corrected, image, notes>>

\* NAND_OPS_Handle calls the operation.
Start(op) ==
  /\ ~busy /\ ops < MaxOps
  /\ \E r \in Requests : r.op = op /\ rq' = r
  /\ ops' = ops + 1
  /\ UNCHANGED <<flash, sel, ecc_pos, oobsize, ret, fails, marksLost, corrected, splFail>>

Finish(r) == busy' = FALSE /\ ret' = r /\ UNCHANGED <<rq, ops, buf>>

-----------------------------------------------------------------------------
(* nand_mark_bad_4740, requested by the host: no chip is selected first.    *)

nand_mark_bad_4740 ==
  /\ ~busy /\ ops < MaxOps
  /\ \E r \in Requests :
       /\ r.op = "mark_bad" /\ rq' = r
       /\ Marking(flash, sel, r.start)
       /\ ret' = r.start * ppb + IF bad_block_page >= ppb THEN ppb - 1 ELSE bad_block_page
  /\ wp' = PinLow
  /\ ops' = ops + 1 /\ image' = NoImage /\ notes' = NoNotes
  /\ UNCHANGED <<sel, cfgVars, hs3, busy, cur, i, progVars, blk_num, buf, fails, corrected,
                 splFail>>

-----------------------------------------------------------------------------
(* nand_erase_4740.                                                        *)

EraseStart ==
  /\ Start("erase")
  /\ busy' = TRUE /\ wp' = PinHigh
  /\ cur' = rq'.start * ppb /\ blk_num' = rq'.count
  /\ image' = NoImage /\ notes' = NoNotes
  /\ UNCHANGED <<hs3, i, progVars, buf>>

EraseLoop ==
  /\ Running("erase") /\ cur < (rq.start + blk_num) * ppb
  /\ sel' = Chip(cur \div ppb)
  /\ cur' = cur + ppb
  /\ UNCHANGED <<cfgVars, hs3, busy, rq, i, progVars, buf, ret, ops, corrected, image, splFail>>

\* Mutant: a bad block uses up one of the blocks to erase.
EraseSkipBadUncounted ==
  /\ EraseLoop /\ ~nand_force_erase /\ IsBad(flash, cur \div ppb)
  /\ UNCHANGED <<flash, wp, fails, marksLost, blk_num, notes>>

\* A bad block is skipped and made up for with nand_plane more blocks.
EraseSkipBad ==
  /\ EraseLoop /\ ~nand_force_erase /\ IsBad(flash, cur \div ppb)
  /\ blk_num' = blk_num + nand_plane
  /\ UNCHANGED <<flash, wp, fails, marksLost, notes>>

\* Mutant: the marker is not looked at.
EraseBlockUnchecked ==
  /\ EraseLoop
  /\ flash' = IF Protected THEN flash ELSE SetBlock(flash, sel', cur \div ppb, Erased)
  /\ notes' = Note(notes.good + 1, notes.failed, FALSE, FALSE, notes.lost)
  /\ UNCHANGED <<wp, fails, marksLost, blk_num>>

\* Mutant: the chip is not selected before the command.
EraseBlockUnselected ==
  /\ EraseLoop /\ (nand_force_erase \/ ~IsBad(flash, cur \div ppb))
  /\ flash' = IF Protected THEN flash ELSE SetBlock(flash, sel, cur \div ppb, Erased)
  /\ notes' = Note(notes.good + 1, notes.failed, FALSE, FALSE, notes.lost)
  /\ UNCHANGED <<wp, fails, marksLost, blk_num>>

EraseBlock ==
  /\ EraseLoop /\ (nand_force_erase \/ ~IsBad(flash, cur \div ppb))
  /\ flash' = IF Protected THEN flash ELSE SetBlock(flash, sel', cur \div ppb, Erased)
  /\ notes' = Note(notes.good + 1, notes.failed, FALSE, FALSE, notes.lost)
  /\ UNCHANGED <<wp, fails, marksLost, blk_num>>

\* The block is marked, which also lowers the pin, and not made up for.
EraseFail ==
  /\ EraseLoop /\ (nand_force_erase \/ ~IsBad(flash, cur \div ppb))
  /\ fails < MaxFails /\ fails' = fails + 1
  /\ Marking(IF Protected THEN flash ELSE SetBlock(flash, sel', cur \div ppb, Garbage), sel',
             cur \div ppb)
  /\ wp' = PinLow
  /\ notes' = Note(notes.good, notes.failed + 1, FALSE, FALSE, notes.lost \/ marksLost' # marksLost)
  /\ UNCHANGED blk_num

EraseDone ==
  /\ Running("erase") /\ cur >= (rq.start + blk_num) * ppb
  /\ Finish(cur) /\ wp' = PinLow
  /\ UNCHANGED <<flash, sel, cfgVars, hs3, cur, i, progVars, blk_num, fails, marksLost,
                 corrected, image, notes, splFail>>

-----------------------------------------------------------------------------
(* nand_program_4740.                                                      *)

ProgramStart ==
  /\ Start("program")
  /\ busy' = TRUE /\ wp' = PinHigh
  /\ datasize' = pagesize + IF rq'.option = "NO_OOB" THEN 0 ELSE oobsize
  /\ spage' = rq'.start /\ cur' = rq'.start /\ tmpbuf' = 0 /\ i' = 0
  /\ sav' = [oob |-> oobsize, ecc |-> ecc_pos]
  /\ image' = NoImage /\ notes' = Note(0, 0, FALSE, FreshFrom(rq'.start), FALSE)
  /\ UNCHANGED <<hs3, blk_num, buf>>

\* The first pages are written in the layout of the boot ROM's loader: four
\* ECC blocks, parity at 6.
ecccnt == IF cur < SPL_PAGES THEN 4 ELSE pagesize \div 512

\* Mutant: without the skip.
sourceUnskipped == tmpbuf

\* Skip 16KB of the image after the loader if pagesize = 4096.
source == IF pagesize = 4096 /\ cur = SPL_PAGES THEN tmpbuf + 16 * 1024 ELSE tmpbuf

\* All of the next datasize bytes of the image are 0xff.
AllFF == \A k \in (source \div datasize)..((source + datasize - 1) \div datasize) : k \in rq.ff

ProgramLoop ==
  /\ Running("program") /\ i < rq.count
  /\ sel' = Chip(cur \div ppb)
  /\ oobsize' = IF cur < SPL_PAGES THEN 64 ELSE sav.oob
  /\ ecc_pos' = IF cur < SPL_PAGES THEN 6 ELSE sav.ecc
  /\ UNCHANGED <<hs3, busy, rq, datasize, blk_num, buf, ret, ops, corrected, image>>

\* Mutant: only the first block of the request is checked.
BadHereOnce == cur = rq.start /\ cur % ppb = 0 /\ IsBad(flash, cur \div ppb)

\* Only the first page of a block is checked.
BadHere == cur % ppb = 0 /\ IsBad(flash, cur \div ppb)

ProgramSkipBad ==
  /\ ProgramLoop /\ BadHere
  /\ cur' = cur + ppb /\ tmpbuf' = source
  /\ UNCHANGED <<flash, wp, i, spage, sav, fails, marksLost, notes, splFail>>

ProgramSkipFF ==
  /\ ProgramLoop /\ ~BadHere /\ AllFF
  /\ tmpbuf' = source + datasize
  /\ i' = i + 1 /\ cur' = cur + 1
  /\ UNCHANGED <<flash, wp, spage, sav, fails, marksLost, notes, splFail>>

\* What is written and by how much tmpbuf advances.
Written ==
  IF rq.option = "OOB_ECC" THEN Page("data", ops, source, ImageEcc)
  ELSE Page(IF ecccnt * 512 = pagesize THEN "data" ELSE "spl", ops, source, ecc_pos')
Advance ==
  CASE rq.option = "NO_OOB" -> ecccnt * 512
    [] rq.option = "OOB_NO_ECC" -> ecccnt * 512 + oobsize'
    [] rq.option = "OOB_ECC" -> pagesize + oobsize'

ProgramPage ==
  /\ ProgramLoop /\ ~BadHere /\ ~AllFF
  /\ flash' = IF Protected THEN flash
              ELSE [flash EXCEPT ![Cell(sel', cur)] = Programmed(@, Written)]
  /\ notes' = Note(0, notes.failed, notes.hitBad \/ IsBad(flash, cur \div ppb), notes.fresh, notes.lost)
  /\ tmpbuf' = source + Advance
  /\ i' = i + 1 /\ cur' = cur + 1
  /\ UNCHANGED <<wp, spage, sav, fails, marksLost, splFail>>

\* Mutant: go on at the page that failed.
ProgramFailKeepsPlace ==
  /\ ProgramLoop /\ ~BadHere /\ ~AllFF
  /\ fails < MaxFails /\ fails' = fails + 1
  /\ \E page \in {Erased, Garbage} :
       Marking(SetBlock(flash, sel', cur \div ppb, page), sel', cur \div ppb)
  /\ wp' = PinLow
  /\ cur' = (cur \div ppb + 1) * ppb /\ tmpbuf' = source
  /\ notes' = Note(0, notes.failed + 1, notes.hitBad \/ IsBad(flash, cur \div ppb), notes.fresh,
                   notes.lost \/ marksLost' # marksLost)
  /\ splFail' = (splFail \/ cur < SPL_PAGES)
  /\ UNCHANGED <<i, spage, sav>>

\* A page fails: erase its block with force, which may fail as well and mark
\* it, mark it bad, and start the whole request over one block further on.
\* Both calls leave the pin low; the settings in use become the saved ones.
ProgramFail ==
  /\ ProgramLoop /\ ~BadHere /\ ~AllFF
  /\ fails < MaxFails /\ fails' = fails + 1
  /\ \E page \in {Erased, Garbage} :
       Marking(SetBlock(flash, sel', cur \div ppb, page), sel', cur \div ppb)
  /\ wp' = PinLow
  /\ spage' = spage + ppb
  /\ cur' = spage' /\ tmpbuf' = 0 /\ i' = 0
  /\ sav' = [oob |-> oobsize', ecc |-> ecc_pos']
  /\ notes' = Note(0, notes.failed + 1, notes.hitBad \/ IsBad(flash, cur \div ppb), notes.fresh,
                   notes.lost \/ marksLost' # marksLost)
  /\ splFail' = (splFail \/ cur < SPL_PAGES)

\* Mutant: the settings are not restored.
ProgramDoneKeepsSettings ==
  /\ Running("program") /\ i >= rq.count
  /\ Finish(cur) /\ wp' = PinLow
  /\ image' = [rq |-> rq, id |-> ops, datasize |-> datasize, end |-> cur, ecc |-> sav.ecc,
               notes |-> notes]
  /\ UNCHANGED <<flash, sel, cfgVars, hs3, cur, i, progVars, blk_num, fails, marksLost,
                 corrected, notes, splFail>>

ProgramDone ==
  /\ Running("program") /\ i >= rq.count
  /\ Finish(cur) /\ wp' = PinLow
  /\ oobsize' = sav.oob /\ ecc_pos' = sav.ecc
  /\ image' = [rq |-> rq, id |-> ops, datasize |-> datasize, end |-> cur, ecc |-> sav.ecc,
               notes |-> notes]
  /\ UNCHANGED <<flash, sel, hs3, cur, i, progVars, blk_num, fails, marksLost, corrected,
                 notes, splFail>>

-----------------------------------------------------------------------------
(* nand_read_4740, nand_read_raw_4740, nand_read_oob_4740.                 *)

ReadOps == {"read", "read_raw", "read_oob"}

\* Only nand_read_4740 resets the status word.
ReadStart ==
  /\ \E op \in ReadOps : Start(op)
  /\ busy' = TRUE
  /\ hs3' = IF rq'.op = "read" THEN 0 ELSE hs3
  /\ cur' = rq'.start /\ i' = 0 /\ buf' = <<>> /\ notes' = NoNotes
  /\ UNCHANGED <<wp, progVars, blk_num, image>>

ReadLoop(op) ==
  /\ Running(op) /\ i < rq.count
  /\ UNCHANGED <<flash, wp, cfgVars, busy, rq, progVars, blk_num, ret, ops, fails, marksLost,
                 image, notes, splFail>>

\* Mutant: the loop does not get past a bad block.
ReadSkipBadStuck ==
  /\ ReadLoop("read") \/ ReadLoop("read_raw")
  /\ BadHere
  /\ sel' = Chip(cur \div ppb)
  /\ UNCHANGED <<hs3, cur, i, buf, corrected>>

\* nand_read_4740 and nand_read_raw_4740 both go over a bad block.
ReadSkipBad ==
  /\ ReadLoop("read") \/ ReadLoop("read_raw")
  /\ BadHere
  /\ cur' = cur + ppb
  /\ sel' = Chip(cur \div ppb)
  /\ UNCHANGED <<hs3, i, buf, corrected>>

\* The parity where the driver looks for it matches the data, or is blank.
Readable(page) ==
  page.kind \in {"erased", "spl"} \/ (page.kind = "data" /\ page.ecc \in {ecc_pos, ImageEcc})

TakePage(page) == buf' = Append(buf, page) /\ cur' = cur + 1 /\ i' = i + 1

\* Mutant: the status word counts the unreadable pages.
ReadPageCounts ==
  /\ ReadLoop("read") /\ ~BadHere
  /\ sel' = Chip(cur \div ppb)
  /\ LET page == flash[Cell(sel', cur)] IN
     /\ TakePage(page)
     /\ hs3' = IF Readable(page) THEN hs3 ELSE hs3 + 1
  /\ UNCHANGED corrected

\* read_oob selects the chip of the page before the data is read.  A page
\* that needs correction clears the status word, an unreadable one sets it,
\* and may clear it again in a later ECC block.
ReadPage ==
  /\ ReadLoop("read") /\ ~BadHere
  /\ sel' = Chip(cur \div ppb)
  /\ LET page == flash[Cell(sel', cur)] IN
     /\ TakePage(page)
     /\ \/ Readable(page) /\ UNCHANGED <<hs3, corrected>>
        \/ /\ Readable(page) /\ page # Erased /\ corrected < MaxCorrected
           /\ corrected' = corrected + 1 /\ hs3' = 0
        \/ ~Readable(page) /\ hs3' = 1 /\ UNCHANGED corrected
        \/ ~Readable(page) /\ corrected < MaxCorrected /\ corrected' = corrected + 1 /\ hs3' = 0

\* No chip is selected for the page: the count of pages read so far decides,
\* but for the first page of a block, where nand_check_block has selected.
ReadRawPage ==
  /\ ReadLoop("read_raw") /\ ~BadHere
  /\ LET chip == Chip((IF cur % ppb = 0 THEN cur ELSE i) \div ppb) IN
     /\ TakePage(flash[Cell(chip, cur)])
     /\ sel' = IF rq.option = "NO_OOB" THEN chip ELSE Chip(cur \div ppb)
  /\ UNCHANGED <<hs3, corrected>>

ReadOobPage ==
  /\ ReadLoop("read_oob")
  /\ sel' = Chip(cur \div ppb)
  /\ TakePage(flash[Cell(sel', cur)])
  /\ UNCHANGED <<hs3, corrected>>

ReadDone ==
  /\ busy /\ rq.op \in ReadOps /\ i >= rq.count
  /\ Finish(cur)
  /\ UNCHANGED <<flash, sel, wp, cfgVars, hs3, cur, i, progVars, blk_num, fails, marksLost,
                 corrected, image, notes, splFail>>

-----------------------------------------------------------------------------

EraseStep   == EraseSkipBad \/ EraseBlock \/ EraseFail \/ EraseDone
ProgramStep == ProgramSkipBad \/ ProgramSkipFF \/ ProgramPage \/ ProgramFail \/ ProgramDone
ReadStep    == ReadSkipBad \/ ReadPage \/ ReadRawPage \/ ReadOobPage \/ ReadDone

Driver == EraseStep \/ ProgramStep \/ ReadStep
Host   == nand_init_4740 \/ nand_mark_bad_4740 \/ EraseStart \/ ProgramStart \/ ReadStart

\* After the last request the firmware waits for the host.
AllServed == ~busy /\ ops = MaxOps /\ UNCHANGED vars

Next == Driver \/ Host \/ AllServed

Spec == Init /\ [][Next]_vars

\* The firmware does nothing else while an operation runs.
FairSpec == Spec /\ WF_vars(Driver)

-----------------------------------------------------------------------------
(* Properties.                                                             *)

PageSet == [kind : {"erased", "zero", "garbage", "data", "spl"}, id : Nat, off : Nat,
            ecc : Nat \cup {ImageEcc}]
RequestOrNone == RequestSet \cup {NoRequest}
NoteSet == [good : Nat, failed : Nat, hitBad : BOOLEAN, fresh : BOOLEAN, lost : BOOLEAN]

FlashTypeOK == flash \in [Cells -> PageSet]

DriverTypeOK ==
  /\ sel \in Chips /\ wp \in BOOLEAN /\ hs3 \in {0, 1} /\ busy \in BOOLEAN
  /\ oobsize \in Nat /\ ecc_pos \in Nat /\ ret \in Nat /\ buf \in Seq(PageSet)

LoopTypeOK ==
  /\ rq \in RequestOrNone /\ cur \in Nat /\ i \in Nat /\ spage \in Nat /\ tmpbuf \in Nat
  /\ datasize \in Nat /\ sav \in [oob : Nat, ecc : Nat] /\ blk_num \in Nat

CountTypeOK ==
  /\ ops \in 0..MaxOps /\ fails \in 0..MaxFails /\ marksLost \in 0..MaxMarksLost
  /\ corrected \in 0..MaxCorrected

NoteTypeOK ==
  /\ image \in [rq : RequestOrNone, id : Nat, datasize : Nat, end : Nat, ecc : Nat,
                notes : NoteSet]
  /\ notes \in NoteSet /\ splFail \in BOOLEAN

\* Every variable has its type.
TypeOK == FlashTypeOK /\ DriverTypeOK /\ LoopTypeOK /\ CountTypeOK /\ NoteTypeOK

\* Read back what was programmed: after a request of at most one block, which
\* starts at a block beyond the loader and finds the good blocks erased, a read
\* of the same pages returns the image in order, without an error status, and
\* ends at the same page, whatever blocks were bad or failed on the way.  Not
\* promised: a request from page 8 on, where part of the image is skipped, a
\* marker write that did not take, a failure with a write protect pin (the
\* restarted request runs with the pin low), the end of the flash.
Kept(im) ==
  /\ im.id # 0 /\ im.notes.fresh /\ ~im.notes.lost /\ im.end <= TotalPages
  /\ im.rq.start % ppb = 0 /\ im.rq.start > SPL_PAGES /\ im.rq.count <= ppb
  /\ wp_pin => im.notes.failed = 0

ReadBack ==
  (/\ ~busy /\ rq.op = "read" /\ Kept(image) /\ image.ecc = ecc_pos
   /\ rq.start = image.rq.start /\ rq.count = image.rq.count)
  => /\ \A k \in 1..rq.count :
          /\ buf[k].kind = IF k - 1 \in image.rq.ff THEN "erased" ELSE "data"
          /\ buf[k] # Erased => buf[k].id = image.id /\ buf[k].off = (k - 1) * image.datasize
     /\ hs3 = 0 /\ ret = image.end

\* An image programmed from page 0 into a good block 0 has the loader, 2048
\* bytes to the page, in the first eight pages and, from page 8 on, the bytes
\* of the image that belong to the page.  Not promised: images with OOB or
\* with blank pages among the loader's, for which tmpbuf advances differently,
\* and images longer than the flash, which come round to page 0 again.
LoaderLayout ==
  (/\ image.id # 0 /\ image.rq.start = 0 /\ image.rq.option = "NO_OOB" /\ image.notes.fresh
   /\ image.notes.failed = 0 /\ image.rq.ff = {} /\ ~IsBad(flash, 0) /\ image.end <= TotalPages)
  => \A p \in 0..(ppb - 1) : p < image.rq.count =>
       /\ flash[Cell(0, p)].id = image.id
       /\ flash[Cell(0, p)].off = p * IF p < SPL_PAGES THEN 2048 ELSE pagesize

\* nand_program_4740 never writes a page of a block marked bad if the request
\* starts at a block: the check of the first page of each block is enough, also
\* after the restarts.
ProgramAvoidsBadBlocks == (rq.op = "program" /\ notes.hitBad) => rq.start % ppb # 0

\* A block marked bad stays marked: only an erase with force, or a marker write
\* that did not take, makes it good again.
BadStaysBad ==
  [][\A b \in 0..(Blocks * Cardinality(Chips) - 1) :
       IsBad(flash, b) /\ ~IsBad(flash', b)
         => (nand_force_erase /\ rq.op = "erase") \/ marksLost' # marksLost]_vars

\* nand_erase_4740 with one plane erases, or tries to, as many blocks as asked,
\* not counting bad ones, and leaves every page from the first of them to the
\* one it returns erased or in a bad block.
EraseCoversRequest ==
  (~busy /\ rq.op = "erase" /\ nand_plane = 1 /\ ret <= TotalPages /\ ~notes.lost) =>
    /\ notes.good + notes.failed = rq.count
    /\ (wp_pin => notes.failed = 0) =>
       \A p \in (rq.start * ppb)..(ret - 1) :
         IsBad(flash, p \div ppb) \/ flash[Cell(Chip(p \div ppb), p)] = Erased

\* nand_program_4740 puts the driver's settings back, however the loop ended,
\* unless a page in the loader's layout failed: the restart then saves the
\* loader's settings as the driver's.
SettingsRestored == (~busy /\ ~splFail) => (oobsize = pagesize \div 32 /\ ecc_pos = EccPos)

\* Program, read and erase agree, across the borders of chips and under failures, on the
\* chip a block is on: the images read back and what was to be erased is.
ChipsAgree == ReadBack /\ EraseCoversRequest

\* Every operation comes to its end as long as there are good blocks left.
OperationEnds == busy ~> ~busy

\* The driver implements the promise NandDevice states for any NAND driver: the
\* blocks it takes out of use, and the page at which every request ends.
Device == INSTANCE NandDevice WITH
  bad <- {b \in 0..(Blocks * Cardinality(Chips) - 1) : IsBad(flash, b)},
  failed <- notes.failed, Force <- nand_force_erase, Loader <- 0, MadeUpFor <- FALSE,
  NumBlocks <- Blocks * Cardinality(Chips), ChipBlocks <- Blocks

ImplementsDevice == Device!Spec

\* The comment of nand_read_raw_4740, "Don't skip bad block.": the pages read
\* are the ones asked for.
RawDoesNotSkip == (~busy /\ rq.op = "read_raw") => ret = rq.start + rq.count
=============================================================================
