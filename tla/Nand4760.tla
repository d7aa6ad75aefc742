------------------------------ MODULE Nand4760 ------------------------------
(***************************************************************************)
(* The JZ4760 NAND driver of the stage 2 firmware (nandflash_4760.c) on    *)
(* its one flash chip.  Other than on the JZ4740 the loader's pages are    *)
(* written in pairs, data and parity, by a path of their own; the rest of  *)
(* an image that starts at page 0 goes to block 2; and the erase that a    *)
(* failing page calls for is a whole nand_erase_4760, whose steps are      *)
(* steps here.  Contents are abstracted as in Nand4740; parity is what the *)
(* BCH unit was set to when it was computed.                               *)
(***************************************************************************)
EXTENDS Integers, Sequences, FiniteSets, FiniteSetsExt

CONSTANTS
  pagesize, ppb, bad_block_page,  \* nand_init_4760's parameters
  BchBits,             \* the values of bch_bit the host configures
  forceerase,          \* Hand.nand_force_erase
  nand_plane, wp_pin,  \* Hand.nand_plane; a write protect pin is configured
  Blocks,              \* blocks of the chip
  Requests,            \* requests the host makes
  MaxOps,              \* bound: requests
  MaxFails,            \* bound: failing erase and program commands
  MaxMarksLost,        \* bound: marker writes that do not take
  MaxCorrected,        \* bound: reads that need correction
  MaxBad               \* bound: blocks bad from the factory

spl_size == (8 * 1024) \div pagesize

ASSUME GeometryAssumption ==
  /\ pagesize \in {2048, 4096} /\ ppb \in Nat /\ ppb >= 2 * spl_size /\ ppb > 3
  /\ bad_block_page \in Nat /\ Blocks \in Nat \ {0}
ASSUME HandAssumption ==
  /\ forceerase \in BOOLEAN /\ wp_pin \in BOOLEAN /\ nand_plane \in Nat
  /\ BchBits \subseteq Nat
ASSUME BoundAssumption ==
  /\ MaxOps \in Nat /\ MaxFails \in Nat /\ MaxMarksLost \in Nat /\ MaxCorrected \in Nat
  /\ MaxBad \in Nat

Options == {"NO_OOB", "OOB_ECC", "OOB_NO_ECC"}
OpNames == {"erase", "program", "read", "read_raw", "read_oob", "mark_bad"}

\* As in Nand4740: start is a block for erase and mark_bad, a page otherwise;
\* ff is the set of pages of the image that are all 0xff.
RequestSet == [op : OpNames, start : Nat, count : Nat, option : Options, ff : SUBSET Nat]
ASSUME RequestAssumption == Requests \subseteq RequestSet

Rows == 0..(Blocks * ppb - 1)

VARIABLES
  flash,             \* [Rows -> page contents]
  wp,                \* write protect pin high: commands take effect
  bchbit, par_size,  \* the driver's settings
  hs3,               \* handshake_PKT[3]
  busy, rq,          \* a request is served; it, or the last one
  cur, i, spage, tmpbuf,     \* locals of the page loops
  erasing, ecur, left,       \* nand_erase_4760 runs; its block, blk_num - i
  buf, ret,          \* what the request read and what it returned
  ops, fails, marksLost, corrected,
  \* bookkeeping for the properties
  image,             \* the last program request, while the flash is as it left it
  notes              \* what happened during the request

cfgVars   == <<bchbit, par_size>>
loopVars  == <<cur, i, spage, tmpbuf>>
eraseVars == <<erasing, ecur, left>>
countVars == <<ops, fails, marksLost, corrected>>
vars == <<flash, wp, cfgVars, hs3, busy, rq, loopVars, eraseVars, buf, ret, countVars, image,
          notes>>

-----------------------------------------------------------------------------
(* The chip and the BCH unit (external hardware).                          *)

NoParity == <<0, 0, FALSE>>
Page(kind, id, off, par) == [kind |-> kind, id |-> id, off |-> off, par |-> par]
Blank(kind) == Page(kind, 0, 0, NoParity)
Erased  == Blank("erased")
Zero    == Blank("zero")
Garbage == Blank("garbage")

\* Programming clears bits: only an erased page takes the data.
Programmed(old, new) ==
  CASE old = Erased -> new
    [] old = Zero -> Zero
    [] OTHER -> Garbage

\* The chip ignores the address bits beyond its size.
Row(page) == page % (Blocks * ppb)
SetBlock(f, block, page) ==
  [r \in Rows |-> IF r \div ppb = block % Blocks THEN page ELSE f[r]]

Protected == wp_pin /\ ~wp
PinLow  == IF wp_pin THEN FALSE ELSE wp
PinHigh == IF wp_pin THEN TRUE ELSE wp

\* Nibbles of parity the BCH unit computes for one ECC block.
ParityOf(bits) == (13 * bits) \div 4

-----------------------------------------------------------------------------
(* Helpers of the driver.                                                  *)

MarkerPages(block) ==
  IF bad_block_page >= ppb
  THEN {block * ppb, block * ppb + 1, block * ppb + ppb - 2, block * ppb + ppb - 1}
  ELSE {block * ppb + bad_block_page}

\* nand_check_block
IsBad(f, block) == \E p \in MarkerPages(block) : f[Row(p)] = Zero

\* nand_mark_bad_4760 puts zeros over whatever is there; nobody reads the
\* status.  nand_mark_bad_page raises and lowers the pin itself.
Marking(f, block) ==
  \/ /\ flash' = [r \in Rows |-> IF r \in {Row(p) : p \in MarkerPages(block)} THEN Zero ELSE f[r]]
     /\ UNCHANGED marksLost
  \/ marksLost < MaxMarksLost /\ flash' = f /\ marksLost' = marksLost + 1

\* Only the first page of a block is checked.
BadHere == cur % ppb = 0 /\ IsBad(flash, cur \div ppb)

NoRequest == [op |-> "none", start |-> 0, count |-> 0, option |-> "NO_OOB", ff |-> {}]

\* failed: blocks that failed, marker lost: `lost'; spill: the erase of a
\* failing block failed as well; fresh: the good blocks were erased before;
\* alarm: hs3 at the start.
NoNotes == [failed |-> 0, lost |-> FALSE, spill |-> FALSE, fresh |-> FALSE, alarm |-> 0]
NoImage == [rq |-> NoRequest, id |-> 0, end |-> 0, par |-> NoParity, notes |-> NoNotes]

datasize == pagesize + IF rq.option = "NO_OOB" THEN 0 ELSE pagesize \div 32
Parity == <<bchbit, par_size, rq.option # "NO_OOB">>

\* The pages the loader leaves alone and that are not in a bad block are erased.
FreshFrom(page) ==
  \A r \in Rows : r >= page => IsBad(flash, r \div ppb) \/ flash[r] = Erased

Running(op) == busy /\ rq.op = op /\ ~erasing

-----------------------------------------------------------------------------
(* Requests of the host.                                                   *)

\* "par_size ==78" in the last branch compares: 24 bits leave the old size.
ParSize(old, bits) == IF bits \in {4, 8, 12, 16, 20} THEN ParityOf(bits) ELSE old

Init ==
  /\ \E bad \in SUBSET (0..(Blocks - 1)) :
       /\ Cardinality(bad) <= MaxBad
       /\ flash = [r \in Rows |-> IF \E b \in bad : r \in MarkerPages(b) THEN Zero ELSE Erased]
  /\ wp = FALSE /\ hs3 = 0
  /\ bchbit \in BchBits /\ par_size = ParSize(26, bchbit)
  /\ busy = FALSE /\ rq = NoRequest /\ cur = 0 /\ i = 0 /\ spage = 0 /\ tmpbuf = 0
  /\ erasing = FALSE /\ ecur = 0 /\ left = 0 /\ buf = <<>> /\ ret = 0
  /\ ops = 0 /\ fails = 0 /\ marksLost = 0 /\ corrected = 0
  /\ image = NoImage /\ notes = NoNotes

\* The host configures stage 2, which answers with a status of its own.
nand_init_4760 ==
  /\ ~busy /\ ops < MaxOps /\ ops' = ops + 1
  /\ \E bits \in BchBits : bchbit' = bits /\ par_size' = ParSize(par_size, bits)
  /\ hs3' = 0
  /\ UNCHANGED <<flash, wp, busy, rq, loopVars, eraseVars, buf, ret, fails, marksLost,
                 corrected, image, notes>>

\* NAND_QUERY clears the status word after the query.
nand_query_4760 ==
  /\ ~busy /\ ops < MaxOps /\ ops' = ops + 1
  /\ hs3 # 0 /\ hs3' = 0
  /\ UNCHANGED <<flash, wp, cfgVars, busy, rq, loopVars, eraseVars, buf, ret, fails,
                 marksLost, corrected, image, notes>>

\* NAND_OPS_Handle calls the operation.
Start(op) ==
  /\ ~busy /\ ops < MaxOps /\ ops' = ops + 1
  /\ \E r \in Requests : r.op = op /\ rq' = r
  /\ busy' = TRUE
  /\ UNCHANGED <<flash, cfgVars, hs3, ret, fails, marksLost, corrected>>

Finish(r) == busy' = FALSE /\ ret' = r /\ UNCHANGED <<rq, ops>>

nand_mark_bad_4760 ==
  /\ ~busy /\ ops < MaxOps /\ ops' = ops + 1
  /\ \E r \in Requests :
       /\ r.op = "mark_bad" /\ rq' = r
       /\ Marking(flash, r.start)
       /\ ret' = r.start * ppb + IF bad_block_page >= ppb THEN ppb - 1 ELSE bad_block_page
  /\ wp' = PinLow
  /\ image' = NoImage /\ notes' = NoNotes
  /\ UNCHANGED <<cfgVars, hs3, busy, loopVars, eraseVars, buf, fails, corrected>>

-----------------------------------------------------------------------------
(* nand_erase_4760, called by the host or by nand_program_4760.            *)

force == rq.op = "program" \/ forceerase

EraseStart ==
  /\ Start("erase")
  /\ wp' = PinHigh
  /\ erasing' = TRUE /\ ecur' = rq'.start * ppb /\ left' = rq'.count
  /\ image' = NoImage /\ notes' = NoNotes
  /\ UNCHANGED <<loopVars, buf>>

EraseLoop ==
  /\ erasing /\ left > 0
  /\ ecur' = ecur + ppb
  /\ UNCHANGED <<cfgVars, hs3, busy, rq, loopVars, erasing, buf, ret, ops, corrected, image>>

\* A bad block is skipped and made up for with nand_plane more blocks.
EraseSkipBad ==
  /\ EraseLoop /\ ~force /\ IsBad(flash, ecur \div ppb)
  /\ left' = left - 1 + nand_plane
  /\ UNCHANGED <<flash, wp, fails, marksLost, notes>>

EraseBlock ==
  /\ EraseLoop /\ (force \/ ~IsBad(flash, ecur \div ppb))
  /\ flash' = IF Protected THEN flash ELSE SetBlock(flash, ecur \div ppb, Erased)
  /\ left' = left - 1
  /\ UNCHANGED <<wp, fails, marksLost, notes>>

\* Mutant: the block that failed is not made up for.
EraseFailUncounted ==
  /\ EraseLoop /\ (force \/ ~IsBad(flash, ecur \div ppb))
  /\ fails < MaxFails /\ fails' = fails + 1
  /\ Marking(IF Protected THEN flash ELSE SetBlock(flash, ecur \div ppb, Garbage), ecur \div ppb)
  /\ wp' = PinLow
  /\ left' = left - 1
  /\ notes' = [notes EXCEPT !.failed = IF rq.op = "erase" THEN @ + 1 ELSE @,
                            !.spill = @ \/ rq.op = "program",
                            !.lost = @ \/ marksLost' # marksLost]

\* The block is marked, which lowers the pin, and made up for as a bad one is:
\* the erase of a block that failed to program goes on with the block behind.
EraseFail ==
  /\ EraseLoop /\ (force \/ ~IsBad(flash, ecur \div ppb))
  /\ fails < MaxFails /\ fails' = fails + 1
  /\ Marking(IF Protected THEN flash ELSE SetBlock(flash, ecur \div ppb, Garbage), ecur \div ppb)
  /\ wp' = PinLow
  /\ left' = left - 1 + nand_plane
  /\ notes' = [notes EXCEPT !.failed = IF rq.op = "erase" THEN @ + 1 ELSE @,
                            !.spill = @ \/ rq.op = "program",
                            !.lost = @ \/ marksLost' # marksLost]

EraseDone ==
  /\ rq.op = "erase" /\ erasing /\ left <= 0 /\ erasing' = FALSE
  /\ Finish(ecur) /\ wp' = PinLow
  /\ UNCHANGED <<flash, cfgVars, hs3, loopVars, ecur, left, buf, fails, marksLost, corrected,
                 image, notes>>

-----------------------------------------------------------------------------
(* nand_program_4760.                                                      *)

ProgramStart ==
  /\ Start("program")
  /\ wp' = PinHigh
  /\ spage' = rq'.start /\ cur' = rq'.start /\ tmpbuf' = 0 /\ i' = 0
  /\ image' = NoImage /\ notes' = [NoNotes EXCEPT !.fresh = FreshFrom(rq'.start)]
  /\ UNCHANGED <<eraseVars, buf>>

ProgramLoop ==
  /\ Running("program") /\ i < rq.count
  /\ UNCHANGED <<cfgVars, hs3, busy, rq, buf, ret, ops, corrected, image>>

\* Where an image that starts with the loader goes on.
BehindLoader == 2 * ppb

\* program_nand_spl_page for every page of the loader: data to page 2k, then,
\* if that did not fail, parity to page 2k+1.  Nobody looks at the results.
ProgramSpl ==
  /\ ProgramLoop /\ cur = 0
  /\ \E outcome \in [0..(spl_size - 1) -> {"ok", "data", "ecc"}] :
       LET failing == {k \in DOMAIN outcome : outcome[k] # "ok"}
           Written(r) ==
             LET k == r \div 2 IN
             CASE r % 2 = 0 -> IF outcome[k] = "data" THEN Programmed(flash[r], Garbage)
                               ELSE Programmed(flash[r], Page("spl", ops, pagesize * k, NoParity))
               [] outcome[k] = "ecc" -> Programmed(flash[r], Garbage)
               [] outcome[k] = "data" -> flash[r]
               [] OTHER -> Programmed(flash[r], Page("splecc", ops, pagesize * k, NoParity))
       IN /\ fails' = fails + Cardinality(failing) /\ fails' <= MaxFails
          /\ flash' = [r \in Rows |-> IF r < 2 * spl_size /\ ~Protected THEN Written(r) ELSE flash[r]]
          /\ notes' = [notes EXCEPT !.lost = @ \/ failing # {}]
  /\ tmpbuf' = tmpbuf + pagesize * spl_size
  /\ cur' = BehindLoader /\ i' = i + spl_size
  /\ UNCHANGED <<wp, spage, eraseVars, marksLost>>

ProgramSkipBad ==
  /\ ProgramLoop /\ cur # 0 /\ BadHere
  /\ cur' = cur + ppb
  /\ UNCHANGED <<flash, wp, i, spage, tmpbuf, eraseVars, fails, marksLost, notes>>

\* All of the next page of the image, OOB included, is 0xff.
AllFF ==
  /\ rq.option # "NO_OOB"
  /\ \A k \in (tmpbuf \div datasize)..((tmpbuf + datasize - 1) \div datasize) : k \in rq.ff

ProgramSkipFF ==
  /\ ProgramLoop /\ cur # 0 /\ ~BadHere /\ AllFF
  /\ tmpbuf' = tmpbuf + datasize /\ i' = i + 1 /\ cur' = cur + 1
  /\ UNCHANGED <<flash, wp, spage, eraseVars, fails, marksLost, notes>>

ProgramPage ==
  /\ ProgramLoop /\ cur # 0 /\ ~BadHere /\ ~AllFF
  /\ flash' = IF Protected THEN flash
              ELSE [flash EXCEPT ![Row(cur)] = Programmed(@, Page("data", ops, tmpbuf, Parity))]
  /\ tmpbuf' = tmpbuf + datasize /\ i' = i + 1 /\ cur' = cur + 1
  /\ UNCHANGED <<wp, spage, eraseVars, fails, marksLost, notes>>

\* A page fails: nand_erase_4760 is called with force for its block.
ProgramFail ==
  /\ ProgramLoop /\ cur # 0 /\ ~BadHere /\ ~AllFF
  /\ fails < MaxFails /\ fails' = fails + 1
  /\ flash' = IF Protected THEN flash ELSE [flash EXCEPT ![Row(cur)] = Programmed(@, Garbage)]
  /\ wp' = PinHigh
  /\ erasing' = TRUE /\ ecur' = (cur \div ppb) * ppb /\ left' = 1
  /\ notes' = [notes EXCEPT !.failed = @ + 1]
  /\ UNCHANGED <<loopVars, marksLost>>

\* The erase returns: the block is marked bad and the request starts over one
\* block further on, with the pin low and, beyond page 0, without the loader.
ProgramRestart ==
  /\ rq.op = "program" /\ erasing /\ left <= 0 /\ erasing' = FALSE
  /\ Marking(flash, cur \div ppb) /\ wp' = PinLow
  /\ spage' = spage + ppb
  /\ cur' = spage' /\ tmpbuf' = 0 /\ i' = 0
  /\ notes' = [notes EXCEPT !.lost = @ \/ marksLost' # marksLost]
  /\ UNCHANGED <<cfgVars, hs3, busy, rq, ecur, left, buf, ret, ops, fails, corrected, image>>

ProgramDone ==
  /\ Running("program") /\ i >= rq.count
  /\ Finish(cur) /\ wp' = PinLow
  /\ image' = [rq |-> rq, id |-> ops, end |-> cur, par |-> Parity, notes |-> notes]
  /\ UNCHANGED <<flash, cfgVars, hs3, loopVars, eraseVars, buf, fails, marksLost, corrected,
                 notes>>

-----------------------------------------------------------------------------
(* nand_read_4760, nand_read_raw_4760, nand_read_oob_4760.                 *)

ReadOps == {"read", "read_raw", "read_oob"}

\* None of them resets the status word.
ReadStart ==
  /\ \E op \in ReadOps : Start(op)
  /\ cur' = rq'.start /\ i' = 0 /\ buf' = <<>> /\ notes' = [NoNotes EXCEPT !.alarm = hs3]
  /\ UNCHANGED <<wp, spage, tmpbuf, eraseVars, image>>

ReadLoop(op) ==
  /\ Running(op) /\ i < rq.count
  /\ UNCHANGED <<flash, wp, cfgVars, busy, rq, spage, tmpbuf, eraseVars, ret, ops, fails,
                 marksLost, image, notes>>

\* read_nand_spl_page: the parity is that of the page; what was not written
\* by program_nand_spl_page comes out scrambled, without an error status.
SplPage(m) ==
  LET data == flash[2 * m] ecc == flash[2 * m + 1] IN
  IF data.kind = "spl" /\ ecc.kind = "splecc" /\ ecc.id = data.id THEN data ELSE Garbage

\* Mutant: the pages of the loader are read one after the other.
ReadSplAdjacent ==
  /\ ReadLoop("read") /\ cur < 2 * spl_size
  /\ buf' = [m \in 1..Min({rq.count, spl_size}) |-> flash[m - 1]]
  /\ cur' = BehindLoader /\ i' = spl_size
  /\ UNCHANGED <<hs3, corrected>>

\* A read that starts among the loader's pages returns the loader from its
\* beginning, whatever page it starts at.
ReadSpl ==
  /\ ReadLoop("read") /\ cur < 2 * spl_size
  /\ buf' = [m \in 1..Min({rq.count, spl_size}) |-> SplPage(m - 1)]
  /\ cur' = BehindLoader /\ i' = spl_size
  /\ UNCHANGED <<hs3, corrected>>

ReadSkipBad ==
  /\ \/ ReadLoop("read") /\ cur >= 2 * spl_size
     \/ ReadLoop("read_raw")
  /\ BadHere
  /\ cur' = cur + ppb
  /\ UNCHANGED <<hs3, i, buf, corrected>>

TakePage(page) == buf' = Append(buf, page) /\ cur' = cur + 1 /\ i' = i + 1

\* The whole parity is there and was computed as it is checked.
Decodes(page) == page.par = Parity /\ par_size = ParityOf(bchbit)

\* One page in all of its ECC blocks.  Blank parity raises no alarm, and zeros
\* are a code word.  A correctable error, also one met in the noise of a page
\* that does not decode, clears the alarm of an earlier block or page.
ReadPage ==
  /\ ReadLoop("read") /\ cur >= 2 * spl_size /\ ~BadHere
  /\ LET page == flash[Row(cur)]
         clean == page.kind \in {"erased", "zero"} \/ (page.kind = "data" /\ Decodes(page))
     IN \/ clean /\ TakePage(page) /\ UNCHANGED <<hs3, corrected>>
        \/ /\ clean /\ page # Erased /\ corrected < MaxCorrected
           /\ TakePage(page) /\ corrected' = corrected + 1 /\ hs3' = 0
        \/ ~clean /\ TakePage(page) /\ hs3' = 1 /\ UNCHANGED corrected
        \/ ~clean /\ TakePage(Garbage) /\ corrected < MaxCorrected
           /\ corrected' = corrected + 1 /\ hs3' = 0

\* The PN unit is on: what nand_program_4760 wrote without it is scrambled.
ReadRawPage ==
  /\ ReadLoop("read_raw") /\ ~BadHere
  /\ TakePage(IF flash[Row(cur)].kind \in {"spl", "splecc"} THEN flash[Row(cur)] ELSE Garbage)
  /\ UNCHANGED <<hs3, corrected>>

ReadOobPage ==
  /\ ReadLoop("read_oob")
  /\ TakePage(flash[Row(cur)])
  /\ UNCHANGED <<hs3, corrected>>

ReadDone ==
  /\ busy /\ rq.op \in ReadOps /\ i >= rq.count
  /\ Finish(cur)
  /\ UNCHANGED <<flash, wp, cfgVars, hs3, loopVars, eraseVars, buf, fails, marksLost,
                 corrected, image, notes>>

-----------------------------------------------------------------------------

EraseStep   == EraseSkipBad \/ EraseBlock \/ EraseFail \/ EraseDone
ProgramStep == \/ ProgramSpl \/ ProgramSkipBad \/ ProgramSkipFF \/ ProgramPage \/ ProgramFail
               \/ ProgramRestart \/ ProgramDone
ReadStep    == ReadSpl \/ ReadSkipBad \/ ReadPage \/ ReadRawPage \/ ReadOobPage \/ ReadDone

Driver == EraseStep \/ ProgramStep \/ ReadStep
Host   == \/ nand_init_4760 \/ nand_query_4760 \/ nand_mark_bad_4760
          \/ EraseStart \/ ProgramStart \/ ReadStart

\* After the last request the firmware waits for the host.
AllServed == ~busy /\ ops = MaxOps /\ UNCHANGED vars

Next == Driver \/ Host \/ AllServed

Spec == Init /\ [][Next]_vars

-----------------------------------------------------------------------------
(* Properties.                                                             *)

\* Where the k-th page of an image that starts at page `start' is in its file.
OffsetOf(start, k) ==
  IF start # 0 THEN (k - 1) * datasize
  ELSE IF k <= spl_size THEN (k - 1) * pagesize
  ELSE spl_size * pagesize + (k - 1 - spl_size) * datasize

\* What a later read may rely on: the blocks were erased, every marker took,
\* the image did not run over the end of the flash, and it is either an image
\* from page 0 that met no failure (a failure restarts it without the loader)
\* or one of at most a block that starts at a block beyond the loader.
Kept(im) ==
  /\ im.id # 0 /\ im.notes.fresh /\ ~im.notes.lost /\ im.end <= Blocks * ppb
  /\ wp_pin => im.notes.failed = 0
  /\ \/ im.rq.start = 0 /\ im.notes.failed = 0 /\ im.rq.ff = {} /\ ~IsBad(flash, 0)
     \/ im.rq.start % ppb = 0 /\ im.rq.start >= 2 * spl_size /\ im.rq.count <= ppb

\* Read back what was programmed: the image in order, the loader's pages put
\* together again from their pairs, and the same end page.  The alarm is not
\* raised by this read, though it may be one that an earlier read left behind.
\* Not promised: a BCH strength of 24, for which the parity size is not set.
ReadBack ==
  (/\ ~busy /\ rq.op = "read" /\ Kept(image) /\ bchbit # 24 /\ image.par = Parity
   /\ rq.start = image.rq.start /\ rq.count = image.rq.count)
  => /\ \A k \in 1..rq.count :
          /\ buf[k] # Erased => buf[k].id = image.id /\ buf[k].off = OffsetOf(rq.start, k)
          /\ buf[k] = Erased => k - 1 \in image.rq.ff /\ rq.option # "NO_OOB"
     /\ hs3 <= notes.alarm /\ ret = image.end

\* The driver implements the promise NandDevice states for any NAND driver, with
\* the loader's pages kept in the first two blocks and failing blocks made up for.
Device == INSTANCE NandDevice WITH
  bad <- {b \in 0..(Blocks - 1) : IsBad(flash, b)},
  failed <- notes.failed, Force <- forceerase, Loader <- spl_size, MadeUpFor <- TRUE,
  NumBlocks <- Blocks, ChipBlocks <- Blocks

ImplementsDevice == Device!Spec
=============================================================================
