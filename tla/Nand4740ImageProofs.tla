------------------------ MODULE Nand4740ImageProofs -------------------------
(***************************************************************************)
(* What nand_program_4740 writes is what nand_read_4740 reads, and the     *)
(* loader's pages are in the boot ROM's layout: for every geometry, number *)
(* of chips and set of requests, and whatever blocks are bad or fail.      *)
(***************************************************************************)
EXTENDS Nand4740Proofs

\* Page p of the device.
At(f, p) == f[Cell(Chip(p \div ppb), p)]

\* The page holds page k of an image with datasize bytes to the page.
Holds(page, id, size, ff, ecc, k) ==
  IF k \in ff THEN page = Erased
  ELSE /\ page.kind = "data" /\ page.id = id /\ page.off = k * size
       /\ page.ecc \in {ecc, ImageEcc}

\* The request's blocks up to the one with page base are bad, and that one is
\* good if the request has any pages in it.
Placed(f, r, base, n) ==
  /\ base \in Nat /\ base % ppb = 0 /\ r.start <= base
  /\ \A b \in (r.start \div ppb)..(base \div ppb - 1) : IsBad(f, b)
  /\ n > 0 => ~IsBad(f, base \div ppb)

\* A request that can be read back: it fits in one block beyond the loader.
Fits(r, nt) ==
  /\ nt.fresh /\ ~nt.lost /\ (wp_pin => nt.failed = 0)
  /\ r.start % ppb = 0 /\ r.start > SPL_PAGES /\ r.count <= ppb

-----------------------------------------------------------------------------
\* While a program request runs the last image is gone, and its pin is up
\* unless a page failed.
ImageGone == (Running("erase") \/ Running("program")) => image.id = 0
PinKept == (Running("program") /\ wp_pin /\ notes.failed = 0) => wp

\* A program request that fits has put its first i pages into one good block,
\* the first one from its start on; what follows is clean, so that it can go
\* on, and start again one block further on.
Programming ==
  (Running("program") /\ Fits(rq, notes)) =>
    /\ i <= cur /\ i <= rq.count /\ Placed(flash, rq, cur - i, i)
    /\ spage % ppb = 0 /\ rq.start <= spage /\ spage <= cur - i
    /\ rq.count = 0 => cur = rq.start
    /\ tmpbuf = i * datasize
    /\ datasize = pagesize + IF rq.option = "NO_OOB" THEN 0 ELSE sav.oob
    /\ \A p \in cur..(TotalPages - 1) : Clean(flash, p)
    /\ cur <= TotalPages =>
         \A k \in 0..(i - 1) :
           Holds(At(flash, cur - i + k), ops, datasize, rq.ff, sav.ecc, k)

\* The image that was programmed is in the flash.
Base == image.end - image.rq.count
Stored ==
  Kept(image) =>
    /\ Placed(flash, image.rq, Base, image.rq.count)
    /\ image.rq.count = 0 => image.end = image.rq.start
    /\ \A k \in 0..(image.rq.count - 1) :
         Holds(At(flash, Base + k), image.id, image.datasize, image.rq.ff, image.ecc, k)

\* The driver's parity position is the one the image was written with, or the
\* one nand_init_4740 has set since.
Parity == image.id # 0 => ecc_pos \in {image.ecc, EccPos}

\* A read of the image goes to the block it is in and has its first i pages.
Reads ==
  /\ rq.op = "read" /\ Kept(image) /\ image.ecc = ecc_pos
  /\ rq.start = image.rq.start /\ rq.count = image.rq.count
Reading ==
  Reads =>
    /\ i <= rq.count /\ hs3 = 0 /\ Len(buf) = i
    /\ i = 0 => cur % ppb = 0 /\ rq.start <= cur /\ cur <= Base
    /\ i > 0 => cur = Base + i
    /\ \A k \in 1..i : buf[k] = At(flash, Base + k - 1)
    /\ ~busy => i = rq.count /\ ret = image.end

\* An image with the loader is laid out so far: 2048 bytes to the page up to
\* page 8, and from there on a page's bytes to the page.
LoaderOff(k) == k * IF k < SPL_PAGES THEN 2048 ELSE pagesize
Loads(r, nt) ==
  r.start = 0 /\ r.option = "NO_OOB" /\ r.ff = {} /\ nt.fresh /\ nt.failed = 0
Loading ==
  (Running("program") /\ Loads(rq, notes) /\ ~IsBad(flash, 0)) =>
    /\ i <= cur /\ (cur <= ppb => cur = i) /\ (ppb <= cur => ppb <= i) /\ datasize = pagesize
    /\ cur <= ppb => tmpbuf = IF i = SPL_PAGES THEN i * 2048 ELSE LoaderOff(i)
    /\ \A p \in cur..(TotalPages - 1) : Clean(flash, p)
    /\ cur <= TotalPages =>
         \A p \in 0..(ppb - 1) :
           p < i => At(flash, p).id = ops /\ At(flash, p).off = LoaderOff(p)

ImageInv ==
  ImageGone /\ PinKept /\ Programming /\ Stored /\ Parity /\ Reading /\ Loading /\ LoaderLayout

-----------------------------------------------------------------------------
(* Pages and cells.                                                        *)

LEMMA DivMono ==
  ASSUME NEW p \in Nat, NEW q \in Nat, NEW d \in Nat \ {0}, p <= q
  PROVE  p \div d <= q \div d
<1> DEFINE x == p \div d
           y == q \div d
<1>1. /\ x \in Nat /\ p % d \in 0..(d - 1) /\ p = d * x + (p % d)
      /\ y \in Nat /\ q % d \in 0..(d - 1) /\ q = d * y + (q % d)
  BY DivModType
<1> HIDE DEF x, y
<1>2. ASSUME y + 1 <= x PROVE FALSE
  <2>1. (y + 1) * d <= x * d
    BY <1>1, <1>2, MulMono
  <2>2. (y + 1) * d = d * y + d /\ x * d = d * x
    BY <1>1
  <2> QED
    BY <1>1, <2>1, <2>2
<1>3. x <= y
  BY <1>1, <1>2
<1> QED
  BY <1>3 DEF x, y

\* The pages of the block that begins at page base.
LEMMA PagesFrom ==
  ASSUME NEW base \in Nat, base % ppb = 0, NEW k \in 0..(ppb - 1)
  PROVE  (base + k) \div ppb = base \div ppb /\ (base + k) % ppb = k
<1>1. base \div ppb \in Nat /\ base = (base \div ppb) * ppb
  BY PageOfBlock, NextBlock
<1> QED
  BY <1>1, BlockOfPage

LEMMA PageNumber ==
  ASSUME NEW p \in Nat, p < TotalPages
  PROVE  p \div ppb \in BlockNumbers
<1> DEFINE b == p \div ppb
<1>1. b \in Nat /\ p % ppb \in Nat /\ p = b * ppb + (p % ppb)
  BY PageOfBlock
<1>2. p < AllBlocks * ppb /\ AllBlocks \in Nat /\ ppb \in Nat
  BY AllPages, Numbers
<1> HIDE DEF b
<1>3. ASSUME AllBlocks <= b PROVE FALSE
  <2>1. AllBlocks * ppb <= b * ppb
    BY <1>1, <1>2, <1>3, MulMono
  <2> QED
    BY <1>1, <1>2, <2>1
<1> QED
  BY <1>1, <1>2, <1>3 DEF BlockNumbers, b

LEMMA PageCell ==
  ASSUME NEW p \in Nat
  PROVE  /\ Cell(Chip(p \div ppb), p) = <<Chip(p \div ppb), Row(p \div ppb, p % ppb)>>
         /\ Cell(Chip(p \div ppb), p) \in Cells
<1> DEFINE b == p \div ppb
           o == p % ppb
<1>1. b \in Nat /\ o \in 0..(ppb - 1) /\ p = b * ppb + o /\ Chip(b) \in Chips
  BY PageOfBlock, ChipType
<1> HIDE DEF b, o
<1>2. Cell(Chip(b), p) = <<Chip(b), Row(b, o)>>
  BY <1>1, CellOfBlock
<1> QED
  BY <1>1, <1>2, CellType DEF b, o

\* Different pages of the device are different cells.
LEMMA PagesApart ==
  ASSUME NEW p \in Nat, NEW q \in Nat, p < TotalPages, q < TotalPages, p # q
  PROVE  Cell(Chip(p \div ppb), p) # Cell(Chip(q \div ppb), q)
<1> DEFINE b == p \div ppb
           x == q \div ppb
<1>1. b \in BlockNumbers /\ x \in BlockNumbers /\ b \in Nat /\ x \in Nat
  BY PageNumber, PageOfBlock
<1>2. /\ p % ppb \in 0..(ppb - 1) /\ p = b * ppb + (p % ppb)
      /\ q % ppb \in 0..(ppb - 1) /\ q = x * ppb + (q % ppb)
  BY PageOfBlock
<1>3. /\ Cell(Chip(b), p) = <<Chip(b), Row(b, p % ppb)>>
      /\ Cell(Chip(x), q) = <<Chip(x), Row(x, q % ppb)>>
  BY PageCell
<1> HIDE DEF b, x
<1>4. ASSUME Cell(Chip(b), p) = Cell(Chip(x), q) PROVE FALSE
  <2>1. Chip(b) = Chip(x) /\ Row(b, p % ppb) = Row(x, q % ppb)
    BY <1>3, <1>4
  <2>2. b % Blocks = x % Blocks /\ p % ppb = q % ppb
    BY <1>1, <1>2, <2>1, RowsApart
  <2>3. b = x
    BY <1>1, <2>1, <2>2, HomeUnique
  <2> QED
    BY <1>2, <2>2, <2>3
<1> QED
  BY <1>4 DEF b, x

\* Whether a block is bad depends on the set of bad blocks.
LEMMA SameBad ==
  ASSUME NEW f, NEW g, Bad(f) = Bad(g)
  PROVE  \A b \in Nat : IsBad(f, b) <=> IsBad(g, b)
  BY BadMember

\* Programming an erased page of the device writes it and nothing else.
LEMMA PageWritten ==
  ASSUME IndInv, ProgramPage, ~Protected, cur < TotalPages, At(flash, cur) = Erased
  PROVE  /\ At(flash', cur) = Written
         /\ \A p \in 0..(TotalPages - 1) : p # cur => At(flash', p) = At(flash, p)
<1> DEFINE c == Cell(Chip(cur \div ppb), cur)
<1>0. cur \in Nat /\ flash \in [Cells -> PageSet]
  BY Typed
<1>1. c \in Cells
  BY <1>0, PageCell
<1>2. flash' = [flash EXCEPT ![c] = Programmed(@, Written)]
  BY DEF ProgramPage, ProgramLoop
<1>3. flash[c] = Erased
  BY DEF At
<1> HIDE DEF c
<1>4. flash'[c] = Written
  <2>1. Programmed(Erased, Written) = Written
    <3>1. Erased # Zero
      BY DEF Erased, Zero, Page
    <3> QED
      BY <3>1 DEF Programmed
  <2> QED
    BY <1>0, <1>1, <1>2, <1>3, <2>1
<1>5. ASSUME NEW p \in 0..(TotalPages - 1), p # cur PROVE At(flash', p) = At(flash, p)
  <2>1. p \in Nat /\ p < TotalPages
    BY <1>5, AllPages, Numbers
  <2>2. Cell(Chip(p \div ppb), p) # c /\ Cell(Chip(p \div ppb), p) \in Cells
    BY <1>0, <1>5, <2>1, PagesApart, PageCell DEF c
  <2> QED
    BY <1>0, <1>1, <1>2, <2>2 DEF At
<1> QED
  BY <1>4, <1>5 DEF At, c

\* So it leaves the other pages clean.
LEMMA StillClean ==
  ASSUME IndInv, ProgramPage, ~Protected, cur < TotalPages, At(flash, cur) = Erased,
         NEW p \in 0..(TotalPages - 1), p # cur, Clean(flash, p)
  PROVE  Clean(flash', p)
<1>1. At(flash', p) = At(flash, p)
  BY PageWritten
<1>2. p \in Nat
  BY AllPages, Numbers
<1>3. IsBad(flash', p \div ppb) <=> IsBad(flash, p \div ppb)
  BY <1>2, PageOfBlock, ProgramPageBad, SameBad
<1> QED
  BY <1>1, <1>3 DEF Clean, At

\* A failing page's block is bad afterwards, and nothing else has changed.
LEMMA FailedBlock ==
  ASSUME IndInv, ProgramFail, ~notes'.lost
  PROVE  /\ OnlyIn(flash, flash', cur \div ppb) /\ IsBad(flash', cur \div ppb) /\ ~notes.lost
         /\ \A x \in Nat : IsBad(flash, x) => IsBad(flash', x)
<1> DEFINE b == cur \div ppb
<1>0. b \in Nat /\ Chip(b) \in Chips /\ flash \in [Cells -> PageSet] /\ CountTypeOK
  BY Typed
<1>1. sel' = Chip(b)
  BY DEF ProgramFail, ProgramLoop
<1>2. ~notes.lost /\ marksLost' = marksLost
  BY DEF ProgramFail, Note
<1>3. Bad(flash') = Bad(flash) \cup {b % AllBlocks}
  BY <1>2, FailBad
<1>4. PICK page \in {Erased, Garbage} : Marking(SetBlock(flash, Chip(b), b, page), Chip(b), b)
  BY <1>1 DEF ProgramFail
<1> DEFINE f == SetBlock(flash, Chip(b), b, page)
<1>5. f \in [Cells -> PageSet] /\ OnlyIn(flash, f, b)
  BY <1>0, SetBlockType, SpecialPages, SetBlockOnly
<1> HIDE DEF b, f
<1>6. flash' = MarkBad(f, Chip(b), b)
  <2>1. marksLost' # marksLost + 1
    BY <1>0, <1>2, BoundAssumption DEF CountTypeOK
  <2> QED
    BY <1>4, <2>1 DEF Marking, f
<1>7. OnlyIn(f, flash', b)
  BY <1>0, <1>5, <1>6, MarkBadOnly
<1>8. OnlyIn(flash, flash', b)
  BY <1>5, <1>7 DEF OnlyIn
<1>9. IsBad(flash', b) /\ \A x \in Nat : IsBad(flash, x) => IsBad(flash', x)
  BY <1>0, <1>3, BadMember
<1> QED
  BY <1>2, <1>8, <1>9 DEF b

-----------------------------------------------------------------------------
(* A program request that fits.                                            *)

\* It is in the block its first page is in, beyond the loader's pages.
LEMMA InOneBlock ==
  ASSUME IndInv, Programming, ProgramLoop, Fits(rq, notes)
  PROVE  /\ cur - i \in Nat /\ cur = (cur - i) + i /\ (cur - i) % ppb = 0
         /\ i \in 0..(ppb - 1) /\ i < rq.count /\ rq.count <= ppb /\ SPL_PAGES < cur
         /\ cur \div ppb = (cur - i) \div ppb /\ cur % ppb = i /\ (cur - i) \div ppb \in Nat
         /\ Placed(flash, rq, cur - i, i)
<1> DEFINE base == cur - i
<1>0. cur \in Nat /\ i \in Nat /\ rq.start \in Nat /\ rq.count \in Nat /\ ppb \in Nat \ {0}
  BY Typed, Numbers
<1>1. Running("program") /\ i < rq.count
  BY DEF ProgramLoop
<1>2. i <= cur /\ Placed(flash, rq, base, i)
  BY <1>1 DEF Programming
<1>3. base \in Nat /\ base % ppb = 0 /\ rq.start <= base /\ cur = base + i
  BY <1>0, <1>2 DEF Placed
<1>4. rq.count <= ppb /\ SPL_PAGES < rq.start
  BY <1>0 DEF Fits, SPL_PAGES
<1>5. i \in 0..(ppb - 1) /\ SPL_PAGES < cur
  BY <1>0, <1>1, <1>3, <1>4 DEF SPL_PAGES
<1> HIDE DEF base
<1>6. cur \div ppb = base \div ppb /\ cur % ppb = i /\ base \div ppb \in Nat
  BY <1>3, <1>5, PagesFrom, PageOfBlock
<1> QED
  BY <1>1, <1>2, <1>3, <1>4, <1>5, <1>6 DEF base

\* Beyond the loader's pages the image is taken datasize bytes at a time.
LEMMA ImageOffsets ==
  ASSUME IndInv, Programming, ProgramLoop, Fits(rq, notes)
  PROVE  /\ source = i * datasize /\ datasize \in Nat \ {0} /\ ecccnt * 512 = pagesize
         /\ oobsize' = sav.oob /\ ecc_pos' = sav.ecc /\ Advance = datasize
<1>0. /\ cur \in Nat /\ SPL_PAGES < cur /\ i \in Nat /\ sav.oob \in Nat /\ datasize \in Nat
      /\ pagesize \in {2048, 4096} /\ rq.option \in Options
  BY InOneBlock, Typed, GeometryAssumption, RequestType DEF IndInv, TypeOK, LoopTypeOK
<1>1. ~(cur < SPL_PAGES) /\ cur # SPL_PAGES
  BY <1>0 DEF SPL_PAGES
<1>2. /\ tmpbuf = i * datasize
      /\ datasize = pagesize + IF rq.option = "NO_OOB" THEN 0 ELSE sav.oob
  BY DEF Programming, ProgramLoop
<1>3. source = i * datasize
  BY <1>1, <1>2 DEF source
<1>4. oobsize' = sav.oob /\ ecc_pos' = sav.ecc
  BY <1>1 DEF ProgramLoop
<1>5. ecccnt * 512 = pagesize
  BY <1>0, <1>1 DEF ecccnt
<1>6. Advance = datasize
  <2>1. CASE rq.option = "NO_OOB"
    BY <1>0, <1>2, <1>5, <2>1 DEF Advance
  <2>2. CASE rq.option = "OOB_NO_ECC"
    BY <1>0, <1>2, <1>4, <1>5, <2>2 DEF Advance
  <2>3. CASE rq.option = "OOB_ECC"
    BY <1>0, <1>2, <1>4, <2>3 DEF Advance
  <2> QED
    BY <1>0, <2>1, <2>2, <2>3 DEF Options
<1>7. datasize # 0
  BY <1>0, <1>2
<1> QED
  BY <1>0, <1>3, <1>4, <1>5, <1>6, <1>7

\* The bytes of page i of the image are all 0xff if the page is.
LEMMA BlankPage ==
  ASSUME IndInv, Programming, ProgramLoop, Fits(rq, notes)
  PROVE  AllFF <=> i \in rq.ff
<1> DEFINE d == datasize
<1>1. source = i * d /\ d \in Nat \ {0} /\ i \in Nat
  BY ImageOffsets, Typed
<1> HIDE DEF d
<1>2. i * d \in Nat /\ i * d = d * i + 0 /\ i * d + d - 1 = d * i + (d - 1)
  BY <1>1
<1>3. (i * d) \div d = i
  <2>1. 0 \in 0..(d - 1)
    BY <1>1
  <2> QED
    BY <1>1, <1>2, <2>1, DivModUnique
<1>4. (i * d + d - 1) \div d = i
  <2> DEFINE p == i * d + d - 1
             r == d - 1
  <2>1. r \in 0..(d - 1) /\ p \in Nat /\ p = d * i + r
    BY <1>1, <1>2
  <2> HIDE DEF p, r
  <2>2. p \div d = i
    BY <1>1, <2>1, DivModUnique
  <2> QED
    BY <2>2 DEF p
<1>5. AllFF <=> \A k \in i..i : k \in rq.ff
  BY <1>1, <1>3, <1>4 DEF AllFF, d
<1>6. i..i = {i}
  BY <1>1
<1> QED
  BY <1>5, <1>6

\* What is written holds page i of the image.
LEMMA WrittenHolds ==
  ASSUME IndInv, Programming, ProgramLoop, Fits(rq, notes), i \notin rq.ff
  PROVE  Holds(Written, ops, datasize, rq.ff, sav.ecc, i)
<1>1. source = i * datasize /\ ecccnt * 512 = pagesize /\ ecc_pos' = sav.ecc
  BY ImageOffsets
<1>2. \/ Written = Page("data", ops, source, ImageEcc)
      \/ Written = Page("data", ops, source, sav.ecc)
  BY <1>1 DEF Written
<1>3. /\ Written.kind = "data" /\ Written.id = ops /\ Written.off = source
      /\ Written.ecc \in {sav.ecc, ImageEcc}
  BY <1>2 DEF Page
<1> QED
  BY <1>1, <1>3 DEF Holds

\* The page it comes to is erased, and in a good block.
LEMMA HereErased ==
  ASSUME IndInv, Programming, ProgramLoop, Fits(rq, notes), ~BadHere
  PROVE  /\ ~IsBad(flash, (cur - i) \div ppb)
         /\ cur < TotalPages => At(flash, cur) = Erased
<1>1. /\ cur \div ppb = (cur - i) \div ppb /\ cur % ppb = i /\ Placed(flash, rq, cur - i, i)
      /\ cur \in Nat /\ i \in Nat
  BY InOneBlock, Typed
<1>2. ~IsBad(flash, (cur - i) \div ppb)
  <2>1. CASE i = 0
    BY <1>1, <2>1 DEF BadHere
  <2>2. CASE i > 0
    BY <1>1, <2>2 DEF Placed
  <2> QED
    BY <1>1, <2>1, <2>2
<1>3. ASSUME cur < TotalPages PROVE At(flash, cur) = Erased
  <2>1. TotalPages \in Nat
    BY AllPages, Numbers
  <2>2. cur \in cur..(TotalPages - 1)
    BY <1>1, <1>3, <2>1
  <2>3. Clean(flash, cur)
    BY <2>2 DEF Programming, ProgramLoop
  <2> QED
    BY <1>1, <1>2, <2>3 DEF Clean, At
<1> QED
  BY <1>2, <1>3

\* The first page of the request.
LEMMA ProgrammingStart ==
  ASSUME IndInv, ProgramStart
  PROVE  Programming'
<1> SUFFICES ASSUME Fits(rq', notes') PROVE Programming'
  BY DEF Programming
<1>1. /\ rq'.start \in Nat /\ rq'.count \in Nat /\ rq'.op = "program"
  BY StartFacts DEF ProgramStart
<1>2. /\ cur' = rq'.start /\ spage' = rq'.start /\ i' = 0 /\ tmpbuf' = 0 /\ flash' = flash
      /\ datasize' = pagesize + (IF rq'.option = "NO_OOB" THEN 0 ELSE oobsize)
      /\ sav'.oob = oobsize /\ notes'.fresh = FreshFrom(rq'.start)
  BY DEF ProgramStart, Start, Note
<1>3. rq'.start % ppb = 0 /\ FreshFrom(rq'.start)
  BY <1>2 DEF Fits
<1>4. \A p \in cur'..(TotalPages - 1) : Clean(flash', p)
  BY <1>2, <1>3 DEF FreshFrom, Clean
<1>5. cur' - i' = rq'.start /\ rq'.start \div ppb \in Nat
  BY <1>1, <1>2, PageOfBlock
<1>6. Placed(flash', rq', cur' - i', i')
  BY <1>1, <1>2, <1>3, <1>5 DEF Placed
<1>7. datasize' \in Nat /\ tmpbuf' = i' * datasize'
  <2>1. datasize' \in Nat
    BY <1>2, Geometry DEF IndInv, TypeOK, DriverTypeOK
  <2> QED
    BY <1>2, <2>1
<1> QED
  BY <1>1, <1>2, <1>3, <1>4, <1>5, <1>6, <1>7 DEF Programming

LEMMA ProgrammingSkipBad ==
  ASSUME IndInv, Programming, ProgramSkipBad
  PROVE  Programming'
<1> SUFFICES ASSUME Fits(rq', notes') PROVE Programming'
  BY DEF Programming
<1>1. /\ ProgramLoop /\ BadHere /\ cur' = cur + ppb /\ tmpbuf' = source
      /\ UNCHANGED <<flash, i, spage, sav, notes, rq, datasize, ops>>
  BY DEF ProgramSkipBad, ProgramLoop
<1>2. Fits(rq, notes)
  BY <1>1
<1>3. /\ cur \in Nat /\ i < rq.count /\ cur % ppb = i /\ Placed(flash, rq, cur - i, i)
      /\ source = i * datasize /\ rq.count \in Nat /\ rq.start \in Nat
      /\ ppb \in Nat \ {0} /\ spage \in Nat /\ datasize \in Nat
  BY <1>1, <1>2, InOneBlock, ImageOffsets, Typed, Numbers
<1>4. i = 0 /\ cur - i = cur /\ cur' - i' = cur + ppb
  BY <1>1, <1>3 DEF BadHere
<1>5. IsBad(flash, cur \div ppb) /\ cur % ppb = 0
  BY <1>1 DEF BadHere
<1>6. Placed(flash', rq', cur' - i', i')
  <2>1. (cur + ppb) \div ppb = cur \div ppb + 1 /\ (cur + ppb) % ppb = 0 /\ cur \div ppb \in Nat
    BY <1>3, <1>5, NextBlock, PageOfBlock
  <2>2. rq.start <= cur /\ \A b \in (rq.start \div ppb)..(cur \div ppb - 1) : IsBad(flash, b)
    BY <1>3, <1>4 DEF Placed
  <2>3. rq.start \div ppb \in Nat
    BY <1>3, PageOfBlock
  <2>4. \A b \in (rq.start \div ppb)..((cur \div ppb + 1) - 1) : IsBad(flash, b)
    <3> DEFINE s == rq.start \div ppb
               t == cur \div ppb
    <3>1. s \in Nat /\ t \in Nat /\ IsBad(flash, t) /\ \A b \in s..(t - 1) : IsBad(flash, b)
      BY <1>5, <2>1, <2>2, <2>3
    <3> HIDE DEF s, t
    <3>2. \A b \in s..((t + 1) - 1) : b = t \/ b \in s..(t - 1)
      BY <3>1
    <3>3. \A b \in s..((t + 1) - 1) : IsBad(flash, b)
      BY <3>1, <3>2
    <3> QED
      BY <3>3 DEF s, t
  <2>5. rq.start <= cur + ppb /\ cur + ppb \in Nat
    BY <1>3, <2>2
  <2> QED
    BY <1>1, <1>4, <2>1, <2>4, <2>5 DEF Placed
<1>7. \A p \in cur'..(TotalPages - 1) : Clean(flash', p)
  <2>1. \A p \in cur..(TotalPages - 1) : Clean(flash, p)
    BY <1>1, <1>2 DEF Programming, ProgramLoop
  <2>2. TotalPages \in Nat
    BY AllPages, Numbers
  <2> QED
    BY <1>1, <1>3, <2>1, <2>2
<1>8. /\ spage' % ppb = 0 /\ rq'.start <= spage' /\ spage' <= cur' - i'
      /\ datasize' = pagesize + IF rq'.option = "NO_OOB" THEN 0 ELSE sav'.oob
  <2>1. spage % ppb = 0 /\ rq.start <= spage /\ spage <= cur - i
    BY <1>1, <1>2 DEF Programming, ProgramLoop
  <2>2. datasize = pagesize + IF rq.option = "NO_OOB" THEN 0 ELSE sav.oob
    BY <1>1, <1>2 DEF Programming, ProgramLoop
  <2> QED
    BY <1>1, <1>3, <1>4, <2>1, <2>2
<1>9. i' <= cur' /\ i' <= rq'.count /\ rq'.count # 0
  BY <1>1, <1>3, <1>4
<1> QED
  BY <1>1, <1>3, <1>4, <1>6, <1>7, <1>8, <1>9 DEF Programming

\* One page further on: what is left is that the page holds what it should and
\* that the others are as they were.
LEMMA ProgrammingOn ==
  ASSUME IndInv, Programming, ProgramLoop, Fits(rq, notes), ~BadHere,
         Bad(flash') = Bad(flash), cur' = cur + 1, i' = i + 1, tmpbuf' = source + datasize,
         UNCHANGED <<spage, sav>>,
         cur < TotalPages =>
           /\ Holds(At(flash', cur), ops, datasize, rq.ff, sav.ecc, i)
           /\ \A p \in 0..(TotalPages - 1) : p # cur =>
                At(flash', p) = At(flash, p) /\ (Clean(flash, p) => Clean(flash', p))
  PROVE  Programming'
<1> DEFINE base == cur - i
<1>1. UNCHANGED <<rq, datasize, ops, busy>>
  BY DEF ProgramLoop
<1>2. /\ base \in Nat /\ cur = base + i /\ i \in Nat /\ i < rq.count /\ rq.count \in Nat
      /\ Placed(flash, rq, base, i) /\ base \div ppb \in Nat /\ cur \in Nat
  BY InOneBlock, Typed
<1>3. /\ spage % ppb = 0 /\ rq.start <= spage /\ spage <= base /\ tmpbuf = i * datasize
      /\ datasize = pagesize + IF rq.option = "NO_OOB" THEN 0 ELSE sav.oob
      /\ \A p \in cur..(TotalPages - 1) : Clean(flash, p)
      /\ cur <= TotalPages =>
           \A k \in 0..(i - 1) : Holds(At(flash, base + k), ops, datasize, rq.ff, sav.ecc, k)
  BY DEF Programming, ProgramLoop
<1>4. source = i * datasize /\ datasize \in Nat /\ TotalPages \in Nat
  BY ImageOffsets, AllPages, Numbers
<1>5. ~IsBad(flash, base \div ppb)
  BY HereErased
<1> HIDE DEF base
<1>6. cur' - i' = base
  BY <1>2
<1>7. Placed(flash', rq', base, i')
  <2>1. \A b \in Nat : IsBad(flash', b) <=> IsBad(flash, b)
    BY SameBad
  <2>2. ~IsBad(flash', base \div ppb)
    BY <1>2, <1>5, <2>1
  <2>3. rq.start \div ppb \in Nat
    BY Typed, PageOfBlock
  <2>4. \A b \in (rq.start \div ppb)..(base \div ppb - 1) : b \in Nat
    BY <1>2, <2>3
  <2> QED
    BY <1>1, <1>2, <2>1, <2>2, <2>4 DEF Placed
<1>8. tmpbuf' = i' * datasize'
  BY <1>1, <1>2, <1>4
<1>9. \A p \in cur'..(TotalPages - 1) : Clean(flash', p)
  <2> SUFFICES ASSUME NEW p \in cur'..(TotalPages - 1) PROVE Clean(flash', p)
    OBVIOUS
  <2>1. p \in 0..(TotalPages - 1) /\ p # cur /\ cur < TotalPages /\ p \in cur..(TotalPages - 1)
    BY <1>2, <1>4
  <2> QED
    BY <1>3, <2>1
<1>10. ASSUME cur' <= TotalPages, NEW k \in 0..(i' - 1)
       PROVE  Holds(At(flash', base + k), ops, datasize, rq.ff, sav.ecc, k)
  <2>1. cur < TotalPages /\ cur <= TotalPages
    BY <1>2, <1>4, <1>10
  <2>2. CASE k = i
    BY <1>2, <2>1, <2>2
  <2>3. CASE k # i
    <3>1. k \in 0..(i - 1) /\ base + k \in 0..(TotalPages - 1) /\ base + k # cur
      BY <1>2, <1>4, <1>10, <2>1, <2>3
    <3>2. At(flash', base + k) = At(flash, base + k)
      BY <2>1, <3>1
    <3> QED
      BY <1>3, <2>1, <3>1, <3>2
  <2> QED
    BY <2>2, <2>3
<1>11. i' <= cur' /\ i' <= rq'.count /\ rq'.count # 0
  BY <1>1, <1>2
<1> QED
  BY <1>1, <1>3, <1>6, <1>7, <1>8, <1>9, <1>10, <1>11 DEF Programming

LEMMA ProgrammingSkipFF ==
  ASSUME IndInv, Programming, ProgramSkipFF
  PROVE  Programming'
<1> SUFFICES ASSUME Fits(rq', notes') PROVE Programming'
  BY DEF Programming
<1>1. /\ ProgramLoop /\ ~BadHere /\ AllFF /\ tmpbuf' = source + datasize /\ i' = i + 1
      /\ cur' = cur + 1 /\ UNCHANGED <<flash, spage, sav, notes, rq>>
  BY DEF ProgramSkipFF, ProgramLoop
<1>2. Fits(rq, notes)
  BY <1>1
<1>3. i \in rq.ff
  BY <1>1, <1>2, BlankPage
<1>4. cur < TotalPages => At(flash, cur) = Erased
  BY <1>1, <1>2, HereErased
<1>5. cur < TotalPages => Holds(At(flash', cur), ops, datasize, rq.ff, sav.ecc, i)
  BY <1>1, <1>3, <1>4 DEF Holds
<1> QED
  BY <1>1, <1>2, <1>5, ProgrammingOn

LEMMA ProgrammingPage ==
  ASSUME IndInv, Programming, PinKept, ProgramPage
  PROVE  Programming'
<1> SUFFICES ASSUME Fits(rq', notes') PROVE Programming'
  BY DEF Programming
<1>1. /\ ProgramLoop /\ ~BadHere /\ ~AllFF /\ tmpbuf' = source + Advance /\ i' = i + 1
      /\ cur' = cur + 1 /\ UNCHANGED <<spage, sav, rq>>
  BY DEF ProgramPage, ProgramLoop
<1>2. Fits(rq, notes)
  <2>1. /\ notes'.fresh = notes.fresh /\ notes'.lost = notes.lost
        /\ notes'.failed = notes.failed
    BY DEF ProgramPage, Note
  <2> QED
    BY <1>1, <2>1 DEF Fits
<1>3. ~Protected
  BY <1>1, <1>2 DEF PinKept, Fits, Protected, ProgramLoop
<1>4. i \notin rq.ff /\ Advance = datasize
  BY <1>1, <1>2, BlankPage, ImageOffsets
<1>5. Bad(flash') = Bad(flash)
  BY ProgramPageBad
<1>6. ASSUME cur < TotalPages
      PROVE  /\ Holds(At(flash', cur), ops, datasize, rq.ff, sav.ecc, i)
             /\ \A p \in 0..(TotalPages - 1) : p # cur =>
                  At(flash', p) = At(flash, p) /\ (Clean(flash, p) => Clean(flash', p))
  <2>1. At(flash, cur) = Erased
    BY <1>1, <1>2, <1>6, HereErased
  <2>2. /\ At(flash', cur) = Written
        /\ \A p \in 0..(TotalPages - 1) : p # cur => At(flash', p) = At(flash, p)
    BY <1>3, <1>6, <2>1, PageWritten
  <2>3. \A p \in 0..(TotalPages - 1) : p # cur /\ Clean(flash, p) => Clean(flash', p)
    BY <1>3, <1>6, <2>1, StillClean
  <2>4. Holds(Written, ops, datasize, rq.ff, sav.ecc, i)
    BY <1>1, <1>2, <1>4, WrittenHolds
  <2> QED
    BY <2>2, <2>3, <2>4
<1>7. tmpbuf' = source + datasize
  BY <1>1, <1>4
<1> QED
  BY <1>1, <1>2, <1>5, <1>6, <1>7, ProgrammingOn

LEMMA ProgrammingFail ==
  ASSUME IndInv, Programming, ProgramFail
  PROVE  Programming'
<1> SUFFICES ASSUME Fits(rq', notes') PROVE Programming'
  BY DEF Programming
<1> DEFINE b == cur \div ppb
           s == rq.start \div ppb
<1>1. /\ ProgramLoop /\ spage' = spage + ppb /\ cur' = spage + ppb /\ tmpbuf' = 0 /\ i' = 0
      /\ sav'.oob = oobsize' /\ UNCHANGED <<rq, datasize, ops, busy>>
  BY DEF ProgramFail, ProgramLoop
<1>2. ~notes'.lost
  BY DEF Fits
<1>3. /\ OnlyIn(flash, flash', b) /\ IsBad(flash', b) /\ ~notes.lost
      /\ \A x \in Nat : IsBad(flash, x) => IsBad(flash', x)
  BY <1>2, FailedBlock
<1>4. Fits(rq, notes)
  <2>1. notes'.fresh = notes.fresh /\ notes'.failed = notes.failed + 1 /\ notes.failed \in Nat
    BY Typed DEF ProgramFail, Note
  <2>2. ~wp_pin
    BY <2>1 DEF Fits
  <2> QED
    BY <1>1, <1>3, <2>1, <2>2 DEF Fits
<1>5. /\ (cur - i) \div ppb = b /\ Placed(flash, rq, cur - i, i) /\ b \in Nat
      /\ cur \in Nat /\ i \in Nat /\ i < rq.count /\ cur - i \in Nat
  BY <1>1, <1>4, InOneBlock, Typed
<1>6. /\ spage % ppb = 0 /\ rq.start <= spage /\ spage <= cur - i
      /\ datasize = pagesize + (IF rq.option = "NO_OOB" THEN 0 ELSE sav.oob)
      /\ \A p \in cur..(TotalPages - 1) : Clean(flash, p)
  BY <1>1, <1>4 DEF Programming, ProgramLoop
<1>7. /\ spage \in Nat /\ ppb \in Nat \ {0} /\ rq.start \in Nat /\ rq.count \in Nat
      /\ TotalPages \in Nat /\ s \in Nat /\ datasize \in Nat
  BY Typed, Numbers, AllPages, PageOfBlock DEF IndInv, TypeOK, LoopTypeOK
<1>8. oobsize' = sav.oob
  BY <1>1, <1>4, ImageOffsets
<1>9. \A x \in s..b : IsBad(flash', x)
  <2>1. \A x \in s..(b - 1) : IsBad(flash, x)
    BY <1>5 DEF Placed
  <2> HIDE DEF s, b
  <2>2. \A x \in s..b : x \in Nat /\ (x = b \/ x \in s..(b - 1))
    BY <1>5, <1>7
  <2> QED
    BY <1>3, <2>1, <2>2
<1>10. spage \div ppb <= b /\ spage \div ppb \in Nat /\ s <= spage \div ppb
  <2>1. spage \div ppb <= (cur - i) \div ppb
    BY <1>5, <1>6, <1>7, DivMono
  <2>2. s <= spage \div ppb
    BY <1>6, <1>7, DivMono
  <2> QED
    BY <1>5, <1>7, <2>1, <2>2, PageOfBlock
<1>11. spage' % ppb = 0 /\ spage' \div ppb = spage \div ppb + 1
  BY <1>1, <1>6, <1>7, NextBlock
<1> HIDE DEF b
<1>12. Placed(flash', rq', cur' - i', i')
  <2>1. cur' - i' = spage' /\ spage' \in Nat /\ rq.start <= spage'
    BY <1>1, <1>6, <1>7
  <2>2. \A x \in s..((spage \div ppb + 1) - 1) : IsBad(flash', x)
    <3> DEFINE t == spage \div ppb
    <3> HIDE DEF s, t
    <3>1. s..((t + 1) - 1) \subseteq s..b
      BY <1>5, <1>7, <1>10 DEF t
    <3> QED
      BY <1>9, <3>1 DEF t
  <2> QED
    BY <1>1, <1>11, <2>1, <2>2 DEF Placed
<1>13. ASSUME NEW p \in cur'..(TotalPages - 1) PROVE Clean(flash', p)
  <2> DEFINE x == p \div ppb
  <2>1. p \in Nat /\ p < TotalPages /\ rq.start <= p /\ spage <= p
    BY <1>1, <1>6, <1>7, <1>13
  <2>2. x \in Nat /\ x \in BlockNumbers /\ s <= x
    BY <1>7, <2>1, PageOfBlock, PageNumber, DivMono
  <2>3. CASE x <= b
    <3> HIDE DEF x, s
    <3>1. x \in s..b
      BY <1>5, <1>7, <2>2, <2>3
    <3> QED
      BY <1>9, <3>1 DEF Clean, x
  <2>4. CASE b < x
    <3>1. cur < p
      <4>1. ASSUME p <= cur PROVE x <= b
        BY <1>5, <1>7, <2>1, <4>1, DivMono DEF b
      <4> HIDE DEF x
      <4> QED
        BY <1>5, <2>1, <2>2, <2>4, <4>1
    <3>2. Clean(flash, p)
      BY <1>5, <1>6, <1>7, <2>1, <3>1
    <3>3. b \in BlockNumbers /\ x # b
      <4> HIDE DEF x
      <4> QED
        BY <1>5, <2>2, <2>4, AllPages DEF BlockNumbers
    <3> QED
      BY <1>3, <2>1, <2>2, <3>2, <3>3, CleanElsewhere
  <2> HIDE DEF x
  <2> QED
    BY <1>5, <2>2, <2>3, <2>4
<1>14. /\ i' <= cur' /\ i' <= rq'.count /\ rq'.count # 0 /\ tmpbuf' = i' * datasize'
       /\ rq'.start <= spage' /\ spage' <= cur' - i' /\ i' = 0
  BY <1>1, <1>5, <1>6, <1>7
<1>15. datasize' = pagesize + IF rq'.option = "NO_OOB" THEN 0 ELSE sav'.oob
  BY <1>1, <1>6, <1>8
<1> QED
  BY <1>1, <1>11, <1>12, <1>13, <1>14, <1>15 DEF Programming

\* Every other step leaves no program request running.
LEMMA ProgramsElsewhere ==
  ASSUME IndInv, Next,
         ~(ProgramStart \/ ProgramSkipBad \/ ProgramSkipFF \/ ProgramPage \/ ProgramFail)
  PROVE  ~Running("program")'
<1>1. CASE ProgramDone \/ EraseDone \/ ReadDone \/ nand_init_4740 \/ nand_mark_bad_4740 \/ AllServed
  <2>1. ~busy'
    BY <1>1 DEF ProgramDone, EraseDone, ReadDone, Finish, nand_init_4740, nand_mark_bad_4740,
                AllServed, vars
  <2> QED
    BY <2>1 DEF Running
<1>2. CASE EraseSkipBad \/ EraseBlock \/ EraseFail \/ ReadSkipBad \/ ReadPage \/ ReadRawPage
           \/ ReadOobPage
  <2>1. rq'.op # "program"
    BY <1>2 DEF EraseSkipBad, EraseBlock, EraseFail, EraseLoop, ReadSkipBad, ReadPage,
                ReadRawPage, ReadOobPage, ReadLoop, Running
  <2> QED
    BY <2>1 DEF Running
<1>3. CASE EraseStart \/ ReadStart
  <2>1. PICK op \in {"erase"} \cup ReadOps : Start(op)
    BY <1>3 DEF EraseStart, ReadStart
  <2>2. rq'.op = op
    BY <2>1, StartFacts
  <2> QED
    BY <2>1, <2>2 DEF Running, ReadOps
<1> QED
  BY <1>1, <1>2, <1>3 DEF Next, Driver, Host, EraseStep, ProgramStep, ReadStep

LEMMA ProgrammingNext ==
  ASSUME IndInv, Programming, PinKept, Next
  PROVE  Programming'
<1>1. CASE ProgramStart \/ ProgramSkipBad \/ ProgramSkipFF \/ ProgramPage \/ ProgramFail
  BY <1>1, ProgrammingStart, ProgrammingSkipBad, ProgrammingSkipFF, ProgrammingPage,
     ProgrammingFail
<1>2. CASE ~(ProgramStart \/ ProgramSkipBad \/ ProgramSkipFF \/ ProgramPage \/ ProgramFail)
  BY <1>2, ProgramsElsewhere DEF Programming
<1> QED
  BY <1>1, <1>2

-----------------------------------------------------------------------------
(* The image.                                                              *)

LEMMA NoImageId == NoImage.id = 0
  BY DEF NoImage

\* A step leaves no image, leaves the image and the flash alone, or makes one.
LEMMA ImageCases ==
  ASSUME IndInv, ImageGone, Next
  PROVE  \/ image'.id = 0
         \/ UNCHANGED <<image, flash>> /\ ecc_pos' \in {ecc_pos, EccPos}
         \/ ProgramDone
<1>1. CASE nand_mark_bad_4740 \/ EraseStart \/ ProgramStart
  BY <1>1, NoImageId DEF nand_mark_bad_4740, EraseStart, ProgramStart
<1>2. CASE nand_init_4740
  BY <1>2 DEF nand_init_4740
<1>3. CASE ReadStart
  BY <1>3 DEF ReadStart, Start
<1>4. CASE ReadStep
  BY <1>4 DEF ReadStep, ReadSkipBad, ReadPage, ReadRawPage, ReadOobPage, ReadDone, ReadLoop,
              cfgVars
<1>5. CASE EraseStep
  <2>1. image' = image /\ Running("erase")
    BY <1>5 DEF EraseStep, EraseSkipBad, EraseBlock, EraseFail, EraseDone, EraseLoop
  <2> QED
    BY <2>1 DEF ImageGone
<1>6. CASE ProgramSkipBad \/ ProgramSkipFF \/ ProgramPage \/ ProgramFail
  <2>1. image' = image /\ Running("program")
    BY <1>6 DEF ProgramSkipBad, ProgramSkipFF, ProgramPage, ProgramFail, ProgramLoop
  <2> QED
    BY <2>1 DEF ImageGone
<1>7. CASE AllServed
  BY <1>7 DEF AllServed, vars, cfgVars
<1> QED
  BY <1>1, <1>2, <1>3, <1>4, <1>5, <1>6, <1>7 DEF Next, Driver, Host, ProgramStep

LEMMA ImageGoneNext ==
  ASSUME IndInv, ImageGone, Next
  PROVE  ImageGone'
<1>1. CASE EraseStart \/ ProgramStart
  BY <1>1, NoImageId DEF EraseStart, ProgramStart, ImageGone
<1>2. CASE ProgramDone \/ EraseDone \/ ReadDone \/ nand_init_4740 \/ nand_mark_bad_4740 \/ AllServed
  <2>1. ~busy'
    BY <1>2 DEF ProgramDone, EraseDone, ReadDone, Finish, nand_init_4740, nand_mark_bad_4740,
                AllServed, vars
  <2> QED
    BY <2>1 DEF ImageGone, Running
<1>3. CASE EraseSkipBad \/ EraseBlock \/ EraseFail
  BY <1>3 DEF EraseSkipBad, EraseBlock, EraseFail, EraseLoop, ImageGone, Running
<1>4. CASE ProgramSkipBad \/ ProgramSkipFF \/ ProgramPage \/ ProgramFail
  BY <1>4 DEF ProgramSkipBad, ProgramSkipFF, ProgramPage, ProgramFail, ProgramLoop, ImageGone,
              Running
<1>5. CASE ReadSkipBad \/ ReadPage \/ ReadRawPage \/ ReadOobPage
  BY <1>5 DEF ReadSkipBad, ReadPage, ReadRawPage, ReadOobPage, ReadLoop, ImageGone, Running
<1>6. CASE ReadStart
  <2>1. PICK op \in ReadOps : Start(op)
    BY <1>6 DEF ReadStart
  <2>2. rq'.op = op
    BY <2>1, StartFacts
  <2> QED
    BY <2>1, <2>2 DEF ImageGone, Running, ReadOps
<1> QED
  BY <1>1, <1>2, <1>3, <1>4, <1>5, <1>6
     DEF Next, Driver, Host, EraseStep, ProgramStep, ReadStep

LEMMA PinKeptNext ==
  ASSUME IndInv, PinKept, Next
  PROVE  PinKept'
<1>1. CASE ProgramStart
  BY <1>1 DEF ProgramStart, PinHigh, PinKept
<1>2. CASE ProgramSkipBad \/ ProgramSkipFF \/ ProgramPage
  <2>1. Running("program") /\ UNCHANGED wp /\ notes'.failed = notes.failed
    BY <1>2 DEF ProgramSkipBad, ProgramSkipFF, ProgramPage, ProgramLoop, Note
  <2> QED
    BY <2>1 DEF PinKept
<1>3. CASE ProgramFail
  <2>1. notes.failed \in Nat /\ notes'.failed = notes.failed + 1
    BY <1>3, Typed DEF ProgramFail, Note
  <2>2. notes'.failed # 0
    BY <2>1
  <2> QED
    BY <2>2 DEF PinKept
<1>4. CASE ProgramDone \/ EraseDone \/ ReadDone \/ nand_init_4740 \/ nand_mark_bad_4740 \/ AllServed
  <2>1. ~busy'
    BY <1>4 DEF ProgramDone, EraseDone, ReadDone, Finish, nand_init_4740, nand_mark_bad_4740,
                AllServed, vars
  <2> QED
    BY <2>1 DEF PinKept, Running
<1>5. CASE EraseSkipBad \/ EraseBlock \/ EraseFail \/ ReadSkipBad \/ ReadPage \/ ReadRawPage
           \/ ReadOobPage
  <2>1. rq'.op # "program"
    BY <1>5 DEF EraseSkipBad, EraseBlock, EraseFail, EraseLoop, ReadSkipBad, ReadPage,
                ReadRawPage, ReadOobPage, ReadLoop, Running
  <2> QED
    BY <2>1 DEF PinKept, Running
<1>6. CASE EraseStart \/ ReadStart
  <2>1. PICK op \in {"erase"} \cup ReadOps : Start(op)
    BY <1>6 DEF EraseStart, ReadStart
  <2>2. rq'.op = op
    BY <2>1, StartFacts
  <2> QED
    BY <2>1, <2>2 DEF PinKept, Running, ReadOps
<1> QED
  BY <1>1, <1>2, <1>3, <1>4, <1>5, <1>6
     DEF Next, Driver, Host, EraseStep, ProgramStep, ReadStep

LEMMA ParityNext ==
  ASSUME IndInv, ImageGone, Parity, Next
  PROVE  Parity'
<1>1. CASE ProgramDone
  BY <1>1 DEF ProgramDone, Parity
<1>2. CASE ~ProgramDone
  BY <1>2, ImageCases DEF Parity
<1> QED
  BY <1>1, <1>2

\* The end of a program request is the beginning of an image.
LEMMA StoredDone ==
  ASSUME IndInv, Programming, ProgramDone
  PROVE  Stored'
<1> SUFFICES ASSUME Kept(image)' PROVE Stored'
  BY DEF Stored
<1>1. /\ Running("program") /\ i >= rq.count /\ flash' = flash
      /\ image' = [rq |-> rq, id |-> ops, datasize |-> datasize, end |-> cur, ecc |-> sav.ecc,
                   notes |-> notes]
  BY DEF ProgramDone
<1>2. /\ image'.rq = rq /\ image'.id = ops /\ image'.datasize = datasize /\ image'.end = cur
      /\ image'.ecc = sav.ecc /\ image'.notes = notes
  BY <1>1
<1>3. Fits(rq, notes) /\ cur <= TotalPages
  BY <1>2 DEF Kept, Fits
<1>4. /\ i <= rq.count /\ Placed(flash, rq, cur - i, i) /\ (rq.count = 0 => cur = rq.start)
      /\ \A k \in 0..(i - 1) : Holds(At(flash, cur - i + k), ops, datasize, rq.ff, sav.ecc, k)
  BY <1>1, <1>3 DEF Programming
<1>5. i = rq.count
  BY <1>1, <1>4, Typed
<1>6. Base' = cur - i
  BY <1>2, <1>5 DEF Base
<1> QED
  BY <1>1, <1>2, <1>4, <1>5, <1>6 DEF Stored

LEMMA StoredNext ==
  ASSUME IndInv, ImageGone, Programming, Stored, Next
  PROVE  Stored'
<1>1. CASE image'.id = 0
  BY <1>1 DEF Stored, Kept
<1>2. CASE UNCHANGED <<image, flash>>
  BY <1>2 DEF Stored, Kept, Base
<1>3. CASE ProgramDone
  BY <1>3, StoredDone
<1> QED
  BY <1>1, <1>2, <1>3, ImageCases

-----------------------------------------------------------------------------
(* Reading the image.                                                      *)

\* The conclusion of Reading, once the image is known to be kept.
ReadSoFar ==
  /\ i <= rq.count /\ hs3 = 0 /\ Len(buf) = i
  /\ i = 0 => cur % ppb = 0 /\ rq.start <= cur /\ cur <= Base
  /\ i > 0 => cur = Base + i
  /\ \A k \in 1..i : buf[k] = At(flash, Base + k - 1)
  /\ ~busy => i = rq.count /\ ret = image.end

LEMMA ReadingIs == (Reading <=> (Reads => ReadSoFar)) /\ (Reading' <=> (Reads' => ReadSoFar'))
  BY DEF Reading, ReadSoFar

\* Where the image is.
LEMMA ImageFacts ==
  ASSUME IndInv, Stored, Reads
  PROVE  /\ Base \in Nat /\ Base % ppb = 0 /\ rq.start <= Base /\ rq.start % ppb = 0
         /\ image.end = Base + rq.count /\ rq.count \in Nat /\ rq.start \in Nat
         /\ rq.count <= ppb /\ Base \div ppb \in Nat /\ rq.start \div ppb \in Nat
         /\ \A b \in (rq.start \div ppb)..(Base \div ppb - 1) : IsBad(flash, b)
         /\ rq.count > 0 => ~IsBad(flash, Base \div ppb)
         /\ rq.count = 0 => image.end = rq.start
         /\ \A k \in 0..(rq.count - 1) :
              Holds(At(flash, Base + k), image.id, image.datasize, image.rq.ff, image.ecc, k)
<1>1. /\ Placed(flash, image.rq, Base, image.rq.count)
      /\ image.rq.count = 0 => image.end = image.rq.start
      /\ \A k \in 0..(image.rq.count - 1) :
           Holds(At(flash, Base + k), image.id, image.datasize, image.rq.ff, image.ecc, k)
  BY DEF Stored, Reads
<1>2. rq.start = image.rq.start /\ rq.count = image.rq.count
  BY DEF Reads
<1>3. rq.start % ppb = 0 /\ rq.count <= ppb
  BY <1>2 DEF Reads, Kept
<1>4. rq.count \in Nat /\ rq.start \in Nat /\ rq.start \div ppb \in Nat
  BY Typed, PageOfBlock
<1>5. Base \in Nat /\ Base \div ppb \in Nat
  BY <1>1, PageOfBlock DEF Placed
<1>6. image.end = Base + rq.count
  <2>1. image.end \in Nat
    BY DEF IndInv, TypeOK, NoteTypeOK
  <2> QED
    BY <1>2, <1>4, <2>1 DEF Base
<1> QED
  BY <1>1, <1>2, <1>3, <1>4, <1>5, <1>6 DEF Placed

\* A page of the image is readable where the driver looks for the parity.
LEMMA HeldReadable ==
  ASSUME NEW page, NEW id, NEW size, NEW ff, NEW k, Holds(page, id, size, ff, ecc_pos, k)
  PROVE  Readable(page)
<1>1. CASE k \in ff
  BY <1>1 DEF Holds, Readable, Erased, Page
<1>2. CASE k \notin ff
  BY <1>2 DEF Holds, Readable
<1> QED
  BY <1>1, <1>2

LEMMA ReadingStart ==
  ASSUME IndInv, Stored, ReadStart, Reads'
  PROVE  ReadSoFar'
<1>1. PICK op \in ReadOps : Start(op)
  BY DEF ReadStart
<1>2. rq'.start \in Nat /\ rq'.count \in Nat /\ rq'.op = "read"
  BY <1>1, StartFacts DEF Reads
<1>3. /\ cur' = rq'.start /\ i' = 0 /\ buf' = <<>> /\ hs3' = 0 /\ busy' = TRUE
      /\ UNCHANGED <<image, flash>>
  BY <1>1, <1>2 DEF ReadStart, Start
<1>4. Kept(image) /\ rq'.start = image.rq.start
  BY <1>3 DEF Reads, Kept
<1>5. image.rq.start % ppb = 0 /\ image.rq.start <= Base
  BY <1>4 DEF Stored, Placed, Kept
<1>6. Base' = Base
  BY <1>3 DEF Base
<1>7. cur' % ppb = 0 /\ cur' <= Base' /\ rq'.start <= cur'
  BY <1>2, <1>3, <1>4, <1>5, <1>6
<1>8. Len(buf') = 0
  BY <1>3
<1> QED
  BY <1>2, <1>3, <1>7, <1>8 DEF ReadSoFar

\* The reads of pages and bad blocks change neither the image nor the settings.
LEMMA ReadSame ==
  ASSUME ReadSkipBad \/ ReadPage \/ ReadDone, Reads'
  PROVE  /\ Reads /\ busy /\ UNCHANGED <<rq, image, flash, ecc_pos>> /\ Base' = Base
<1>1. busy /\ UNCHANGED <<rq, image, flash, ecc_pos>>
  BY DEF ReadSkipBad, ReadPage, ReadDone, ReadLoop, Running, Finish, cfgVars
<1> QED
  BY <1>1 DEF Reads, Kept, Base

LEMMA ReadingSkipBad ==
  ASSUME IndInv, Stored, Reading, ReadSkipBad, Reads'
  PROVE  ReadSoFar'
<1>1. Reads /\ busy /\ UNCHANGED <<rq, image, flash>> /\ Base' = Base
  BY ReadSame
<1>2. ReadSoFar
  BY <1>1, ReadingIs
<1>3. BadHere /\ cur' = cur + ppb /\ UNCHANGED <<hs3, i, buf, busy>> /\ i < rq.count
  BY DEF ReadSkipBad, ReadLoop
<1>4. cur \in Nat /\ i \in Nat /\ ppb \in Nat \ {0}
  BY Typed, Numbers
<1>5. /\ Base \in Nat /\ Base % ppb = 0 /\ rq.start <= Base /\ rq.count \in Nat
      /\ rq.start \in Nat /\ rq.count <= ppb /\ Base \div ppb \in Nat
      /\ rq.count > 0 => ~IsBad(flash, Base \div ppb)
  BY <1>1, ImageFacts
<1>6. i = 0
  <2>1. ASSUME i > 0 PROVE FALSE
    <3>1. cur = Base + i /\ i \in 0..(ppb - 1)
      BY <1>2, <1>3, <1>4, <1>5, <2>1 DEF ReadSoFar
    <3>2. cur % ppb = i
      BY <1>5, <3>1, PagesFrom
    <3> QED
      BY <1>3, <2>1, <3>2 DEF BadHere
  <2> QED
    BY <1>4, <2>1
<1>7. cur % ppb = 0 /\ rq.start <= cur /\ cur <= Base
  BY <1>2, <1>6 DEF ReadSoFar
<1>8. cur + ppb <= Base
  <2>1. cur # Base
    BY <1>3, <1>5, <1>6 DEF BadHere
  <2>2. cur \in 0..(Base - 1)
    BY <1>4, <1>5, <1>7, <2>1
  <2> DEFINE b == cur \div ppb
             t == Base \div ppb
  <2>3. b < t /\ b \in Nat /\ t \in Nat /\ cur = b * ppb /\ Base = t * ppb
    BY <1>4, <1>5, <1>7, <2>2, NextBlock, PageOfBlock
  <2> HIDE DEF b, t
  <2>4. (b + 1) * ppb <= t * ppb /\ (b + 1) * ppb = b * ppb + ppb
    BY <1>4, <2>3, MulMono
  <2> QED
    BY <2>3, <2>4
<1>9. cur' % ppb = 0 /\ rq'.start <= cur' /\ cur' <= Base'
  <2>1. (cur + ppb) % ppb = cur % ppb
    BY <1>4, NextBlockSamePage
  <2>2. cur' % ppb = 0
    BY <1>3, <1>7, <2>1
  <2>3. rq.start <= cur + ppb /\ cur + ppb <= Base
    BY <1>4, <1>5, <1>7, <1>8
  <2>4. rq'.start <= cur' /\ cur' <= Base'
    BY <1>1, <1>3, <2>3
  <2> QED
    BY <2>2, <2>4
<1>10. i' = 0 /\ i' <= rq'.count /\ hs3' = 0 /\ Len(buf') = i' /\ busy'
  BY <1>1, <1>2, <1>3, <1>6 DEF ReadSoFar
<1> QED
  BY <1>9, <1>10 DEF ReadSoFar

LEMMA ReadingPage ==
  ASSUME IndInv, Stored, Reading, ReadPage, Reads'
  PROVE  ReadSoFar'
<1>1. Reads /\ busy /\ UNCHANGED <<rq, image, flash>> /\ Base' = Base
  BY ReadSame
<1>2. ReadSoFar
  BY <1>1, ReadingIs
<1> DEFINE page == At(flash, cur)
<1>3. /\ ~BadHere /\ cur' = cur + 1 /\ i' = i + 1 /\ busy' = busy /\ i < rq.count
      /\ buf' = Append(buf, page)
  BY DEF ReadPage, ReadLoop, TakePage, At
<1>4. cur \in Nat /\ i \in Nat /\ ppb \in Nat \ {0} /\ buf \in Seq(PageSet)
  BY Typed, Numbers DEF IndInv, TypeOK, DriverTypeOK
<1>5. /\ Base \in Nat /\ Base % ppb = 0 /\ rq.start <= Base /\ rq.count \in Nat
      /\ rq.start \in Nat /\ Base \div ppb \in Nat /\ rq.start \div ppb \in Nat
      /\ \A b \in (rq.start \div ppb)..(Base \div ppb - 1) : IsBad(flash, b)
      /\ \A k \in 0..(rq.count - 1) :
           Holds(At(flash, Base + k), image.id, image.datasize, image.rq.ff, image.ecc, k)
  BY <1>1, ImageFacts
<1>6. cur = Base + i
  <2>1. CASE i > 0
    BY <1>2, <2>1 DEF ReadSoFar
  <2>2. CASE i = 0
    <3>1. cur % ppb = 0 /\ rq.start <= cur /\ cur <= Base
      BY <1>2, <2>2 DEF ReadSoFar
    <3>2. ~IsBad(flash, cur \div ppb)
      BY <1>3, <3>1 DEF BadHere
    <3>3. ASSUME cur < Base PROVE FALSE
      <4> DEFINE b == cur \div ppb
                 t == Base \div ppb
                 s == rq.start \div ppb
      <4>0. cur \in 0..(Base - 1)
        BY <1>4, <1>5, <3>3
      <4>1. b < t /\ b \in Nat
        BY <1>4, <1>5, <4>0, NextBlock, PageOfBlock
      <4>2. s <= b
        BY <1>4, <1>5, <3>1, DivMono
      <4> HIDE DEF b, t, s
      <4>3. b \in s..(t - 1)
        BY <1>5, <4>1, <4>2 DEF s, t
      <4> QED
        BY <1>5, <3>2, <4>3 DEF b, s, t
    <3> QED
      BY <1>4, <1>5, <2>2, <3>1, <3>3
  <2> QED
    BY <1>4, <2>1, <2>2
<1>7. Holds(page, image.id, image.datasize, image.rq.ff, ecc_pos, i)
  <2>1. i \in 0..(rq.count - 1) /\ image.ecc = ecc_pos
    BY <1>1, <1>3, <1>4, <1>5 DEF Reads
  <2> QED
    BY <1>5, <1>6, <2>1
<1>8. Readable(page)
  BY <1>7, HeldReadable
<1> HIDE DEF page
<1>9. hs3' = 0
  <2>1. hs3 = 0
    BY <1>2 DEF ReadSoFar
  <2> QED
    BY <1>8, <2>1 DEF ReadPage, page, At
<1>10. Len(buf') = i' /\ \A k \in 1..i' : buf'[k] = IF k = i' THEN page ELSE buf[k]
  <2>1. Len(buf) = i
    BY <1>2 DEF ReadSoFar
  <2> QED
    BY <1>3, <1>4, <2>1
<1>11. ASSUME NEW k \in 1..i' PROVE buf'[k] = At(flash', Base' + k - 1)
  <2>1. CASE k = i'
    <3>1. Base' + k - 1 = cur
      BY <1>1, <1>3, <1>4, <1>5, <1>6, <2>1
    <3> QED
      BY <1>1, <1>10, <2>1, <3>1 DEF page
  <2>2. CASE k # i'
    <3>1. k \in 1..i
      BY <1>3, <1>4, <1>11, <2>2
    <3>2. buf[k] = At(flash, Base + k - 1)
      BY <1>2, <3>1 DEF ReadSoFar
    <3> QED
      BY <1>1, <1>10, <2>2, <3>2
  <2> QED
    BY <2>1, <2>2
<1>12. i' <= rq'.count /\ i' > 0 /\ cur' = Base' + i' /\ busy'
  BY <1>1, <1>3, <1>4, <1>5, <1>6
<1> QED
  BY <1>9, <1>10, <1>11, <1>12 DEF ReadSoFar

LEMMA ReadingDone ==
  ASSUME IndInv, Stored, Reading, ReadDone, Reads'
  PROVE  ReadSoFar'
<1>1. Reads /\ busy /\ UNCHANGED <<rq, image, flash>> /\ Base' = Base
  BY ReadSame
<1>2. ReadSoFar
  BY <1>1, ReadingIs
<1>3. i >= rq.count /\ ret' = cur /\ UNCHANGED <<hs3, cur, i, buf>>
  BY DEF ReadDone, Finish
<1>4. /\ Base \in Nat /\ image.end = Base + rq.count /\ rq.count \in Nat /\ rq.start \in Nat
      /\ rq.count = 0 => image.end = rq.start
  BY <1>1, ImageFacts
<1>5. i \in Nat /\ cur \in Nat /\ i <= rq.count
  BY <1>2, Typed DEF ReadSoFar
<1>6. i = rq.count
  BY <1>3, <1>4, <1>5
<1>7. cur = image.end
  <2>1. CASE i > 0
    BY <1>2, <1>4, <1>6, <2>1 DEF ReadSoFar
  <2>2. CASE i = 0
    <3>1. rq.start <= cur /\ cur <= Base
      BY <1>2, <2>2 DEF ReadSoFar
    <3> QED
      BY <1>4, <1>5, <1>6, <2>2, <3>1
  <2> QED
    BY <1>5, <2>1, <2>2
<1> QED
  BY <1>1, <1>2, <1>3, <1>6, <1>7 DEF ReadSoFar

\* What else leaves a read request in place.
LEMMA ReadElsewhere ==
  ASSUME IndInv, Next, ~ReadStart, ~ReadSkipBad, ~ReadPage, ~ReadDone
  PROVE  \/ rq'.op # "read"
         \/ /\ UNCHANGED <<rq, image, flash, busy, hs3, cur, i, buf, ret>>
            /\ ecc_pos' \in {ecc_pos, EccPos}
<1>1. CASE nand_init_4740
  BY <1>1 DEF nand_init_4740
<1>2. CASE nand_mark_bad_4740
  BY <1>2, MarkBad4740Bad
<1>3. CASE EraseStart \/ ProgramStart
  <2>1. PICK op \in {"erase", "program"} : Start(op)
    BY <1>3 DEF EraseStart, ProgramStart
  <2>2. rq'.op = op
    BY <2>1, StartFacts
  <2> QED
    BY <2>1, <2>2
<1>4. CASE EraseStep
  BY <1>4 DEF EraseStep, EraseSkipBad, EraseBlock, EraseFail, EraseDone, EraseLoop, Finish,
              Running
<1>5. CASE ProgramStep
  BY <1>5 DEF ProgramStep, ProgramSkipBad, ProgramSkipFF, ProgramPage, ProgramFail, ProgramDone,
              ProgramLoop, Finish, Running
<1>6. CASE ReadRawPage \/ ReadOobPage
  BY <1>6 DEF ReadRawPage, ReadOobPage, ReadLoop, Running
<1>7. CASE AllServed
  BY <1>7 DEF AllServed, vars, cfgVars
<1> QED
  BY <1>1, <1>2, <1>3, <1>4, <1>5, <1>6, <1>7 DEF Next, Driver, Host, ReadStep

LEMMA ReadingNext ==
  ASSUME IndInv, Stored, Parity, Reading, Next
  PROVE  Reading'
<1> SUFFICES ASSUME Reads' PROVE ReadSoFar'
  BY ReadingIs
<1>1. CASE ReadStart \/ ReadSkipBad \/ ReadPage \/ ReadDone
  BY <1>1, ReadingStart, ReadingSkipBad, ReadingPage, ReadingDone
<1>2. CASE ~(ReadStart \/ ReadSkipBad \/ ReadPage \/ ReadDone)
  <2>1. /\ UNCHANGED <<rq, image, flash, busy, hs3, cur, i, buf, ret>>
        /\ ecc_pos' \in {ecc_pos, EccPos}
    BY <1>2, ReadElsewhere DEF Reads
  <2>2. image.id # 0 /\ image.ecc = ecc_pos'
    BY <2>1 DEF Reads, Kept
  <2>3. ecc_pos' = ecc_pos
    BY <2>1, <2>2 DEF Parity
  <2>4. Reads /\ Base' = Base
    BY <2>1, <2>3 DEF Reads, Kept, Base
  <2>5. ReadSoFar
    BY <2>4, ReadingIs
  <2> QED
    BY <2>1, <2>4, <2>5 DEF ReadSoFar
<1> QED
  BY <1>1, <1>2

-----------------------------------------------------------------------------
(* The loader.                                                             *)

\* A request with the loader is in progress, and what Loading says of it.
LoaderRuns == Running("program") /\ Loads(rq, notes) /\ ~IsBad(flash, 0)
LoadedSoFar ==
  /\ i <= cur /\ (cur <= ppb => cur = i) /\ (ppb <= cur => ppb <= i) /\ datasize = pagesize
  /\ cur <= ppb => tmpbuf = IF i = SPL_PAGES THEN i * 2048 ELSE LoaderOff(i)
  /\ \A p \in cur..(TotalPages - 1) : Clean(flash, p)
  /\ cur <= TotalPages =>
       \A p \in 0..(ppb - 1) :
         p < i => At(flash, p).id = ops /\ At(flash, p).off = LoaderOff(p)

LEMMA LoadingIs ==
  (Loading <=> (LoaderRuns => LoadedSoFar)) /\ (Loading' <=> (LoaderRuns' => LoadedSoFar'))
  BY DEF Loading, LoaderRuns, LoadedSoFar

LEMMA LoadingStart ==
  ASSUME IndInv, ProgramStart, LoaderRuns'
  PROVE  LoadedSoFar'
<1>1. rq'.start = 0 /\ rq'.option = "NO_OOB" /\ notes'.fresh
  BY DEF LoaderRuns, Loads
<1>2. /\ cur' = 0 /\ i' = 0 /\ tmpbuf' = 0 /\ flash' = flash /\ datasize' = pagesize
      /\ FreshFrom(0)
  BY <1>1, Geometry DEF ProgramStart, Start, Note
<1>3. \A p \in cur'..(TotalPages - 1) : Clean(flash', p)
  BY <1>2 DEF FreshFrom, Clean
<1>4. tmpbuf' = IF i' = SPL_PAGES THEN i' * 2048 ELSE LoaderOff(i')
  BY <1>2 DEF SPL_PAGES, LoaderOff
<1> QED
  BY <1>2, <1>3, <1>4, Numbers DEF LoadedSoFar

\* Block 0 is good, so the bad blocks come after it.
LEMMA LoadingSkipBad ==
  ASSUME IndInv, Loading, ProgramSkipBad, LoaderRuns'
  PROVE  LoadedSoFar'
<1>1. /\ BadHere /\ cur' = cur + ppb /\ Running("program")
      /\ UNCHANGED <<flash, i, notes, rq, datasize, ops, busy>>
  BY DEF ProgramSkipBad, ProgramLoop
<1>2. LoaderRuns /\ LoadedSoFar
  BY <1>1, LoadingIs DEF LoaderRuns
<1>3. cur \in Nat /\ i \in Nat /\ ppb \in Nat \ {0} /\ TotalPages \in Nat
  BY Typed, Numbers, AllPages
<1>4. ppb <= cur
  <2>1. ASSUME cur < ppb PROVE FALSE
    <3>1. 0 \in Nat /\ 0 % ppb = 0 /\ 0 \div ppb = 0 /\ cur \in 0..(ppb - 1) /\ 0 + cur = cur
      BY <1>3, <2>1
    <3>2. cur \div ppb = 0
      BY <3>1, PagesFrom
    <3> QED
      BY <1>1, <1>2, <3>2 DEF BadHere, LoaderRuns
  <2> QED
    BY <1>3, <2>1
<1>5. i <= cur /\ ppb <= i /\ datasize = pagesize
  BY <1>2, <1>4 DEF LoadedSoFar
<1>6. /\ i' <= cur' /\ ~(cur' <= ppb) /\ ppb <= i' /\ datasize' = pagesize
  BY <1>1, <1>3, <1>4, <1>5
<1>7. \A p \in cur'..(TotalPages - 1) : Clean(flash', p)
  <2>1. \A p \in cur..(TotalPages - 1) : Clean(flash, p)
    BY <1>2 DEF LoadedSoFar
  <2> QED
    BY <1>1, <1>3, <2>1
<1>8. ASSUME cur' <= TotalPages, NEW p \in 0..(ppb - 1), p < i'
      PROVE  At(flash', p).id = ops' /\ At(flash', p).off = LoaderOff(p)
  <2>1. cur <= TotalPages /\ p < i
    BY <1>1, <1>3, <1>8
  <2> QED
    BY <1>1, <1>2, <2>1 DEF LoadedSoFar
<1> QED
  BY <1>6, <1>7, <1>8 DEF LoadedSoFar

\* No page is blank.
LEMMA LoadingSkipFF ==
  ASSUME IndInv, Loading, ProgramSkipFF, LoaderRuns'
  PROVE  FALSE
<1>1. ProgramLoop /\ AllFF /\ UNCHANGED <<flash, notes, rq, busy>> /\ Running("program")
  BY DEF ProgramSkipFF, ProgramLoop
<1>2. LoaderRuns /\ LoadedSoFar
  BY <1>1, LoadingIs DEF LoaderRuns
<1>3. rq.ff = {} /\ source \in Nat /\ datasize = pagesize /\ pagesize \in Nat \ {0}
  BY <1>1, <1>2, ProgramLoopFacts, Geometry DEF LoaderRuns, Loads, LoadedSoFar
<1> DEFINE x == source \div datasize
           y == (source + datasize - 1) \div datasize
<1>4. x <= y /\ x \in Nat /\ y \in Nat
  <2>1. source + datasize - 1 \in Nat /\ source <= source + datasize - 1
    BY <1>3
  <2> QED
    BY <1>3, <2>1, DivMono, DivModType
<1>5. \A k \in x..y : k \in rq.ff
  BY <1>1 DEF AllFF
<1> HIDE DEF x, y
<1>6. x \in x..y
  BY <1>4
<1> QED
  BY <1>3, <1>5, <1>6

\* A page of the loader's block takes its bytes from where they belong.
LEMMA LoaderSource ==
  ASSUME IndInv, ProgramLoop, LoaderRuns, LoadedSoFar, cur < ppb
  PROVE  /\ source = LoaderOff(cur) /\ cur = i
         /\ source + Advance = IF cur + 1 = SPL_PAGES THEN (cur + 1) * 2048
                               ELSE LoaderOff(cur + 1)
<1>1. /\ cur = i /\ tmpbuf = IF cur = SPL_PAGES THEN cur * 2048 ELSE LoaderOff(cur)
      /\ cur \in Nat /\ ppb \in Nat /\ pagesize \in {2048, 4096}
      /\ rq.option = "NO_OOB"
  BY Typed, Numbers, GeometryAssumption DEF LoadedSoFar, LoaderRuns, Loads
<1>2. Advance = IF cur < SPL_PAGES THEN 2048 ELSE pagesize
  BY <1>1 DEF Advance, ecccnt
<1>3. source = LoaderOff(cur)
  BY <1>1 DEF source, LoaderOff, SPL_PAGES
<1>4. LoaderOff(cur) = cur * IF cur < 8 THEN 2048 ELSE pagesize
  BY DEF LoaderOff, SPL_PAGES
<1>5. LoaderOff(cur + 1) = (cur + 1) * IF cur + 1 < 8 THEN 2048 ELSE pagesize
  BY DEF LoaderOff, SPL_PAGES
<1>6. source + Advance = IF cur + 1 = SPL_PAGES THEN (cur + 1) * 2048
                         ELSE LoaderOff(cur + 1)
  <2>1. CASE cur < 7
    BY <1>1, <1>2, <1>3, <1>4, <1>5, <2>1 DEF SPL_PAGES
  <2>2. CASE cur = 7
    BY <1>1, <1>2, <1>3, <1>4, <1>5, <2>2 DEF SPL_PAGES
  <2>3. CASE cur > 7
    <3>1. source = cur * pagesize /\ Advance = pagesize /\ LoaderOff(cur + 1) = (cur + 1) * pagesize
      BY <1>1, <1>2, <1>3, <1>4, <1>5, <2>3 DEF SPL_PAGES
    <3>2. cur * pagesize + pagesize = (cur + 1) * pagesize
      BY <1>1
    <3> QED
      BY <1>1, <2>3, <3>1, <3>2 DEF SPL_PAGES
  <2> QED
    BY <1>1, <2>1, <2>2, <2>3
<1> QED
  BY <1>1, <1>3, <1>6

LEMMA LoadingPage ==
  ASSUME IndInv, PinKept, Loading, ProgramPage, LoaderRuns'
  PROVE  LoadedSoFar'
<1>1. /\ ProgramLoop /\ ~BadHere /\ tmpbuf' = source + Advance /\ i' = i + 1 /\ cur' = cur + 1
      /\ UNCHANGED <<rq, datasize, ops, busy>> /\ Running("program")
  BY DEF ProgramPage, ProgramLoop
<1>2. notes'.fresh = notes.fresh /\ notes'.failed = notes.failed
  BY DEF ProgramPage, Note
<1>3. Bad(flash') = Bad(flash)
  BY ProgramPageBad
<1>4. LoaderRuns /\ LoadedSoFar
  <2>1. ~IsBad(flash, 0)
    BY <1>3, SameBad DEF LoaderRuns
  <2> QED
    BY <1>1, <1>2, <2>1, LoadingIs DEF LoaderRuns, Loads
<1>5. cur \in Nat /\ i \in Nat /\ ppb \in Nat \ {0} /\ TotalPages \in Nat
  BY Typed, Numbers, AllPages
<1>6. ~Protected
  BY <1>1, <1>4 DEF PinKept, Protected, LoaderRuns, Loads
<1>7. ~IsBad(flash, cur \div ppb)
  <2>1. rq.start % ppb = 0
    BY <1>4, <1>5 DEF LoaderRuns, Loads
  <2> QED
    BY <1>1, <2>1 DEF IndInv, AlignedInv, BadHere, Running
<1>8. ASSUME cur < TotalPages
      PROVE  /\ At(flash, cur) = Erased /\ At(flash', cur) = Written
             /\ \A p \in 0..(TotalPages - 1) : p # cur =>
                  At(flash', p) = At(flash, p) /\ (Clean(flash, p) => Clean(flash', p))
  <2>1. cur \in cur..(TotalPages - 1)
    BY <1>5, <1>8
  <2>2. At(flash, cur) = Erased
    BY <1>4, <1>7, <2>1 DEF LoadedSoFar, Clean, At
  <2> QED
    BY <1>6, <1>8, <2>2, PageWritten, StillClean
<1>9. Written.id = ops /\ Written.off = source
  BY DEF Written, Page
<1>10. /\ i' <= cur' /\ (cur' <= ppb => cur' = i') /\ (ppb <= cur' => ppb <= i')
       /\ datasize' = pagesize
  <2>1. /\ i <= cur /\ (cur <= ppb => cur = i) /\ (ppb <= cur => ppb <= i)
        /\ datasize = pagesize
    BY <1>4 DEF LoadedSoFar
  <2> QED
    BY <1>1, <1>5, <2>1
<1>11. ASSUME cur' <= ppb
       PROVE  tmpbuf' = IF i' = SPL_PAGES THEN i' * 2048 ELSE LoaderOff(i')
  <2>1. cur < ppb
    BY <1>1, <1>5, <1>11
  <2>2. /\ cur = i
        /\ source + Advance = IF cur + 1 = SPL_PAGES THEN (cur + 1) * 2048 ELSE LoaderOff(cur + 1)
    BY <1>1, <1>4, <2>1, LoaderSource
  <2> QED
    BY <1>1, <2>2
<1>12. ASSUME NEW p \in cur'..(TotalPages - 1) PROVE Clean(flash', p)
  <2>1. cur < TotalPages /\ p \in cur..(TotalPages - 1) /\ p \in 0..(TotalPages - 1) /\ p # cur
    BY <1>1, <1>5, <1>12
  <2>2. Clean(flash, p)
    BY <1>4, <2>1 DEF LoadedSoFar
  <2> QED
    BY <1>8, <2>1, <2>2
<1>13. ASSUME cur' <= TotalPages, NEW p \in 0..(ppb - 1), p < i'
       PROVE  At(flash', p).id = ops' /\ At(flash', p).off = LoaderOff(p)
  <2>1. cur < TotalPages /\ cur <= TotalPages
    BY <1>1, <1>5, <1>13
  <2>2. CASE p = cur
    <3>1. source = LoaderOff(cur)
      BY <1>1, <1>4, <1>5, <2>2, LoaderSource
    <3> QED
      BY <1>1, <1>8, <1>9, <2>1, <2>2, <3>1
  <2>3. CASE p # cur
    <3>1. p < i
      BY <1>1, <1>4, <1>5, <1>13, <2>3 DEF LoadedSoFar
    <3>2. p \in 0..(TotalPages - 1)
      <4>1. i <= cur
        BY <1>4 DEF LoadedSoFar
      <4> QED
        BY <1>5, <2>1, <3>1, <4>1
    <3>3. At(flash, p).id = ops /\ At(flash, p).off = LoaderOff(p)
      BY <1>4, <2>1, <3>1 DEF LoadedSoFar
    <3> QED
      BY <1>1, <1>8, <2>1, <2>3, <3>2, <3>3
  <2> QED
    BY <2>2, <2>3
<1> QED
  BY <1>10, <1>11, <1>12, <1>13 DEF LoadedSoFar

LEMMA LoadingNext ==
  ASSUME IndInv, PinKept, Loading, Next
  PROVE  Loading'
<1> SUFFICES ASSUME LoaderRuns' PROVE LoadedSoFar'
  BY LoadingIs
<1>1. CASE ProgramStart \/ ProgramSkipBad \/ ProgramSkipFF \/ ProgramPage
  BY <1>1, LoadingStart, LoadingSkipBad, LoadingSkipFF, LoadingPage
<1>2. CASE ProgramFail
  <2>1. notes.failed \in Nat /\ notes'.failed = notes.failed + 1
    BY <1>2, Typed DEF ProgramFail, Note
  <2> QED
    BY <2>1 DEF LoaderRuns, Loads
<1>3. CASE ~(ProgramStart \/ ProgramSkipBad \/ ProgramSkipFF \/ ProgramPage \/ ProgramFail)
  <2>1. ~Running("program")'
    BY <1>3, ProgramsElsewhere
  <2> QED
    BY <2>1 DEF LoaderRuns
<1> QED
  BY <1>1, <1>2, <1>3

LEMMA LoaderLayoutDone ==
  ASSUME IndInv, Loading, ProgramDone
  PROVE  LoaderLayout'
<1>1. /\ Running("program") /\ i >= rq.count /\ UNCHANGED flash
      /\ image' = [rq |-> rq, id |-> ops, datasize |-> datasize, end |-> cur, ecc |-> sav.ecc,
                   notes |-> notes]
  BY DEF ProgramDone
<1>2. /\ image'.rq = rq /\ image'.id = ops /\ image'.end = cur /\ image'.notes = notes
  BY <1>1
<1> SUFFICES ASSUME Loads(rq, notes), ~IsBad(flash, 0), cur <= TotalPages,
                    NEW p \in 0..(ppb - 1), p < rq.count
             PROVE  /\ flash[Cell(0, p)].id = ops
                    /\ flash[Cell(0, p)].off = p * IF p < SPL_PAGES THEN 2048 ELSE pagesize
  BY <1>1, <1>2 DEF LoaderLayout, Loads
<1>3. LoadedSoFar
  BY <1>1, LoadingIs DEF LoaderRuns
<1>4. p < i
  BY <1>1, Typed, Numbers
<1>5. At(flash, p).id = ops /\ At(flash, p).off = LoaderOff(p)
  BY <1>3, <1>4 DEF LoadedSoFar
<1>6. At(flash, p) = flash[Cell(0, p)]
  <2>1. 0 \in Nat /\ 0 % ppb = 0 /\ 0 \div ppb = 0 /\ 0 + p = p
    BY Numbers
  <2>2. p \div ppb = 0
    BY <2>1, PagesFrom
  <2>3. Chip(0) = 0
    BY Numbers DEF Chip
  <2> QED
    BY <2>2, <2>3 DEF At
<1> QED
  BY <1>5, <1>6 DEF LoaderOff

LEMMA LoaderLayoutNext ==
  ASSUME IndInv, ImageGone, Loading, LoaderLayout, Next
  PROVE  LoaderLayout'
<1>1. CASE image'.id = 0
  BY <1>1 DEF LoaderLayout
<1>2. CASE UNCHANGED <<image, flash>>
  BY <1>2 DEF LoaderLayout
<1>3. CASE ProgramDone
  BY <1>3, LoaderLayoutDone
<1> QED
  BY <1>1, <1>2, <1>3, ImageCases

-----------------------------------------------------------------------------
(* The theorems.                                                           *)

LEMMA ImageInit == Init => ImageInv
<1> SUFFICES ASSUME Init PROVE ImageInv
  OBVIOUS
<1>1. ~busy /\ rq.op = "none" /\ image.id = 0
  BY NoImageId, NoneType DEF Init
<1>2. ImageGone /\ PinKept /\ Programming /\ Loading
  BY <1>1 DEF ImageGone, PinKept, Programming, Loading, Running
<1>3. Stored /\ Parity /\ LoaderLayout /\ Reading
  BY <1>1 DEF Stored, Parity, LoaderLayout, Reading, Reads, Kept
<1> QED
  BY <1>2, <1>3 DEF ImageInv

LEMMA ImageStutter ==
  ASSUME ImageInv, UNCHANGED vars
  PROVE  ImageInv'
<1>1. /\ UNCHANGED <<flash, wp, oobsize, ecc_pos, hs3, busy, rq, cur, i, spage, tmpbuf>>
      /\ UNCHANGED <<datasize, sav, buf, ret, ops, image, notes>>
  BY DEF vars, cfgVars, progVars, countVars
<1>2. ImageGone' /\ PinKept' /\ Programming'
  BY <1>1 DEF ImageInv, ImageGone, PinKept, Programming, Running
<1>3. Stored' /\ Parity' /\ Reading'
  BY <1>1 DEF ImageInv, Stored, Parity, Reading, Reads, Kept, Base
<1>4. Loading' /\ LoaderLayout'
  BY <1>1 DEF ImageInv, Loading, LoaderLayout, Running
<1> QED
  BY <1>2, <1>3, <1>4 DEF ImageInv

LEMMA ImageNext ==
  ASSUME IndInv, ImageInv, [Next]_vars
  PROVE  ImageInv'
<1>1. CASE UNCHANGED vars
  BY <1>1, ImageStutter
<1>2. CASE Next
  <2>1. /\ ImageGone /\ PinKept /\ Programming /\ Stored /\ Parity /\ Reading /\ Loading
        /\ LoaderLayout
    BY DEF ImageInv
  <2> QED
    BY <1>2, <2>1, ImageGoneNext, PinKeptNext, ProgrammingNext, StoredNext, ParityNext,
       ReadingNext, LoadingNext, LoaderLayoutNext DEF ImageInv
<1> QED
  BY <1>1, <1>2

\* A program request that fits in a block keeps its pages in one good block, in
\* order, over every bad block and restart, and a read of it goes there.
THEOREM ImageInvariance == Spec => [](IndInv /\ ImageInv)
<1>1. IndInv /\ ImageInv /\ [Next]_vars => IndInv' /\ ImageInv'
  BY ImageNext, NextInv
<1> QED
  BY <1>1, InitInv, ImageInit, PTL DEF Spec

LEMMA ReadBackHolds ==
  ASSUME IndInv, ImageInv
  PROVE  ReadBack
<1> SUFFICES ASSUME ~busy, Reads
             PROVE  /\ \A k \in 1..rq.count :
                         /\ buf[k].kind = IF k - 1 \in image.rq.ff THEN "erased" ELSE "data"
                         /\ buf[k] # Erased =>
                              buf[k].id = image.id /\ buf[k].off = (k - 1) * image.datasize
                    /\ hs3 = 0 /\ ret = image.end
  BY DEF ReadBack, Reads
<1>1. ReadSoFar /\ Stored
  BY ReadingIs DEF ImageInv
<1>2. i = rq.count /\ hs3 = 0 /\ ret = image.end
  BY <1>1 DEF ReadSoFar
<1>3. ASSUME NEW k \in 1..rq.count
      PROVE  /\ buf[k].kind = IF k - 1 \in image.rq.ff THEN "erased" ELSE "data"
             /\ buf[k] # Erased =>
                  buf[k].id = image.id /\ buf[k].off = (k - 1) * image.datasize
  <2>1. rq.count \in Nat /\ Base \in Nat
    BY <1>1, ImageFacts
  <2>2. k - 1 \in 0..(rq.count - 1) /\ Base + (k - 1) = Base + k - 1
    BY <2>1
  <2>3. buf[k] = At(flash, Base + k - 1)
    BY <1>1, <1>2 DEF ReadSoFar
  <2>4. Holds(At(flash, Base + (k - 1)), image.id, image.datasize, image.rq.ff, image.ecc, k - 1)
    BY <1>1, <2>2, ImageFacts
  <2>5. Holds(buf[k], image.id, image.datasize, image.rq.ff, image.ecc, k - 1)
    BY <2>2, <2>3, <2>4
  <2> QED
    BY <2>5 DEF Holds, Erased, Page
<1> QED
  BY <1>2, <1>3

\* What was programmed is what is read: a read of the pages of the last program
\* request returns its image in order, with no error status, and ends at the
\* same page (ReadBack).
THEOREM ReadsBack == Spec => []ReadBack
<1>1. IndInv /\ ImageInv => ReadBack
  BY ReadBackHolds
<1> QED
  BY <1>1, ImageInvariance, PTL

\* An image programmed from page 0 on has the loader, 2048 bytes to the page,
\* in the first eight pages, and the rest of the block where it belongs
\* (LoaderLayout), with pages of 2048 and of 4096 bytes.
THEOREM LoaderInPlace == Spec => []LoaderLayout
<1>1. ImageInv => LoaderLayout
  BY DEF ImageInv
<1> QED
  BY <1>1, ImageInvariance, PTL

\* With one chip or four, erase, program and read agree on the chip a block is
\* on (ChipsAgree).
THEOREM ChipsCorrect == Spec => []ChipsAgree
<1>1. ReadBack /\ EraseCoversRequest => ChipsAgree
  BY DEF ChipsAgree
<1> QED
  BY <1>1, ReadsBack, EraseIsComplete, PTL
=============================================================================
