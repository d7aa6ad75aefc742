-------------------------- MODULE NandFileProofs ---------------------------
(***************************************************************************)
(* What usbboot's nprog has compared stays readable, and a file all of     *)
(* whose chunks were found right reads back as a whole: for every file,    *)
(* geometry and number of chips, any bad blocks, failing commands, lost    *)
(* markers and lost transfers.                                             *)
(***************************************************************************)
EXTENDS NandFile, Nand4740Proofs

\* Page p of the device.
In(f, p) == f[Cell(Chip(p \div ppb), p)]

\* The last command is an nprog from the first page of a block, and nothing went wrong
\* that the properties exclude.
Blockwise == job.what = "nprog" /\ job.start % ppb = 0
Sound == trouble \subseteq {"failure"}

\* A request that began behind page `from' has come to page e with k pages, which are
\* the first ones of a good block.
Reached(f, from, e, k) ==
  /\ k <= e /\ (e - k) % ppb = 0 /\ from <= e - k
  /\ k > 0 => ~IsBad(f, (e - k) \div ppb)

\* The blocks from one page to the other are bad.
Passed(f, from, to) == \A b \in (from \div ppb)..(to \div ppb - 1) : IsBad(f, b)

\* Chunk c, behind which the command went on at page next, is in the flash: in the first
\* good block from where it started.
Found(f, c, next) ==
  /\ c.count \in 1..ppb /\ next <= TotalPages
  /\ Reached(f, c.start, next, c.count) /\ Passed(f, c.start, next - c.count)
  /\ \A k \in 0..(c.count - 1) : SamePage(In(f, next - c.count + k), c, k)

Current == chunks[Len(chunks)]
NextStart(m) == IF m < Len(chunks) THEN chunks[m + 1].start ELSE at
\* Nothing below this page is programmed, erased or marked any more.
Floor == IF pc = "mark" THEN at - ppb ELSE at

-----------------------------------------------------------------------------
Chunk == [id : Nat, start : Nat, count : Nat, blank : SUBSET Nat, fresh : BOOLEAN,
          end : Nat, ok : BOOLEAN]
HostTypeOK ==
  /\ job.start \in Nat /\ job.len \in Nat /\ at \in Nat /\ sent \in Nat
  /\ chunks \in Seq(Chunk)
  /\ pc \in {"idle", "erase", "erasing", "chunk", "programming", "check", "mark"}

\* A chunk that is on its way begins where the command is.
OnItsWay ==
  /\ Left > 0 /\ Current.start = at /\ Current.count = ChunkLength /\ ~Current.ok
  /\ rq.start = at /\ rq.count = ChunkLength
Placed ==
  /\ Left > 0 \/ pc = "mark" => at % ppb = 0
  /\ Sound /\ pc = "mark" => at <= TotalPages
  /\ chunks = <<>> => sent = 0 /\ at = job.start /\ pc \notin {"programming", "check", "mark"}
Pending ==
  chunks # <<>> =>
    /\ pc \notin {"erase", "erasing"}
    /\ pc = "programming" => rq.op = "program"
    /\ pc = "check" => rq.op = "read"
    /\ pc \in {"programming", "check"} => OnItsWay
    /\ busy => pc \in {"programming", "check"} \/ (pc = "idle" /\ rq.op = "program" /\ OnItsWay)
    /\ Current.start <= at
    /\ pc = "mark" => Current.start <= at - ppb /\ ~Current.ok
    /\ \A m \in 1..Len(chunks) : job.start <= chunks[m].start /\ chunks[m].start <= Current.start

\* A program request from page `from', at or behind page low, has come to page e with k
\* pages of n.
Programmes(f, low, from, e, k, n) ==
  from % ppb = 0 /\ low <= from /\ k <= n /\ Reached(f, from, e, k)

\* A read request from page `from' has come to page e with k pages of n and has them in
\* its buffer; the chunk it reads ends at page `end'.
Reads(f, from, end, e, k, n, b) ==
  /\ k <= n /\ Reached(f, from, e, k) /\ e - k <= end - n /\ Passed(f, from, e - k)
  /\ Len(b) = k /\ \A j \in 0..(k - 1) : b[j + 1] = In(f, e - k + j)

Ended == ~busy => i = rq.count /\ ret = cur

\* The program request of the chunk, and where the flash keeps it at the end.
Programs ==
  (chunks # <<>> /\ rq.op = "program" /\ (busy \/ pc = "programming")) =>
    /\ Programmes(flash, at, spage, cur, i, rq.count) /\ Ended
    /\ Sound /\ i > 0 => cur <= TotalPages

\* The request that reads it back comes no further than that.
Checks ==
  (chunks # <<>> /\ pc = "check") =>
    /\ Reached(flash, at, Current.end, rq.count) /\ (Sound => Current.end <= TotalPages)
    /\ Reads(flash, at, Current.end, cur, i, rq.count, buf) /\ Ended

\* The chunks that were found right.
Verified ==
  Sound => \A m \in 1..Len(chunks) :
             chunks[m].ok => NextStart(m) <= Floor /\ Found(flash, chunks[m], NextStart(m))

\* All chunks but the last are a block long.
Before == (Len(chunks) - 1) * ppb
Sized ==
  /\ chunks # <<>> =>
       /\ chunks[1].start = job.start
       /\ \A m \in 1..(Len(chunks) - 1) : chunks[m].count = ppb
       /\ Before < FilePages /\ Current.count = Shorter(FilePages - Before, ppb)
       /\ sent \in {Before, Before + Current.count}
       /\ pc \in {"chunk", "mark"} => sent = Before + Current.count
       /\ pc \in {"programming", "check"} => sent = Before
  /\ pc = "idle" /\ res = "ok" => Left <= 0

\* The good pages from page `from' on, and those of them before another page.
Goods(f, from) == {p \in from..(TotalPages - 1) : ~IsBad(f, p \div ppb)}
Below(f, from, page) == {q \in Goods(f, from) : q < page}

\* While all were found right there is no gap between them but for bad blocks.
Ranked ==
  Sound => \A m \in 1..Len(chunks) :
             (\A j \in 1..(m - 1) : chunks[j].ok) =>
               Cardinality(Below(flash, job.start, chunks[m].start)) = (m - 1) * ppb

NprogInv == HostTypeOK /\ Placed /\ Pending /\ Programs /\ Checks /\ Verified /\ Sized /\ Ranked

FileInv == Blockwise => NprogInv

-----------------------------------------------------------------------------
(* Pages and blocks.                                                       *)

LEMMA PagesOfBlock ==
  ASSUME NEW base \in Nat, base % ppb = 0, NEW k \in 0..(ppb - 1)
  PROVE  (base + k) \div ppb = base \div ppb /\ (base + k) % ppb = k
<1>1. base \div ppb \in Nat /\ base = (base \div ppb) * ppb
  BY PageOfBlock, NextBlock
<1> QED
  BY <1>1, BlockOfPage

LEMMA PageBelow ==
  ASSUME NEW p \in Nat, NEW d \in Nat
  PROVE  p < d * ppb <=> p \div ppb < d
<1> DEFINE b == p \div ppb
           o == p % ppb
<1>1. b \in Nat /\ o \in 0..(ppb - 1) /\ p = b * ppb + o /\ ppb \in Nat \ {0}
  BY PageOfBlock, Numbers
<1> HIDE DEF b, o
<1>2. ASSUME b < d PROVE p < d * ppb
  <2>1. (b + 1) * ppb <= d * ppb /\ d * ppb \in Nat /\ (b + 1) * ppb \in Nat
    BY <1>1, <1>2, MulMono
  <2>2. (b + 1) * ppb = b * ppb + ppb /\ b * ppb \in Nat
    BY <1>1
  <2> QED
    BY <1>1, <2>1, <2>2
<1>3. ASSUME d <= b PROVE ~(p < d * ppb)
  <2>1. d * ppb <= b * ppb /\ d * ppb \in Nat /\ b * ppb \in Nat
    BY <1>1, <1>3, MulMono
  <2> QED
    BY <1>1, <2>1
<1>4. p < d * ppb <=> b < d
  BY <1>1, <1>2, <1>3
<1> QED
  BY <1>4 DEF b

\* Of two pages that begin a block the first is a block before the other.
LEMMA BlocksApart ==
  ASSUME NEW p \in Nat, NEW q \in Nat, p % ppb = 0, q % ppb = 0, p < q
  PROVE  p + ppb <= q /\ p \div ppb < q \div ppb
<1> DEFINE b == p \div ppb
           d == q \div ppb
<1>1. b \in Nat /\ d \in Nat /\ p = b * ppb /\ q = d * ppb /\ ppb \in Nat \ {0}
  BY PageOfBlock, NextBlock, Numbers
<1>2. b < d
  BY <1>1, PageBelow
<1> HIDE DEF b, d
<1>3. (b + 1) * ppb <= d * ppb
  BY <1>1, <1>2, MulMono
<1>4. (b + 1) * ppb = b * ppb + ppb
  BY <1>1
<1> QED
  BY <1>1, <1>2, <1>3, <1>4 DEF b, d

LEMMA Total == TotalPages \in Nat /\ TotalPages % ppb = 0 /\ TotalPages = AllBlocks * ppb
<1>1. TotalPages = AllBlocks * ppb /\ AllBlocks \in Nat /\ ppb \in Nat \ {0}
  BY AllPages, Numbers
<1>2. AllBlocks * ppb \in Nat
  BY <1>1, MulMono
<1>3. (AllBlocks * ppb + 0) % ppb = 0
  BY <1>1, BlockOfPage
<1> QED
  BY <1>1, <1>2, <1>3

-----------------------------------------------------------------------------
(* What a step leaves alone.                                               *)

\* The two states of the flash differ in block d at most.
Elsewhere(f, g, d) ==
  /\ \A p \in 0..(TotalPages - 1) : p \div ppb # d => In(g, p) = In(f, p)
  /\ \A b \in BlockNumbers : b # d => (IsBad(g, b) <=> IsBad(f, b))

LEMMA OnlyElsewhere ==
  ASSUME NEW f, NEW g, NEW d \in BlockNumbers, OnlyIn(f, g, d)
  PROVE  Elsewhere(f, g, d)
<1>0. d \in Nat /\ AllBlocks \in Nat
  BY AllPages, Numbers DEF BlockNumbers
<1>1. ASSUME NEW b \in BlockNumbers, b # d, NEW o \in 0..(ppb - 1)
      PROVE  g[<<Chip(b), Row(b, o)>>] = f[<<Chip(b), Row(b, o)>>]
  <2>1. b \in Nat /\ Chip(b) \in Chips
    BY <1>0, ChipType DEF BlockNumbers
  <2>2. ~(Chip(b) = Chip(d) /\ b % Blocks = d % Blocks)
    BY <1>1, HomeUnique
  <2> QED
    BY <2>1, <2>2 DEF OnlyIn
<1>2. ASSUME NEW p \in 0..(TotalPages - 1), p \div ppb # d PROVE In(g, p) = In(f, p)
  <2>0. p \in Nat /\ p < AllBlocks * ppb
    BY Total
  <2>1. PICK b, o : b = p \div ppb /\ o = p % ppb
    OBVIOUS
  <2>2. b \in Nat /\ o \in 0..(ppb - 1) /\ p = b * ppb + o /\ b < AllBlocks
    BY <1>0, <2>0, <2>1, PageOfBlock, PageBelow
  <2>3. b \in BlockNumbers
    BY <1>0, <2>2 DEF BlockNumbers
  <2>4. Cell(Chip(b), p) = <<Chip(b), Row(b, o)>>
    BY <2>2, CellOfBlock
  <2> QED
    BY <1>1, <1>2, <2>1, <2>2, <2>3, <2>4 DEF In
<1>3. ASSUME NEW b \in BlockNumbers, b # d PROVE IsBad(g, b) <=> IsBad(f, b)
  <2>1. b \in Nat
    BY <1>0 DEF BlockNumbers
  <2>2. \A o \in MarkerOffsets : g[<<Chip(b), Row(b, o)>>] = f[<<Chip(b), Row(b, o)>>]
    BY <1>1, <1>3, OffsetType
  <2> QED
    BY <2>1, <2>2, BadByRows
<1> QED
  BY <1>2, <1>3 DEF Elsewhere

LEMMA SameElsewhere ==
  ASSUME NEW f, NEW d
  PROVE  Elsewhere(f, f, d)
  BY DEF Elsewhere

\* A chunk in the flash before block d.
LEMMA FoundStays ==
  ASSUME NEW f, NEW g, NEW d \in Nat, Elsewhere(f, g, d), NEW c, NEW next \in Nat, c.start \in Nat,
         Found(f, c, next), next <= d * ppb
  PROVE  Found(g, c, next)
<1>0. ppb \in Nat \ {0} /\ TotalPages \in Nat /\ TotalPages = AllBlocks * ppb /\ AllBlocks \in Nat
  BY Total, Numbers, AllPages
<1>1. PICK base, n : base = next - c.count /\ n = c.count
  OBVIOUS
<1>2. /\ n \in 1..ppb /\ next <= TotalPages /\ n <= next /\ base % ppb = 0 /\ c.start <= base
      /\ ~IsBad(f, base \div ppb) /\ Passed(f, c.start, base)
      /\ \A k \in 0..(n - 1) : SamePage(In(f, base + k), c, k)
  BY <1>0, <1>1 DEF Found, Reached
<1>3. base \in Nat /\ next = base + n
  BY <1>0, <1>1, <1>2
<1>4. ASSUME NEW p \in Nat, p < next PROVE p \div ppb \in BlockNumbers /\ p \div ppb # d /\ p \in 0..(TotalPages - 1)
  <2>0. d * ppb \in Nat
    BY <1>0
  <2>1. p < d * ppb /\ p < AllBlocks * ppb
    BY <1>0, <1>2, <1>4, <2>0
  <2>2. p \div ppb \in Nat /\ p \div ppb < d /\ p \div ppb < AllBlocks
    BY <1>0, <2>1, PageBelow, PageOfBlock
  <2> QED
    BY <1>0, <1>2, <1>4, <2>2 DEF BlockNumbers
<1>5. ~IsBad(g, base \div ppb)
  BY <1>0, <1>2, <1>3, <1>4 DEF Elsewhere
<1>6. Passed(g, c.start, base)
  <2> SUFFICES ASSUME NEW b \in (c.start \div ppb)..(base \div ppb - 1) PROVE IsBad(g, b)
    BY DEF Passed
  <2>1. c.start \div ppb \in Nat /\ base \div ppb \in Nat
    BY <1>3, PageOfBlock
  <2>2. base \div ppb \in BlockNumbers /\ base \div ppb < d
    <3>1. base \div ppb < d
      BY <1>0, <1>2, <1>3, PageBelow, MulMono
    <3> QED
      BY <1>0, <1>2, <1>3, <1>4, <3>1
  <2>3. b \in BlockNumbers /\ b # d
    BY <1>0, <2>1, <2>2 DEF BlockNumbers
  <2>4. IsBad(f, b)
    BY <1>2 DEF Passed
  <2> QED
    BY <2>3, <2>4 DEF Elsewhere
<1>7. ASSUME NEW k \in 0..(n - 1) PROVE SamePage(In(g, base + k), c, k)
  <2>1. base + k \in Nat /\ base + k < next
    BY <1>0, <1>2, <1>3
  <2>2. In(g, base + k) = In(f, base + k)
    BY <1>4, <2>1 DEF Elsewhere
  <2> QED
    BY <1>2, <2>2
<1> QED
  BY <1>0, <1>1, <1>2, <1>5, <1>6, <1>7 DEF Found, Reached

\* A page that is programmed.
LEMMA PageElsewhere ==
  ASSUME IndInv, ProgramPage, cur < TotalPages
  PROVE  cur \div ppb \in BlockNumbers /\ Elsewhere(flash, flash', cur \div ppb)
<1>0. cur \in Nat /\ flash \in [Cells -> PageSet] /\ AllBlocks \in Nat
  BY Typed, AllPages
<1>1. PICK d, o : d = cur \div ppb /\ o = cur % ppb
  OBVIOUS
<1>2. /\ d \in Nat /\ o \in 0..(ppb - 1) /\ cur = d * ppb + o /\ d < AllBlocks /\ d \in BlockNumbers
      /\ Chip(d) \in Chips
  BY <1>0, <1>1, PageOfBlock, PageBelow, Total, ChipType DEF BlockNumbers
<1>3. PICK c : c = <<Chip(d), Row(d, o)>>
  OBVIOUS
<1>4. Cell(Chip(d), cur) = c
  BY <1>2, <1>3, CellOfBlock
<1>5. flash' = flash \/ \E w : flash' = [flash EXCEPT ![c] = w]
  <2>1. sel' = Chip(d)
    BY <1>1 DEF ProgramPage, ProgramLoop
  <2> QED
    BY <1>4, <2>1 DEF ProgramPage
<1>6. OnlyIn(flash, flash', d)
  <2> SUFFICES ASSUME NEW chip \in Chips, NEW x \in Nat, NEW p \in 0..(ppb - 1),
                      ~(chip = Chip(d) /\ x % Blocks = d % Blocks)
               PROVE  flash'[<<chip, Row(x, p)>>] = flash[<<chip, Row(x, p)>>]
    BY DEF OnlyIn
  <2>1. <<chip, Row(x, p)>> # c
    <3>1. ASSUME Row(x, p) = Row(d, o) PROVE x % Blocks = d % Blocks
      BY <1>2, <3>1, RowsApart
    <3> QED
      BY <1>3, <3>1
  <2>2. <<chip, Row(x, p)>> \in Cells
    BY RowIsCell
  <2> QED
    BY <1>0, <1>5, <2>1, <2>2
<1> QED
  BY <1>1, <1>2, <1>6, OnlyElsewhere

\* A marker, on the chip of its block, after the block was filled or not.
LEMMA MarkElsewhere ==
  ASSUME NEW f \in [Cells -> PageSet], NEW h \in [Cells -> PageSet], NEW d \in BlockNumbers,
         OnlyIn(f, h, d), Marking(h, Chip(d), d)
  PROVE  Elsewhere(f, flash', d)
<1>0. d \in Nat
  BY AllPages DEF BlockNumbers
<1>1. CASE flash' = MarkBad(h, Chip(d), d)
  <2>1. OnlyIn(h, flash', d)
    BY <1>0, <1>1, MarkBadOnly
  <2>2. OnlyIn(f, flash', d)
    BY <2>1 DEF OnlyIn
  <2> QED
    BY <2>2, OnlyElsewhere
<1>2. CASE flash' = h
  BY <1>2, OnlyElsewhere
<1> QED
  BY <1>1, <1>2 DEF Marking

LEMMA FailElsewhere ==
  ASSUME IndInv, ProgramFail, cur < TotalPages
  PROVE  cur \div ppb \in BlockNumbers /\ Elsewhere(flash, flash', cur \div ppb)
<1>0. cur \in Nat /\ flash \in [Cells -> PageSet] /\ AllBlocks \in Nat
  BY Typed, AllPages
<1>1. PICK d : d = cur \div ppb
  OBVIOUS
<1>2. d \in Nat /\ d \in BlockNumbers /\ sel' = Chip(d)
  <2>1. sel' = Chip(d)
    BY <1>1 DEF ProgramFail, ProgramLoop
  <2> QED
    BY <1>0, <1>1, <2>1, PageOfBlock, PageBelow, Total DEF BlockNumbers
<1>3. PICK page \in {Erased, Garbage} : Marking(SetBlock(flash, Chip(d), d, page), Chip(d), d)
  BY <1>1, <1>2 DEF ProgramFail
<1>4. PICK h : h = SetBlock(flash, Chip(d), d, page)
  OBVIOUS
<1>5. h \in [Cells -> PageSet] /\ OnlyIn(flash, h, d)
  BY <1>0, <1>2, <1>4, SetBlockType, SpecialPages, SetBlockOnly
<1> QED
  BY <1>0, <1>1, <1>2, <1>3, <1>4, <1>5, MarkElsewhere

\* The host's marker, if the chip of the block is the one selected.
LEMMA HostMarkElsewhere ==
  ASSUME IndInv, nand_mark_bad_4740, rq'.start \in BlockNumbers, sel = Chip(rq'.start)
  PROVE  Elsewhere(flash, flash', rq'.start)
<1>0. flash \in [Cells -> PageSet]
  BY Typed
<1>1. Marking(flash, sel, rq'.start)
  BY DEF nand_mark_bad_4740
<1>2. OnlyIn(flash, flash, rq'.start)
  BY DEF OnlyIn
<1> QED
  BY <1>0, <1>1, <1>2, MarkElsewhere

-----------------------------------------------------------------------------
(* A program request of up to a block from the beginning of one.           *)

LEMMA BadSame ==
  ASSUME NEW f, NEW g, Bad(f) = Bad(g)
  PROVE  \A b \in Nat : IsBad(f, b) <=> IsBad(g, b)
  BY BadMember

LEMMA ProgramGoesOn ==
  ASSUME IndInv, ProgramStep, NEW low \in Nat, Programmes(flash, low, spage, cur, i, rq.count),
         rq.count <= ppb
  PROVE  /\ Programmes(flash', low, spage', cur', i', rq'.count) /\ rq' = rq
         /\ (i > 0 => cur <= TotalPages) /\ ~Overruns => (i' > 0 => cur' <= TotalPages)
         /\ ~busy' => i' = rq.count /\ ret' = cur'
         /\ low <= (cur \div ppb) * ppb
<1>0. /\ cur \in Nat /\ i \in Nat /\ spage \in Nat /\ rq.count \in Nat /\ ppb \in Nat \ {0}
      /\ TotalPages \in Nat /\ TotalPages % ppb = 0
  BY Typed, Numbers, Total
<1>1. PICK base : base = cur - i
  OBVIOUS
<1>2. /\ base \in Nat /\ cur = base + i /\ base % ppb = 0 /\ spage <= base /\ low <= base
      /\ spage % ppb = 0 /\ i <= rq.count /\ (i > 0 => ~IsBad(flash, base \div ppb)) /\ low <= spage
  BY <1>0, <1>1 DEF Programmes, Reached
<1>3. base = (base \div ppb) * ppb /\ base \div ppb \in Nat
  BY <1>2, NextBlock, PageOfBlock
<1>4. ASSUME i < ppb PROVE cur \div ppb = base \div ppb /\ cur % ppb = i
  <2>1. i \in 0..(ppb - 1)
    BY <1>0, <1>4
  <2>2. (base + i) \div ppb = base \div ppb /\ (base + i) % ppb = i
    BY <1>2, <2>1, PagesOfBlock
  <2> QED
    BY <1>2, <2>2
<1>5. low <= (cur \div ppb) * ppb
  <2>1. base \div ppb <= cur \div ppb
    <3>1. cur \div ppb \in Nat
      BY <1>0, PageOfBlock
    <3>2. ~(cur < (base \div ppb) * ppb)
      BY <1>0, <1>2, <1>3
    <3> QED
      BY <1>0, <1>3, <3>1, <3>2, PageBelow
  <2>2. (base \div ppb) * ppb <= (cur \div ppb) * ppb /\ (cur \div ppb) * ppb \in Nat
    BY <1>0, <1>3, <2>1, MulMono, PageOfBlock
  <2> QED
    BY <1>2, <1>3, <2>2
<1>6. ~Overruns /\ i < rq.count /\ Running("program") => cur < TotalPages
  BY <1>0 DEF Overruns
<1>7. CASE ProgramSkipBad
  <2>0. /\ Running("program") /\ i < rq.count /\ BadHere /\ cur' = cur + ppb
        /\ UNCHANGED <<busy, rq, i, spage, flash>>
    BY <1>7 DEF ProgramSkipBad, ProgramLoop
  <2>1. i = 0
    BY <1>0, <1>4, <2>0 DEF BadHere
  <2>2. cur % ppb = 0 /\ cur' \in Nat /\ cur' % ppb = 0
    <3>1. cur % ppb = 0
      BY <2>0 DEF BadHere
    <3>2. (cur + ppb) % ppb = 0
      BY <1>0, <3>1, NextBlock
    <3> QED
      BY <1>0, <2>0, <3>1, <3>2
  <2>3. Reached(flash', spage', cur', i')
    BY <1>0, <1>2, <2>0, <2>1, <2>2 DEF Reached
  <2> QED
    BY <1>2, <1>5, <2>0, <2>1, <2>3 DEF Programmes, Running
<1>8. CASE ProgramSkipFF \/ ProgramPage
  <2>0. /\ Running("program") /\ i < rq.count /\ ~BadHere /\ cur' = cur + 1 /\ i' = i + 1
        /\ UNCHANGED <<busy, rq, spage>>
    BY <1>8 DEF ProgramSkipFF, ProgramPage, ProgramLoop
  <2>1. ~IsBad(flash, base \div ppb)
    <3>1. ASSUME i = 0 PROVE ~IsBad(flash, base \div ppb)
      BY <1>0, <1>2, <2>0, <3>1 DEF BadHere
    <3> QED
      BY <1>0, <1>2, <3>1
  <2>2. ~IsBad(flash', base \div ppb)
    <3>1. Bad(flash') = Bad(flash)
      BY <1>8, ProgramPageBad DEF ProgramSkipFF
    <3> QED
      BY <1>3, <2>1, <3>1, BadSame
  <2>3. cur' - i' = base /\ i' <= cur' /\ i' <= rq.count
    BY <1>0, <1>2, <2>0
  <2>4. Reached(flash', spage', cur', i')
    BY <1>2, <2>0, <2>2, <2>3 DEF Reached
  <2>5. ~Overruns => cur' <= TotalPages
    BY <1>0, <1>6, <2>0
  <2> QED
    BY <1>2, <1>5, <2>0, <2>3, <2>4, <2>5 DEF Programmes, Running
<1>9. CASE ProgramFail
  <2>0. /\ Running("program") /\ i < rq.count /\ spage' = spage + ppb /\ cur' = spage' /\ i' = 0
        /\ UNCHANGED <<busy, rq>>
    BY <1>9 DEF ProgramFail, ProgramLoop
  <2>1. spage' \in Nat /\ spage' % ppb = 0 /\ low <= spage'
    BY <1>0, <1>2, <2>0, NextBlock
  <2>2. Reached(flash', spage', cur', i')
    BY <1>0, <2>0, <2>1 DEF Reached
  <2> QED
    BY <1>0, <1>5, <2>0, <2>1, <2>2 DEF Programmes, Running
<1>10. CASE ProgramDone
  <2>0. /\ i >= rq.count /\ ret' = cur /\ UNCHANGED <<flash, rq, cur, i, spage>>
    BY <1>10 DEF ProgramDone, Finish, progVars
  <2>1. i = rq.count
    BY <1>0, <1>2, <2>0
  <2> QED
    BY <1>2, <1>5, <2>0, <2>1 DEF Programmes
<1> QED
  BY <1>7, <1>8, <1>9, <1>10 DEF ProgramStep

\* It changes no block before the one it began in.
LEMMA ProgramLeaves ==
  ASSUME IndInv, ProgramStep, NEW low \in Nat, Programmes(flash, low, spage, cur, i, rq.count),
         rq.count <= ppb, ~Overruns
  PROVE  \E d \in Nat : low <= d * ppb /\ Elsewhere(flash, flash', d)
<1>0. cur \in Nat /\ cur \div ppb \in Nat /\ rq.count \in Nat /\ i \in Nat /\ TotalPages \in Nat
  BY Typed, PageOfBlock, Total
<1>1. low <= (cur \div ppb) * ppb
  BY ProgramGoesOn
<1>2. CASE ProgramPage \/ ProgramFail
  <2>1. cur < TotalPages
    BY <1>0, <1>2 DEF ProgramPage, ProgramFail, ProgramLoop, Overruns
  <2> QED
    BY <1>0, <1>1, <1>2, <2>1, PageElsewhere, FailElsewhere
<1>3. CASE ProgramSkipBad \/ ProgramSkipFF \/ ProgramDone
  <2>1. flash' = flash
    BY <1>3 DEF ProgramSkipBad, ProgramSkipFF, ProgramDone
  <2> QED
    BY <1>0, <1>1, <2>1, SameElsewhere
<1> QED
  BY <1>2, <1>3 DEF ProgramStep

-----------------------------------------------------------------------------
(* The read request of the same pages.                                     *)

LEMMA ReadGoesOn ==
  ASSUME IndInv, ReadStep, rq.op = "read", NEW from \in Nat, NEW end \in Nat,
         Reached(flash, from, end, rq.count), rq.count \in 1..ppb,
         Reads(flash, from, end, cur, i, rq.count, buf)
  PROVE  /\ Reads(flash, from, end, cur', i', rq.count, buf') /\ rq' = rq /\ flash' = flash
         /\ ~busy' => i' = rq.count /\ ret' = cur'
<1>0. /\ cur \in Nat /\ i \in Nat /\ rq.count \in Nat /\ ppb \in Nat \ {0} /\ from \in Nat /\ end \in Nat
      /\ buf \in Seq(PageSet) /\ flash \in [Cells -> PageSet]
  BY Typed, Numbers DEF IndInv, TypeOK, DriverTypeOK
<1>1. PICK base, last : base = cur - i /\ last = end - rq.count
  OBVIOUS
<1>2. /\ base \in Nat /\ cur = base + i /\ base % ppb = 0 /\ from <= base /\ i <= rq.count
      /\ (i > 0 => ~IsBad(flash, base \div ppb)) /\ base <= last /\ Passed(flash, from, base)
      /\ Len(buf) = i /\ \A j \in 0..(i - 1) : buf[j + 1] = In(flash, base + j)
      /\ last \in Nat /\ last % ppb = 0 /\ ~IsBad(flash, last \div ppb)
  BY <1>0, <1>1 DEF Reads, Reached
<1>4. ASSUME i < ppb PROVE cur \div ppb = base \div ppb /\ cur % ppb = i
  <2>1. i \in 0..(ppb - 1)
    BY <1>0, <1>4
  <2>2. (base + i) \div ppb = base \div ppb /\ (base + i) % ppb = i
    BY <1>2, <2>1, PagesOfBlock
  <2> QED
    BY <1>2, <2>2
<1>5. CASE ReadSkipBad
  <2>0. /\ i < rq.count /\ BadHere /\ cur' = cur + ppb /\ UNCHANGED <<busy, rq, i, flash, buf>>
    BY <1>5 DEF ReadSkipBad, ReadLoop, Running
  <2>1. i = 0 /\ cur = base
    BY <1>0, <1>2, <1>4, <2>0 DEF BadHere
  <2>2. IsBad(flash, base \div ppb)
    BY <2>0, <2>1 DEF BadHere
  <2>3. cur' \in Nat /\ cur' % ppb = 0 /\ cur' \div ppb = base \div ppb + 1
    <3>1. (base + ppb) % ppb = 0 /\ (base + ppb) \div ppb = base \div ppb + 1
      BY <1>2, NextBlock
    <3> QED
      BY <1>0, <1>2, <2>0, <2>1, <3>1
  <2>4. base # last
    BY <1>2, <2>2
  <2>5. cur' <= last
    <3>1. base < last
      BY <1>2, <2>4
    <3>2. base + ppb <= last
      BY <1>2, <3>1, BlocksApart
    <3> QED
      BY <2>0, <2>1, <3>2
  <2>6. Passed(flash, from, cur')
    <3>1. from \div ppb \in Nat /\ base \div ppb \in Nat
      BY <1>0, <1>2, PageOfBlock
    <3> QED
      BY <1>2, <2>2, <2>3, <3>1 DEF Passed
  <2>7. cur' - i' = cur' /\ i' = 0 /\ from <= cur' /\ i' <= cur'
    BY <1>0, <1>2, <2>0, <2>1, <2>3
  <2>8. Reached(flash, from, cur', i')
    <3>1. (cur' - i') % ppb = 0 /\ from <= cur' - i'
      BY <2>3, <2>7
    <3>2. ~(i' > 0)
      BY <2>7
    <3> QED
      BY <2>7, <3>1, <3>2 DEF Reached
  <2>9. Len(buf') = i' /\ \A j \in 0..(i' - 1) : buf'[j + 1] = In(flash, cur' - i' + j)
    BY <1>2, <2>0, <2>1
  <2> QED
    BY <1>0, <1>1, <1>5, <2>0, <2>5, <2>6, <2>7, <2>8, <2>9 DEF Reads, ReadSkipBad, ReadLoop, Running
<1>6. CASE ReadPage
  <2>0. /\ i < rq.count /\ ~BadHere /\ cur' = cur + 1 /\ i' = i + 1 /\ UNCHANGED <<busy, rq, flash>>
        /\ buf' = Append(buf, In(flash, cur))
    BY <1>6 DEF ReadPage, ReadLoop, Running, TakePage, In
  <2>1. ~IsBad(flash, base \div ppb)
    <3>1. ASSUME i = 0 PROVE ~IsBad(flash, base \div ppb)
      BY <1>0, <1>2, <2>0, <3>1 DEF BadHere
    <3> QED
      BY <1>0, <1>2, <3>1
  <2>2. In(flash, cur) \in PageSet
    <3>1. Cell(Chip(cur \div ppb), cur) \in Cells
      BY <1>0, PageOfBlock, ChipType, CellType
    <3> QED
      BY <1>0, <3>1 DEF In
  <2>3. Len(buf') = i' /\ buf'[i'] = In(flash, cur) /\ \A j \in 1..i : buf'[j] = buf[j]
    BY <1>0, <1>2, <2>0, <2>2
  <2>4. \A j \in 0..(i' - 1) : buf'[j + 1] = In(flash, base + j)
    <3> SUFFICES ASSUME NEW j \in 0..(i' - 1) PROVE buf'[j + 1] = In(flash, base + j)
      OBVIOUS
    <3>1. CASE j = i
      BY <1>2, <2>0, <2>3, <3>1
    <3>2. CASE j # i
      <4>1. j \in 0..(i - 1) /\ j + 1 \in 1..i
        BY <1>0, <2>0, <3>2
      <4> QED
        BY <1>2, <2>3, <4>1
    <3> QED
      BY <3>1, <3>2
  <2>5. cur' - i' = base /\ i' <= cur' /\ i' <= rq.count
    BY <1>0, <1>2, <2>0
  <2>6. Reached(flash, from, cur', i')
    BY <1>2, <2>1, <2>5 DEF Reached
  <2>7. Reads(flash, from, end, cur', i', rq.count, buf')
    BY <1>1, <1>2, <2>3, <2>4, <2>5, <2>6 DEF Reads
  <2>8. busy' = busy /\ busy
    BY <1>6, <2>0 DEF ReadPage, ReadLoop, Running
  <2> QED
    BY <2>0, <2>7, <2>8
<1>7. CASE ReadDone
  <2>0. /\ i >= rq.count /\ ret' = cur /\ UNCHANGED <<flash, rq, cur, i, buf>>
    BY <1>7 DEF ReadDone, Finish
  <2>1. i = rq.count
    BY <1>0, <1>2, <2>0
  <2> QED
    BY <2>0, <2>1
<1> QED
  BY <1>5, <1>6, <1>7 DEF ReadStep, ReadRawPage, ReadOobPage, ReadLoop, Running

-----------------------------------------------------------------------------
(* The commands are requests to the driver or leave it alone.              *)

LEMMA FileIsDriver ==
  ASSUME [FileNext]_fileVars
  PROVE  [Next]_vars
<1>1. CASE \/ Enter \/ EraseEnds \/ ReadFails \/ NextChunk \/ Check \/ CheckLost \/ Dumped
           \/ DumpTruncated \/ LastChunk \/ GiveUp \/ AllDone \/ UNCHANGED fileVars
  BY <1>1 DEF Enter, Command, EraseEnds, ReadFails, NextChunk, Check, CheckLost, Compared, Dumped,
     DumpTruncated, LastChunk, GiveUp, AllDone, fileVars
<1>2. CASE nand_erase \/ EraseLost
  <2>1. EraseStart \/ UNCHANGED vars
    BY <1>2 DEF nand_erase, EraseLost
  <2> QED
    BY <2>1 DEF Next, Host
<1>3. CASE ProgramChunk \/ DataLost \/ ReadBackChunk \/ DumpChunk
  <2>1. ProgramStart \/ ReadStart
    BY <1>3 DEF ProgramChunk, DataLost, ReadBackChunk, DumpChunk
  <2> QED
    BY <2>1 DEF Next, Host
<1>4. CASE nand_markbad \/ MarkLost
  <2>1. nand_mark_bad_4740 \/ UNCHANGED vars
    BY <1>4 DEF nand_markbad, MarkLost
  <2> QED
    BY <2>1 DEF Next, Host
<1>5. CASE DeviceStep
  BY <1>5 DEF DeviceStep, Next
<1> QED
  BY <1>1, <1>2, <1>3, <1>4, <1>5 DEF FileNext

LEMMA DriverInvariance == FileSpec => []IndInv
<1>1. FileInit => IndInv
  BY InitInv DEF FileInit
<1>2. IndInv /\ [FileNext]_fileVars => IndInv'
  BY FileIsDriver, NextInv
<1> QED
  BY <1>1, <1>2, PTL DEF FileSpec

-----------------------------------------------------------------------------
(* FileInv is inductive.                                                   *)

\* What there is to send.
LEMMA SendLengths ==
  ASSUME HostTypeOK, job.what = "nprog"
  PROVE  /\ FilePages \in Nat /\ Left \in Int /\ Left = FilePages - sent
         /\ ChunkLength = Shorter(Left, ppb)
         /\ Left > 0 => ChunkLength \in 1..ppb /\ ChunkLength <= Left
         /\ Left - ChunkLength > 0 => ChunkLength = ppb
<1>1. ppb \in Nat \ {0} /\ pagesize \in Nat \ {0} /\ job.len \in Nat /\ sent \in Nat
  BY Numbers, Geometry DEF HostTypeOK
<1>2. FilePages \in Nat
  <2>1. job.len + pagesize - 1 \in Nat
    BY <1>1
  <2> QED
    BY <1>1, <2>1, DivModType DEF FilePages, CeilDiv
<1>3. ChunkLength = Shorter(Left, ppb)
  BY DEF ChunkLength
<1> QED
  BY <1>1, <1>2, <1>3 DEF Left, Shorter

\* A request of the driver's.
LEMMA Begins ==
  ASSUME IndInv, NEW r, rq' = r, EraseStart \/ ProgramStart \/ ReadStart
  PROVE  /\ ~busy /\ busy' /\ rq' = r /\ flash' = flash
         /\ ProgramStart => spage' = r.start /\ cur' = r.start /\ i' = 0
         /\ ReadStart => cur' = r.start /\ i' = 0 /\ buf' = <<>>
  BY DEF EraseStart, ProgramStart, ReadStart, Start

LEMMA EnterInv ==
  ASSUME Enter
  PROVE  FileInv'
<1> SUFFICES ASSUME Blockwise'
             PROVE  NprogInv'
  BY DEF FileInv
<1>1. PICK start, len, blank :
        start \in StartPages /\ len \in Lengths /\ Command("nprog", start, len, blank, "erase")
  <2>1. job'.what = "nprog"
    BY DEF Blockwise
  <2> QED
    BY <2>1 DEF Enter, Command
<1>2. /\ start \in Nat /\ len \in Nat /\ job' = [what |-> "nprog", start |-> start, len |-> len, blank |-> blank]
      /\ pc' = "erase" /\ at' = start /\ sent' = 0 /\ chunks' = <<>>
  BY <1>1, FileAssumption DEF Command
<1>3. HostTypeOK'
  BY <1>2 DEF HostTypeOK
<1>4. start % ppb = 0
  BY <1>2 DEF Blockwise
<1>5. Placed' /\ Pending' /\ Programs' /\ Checks' /\ Sized'
  BY <1>2, <1>4 DEF Placed, Pending, Programs, Checks, Sized
<1>6. Verified' /\ Ranked'
  BY <1>2 DEF Verified, Ranked
<1> QED
  BY <1>3, <1>5, <1>6 DEF NprogInv

\* Nothing is sent before the erase has ended.
LEMMA EraseInv ==
  ASSUME Blockwise, NprogInv, nand_erase \/ EraseLost \/ EraseEnds
  PROVE  NprogInv'
<1>1. /\ HostTypeOK /\ Placed /\ Pending /\ Sized
  BY DEF NprogInv
<1>2. /\ UNCHANGED <<job, at, sent, chunks>> /\ pc \in {"erase", "erasing"} /\ pc' \in {"erasing", "chunk"}
  BY DEF nand_erase, EraseLost, EraseEnds, Blockwise
<1>3. chunks = <<>>
  BY <1>1, <1>2 DEF Pending
<1>4. HostTypeOK'
  BY <1>1, <1>2 DEF HostTypeOK
<1>5. Left' = Left
  BY <1>2 DEF Left, FilePages
<1>6. Placed'
  BY <1>1, <1>2, <1>3, <1>5 DEF Placed
<1>7. Pending' /\ Programs' /\ Checks' /\ Sized'
  BY <1>2, <1>3 DEF Pending, Programs, Checks, Sized
<1>8. Verified' /\ Ranked'
  BY <1>2, <1>3 DEF Verified, Ranked
<1> QED
  BY <1>4, <1>6, <1>7, <1>8 DEF NprogInv

\* A command that ends, well or not: the device may go on.
LEMMA EndInv ==
  ASSUME Blockwise, NprogInv, LastChunk \/ GiveUp \/ AllDone \/ UNCHANGED fileVars
  PROVE  NprogInv'
<1>1. HostTypeOK /\ Placed /\ Pending /\ Programs /\ Checks /\ Verified /\ Sized /\ Ranked
  BY DEF NprogInv
<1>2. /\ UNCHANGED <<vars, job, at, sent, chunks>> /\ (Sound' <=> Sound)
      /\ \/ pc' = pc /\ res' = res
         \/ /\ pc' = "idle" /\ pc \in {"erase", "chunk", "programming"}
            /\ (res' = "error" \/ (res' = "ok" /\ Left <= 0 /\ pc = "chunk"))
  BY <1>1 DEF LastChunk, GiveUp, AllDone, fileVars, hostVars, Finished, Failure, Fails, Sound, Blockwise, HostTypeOK
<1> DEFINE v == <<flash, busy, rq, cur, i, spage, buf, ret>>
<1>3. UNCHANGED v
  BY <1>2 DEF vars, progVars
<1>4. Left' = Left /\ FilePages' = FilePages /\ Current' = Current /\ ChunkLength' = ChunkLength /\ Before' = Before
  BY <1>2 DEF Left, FilePages, Current, ChunkLength, Before
<1>5. HostTypeOK' /\ Placed'
  BY <1>1, <1>2, <1>4 DEF HostTypeOK, Placed
<1>6. OnItsWay' = OnItsWay
  BY <1>2, <1>3, <1>4 DEF OnItsWay
<1>7. Pending'
  BY <1>1, <1>2, <1>3, <1>4, <1>6 DEF Pending
<1>8. Programs'
  BY <1>1, <1>2, <1>3 DEF Programs, Pending, Ended
<1>9. Checks'
  BY <1>1, <1>2, <1>3, <1>4 DEF Checks, Ended
<1>10. Verified'
  <2>1. Floor' = Floor
    BY <1>2 DEF Floor
  <2> QED
    BY <1>1, <1>2, <1>3, <2>1 DEF Verified, NextStart
<1>11. Sized'
  BY <1>1, <1>2, <1>4 DEF Sized
<1>12. Ranked'
  BY <1>1, <1>2, <1>3 DEF Ranked
<1> QED
  BY <1>5, <1>7, <1>8, <1>9, <1>10, <1>11, <1>12 DEF NprogInv

-----------------------------------------------------------------------------
(* The good pages.                                                         *)

LEMMA BelowFinite ==
  ASSUME NEW f, NEW from \in Nat, NEW page
  PROVE  IsFiniteSet(Below(f, from, page)) /\ Cardinality(Below(f, from, page)) \in Nat
<1>1. Below(f, from, page) \subseteq from..(TotalPages - 1)
  BY DEF Below, Goods
<1>2. IsFiniteSet(from..(TotalPages - 1))
  BY Total, FS_Interval
<1>3. IsFiniteSet(Below(f, from, page))
  BY <1>1, <1>2, FS_Subset
<1> QED
  BY <1>3, FS_CardinalityType

\* Those before a block that a step changes at most stay.
LEMMA BelowStays ==
  ASSUME NEW f, NEW g, NEW d \in Nat, Elsewhere(f, g, d), NEW from \in Nat, NEW page \in Nat, page <= d * ppb
  PROVE  Below(g, from, page) = Below(f, from, page)
<1>0. ppb \in Nat \ {0} /\ TotalPages \in Nat /\ TotalPages = AllBlocks * ppb /\ AllBlocks \in Nat /\ d * ppb \in Nat
  BY Total, Numbers, AllPages, MulMono
<1>1. ASSUME NEW q \in from..(TotalPages - 1), q < page PROVE IsBad(g, q \div ppb) <=> IsBad(f, q \div ppb)
  <2>1. q \in Nat /\ q < d * ppb /\ q < AllBlocks * ppb
    BY <1>0, <1>1
  <2>2. q \div ppb \in Nat /\ q \div ppb < d /\ q \div ppb < AllBlocks
    BY <1>0, <2>1, PageBelow, PageOfBlock
  <2>3. q \div ppb \in BlockNumbers /\ q \div ppb # d
    BY <1>0, <2>2 DEF BlockNumbers
  <2> QED
    BY <2>3 DEF Elsewhere
<1> QED
  BY <1>1 DEF Below, Goods

\* Behind bad blocks the pages of a good one count.
Behind(f, from, start, base, n, page) ==
  /\ from \in Nat /\ start \in Nat /\ base \in Nat /\ from <= start /\ start <= base
  /\ base % ppb = 0 /\ Passed(f, start, base) /\ ~IsBad(f, base \div ppb)
  /\ n \in 0..ppb /\ page = base + n /\ page <= TotalPages

LEMMA BelowGrows ==
  ASSUME NEW f, NEW from, NEW start, NEW base, NEW n, NEW page, Behind(f, from, start, base, n, page)
  PROVE  Cardinality(Below(f, from, page)) = Cardinality(Below(f, from, start)) + n
<1> USE DEF Behind
<1>0. /\ ppb \in Nat \ {0} /\ TotalPages \in Nat /\ n \in Nat /\ n <= ppb /\ page = base + n /\ page <= TotalPages
      /\ from \in Nat /\ start \in Nat /\ base \in Nat /\ from <= start /\ start <= base
      /\ base % ppb = 0 /\ Passed(f, start, base) /\ ~IsBad(f, base \div ppb)
  BY Total, Numbers
<1> USE <1>0
<1>1. ASSUME NEW q \in base..(base + n - 1) PROVE ~IsBad(f, q \div ppb) /\ q \in from..(TotalPages - 1)
  <2>1. q \in base..(base + ppb - 1)
    BY <1>0, <1>1
  <2>2. q \div ppb = base \div ppb
    BY <2>1, NextBlock
  <2> QED
    BY <1>0, <1>1, <2>2
<1>2. ASSUME NEW q \in start..(base - 1) PROVE IsBad(f, q \div ppb)
  <2>0. q \in Nat
    BY <1>2
  <2>1. q \div ppb \in Nat /\ q \div ppb < base \div ppb
    <3>1. q \in 0..(base - 1)
      BY <1>2
    <3> QED
      BY <2>0, <3>1, NextBlock, PageOfBlock
  <2>2. start \div ppb <= q \div ppb
    <3>1. start \div ppb \in Nat /\ start = (start \div ppb) * ppb + (start % ppb) /\ start % ppb \in Nat
      BY PageOfBlock
    <3>2. ~(q < (start \div ppb) * ppb)
      BY <1>0, <1>2, <3>1, MulMono
    <3> QED
      BY <2>0, <2>1, <3>1, <3>2, PageBelow
  <2>3. start \div ppb \in Nat /\ base \div ppb \in Nat
    BY PageOfBlock
  <2>4. q \div ppb \in (start \div ppb)..(base \div ppb - 1)
    BY <2>1, <2>2, <2>3
  <2> QED
    BY <2>4 DEF Passed
<1>3. Below(f, from, base + n) = Below(f, from, start) \cup (base..(base + n - 1))
  <2>1. ASSUME NEW q \in Below(f, from, base + n) PROVE q \in Below(f, from, start) \/ q \in base..(base + n - 1)
    <3>1. q \in from..(TotalPages - 1) /\ ~IsBad(f, q \div ppb) /\ q < base + n
      BY <2>1 DEF Below, Goods
    <3>2. q < start => q \in Below(f, from, start)
      BY <3>1 DEF Below, Goods
    <3>3. ~(q \in start..(base - 1))
      BY <1>2, <3>1
    <3> QED
      BY <1>0, <3>1, <3>2, <3>3
  <2>2. ASSUME NEW q \in Below(f, from, start) PROVE q \in Below(f, from, base + n)
    BY <1>0, <2>2 DEF Below, Goods
  <2>3. ASSUME NEW q \in base..(base + n - 1) PROVE q \in Below(f, from, base + n)
    BY <1>0, <1>1, <2>3 DEF Below, Goods
  <2> QED
    BY <2>1, <2>2, <2>3
<1>4. PICK S, T : S = Below(f, from, start) /\ T = base..(base + n - 1)
  OBVIOUS
<1>5. IsFiniteSet(S) /\ Cardinality(S) \in Nat
  BY <1>4, BelowFinite
<1>6. IsFiniteSet(T) /\ Cardinality(T) = n
  <2>1. base + n - 1 \in Int /\ base \in Int
    BY <1>0
  <2>2. IsFiniteSet(T) /\ Cardinality(T) = IF base > base + n - 1 THEN 0 ELSE (base + n - 1) - base + 1
    BY <1>4, <2>1, FS_Interval
  <2> QED
    BY <1>0, <2>2
<1>7. S \cap T = {}
  BY <1>0, <1>4 DEF Below, Goods
<1>8. Cardinality(S \cup T) = Cardinality(S) + n
  <2>1. Cardinality(S \cap T) = 0
    BY <1>7, FS_EmptySet
  <2>2. Cardinality(S \cup T) = Cardinality(S) + Cardinality(T) - Cardinality(S \cap T)
    BY <1>5, <1>6, FS_Union
  <2> QED
    BY <1>0, <1>5, <1>6, <2>1, <2>2
<1> QED
  BY <1>3, <1>4, <1>8

-----------------------------------------------------------------------------
(* The steps of a chunk.                                                   *)

\* A chunk is sent.
LEMMA SendInv ==
  ASSUME IndInv, IndInv', Blockwise, NprogInv, ProgramChunk \/ DataLost
  PROVE  NprogInv'
<1>1. HostTypeOK /\ Placed /\ Pending /\ Verified /\ Sized /\ Ranked
  BY DEF NprogInv
<1>2. PICK c : /\ chunks' = Append(chunks, c) /\ c.start = at /\ c.count = ChunkLength /\ c.ok = FALSE /\ c \in Chunk
  <2>1. ops' \in Nat /\ notes'.fresh \in BOOLEAN
    BY NoteType, BoundAssumption DEF IndInv, TypeOK, CountTypeOK, NoteTypeOK
  <2>2. ChunkLength \in Nat /\ ChunkBlank \subseteq Nat
    <3>1. Left > 0
      BY DEF ProgramChunk, DataLost
    <3>2. ChunkLength \in 1..ppb
      BY <1>1, <3>1, SendLengths DEF Blockwise
    <3> QED
      BY <3>2, Numbers DEF ChunkBlank
  <2>3. at \in Nat
    BY <1>1 DEF HostTypeOK
  <2>4. PICK id, fresh, blank, count : id = ops' /\ fresh = notes'.fresh /\ blank = ChunkBlank /\ count = ChunkLength
    OBVIOUS
  <2>5. \E x \in {id, 0} : chunks' = Append(chunks, [id |-> x, start |-> at, count |-> count, blank |-> blank,
                                                  fresh |-> fresh, end |-> 0, ok |-> FALSE])
    BY <2>4 DEF ProgramChunk, DataLost
  <2>6. PICK x \in {id, 0} : chunks' = Append(chunks, [id |-> x, start |-> at, count |-> count, blank |-> blank,
                                                  fresh |-> fresh, end |-> 0, ok |-> FALSE])
    BY <2>5
  <2>7. x \in Nat /\ fresh \in BOOLEAN /\ blank \in SUBSET Nat /\ count \in Nat
    BY <2>1, <2>2, <2>4
  <2>8. [id |-> x, start |-> at, count |-> count, blank |-> blank, fresh |-> fresh, end |-> 0, ok |-> FALSE] \in Chunk
    BY <2>3, <2>7 DEF Chunk
  <2> QED
    BY <2>4, <2>6, <2>8
<1>3. PICK ff : /\ rq' = [op |-> "program", start |-> at, count |-> ChunkLength, option |-> "NO_OOB", ff |-> ff]
                /\ ProgramStart
  BY DEF ProgramChunk, DataLost, Request
<1>4. /\ pc = "chunk" /\ pc' = "programming" /\ Left > 0 /\ UNCHANGED <<job, at, sent>> /\ (Sound' <=> Sound)
      /\ res' = res
  BY DEF ProgramChunk, DataLost, Failure, Fails, Sound
<1>5. /\ busy' /\ flash' = flash /\ spage' = at /\ cur' = at /\ i' = 0 /\ rq'.op = "program"
      /\ rq'.start = at /\ rq'.count = ChunkLength
  BY <1>3, Begins
<1>6. /\ at \in Nat /\ at % ppb = 0 /\ ChunkLength \in 1..ppb /\ ppb \in Nat \ {0} /\ chunks \in Seq(Chunk)
      /\ FilePages \in Nat /\ sent \in Nat /\ Left = FilePages - sent /\ ChunkLength = Shorter(Left, ppb)
  BY <1>1, <1>4, SendLengths, Numbers DEF HostTypeOK, Placed, Blockwise
<1> DEFINE n == Len(chunks)
<1>7. /\ n \in Nat /\ Len(chunks') = n + 1 /\ chunks'[n + 1] = c /\ chunks' \in Seq(Chunk)
      /\ \A m \in 1..n : chunks'[m] = chunks[m]
  BY <1>2, <1>6
<1>8. chunks' # <<>> /\ (chunks = <<>> <=> n = 0) /\ Current' = c /\ (n > 0 => Current = chunks[n])
  BY <1>6, <1>7 DEF Current
<1> HIDE DEF n
<1>9. Left' = Left /\ ChunkLength' = ChunkLength /\ FilePages' = FilePages
  BY <1>4 DEF Left, ChunkLength, FilePages
<1>10. HostTypeOK' /\ Placed'
  BY <1>1, <1>4, <1>6, <1>7, <1>8, <1>9 DEF HostTypeOK, Placed
<1>11. OnItsWay'
  BY <1>2, <1>4, <1>5, <1>8, <1>9 DEF OnItsWay
<1>12. job.start <= at /\ \A m \in 1..n : job.start <= chunks[m].start /\ chunks[m].start <= at
  <2>1. CASE n = 0
    BY <1>1, <1>6, <1>8, <2>1 DEF Placed, HostTypeOK
  <2>2. CASE n > 0
    <3>1. /\ Current.start <= at
          /\ \A m \in 1..n : job.start <= chunks[m].start /\ chunks[m].start <= Current.start
      BY <1>1, <1>7, <1>8, <2>2 DEF Pending, n
    <3>2. \A m \in 1..n : chunks[m].start \in Nat
      <4>1. \A m \in 1..n : chunks[m] \in Chunk
        BY <1>6 DEF n
      <4>2. \A x \in Chunk : x.start \in Nat
        BY DEF Chunk
      <4> QED
        BY <4>1, <4>2
    <3>3. job.start \in Nat
      BY <1>1 DEF HostTypeOK
    <3> QED
      BY <1>6, <1>7, <1>8, <2>2, <3>1, <3>2, <3>3
  <2> QED
    BY <1>7, <2>1, <2>2
<1>13. Pending'
  <2>1. \A m \in 1..(n + 1) : job.start <= chunks'[m].start /\ chunks'[m].start <= at
    <3> SUFFICES ASSUME NEW m \in 1..(n + 1) PROVE job.start <= chunks'[m].start /\ chunks'[m].start <= at
      OBVIOUS
    <3>1. m \in 1..n \/ m = n + 1
      BY <1>7
    <3> QED
      BY <1>2, <1>6, <1>7, <1>12, <3>1
  <2> QED
    BY <1>2, <1>4, <1>5, <1>6, <1>7, <1>8, <1>11, <2>1 DEF Pending
<1>14. Programs'
  <2>1. Reached(flash', at, at, 0)
    BY <1>6 DEF Reached
  <2> QED
    BY <1>4, <1>5, <1>6, <2>1 DEF Programs, Programmes, Ended
<1>15. Checks'
  BY <1>4 DEF Checks
<1>16. Verified'
  <2> SUFFICES ASSUME Sound, NEW m \in 1..(n + 1), chunks'[m].ok
               PROVE  NextStart(m)' <= Floor' /\ Found(flash', chunks'[m], NextStart(m)')
    BY <1>4, <1>7 DEF Verified
  <2>1. m \in 1..n /\ chunks'[m] = chunks[m]
    BY <1>2, <1>7
  <2>2. NextStart(m)' = NextStart(m)
    <3>1. CASE m < n
      <4>1. NextStart(m) = chunks[m + 1].start /\ NextStart(m)' = chunks'[m + 1].start
        BY <1>7, <2>1, <3>1 DEF NextStart, n
      <4>2. chunks'[m + 1] = chunks[m + 1]
        BY <1>7, <2>1, <3>1
      <4> QED
        BY <4>1, <4>2
    <3>2. CASE m = n
      <4>1. NextStart(m) = at /\ NextStart(m)' = chunks'[n + 1].start
        BY <1>7, <2>1, <3>2 DEF NextStart, n
      <4> QED
        BY <1>2, <1>7, <4>1
    <3> QED
      BY <1>7, <2>1, <3>1, <3>2
  <2>3. Floor' = Floor
    BY <1>4 DEF Floor
  <2>4. NextStart(m) <= Floor /\ Found(flash, chunks[m], NextStart(m))
    BY <1>1, <2>1 DEF Verified, n
  <2> QED
    BY <1>5, <2>1, <2>2, <2>3, <2>4
\* More is left only behind a whole block.
<1>17. n > 0 => Current.count = ppb /\ sent = n * ppb
  <2> SUFFICES ASSUME n > 0 PROVE Current.count = ppb /\ sent = n * ppb
    OBVIOUS
  <2>1. /\ Before < FilePages /\ Current.count = Shorter(FilePages - Before, ppb)
        /\ sent = Before + Current.count
    BY <1>1, <1>4, <1>8 DEF Sized
  <2>2. Before = (n - 1) * ppb /\ Before \in Nat
    <3>1. n - 1 \in Nat /\ Before = (n - 1) * ppb
      BY <1>7 DEF Before, n
    <3>2. (n - 1) * ppb \in Nat
      BY <1>6, <3>1
    <3> QED
      BY <3>1, <3>2
  <2>3. Current.count = ppb
    BY <1>4, <1>6, <2>1, <2>2 DEF Shorter
  <2>4. (n - 1) * ppb + ppb = n * ppb
    BY <1>6, <1>7
  <2> QED
    BY <2>1, <2>2, <2>3, <2>4
<1>18. Sized'
  <2>1. Before' = n * ppb /\ n * ppb \in Nat
    <3>1. Before' = (n + 1 - 1) * ppb
      BY <1>7 DEF Before
    <3> QED
      BY <1>6, <1>7, <3>1
  <2>2. sent = n * ppb
    BY <1>1, <1>7, <1>8, <1>17, <1>6 DEF Placed
  <2>3. chunks'[1].start = job.start
    <3>1. CASE n = 0
      BY <1>1, <1>2, <1>7, <1>8, <3>1 DEF Placed
    <3>2. CASE n > 0
      <4>1. chunks[1].start = job.start
        BY <1>1, <1>8, <3>2 DEF Sized
      <4> QED
        BY <1>7, <3>2, <4>1
    <3> QED
      BY <1>7, <3>1, <3>2
  <2>4. \A m \in 1..n : chunks'[m].count = ppb
    <3> SUFFICES ASSUME NEW m \in 1..n PROVE chunks[m].count = ppb
      BY <1>7
    <3>1. CASE m = n
      BY <1>7, <1>8, <1>17, <3>1
    <3>2. CASE m # n
      <4>1. m \in 1..(n - 1) /\ chunks # <<>>
        BY <1>7, <1>8, <3>2
      <4> QED
        BY <1>1, <4>1 DEF Sized, n
    <3> QED
      BY <3>1, <3>2
  <2>5. n * ppb < FilePages /\ ChunkLength = Shorter(FilePages - n * ppb, ppb)
    BY <1>4, <1>6, <2>1, <2>2
  <2> QED
    BY <1>2, <1>4, <1>7, <1>8, <1>9, <2>1, <2>2, <2>3, <2>4, <2>5 DEF Sized
<1>19. Ranked'
  <2> SUFFICES ASSUME Sound, NEW m \in 1..(n + 1), \A j \in 1..(m - 1) : chunks'[j].ok
               PROVE  Cardinality(Below(flash, job.start, chunks'[m].start)) = (m - 1) * ppb
    BY <1>4, <1>5, <1>7 DEF Ranked
  <2>1. \A j \in 1..(m - 1) : chunks[j].ok
    BY <1>7
  <2>2. CASE m \in 1..n
    BY <1>1, <1>7, <2>1, <2>2 DEF Ranked, n
  <2>3. CASE m = 1 /\ n = 0
    <3>1. chunks'[m].start = job.start
      BY <1>1, <1>2, <1>7, <1>8, <2>3 DEF Placed
    <3>2. Below(flash, job.start, job.start) = {}
      BY <1>1 DEF Below, Goods, HostTypeOK
    <3>3. (m - 1) * ppb = 0
      BY <1>6, <2>3
    <3> QED
      BY <3>1, <3>2, <3>3, FS_EmptySet
  <2>4. CASE m = n + 1 /\ n > 0
    <3>1. n \in 1..n /\ Current.ok /\ Current = chunks[n] /\ n - 1 \in Nat
      BY <1>7, <1>8, <2>1, <2>4
    <3>2. NextStart(n) = at
      BY <1>7 DEF NextStart, n
    <3>3. Found(flash, Current, at)
      BY <1>1, <3>1, <3>2 DEF Verified, n
    <3>4. PICK base, start : base = at - ppb /\ start = Current.start
      OBVIOUS
    <3>5. /\ at <= TotalPages /\ base % ppb = 0 /\ start <= base /\ Passed(flash, start, base)
          /\ ~IsBad(flash, base \div ppb) /\ ppb <= at
      BY <1>6, <1>17, <2>4, <3>3, <3>4 DEF Found, Reached
    <3>6. start \in Nat /\ job.start \in Nat /\ job.start <= start /\ base \in Nat /\ base + ppb = at
      <4>1. Current \in Chunk
        BY <1>6, <3>1 DEF n
      <4>2. start \in Nat
        BY <3>4, <4>1 DEF Chunk
      <4>3. job.start \in Nat /\ job.start <= start
        BY <1>1, <1>12, <3>1, <3>4 DEF HostTypeOK
      <4>4. base \in Nat /\ base + ppb = at
        BY <1>6, <3>4, <3>5
      <4> QED
        BY <4>2, <4>3, <4>4
    <3>7. Cardinality(Below(flash, job.start, at)) = Cardinality(Below(flash, job.start, start)) + ppb
      <4>1. Behind(flash, job.start, start, base, ppb, at)
        BY <1>6, <3>5, <3>6 DEF Behind
      <4> QED
        BY <4>1, BelowGrows
    <3>8. Cardinality(Below(flash, job.start, start)) = (n - 1) * ppb
      <4>1. \A j \in 1..(n - 1) : chunks[j].ok
        BY <1>7, <2>1, <2>4
      <4> QED
        BY <1>1, <3>1, <3>4, <4>1 DEF Ranked, n
    <3>9. (n - 1) * ppb + ppb = (m - 1) * ppb
      BY <1>6, <1>7, <2>4
    <3> QED
      BY <1>2, <1>7, <2>4, <3>6, <3>7, <3>8, <3>9
  <2> QED
    BY <1>7, <2>2, <2>3, <2>4
<1> QED
  BY <1>10, <1>13, <1>14, <1>15, <1>16, <1>18, <1>19 DEF NprogInv

\* The chunks but for a field of the last one that says where it ended or if it was right.
LastChanged ==
  /\ chunks' \in Seq(Chunk) /\ Len(chunks') = Len(chunks)
  /\ \A m \in 1..(Len(chunks) - 1) : chunks'[m] = chunks[m]
  /\ Current'.start = Current.start /\ Current'.count = Current.count
  /\ Current'.id = Current.id /\ Current'.blank = Current.blank

LEMMA LastEnds ==
  ASSUME HostTypeOK, chunks # <<>>, NEW e \in Nat, chunks' = [chunks EXCEPT ![Len(chunks)].end = e]
  PROVE  LastChanged /\ Current'.end = e /\ Current'.ok = Current.ok
<1>1. chunks \in Seq(Chunk) /\ Len(chunks) \in Nat \ {0}
  BY DEF HostTypeOK
<1>2. PICK n, c : n = Len(chunks) /\ c = chunks[n]
  OBVIOUS
<1>3. n \in 1..Len(chunks) /\ c \in Chunk
  BY <1>1, <1>2
<1>4. PICK d : d = [c EXCEPT !.end = e]
  OBVIOUS
<1>5. /\ d \in Chunk /\ d.start = c.start /\ d.count = c.count /\ d.id = c.id /\ d.blank = c.blank
      /\ d.end = e /\ d.ok = c.ok
  BY <1>3, <1>4 DEF Chunk
<1>6. chunks' = [chunks EXCEPT ![n] = d]
  BY <1>2, <1>4
<1>7. chunks' \in Seq(Chunk) /\ Len(chunks') = n /\ chunks'[n] = d /\ \A m \in 1..(n - 1) : chunks'[m] = chunks[m]
  BY <1>1, <1>2, <1>3, <1>5, <1>6
<1> QED
  BY <1>2, <1>5, <1>7 DEF LastChanged, Current

LEMMA LastChecked ==
  ASSUME HostTypeOK, chunks # <<>>, NEW right \in BOOLEAN, chunks' = [chunks EXCEPT ![Len(chunks)].ok = right]
  PROVE  LastChanged /\ Current'.ok = right
<1>1. chunks \in Seq(Chunk) /\ Len(chunks) \in Nat \ {0}
  BY DEF HostTypeOK
<1>2. PICK n, c : n = Len(chunks) /\ c = chunks[n]
  OBVIOUS
<1>3. n \in 1..Len(chunks) /\ c \in Chunk
  BY <1>1, <1>2
<1>4. PICK d : d = [c EXCEPT !.ok = right]
  OBVIOUS
<1>5. /\ d \in Chunk /\ d.start = c.start /\ d.count = c.count /\ d.id = c.id /\ d.blank = c.blank
      /\ d.ok = right
  BY <1>3, <1>4 DEF Chunk
<1>6. chunks' = [chunks EXCEPT ![n] = d]
  BY <1>2, <1>4
<1>7. chunks' \in Seq(Chunk) /\ Len(chunks') = n /\ chunks'[n] = d /\ \A m \in 1..(n - 1) : chunks'[m] = chunks[m]
  BY <1>1, <1>2, <1>3, <1>5, <1>6
<1> QED
  BY <1>2, <1>5, <1>7 DEF LastChanged, Current

\* What it leaves alone.
LEMMA LastStarts ==
  ASSUME HostTypeOK, chunks # <<>>, LastChanged
  PROVE  /\ chunks' # <<>> /\ Before' = Before
         /\ \A m \in 1..Len(chunks) : chunks'[m].start = chunks[m].start /\ chunks'[m].count = chunks[m].count
         /\ \A m \in 1..(Len(chunks) - 1) : chunks'[m] = chunks[m] /\ NextStart(m)' = NextStart(m)
         /\ NextStart(Len(chunks)) = at /\ NextStart(Len(chunks))' = at'
<1>1. chunks \in Seq(Chunk) /\ chunks' \in Seq(Chunk) /\ Len(chunks) \in Nat \ {0}
  BY DEF HostTypeOK, LastChanged
<1>2. PICK n : n = Len(chunks)
  OBVIOUS
<1>3. n \in Nat \ {0} /\ Len(chunks') = n /\ \A m \in 1..(n - 1) : chunks'[m] = chunks[m]
  BY <1>1, <1>2 DEF LastChanged
<1>4. \A m \in 1..n : chunks'[m].start = chunks[m].start /\ chunks'[m].count = chunks[m].count
  <2> SUFFICES ASSUME NEW m \in 1..n PROVE chunks'[m].start = chunks[m].start /\ chunks'[m].count = chunks[m].count
    OBVIOUS
  <2>1. CASE m = n
    BY <1>2, <1>3, <2>1 DEF LastChanged, Current
  <2>2. CASE m # n
    BY <1>3, <2>2
  <2> QED
    BY <2>1, <2>2
<1>5. \A m \in 1..(n - 1) : NextStart(m)' = NextStart(m)
  <2> SUFFICES ASSUME NEW m \in 1..(n - 1) PROVE NextStart(m)' = NextStart(m)
    OBVIOUS
  <2>1. m < n /\ m + 1 \in 1..n
    BY <1>3
  <2>2. NextStart(m) = chunks[m + 1].start /\ NextStart(m)' = chunks'[m + 1].start
    BY <1>2, <1>3, <2>1 DEF NextStart
  <2> QED
    BY <1>4, <2>1, <2>2
<1>6. chunks' # <<>> /\ Before' = Before
  BY <1>1, <1>2, <1>3 DEF Before
<1>7. NextStart(n) = at /\ NextStart(n)' = at'
  BY <1>2, <1>3 DEF NextStart
<1> QED
  BY <1>2, <1>3, <1>4, <1>5, <1>6, <1>7

\* It is read back from where it started.
LEMMA ReadBackChunkInv ==
  ASSUME IndInv, Blockwise, NprogInv, ReadBackChunk
  PROVE  NprogInv'
<1>1. HostTypeOK /\ Placed /\ Pending /\ Programs /\ Verified /\ Sized /\ Ranked
  BY DEF NprogInv
<1>2. /\ pc = "programming" /\ pc' = "check" /\ ~busy /\ UNCHANGED <<job, at, sent>> /\ (Sound' <=> Sound)
      /\ chunks' = [chunks EXCEPT ![Len(chunks)].end = ret] /\ ReadStart /\ res' = res
      /\ rq' = [op |-> "read", start |-> at, count |-> ChunkLength, option |-> "NO_OOB", ff |-> {}]
  BY DEF ReadBackChunk, Request, Sound

<1>3. chunks # <<>> /\ rq.op = "program" /\ OnItsWay
  BY <1>1, <1>2 DEF Placed, Pending
<1>4. ret \in Nat
  BY DEF IndInv, TypeOK, DriverTypeOK
<1>5. LastChanged /\ Current'.end = ret /\ Current'.ok = Current.ok
  BY <1>1, <1>2, <1>3, <1>4, LastEnds
<1>6. /\ chunks' # <<>> /\ Before' = Before
      /\ \A m \in 1..Len(chunks) : chunks'[m].start = chunks[m].start /\ chunks'[m].count = chunks[m].count
      /\ \A m \in 1..(Len(chunks) - 1) : chunks'[m] = chunks[m] /\ NextStart(m)' = NextStart(m)
  BY <1>1, <1>3, <1>5, LastStarts
<1>7. /\ busy' /\ flash' = flash /\ cur' = at /\ i' = 0 /\ buf' = <<>> /\ rq'.op = "read"
      /\ rq'.start = at /\ rq'.count = ChunkLength
  BY <1>2, Begins
<1>8. Left' = Left /\ ChunkLength' = ChunkLength /\ FilePages' = FilePages
  BY <1>2 DEF Left, ChunkLength, FilePages
<1>9. /\ Left > 0 /\ rq.count = ChunkLength /\ ChunkLength \in 1..ppb /\ at \in Nat /\ at % ppb = 0
      /\ Len(chunks') = Len(chunks) /\ Len(chunks) \in Nat \ {0} /\ ppb \in Nat
  BY <1>1, <1>3, <1>5, SendLengths, Numbers DEF OnItsWay, Placed, Blockwise, LastChanged, HostTypeOK
<1>10. HostTypeOK' /\ Placed'
  BY <1>1, <1>2, <1>5, <1>6, <1>8, <1>9 DEF HostTypeOK, Placed, LastChanged
<1>11. OnItsWay'
  BY <1>3, <1>2, <1>5, <1>7, <1>8 DEF OnItsWay, LastChanged
<1>12. Pending'
  <2>1. \A m \in 1..Len(chunks) : job.start <= chunks[m].start /\ chunks[m].start <= Current.start
    BY <1>1, <1>3 DEF Pending
  <2>2. Current.start <= at /\ Current'.start = Current.start
    BY <1>1, <1>3, <1>5 DEF Pending, LastChanged
  <2>3. \A m \in 1..Len(chunks') : job'.start <= chunks'[m].start /\ chunks'[m].start <= Current'.start
    BY <1>2, <1>6, <1>9, <2>1, <2>2
  <2> QED
    BY <1>2, <1>6, <1>7, <1>11, <2>2, <2>3 DEF Pending
<1>13. Programs'
  BY <1>7 DEF Programs
<1>14. /\ Programmes(flash, at, spage, cur, i, rq.count) /\ i = rq.count /\ ret = cur
       /\ (Sound /\ i > 0 => cur <= TotalPages)
  BY <1>1, <1>2, <1>3 DEF Programs, Ended
<1>15. Reached(flash, at, ret, ChunkLength) /\ (Sound => ret <= TotalPages)
  <2>1. spage \in Nat /\ cur \in Nat
    BY Typed
  <2> QED
    BY <1>9, <1>14, <2>1 DEF Programmes, Reached
<1>16. Checks'
  <2>1. Passed(flash, at, at)
    <3>1. at \div ppb \in Nat
      BY <1>9, PageOfBlock
    <3> QED
      BY <3>1 DEF Passed
  <2>2. Reads(flash, at, ret, at, 0, ChunkLength, buf')
    <3>1. Len(buf') = 0
      BY <1>7
    <3>2. Reached(flash, at, at, 0) /\ at - 0 = at /\ at <= ret - ChunkLength
      BY <1>9, <1>15 DEF Reached
    <3> QED
      BY <1>9, <2>1, <3>1, <3>2 DEF Reads
  <2>3. Ended'
    BY <1>7 DEF Ended
  <2> QED
    BY <1>2, <1>5, <1>7, <1>15, <2>2, <2>3 DEF Checks
<1>17. Verified'
  <2> SUFFICES ASSUME Sound, NEW m \in 1..Len(chunks), chunks'[m].ok
               PROVE  NextStart(m)' <= Floor' /\ Found(flash', chunks'[m], NextStart(m)')
    BY <1>2, <1>9 DEF Verified
  <2>1. m \in 1..(Len(chunks) - 1)
    <3>1. ~Current'.ok
      BY <1>3, <1>5 DEF OnItsWay
    <3> QED
      BY <1>9, <3>1 DEF Current
  <2>2. chunks'[m] = chunks[m] /\ NextStart(m)' = NextStart(m) /\ Floor' = Floor
    BY <1>2, <1>6, <2>1 DEF Floor
  <2> QED
    BY <1>1, <1>7, <2>2 DEF Verified
<1>18. Sized'
  <2>1. /\ chunks'[1].start = job.start /\ \A m \in 1..(Len(chunks') - 1) : chunks'[m].count = ppb
    <3>1. 1 \in 1..Len(chunks) /\ \A m \in 1..(Len(chunks) - 1) : m \in 1..Len(chunks)
      BY <1>9
    <3> QED
      BY <1>1, <1>3, <1>6, <1>9, <3>1 DEF Sized
  <2> QED
    BY <1>1, <1>2, <1>3, <1>5, <1>6, <1>8, <2>1 DEF Sized, LastChanged
<1>19. Ranked'
  <2> SUFFICES ASSUME Sound, NEW m \in 1..Len(chunks), \A j \in 1..(m - 1) : chunks'[j].ok
               PROVE  Cardinality(Below(flash, job.start, chunks'[m].start)) = (m - 1) * ppb
    BY <1>2, <1>7, <1>9 DEF Ranked
  <2>1. \A j \in 1..(m - 1) : chunks[j].ok
    <3>1. \A j \in 1..(m - 1) : j \in 1..(Len(chunks) - 1)
      BY <1>9
    <3> QED
      BY <1>6, <3>1
  <2> QED
    BY <1>1, <1>6, <2>1 DEF Ranked
<1> QED
  BY <1>10, <1>12, <1>13, <1>16, <1>17, <1>18, <1>19 DEF NprogInv

\* What the comparison finds, or takes for found.
LEMMA CheckOutcome ==
  ASSUME IndInv, NprogInv, Check \/ CheckLost
  PROVE  \E e \in Nat, right \in BOOLEAN :
           /\ chunks' = [chunks EXCEPT ![Len(chunks)].ok = right] /\ at' = e
           /\ pc' \in {"mark", "chunk"} /\ (pc' = "mark" => ~right /\ e % ppb = 0)
           /\ Reached(flash, at, e, rq.count) /\ (Sound => e <= TotalPages)
           /\ right => Passed(flash, at, e - rq.count) /\ Same(buf, Current) /\ Len(buf) = rq.count
                       /\ \A k \in 0..(rq.count - 1) : buf[k + 1] = In(flash, e - rq.count + k)
<1>1. HostTypeOK /\ Placed /\ Pending /\ Checks
  BY DEF NprogInv
<1>2. pc = "check" /\ ~busy
  BY DEF Check, CheckLost
<1>3. chunks # <<>>
  BY <1>1, <1>2 DEF Placed
<1>4. PICK end : end = Current.end
  OBVIOUS
<1>5. /\ Reached(flash, at, end, rq.count) /\ (Sound => end <= TotalPages)
      /\ Reads(flash, at, end, cur, i, rq.count, buf) /\ i = rq.count /\ ret = cur
  BY <1>1, <1>2, <1>3, <1>4 DEF Checks, Ended
<1>6. end \in Nat /\ ret \in Nat /\ rq.count \in Nat /\ TotalPages \in Nat
  <2>1. Current \in Chunk
    BY <1>1, <1>3 DEF HostTypeOK, Current
  <2> QED
    BY <1>4, <2>1, Typed, Total DEF Chunk, IndInv, TypeOK, DriverTypeOK
<1>7. CASE CheckLost
  <2>1. Compared(end, FALSE)
    BY <1>4, <1>7 DEF CheckLost, Current
  <2>2. /\ chunks' = [chunks EXCEPT ![Len(chunks)].ok = FALSE] /\ at' = end
        /\ pc' \in {"mark", "chunk"} /\ (pc' = "mark" => end % ppb = 0)
    BY <2>1 DEF Compared, Position
  <2> QED
    BY <1>5, <1>6, <2>2
<1>8. CASE Check
  <2>1. PICK equal : equal = Same(buf, Current) /\ Compared(ret, equal)
    BY <1>8 DEF Check, Current
  <2> DEFINE right == equal /\ ~(at = 0 /\ pagesize = 4096)
  <2>3. /\ chunks' = [chunks EXCEPT ![Len(chunks)].ok = right] /\ at' = ret
        /\ pc' \in {"mark", "chunk"} /\ (pc' = "mark" => ~right /\ ret % ppb = 0)
    <3>1. chunks' = [chunks EXCEPT ![Len(chunks)].ok = right] /\ at' = ret
      BY <2>1, Zenon DEF Compared, Position
    <3>2. pc' = IF ~(at = 0 /\ pagesize = 4096) /\ ~equal /\ ret % ppb = 0 THEN "mark" ELSE "chunk"
      BY <2>1, Zenon DEF Compared, Position
    <3>3. pc' = "mark" => ~equal /\ ret % ppb = 0
      BY <3>2
    <3>4. pc' \in {"mark", "chunk"}
      BY <3>2
    <3> QED
      BY <3>1, <3>3, <3>4
  <2>4. right => Same(buf, Current)
    BY <2>1
  <2>5. right \in BOOLEAN
    OBVIOUS
  <2>6. /\ Reached(flash, at, ret, rq.count) /\ (Sound => ret <= TotalPages)
        /\ Passed(flash, at, ret - rq.count) /\ Len(buf) = rq.count
        /\ \A k \in 0..(rq.count - 1) : buf[k + 1] = In(flash, ret - rq.count + k)
    BY <1>5, <1>6 DEF Reads
  <2> HIDE DEF right
  <2> QED
    BY <1>6, <2>3, <2>4, <2>5, <2>6
<1> QED
  BY <1>7, <1>8

\* The chunk is compared, and the command goes on where it ended.
LEMMA CheckInv ==
  ASSUME IndInv, Blockwise, NprogInv, Check \/ CheckLost
  PROVE  NprogInv'
<1>1. HostTypeOK /\ Placed /\ Pending /\ Verified /\ Sized /\ Ranked
  BY DEF NprogInv
<1>2. /\ pc = "check" /\ ~busy /\ UNCHANGED <<vars, job, res>> /\ (Sound' <=> Sound) /\ sent' = sent + ChunkLength
  BY DEF Check, CheckLost, Compared, Failure, Fails, Sound
<1>3. UNCHANGED <<flash, busy, rq, cur, i, spage, buf, ret>>
  BY <1>2 DEF vars, progVars
<1>4. chunks # <<>> /\ OnItsWay
  BY <1>1, <1>2 DEF Placed, Pending
<1>5. PICK e \in Nat, right \in BOOLEAN :
        /\ chunks' = [chunks EXCEPT ![Len(chunks)].ok = right] /\ at' = e
        /\ pc' \in {"mark", "chunk"} /\ (pc' = "mark" => ~right /\ e % ppb = 0)
        /\ Reached(flash, at, e, rq.count) /\ (Sound => e <= TotalPages)
        /\ right => Passed(flash, at, e - rq.count) /\ Same(buf, Current) /\ Len(buf) = rq.count
                    /\ \A k \in 0..(rq.count - 1) : buf[k + 1] = In(flash, e - rq.count + k)
  BY CheckOutcome
<1>6. LastChanged /\ Current'.ok = right
  BY <1>1, <1>4, <1>5, LastChecked
<1>7. /\ chunks' # <<>> /\ Before' = Before
      /\ \A m \in 1..Len(chunks) : chunks'[m].start = chunks[m].start /\ chunks'[m].count = chunks[m].count
      /\ \A m \in 1..(Len(chunks) - 1) : chunks'[m] = chunks[m] /\ NextStart(m)' = NextStart(m)
      /\ NextStart(Len(chunks)) = at /\ NextStart(Len(chunks))' = e
  BY <1>1, <1>4, <1>5, <1>6, LastStarts
<1> DEFINE n == rq.count
<1>8. /\ n = ChunkLength /\ n \in 1..ppb /\ n <= Left /\ (Left - n > 0 => n = ppb) /\ Left > 0
      /\ FilePages \in Nat /\ Left = FilePages - sent /\ sent \in Nat
      /\ Current.start = at /\ Current.count = n /\ at \in Nat /\ at % ppb = 0
      /\ Len(chunks') = Len(chunks) /\ Len(chunks) \in Nat \ {0} /\ ppb \in Nat \ {0} /\ TotalPages \in Nat
  BY <1>1, <1>4, <1>6, SendLengths, Numbers, Total DEF OnItsWay, Placed, Blockwise, LastChanged, HostTypeOK
<1> HIDE DEF n
<1>9. /\ n <= e /\ (e - n) % ppb = 0 /\ at <= e - n /\ ~IsBad(flash, (e - n) \div ppb)
  BY <1>5, <1>8 DEF Reached, n
<1>10. FilePages' = FilePages /\ Left' = Left - n /\ sent' = sent + n
  BY <1>2, <1>8 DEF Left, FilePages
<1>11. HostTypeOK'
  BY <1>1, <1>2, <1>5, <1>6, <1>8, <1>10 DEF HostTypeOK, LastChanged
<1>12. Left' > 0 \/ pc' = "mark" => e % ppb = 0
  <2>1. ASSUME Left' > 0 PROVE e % ppb = 0
    <3>1. n = ppb
      BY <1>8, <1>10, <2>1
    <3>2. PICK base : base = e - n
      OBVIOUS
    <3>3. base \in Nat /\ base % ppb = 0 /\ e = base + ppb
      BY <1>8, <1>9, <3>1, <3>2
    <3>4. (base + ppb) % ppb = 0
      BY <3>3, NextBlock
    <3> QED
      BY <3>3, <3>4
  <2> QED
    BY <1>5, <2>1
<1>13. Placed'
  BY <1>2, <1>5, <1>7, <1>12 DEF Placed
<1>14. at <= e /\ (pc' = "mark" => at + ppb <= e)
  <2>1. at < e
    BY <1>8, <1>9
  <2>2. ASSUME pc' = "mark" PROVE at + ppb <= e
    <3>1. e % ppb = 0
      BY <1>12, <2>2
    <3> QED
      BY <1>8, <2>1, <3>1, BlocksApart
  <2> QED
    BY <1>8, <2>1, <2>2
<1>15. Pending'
  <2>1. \A m \in 1..Len(chunks) : job.start <= chunks[m].start /\ chunks[m].start <= Current.start
    BY <1>1, <1>4 DEF Pending
  <2>2. Current'.start = at
    BY <1>6, <1>8 DEF LastChanged
  <2>3. \A m \in 1..Len(chunks') : job'.start <= chunks'[m].start /\ chunks'[m].start <= Current'.start
    BY <1>2, <1>7, <1>8, <2>1, <2>2
  <2>4. pc' = "mark" => ~Current'.ok /\ Current'.start <= at' - ppb
    BY <1>5, <1>6, <1>8, <1>14, <2>2
  <2> QED
    BY <1>2, <1>3, <1>5, <1>7, <1>14, <2>2, <2>3, <2>4 DEF Pending
<1>16. Programs' /\ Checks'
  BY <1>2, <1>3, <1>5 DEF Programs, Checks
<1>17. at <= Floor'
  BY <1>5, <1>8, <1>14 DEF Floor
<1>18. Verified'
  <2> SUFFICES ASSUME Sound, NEW m \in 1..Len(chunks), chunks'[m].ok
               PROVE  NextStart(m)' <= Floor' /\ Found(flash, chunks'[m], NextStart(m)')
    BY <1>2, <1>3, <1>8 DEF Verified
  <2>1. CASE m # Len(chunks)
    <3>1. m \in 1..(Len(chunks) - 1) /\ m \in 1..Len(chunks)
      BY <1>8, <2>1
    <3>2. chunks'[m] = chunks[m] /\ NextStart(m)' = NextStart(m)
      BY <1>7, <3>1
    <3>3. NextStart(m) <= at /\ Found(flash, chunks[m], NextStart(m))
      BY <1>1, <1>2, <3>1, <3>2 DEF Verified, Floor
    <3>4. NextStart(m) \in Nat
      <4>1. m + 1 \in 1..Len(chunks) /\ chunks \in Seq(Chunk)
        BY <1>1, <1>8, <3>1 DEF HostTypeOK
      <4>2. chunks[m + 1] \in Chunk
        BY <4>1
      <4> QED
        BY <1>8, <3>1, <4>2 DEF NextStart, Chunk
    <3>5. Floor' \in Nat
      BY <1>5, <1>8, <1>14 DEF Floor
    <3> QED
      BY <1>8, <1>17, <3>2, <3>3, <3>4, <3>5
  <2>2. CASE m = Len(chunks)
    <3>1. right /\ chunks'[m] = Current'
      BY <1>6, <1>8, <2>2 DEF Current
    <3>2. pc' = "chunk" /\ Floor' = e /\ NextStart(m)' = e
      BY <1>5, <1>7, <2>2, <3>1 DEF Floor
    <3>3. PICK c : c = Current'
      OBVIOUS
    <3>4. c.start = at /\ c.count = n /\ c.id = Current.id /\ c.blank = Current.blank
      BY <1>6, <1>8, <3>3 DEF LastChanged
    <3>5. \A k \in 0..(n - 1) : SamePage(In(flash, e - n + k), c, k)
      <4> SUFFICES ASSUME NEW k \in 0..(n - 1) PROVE SamePage(In(flash, e - n + k), c, k)
        OBVIOUS
      <4>1. buf[k + 1] = In(flash, e - n + k)
        BY <1>5, <3>1 DEF n
      <4>2. SamePage(buf[k + 1], Current, k)
        BY <1>5, <1>8, <3>1 DEF Same
      <4>3. SamePage(buf[k + 1], c, k)
        BY <3>4, <4>2 DEF SamePage
      <4> QED
        BY <4>1, <4>3
    <3>6. Passed(flash, at, e - n) /\ e <= TotalPages /\ Reached(flash, at, e, n)
      BY <1>5, <3>1 DEF n
    <3>7. Found(flash, c, e)
      BY <1>8, <3>4, <3>5, <3>6 DEF Found
    <3> QED
      BY <3>1, <3>2, <3>3, <3>7
  <2> QED
    BY <2>1, <2>2
<1>19. Sized'
  <2>1. /\ chunks'[1].start = job.start /\ \A m \in 1..(Len(chunks') - 1) : chunks'[m].count = ppb
    <3>1. 1 \in 1..Len(chunks) /\ \A m \in 1..(Len(chunks) - 1) : m \in 1..Len(chunks)
      BY <1>8
    <3> QED
      BY <1>1, <1>4, <1>7, <1>8, <3>1 DEF Sized
  <2>2. sent = Before /\ Current'.count = n /\ Before < FilePages /\ n = Shorter(FilePages - Before, ppb)
    BY <1>1, <1>2, <1>4, <1>6, <1>8 DEF Sized, LastChanged
  <2> QED
    BY <1>2, <1>5, <1>7, <1>10, <2>1, <2>2 DEF Sized
<1>20. Ranked'
  <2> SUFFICES ASSUME Sound, NEW m \in 1..Len(chunks), \A j \in 1..(m - 1) : chunks'[j].ok
               PROVE  Cardinality(Below(flash, job.start, chunks'[m].start)) = (m - 1) * ppb
    BY <1>2, <1>3, <1>8 DEF Ranked
  <2>1. \A j \in 1..(m - 1) : chunks[j].ok
    <3>1. \A j \in 1..(m - 1) : j \in 1..(Len(chunks) - 1)
      BY <1>8
    <3> QED
      BY <1>7, <3>1
  <2> QED
    BY <1>1, <1>7, <2>1 DEF Ranked
<1> QED
  BY <1>11, <1>13, <1>15, <1>16, <1>18, <1>19, <1>20 DEF NprogInv

\* What was found stays while only a block behind it changes.
LEMMA FoundKept ==
  ASSUME HostTypeOK, Verified, Ranked, Sound, UNCHANGED <<job, at, chunks>>,
         NEW d \in Nat, Elsewhere(flash, flash', d), Floor \in Nat, Floor <= d * ppb,
         Floor' \in Nat, Floor <= Floor', \A m \in 1..Len(chunks) : chunks[m].start <= d * ppb
  PROVE  Verified' /\ Ranked'
<1>0. /\ ppb \in Nat \ {0} /\ d * ppb \in Nat /\ job.start \in Nat /\ at \in Nat /\ Len(chunks) \in Nat
      /\ \A m \in 1..Len(chunks) : chunks[m] \in Chunk /\ chunks[m].start \in Nat
  <2>1. \A x \in Chunk : x.start \in Nat
    BY DEF Chunk
  <2> QED
    BY <2>1, Numbers, MulMono DEF HostTypeOK
<1>1. ASSUME NEW m \in 1..Len(chunks), chunks[m].ok
      PROVE  NextStart(m)' <= Floor' /\ Found(flash', chunks'[m], NextStart(m)')
  <2>1. NextStart(m) <= Floor /\ Found(flash, chunks[m], NextStart(m))
    BY <1>1 DEF Verified
  <2>2. NextStart(m) \in Nat
    <3>1. m < Len(chunks) => m + 1 \in 1..Len(chunks)
      BY <1>0
    <3> QED
      BY <1>0, <3>1 DEF NextStart
  <2>3. PICK c, next : c = chunks[m] /\ next = NextStart(m)
    OBVIOUS
  <2>4. next \in Nat /\ c.start \in Nat /\ Found(flash, c, next) /\ next <= d * ppb
    BY <1>0, <2>1, <2>2, <2>3
  <2>5. Found(flash', c, next)
    BY <2>4, FoundStays
  <2>6. NextStart(m)' = NextStart(m)
    BY DEF NextStart
  <2> QED
    BY <2>1, <2>2, <2>3, <2>5, <2>6
<1>2. Verified'
  BY <1>1 DEF Verified
<1>3. Ranked'
  <2> SUFFICES ASSUME NEW m \in 1..Len(chunks), \A j \in 1..(m - 1) : chunks[j].ok
               PROVE  Cardinality(Below(flash', job.start, chunks[m].start)) = (m - 1) * ppb
    BY DEF Ranked
  <2>1. Cardinality(Below(flash, job.start, chunks[m].start)) = (m - 1) * ppb
    BY DEF Ranked
  <2>2. Below(flash', job.start, chunks[m].start) = Below(flash, job.start, chunks[m].start)
    BY <1>0, BelowStays
  <2> QED
    BY <2>1, <2>2
<1> QED
  BY <1>2, <1>3

\* The host marks the block before the one it goes on with.
LEMMA MarkInv ==
  ASSUME IndInv, Blockwise, NprogInv, nand_markbad \/ MarkLost
  PROVE  NprogInv'
<1>1. HostTypeOK /\ Placed /\ Pending /\ Verified /\ Sized /\ Ranked
  BY DEF NprogInv
<1>2. pc = "mark" /\ pc' = "chunk" /\ UNCHANGED <<job, at, sent, chunks, res>>
  BY DEF nand_markbad, MarkLost
<1>3. chunks # <<>> /\ ~busy /\ ~busy'
  <2>1. chunks # <<>> /\ ~busy
    BY <1>1, <1>2 DEF Placed, Pending
  <2>2. busy' = busy
    BY DEF nand_markbad, MarkLost, nand_mark_bad_4740, vars
  <2> QED
    BY <2>1, <2>2
<1>4. Left' = Left /\ ChunkLength' = ChunkLength /\ FilePages' = FilePages /\ Current' = Current /\ Before' = Before
  BY <1>2 DEF Left, ChunkLength, FilePages, Current, Before
<1>5. /\ at \in Nat /\ at % ppb = 0 /\ Current.start <= at - ppb /\ ~Current.ok /\ Current \in Chunk
      /\ (Sound => at <= TotalPages) /\ ppb \in Nat \ {0} /\ Len(chunks) \in Nat \ {0}
      /\ \A m \in 1..Len(chunks) : job.start <= chunks[m].start /\ chunks[m].start <= Current.start
  BY <1>1, <1>2, <1>3, Numbers DEF HostTypeOK, Placed, Pending, Current
<1>6. HostTypeOK' /\ Placed' /\ Sized'
  BY <1>1, <1>2, <1>3, <1>4 DEF HostTypeOK, Placed, Sized
<1>7. Pending'
  <2>1. Current.start <= at
    BY <1>1, <1>3 DEF Pending
  <2> QED
    BY <1>2, <1>3, <1>4, <1>5, <2>1 DEF Pending
<1>8. Programs' /\ Checks'
  BY <1>2, <1>3 DEF Programs, Checks
<1>9. Current.start \in Nat
  BY <1>5 DEF Chunk
<1>10. Floor = at - ppb /\ Floor' = at /\ Floor \in Nat
  BY <1>2, <1>5, <1>9 DEF Floor
<1>11. ASSUME Sound' PROVE Verified' /\ Ranked'
  <2>1. Sound
    BY <1>11 DEF Sound, nand_markbad, MarkLost, Failure, Fails
  <2>2. PICK base : base = at - ppb
    OBVIOUS
  <2>3. PICK d : d = base \div ppb
    OBVIOUS
  <2>4. /\ base \in Nat /\ base % ppb = 0 /\ at = base + ppb /\ base = d * ppb /\ d \in Nat
    <3>1. base \in Nat /\ at = base + ppb
      BY <1>5, <1>9, <2>2
    <3>2. base % ppb = 0
      BY <1>5, <3>1, NextBlockSamePage
    <3> QED
      BY <2>3, <3>1, <3>2, NextBlock, PageOfBlock
  <2>5. Elsewhere(flash, flash', d)
    <3>1. CASE UNCHANGED vars
      <4>1. flash' = flash
        BY <3>1 DEF vars
      <4> QED
        BY <4>1, SameElsewhere
    <3>2. CASE ~UNCHANGED vars
      <4>1. /\ nand_mark_bad_4740 /\ rq'.start = (at - 1) \div ppb /\ sel = Chip((at - 1) \div ppb)
        BY <1>11, <3>2 DEF nand_markbad, MarkLost, Failure, Fails, Sound, Request
      <4>2. (at - 1) \div ppb = d
        <5>1. ppb - 1 \in 0..(ppb - 1) /\ at - 1 = base + (ppb - 1)
          BY <1>5, <2>4
        <5>2. (base + (ppb - 1)) \div ppb = base \div ppb
          BY <2>4, <5>1, PagesOfBlock
        <5> QED
          BY <2>3, <5>1, <5>2
      <4>3. d \in BlockNumbers
        <5>1. base + ppb <= AllBlocks * ppb
          BY <1>5, <2>1, <2>4, Total
        <5>2. d < AllBlocks /\ AllBlocks \in Nat
          BY <2>3, <2>4, <5>1, NextBlock, AllPages
        <5> QED
          BY <2>4, <5>2 DEF BlockNumbers
      <4> QED
        BY <4>1, <4>2, <4>3, HostMarkElsewhere
    <3> QED
      BY <3>1, <3>2
  <2>6. Floor <= d * ppb /\ Floor <= Floor' /\ \A m \in 1..Len(chunks) : chunks[m].start <= d * ppb
    <3>1. \A m \in 1..Len(chunks) : chunks[m].start \in Nat
      <4>1. \A m \in 1..Len(chunks) : chunks[m] \in Chunk
        BY <1>1 DEF HostTypeOK
      <4>2. \A x \in Chunk : x.start \in Nat
        BY DEF Chunk
      <4> QED
        BY <4>1, <4>2
    <3>2. d * ppb = base /\ Floor = base /\ Floor' = base + ppb /\ Current.start <= base
      BY <1>5, <1>9, <1>10, <2>2, <2>4
    <3> QED
      BY <1>5, <1>9, <2>4, <3>1, <3>2
  <2> QED
    BY <1>1, <1>2, <1>5, <1>10, <2>1, <2>4, <2>5, <2>6, FoundKept
<1>12. Verified' /\ Ranked'
  BY <1>11 DEF Verified, Ranked
<1> QED
  BY <1>6, <1>7, <1>8, <1>12 DEF NprogInv

\* The program request of the chunk.
LEMMA ProgramRunInv ==
  ASSUME IndInv, Blockwise, NprogInv, DeviceStep, chunks # <<>>, rq.op = "program"
  PROVE  (Programs /\ OnItsWay /\ Verified /\ Ranked)' /\ rq' = rq /\ (busy' => busy)
<1>1. HostTypeOK /\ Placed /\ Pending /\ Programs /\ Verified /\ Ranked
  BY DEF NprogInv
<1>2. /\ Driver /\ UNCHANGED <<pc, job, at, sent, chunks, res>> /\ (Sound' => Sound /\ ~Overruns)
  BY DEF DeviceStep, Sound
<1>3. busy
  BY <1>2 DEF Driver, EraseStep, ProgramStep, ReadStep, EraseSkipBad, EraseBlock, EraseFail, EraseLoop, EraseDone,
     ProgramSkipBad, ProgramSkipFF, ProgramPage, ProgramFail, ProgramLoop, ProgramDone,
     ReadSkipBad, ReadPage, ReadRawPage, ReadOobPage, ReadLoop, ReadDone, Running
<1>4. ProgramStep
  BY <1>2 DEF Driver, EraseStep, ReadStep, EraseSkipBad, EraseBlock, EraseFail, EraseLoop, EraseDone,
     ReadSkipBad, ReadPage, ReadRawPage, ReadOobPage, ReadLoop, ReadDone, ReadOps, Running
<1>5. OnItsWay
  BY <1>1, <1>3 DEF Pending
<1>6. /\ Programmes(flash, at, spage, cur, i, rq.count) /\ (Sound /\ i > 0 => cur <= TotalPages)
  BY <1>1, <1>3 DEF Programs
<1>7. at \in Nat /\ at % ppb = 0 /\ rq.count \in 1..ppb /\ ppb \in Nat \ {0} /\ Current.start = at
  BY <1>1, <1>5, SendLengths, Numbers DEF OnItsWay, Placed, HostTypeOK, Blockwise
<1>8. /\ Programmes(flash', at, spage', cur', i', rq'.count) /\ rq' = rq
      /\ (i > 0 => cur <= TotalPages) /\ ~Overruns => (i' > 0 => cur' <= TotalPages)
      /\ ~busy' => i' = rq.count /\ ret' = cur'
  BY <1>4, <1>6, <1>7, ProgramGoesOn
<1>9. Programs'
  BY <1>2, <1>6, <1>8 DEF Programs, Ended
<1>10. OnItsWay'
  <2>1. Left' = Left /\ ChunkLength' = ChunkLength /\ Current' = Current
    BY <1>2 DEF Left, ChunkLength, FilePages, Current
  <2> QED
    BY <1>2, <1>5, <1>8, <2>1 DEF OnItsWay
<1>11. ASSUME Sound' PROVE Verified' /\ Ranked'
  <2>1. Sound /\ ~Overruns
    BY <1>2, <1>11
  <2>2. PICK d \in Nat : at <= d * ppb /\ Elsewhere(flash, flash', d)
    BY <1>4, <1>6, <1>7, <2>1, ProgramLeaves
  <2>3. pc # "mark"
    BY <1>1, <1>3 DEF Pending
  <2>4. Floor = at /\ Floor' = at
    BY <1>2, <2>3 DEF Floor
  <2>5. \A m \in 1..Len(chunks) : chunks[m].start <= d * ppb
    <3>1. \A m \in 1..Len(chunks) : chunks[m] \in Chunk /\ chunks[m].start <= at
      BY <1>1, <1>7 DEF HostTypeOK, Pending
    <3>2. \A x \in Chunk : x.start \in Nat
      BY DEF Chunk
    <3>3. d * ppb \in Nat
      BY <1>7, MulMono
    <3> QED
      BY <1>7, <2>2, <3>1, <3>2, <3>3
  <2> QED
    BY <1>1, <1>2, <1>7, <2>1, <2>2, <2>4, <2>5, FoundKept
<1>12. Verified' /\ Ranked'
  BY <1>11 DEF Verified, Ranked
<1> QED
  BY <1>3, <1>8, <1>9, <1>10, <1>12

\* The request that reads it back.
LEMMA ReadRunInv ==
  ASSUME IndInv, Blockwise, NprogInv, DeviceStep, chunks # <<>>, rq.op = "read", pc = "check"
  PROVE  (Checks /\ OnItsWay /\ Verified /\ Ranked)' /\ rq' = rq
<1>1. HostTypeOK /\ Placed /\ Pending /\ Checks /\ Verified /\ Ranked
  BY DEF NprogInv
<1>2. /\ Driver /\ UNCHANGED <<pc, job, at, sent, chunks, res>> /\ (Sound' => Sound)
  BY DEF DeviceStep, Sound
<1>3. ReadStep
  BY <1>2 DEF Driver, EraseStep, ProgramStep, EraseSkipBad, EraseBlock, EraseFail, EraseLoop, EraseDone,
     ProgramSkipBad, ProgramSkipFF, ProgramPage, ProgramFail, ProgramLoop, ProgramDone, Running
<1>4. OnItsWay
  BY <1>1 DEF Pending
<1>5. PICK end : end = Current.end
  OBVIOUS
<1>6. /\ Reached(flash, at, end, rq.count) /\ (Sound => end <= TotalPages)
      /\ Reads(flash, at, end, cur, i, rq.count, buf)
  BY <1>1, <1>5 DEF Checks
<1>7. at \in Nat /\ rq.count \in 1..ppb /\ end \in Nat
  <2>1. Current \in Chunk
    BY <1>1 DEF HostTypeOK, Current
  <2> QED
    BY <1>1, <1>4, <1>5, <2>1, SendLengths DEF OnItsWay, HostTypeOK, Blockwise, Chunk
<1>8. /\ Reads(flash, at, end, cur', i', rq.count, buf') /\ rq' = rq /\ flash' = flash
      /\ ~busy' => i' = rq.count /\ ret' = cur'
  BY <1>3, <1>6, <1>7, ReadGoesOn
<1>9. Left' = Left /\ ChunkLength' = ChunkLength /\ Current' = Current
  BY <1>2 DEF Left, ChunkLength, FilePages, Current
<1>10. Checks' /\ OnItsWay'
  BY <1>2, <1>4, <1>5, <1>6, <1>8, <1>9 DEF Checks, OnItsWay, Ended
<1>11. Verified' /\ Ranked'
  <2>1. Floor' = Floor
    BY <1>2 DEF Floor
  <2> QED
    BY <1>1, <1>2, <1>8, <2>1 DEF Verified, Ranked, NextStart
<1> QED
  BY <1>8, <1>10, <1>11

LEMMA DeviceStepInv ==
  ASSUME IndInv, Blockwise, NprogInv, DeviceStep
  PROVE  NprogInv'
<1>1. HostTypeOK /\ Placed /\ Pending /\ Sized
  BY DEF NprogInv
<1>2. /\ Driver /\ UNCHANGED <<pc, job, at, sent, chunks, res>> /\ (Sound' => Sound)
  BY DEF DeviceStep, Sound
<1>3. Left' = Left /\ FilePages' = FilePages /\ Current' = Current /\ Before' = Before
  BY <1>2 DEF Left, FilePages, Current, Before
<1>4. HostTypeOK' /\ Placed' /\ Sized'
  BY <1>1, <1>2, <1>3 DEF HostTypeOK, Placed, Sized
<1>5. CASE chunks = <<>>
  <2>1. Pending' /\ Programs' /\ Checks'
    BY <1>2, <1>5 DEF Pending, Programs, Checks
  <2>2. Verified' /\ Ranked'
    BY <1>2, <1>5 DEF Verified, Ranked
  <2> QED
    BY <1>4, <2>1, <2>2 DEF NprogInv
<1>6. CASE chunks # <<>>
  <2>1. busy
    BY <1>2 DEF Driver, EraseStep, ProgramStep, ReadStep, EraseSkipBad, EraseBlock, EraseFail, EraseLoop, EraseDone,
       ProgramSkipBad, ProgramSkipFF, ProgramPage, ProgramFail, ProgramLoop, ProgramDone,
       ReadSkipBad, ReadPage, ReadRawPage, ReadOobPage, ReadLoop, ReadDone, Running
  <2>2. (pc \in {"programming", "idle"} /\ rq.op = "program") \/ (pc = "check" /\ rq.op = "read")
    BY <1>1, <1>6, <2>1 DEF Pending
  <2>3. CASE rq.op = "program"
    <3>1. (Programs /\ OnItsWay /\ Verified /\ Ranked)' /\ rq' = rq
      BY <1>6, <2>3, ProgramRunInv
    <3>2. Checks' /\ pc \in {"programming", "idle"}
      BY <1>2, <2>2, <2>3 DEF Checks
    <3>3. Pending'
      BY <1>1, <1>2, <1>3, <1>6, <2>3, <3>1, <3>2 DEF Pending
    <3> QED
      BY <1>4, <3>1, <3>2, <3>3 DEF NprogInv
  <2>4. CASE pc = "check" /\ rq.op = "read"
    <3>1. (Checks /\ OnItsWay /\ Verified /\ Ranked)' /\ rq' = rq
      BY <1>6, <2>4, ReadRunInv
    <3>2. Programs'
      BY <2>4, <3>1 DEF Programs
    <3>3. Pending'
      BY <1>1, <1>2, <1>3, <1>6, <2>4, <3>1 DEF Pending
    <3> QED
      BY <1>4, <3>1, <3>2, <3>3 DEF NprogInv
  <2> QED
    BY <2>2, <2>3, <2>4
<1> QED
  BY <1>5, <1>6

LEMMA FileInvNext ==
  ASSUME IndInv, IndInv', FileInv, [FileNext]_fileVars
  PROVE  FileInv'
<1>1. CASE Enter
  BY <1>1, EnterInv
<1>2. CASE ~Enter
  <2> SUFFICES ASSUME Blockwise' PROVE NprogInv'
    BY DEF FileInv
  <2>1. job' = job
    BY <1>2 DEF FileNext, nand_erase, EraseLost, EraseEnds, ProgramChunk, DataLost, ReadFails, ReadBackChunk,
       NextChunk, Check, CheckLost, Compared, nand_markbad, MarkLost, DumpChunk, Dumped, DumpTruncated, LastChunk,
       GiveUp, DeviceStep, AllDone, fileVars, hostVars
  <2>2. Blockwise /\ NprogInv
    BY <2>1 DEF Blockwise, FileInv
  <2>3. pc \notin {"dumping"} /\ job.what = "nprog"
    BY <2>2 DEF NprogInv, HostTypeOK, Blockwise
  <2>4. ~(ReadFails \/ NextChunk \/ DumpChunk \/ Dumped \/ DumpTruncated)
    BY <2>3 DEF ReadFails, ShortRead, NextChunk, DumpChunk, Dumped, DumpTruncated
  <2>5. CASE nand_erase \/ EraseLost \/ EraseEnds
    BY <2>2, <2>5, EraseInv
  <2>6. CASE ProgramChunk \/ DataLost
    BY <2>2, <2>6, SendInv
  <2>7. CASE ReadBackChunk
    BY <2>2, <2>7, ReadBackChunkInv
  <2>8. CASE Check \/ CheckLost
    BY <2>2, <2>8, CheckInv
  <2>9. CASE nand_markbad \/ MarkLost
    BY <2>2, <2>9, MarkInv
  <2>10. CASE LastChunk \/ GiveUp \/ AllDone \/ UNCHANGED fileVars
    BY <2>2, <2>10, EndInv
  <2>11. CASE DeviceStep
    BY <2>2, <2>11, DeviceStepInv
  <2> QED
    BY <1>2, <2>4, <2>5, <2>6, <2>7, <2>8, <2>9, <2>10, <2>11 DEF FileNext
<1> QED
  BY <1>1, <1>2

LEMMA FileInvariance == FileSpec => [](IndInv /\ FileInv)
<1>1. FileInit => IndInv /\ FileInv
  BY InitInv DEF FileInit, FileInv, Blockwise, NoJob
<1>2. IndInv /\ FileInv /\ [FileNext]_fileVars => IndInv' /\ FileInv'
  <2> SUFFICES ASSUME IndInv, FileInv, [FileNext]_fileVars PROVE IndInv' /\ FileInv'
    OBVIOUS
  <2>1. IndInv'
    BY FileIsDriver, NextInv
  <2> QED
    BY <2>1, FileInvNext
<1> QED
  BY <1>1, <1>2, PTL DEF FileSpec

-----------------------------------------------------------------------------
(* What is read back.                                                      *)

\* Two good pages differ in the number of good pages before them.
LEMMA RanksApart ==
  ASSUME NEW f, NEW from \in Nat, NEW p \in Goods(f, from), NEW q \in Goods(f, from),
         Cardinality(Below(f, from, p)) = Cardinality(Below(f, from, q))
  PROVE  p = q
<1>1. p \in Nat /\ q \in Nat
  BY Total DEF Goods
<1>2. ASSUME NEW x \in Goods(f, from), NEW y \in Goods(f, from), x < y
      PROVE  Cardinality(Below(f, from, x)) < Cardinality(Below(f, from, y))
  <2>1. PICK S, T, U : S = Below(f, from, x) /\ T = Below(f, from, y) /\ U = S \cup {x}
    OBVIOUS
  <2>2. x \in Nat /\ y \in Nat
    BY Total DEF Goods
  <2>3. x \notin S /\ U \subseteq T
    BY <1>2, <2>1, <2>2, Total DEF Below, Goods
  <2>4. IsFiniteSet(S) /\ Cardinality(S) \in Nat /\ IsFiniteSet(T) /\ Cardinality(T) \in Nat
    BY <2>1, BelowFinite
  <2>5. Cardinality(U) = Cardinality(S) + 1
    BY <2>1, <2>3, <2>4, FS_AddElement
  <2>6. Cardinality(U) <= Cardinality(T)
    BY <2>3, <2>4, FS_Subset
  <2> QED
    BY <2>1, <2>4, <2>5, <2>6
<1>3. Cardinality(Below(f, from, p)) \in Nat
  BY BelowFinite
<1>4. ~(p < q) /\ ~(q < p)
  BY <1>2, <1>3
<1> QED
  BY <1>1, <1>4

LEMMA GoodBlock ==
  ASSUME NEW f, NEW from \in Nat, NEW base \in Nat, from <= base, base % ppb = 0, ~IsBad(f, base \div ppb),
         NEW k \in 0..(ppb - 1), base + k < TotalPages
  PROVE  base + k \in Goods(f, from)
<1>1. (base + k) \div ppb = base \div ppb
  BY PagesOfBlock
<1>2. ppb \in Nat /\ TotalPages \in Nat
  BY Numbers, Total
<1>3. base + k \in from..(TotalPages - 1)
  BY <1>2
<1> QED
  BY <1>1, <1>3 DEF Goods

\* A page as many good ones behind the start of a chunk as the chunk's page k.
LEMMA FoundPage ==
  ASSUME NEW c \in Chunk, NEW next \in Nat, Found(flash, c, next), NEW from \in Nat, from <= c.start,
         NEW p \in Goods(flash, from), NEW k \in 0..(c.count - 1),
         Cardinality(Below(flash, from, p)) = Cardinality(Below(flash, from, c.start)) + k
  PROVE  SamePage(PageAt(p), c, k)
<1>0. PICK base, n, start : base = next - c.count /\ n = c.count /\ start = c.start
  OBVIOUS
<1>1. /\ n \in 1..ppb /\ next <= TotalPages /\ n <= next /\ base % ppb = 0 /\ start <= base
      /\ ~IsBad(flash, base \div ppb) /\ Passed(flash, start, base)
      /\ \A j \in 0..(n - 1) : SamePage(In(flash, base + j), c, j)
  BY <1>0, Numbers DEF Found, Reached
<1>2. base \in Nat /\ start \in Nat /\ next = base + n /\ ppb \in Nat /\ TotalPages \in Nat
  <2>1. start \in Nat
    BY <1>0 DEF Chunk
  <2>2. ppb \in Nat /\ TotalPages \in Nat
    BY Numbers, Total
  <2>3. n \in Nat
    BY <1>1, <2>2
  <2>4. base \in Nat /\ next = base + n
    BY <1>0, <1>1, <2>3
  <2> QED
    BY <2>1, <2>2, <2>4
<1>3. PICK q : q = base + k
  OBVIOUS
<1>4. k \in 0..(ppb - 1) /\ k \in 0..ppb /\ q < TotalPages /\ q <= TotalPages /\ from <= base
  BY <1>0, <1>1, <1>2, <1>3
<1>5. Behind(flash, from, start, base, k, q)
  BY <1>0, <1>1, <1>2, <1>3, <1>4 DEF Behind
<1>6. Cardinality(Below(flash, from, q)) = Cardinality(Below(flash, from, start)) + k
  BY <1>5, BelowGrows
<1>7. q \in Goods(flash, from)
  <2>1. base + k < TotalPages
    BY <1>3, <1>4
  <2>2. base + k \in Goods(flash, from)
    BY <1>1, <1>2, <1>4, <2>1, GoodBlock
  <2> QED
    BY <1>3, <2>2
<1>8. p = q
  BY <1>0, <1>6, <1>7, RanksApart
<1>9. SamePage(In(flash, q), c, k)
  BY <1>0, <1>1, <1>3
<1> QED
  BY <1>8, <1>9 DEF PageAt, In

LEMMA FoundReadsBack ==
  ASSUME NEW c \in Chunk, NEW next \in Nat, Found(flash, c, next)
  PROVE  ReadsBack(c)
<1>1. c.start \in Nat /\ c.count \in Nat
  BY DEF Chunk
<1>2. Cardinality(Below(flash, c.start, c.start)) = 0
  <2>1. Below(flash, c.start, c.start) = {}
    BY <1>1 DEF Below, Goods
  <2> QED
    BY <2>1, FS_EmptySet
<1>3. ASSUME NEW p \in Goods(flash, c.start), Cardinality(Below(flash, c.start, p)) < c.count
      PROVE  SamePage(PageAt(p), c, Cardinality(Below(flash, c.start, p)))
  <2>1. PICK k : k = Cardinality(Below(flash, c.start, p))
    OBVIOUS
  <2>2. k \in Nat
    BY <1>1, <2>1, BelowFinite
  <2>3. k \in 0..(c.count - 1) /\ Cardinality(Below(flash, c.start, p)) = Cardinality(Below(flash, c.start, c.start)) + k
    BY <1>1, <1>2, <1>3, <2>1, <2>2
  <2>4. SamePage(PageAt(p), c, k)
    BY <1>1, <2>3, FoundPage
  <2> QED
    BY <2>1, <2>4
<1> QED
  BY <1>3 DEF ReadsBack, Below, Goods, GoodPages

\* NextStart is a page.
LEMMA NextStartType ==
  ASSUME HostTypeOK, NEW m \in 1..Len(chunks)
  PROVE  NextStart(m) \in Nat /\ chunks[m] \in Chunk
<1>1. Len(chunks) \in Nat /\ \A x \in 1..Len(chunks) : chunks[x] \in Chunk
  BY DEF HostTypeOK
<1>2. \A x \in Chunk : x.start \in Nat
  BY DEF Chunk
<1>3. m < Len(chunks) => m + 1 \in 1..Len(chunks)
  BY <1>1
<1> QED
  BY <1>1, <1>2, <1>3 DEF NextStart, HostTypeOK

\* Whatever fails while nprog programs the rest of a file that starts at a block and ends on
\* the flash - pages, blocks, markers, transfers - every chunk it has found right reads back.
THEOREM VerifiedChunksStay == FileSpec => []VerifiedStays
<1>1. FileInv => VerifiedStays
  <2> SUFFICES ASSUME FileInv, Blockwise, Sound, NEW m \in DOMAIN chunks, chunks[m].ok
               PROVE  ReadsBack(chunks[m])
    BY DEF VerifiedStays, Blockwise, Sound
  <2>1. HostTypeOK /\ Verified
    BY DEF FileInv, NprogInv
  <2>2. m \in 1..Len(chunks)
    BY <2>1 DEF HostTypeOK
  <2>3. Found(flash, chunks[m], NextStart(m))
    BY <2>1, <2>2 DEF Verified
  <2> QED
    BY <2>1, <2>2, <2>3, NextStartType, FoundReadsBack
<1> QED
  BY <1>1, FileInvariance, PTL

\* If nprog found every chunk of the file right, the whole file reads back from its first
\* page, over the bad blocks and those that failed on the way.
THEOREM FilesReadBack == FileSpec => []FileReadsBack
<1>1. FileInv => FileReadsBack
  <2> SUFFICES ASSUME FileInv, Blockwise, Sound, pc = "idle", res = "ok", \A m \in DOMAIN chunks : chunks[m].ok,
                      NEW p \in Goods(flash, job.start), NEW k, k = Cardinality(Below(flash, job.start, p)),
                      k < FilePages
               PROVE  SamePage(PageAt(p), chunks[k \div ppb + 1], k % ppb)
    BY DEF FileReadsBack, Blockwise, Sound, GoodPages, Goods, Below
  <2>1. HostTypeOK /\ Placed /\ Pending /\ Verified /\ Sized /\ Ranked
    BY DEF FileInv, NprogInv
  <2>2. /\ FilePages \in Nat /\ Left = FilePages - sent /\ ppb \in Nat \ {0} /\ sent \in Nat /\ job.start \in Nat
    BY <2>1, SendLengths, Numbers DEF HostTypeOK, Blockwise
  <2>3. k \in Nat
    BY <2>2, BelowFinite
  <2>4. Left <= 0 /\ chunks # <<>>
    BY <2>1, <2>2, <2>3 DEF Sized, Placed
  <2>5. PICK n : n = Len(chunks)
    OBVIOUS
  <2>6. n \in Nat \ {0} /\ \A m \in 1..n : chunks[m].ok
    BY <2>1, <2>4, <2>5 DEF HostTypeOK
  <2>7. PICK a, b : a = k \div ppb /\ b = k % ppb
    OBVIOUS
  <2>8. a \in Nat /\ b \in 0..(ppb - 1) /\ k = a * ppb + b
    BY <2>3, <2>7, PageOfBlock
  <2>9. PICK before : before = (n - 1) * ppb
    OBVIOUS
  <2>10. /\ before < FilePages /\ Current.count = Shorter(FilePages - before, ppb)
         /\ sent = before \/ sent = before + Current.count
    BY <2>1, <2>4, <2>5, <2>9 DEF Sized, Before
  <2>11. before \in Nat /\ FilePages - before <= ppb /\ Current.count = FilePages - before
    <3>1. before \in Nat
      BY <2>2, <2>6, <2>9
    <3> QED
      BY <2>2, <2>4, <2>10, <3>1 DEF Shorter
  \* The page is in one of the chunks.
  <2>12. a < n
    <3>1. n * ppb = before + ppb /\ n * ppb \in Nat
      BY <2>2, <2>6, <2>9
    <3>2. k < n * ppb
      BY <2>2, <2>3, <2>11, <3>1
    <3> QED
      BY <2>3, <2>6, <2>7, <3>2, PageBelow
  <2>13. PICK m, c, next : m = a + 1 /\ c = chunks[m] /\ next = NextStart(m)
    OBVIOUS
  <2>14. m \in 1..n /\ c \in Chunk /\ next \in Nat /\ c.ok
    BY <2>1, <2>5, <2>6, <2>8, <2>12, <2>13, NextStartType
  <2>15. Found(flash, c, next)
    BY <2>1, <2>5, <2>13, <2>14 DEF Verified
  <2>16. b \in 0..(c.count - 1)
    <3>1. CASE m = n
      <4>1. c.count = FilePages - before
        BY <2>5, <2>11, <2>13, <3>1 DEF Current
      <4>2. k = before + b
        BY <2>2, <2>6, <2>8, <2>9, <2>13, <3>1
      <4> QED
        BY <2>2, <2>3, <2>8, <2>11, <4>1, <4>2
    <3>2. CASE m # n
      <4>1. m \in 1..(n - 1)
        BY <2>6, <2>14, <3>2
      <4>2. c.count = ppb
        BY <2>1, <2>4, <2>5, <2>13, <4>1 DEF Sized
      <4> QED
        BY <2>8, <4>2
    <3> QED
      BY <3>1, <3>2
  <2>17. job.start <= c.start /\ Cardinality(Below(flash, job.start, c.start)) = a * ppb
    <3>1. \A j \in 1..(m - 1) : chunks[j].ok
      BY <2>6, <2>14
    <3>2. Cardinality(Below(flash, job.start, c.start)) = (m - 1) * ppb
      BY <2>1, <2>5, <2>13, <2>14, <3>1 DEF Ranked
    <3>3. m - 1 = a
      BY <2>8, <2>13
    <3> QED
      BY <2>1, <2>4, <2>5, <2>13, <2>14, <3>2, <3>3 DEF Pending
  <2>18. Cardinality(Below(flash, job.start, p)) = Cardinality(Below(flash, job.start, c.start)) + b
    BY <2>8, <2>17
  <2>19. SamePage(PageAt(p), c, b)
    BY <2>2, <2>14, <2>15, <2>16, <2>17, <2>18, FoundPage
  <2> QED
    BY <2>7, <2>13, <2>19
<1> QED
  BY <1>1, FileInvariance, PTL

=============================================================================
