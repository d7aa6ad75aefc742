------------------------------ MODULE NandFile ------------------------------
(***************************************************************************)
(* The host tools writing a file to NAND through the Jz4740 driver.        *)
(* usbboot's nprog (src/cmd.c) erases, then sends the file block by block, *)
(* reads every block back, compares it, and goes on where the device says  *)
(* it ended.  jzboot (src/ingenic.c) erases, programs and dumps as three   *)
(* commands, in chunks of its I/O buffer, and counts the pages itself.     *)
(*                                                                         *)
(* A page of the flash names the request and the offset it came from       *)
(* (Nand4740); the host remembers which request carried which chunk of the *)
(* file, so that a page out of place, overwritten or lost shows.  Images   *)
(* are without OOB.                                                        *)
(***************************************************************************)
EXTENDS Nand4740

CONSTANTS
  Lengths,     \* file lengths in bytes
  Blanks,      \* sets of pages of a file that are all 0xff
  StartPages,  \* pages the user names
  Tools,       \* the tools in use
  ChunkPages,  \* jzboot: STAGE2_IOBUF / page_size
  MaxCmds,     \* bound: commands
  MaxLost      \* bound: transfers that fail

MAX_TRANSFER_SIZE == 1048576

ASSUME FileAssumption ==
  /\ Lengths \subseteq Nat \ {0} /\ StartPages \subseteq Nat
  /\ \A b \in Blanks : b \subseteq Nat
  /\ Tools \subseteq {"usbboot", "jzboot"} /\ ChunkPages \in Nat \ {0}
ASSUME HostBoundAssumption == MaxCmds \in Nat /\ MaxLost \in Nat
\* nand_program_check refuses a longer buffer, nand_prog another nand_plane.
ASSUME TransferAssumption == ppb * pagesize <= MAX_TRANSFER_SIZE /\ nand_plane = 1

VARIABLES
  pc,      \* where the command is
  job,     \* the command: what, the file and the page it starts at
  at,      \* ni->start, jzboot's start
  sent,    \* pages of the file done
  chunks,  \* what was sent for the file, chunk by chunk
  dump,    \* pages jzboot has written to its dump file
  res,     \* result of the last command
  cmds, lost,
  \* bookkeeping for the properties
  trouble  \* what went wrong since the file was programmed: "failure" of a flash command
           \* or transfer, "stray": a block marked at an old address or on another chip,
           \* "overrun": pages programmed behind the end of the flash

hostVars == <<pc, job, at, sent, chunks, dump, res, cmds, lost, trouble>>
fileVars == <<vars, hostVars>>

-----------------------------------------------------------------------------
NoJob == [what |-> "none", start |-> 0, len |-> 0, blank |-> {}]

CeilDiv(a, b) == (a + b - 1) \div b
Shorter(a, b) == IF a < b THEN a ELSE b
FilePages == CeilDiv(job.len, pagesize)
Left == FilePages - sent

\* Mutant of EraseLength: the last, partial block is forgotten.
EraseLengthRoundedDown == job.len \div (ppb * pagesize)

\* nand_program_file: blocks to erase.
EraseLength == CeilDiv(job.len, ppb * pagesize)

\* Pages of the next transfer: usbboot's transfer_size is a block.
ChunkLength == Shorter(Left, IF job.what = "nprog" THEN ppb ELSE ChunkPages)

\* The all-0xff pages of the chunk; a padded last page of usbboot is not one.
ChunkBlank ==
  {k \in 0..(ChunkLength - 1) :
     /\ sent + k \in job.blank
     /\ job.what = "nprog" => (sent + k + 1) * pagesize <= job.len}

\* A request of the host, served by the driver.
Request(op, start, count, ff) ==
  rq' = [op |-> op, start |-> start, count |-> count, option |-> "NO_OOB", ff |-> ff]

-----------------------------------------------------------------------------
FileInit ==
  /\ Init
  /\ pc = "idle" /\ job = NoJob /\ at = 0 /\ sent = 0 /\ chunks = <<>> /\ dump = <<>>
  /\ res = "none" /\ cmds = 0 /\ lost = 0 /\ trouble = {}

Finished(r) == pc' = "idle" /\ res' = r

\* A transfer fails.
Fails(what) == lost < MaxLost /\ lost' = lost + 1 /\ trouble' = trouble \cup what
Failure == Fails({"failure"})

\* The user enters a command.  All but a dump forget the last file.
Command(what, start, len, blank, first) ==
  /\ pc = "idle" /\ cmds < MaxCmds /\ cmds' = cmds + 1
  /\ job' = [what |-> what, start |-> start, len |-> len, blank |-> blank]
  /\ pc' = first /\ at' = start /\ sent' = 0 /\ res' = "none" /\ dump' = <<>>
  /\ IF what = "dump" THEN UNCHANGED <<chunks, trouble>> ELSE chunks' = <<>> /\ trouble' = {}
  /\ UNCHANGED <<vars, lost>>

Enter ==
  \E start \in StartPages, len \in Lengths :
    \/ "usbboot" \in Tools /\ \E blank \in Blanks : Command("nprog", start, len, blank, "erase")
    \/ "jzboot" \in Tools /\ \E blank \in Blanks : Command("program", start, len, blank, "chunk")
    \/ "jzboot" \in Tools /\ Command("dump", start, len, {}, "chunk")
    \/ "jzboot" \in Tools /\ Command("erase", start, len, {}, "erase")

\* nand_erase and ingenic_erase_nand: one request; usbboot ignores its result.
nand_erase ==
  /\ pc = "erase"
  /\ Request("erase", job.start \div ppb, EraseLength, {}) /\ EraseStart
  /\ pc' = "erasing"
  /\ UNCHANGED <<job, at, sent, chunks, dump, res, cmds, lost, trouble>>

\* The operation is not carried out, or with the address of an earlier
\* request, or with the length of one.
EraseLost ==
  /\ pc = "erase" /\ job.what = "nprog"
  /\ Failure
  /\ \/ pc' = "chunk" /\ UNCHANGED vars
     \/ pc' = "erasing" /\ Request("erase", rq.start, EraseLength, {}) /\ EraseStart
     \/ /\ pc' = "erasing"
        /\ \E n \in 0..ppb : Request("erase", job.start \div ppb, n, {}) /\ EraseStart
  /\ UNCHANGED <<job, at, sent, chunks, dump, res, cmds>>

EraseEnds ==
  /\ pc = "erasing" /\ ~busy
  /\ IF job.what = "erase" THEN Finished("ok") ELSE pc' = "chunk" /\ UNCHANGED res
  /\ UNCHANGED <<vars, job, at, sent, chunks, dump, cmds, lost, trouble>>

\* ingenic_program_nand pads the last chunk only if it is not a full one.
ShortRead ==
  job.what = "program" /\ Left = ChunkPages /\ job.len % pagesize # 0

\* nand_program_check and ingenic_program_nand: the chunk is sent and programmed.
ProgramChunk ==
  /\ pc = "chunk" /\ job.what \in {"nprog", "program"} /\ Left > 0 /\ ~ShortRead
  /\ Request("program", at, ChunkLength, ChunkBlank) /\ ProgramStart
  /\ chunks' = Append(chunks, [id |-> ops', start |-> at, count |-> ChunkLength,
                               blank |-> ChunkBlank, fresh |-> notes'.fresh,
                               end |-> 0, ok |-> FALSE])
  /\ pc' = "programming"
  /\ UNCHANGED <<job, at, sent, dump, res, cmds, lost, trouble>>

\* The bulk data do not arrive, which usbboot does not look at: an older
\* chunk is programmed in its place.
DataLost ==
  /\ pc = "chunk" /\ job.what = "nprog" /\ Left > 0
  /\ Failure
  /\ Request("program", at, ChunkLength, {}) /\ ProgramStart
  /\ chunks' = Append(chunks, [id |-> 0, start |-> at, count |-> ChunkLength,
                               blank |-> ChunkBlank, fresh |-> notes'.fresh,
                               end |-> 0, ok |-> FALSE])
  /\ pc' = "programming"
  /\ UNCHANGED <<job, at, sent, dump, res, cmds>>

ReadFails ==
  /\ pc = "chunk" /\ Left > 0 /\ ShortRead
  /\ Finished("error")
  /\ UNCHANGED <<vars, job, at, sent, chunks, dump, cmds, lost, trouble>>

\* usbboot reads the chunk back from where it started.
ReadBackChunk ==
  /\ pc = "programming" /\ ~busy /\ job.what = "nprog"
  /\ Request("read", at, ChunkLength, {}) /\ ReadStart
  /\ chunks' = [chunks EXCEPT ![Len(chunks)].end = ret]
  /\ pc' = "check"
  /\ UNCHANGED <<job, at, sent, dump, res, cmds, lost, trouble>>

\* jzboot goes on behind the pages it sent, wherever the device ended.
NextChunk ==
  /\ pc = "programming" /\ ~busy /\ job.what = "program"
  /\ chunks' = [chunks EXCEPT ![Len(chunks)].end = ret]
  /\ at' = at + ChunkLength /\ sent' = sent + ChunkLength /\ pc' = "chunk"
  /\ UNCHANGED <<vars, job, dump, res, cmds, lost, trouble>>

\* error_check: a page holds what the request put there, or is blank as sent.
SamePage(page, c, k) ==
  IF k \in c.blank THEN page = Erased
  ELSE page.kind = "data" /\ page.id = c.id /\ page.off = k * pagesize

Same(pages, c) ==
  Len(pages) = c.count /\ \A k \in 0..(c.count - 1) : SamePage(pages[k + 1], c, k)

\* Mutant of Position: go on behind the pages that were sent.
PositionCounted(end) == at + ChunkLength

\* cur_page, from the handshake of the read.
Position(end) == end

\* The comparison, from page 0 of a 4096-byte flash left out.  After a failed
\* one the block before cur_page is marked if cur_page is at a block.
Compared(end, equal) ==
  LET unchecked == at = 0 /\ pagesize = 4096 IN
  /\ chunks' = [chunks EXCEPT ![Len(chunks)].ok = equal /\ ~unchecked]
  /\ at' = Position(end) /\ sent' = sent + ChunkLength
  /\ pc' = IF ~unchecked /\ ~equal /\ Position(end) % ppb = 0 THEN "mark" ELSE "chunk"
  /\ UNCHANGED <<vars, job, dump, res, cmds>>

Check ==
  /\ pc = "check" /\ ~busy
  /\ Compared(ret, Same(buf, chunks[Len(chunks)]))
  /\ UNCHANGED <<lost, trouble>>

\* The read's transfers fail: the results are ignored, check_buf holds older
\* data and ret the handshake of the program request.
CheckLost ==
  /\ pc = "check" /\ ~busy /\ Failure
  /\ Compared(chunks[Len(chunks)].end, FALSE)

\* Mutant of nand_markbad: one block too low.
nand_markbadBefore ==
  /\ pc = "mark"
  /\ Request("mark_bad", (at - 1) \div ppb - 1, 0, {}) /\ nand_mark_bad_4740
  /\ pc' = "chunk"
  /\ UNCHANGED <<job, at, sent, chunks, dump, res, cmds, lost, trouble>>

\* The chip is the one the last read has selected.
nand_markbad ==
  /\ pc = "mark"
  /\ Request("mark_bad", (at - 1) \div ppb, 0, {}) /\ nand_mark_bad_4740
  /\ pc' = "chunk"
  /\ trouble' = trouble \cup IF sel = Chip((at - 1) \div ppb) THEN {} ELSE {"stray"}
  /\ UNCHANGED <<job, at, sent, chunks, dump, res, cmds, lost>>

\* Nobody looks at nand_markbad's results: the operation is not carried out,
\* or with the page address of the read before it as its block.
MarkLost ==
  /\ pc = "mark" /\ pc' = "chunk"
  /\ \/ Failure /\ UNCHANGED vars
     \/ Fails({"failure", "stray"}) /\ Request("mark_bad", rq.start, 0, {}) /\ nand_mark_bad_4740
  /\ UNCHANGED <<job, at, sent, chunks, dump, res, cmds>>

\* ingenic_dump_nand.
DumpChunk ==
  /\ pc = "chunk" /\ job.what = "dump" /\ Left > 0
  /\ Request("read", at, ChunkLength, {}) /\ ReadStart
  /\ pc' = "dumping"
  /\ UNCHANGED <<job, at, sent, chunks, dump, res, cmds, lost, trouble>>

\* Mutant of Dumped: the start page is not advanced.
DumpedAgain ==
  /\ pc = "dumping" /\ ~busy
  /\ IF hs3 # 0
     THEN Finished("ok") /\ UNCHANGED <<at, sent, dump>>
     ELSE /\ dump' = dump \o buf
          /\ sent' = sent + ChunkLength /\ pc' = "chunk"
          /\ UNCHANGED <<at, res>>
  /\ UNCHANGED <<vars, job, chunks, cmds, lost, trouble>>

\* An ECC error ends the loop; the result is that of the request, a success.
Dumped ==
  /\ pc = "dumping" /\ ~busy
  /\ IF hs3 # 0
     THEN Finished("ok") /\ UNCHANGED <<at, sent, dump>>
     ELSE /\ dump' = dump \o buf
          /\ at' = at + ChunkLength /\ sent' = sent + ChunkLength /\ pc' = "chunk"
          /\ UNCHANGED res
  /\ UNCHANGED <<vars, job, chunks, cmds, lost, trouble>>

\* The same for data cut short.
DumpTruncated ==
  /\ pc = "dumping" /\ ~busy /\ Failure
  /\ Finished("ok")
  /\ UNCHANGED <<vars, job, at, sent, chunks, dump, cmds>>

LastChunk ==
  /\ pc = "chunk" /\ Left <= 0
  /\ Finished("ok")
  /\ UNCHANGED <<vars, job, at, sent, chunks, dump, cmds, lost, trouble>>

\* A status request, parameter or transfer whose result is looked at fails; the
\* device may still be busy with the request.
GiveUp ==
  /\ pc \in {"erase", "chunk", "programming", "dumping"} \/ (pc = "erasing" /\ job.what = "erase")
  /\ Failure
  /\ Finished("error")
  /\ UNCHANGED <<vars, job, at, sent, chunks, dump, cmds>>

\* The request would go on behind the last page: the chips begin again at their first.
Overruns == Running("program") /\ i < rq.count /\ cur >= TotalPages

\* A command of the flash chip fails or a marker does not take.
DeviceStep ==
  /\ Driver
  /\ trouble' = trouble \cup (IF fails' = fails /\ marksLost' = marksLost THEN {} ELSE {"failure"})
                        \cup (IF Overruns THEN {"overrun"} ELSE {})
  /\ UNCHANGED <<pc, job, at, sent, chunks, dump, res, cmds, lost>>

AllDone == pc = "idle" /\ cmds = MaxCmds /\ ~busy /\ UNCHANGED fileVars

FileNext ==
  \/ Enter \/ nand_erase \/ EraseLost \/ EraseEnds \/ ProgramChunk \/ DataLost \/ ReadFails \/ ReadBackChunk
  \/ NextChunk \/ Check \/ CheckLost \/ nand_markbad \/ MarkLost \/ DumpChunk \/ Dumped
  \/ DumpTruncated \/ LastChunk \/ GiveUp \/ DeviceStep \/ AllDone

FileSpec == FileInit /\ [][FileNext]_fileVars

-----------------------------------------------------------------------------
(* Properties.                                                             *)

\* The pages a read from the first page of a block comes to.
GoodPages(page) == {p \in page..(TotalPages - 1) : ~IsBad(flash, p \div ppb)}
PageAt(p) == flash[Cell(Chip(p \div ppb), p)]

\* A read from where the chunk starts returns the chunk.
ReadsBack(c) ==
  LET good == GoodPages(c.start) IN
  \A p \in good : LET k == Cardinality({q \in good : q < p}) IN
    k < c.count => SamePage(PageAt(p), c, k)

\* What usbboot has compared and found right stays readable from where it was
\* written while the rest of the file is programmed, whatever fails there:
\* failing pages, lost markers, blocks marked by the driver or by the host.
\* Only a block marked at an old address, its own lost, or on the chip selected
\* last is excluded, and a file that does not end on the flash.
\* Promised for files that start at a block: a failure in a chunk that shares
\* its first block with the chunk before erases that one's pages as well.
VerifiedStays ==
  (job.what = "nprog" /\ job.start % ppb = 0 /\ trouble \subseteq {"failure"}) =>
    \A m \in DOMAIN chunks : chunks[m].ok => ReadsBack(chunks[m])

\* If no flash command and no transfer fails, nprog finds every block right,
\* over bad blocks and over the contents of earlier files: what it erases is
\* what it programs.  For files that start at a block and end on the flash; with
\* 4096-byte pages not for a chunk that begins among the loader's pages, which have
\* another layout.
NoFalseAlarm ==
  (job.what = "nprog" /\ job.start % ppb = 0 /\ trouble = {} /\ at <= TotalPages) =>
    \A m \in DOMAIN chunks :
      chunks[m].ok \/ (m = Len(chunks) /\ pc \in {"programming", "check"})
                   \/ (chunks[m].start <= SPL_PAGES /\ pagesize = 4096)

\* If every chunk was found right, the file as a whole reads back from its
\* first page: the chunks follow each other without a gap, with bad and
\* failed blocks between them.
FileReadsBack ==
  (job.what = "nprog" /\ job.start % ppb = 0 /\ pc = "idle" /\ res = "ok"
   /\ trouble \subseteq {"failure"} /\ \A m \in DOMAIN chunks : chunks[m].ok) =>
    LET good == GoodPages(job.start) IN
    \A p \in good : LET k == Cardinality({q \in good : q < p}) IN
      k < FilePages => SamePage(PageAt(p), chunks[k \div ppb + 1], k % ppb)

\* What jzboot dumps without an error is what either tool programmed at the same place
\* on erased flash, as long as nothing failed and no chunk met a bad block.
DumpIsFile ==
  (/\ job.what = "dump" /\ pc = "idle" /\ trouble = {} /\ Len(dump) = FilePages /\ chunks # <<>>
   /\ chunks[1].start = job.start
   /\ \A m \in DOMAIN chunks : chunks[m].fresh /\ chunks[m].end = chunks[m].start + chunks[m].count)
  => \A k \in 0..(FilePages - 1) :
       LET n == chunks[1].count
           m == k \div n + 1
       IN  (m \in DOMAIN chunks /\ k % n < chunks[m].count) => SamePage(dump[k + 1], chunks[m], k % n)
=============================================================================
