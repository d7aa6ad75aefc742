----------------------------- MODULE NandDevice -----------------------------
(***************************************************************************)
(* What a NAND driver of stage 2 promises its callers, without pages,      *)
(* chips or parity: one request at a time, blocks that are retired as bad  *)
(* and come back only when an erase is forced, and for every request the   *)
(* page at which it ends.  The end is given in closed form: a request      *)
(* takes its pages, one after the other, from the blocks that are not      *)
(* marked bad.  Nand4740 and Nand4760 implement this specification.        *)
(***************************************************************************)
EXTENDS Integers, FiniteSets

CONSTANTS
  ppb,         \* pages of a block
  NumBlocks,   \* blocks of all chips
  ChipBlocks,  \* blocks of one chip
  Force,       \* erase bad blocks as well
  Loader,      \* pages kept by the boot ROM's loader, in blocks 0 and 1
  MadeUpFor    \* a block that fails to erase is made up for

VARIABLES
  bad,         \* blocks marked bad
  busy, rq,    \* a request is served; it, or the last one
  failed,      \* blocks that failed during the request
  ret          \* where the last request ended

deviceVars == <<bad, busy, rq, failed, ret>>

BlockNumbers == 0..(NumBlocks - 1)

-----------------------------------------------------------------------------
\* A request for n pages from page `from' on ends at page e: it goes over the
\* bad blocks it comes to the beginning of.
EndsAt(from, n, e) ==
  LET taken == {p \in from..(e - 1) :
                  (p \div ppb) * ppb >= from => (p \div ppb) % NumBlocks \notin bad}
  IN IF n <= 0 THEN e = from ELSE e - 1 \in taken /\ Cardinality(taken) = n

\* The same for a request that meets the loader's pages: the rest of it
\* follows in block 2.
EndsBehindLoader(n, e) == EndsAt(2 * ppb, n - Loader, e)

\* Every failure moves a program request on by one block.
ProgramEnds(e) ==
  LET from == rq.start + failed * ppb IN
  IF Loader > 0 /\ from = 0 /\ rq.count > 0 THEN EndsBehindLoader(rq.count, e)
  ELSE EndsAt(from, rq.count, e)

ReadEnds(e) ==
  IF rq.start < 2 * Loader /\ rq.count > 0 THEN EndsBehindLoader(rq.count, e)
  ELSE EndsAt(rq.start, rq.count, e)

\* As many blocks as asked for are erased, but for the ones that failed; with
\* force the bad ones count as well.
EraseEnds(e) ==
  LET good == {b \in rq.start..(e \div ppb - 1) : b \notin bad} IN
  IF Force THEN e = (rq.start + rq.count + IF MadeUpFor THEN failed ELSE 0) * ppb
  ELSE \/ e > NumBlocks * ppb
       \/ /\ e % ppb = 0
          /\ IF MadeUpFor THEN Cardinality(good) \in rq.count..(rq.count + failed)
             ELSE Cardinality(good) \in (rq.count - failed)..rq.count

-----------------------------------------------------------------------------
Init == bad \subseteq BlockNumbers /\ busy = FALSE /\ failed = 0

Accept == ~busy /\ busy' = TRUE /\ failed' = 0 /\ UNCHANGED <<bad, ret>>

\* A block fails and is marked, unless the marker does not take.
Retire ==
  /\ busy /\ rq.op \in {"erase", "program"} /\ failed' = failed + 1
  /\ \E b \in BlockNumbers : bad' \in {bad \ {b}, bad \cup {b}}
  /\ UNCHANGED <<busy, rq, ret>>

\* After a failure a program request erases the block, and more if that fails
\* as well, and marks what failed.
Replace ==
  /\ busy /\ rq.op = "program" /\ failed > 0 /\ MadeUpFor
  /\ \E b \in BlockNumbers : bad' \in {bad \ {b}, bad \cup {b}}
  /\ UNCHANGED <<busy, rq, failed, ret>>

\* An erase with force makes a bad block good.
Recover ==
  /\ busy /\ rq.op = "erase" /\ Force
  /\ \E b \in bad : bad' = bad \ {b}
  /\ UNCHANGED <<busy, rq, failed, ret>>

\* The host has a block marked, on the chip that happens to be selected.
Mark ==
  /\ ~busy /\ rq'.op = "mark_bad" /\ failed' = 0
  /\ \E b \in BlockNumbers :
       b % ChipBlocks = rq'.start % ChipBlocks /\ bad' \in {bad, bad \cup {b}}
  /\ UNCHANGED busy

Finish ==
  /\ busy /\ busy' = FALSE
  /\ CASE rq.op = "erase" -> EraseEnds(ret')
       [] rq.op = "program" -> ProgramEnds(ret')
       [] rq.op = "read" -> ReadEnds(ret')
       [] rq.op = "read_raw" -> EndsAt(rq.start, rq.count, ret')
       [] rq.op = "read_oob" -> ret' = rq.start + rq.count
  /\ UNCHANGED <<bad, rq, failed>>

Next == Accept \/ Retire \/ Replace \/ Recover \/ Mark \/ Finish

Spec == Init /\ [][Next]_deviceVars
=============================================================================
