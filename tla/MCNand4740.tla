----------------------------- MODULE MCNand4740 -----------------------------
(* Requests for model checking Nand4740: blocks of ten pages, so that the     *)
(* loader's eight pages end inside block 0.                                   *)
EXTENDS Nand4740

Rq(op, start, count, option, ff) ==
  [op |-> op, start |-> start, count |-> count, option |-> option, ff |-> ff]

\* Programming one block: aligned, with blank pages, with OOB, unaligned.
ProgramRequests ==
  { Rq("program", 10, 10, "NO_OOB", {1}), Rq("program", 0, 10, "NO_OOB", {}),
    Rq("program", 10, 4, "OOB_NO_ECC", {0, 3}), Rq("program", 13, 9, "OOB_ECC", {}),
    Rq("program", 0, 3, "OOB_NO_ECC", {}) }
ReadRequests ==
  { Rq("read", 10, 10, "NO_OOB", {}), Rq("read", 10, 4, "NO_OOB", {}),
    Rq("read_oob", 8, 3, "NO_OOB", {}) }
EraseRequests == { Rq("erase", 1, 2, "NO_OOB", {}), Rq("erase", 0, 1, "NO_OOB", {}) }
MarkRequests == { Rq("mark_bad", 1, 0, "NO_OOB", {}) }
RawRequests == { Rq("read_raw", 8, 4, "NO_OOB", {}), Rq("read_raw", 8, 4, "OOB_ECC", {}) }

MCRequests == ProgramRequests \cup ReadRequests \cup EraseRequests \cup MarkRequests
MCRawRequests == RawRequests \cup MarkRequests
MCChipRequests ==
  { Rq("program", 10, 10, "NO_OOB", {}), Rq("read", 10, 10, "NO_OOB", {}),
    Rq("erase", 7, 2, "NO_OOB", {}), Rq("erase", 1, 2, "NO_OOB", {}) } \cup RawRequests
=============================================================================
