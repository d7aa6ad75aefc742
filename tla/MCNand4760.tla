----------------------------- MODULE MCNand4760 -----------------------------
(* Requests for model checking Nand4760: blocks of six pages, the loader in   *)
(* the first four of block 0.                                                 *)
EXTENDS Nand4760

Rq(op, start, count, option, ff) ==
  [op |-> op, start |-> start, count |-> count, option |-> option, ff |-> ff]

\* Programming with the loader, with blank pages, and from inside a block.
MCRequests ==
  { Rq("program", 0, 4, "NO_OOB", {}), Rq("program", 12, 6, "OOB_ECC", {1}),
    Rq("program", 15, 2, "NO_OOB", {}),
    Rq("read", 0, 4, "NO_OOB", {}), Rq("read", 12, 6, "OOB_ECC", {}),
    Rq("read_raw", 0, 2, "NO_OOB", {}), Rq("read_oob", 11, 2, "NO_OOB", {}),
    Rq("erase", 2, 2, "NO_OOB", {}), Rq("mark_bad", 3, 0, "NO_OOB", {}) }
=============================================================================
