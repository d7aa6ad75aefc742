----------------------------- MODULE MCNandFile -----------------------------
(* The requests the host tools can make of a flash of TotalPages pages: at   *)
(* most MCCount blocks or pages, with at most one blank page among them.     *)
EXTENDS NandFile

MCCount == IF ppb > ChunkPages THEN ppb ELSE ChunkPages

MCOf(names, counts, ffs) ==
  [op : names, start : 0..(TotalPages + ppb), count : counts, option : {"NO_OOB"}, ff : ffs]

MCFileRequests ==
  MCOf({"program"}, 1..MCCount, {{}} \cup {{k} : k \in 0..(MCCount - 1)})
    \cup MCOf({"erase", "read"}, 0..MCCount, {{}}) \cup MCOf({"mark_bad"}, {0}, {{}})
=============================================================================
