----------------------------- MODULE ElfLoader ------------------------------
(***************************************************************************)
(* What jzboot's load_kernel puts where (elfldr.c): the segments of the    *)
(* ELF image, the initrd, the argument block and the trampoline that       *)
(* starts the kernel.  Addresses and sizes are in units of 1 KB and wrap   *)
(* as those of the program do at 2^32 bytes.                               *)
(***************************************************************************)
EXTENDS Integers, Sequences, SequencesExt

Wrap(a) == a % 2^22
SDRAM_BASE == 2^21
STAGE2_CODESIZE == 4096

\* ALIGN: to 4096 bytes.
ALIGN(a) == Wrap(((a + 3) \div 4) * 4)

\* Where stage 2 begins when the memory is total long; loadstage and the checks use it.
Limit(total) == Wrap(total + SDRAM_BASE + 2^22 - STAGE2_CODESIZE)

Area(what, base, size) == [what |-> what, base |-> base, size |-> size]

\* The part of a program header that counts.
ElfSegments == [load : BOOLEAN, paddr : Nat, filesz : Nat, memsz : Nat]

\* Mutant: the size in the file counts, not the size in memory.
load_segmentFile(p, what, base, filesz, memsz) ==
  IF ~p.ok \/ Wrap(base + filesz) > Limit(p.total) THEN [p EXCEPT !.ok = FALSE]
  ELSE [p EXCEPT !.areas = Append(@, Area(what, base, memsz)), !.end = Wrap(base + filesz)]

\* load_segment: what does not fit ends the load, otherwise the file's part and zeros for
\* the rest of it are loaded, where there is any; p is what was done before.
Part(area) == IF area.size > 0 THEN <<area>> ELSE <<>>
load_segment(p, what, base, filesz, memsz) ==
  LET end == Wrap(base + memsz)
      tail == Wrap(memsz + 2^22 - filesz)
      parts == Part(Area(what, base, filesz)) \o Part(Area(what, Wrap(base + filesz), tail))
  IN  IF ~p.ok \/ end > Limit(p.total) THEN [p EXCEPT !.ok = FALSE]
      ELSE [p EXCEPT !.areas = @ \o parts, !.end = end]

\* load_elf_image: the loadable segments in the order of the headers; the end is the
\* largest.  An image that fails its identification has no headers worth reading.
load_elf_image(k, total) ==
  LET step(p, s) ==
        LET q == load_segment(p, "segment", s.paddr, s.filesz, s.memsz)
        IN  IF s.load /\ p.ok THEN [q EXCEPT !.end = IF q.ok /\ @ > p.end THEN @ ELSE p.end] ELSE p
  IN  FoldLeft(step, [ok |-> k.ident, areas |-> <<>>, end |-> 0, total |-> total], k.segments)

\* load_elf: the initrd behind the image, the arguments behind both, the trampoline last.
\* A kernel without initrd has one of size 0.
load_initrd(p, size) ==
  LET base == ALIGN(p.end)
      end == Wrap(base + size)
  IN  IF ~p.ok \/ size = 0 THEN p
      ELSE IF end > Limit(p.total) THEN [p EXCEPT !.ok = FALSE]
      ELSE [p EXCEPT !.areas = Append(@, Area("initrd", base, size)), !.end = end]

load_args(p, size) == load_segment(p, "args", ALIGN(p.end), size, size)
load_trampoline(p) == load_segment(p, "trampoline", ALIGN(p.end), 1, 1)

load_elf(k, total) ==
  load_trampoline(load_args(load_initrd(load_elf_image(k, total), k.initrd), k.args))

(* What a loadable image looks like, for the properties: it has something to load, no two
   segments share memory, and no size wraps when it is added to an address below stage 2. *)

Overlap(a, b) == a.base < b.base + b.size /\ b.base < a.base + a.size
Sane(s) == s.paddr >= SDRAM_BASE /\ s.filesz <= s.memsz /\ s.paddr + s.memsz < 2^22
WellFormed(k, limit) ==
  /\ \E i \in DOMAIN k.segments : k.segments[i].load
  /\ \A size \in {k.initrd, k.args} : limit + 4 + size < 2^22
  /\ \A i \in DOMAIN k.segments : k.segments[i].load => Sane(k.segments[i])
  /\ \A i, j \in DOMAIN k.segments :
       i # j /\ k.segments[i].load /\ k.segments[j].load =>
         ~Overlap(Area("", k.segments[i].paddr, k.segments[i].memsz),
                  Area("", k.segments[j].paddr, k.segments[j].memsz))

\* No two areas share memory and all of them lie below stage 2.
Disjoint(areas, limit) ==
  /\ \A i, j \in DOMAIN areas : i # j => ~Overlap(areas[i], areas[j])
  /\ \A i \in DOMAIN areas : areas[i].base >= SDRAM_BASE /\ areas[i].base + areas[i].size <= limit
=============================================================================
