------------------------------ MODULE MCJzboot ------------------------------
(***************************************************************************)
(* Scripts, typed lines and kernels for the checks of Jzboot.  "boot" and  *)
(* "initial" follow config/boot.cfg and config/initial.cfg.                *)
(***************************************************************************)
EXTENDS Jzboot

Of(words) == FoldLeft(LAMBDA line, word : line \o <<word, " ">>, <<>>, words)
Set(variable, value) == Of(<<"set", variable, value>>)
Also(a, b) == a \o <<";", " ">> \o b
Note(line) == line \o <<"#", "note">>

Geometry(width, row) ==
  Also(Also(Set("SDRAM_BUSWIDTH", width), Set("SDRAM_ROWADDR", row)), Of(<<"rebuildcfg">>))

MCScripts ==
  [initial |->
     <<<<"#", "note">>,
       Also(Set("STAGE1_FILE", "stage1"), Set("STAGE2_FILE", "stage2")),
       Note(Set("EXTCLK", "12")),
       Also(Also(Set("CPUSPEED", "252"), Set("PHMDIV", "3")), Set("SDRAM_BANKS", "4")),
       Also(Set("NAND_PAGESIZE", "2048"), Set("NAND_OOBSIZE", "64")),
       Geometry("16", "13")>>,
   boot |-> <<Of(<<"source", "initial">>), <<>>, Of(<<"boot">>)>>,
   start |-> <<Also(Of(<<"source", "boot">>), Of(<<"echo", "loading">>)),
               Of(<<"load_kernel", "initrd", "args">>)>>,
   half |-> <<Also(Set("SDRAM_BUSWIDTH", "16"), Set("SDRAM_BANKS", "2")), Of(<<"rebuildcfg">>),
              Of(<<"exit">>), Of(<<"gpio", "1", "1">>)>>,
   leave |-> <<Also(Of(<<"exit">>), Set("NAND_OOBSIZE", "128")), Of(<<"boot">>)>>]

MCTyped ==
  {Of(<<"source", "boot">>), Geometry("32", "13"), Geometry("16", "12"), Of(<<"boot">>),
   Also(Of(<<"safe", "source", "half">>), Of(<<"nquery", "0">>)),
   Also(Of(<<"source", "leave">>), Of(<<"redetect">>)),
   Also(Of(<<"safe", "safe", "memtest", "1">>), Of(<<"exit">>)),
   Of(<<"load_kernel", "plain", "args">>), Of(<<"load_kernel", "full", "args">>),
   Of(<<"load_kernel", "large", "args">>), Of(<<"load_kernel", "wraps", "args">>),
   Also(Of(<<"load", "file", "2097152">>), Of(<<"go", "2097152">>)),
   Of(<<"load", "file", "2125824">>),
   <<"set", " ", "NAND_PAGESIZE", "512">>, <<"set", " ", "NAND_PAGESIZE", " ", "\"", "512">>,
   Of(<<"source", "missing">>), Of(<<"gpio", "1", "2">>), Of(<<"ndump", "0", "1", "2">>)}

MCSessions ==
  LET invoked(bus, idx, config, kind, cmd, script) ==
        [bus |-> bus, idx |-> idx, config |-> config, kind |-> kind, cmd |-> cmd, script |-> script]
  IN  {invoked(<<"rom">>, 0, "initial", "prompt", <<>>, "none"),
       invoked(<<"other", "stage2", "rom">>, 0, "none", "prompt", <<>>, "none"),
       invoked(<<"stage2", "other", "rom">>, 1, "initial", "prompt", <<>>, "none"),
       invoked(<<"rom">>, 0, "none", "-b", <<>>, "start"),
       invoked(<<"stage2">>, 0, "none", "-b", <<>>, "start"),
       invoked(<<"rom">>, 0, "half", "-b", <<>>, "boot"),
       invoked(<<"rom">>, 0, "leave", "-c", Also(Of(<<"exit">>), Of(<<"source", "boot">>)), "none"),
       invoked(<<"rom">>, 0, "initial", "-c", Also(Of(<<"source", "half">>), Of(<<"boot">>)), "none"),
       invoked(<<"rom">>, 1, "none", "-b", <<>>, "boot"),
       invoked(<<"rom">>, 0, "missing", "-b", <<>>, "boot"),
       invoked(<<"rom">>, 0, "none", "-b", <<>>, "missing")}

MCNumbers ==
  ("1" :> 1) @@ ("2" :> 2) @@ ("3" :> 3) @@ ("4" :> 4) @@ ("12" :> 12) @@ ("13" :> 13) @@ ("16" :> 16)
  @@ ("32" :> 32) @@ ("64" :> 64) @@ ("128" :> 128) @@ ("252" :> 252) @@ ("512" :> 512)
  @@ ("2048" :> 2048) @@ ("2097152" :> 2097152) @@ ("2125824" :> 2125824)

Segment(paddr, filesz, memsz) ==
  [load |-> TRUE, paddr |-> SDRAM_BASE + paddr, filesz |-> filesz, memsz |-> memsz]
Kernel(segments, initrd) == [ident |-> TRUE, segments |-> segments, initrd |-> initrd, args |-> 1]
Unloaded == [load |-> FALSE, paddr |-> 0, filesz |-> 9, memsz |-> 9]
Limit32 == 32768 - STAGE2_CODESIZE

MCKernels ==
  [plain |-> Kernel(<<Unloaded, Segment(64, 2000, 2101), Segment(0, 3, 3)>>, 0),
   initrd |-> Kernel(<<Segment(64, 2000, 2100)>>, 3001),
   full |-> Kernel(<<Segment(64, 2000, 2100)>>, Limit32 - 2164 - 8),
   large |-> Kernel(<<Segment(64, 2000, 2100)>>, Limit32 - 2164 - 4),
   wraps |-> Kernel(<<Segment(64, 2000, 2^22 - 1)>>, 0)]
=============================================================================
