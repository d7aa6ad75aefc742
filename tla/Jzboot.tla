------------------------------- MODULE Jzboot -------------------------------
(***************************************************************************)
(* jzboot: the shell (shell.c, shell_builtins.c, main.c), its two command  *)
(* sets, the configuration variables (config.c), the device list           *)
(* (devmgr.c) and the device library they drive (ingenic.c, usbdev.c),     *)
(* with the ELF loader.  Scripts source scripts, so the shell is a stack   *)
(* of lines and scripts being executed.  A command is one step whose       *)
(* outcomes include every point at which a USB request can fail.           *)
(***************************************************************************)
EXTENDS ElfLoader, FiniteSets

CONSTANTS
  Scripts,      \* file name -> sequence of lines; a line is a sequence of tokens
  Sessions,     \* how jzboot is invoked
  Typed,        \* lines a user may type
  Numbers,      \* words that are numbers, and their values
  Kernels,      \* file name -> ELF image
  Heap,         \* what malloc may leave in total_sdram_size
  Sizes,        \* memories, in KB, of a device that is found running stage 2
  MaxTyped,     \* bound: lines typed
  MaxFailed     \* bound: USB requests that fail

\* -c runs a line, -b a script; without either main starts the prompt.
ASSUME SessionAssumption == \A s \in Sessions : s.kind \in {"-c", "-b", "prompt"}

\* No word has a minus sign (-1 stands for what malloc left behind), addresses and sizes
\* are unsigned, and the arguments contain the kernel's name.
ASSUME NumbersAssumption ==
  /\ \A word \in DOMAIN Numbers : Numbers[word] \in Nat
  /\ Heap \subseteq Nat /\ Sizes \subseteq Nat
ASSUME KernelsAssumption ==
  \A name \in DOMAIN Kernels :
    Kernels[name] \in [ident : BOOLEAN, segments : Seq(ElfSegments), initrd : Nat, args : Nat \ {0}]

VARIABLES
  session,      \* the invocation: [bus, idx, config, kind, cmd, script]
  phase,        \* of main: "start", "config", "main", "quit"
  ret,          \* what main returns
  stack,        \* lines and scripts in execution, innermost last
  result,       \* what the one just popped returned: "none", "ok", "fail"
  shell_exit,
  set_cmds,     \* the command set of the shell: "none", "SPL", "USBBoot"
  env,          \* cfg_environ
  handle,       \* ingenic_handle_t
  dev,          \* external: the device
  mustStop,     \* a command failed and neither `safe' nor a prompt caught it
  typed, failed

world == <<set_cmds, env, handle, dev>>
vars == <<session, phase, ret, stack, result, shell_exit, set_cmds, env, handle, dev, mustStop,
          typed, failed>>

(* Configuration ***********************************************************)

\* A value no option can have: what malloc left behind.
Junk == -1
Unset == "unset"

\* The options ingenic_rebuild reads, in its order.  Those it accepts whatever they
\* are (USEUART, BAUDRATE, SDRAM_COLADDR, the other NAND_ ones) are like the last two;
\* SDRAM_ISMOBILE and SDRAM_ISBUSSHARE stop it as the others do and are left out.
FwOptions == <<"EXTCLK", "CPUSPEED", "PHMDIV", "SDRAM_BUSWIDTH", "SDRAM_BANKS", "SDRAM_ROWADDR">>
NandOptions == <<"NAND_PAGESIZE", "NAND_OOBSIZE">>
Variables == Range(FwOptions \o NandOptions) \cup {"STAGE1_FILE", "STAGE2_FILE"}

atoi(word) == IF word \in DOMAIN Numbers THEN Numbers[word] ELSE 0

\* CFGOPT's and NOPT's expressions.
InRange(option, v) ==
  CASE option = "EXTCLK" -> v \in 12..27
    [] option = "CPUSPEED" -> v % 12 = 0
    [] option = "PHMDIV" -> v \in 2..32
    [] option = "SDRAM_BUSWIDTH" -> v \in {16, 32}
    [] option = "SDRAM_BANKS" -> v >= 4 /\ v % 4 = 0
    [] OTHER -> TRUE

cfg_getenv(e, variable) == e[variable]
cfg_setenv(e, variable, newval) == IF variable \in Variables THEN [e EXCEPT ![variable] = newval] ELSE e
cfg_unsetenv(e, variable) == cfg_setenv(e, variable, Unset)

Fits(e, option) == cfg_getenv(e, option) # Unset /\ InRange(option, atoi(e[option]))

\* How many of the options are read before one stops ingenic_rebuild.
Read(e, options) ==
  LET bad == {i \in DOMAIN options : ~Fits(e, options[i])}
  IN  IF bad = {} THEN Len(options) ELSE Min(bad) - 1
Filled(old, e, options) ==
  [o \in DOMAIN old |->
     IF \E i \in 1..Read(e, options) : options[i] = o THEN atoi(e[o]) ELSE old[o]]

\* The memory a configuration describes, in KB, with COLADDR 9; bank_num and row_addr have
\* eight bits, and total_sdram_size is the lower 32 bits of this.
SdramSize(cfg) ==
  2^(cfg["SDRAM_ROWADDR"] % 256) * ((cfg["SDRAM_BANKS"] % 256) \div 4 + 1) * 2 * (cfg["SDRAM_BUSWIDTH"] \div 16)

(* The device, external ****************************************************)

\* Plugged in and served by the boot ROM or by stage 2.
Answers(w) == w.dev.on /\ w.dev.mode \in {"rom", "stage2"}
Mode(w, mode) == [w EXCEPT !.dev.mode = mode]

\* Memory that holds stage 2 and can be addressed.
Usable(size) == size \in STAGE2_CODESIZE..SDRAM_BASE

\* Lost until it is reset: stage 2 left the bus to jump (PROGRAM_START2_Handle), or a
\* program ran with a configuration that was half built or describes no usable memory, or
\* where there is no memory.
Gone(w) ==
  [Mode(w, "gone") EXCEPT !.dev.lost = CASE w.dev.mode = "stage2" -> "left" [] w.handle.torn -> "half"
                                         [] ~Usable(SdramSize(w.handle.cfg)) -> "unusable"
                                         [] OTHER -> "no memory"]

\* Stage 1, started by the ROM with handle->cfg: the memory it leaves set up.  Stage 2
\* takes the image for data of its next operation.
RunStage1(w, op) ==
  IF w.dev.mode = "stage2" THEN {[w EXCEPT !.dev.bulk = "left"]}
  ELSE IF op = "gpio" \/ ~w.handle.cpu_id THEN {w}
  ELSE IF \E o \in DOMAIN w.handle.cfg : w.handle.cfg[o] = Junk THEN {w, Gone(w)}
  ELSE {[w EXCEPT !.dev.sdram = SdramSize(w.handle.cfg)]}

\* Stage 2, loaded at the address the host computed and started there.
RunStage2(w) ==
  LET base == Limit(w.handle.total)
  IN  IF w.dev.mode = "rom" /\ base >= SDRAM_BASE
          /\ base + STAGE2_CODESIZE <= SDRAM_BASE + w.dev.sdram
      THEN {[w EXCEPT !.dev.mode = "stage2", !.dev.place = base, !.dev.bulk = "empty"]}
      ELSE {Gone(w)}

\* Stage 2 copies the data it was sent, behind any that was left; what overwrites it ends it.
Store(w, area) ==
  LET hit == Overlap(area, Area("stage2", w.dev.place, STAGE2_CODESIZE))
      stored == [w EXCEPT !.dev.bulk = "empty",
                          !.dev.mem = Append(@, area),
                          !.dev.data = @ /\ w.dev.bulk = "empty"]
  IN  {IF hit THEN Mode(stored, "overwritten") ELSE stored}

(* The device library ******************************************************)

Ok(w) == [w |-> w, rc |-> 0, fault |-> FALSE]
Err(w) == [w |-> w, rc |-> -1, fault |-> FALSE]
Fault(w) == [w |-> w, rc |-> -1, fault |-> TRUE]

\* Go on with F after the outcomes that returned 0.
Then(outs, F(_)) == UNION {IF o.rc = 0 THEN F(o.w) ELSE {o} : o \in outs}

\* usbdev_vendor, usbdev_sendbulk, usbdev_recvbulk: requests that turn w into a member of
\* after; a failing one may have reached the device all the same.
usbdev(w, after) ==
  IF ~Answers(w) THEN {Err(w)} ELSE {Ok(x) : x \in after} \cup {Fault(x) : x \in {w} \cup after}

\* Mutant: the shell is not told.
ingenic_redetectSilent(w) ==
  IF ~Answers(w) THEN {Err(w)}
  ELSE {Ok([w EXCEPT !.handle.type = IF w.dev.mode = "rom" THEN "SPL" ELSE "USBBoot"]), Fault(w)}

\* ingenic_probe and ingenic_redetect, with the callback shell_update_cmdset.
ingenic_probe(w) == IF w.dev.mode = "rom" THEN "SPL" ELSE "USBBoot"
ingenic_redetect(w) ==
  LET type == ingenic_probe(w)
      told == [w EXCEPT !.handle.type = type,
                        !.set_cmds = IF type # w.handle.type THEN type ELSE @]
  IN  IF ~Answers(w) THEN {Err(w)} ELSE {Ok(told), Fault(w)}

\* Mutant: total_sdram_size is computed the first time only.
ingenic_rebuildStale(w) ==
  LET fw == Filled(w.handle.cfg, w.env, FwOptions)
      half == [w EXCEPT !.handle.cpu_id = TRUE, !.handle.cfg = fw, !.handle.torn = TRUE]
  IN  IF Read(w.env, FwOptions) < Len(FwOptions) THEN {Err(half)}
      ELSE {Ok([half EXCEPT !.handle.total = IF w.handle.torn THEN Wrap(SdramSize(fw)) ELSE @,
                            !.handle.torn = FALSE, !.handle.nand = Filled(@, w.env, NandOptions)])}

\* ingenic_rebuild: an option that is not set, or out of range, leaves the ones before
\* it changed, and total_sdram_size is computed between the two groups.
ingenic_rebuild(w) ==
  LET fw == Filled(w.handle.cfg, w.env, FwOptions)
      complete == Read(w.env, FwOptions) = Len(FwOptions)
      half == [w EXCEPT !.handle.cpu_id = TRUE, !.handle.cfg = fw, !.handle.torn = TRUE]
      whole == [half EXCEPT !.handle.total = Wrap(SdramSize(fw)), !.handle.torn = FALSE,
                            !.handle.nand = Filled(@, w.env, NandOptions)]
  IN  IF ~complete THEN {Err(half)}
      ELSE IF Read(w.env, NandOptions) = Len(NandOptions) THEN {Ok(whole)} ELSE {Err(whole)}

\* ingenic_stage1_debugop and ingenic_loadstage.
ingenic_loadstage1(w, op) ==
  IF cfg_getenv(w.env, "STAGE1_FILE") = Unset THEN {Err(w)} ELSE usbdev(w, RunStage1(w, op))
ingenic_loadstage2(w) ==
  IF cfg_getenv(w.env, "STAGE2_FILE") = Unset THEN {Err(w)}
  ELSE Then(usbdev(w, RunStage2(w)), ingenic_redetect)

\* ingenic_configure_stage2: DS_hand, which stage 2 takes from what it was sent first.
ingenic_configure_stage2(w) ==
  IF w.dev.mode # "stage2" THEN {Err(w)}
  ELSE usbdev(w, {[w EXCEPT !.dev.conf = IF w.dev.bulk = "empty" THEN w.handle.nand ELSE [o \in DOMAIN @ |-> Junk],
                            !.dev.bulk = "empty"]}) \cup {Fault([w EXCEPT !.dev.bulk = "left"])}

\* ingenic_memtest: the result is 0 or the address that failed.
ingenic_memtest(w) == LET outs == ingenic_loadstage1(w, "memtest") IN outs \cup {[o EXCEPT !.rc = -1] : o \in outs}

\* ingenic_load_sdram: in blocks of STAGE2_IOBUF; a failure between the data and the
\* operation leaves the data in the device's buffer.
ingenic_load_sdram(w, area) ==
  IF w.dev.mode # "stage2" THEN {Err(w)}
  ELSE usbdev(w, Store(w, area)) \cup {Fault([w EXCEPT !.dev.bulk = "left"])}

ingenic_go(w, mode) == usbdev(w, {Mode(w, mode)})

\* load_elf: every area the loader comes to, then, if all were loaded, the trampoline.
load_kernel(w, k) ==
  LET p == load_elf(k, w.handle.total)
      clean == [w EXCEPT !.dev.mem = <<>>, !.dev.data = TRUE,
                         !.dev.sound = WellFormed(k, w.dev.place) /\ w.dev.mode = "stage2"
                                         /\ Limit(w.handle.total) = w.dev.place]
      load(outs, area) == Then(outs, LAMBDA x : ingenic_load_sdram(x, area))
      loaded == FoldLeft(load, {Ok(clean)}, p.areas)
  IN  Then(loaded, LAMBDA x : IF p.ok THEN ingenic_go(x, "kernel") ELSE {Err(x)})

(* Commands ****************************************************************)

\* cmdsets: what each command's usage says of its arguments.
Builtin ==
  [help |-> <<>>, exit |-> <<>>, source |-> <<"<">>, echo |-> <<"<", "...">>, sleep |-> <<"<">>,
   set |-> <<"[", "[">>, safe |-> <<"<", "[", "...">>, redetect |-> <<>>, rebuildcfg |-> <<>>]
spl_cmdset == [memtest |-> <<"[", "<">>, gpio |-> <<"<", "<">>, boot |-> <<>>]
usbboot_cmdset ==
  [boot |-> <<>>, load |-> <<"<", "<">>, go |-> <<"<">>, load_kernel |-> <<"<", "<", "[">>,
   nquery |-> <<"<">>, ndump |-> <<"<", "<", "<", "<">>, ndump_oob |-> <<"<", "<", "<", "<">>,
   nerase |-> <<"<", "<", "<">>, nprogram |-> <<"<", "<", "<">>,
   nprogram_oob |-> <<"<", "<", "<">>, nload |-> <<"<", "<", "<", "<">>]
NandCommands == DOMAIN usbboot_cmdset \ {"boot", "load", "go", "load_kernel"}

\* shell_run_function's comparison of argc with the usage; "..." comes last and takes any.
Accepts(args, argc) ==
  LET any == args # <<>> /\ args[Len(args)] = "..."
      fixed == IF any THEN Len(args) - 1 ELSE Len(args)
  IN  IF argc <= fixed THEN args[argc] = "[" ELSE any \/ argc = fixed + 1

\* shell_enumerate_commands: the builtins and the set of the device.
shell_enumerate_commands(cmds) ==
  {Builtin} \cup (CASE cmds = "SPL" -> {spl_cmdset} [] cmds = "USBBoot" -> {usbboot_cmdset}
                    [] OTHER -> {})
Valid(argv, cmds) ==
  \E table \in shell_enumerate_commands(cmds) :
    argv[1] \in DOMAIN table /\ Accepts(table[argv[1]], Len(argv))

\* The handlers that do not concern the shell itself.
spl_boot(w) ==
  Then(Then(ingenic_loadstage1(w, "boot"), ingenic_loadstage2), ingenic_configure_stage2)
spl_handler(w, argv) ==
  CASE argv[1] = "boot" -> spl_boot(w)
    [] argv[1] = "memtest" -> ingenic_memtest(w)
    [] argv[1] = "gpio" -> IF argv[3] \in {"0", "1"} THEN ingenic_loadstage1(w, "gpio") ELSE {Err(w)}
usbboot_handler(w, argv) ==
  CASE argv[1] = "boot" -> ingenic_configure_stage2(w)
    [] argv[1] = "load" -> ingenic_load_sdram(w, Area("file", atoi(argv[3]), 1))
    [] argv[1] = "go" -> ingenic_go(w, "jumped")
    [] argv[1] = "load_kernel" ->
         IF argv[2] \in DOMAIN Kernels THEN load_kernel(w, Kernels[argv[2]]) ELSE {Err(w)}
    [] argv[1] \in NandCommands -> usbdev(w, {w})
builtin_handler(w, argv) ==
  CASE argv[1] = "rebuildcfg" -> ingenic_rebuild(w)
    [] argv[1] = "redetect" -> ingenic_redetect(w)
    [] argv[1] = "set" ->
         {Ok([w EXCEPT !.env = CASE Len(argv) = 1 -> @ [] Len(argv) = 2 -> cfg_unsetenv(@, argv[2])
                                 [] Len(argv) = 3 -> cfg_setenv(@, argv[2], argv[3])])}
    [] OTHER -> {Ok(w)}       \* help, echo, sleep and exit
handler(w, argv) ==
  IF argv[1] \in DOMAIN Builtin THEN builtin_handler(w, argv)
  ELSE IF w.set_cmds = "SPL" THEN spl_handler(w, argv) ELSE usbboot_handler(w, argv)

(* The shell ***************************************************************)

\* One token of yylex, as shell_execute takes it: " " for white space, ";", "#", a quote
\* that is never closed (it swallows the rest), or a word.
Closed(s) == [s EXCEPT !.cmds = IF s.argv = <<>> THEN @ ELSE Append(@, s.argv), !.argv = <<>>, !.want = "str"]
Lex(s, token) ==
  CASE s.end # "eof" -> s
    [] token = ";" -> Closed(s)
    [] token = "#" -> [Closed(s) EXCEPT !.end = "comment"]
    [] token = "\"" -> [s EXCEPT !.end = "quote"]
    [] token = " " -> [s EXCEPT !.want = "str"]
    [] s.want = "space" -> [s EXCEPT !.end = "bad", !.argv = <<>>]
    [] OTHER -> [s EXCEPT !.argv = Append(@, token), !.want = "space"]

\* A line in execution: the commands it still has to run, the last one, which runs at the
\* end of the line, how the line ends, whether ctx->line was replaced by an inner line,
\* and whether the script it is running was started under `safe'.
Line(tokens) ==
  FoldLeft(Lex, [kind |-> "line", cmds |-> <<>>, argv |-> <<>>, want |-> "str", end |-> "eof",
                 stale |-> FALSE, safe |-> FALSE], tokens)
Script(name) == [kind |-> "script", lines |-> Scripts[name]]
Prompt == [kind |-> "prompt"]

Top == Last(stack)
Replace(frame) == Append(Front(stack), frame)
Running(kind) == stack # <<>> /\ Top.kind = kind /\ result = "none"

\* shell_execute points ctx->line to the new line, which is freed when that one is through.
shell_execute(frames, tokens) ==
  Append([i \in DOMAIN frames |-> IF frames[i].kind = "line" THEN [frames[i] EXCEPT !.stale = TRUE]
                                  ELSE frames[i]], Line(tokens))

\* builtin_safe, any number of times.
builtin_safe(argv) ==
  LET plain == {i \in DOMAIN argv : argv[i] # "safe"}
  IN  IF plain = {} THEN <<"safe">> ELSE SubSeq(argv, Min(plain), Len(argv))
Safe(argv) == argv[1] = "safe" /\ Len(argv) > 1

\* Mutant: the result of a command is not looked at.
ContinueAlways(frame, outcome) ==
  stack' = Replace([frame EXCEPT !.safe = FALSE]) /\ result' = "none"

\* shell_execute after shell_run: the line goes on, or returns -1.
Continue(frame, outcome) ==
  IF outcome = "ok" \/ frame.safe
  THEN stack' = Replace([frame EXCEPT !.safe = FALSE]) /\ result' = "none"
  ELSE stack' = Front(stack) /\ result' = "fail"

\* A failure nobody catches: the shell was not given `safe' and is not at a prompt.
Stop(safe) ==
  mustStop' = \/ mustStop
              \/ ~safe /\ \A i \in DOMAIN stack : stack[i].kind # "prompt"
                                                   /\ (stack[i].kind = "line" => ~stack[i].safe)

\* shell_run: the next command of the line.  A script that is sourced comes on the stack.
Rejected(frame, argv) ==
  /\ ~Valid(builtin_safe(argv), set_cmds)
  /\ Continue(frame, "fail") /\ Stop(Safe(argv))
  /\ UNCHANGED <<world, shell_exit, failed>>
builtin_source(frame, argv) ==
  /\ Valid(builtin_safe(argv), set_cmds) /\ builtin_safe(argv)[1] = "source"
  /\ shell_exit' = 0
  /\ LET name == builtin_safe(argv)[2] IN
       IF name \in DOMAIN Scripts
       THEN stack' = Append(Replace(frame), Script(name)) /\ UNCHANGED <<result, mustStop>>
       ELSE Continue(frame, "fail") /\ Stop(Safe(argv))
  /\ UNCHANGED <<world, failed>>
Handled(frame, argv) ==
  /\ Valid(builtin_safe(argv), set_cmds) /\ builtin_safe(argv)[1] # "source"
  /\ \E o \in handler([set_cmds |-> set_cmds, env |-> env, handle |-> handle, dev |-> dev], builtin_safe(argv)) :
       /\ o.fault => failed < MaxFailed
       /\ failed' = failed + (IF o.fault THEN 1 ELSE 0)
       /\ set_cmds' = o.w.set_cmds /\ env' = o.w.env /\ handle' = o.w.handle /\ dev' = o.w.dev
       /\ Continue(frame, IF o.rc = 0 THEN "ok" ELSE "fail")
       /\ IF o.rc = 0 THEN UNCHANGED mustStop ELSE Stop(Safe(argv))
  /\ shell_exit' = IF builtin_safe(argv)[1] = "exit" THEN 1 ELSE shell_exit

shell_run ==
  /\ Running("line") /\ Top.cmds # <<>>
  /\ LET argv == Head(Top.cmds)
         frame == [Top EXCEPT !.cmds = Tail(@), !.safe = Safe(argv)]
     IN  Rejected(frame, argv) \/ builtin_source(frame, argv) \/ Handled(frame, argv)
  /\ UNCHANGED <<session, phase, ret, typed>>

\* shell_pull at the end of the text.  If ctx->line is no longer this line's the scanner
\* reads what free left there: nothing, or characters that end up in the last command.
shell_pull(frame) ==
  {frame.argv} \cup
  (IF ~frame.stale \/ frame.end # "eof" THEN {}
   ELSE {Append(IF frame.want = "space" THEN Front(frame.argv) ELSE frame.argv, "junk")})

EndOfLine ==
  /\ Running("line") /\ Top.cmds = <<>>
  /\ \/ /\ Top.end = "bad"
        /\ stack' = Front(stack) /\ result' = "fail" /\ Stop(FALSE)
     \/ /\ Top.end \in {"eof", "quote"}
        /\ \E argv \in shell_pull(Top) :
             stack' = Replace([Top EXCEPT !.cmds = IF argv = <<>> THEN <<>> ELSE <<argv>>,
                                          !.argv = <<>>, !.end = "comment"])
        /\ UNCHANGED <<result, mustStop>>
     \/ /\ Top.end = "comment"
        /\ stack' = Front(stack) /\ result' = "ok" /\ UNCHANGED mustStop
  /\ UNCHANGED <<world, session, phase, ret, shell_exit, typed, failed>>

\* shell_source: the next line of the file, or its end.
shell_source ==
  /\ Running("script")
  /\ IF Top.lines # <<>> /\ shell_exit = 0
     THEN /\ stack' = shell_execute(Replace([Top EXCEPT !.lines = Tail(@)]), Head(Top.lines))
          /\ UNCHANGED result
     ELSE stack' = Front(stack) /\ result' = "ok"
  /\ UNCHANGED <<world, session, phase, ret, shell_exit, mustStop, typed, failed>>

\* shell_interactive: a line typed, or the end of the session.
shell_interactive ==
  /\ Running("prompt")
  /\ \/ /\ shell_exit = 0 /\ typed < MaxTyped /\ typed' = typed + 1
        /\ \E line \in Typed : stack' = shell_execute(stack, line)
        /\ UNCHANGED result
     \/ stack' = Front(stack) /\ result' = "ok" /\ UNCHANGED typed
  /\ UNCHANGED <<world, session, phase, ret, shell_exit, mustStop, failed>>

\* A line or script that ended: builtin_source, shell_source and shell_interactive go on.
Returned ==
  /\ stack # <<>> /\ result # "none"
  /\ \/ Top.kind = "line" /\ Continue(Top, result) /\ shell_exit' = 0
     \/ /\ Top.kind = "script" /\ UNCHANGED shell_exit
        /\ IF result = "ok" THEN stack' = stack /\ result' = "none"
           ELSE stack' = Front(stack) /\ result' = "fail"
     \/ Top.kind = "prompt" /\ stack' = stack /\ result' = "none" /\ UNCHANGED shell_exit
  /\ UNCHANGED <<world, session, phase, ret, mustStop, typed, failed>>

(* main ********************************************************************)

\* The devices is_ingenic knows; add_device puts each in front of the list.
usbdev_enumerate(bus) == Reverse(SelectSeq(bus, LAMBDA d : d # "other"))
get_device(list, idx) == IF idx < Len(list) THEN list[idx + 1] ELSE "none"

\* A handle of the type the probe found, in memory that is not cleared.
ingenic_open(found) ==
  {[handle EXCEPT !.type = IF found = "rom" THEN "SPL" ELSE "USBBoot", !.total = total] : total \in Heap}

Leave(code) == phase' = "quit" /\ ret' = code /\ result' = "none" /\ UNCHANGED <<stack, shell_exit>>

Found == get_device(usbdev_enumerate(session.bus), session.idx)

\* No such device, or usbdev_open, the probe or shell_init fails.
OpenFails ==
  /\ phase = "start"
  /\ Found = "none" \/ failed < MaxFailed
  /\ failed' = failed + (IF Found = "none" THEN 0 ELSE 1)
  /\ Leave(1) /\ UNCHANGED <<world, session, mustStop, typed>>

\* usbdev_open, ingenic_open with its probe, shell_init and the -C script.
Open ==
  /\ phase = "start" /\ Found # "none"
  /\ handle' \in ingenic_open(Found)
  /\ set_cmds' = handle'.type
  /\ \E size \in Sizes :
       dev' = IF Found = "rom" THEN [dev EXCEPT !.on = TRUE]
              ELSE [dev EXCEPT !.on = TRUE, !.mode = "stage2", !.sdram = size, !.place = Limit(size)]
  /\ IF session.config \in DOMAIN Scripts
     THEN phase' = "config" /\ stack' = <<Script(session.config)>>
          /\ UNCHANGED <<ret, result, shell_exit>>
     ELSE IF session.config = "none"
     THEN phase' = "config" /\ result' = "ok" /\ UNCHANGED <<ret, stack, shell_exit>>
     ELSE Leave(1)
  /\ UNCHANGED <<session, mustStop, typed, env, failed>>

\* -c, -b or the prompt, once the configuration went well.
Choose ==
  /\ phase = "config" /\ stack = <<>>
  /\ \/ result = "fail" /\ Leave(1)
     \/ /\ result = "ok" /\ session.kind = "-b" /\ session.script \notin DOMAIN Scripts /\ Leave(1)
     \/ /\ result = "ok" /\ (session.kind = "-b" => session.script \in DOMAIN Scripts)
        /\ phase' = "main" /\ result' = "none" /\ UNCHANGED ret
        /\ stack' = CASE session.kind = "-c" -> <<Line(session.cmd)>>
                      [] session.kind = "-b" -> <<Script(session.script)>>
                      [] session.kind = "prompt" -> <<Prompt>>
        /\ shell_exit' = IF session.kind = "-c" THEN shell_exit ELSE 0
  /\ UNCHANGED <<world, session, mustStop, typed, failed>>

Finish ==
  /\ phase = "main" /\ stack = <<>> /\ Leave(IF result = "ok" THEN 0 ELSE 1)
  /\ UNCHANGED <<world, session, mustStop, typed, failed>>

\* The cable is pulled.
Unplug ==
  /\ dev.on /\ failed < MaxFailed /\ phase # "quit"
  /\ dev' = [dev EXCEPT !.on = FALSE] /\ failed' = failed + 1
  /\ UNCHANGED <<session, phase, ret, stack, result, shell_exit, set_cmds, env, handle, mustStop, typed>>

Init ==
  /\ session \in Sessions
  /\ phase = "start" /\ ret = 0 /\ stack = <<>> /\ result = "none" /\ shell_exit = 0
  /\ set_cmds = "none" /\ env = [v \in Variables |-> Unset]
  /\ handle = [type |-> "none", cpu_id |-> FALSE, cfg |-> [o \in Range(FwOptions) |-> Junk],
               nand |-> [o \in Range(NandOptions) |-> Junk], total |-> 0, torn |-> TRUE]
  /\ dev = [on |-> FALSE, mode |-> "rom", sdram |-> 0, place |-> 0, bulk |-> "empty", mem |-> <<>>,
            data |-> TRUE, sound |-> FALSE, conf |-> [o \in Range(NandOptions) |-> Junk], lost |-> "no"]
  /\ mustStop = FALSE /\ typed = 0 /\ failed = 0

Next ==
  \/ OpenFails \/ Open \/ Choose \/ Finish
  \/ shell_run \/ EndOfLine \/ shell_source \/ shell_interactive \/ Returned
  \/ Unplug

Spec == Init /\ [][Next]_vars

(* Properties **************************************************************)

\* Once a command of a -C, -b or -c invocation failed, however deep in sourced scripts,
\* nothing more is done to the configuration or to the device, and jzboot's exit status
\* says so: only `safe' and the prompt catch a failure (shell_execute, shell_source,
\* builtin_source, main).
BatchStopsAtFailure ==
  [][mustStop => /\ UNCHANGED <<set_cmds, env, handle>>
                 /\ dev' \in {dev, [dev EXCEPT !.on = FALSE]}
                 /\ phase' = "quit" => ret' = 1]_vars

\* The commands the shell offers are those of what runs on the device: it offers stage 2's
\* only when stage 2 was started, and the boot ROM's to stage 2 only if a request failed
\* on the way there (ingenic_redetect after loadstage, shell_update_cmdset).
CommandsMatchDevice ==
  /\ set_cmds = handle.type
  /\ set_cmds = "USBBoot" => dev.mode # "rom"
  /\ set_cmds = "SPL" /\ dev.mode = "stage2" => failed > 0

\* Stage 2 is put where stage 1 set memory up, whatever geometries were tried before and
\* whatever requests failed: if boot loses the device, stage 2 was running already, the
\* last rebuildcfg had stopped half way, or the geometry, of which ROWADDR is not checked,
\* describes less memory than stage 2 takes or more than there are addresses
\* (ingenic_rebuild, ingenic_loadstage, spl_boot).
BootFindsMemory == dev.lost # "no memory"

\* The kernel that is started is all there and nothing of it was overwritten: segments,
\* initrd, arguments and trampoline lie in memory, apart from each other and below the
\* running stage 2, which loading it never overwrites.  It holds for images that have a
\* segment to load, whose segments do not overlap and whose sizes do not wrap, loaded
\* while the configured memory is the one stage 2 was placed in (load_segment, load_elf,
\* ingenic_load_sdram).
KernelIntact ==
  dev.sound =>
    /\ dev.mode = "overwritten" => Last(dev.mem).what = "file"
    /\ dev.mode = "kernel" =>
         /\ Disjoint(dev.mem, dev.place)
         /\ {"args", "trampoline"} \subseteq {dev.mem[i].what : i \in DOMAIN dev.mem}
         /\ failed = 0 => dev.data
=============================================================================
