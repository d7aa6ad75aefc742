-------------------------------- MODULE Boot --------------------------------
(***************************************************************************)
(* A usbboot session: the host command loop (src/cmd.c, src/ingenic_usb.c, *)
(* src/command_line.c) bringing a device up through its boot ROM, the      *)
(* stage 1 program (xburst_stage1) and the stage 2 program (xburst_stage2).*)
(*                                                                         *)
(* Every USB request is one step: it is served and reported, it fails      *)
(* unserved, or it is served and its completion is lost.  A failed bulk    *)
(* write may have delivered a first part.  Stage 1 runs concurrently with  *)
(* the host, which may time out before it is back in the ROM.  The user    *)
(* may kill usbboot and start it again, or power the device off and on.    *)
(*                                                                         *)
(* An uploaded file is the code it holds and the two firmware arguments    *)
(* that matter (cpu_id and debug_ops); the two places code is started from *)
(* are the cache at 0x80002000 and the SDRAM address of stage 2.           *)
(***************************************************************************)
EXTENDS Integers, Sequences

CONSTANTS
  Cpu,           \* the chip's id: 4740 or 4760 (the ids usbboot opens)
  Commands,      \* the commands the user enters
  MaxCmds,       \* bound: commands entered
  MaxFailed,     \* bound: requests that fail although the device is there
  MaxRestarts    \* bound: usbboot restarts and power cycles

AllCommands == {"boot", "memtest", "gpio", "nand", "reset", "go"}

ASSUME CpuAssumption == Cpu \in {4740, 4760}
ASSUME CommandAssumption == Commands \subseteq AllCommands
ASSUME BoundAssumption ==
  MaxCmds \in Nat /\ MaxFailed \in Nat /\ MaxRestarts \in Nat

VARIABLES
  \* device
  mode,      \* what executes: "rom", "stage1", "stage2", or none of them:
             \* "gone" (left the bus for another program), "lost" (crashed)
  addr,      \* where the ROM stores bulk data
  mem,       \* the code at the two start addresses
  sdram,     \* the SDRAM controller is set up
  hand_id,   \* stage 2's Hand.fw_args.cpu_id
  Hand,      \* what config_hand copied, Junk before Board_Init
  bulk,      \* stage 2's Bulk_out_buf, file by file
  ep1,       \* packets waiting in the EP1 IN FIFO
  \* host
  handle,    \* usb_handle refers to the device now on the bus
  cmd, todo, \* the command under way, its remaining steps
  cpu_id, debug_ops,    \* hand.fw_args
  file,      \* file_buff
  report,    \* result of the last command
  cmds, failed, restarts,
  \* bookkeeping for the properties
  killed,    \* usbboot was killed inside a command
  cut,       \* the device was powered off during the command
  odd,       \* a boot uploaded stage 1 with debug_ops set
  tested,    \* verdict of the memory test this command ran
  why        \* how the device came to stop answering

devVars  == <<mode, addr, mem, sdram, hand_id, Hand, bulk, ep1>>
hostVars == <<handle, cmd, todo, cpu_id, debug_ops, file, report>>
counters == <<cmds, failed, restarts>>
ghosts   == <<killed, cut, odd, tested, why>>
vars == <<devVars, hostVars, counters, ghosts>>

-----------------------------------------------------------------------------
Code(what, c, d) == [what |-> what, cpu |-> c, debug |-> d]
Junk == Code("junk", 0, 0)

\* A bulk write cut short: the arguments are in the first packet, the rest
\* is what was there before (whole if the same program was uploaded earlier).
Torn(new, old) == IF old.what = new.what THEN new ELSE [new EXCEPT !.what = "torn"]

\* Mutant of init_cfg: the configuration's handshake is not read.
init_cfgNoAck == <<"cfgcpu", "hand", "bulkhand", "config">>

\* usb_ingenic_upload for stage 1 and for stage 2, and init_cfg.
Upload1 == <<"load1", "address", "bulk", "start", "check">>
Upload2 == <<"load2", "address", "bulk", "check", "flush", "start", "check">>
init_cfg == <<"cfgcpu", "hand", "bulkhand", "config", "ack">>

\* The requests each command makes, in order.
Script == [ boot    |-> <<"bootcpu">> \o Upload1 \o Upload2 \o init_cfg,
            memtest |-> <<"debugcpu">> \o Upload1 \o <<"result">>,
            gpio    |-> <<"debugcpu">> \o Upload1,
            nand    |-> <<"needboot", "op", "ack">>,
            reset   |-> <<"needboot", "reset">>,
            go      |-> <<"start">> ]

Idle == cmd = "none"
Step == Head(todo)
Stage2Start == file.what = "stage2" \/ cmd = "go"

\* The host's timeouts leave a device that is not listening no other answer.
Listening == handle /\ mode \in {"rom", "stage2"}
Busy      == handle /\ mode = "stage1"

PowerOnState ==
  /\ mode' = "rom" /\ addr' = "nowhere" /\ sdram' = FALSE
  /\ mem' = [cache |-> Junk, sdram |-> Junk]
  /\ hand_id' = 0 /\ Hand' = Junk /\ bulk' = <<>> /\ ep1' = <<>>

Init ==
  /\ mode = "rom" /\ addr = "nowhere" /\ sdram = FALSE
  /\ mem = [cache |-> Junk, sdram |-> Junk]
  /\ hand_id = 0 /\ Hand = Junk /\ bulk = <<>> /\ ep1 = <<>>
  /\ handle = TRUE /\ cmd = "none" /\ todo = <<>>
  /\ cpu_id = 0 /\ debug_ops = 0 /\ file = Junk
  /\ report = [cmd |-> "none", res |-> 0]
  /\ cmds = 0 /\ failed = 0 /\ restarts = 0
  /\ killed = FALSE /\ cut = FALSE /\ odd = FALSE /\ tested = "none" /\ why = "none"

-----------------------------------------------------------------------------
(* What the device does with a request.                                    *)

SameDevice == UNCHANGED <<devVars, why>>

\* VR_SET_DATA_ADDRESS.  Stage 2 keeps it for its own operations.
SetAddress ==
  /\ addr' = IF mode # "rom" THEN addr
             ELSE IF file.what = "stage1" THEN "cache" ELSE "sdram"
  /\ UNCHANGED <<mode, mem, sdram, hand_id, Hand, bulk, ep1, why>>

\* Bulk data: the ROM stores it at the address, stage 2 appends it to
\* Bulk_out_buf.  SDRAM that is not set up keeps nothing.
Receive(part) ==
  /\ IF mode = "stage2" THEN
       /\ bulk' = Append(bulk, IF part THEN [file EXCEPT !.what = "torn"] ELSE file)
       /\ UNCHANGED mem
     ELSE
       /\ mem' = IF addr = "nowhere" \/ (addr = "sdram" /\ ~sdram) THEN mem
                 ELSE [mem EXCEPT ![addr] = IF part THEN Torn(file, @) ELSE file]
       /\ UNCHANGED bulk
  /\ UNCHANGED <<mode, addr, sdram, hand_id, Hand, ep1, why>>

\* VR_PROGRAM_START1: the ROM calls 0x80002000, stage 2 only notes the address.
Start1 ==
  /\ mode' = IF mode = "rom" THEN "stage1" ELSE mode
  /\ UNCHANGED <<addr, mem, sdram, hand_id, Hand, bulk, ep1, why>>

\* VR_PROGRAM_START2 at the stage 2 address from the ROM.  c_main relocates
\* the image in place, so it cannot be entered a second time; usb_main starts
\* with empty buffers but leaves the endpoint FIFOs alone.
EnterStage2 ==
  /\ IF sdram /\ mem.sdram.what = "stage2"
     THEN /\ mode' = "stage2" /\ hand_id' = mem.sdram.cpu
          /\ mem' = [mem EXCEPT !.sdram = Junk] /\ UNCHANGED why
     ELSE mode' = "lost" /\ why' = "wild" /\ UNCHANGED <<hand_id, mem>>
  /\ Hand' = Junk /\ bulk' = <<>>
  /\ UNCHANGED <<addr, sdram, ep1>>

\* VR_PROGRAM_START2 anywhere else: PROGRAM_START2_Handle leaves the bus and
\* jumps, and so does whatever `go' names.
LeaveBus ==
  /\ mode' = "gone" /\ why' = IF cmd = "go" THEN "go" ELSE "again"
  /\ UNCHANGED <<addr, mem, sdram, hand_id, Hand, bulk, ep1>>

Start2 == IF mode = "rom" /\ cmd # "go" THEN EnterStage2 ELSE LeaveBus

\* VR_CONFIGRATION: config_hand, Board_Init, handshake, Bulk_out_size = 0.
CONFIGRATION_Handle ==
  /\ Hand' = IF bulk = <<>> THEN Junk ELSE Head(bulk)
  /\ hand_id' = Hand'.cpu
  /\ bulk' = <<>> /\ ep1' = Append(ep1, "handshake")
  /\ UNCHANGED <<mode, addr, mem, sdram, why>>

\* VR_NAND_OPS: the function pointers are null until Board_Init has set them.
NAND_OPS_Handle ==
  /\ IF Hand.cpu = Cpu
     THEN ep1' = Append(ep1, "handshake") /\ bulk' = <<>> /\ UNCHANGED <<mode, why>>
     ELSE mode' = "lost" /\ why' = "null" /\ UNCHANGED <<ep1, bulk>>
  /\ UNCHANGED <<addr, mem, sdram, hand_id, Hand>>

\* Each request as its server handles it (those of stage 2 are only sent
\* after it has identified itself).
Serve(step) ==
  \/ step = "address" /\ SetAddress
  \/ step \in {"bulk", "bulkhand"} /\ Receive(FALSE)
  \/ step = "start" /\ ~Stage2Start /\ Start1
  \/ step = "start" /\ Stage2Start /\ Start2
  \/ step = "config" /\ CONFIGRATION_Handle
  \/ step = "op" /\ NAND_OPS_Handle
  \/ step = "reset" /\ PowerOnState /\ UNCHANGED why
  \/ step \in {"flush", "bootcpu", "debugcpu", "needboot", "cfgcpu", "check"} /\ SameDevice

\* do_debug and c_main of stage 1, then back to the ROM.
Stage1Runs ==
  /\ mode = "stage1"
  /\ LET img == mem.cache  known == img.cpu = Cpu IN
     IF img.what # "stage1"
     THEN mode' = "lost" /\ why' = "wild" /\ UNCHANGED <<sdram, mem, ep1, tested>>
     ELSE /\ mode' = "rom" /\ UNCHANGED why
          /\ sdram' = (sdram \/ (known /\ img.debug \in {0, 1}))
          /\ IF img.debug = 1
             THEN \E err \in {"pass", "fail"} :          \* check_sdram
                    /\ ~sdram' => err = "fail"
                    /\ tested' = err /\ ep1' = Append(ep1, err)
                    /\ mem' = [mem EXCEPT !.sdram = Junk]
             ELSE UNCHANGED <<tested, ep1, mem>>
  /\ UNCHANGED <<addr, hand_id, Hand, bulk, hostVars, counters, killed, cut, odd>>

-----------------------------------------------------------------------------
(* The host's commands.                                                    *)

Go == todo' = Tail(todo) /\ UNCHANGED <<cmd, report>>
End(res) == cmd' = "none" /\ todo' = <<>> /\ report' = [cmd |-> cmd, res |-> res]

\* usb_get_ingenic_cpu: which of its names the answer is.
CpuStatus == IF mode = "rom" THEN "JZ" ELSE IF hand_id = Cpu THEN "BOOT" ELSE "error"

\* Mutant of BootCpu: an already booted device is configured again.
BootCpuConfigures(s) ==
  /\ IF s = "BOOT" THEN todo' = init_cfg /\ UNCHANGED <<cmd, report>> ELSE Go
  /\ UNCHANGED debug_ops

\* Mutant of CfgCpu: init_cfg refuses the device it has just booted.
CfgCpuRefuses(s) == (IF s = "JZ" THEN Go ELSE End(1)) /\ UNCHANGED debug_ops

\* Mutant of DebugCpu: gpio forgets to say which debug operation it wants.
DebugCpuKeeps(s) ==
  \/ s # "BOOT" /\ Go /\ debug_ops' = IF cmd = "memtest" THEN 1 ELSE debug_ops
  \/ s = "BOOT" /\ End(-1) /\ UNCHANGED debug_ops

\* get_ingenic_cpu and the decision each caller takes on its status.
BootCpu(s) == (IF s = "BOOT" THEN End(1) ELSE Go) /\ UNCHANGED debug_ops

NeedBoot(s) == (IF s = "BOOT" THEN Go ELSE End(-1)) /\ UNCHANGED debug_ops

CfgCpu(s) == (IF s = "BOOT" THEN Go ELSE End(1)) /\ UNCHANGED debug_ops

DebugCpu(s) ==
  \/ s # "BOOT" /\ Go /\ debug_ops' = IF cmd = "memtest" THEN 1 ELSE 2
  \/ s = "BOOT" /\ End(-1) /\ UNCHANGED debug_ops
  \/ s = "JZ" /\ cmd = "gpio" /\ Cpu = 4740 /\ End(-1) /\ UNCHANGED debug_ops    \* no such pin

get_ingenic_cpu(s) ==
  /\ cpu_id' = IF s = "error" THEN 0 ELSE Cpu
  /\ \/ Step = "bootcpu" /\ BootCpu(s)
     \/ Step = "debugcpu" /\ DebugCpu(s)
     \/ Step = "needboot" /\ NeedBoot(s)
     \/ Step = "cfgcpu" /\ CfgCpu(s)
  /\ UNCHANGED file

CpuSteps == {"bootcpu", "debugcpu", "needboot", "cfgcpu"}

Ignored == {"address", "bulk", "flush", "op"}

\* Mutant of AfterFailure: the result of usb_ingenic_start is ignored too.
AfterFailureStarts ==
  /\ UNCHANGED <<cpu_id, debug_ops, file>>
  /\ IF Step \in Ignored \/ (Step = "start" /\ Len(todo) > 1) THEN Go
     ELSE IF Step \in {"bulkhand", "config", "ack"} THEN End(1) ELSE End(-1)

\* Mutant of AfterFailure: a failed status request is simply repeated.
AfterFailureRetries ==
  /\ UNCHANGED <<cpu_id, debug_ops, file>>
  /\ IF Step \in Ignored THEN Go
     ELSE IF Step = "check" THEN UNCHANGED <<cmd, todo, report>>
     ELSE IF Step \in {"bulkhand", "config", "ack"} THEN End(1) ELSE End(-1)

\* How the host goes on after a failed request: the results of the address,
\* the upload and the cache flush are ignored, and so are those of NAND
\* operations here; init_cfg gives up but boot still returns 1.
AfterFailure ==
  /\ UNCHANGED <<cpu_id, debug_ops, file>>
  /\ IF Step \in Ignored THEN Go
     ELSE IF Step \in {"bulkhand", "config", "ack"} THEN End(1) ELSE End(-1)

\* Mutant of AfterSuccess: the last step does not return.
AfterSuccessFallsThrough ==
  /\ UNCHANGED <<cpu_id, debug_ops, file>>
  /\ IF Step = "check" /\ CpuStatus = "error" THEN End(-1) ELSE Go

AfterSuccess ==
  /\ UNCHANGED <<cpu_id, debug_ops, file>>
  /\ IF Step = "check" /\ CpuStatus = "error" THEN End(-1)
     ELSE IF Len(todo) = 1 THEN End(1) ELSE Go

\* load_file, and init_cfg's copy of hand.
Load ==
  /\ ~Idle /\ Step \in {"load1", "load2", "hand"}
  /\ file' = Code(CASE Step = "load1" -> "stage1" [] Step = "load2" -> "stage2"
                    [] OTHER -> "hand", cpu_id, debug_ops)
  /\ odd' = (odd \/ (cmd = "boot" /\ Step = "load1" /\ debug_ops # 0))
  /\ Go
  /\ UNCHANGED <<devVars, handle, cpu_id, debug_ops, counters, killed, cut, tested, why>>

LoadFails ==
  /\ ~Idle /\ Step \in {"load1", "load2", "hand"} /\ failed < MaxFailed
  /\ failed' = failed + 1
  /\ End(IF Step = "hand" THEN 1 ELSE -1)
  /\ UNCHANGED <<devVars, handle, cpu_id, debug_ops, file, cmds, restarts, ghosts>>

Reads == {"ack", "result"}
Request == ~Idle /\ Step \notin {"load1", "load2", "hand"} \cup Reads

\* A request is served and its completion seen.
RequestServed ==
  /\ Request /\ Listening
  /\ Serve(Step)
  /\ IF Step \in CpuSteps THEN get_ingenic_cpu(CpuStatus) ELSE AfterSuccess
  /\ handle' = (Step # "reset")
  /\ UNCHANGED <<counters, killed, cut, odd, tested>>

HostSeesFailure == IF Step \in CpuSteps THEN get_ingenic_cpu("error") ELSE AfterFailure

\* Nothing is listening: the request times out.
RequestUnanswered ==
  /\ Request /\ ~Listening /\ ~Busy
  /\ HostSeesFailure
  /\ UNCHANGED <<devVars, handle, counters, ghosts>>

\* The request fails although the device is there: unserved (also because
\* stage 1 still runs), half served, or served with the completion lost.
RequestFails ==
  /\ Request /\ (Listening \/ Busy)
  /\ failed < MaxFailed /\ failed' = failed + 1
  /\ \/ SameDevice /\ UNCHANGED handle
     \/ Step \in {"bulk", "bulkhand"} /\ Listening /\ Receive(TRUE) /\ UNCHANGED handle
     \/ Listening /\ Serve(Step) /\ handle' = (Step # "reset")
  /\ HostSeesFailure
  /\ UNCHANGED <<cmds, restarts, killed, cut, odd, tested>>

\* usb_read_data_from_ingenic: init_cfg's and a NAND operation's handshake,
\* the verdict of the memory test.  debug_memory does not look at the status
\* of the read, so without a packet its buffer holds anything.
ReadEnds(got) ==
  IF cmd = "memtest" THEN
    \E said \in (IF got \in {"pass", "fail"} THEN {got} ELSE {"pass", "fail"}) :
      cmd' = "none" /\ todo' = <<>> /\ report' = [cmd |-> said, res |-> 1]
  ELSE End(1)

ReadPacket ==
  /\ ~Idle /\ Step \in Reads /\ handle /\ ep1 # <<>> /\ mode # "gone"
  /\ ep1' = Tail(ep1) /\ ReadEnds(Head(ep1))
  /\ UNCHANGED <<mode, addr, mem, sdram, hand_id, Hand, bulk,
                 handle, cpu_id, debug_ops, file, counters, ghosts>>

ReadTimesOut ==
  /\ ~Idle /\ Step \in Reads
  /\ \/ (~handle \/ mode = "gone" \/ (ep1 = <<>> /\ mode # "stage1")) /\ UNCHANGED failed
     \/ failed < MaxFailed /\ failed' = failed + 1
  /\ ReadEnds("nothing")
  /\ UNCHANGED <<devVars, handle, cpu_id, debug_ops, file, cmds, restarts, ghosts>>

\* command_handle: the user enters a command.
Enter(c) ==
  /\ Idle /\ cmds < MaxCmds
  /\ cmds' = cmds + 1 /\ cmd' = c /\ todo' = Script[c]
  /\ report' = [cmd |-> "none", res |-> 0] /\ cut' = FALSE /\ tested' = "none"
  /\ UNCHANGED <<devVars, handle, cpu_id, debug_ops, file, failed, restarts, killed, odd, why>>

\* usbboot is ended, possibly inside a command, and started again: main opens
\* the device it finds on the bus and reads the configuration afresh.
Restart ==
  /\ restarts < MaxRestarts /\ restarts' = restarts + 1
  /\ mode # "gone"
  /\ killed' = (killed \/ ~Idle)
  /\ handle' = TRUE /\ cmd' = "none" /\ todo' = <<>>
  /\ cpu_id' = 0 /\ debug_ops' = 0 /\ file' = Junk
  /\ report' = [cmd |-> "none", res |-> 0]
  /\ UNCHANGED <<devVars, cmds, failed, cut, odd, tested, why>>

\* The user powers the device off and on; usbboot's handle is then stale.
PowerCycle ==
  /\ restarts < MaxRestarts /\ restarts' = restarts + 1
  /\ PowerOnState
  /\ handle' = FALSE /\ cut' = TRUE /\ why' = "none"
  /\ UNCHANGED <<cmd, todo, cpu_id, debug_ops, file, report, cmds, failed, killed, odd, tested>>

HostStep == Load \/ RequestServed \/ RequestUnanswered \/ ReadPacket \/ ReadTimesOut
Done == Idle /\ cmds = MaxCmds /\ mode # "stage1" /\ UNCHANGED vars

Next ==
  \/ \E c \in Commands : Enter(c)
  \/ HostStep \/ LoadFails \/ RequestFails
  \/ Stage1Runs \/ Restart \/ PowerCycle
  \/ Done

Spec == Init /\ [][Next]_vars

(* The host is a sequential program whose every request completes or times *)
(* out, and stage 1 is straight-line code: both keep going.                *)
FairSpec == Spec /\ WF_vars(HostStep) /\ WF_vars(Stage1Runs)
-----------------------------------------------------------------------------
(* Properties.                                                             *)

StepNames == {"bootcpu", "load1", "address", "bulk", "start", "check", "load2", "flush", "cfgcpu",
              "hand", "bulkhand", "config", "ack", "debugcpu", "result", "needboot", "op", "reset"}
Codes == [what : {"junk", "torn", "stage1", "stage2", "hand"}, cpu : {0, Cpu}, debug : 0..2]

\* Every variable has its type: the host's and the device's copies of the
\* firmware arguments range over the ids and debug operations of the code, and
\* stage 2's buffer never holds more files than requests were made.
TypeOK ==
  /\ mode \in {"rom", "stage1", "stage2", "gone", "lost"}
  /\ addr \in {"nowhere", "cache", "sdram"}
  /\ mem \in [cache : Codes, sdram : Codes]
  /\ sdram \in BOOLEAN /\ hand_id \in {0, Cpu} /\ Hand \in Codes
  /\ bulk \in Seq(Codes) /\ ep1 \in Seq({"handshake", "pass", "fail"})
  /\ handle \in BOOLEAN /\ cmd \in AllCommands \cup {"none"}
  /\ todo \in Seq(StepNames) /\ (Idle <=> todo = <<>>)
  /\ cpu_id \in {0, Cpu} /\ debug_ops \in 0..2 /\ file \in Codes
  /\ report.cmd \in AllCommands \cup {"none", "pass", "fail"} /\ report.res \in {-1, 0, 1}
  /\ cmds \in 0..MaxCmds /\ failed \in 0..MaxFailed /\ restarts \in 0..MaxRestarts
  /\ killed \in BOOLEAN /\ cut \in BOOLEAN /\ odd \in BOOLEAN
  /\ tested \in {"none", "pass", "fail"} /\ why \in {"none", "wild", "null", "go", "again"}

\* Whatever fails, a stage 2 that Board_Init has configured holds the host's
\* complete hand structure with the chip's id: config_hand copies the start of
\* Bulk_out_buf, so this rests on init_cfg being the first to send bulk data
\* to a fresh stage 2 and on its giving up after a failed transfer.
ConfiguredRight ==
  mode = "stage2" /\ Hand # Junk => Hand.what = "hand" /\ Hand.cpu = Cpu /\ hand_id = Cpu

\* Whatever fails, when boot returns 1 the device is in stage 2 and knows its
\* chip, unless it was powered off meanwhile: stage 2's last GET_CPU_INFO
\* before init_cfg is the only evidence boot has, as it ignores the results
\* of the uploads.
BootReportsStage2 ==
  report.cmd = "boot" /\ report.res = 1 /\ ~cut => mode = "stage2" /\ hand_id = Cpu

\* The device stops answering only for a cause, power cycles and restarts
\* included.  Stage 1 or stage 2 is started from memory that does not hold it
\* only after a request or a file failed, or after a boot with stage 1 in a
\* debug mode; a running stage 2 is entered again only after a failure; and a
\* NAND operation runs before Board_Init only after a failure or after
\* usbboot was killed inside a boot.
LostForCause ==
  /\ why = "wild" => failed > 0 \/ odd
  /\ why = "again" => failed > 0
  /\ why = "null" => failed > 0 \/ killed

\* While nothing fails, what debug_memory prints is the verdict of the memory
\* test stage 1 ran for this very command, never one left in the endpoint.
MemtestHonest ==
  report.cmd \in {"pass", "fail"} /\ failed = 0 /\ ~killed /\ ~cut =>
    report.cmd = tested

\* While nothing fails, every command reads all the packets the device sent
\* for it, so that the next command's first packet is its own; a boot with
\* stage 1 in its memory-test mode is the exception.
EP1Drained == Idle /\ ep1 # <<>> => failed > 0 \/ killed \/ odd

\* Every command comes to an end, with a lost device too: each request either
\* completes or times out, and no failure makes the host repeat one.
CommandEnds == (cmd # "none") ~> (cmd = "none")

\* The help text: boot makes the device run stage 2.  With a device that is
\* there and no request failing, a boot command ends in stage 2.
BootMakesStage2 ==
  report.cmd = "boot" /\ failed = 0 /\ restarts = 0 /\ handle => mode = "stage2"

=============================================================================
