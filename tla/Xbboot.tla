------------------------------- MODULE Xbboot -------------------------------
(***************************************************************************)
(* xbboot beside usbboot: its host program (host_main.c), whose upload     *)
(* loop starts over whenever a request fails, the boot ROM as that program *)
(* uses it, and xbboot's own stage 1 (stage1.c and its copies of the board *)
(* files), which learns from a word patched into its image which CPU it    *)
(* runs on.  Every behaviour is one tool on one board.                     *)
(***************************************************************************)
EXTENDS Stage1

CONSTANTS
  Pads,        \* what may follow the two bytes of xburst_cpu in memory
  MaxFailed,   \* bound: requests that fail
  MaxSingles   \* bound: xbboot commands of a single request

ASSUME XbAssumption == Pads \subseteq Nat /\ MaxFailed \in Nat /\ MaxSingles \in Nat

VARIABLES
  tool,           \* the host program in use
  phase,          \* of -u: "off", "open", "send", "quit"
  step,           \* the number of its next request
  handle,         \* the opened device is still the one on the bus
  option_upload,  \* the next bulk_write patches the image
  pad,            \* the member of Pads of this build
  image,          \* the CPU id word of the stage 1 in the cache
  addr,           \* the address the boot ROM was given
  program,        \* the user's file at its address: "none", "lost", "patched", "loaded"
  started,        \* what start2 was sent by, once it ran: "no", "single", "upload"
  retried,        \* -u starts over after the patched image was lost before it ran
  failed, singles

hostState == <<phase, step, handle, option_upload, retried>>
device == <<image, addr, program, started>>
xbVars == <<tool, hostState, pad, device, failed, singles>>
allVars == <<vars, xbVars>>

(* Stage 1 of xbboot *******************************************************)

\* load_args_4740; the bus width word of the image is 0, which sdram_init turns into 1.
load_args_4740 ==
  [i \in Items |-> CASE i = "EXTCLK" -> 12 [] i = "CPUSPEED" -> 252 [] i = "PHMDIV" -> 3
     [] i = "BOUDRATE" -> 57600 [] i = "BUSWIDTH" -> 16 [] i = "BANKS" -> 4
     [] i = "ROWADDR" -> 13 [] i = "COLADDR" -> 9 [] OTHER -> 0]

xb_c_main(c) ==
  IF c = "jz4740" THEN <<"gpio", "serial", "pll", "sdram", "refresh", "mode", "nand">>
  ELSE <<"gpio", "cpm", "serial", "pll", "ddr", "ddr_mem", "ddr_map", "nand">>

\* The boot ROM enters stage 1; one that finds no id it knows returns at once.
RunStage1 ==
  IF image = [id |-> cpu, pad |-> 0]
  THEN /\ calls' = xb_c_main(cpu)
       /\ args' = load_args(fw_args(load_args_4740))
       /\ last' = [what |-> "boot", cfg |-> load_args_4740,
                   total |-> total_size(fw_args(load_args_4740))]
  ELSE UNCHANGED <<calls, args, last>>

Xb(c) == tool = "xbboot" /\ cpu = c /\ UNCHANGED xbVars

\* Mutant: one input more.
KeyInputsOneMore == Port(3, 18..25)

\* The keyboard's pins: 7 inputs and, among the LCD's, 8 outputs; LCD_CS.
KeyInputs == Port(3, 18..24)

KeyOutputs == Port(2, 10..17 \cup {21})
xb_gpio_pins(g) ==
  LET sel(h) == [h EXCEPT !.SEL = @ \cup Port(2, {31})]
      units == gpio_as_msc(gpio_as_lcd_18bit(gpio_as_uart0(sel(gpio_as_sdram_32bit(gpio_as_nand(g))))))
  IN  gpio_as_output(gpio_as_input(units, KeyInputs), KeyOutputs)

xb_gpio_init_4740 ==
  /\ Xb("jz4740") /\ Called("gpio")
  /\ gpio' = xb_gpio_pins(gpio)
  /\ UNCHANGED <<reg, chip>> /\ Rest
xb_gpio_init_4760 ==
  /\ Xb("jz4760") /\ Called("gpio")
  /\ gpio' = gpio_as_nand_16bit_4760(gpio_as_uarts_4760(gpio))
  /\ UNCHANGED <<reg, chip>> /\ Rest

\* xbboot's copies of the board functions.
xb_cpm_start_all_4760 == Xb("jz4760") /\ cpm_start_all_4760
xb_serial_init_4740 == Xb("jz4740") /\ serial_init
xb_serial_init_4760 == Xb("jz4760") /\ serial_init
xb_pll_init_4740 == Xb("jz4740") /\ pll_init
xb_pll_init_4760 == Xb("jz4760") /\ pll_init
xb_sdram_precharge == Xb("jz4740") /\ sdram_precharge
xb_sdram_refresh == Xb("jz4740") /\ sdram_refresh
xb_sdram_mode == Xb("jz4740") /\ sdram_mode
xb_ddr_reset == Xb("jz4760") /\ ddr_reset
xb_ddr_mem_init == Xb("jz4760") /\ ddr_mem_init
xb_ddr_map == Xb("jz4760") /\ ddr_map

\* nand_init_4740 and nand_init_4760: NFE1 and NFCE1.
xb_nand_init(c) ==
  /\ Xb(c) /\ Called("nand")
  /\ reg' = [reg EXCEPT !.NFCSR = @ \cup {0, 1}]
  /\ UNCHANGED <<gpio, chip>> /\ Rest

(* The boot ROM, external **************************************************)

Requests == {"set_addr_stage1", "bulk_write_stage1", "start1", "get_info", "set_addr",
             "bulk_write", "flush_cache", "start2"}

\* What a request does; patched is what the host made of the file it sends.  A
\* start1 without a stage 1 leaves the ROM for good, as start2 does.
File(req) == IF req = "bulk_write_stage1" THEN "stage1" ELSE "program"
Effect(req, patched, by) ==
  LET writes(where) == req \in {"bulk_write_stage1", "bulk_write"} /\ addr = where
      leaves == req = "start2" \/ (req = "start1" /\ image.id = "empty")
  IN  /\ addr' = CASE req = "set_addr_stage1" -> "stage1" [] req = "set_addr" -> "program"
                   [] OTHER -> addr
      /\ image' = IF ~writes("stage1") THEN image
                  ELSE IF File(req) = "program" THEN [id |-> "empty", pad |-> 0]
                  ELSE IF patched THEN [id |-> cpu, pad |-> pad] ELSE [id |-> "none", pad |-> 0]
      /\ program' = IF ~writes("program") THEN program
                    ELSE IF last.what # "boot" \/ File(req) = "stage1" THEN "lost"
                    ELSE IF patched THEN "patched" ELSE "loaded"
      /\ started' = IF leaves THEN by ELSE started
      /\ IF req = "start1" /\ ~leaves THEN RunStage1 ELSE UNCHANGED <<calls, args, last>>

\* The ROM answers while neither stage 1 nor the program runs.
Answers == calls = <<>> /\ started = "no"
Board == <<cpu, hostVars, gpio, reg, chip, runs, resets>>

(* The host ****************************************************************)

\* main -u: the requests of one attempt, in order.
Attempt == <<"set_addr_stage1", "bulk_write_stage1", "start1", "get_info", "set_addr",
             "bulk_write", "flush_cache", "start2">>

Upload ==
  /\ tool = "xbboot" /\ phase = "off"
  /\ phase' = "open" /\ option_upload' = TRUE
  /\ UNCHANGED <<vars, tool, step, handle, pad, device, retried, failed, singles>>

\* open_xburst_device, once a second until the boot ROM is found on the bus.
open_xburst_device ==
  /\ phase = "open" /\ started = "no"
  /\ phase' = "send" /\ step' = 1 /\ handle' = TRUE
  /\ UNCHANGED <<vars, tool, option_upload, pad, device, retried, failed, singles>>

\* Mutant: the flag is not cleared, so every file is patched.
PatchesAll(req) == phase # "off" /\ req \in {"bulk_write_stage1", "bulk_write"}

Patches(req) == option_upload /\ req \in {"bulk_write_stage1", "bulk_write"}

\* send_request in the loop: the file is read and patched, the request sent.
Succeeds ==
  /\ phase = "send" /\ handle /\ Answers
  /\ LET req == Attempt[step] IN
       /\ Effect(req, Patches(req), "upload")
       /\ option_upload' = (option_upload /\ ~Patches(req))
  /\ IF step = Len(Attempt) THEN phase' = "quit" /\ step' = 1
     ELSE step' = step + 1 /\ phase' = phase
  /\ UNCHANGED <<Board, tool, handle, pad, retried, failed, singles>>

\* A request that fails: the file cannot be read, or, once option_upload is cleared,
\* the transfer is lost before or after it did its work.  The device is closed and
\* the loop starts over.
Fails ==
  /\ phase = "send" /\ failed < MaxFailed
  /\ failed' = failed + 1
  /\ phase' = "open" /\ step' = 1 /\ handle' = FALSE
  /\ LET req == Attempt[step] IN
       \/ UNCHANGED <<vars, device, option_upload>>
       \/ /\ option_upload' = (option_upload /\ ~Patches(req))
          /\ UNCHANGED <<vars, device>>
       \/ /\ option_upload' = (option_upload /\ ~Patches(req))
          /\ handle /\ Answers
          /\ Effect(req, Patches(req), "upload")
          /\ UNCHANGED Board
  /\ retried' = (~option_upload' /\ last'.what # "boot")
  /\ UNCHANGED <<tool, pad, singles>>

\* main with a single request: another process, whose option_upload is 0.
Single(req) ==
  /\ tool = "xbboot" /\ phase \in {"off", "quit"} /\ Answers /\ singles < MaxSingles
  /\ singles' = singles + 1
  /\ Effect(req, FALSE, "single")
  /\ UNCHANGED <<Board, tool, hostState, pad, failed>>

\* The reset button: the handle of the host is no longer good for anything.
XbReset ==
  /\ tool = "xbboot" /\ PowerOn
  /\ handle' = FALSE /\ retried' = (phase # "off" /\ ~option_upload)
  /\ image' = [id |-> "empty", pad |-> 0] /\ addr' = "none" /\ program' = "none" /\ started' = "no"
  /\ UNCHANGED <<tool, phase, step, option_upload, pad, failed, singles>>

XbInitOf(tools) ==
  /\ Init
  /\ tool \in tools
  /\ phase = "off" /\ step = 1 /\ handle = FALSE /\ option_upload = FALSE /\ retried = FALSE
  /\ pad \in IF tool = "xbboot" THEN Pads ELSE {0}
  /\ image = [id |-> "empty", pad |-> 0] /\ addr = "none" /\ program = "none" /\ started = "no"
  /\ failed = 0 /\ singles = 0

UsbbootNext == tool = "usbboot" /\ Next /\ UNCHANGED xbVars

XbNext ==
  \/ UsbbootNext
  \/ Upload \/ open_xburst_device \/ Succeeds \/ Fails \/ \E req \in Requests : Single(req)
  \/ xb_gpio_init_4740 \/ xb_gpio_init_4760 \/ xb_cpm_start_all_4760
  \/ xb_serial_init_4740 \/ xb_serial_init_4760 \/ xb_pll_init_4740 \/ xb_pll_init_4760
  \/ xb_sdram_precharge \/ xb_sdram_refresh \/ xb_sdram_mode
  \/ xb_ddr_reset \/ xb_ddr_mem_init \/ xb_ddr_map \/ \E c \in CPUs : xb_nand_init(c)
  \/ XbReset

(* Properties **************************************************************)

\* What xbboot -u starts is the user's file, unpatched, in memory that was set up
\* before it was written there, whatever requests failed and whatever other xbboot
\* commands came before: unless the image with the CPU id was lost before it ran, or
\* the two bytes after xburst_cpu are not zero (main, send_request, stage 1's c_main).
StartedInMemory ==
  started = "upload" /\ pad = 0 /\ ~retried =>
    program = "loaded" /\ MemoryReady /\ last.what = "boot"

\* show_help: "[-u | --upload] <address> <path>  upload file at <path> to <address> then
\* jump to <address>", with a loop around it that tries again when a request fails.
UploadStartsProgram == started = "upload" => program = "loaded"

\* xbboot's gpio_init leaves NAND, memory and console their pins although the keyboard's
\* pins lie among those of the console's port and of the LCD, and usbboot's gives them
\* back whatever the gpio commands did (PinsKept).
XbPinsKept == IF tool = "usbboot" THEN PinsKept ELSE
  Done({"boot"}) =>
    IF cpu = "jz4740"
    THEN /\ Sdram32Pins \cup NandPins \cup MscPins \subseteq gpio.FUN \ gpio.SEL
         /\ Uart0Pins \subseteq gpio.FUN \cap gpio.SEL
         /\ NandReadyPin \cap (gpio.FUN \cup gpio.DIR) = {}
    ELSE /\ Nand16Pins4760 \cup Uart1Pins4760 \subseteq gpio.FUN \ (gpio.SEL \cup gpio.TRG)
         /\ NandReadyPin4760 \cap (gpio.FUN \cup gpio.DIR) = {}
=============================================================================
