-------------------------- MODULE SocHeaderProofs --------------------------
(***************************************************************************)
(* Proofs about the board set-up: what stage 1 of usbboot and of xbboot    *)
(* leaves behind, for every configuration file, every pin and every number *)
(* of runs, resets and failed requests, and what the macros of the SoC     *)
(* headers leave behind, for every order and number of calls.              *)
(***************************************************************************)
EXTENDS SocHeader, TLAPS

Tools == {"usbboot", "xbboot", "pins", "clocks"}
Boards == {"usbboot", "xbboot"}

(* The steps of a board ****************************************************)

boardVars == <<calls, args, gpio, reg, chip, last>>

\* The calls of a run of stage 1.
Plan(t, c, what) ==
  IF t = "xbboot" THEN xb_c_main(c) ELSE IF what = "boot" THEN c_main(c) ELSE do_debug(c)

\* What parse_configure lets through, and xbboot's own configuration.
Accepted(c) ==
  /\ c \in [Items -> Nat]
  /\ check_dump_cfg(fw_args(c), c) /\ fw_args(c).phm_div # 0

Begins(what, c) ==
  /\ what \in {"boot", "memtest"} /\ Accepted(c) /\ (tool = "xbboot" => what = "boot")
  /\ calls' = Plan(tool, cpu, what)
  /\ args' = load_args(fw_args(c))
  /\ last' = [what |-> what, cfg |-> c, total |-> total_size(fw_args(c))]
  /\ UNCHANGED <<gpio, reg, chip>>

Tests(pin) ==
  /\ tool = "usbboot" /\ calls = <<>> /\ calls' = <<>>
  /\ gpio' = gpio_as_output(gpio, {pin})
  /\ last'.what = "gpio" /\ UNCHANGED <<reg, chip>>

Resets ==
  /\ calls' = <<>> /\ last' = NoRun
  /\ gpio' = GpioReset /\ reg' = RegReset /\ chip' = <<>>

GpioInit ==
  IF tool = "usbboot" THEN IF cpu = "jz4740" THEN gpio_init_4740(gpio) ELSE gpio_init_4760(gpio)
  ELSE IF cpu = "jz4740" THEN xb_gpio_pins(gpio)
  ELSE gpio_as_nand_16bit_4760(gpio_as_uarts_4760(gpio))
InitsPins == Called("gpio") /\ gpio' = GpioInit /\ UNCHANGED <<args, last, reg, chip>>

\* The calls that set registers, but those for the memory.
SetsRegisters ==
  /\ \/ Called("cpm") /\ reg' = [reg EXCEPT !.CLKGR = {}]
     \/ Called("nand") /\ reg' = [reg EXCEPT !.NFCSR = @ \cup {0, 1}]
     \/ Called("check") /\ reg' = reg
  /\ UNCHANGED <<args, last, gpio, chip>>

InitsMemory ==
  \/ pll_init \/ sdram_precharge \/ sdram_refresh \/ sdram_mode
  \/ ddr_reset \/ ddr_mem_init \/ ddr_map

BoardStep ==
  \/ UNCHANGED boardVars
  \/ \E what, c : Begins(what, c)
  \/ \E pin : Tests(pin)
  \/ Resets
  \/ InitsPins \/ SetsRegisters \/ serial_init \/ InitsMemory

\* Which tool runs on which board, and what the others leave alone.
ToolInv ==
  /\ tool \in Tools /\ cpu \in CPUs /\ header \in Headers
  /\ tool # "xbboot" => phase = "off" /\ started = "no"
  /\ tool \notin Boards => last = NoRun /\ calls = <<>>
  /\ tool # "pins" => todo = <<>> /\ held = {}
HostInv ==
  verdict = "ok" =>
    /\ cfg \in Configs /\ hand = fw_args(cfg) /\ total = total_size(hand)
    /\ check_dump_cfg(hand, cfg) /\ hand.phm_div # 0

LEMMA StartedRun ==
  ASSUME HostInv, tool = "usbboot", NEW what \in {"boot", "memtest"},
         Start(what, Plan(tool, cpu, what)), UNCHANGED gpio
  PROVE  Begins(what, cfg)
<1>1. Accepted(cfg)
  BY ConfigAssumption DEF HostInv, Start, Accepted
<1> QED
  BY <1>1 DEF HostInv, Start, Begins

LEMMA OwnConfiguration == Accepted(load_args_4740)
<1> DEFINE c == load_args_4740
<1>1. c \in [Items -> Nat]
  BY DEF load_args_4740, Items
<1>2. /\ c["EXTCLK"] = 12 /\ c["CPUSPEED"] = 252 /\ c["PHMDIV"] = 3 /\ c["BUSWIDTH"] = 16
      /\ c["BANKS"] = 4 /\ c["PAGESIZE"] = 0 /\ c["OOBSIZE"] = 0 /\ c["PAGEPERBLOCK"] = 0
  BY DEF load_args_4740, Items
<1>3. /\ fw_args(c).ext_clk = 12 /\ fw_args(c).cpu_speed = 252 \div 12 /\ fw_args(c).phm_div = 3
      /\ fw_args(c).bus_width = 1 /\ fw_args(c).bank_num = 1
  BY <1>2 DEF fw_args, u8
<1>4. 252 \div 12 = 21 /\ (21 * 12) % 12 = 0
  OBVIOUS
<1>5. check_dump_cfg(fw_args(c), c)
  BY <1>2, <1>3, <1>4 DEF check_dump_cfg
<1> QED
  BY <1>1, <1>3, <1>5 DEF Accepted

LEMMA RomEffect ==
  ASSUME tool = "xbboot", cpu' = cpu, NEW req, NEW patched, NEW by, Effect(req, patched, by), Answers,
         UNCHANGED <<gpio, reg, chip>>
  PROVE  BoardStep
<1>1. RunStage1 \/ UNCHANGED <<calls, args, last>>
  BY DEF Effect
<1>2. CASE UNCHANGED <<calls, args, last>>
  BY <1>2 DEF BoardStep, boardVars
<1>3. ASSUME RunStage1, image = [id |-> cpu, pad |-> 0] PROVE Begins("boot", load_args_4740)
  BY <1>3, OwnConfiguration DEF RunStage1, Begins, Plan
<1> QED
  BY <1>1, <1>2, <1>3 DEF RunStage1, BoardStep

\* What the calls that set up clocks and memory leave alone.
LEMMA CallsRest ==
  ASSUME serial_init \/ InitsMemory
  PROVE  UNCHANGED <<cpu, hostVars, args, last, gpio>>
<1>1. CASE serial_init
  BY <1>1, SMT DEF serial_init, Rest
<1>2. CASE pll_init
  BY <1>2, SMT DEF pll_init, Rest
<1>3. CASE sdram_precharge \/ sdram_refresh \/ sdram_mode
  BY <1>3, SMT DEF sdram_precharge, sdram_refresh, sdram_mode, Rest
<1>4. CASE ddr_reset
  BY <1>4, SMT DEF ddr_reset, Rest
<1>5. CASE ddr_mem_init
  BY <1>5, SMT DEF ddr_mem_init, Rest
<1>6. CASE ddr_map
  BY <1>6, SMT DEF ddr_map, Rest
<1> QED
  BY <1>1, <1>2, <1>3, <1>4, <1>5, <1>6 DEF InitsMemory

LEMMA UsbbootBoard ==
  ASSUME HostInv, UsbbootNext
  PROVE  BoardStep
<1> USE DEF BoardStep, UsbbootNext
<1>1. CASE \E c \in Configs : parse_configure(c)
  BY <1>1 DEF parse_configure, boardVars
<1>2. CASE Boot
  BY <1>2, StartedRun DEF Boot, Plan
<1>3. CASE Memtest
  BY <1>3, StartedRun DEF Memtest, Plan
<1>4. ASSUME NEW pin \in Pins, GpioTest(pin) PROVE Tests(pin)
  BY <1>4 DEF GpioTest, Start, Tests
<1>5. CASE gpio_init
  BY <1>5 DEF gpio_init, InitsPins, GpioInit, Rest
<1>6. CASE cpm_start_all_4760
  BY <1>6 DEF cpm_start_all_4760, SetsRegisters, Rest
<1>7. CASE serial_init
  BY <1>7
<1>8. CASE check_sdram
  BY <1>8 DEF check_sdram, SetsRegisters, Rest
<1>9. CASE ResetBoard
  BY <1>9 DEF ResetBoard, PowerOn, Resets
<1>10. CASE Quit
  BY <1>10 DEF Quit, boardVars
<1>11. CASE pll_init \/ sdram_precharge \/ sdram_refresh \/ sdram_mode \/ ddr_reset \/ ddr_mem_init \/ ddr_map
  BY <1>11 DEF InitsMemory
<1> QED
  BY <1>1, <1>2, <1>3, <1>4, <1>5, <1>6, <1>7, <1>8, <1>9, <1>10, <1>11 DEF Next

LEMMA XbbootBoard ==
  ASSUME tool = "xbboot", XbNext, ~UsbbootNext
  PROVE  BoardStep /\ UNCHANGED <<cpu, hostVars, tool>>
<1> USE DEF BoardStep
<1>1. CASE Upload \/ open_xburst_device
  BY <1>1 DEF Upload, open_xburst_device, vars, boardVars, hostVars
<1>2. CASE Succeeds
  BY <1>2, RomEffect DEF Succeeds, Board
<1>3. CASE Fails
  BY <1>3, RomEffect DEF Fails, Board, vars, boardVars, hostVars
<1>4. CASE \E req \in Requests : Single(req)
  BY <1>4, RomEffect DEF Single, Board
<1>5. CASE xb_gpio_init_4740 \/ xb_gpio_init_4760
  BY <1>5 DEF xb_gpio_init_4740, xb_gpio_init_4760, Xb, xbVars, InitsPins, GpioInit, Rest
<1>6. CASE xb_cpm_start_all_4760
  BY <1>6 DEF xb_cpm_start_all_4760, cpm_start_all_4760, SetsRegisters, Rest, Xb, xbVars
<1>7. CASE xb_serial_init_4740 \/ xb_serial_init_4760
  <2>1. serial_init /\ tool' = tool
    BY <1>7 DEF xb_serial_init_4740, xb_serial_init_4760, Xb, xbVars
  <2>2. UNCHANGED <<cpu, hostVars>>
    BY <2>1, CallsRest DEF InitsMemory
  <2> QED
    BY <2>1, <2>2
<1>8. CASE \E c \in CPUs : xb_nand_init(c)
  BY <1>8 DEF xb_nand_init, SetsRegisters, Rest, Xb, xbVars
<1>9. CASE XbReset
  BY <1>9 DEF XbReset, PowerOn, Resets
<1>10. CASE xb_pll_init_4740 \/ xb_pll_init_4760
  <2>1. pll_init /\ tool' = tool
    BY <1>10 DEF xb_pll_init_4740, xb_pll_init_4760, Xb, xbVars
  <2>2. UNCHANGED <<cpu, hostVars>>
    BY <2>1, CallsRest DEF InitsMemory
  <2> QED
    BY <2>1, <2>2 DEF InitsMemory
<1>11. CASE xb_sdram_precharge \/ xb_sdram_refresh \/ xb_sdram_mode
  <2>1. (sdram_precharge \/ sdram_refresh \/ sdram_mode) /\ tool' = tool
    BY <1>11 DEF xb_sdram_precharge, xb_sdram_refresh, xb_sdram_mode, Xb, xbVars
  <2>2. UNCHANGED <<cpu, hostVars>>
    BY <2>1, CallsRest DEF InitsMemory
  <2> QED
    BY <2>1, <2>2 DEF InitsMemory
<1>12. CASE xb_ddr_reset \/ xb_ddr_mem_init \/ xb_ddr_map
  <2>1. (ddr_reset \/ ddr_mem_init \/ ddr_map) /\ tool' = tool
    BY <1>12 DEF xb_ddr_reset, xb_ddr_mem_init, xb_ddr_map, Xb, xbVars
  <2>2. UNCHANGED <<cpu, hostVars>>
    BY <2>1, CallsRest DEF InitsMemory
  <2> QED
    BY <2>1, <2>2 DEF InitsMemory
<1> QED
  BY <1>1, <1>2, <1>3, <1>4, <1>5, <1>6, <1>7, <1>8, <1>9, <1>10, <1>11, <1>12 DEF XbNext

\* The host's verdict is about its configuration.
LEMMA HostStep ==
  ASSUME HostInv, UsbbootNext
  PROVE  HostInv' /\ UNCHANGED <<cpu, tool>>
<1> USE DEF UsbbootNext, xbVars
<1>1. ASSUME NEW c \in Configs, parse_configure(c) PROVE HostInv' /\ UNCHANGED cpu
  BY <1>1 DEF parse_configure, HostInv
<1>2. CASE UNCHANGED <<cpu, hostVars>>
  BY <1>2 DEF HostInv, hostVars
<1>3. ASSUME Boot \/ Memtest \/ \E pin \in Pins : GpioTest(pin) PROVE UNCHANGED <<cpu, hostVars>>
  BY <1>3 DEF Boot, Memtest, GpioTest, Start
<1>4. ASSUME gpio_init \/ cpm_start_all_4760 \/ check_sdram PROVE UNCHANGED <<cpu, hostVars>>
  BY <1>4 DEF gpio_init, cpm_start_all_4760, check_sdram, Rest
<1>5. ASSUME serial_init \/ InitsMemory PROVE UNCHANGED <<cpu, hostVars>>
  BY <1>5, CallsRest
<1>6. ASSUME ResetBoard PROVE UNCHANGED <<cpu, hostVars>>
  BY <1>6 DEF ResetBoard, PowerOn
<1>7. ASSUME Quit PROVE HostInv' /\ UNCHANGED cpu
  BY <1>7 DEF Quit, HostInv
<1> QED
  BY <1>1, <1>2, <1>3, <1>4, <1>5, <1>6, <1>7 DEF Next, InitsMemory

(* Which tool does what ****************************************************)

PinSteps ==
  \/ \E u \in DOMAIN Units(header, cpu) : AsUnit(u)
  \/ \E n \in LinePins :
       \/ \E k \in 0..3 : AsFunc(n, k)
       \/ AsOutput(n) \/ AsInput(n) \/ LineChanges(n)
       \/ \E mode \in Modes : AsIrq(mode, n)
       \/ \E w \in {Write(n, "IE", FALSE), Write(n, "IE", TRUE), Write(n, "FLG", FALSE)} : IrqCall(w)
  \/ RegisterWrite

ClockSteps ==
  \/ \E f \in DOMAIN Fields(header, cpu) : \E v \in Given(header, cpu, f) : SetClock(f, v)
  \/ \E sd \in BOOLEAN : SelectMscClock(sd)
  \/ \E unit \in GatedUnits(header, cpu) : StopClock(unit) \/ StartClock(unit)
  \/ StopAllClocks \/ StartAllClocks

LEMMA XbTool ==
  ASSUME ToolInv, XbNext
  PROVE  (tool = "usbboot" /\ UsbbootNext) \/ (tool = "xbboot" /\ ~UsbbootNext)
<1>1. CASE UsbbootNext
  BY <1>1 DEF UsbbootNext
<1>2. CASE Upload \/ \E req \in Requests : Single(req)
  BY <1>2 DEF Upload, Single, UsbbootNext
<1>3. CASE open_xburst_device \/ Succeeds \/ Fails
  BY <1>3 DEF open_xburst_device, Succeeds, Fails, UsbbootNext, ToolInv
<1>4. CASE \/ xb_gpio_init_4740 \/ xb_gpio_init_4760 \/ xb_cpm_start_all_4760
           \/ xb_serial_init_4740 \/ xb_serial_init_4760 \/ xb_pll_init_4740 \/ xb_pll_init_4760
           \/ xb_sdram_precharge \/ xb_sdram_refresh \/ xb_sdram_mode
           \/ xb_ddr_reset \/ xb_ddr_mem_init \/ xb_ddr_map \/ \E c \in CPUs : xb_nand_init(c)
  BY <1>4 DEF xb_gpio_init_4740, xb_gpio_init_4760, xb_cpm_start_all_4760,
              xb_serial_init_4740, xb_serial_init_4760, xb_pll_init_4740, xb_pll_init_4760,
              xb_sdram_precharge, xb_sdram_refresh, xb_sdram_mode,
              xb_ddr_reset, xb_ddr_mem_init, xb_ddr_map, xb_nand_init, Xb, UsbbootNext
<1>5. CASE XbReset
  BY <1>5 DEF XbReset, UsbbootNext
<1> QED
  BY <1>1, <1>2, <1>3, <1>4, <1>5 DEF XbNext

LEMMA PinTool ==
  ASSUME ToolInv, PinSteps
  PROVE  /\ tool = "pins" /\ UNCHANGED <<cpu, hostVars, calls, args, reg, chip, last, xbVars, header, cpmState>>
<1> USE DEF PinStep
<1>1. CASE \E u \in DOMAIN Units(header, cpu) : AsUnit(u)
  BY <1>1 DEF AsUnit, Use
<1>2. CASE RegisterWrite
  BY <1>2 DEF RegisterWrite, ToolInv
<1>3. ASSUME NEW n \in LinePins,
             \/ \E k \in 0..3 : AsFunc(n, k)
             \/ AsOutput(n) \/ AsInput(n) \/ LineChanges(n)
             \/ \E mode \in Modes : AsIrq(mode, n)
      PROVE  tool = "pins" /\ PinStep
  BY <1>3 DEF AsFunc, AsOutput, AsInput, LineChanges, AsIrq, Use
<1>4. ASSUME NEW w, IrqCall(w) PROVE tool = "pins" /\ PinStep
  BY <1>4 DEF IrqCall, Use
<1> QED
  BY <1>1, <1>2, <1>3, <1>4 DEF PinSteps

LEMMA ClockTool ==
  ASSUME ClockSteps
  PROVE  tool = "clocks" /\ UNCHANGED <<vars, xbVars, header, pinState>>
<1>1. ASSUME NEW f, NEW v, SetClock(f, v) PROVE tool = "clocks" /\ ClockStep
  BY <1>1 DEF SetClock, Use
<1>2. ASSUME NEW sd, SelectMscClock(sd) PROVE tool = "clocks" /\ ClockStep
  BY <1>2 DEF SelectMscClock, Use
<1>3. ASSUME NEW unit, StopClock(unit) \/ StartClock(unit) PROVE tool = "clocks" /\ ClockStep
  BY <1>3 DEF StopClock, StartClock, Use
<1>4. ASSUME StopAllClocks \/ StartAllClocks PROVE tool = "clocks" /\ ClockStep
  BY <1>4 DEF StopAllClocks, StartAllClocks, Use
<1> QED
  BY <1>1, <1>2, <1>3, <1>4 DEF ClockSteps, ClockStep

LEMMA Steps ==
  ASSUME SocNext
  PROVE  (XbNext /\ UNCHANGED socVars) \/ PinSteps \/ ClockSteps
  BY DEF SocNext, PinSteps, ClockSteps

LEMMA ToolInit ==
  ASSUME SocInit PROVE ToolInv /\ HostInv
  BY DEF SocInit, XbInitOf, Init, ToolInv, HostInv, Headers, CPUs, Tools, Boards

LEMMA ToolStep ==
  ASSUME ToolInv, HostInv, [SocNext]_<<allVars, socVars>>
  PROVE  /\ ToolInv' /\ HostInv' /\ UNCHANGED <<tool, cpu, header>>
         /\ tool \in Boards => BoardStep /\ UNCHANGED socVars
         /\ tool = "pins" => PinSteps \/ UNCHANGED <<allVars, socVars>>
         /\ tool = "clocks" => ClockSteps \/ UNCHANGED <<allVars, socVars>>
<1>1. CASE UNCHANGED <<allVars, socVars>>
  <2>1. UNCHANGED <<vars, xbVars, hostVars, socVars>>
    BY <1>1 DEF allVars, vars, hostVars
  <2>2. UNCHANGED <<boardVars, tool, cpu, header, phase, started, todo, held>>
    BY <2>1 DEF vars, xbVars, hostState, device, boardVars, socVars, pinState
  <2>3. ToolInv' /\ HostInv'
    BY <2>1, <2>2 DEF ToolInv, HostInv, boardVars, hostVars
  <2> QED
    BY <1>1, <2>1, <2>2, <2>3 DEF BoardStep
<1>2. CASE UsbbootNext /\ UNCHANGED socVars /\ tool = "usbboot"
  <2>1. HostInv' /\ UNCHANGED <<cpu, tool>> /\ BoardStep
    BY <1>2, HostStep, UsbbootBoard
  <2>2. UNCHANGED <<header, phase, started, todo, held>>
    BY <1>2 DEF UsbbootNext, xbVars, hostState, device, socVars, pinState
  <2> QED
    BY <1>2, <2>1, <2>2 DEF ToolInv, Boards
<1>3. CASE XbNext /\ ~UsbbootNext /\ UNCHANGED socVars /\ tool = "xbboot"
  <2>1. UNCHANGED <<cpu, hostVars, tool>> /\ BoardStep
    BY <1>3, XbbootBoard
  <2>2. UNCHANGED <<header, todo, held>>
    BY <1>3 DEF socVars, pinState
  <2> QED
    BY <1>3, <2>1, <2>2 DEF ToolInv, HostInv, Boards, hostVars
<1>4. CASE PinSteps
  <2>1. tool = "pins" /\ UNCHANGED <<cpu, hostVars, calls, last, tool, phase, started, header>>
    BY <1>4, PinTool DEF xbVars, hostState, device
  <2> QED
    BY <1>4, <2>1 DEF ToolInv, HostInv, Boards, hostVars
<1>5. CASE ClockSteps
  <2>1. tool = "clocks" /\ UNCHANGED <<cpu, hostVars, calls, last, tool, phase, started, header, todo, held>>
    BY <1>5, ClockTool DEF xbVars, hostState, device, vars, hostVars, pinState
  <2> QED
    BY <1>5, <2>1 DEF ToolInv, HostInv, Boards, hostVars
<1> QED
  BY <1>1, <1>2, <1>3, <1>4, <1>5, Steps, XbTool

(* Pins ********************************************************************)

\* The pins that share no bit, from their ports' numbers.
LEMMA PinsApart ==
  /\ Sdram32Pins \cap (Uart0Pins \cup Uart1Pins \cup NandReadyPin \cup Lcd18Pins \cup MscPins) = {}
  /\ NandPins \cap (Uart0Pins \cup Uart1Pins \cup NandReadyPin) = {}
  /\ NandReadyPin \cap (Uart0Pins \cup Uart1Pins \cup Lcd18Pins \cup MscPins \cup KeyOutputs) = {}
  /\ Uart0Pins \cap (Uart1Pins \cup Lcd18Pins \cup MscPins \cup KeyInputs \cup KeyOutputs) = {}
  /\ (Sdram32Pins \cup NandPins \cup MscPins) \cap (KeyInputs \cup KeyOutputs \cup Port(2, {31})) = {}
  /\ MscPins \cap (NandReadyPin \cup Uart0Pins) = {}
<1> USE DEF Port
<1>1. /\ \A n \in Sdram32Pins : n \in 0..63 \/ n \in 88..90
      /\ \A n \in NandPins : n \in {47, 48, 54, 57, 92, 93}
      /\ NandReadyPin = {94}
  BY DEF Sdram32Pins, NandPins, NandReadyPin
<1>2. /\ Uart0Pins = {121, 122} /\ Uart1Pins = {126, 127}
      /\ \A n \in Lcd18Pins : n \in 64..85
      /\ \A n \in MscPins : n \in 104..109
  BY DEF Uart0Pins, Uart1Pins, Lcd18Pins, MscPins
<1>3. /\ \A n \in KeyInputs : n \in 114..120
      /\ \A n \in KeyOutputs : n \in 74..85
      /\ Port(2, {31}) = {95}
  BY DEF KeyInputs, KeyOutputs
<1> QED
  BY <1>1, <1>2, <1>3

LEMMA PinsApart4760 ==
  /\ NandPins4760 \cap (Uart0Pins4760 \cup Uart1Pins4760 \cup Uart2Pins4760 \cup Uart3Pins4760 \cup NandReadyPin4760) = {}
  /\ Nand16Pins4760 \cap (Uart0Pins4760 \cup Uart1Pins4760 \cup Uart2Pins4760 \cup Uart3Pins4760 \cup NandReadyPin4760) = {}
  /\ (Uart0Pins4760 \cup Uart1Pins4760) \cap (Uart3Pins4760 \cup NandReadyPin4760) = {}
<1> USE DEF Port
<1>1. /\ \A n \in NandPins4760 : n \in 0..7 \/ n \in {18, 19, 21, 32, 33}
      /\ \A n \in Nand16Pins4760 : n \in 0..15 \/ n \in {18, 19, 21, 34, 35}
      /\ NandReadyPin4760 = {20}
  BY DEF NandPins4760, Nand16Pins4760, NandReadyPin4760
<1>2. /\ Uart0Pins4760 = {160, 162} /\ Uart1Pins4760 = {122, 124}
      /\ Uart2Pins4760 = {92, 94} /\ Uart3Pins4760 = {131, 133}
  BY DEF Uart0Pins4760, Uart1Pins4760, Uart2Pins4760, Uart3Pins4760
<1> QED
  BY <1>1, <1>2

\* The registers of the ports.
Six(g) == g = [FUN |-> g.FUN, SEL |-> g.SEL, TRG |-> g.TRG, DIR |-> g.DIR, IE |-> g.IE, FLG |-> g.FLG]

\* What gpio_init is for.
SetUp4740(g) ==
  /\ Sdram32Pins \cup NandPins \subseteq g.FUN \ g.SEL
  /\ Uart0Pins \subseteq g.FUN \cap g.SEL
  /\ NandReadyPin \cap (g.FUN \cup g.DIR) = {}
SetUp4760(g, pins) ==
  /\ pins \subseteq g.FUN \ (g.SEL \cup g.TRG)
  /\ NandReadyPin4760 \cap (g.FUN \cup g.DIR) = {}
SetUp(g) ==
  IF tool = "usbboot"
  THEN IF cpu = "jz4740" THEN SetUp4740(g)
       ELSE SetUp4760(g, NandPins4760 \cup Uart0Pins4760 \cup Uart1Pins4760)
  ELSE IF cpu = "jz4740" THEN SetUp4740(g) /\ MscPins \subseteq g.FUN \ g.SEL
  ELSE SetUp4760(g, Nand16Pins4760 \cup Uart1Pins4760)

LEMMA Pins4740 ==
  ASSUME NEW g, Six(g), NEW h, h = gpio_init_4740(g)
  PROVE  Six(h) /\ h.FLG = g.FLG /\ SetUp4740(h)
<1>1. PICK a : a = Func0(g, NandPins)
  OBVIOUS
<1>2. PICK b : b = gpio_as_input(a, NandReadyPin)
  OBVIOUS
<1>3. PICK c : c = Func0(b, Sdram32Pins)
  OBVIOUS
<1>4. PICK d : d = Func1(c, Uart0Pins)
  OBVIOUS
<1>5. h = [Func0(d, Uart1Pins) EXCEPT !.TRG = @ \cup Uart1Pins]
  BY <1>1, <1>2, <1>3, <1>4 DEF gpio_init_4740, gpio_as_uart1, gpio_as_uart0, gpio_as_sdram_32bit, gpio_as_nand
<1>6. /\ Six(a) /\ a.FLG = g.FLG /\ a.FUN = g.FUN \cup NandPins /\ a.SEL = g.SEL \ NandPins
  BY <1>1 DEF Six, Func0
<1>7. /\ Six(b) /\ b.FLG = g.FLG /\ b.FUN = a.FUN \ NandReadyPin /\ b.SEL = a.SEL \ NandReadyPin
      /\ b.DIR = a.DIR \ NandReadyPin
  BY <1>2, <1>6 DEF Six, gpio_as_input
<1>8. /\ Six(c) /\ c.FLG = g.FLG /\ c.FUN = b.FUN \cup Sdram32Pins /\ c.SEL = b.SEL \ Sdram32Pins
      /\ c.DIR = b.DIR
  BY <1>3, <1>7 DEF Six, Func0
<1>9. /\ Six(d) /\ d.FLG = g.FLG /\ d.FUN = c.FUN \cup Uart0Pins /\ d.SEL = c.SEL \cup Uart0Pins
      /\ d.DIR = c.DIR
  BY <1>4, <1>8 DEF Six, Func1
<1>10. /\ Six(h) /\ h.FLG = g.FLG /\ h.FUN = d.FUN \cup Uart1Pins /\ h.SEL = d.SEL \ Uart1Pins
       /\ h.DIR = d.DIR
  BY <1>5, <1>9 DEF Six, Func0
<1>11. SetUp4740(h)
  BY <1>6, <1>7, <1>8, <1>9, <1>10, PinsApart DEF SetUp4740
<1> QED
  BY <1>10, <1>11

LEMMA XbPins4740 ==
  ASSUME NEW g, Six(g), NEW h, h = xb_gpio_pins(g)
  PROVE  Six(h) /\ h.FLG = g.FLG /\ SetUp4740(h) /\ MscPins \subseteq h.FUN \ h.SEL
<1>1. PICK a : a = Func0(g, NandPins)
  OBVIOUS
<1>2. PICK b : b = gpio_as_input(a, NandReadyPin)
  OBVIOUS
<1>3. PICK c : c = Func0(b, Sdram32Pins)
  OBVIOUS
<1>4. PICK d : d = [c EXCEPT !.SEL = @ \cup Port(2, {31})]
  OBVIOUS
<1>5. PICK e : e = Func1(d, Uart0Pins)
  OBVIOUS
<1>6. PICK k : k = Func0(e, Lcd18Pins)
  OBVIOUS
<1>7. PICK l : l = Func0(k, MscPins)
  OBVIOUS
<1>8. PICK m : m = gpio_as_input(l, KeyInputs)
  OBVIOUS
<1>9. h = gpio_as_output(m, KeyOutputs)
  BY <1>1, <1>2, <1>3, <1>4, <1>5, <1>6, <1>7, <1>8 DEF xb_gpio_pins, gpio_as_msc, gpio_as_lcd_18bit,
     gpio_as_uart0, gpio_as_sdram_32bit, gpio_as_nand
<1>10. Six(a) /\ a.FLG = g.FLG /\ a.FUN = g.FUN \cup NandPins /\ a.SEL = g.SEL \ NandPins
  BY <1>1 DEF Six, Func0
<1>11. /\ Six(b) /\ b.FLG = g.FLG /\ b.FUN = a.FUN \ NandReadyPin /\ b.SEL = a.SEL \ NandReadyPin
       /\ b.DIR = a.DIR \ NandReadyPin
  BY <1>2, <1>10 DEF Six, gpio_as_input
<1>12. /\ Six(c) /\ c.FLG = g.FLG /\ c.FUN = b.FUN \cup Sdram32Pins /\ c.SEL = b.SEL \ Sdram32Pins
       /\ c.DIR = b.DIR
  BY <1>3, <1>11 DEF Six, Func0
<1>13. /\ Six(d) /\ d.FLG = g.FLG /\ d.FUN = c.FUN /\ d.SEL = c.SEL \cup Port(2, {31}) /\ d.DIR = c.DIR
  BY <1>4, <1>12 DEF Six
<1>14. /\ Six(e) /\ e.FLG = g.FLG /\ e.FUN = d.FUN \cup Uart0Pins /\ e.SEL = d.SEL \cup Uart0Pins
       /\ e.DIR = d.DIR
  BY <1>5, <1>13 DEF Six, Func1
<1>15. /\ Six(k) /\ k.FLG = g.FLG /\ k.FUN = e.FUN \cup Lcd18Pins /\ k.SEL = e.SEL \ Lcd18Pins
       /\ k.DIR = e.DIR
  BY <1>6, <1>14 DEF Six, Func0
<1>16. /\ Six(l) /\ l.FLG = g.FLG /\ l.FUN = k.FUN \cup MscPins /\ l.SEL = k.SEL \ MscPins
       /\ l.DIR = k.DIR
  BY <1>7, <1>15 DEF Six, Func0
<1>17. /\ Six(m) /\ m.FLG = g.FLG /\ m.FUN = l.FUN \ KeyInputs /\ m.SEL = l.SEL \ KeyInputs
       /\ m.DIR = l.DIR \ KeyInputs
  BY <1>8, <1>16 DEF Six, gpio_as_input
<1>18. /\ Six(h) /\ h.FLG = g.FLG /\ h.FUN = m.FUN \ KeyOutputs /\ h.SEL = m.SEL \ KeyOutputs
       /\ h.DIR = m.DIR \cup KeyOutputs
  BY <1>9, <1>17 DEF Six, gpio_as_output
<1>19. Sdram32Pins \cup NandPins \cup MscPins \subseteq h.FUN \ h.SEL
  <2>1. Sdram32Pins \cup NandPins \subseteq e.FUN \ e.SEL
    BY <1>10, <1>11, <1>12, <1>13, <1>14, PinsApart
  <2>2. Sdram32Pins \cup NandPins \cup MscPins \subseteq l.FUN \ l.SEL
    BY <2>1, <1>15, <1>16
  <2> QED
    BY <2>2, <1>17, <1>18, PinsApart
<1>20. Uart0Pins \subseteq h.FUN \cap h.SEL
  BY <1>14, <1>15, <1>16, <1>17, <1>18, PinsApart
<1>21. NandReadyPin \cap (h.FUN \cup h.DIR) = {}
  <2>1. NandReadyPin \cap (e.FUN \cup e.DIR) = {}
    BY <1>11, <1>12, <1>13, <1>14, PinsApart
  <2> QED
    BY <2>1, <1>15, <1>16, <1>17, <1>18, PinsApart
<1> QED
  BY <1>18, <1>19, <1>20, <1>21 DEF SetUp4740

\* A UART of the JZ4760 clears the second selection bit of its pins.
LEMMA Uart4760 ==
  ASSUME NEW g, Six(g), g.TRG = {}, NEW pins, NEW h, h = ClearTRG(Func0(g, pins), pins)
  PROVE  /\ Six(h) /\ h.FLG = g.FLG /\ h.TRG = {} /\ h.DIR = g.DIR
         /\ h.FUN = g.FUN \cup pins /\ h.SEL = g.SEL \ pins
  BY DEF Six, ClearTRG, Func0
LEMMA Uart4760Func1 ==
  ASSUME NEW g, Six(g), g.TRG = {}, NEW pins, NEW h, h = ClearTRG(Func1(g, pins), pins)
  PROVE  /\ Six(h) /\ h.FLG = g.FLG /\ h.TRG = {} /\ h.DIR = g.DIR
         /\ h.FUN = g.FUN \cup pins /\ h.SEL = g.SEL \cup pins
  BY DEF Six, ClearTRG, Func1

LEMMA Pins4760 ==
  ASSUME NEW g, Six(g), g.TRG = {}, NEW pins \in {NandPins4760, Nand16Pins4760}, NEW h,
         h = gpio_as_input(Func0(gpio_as_uarts_4760(g), pins), NandReadyPin4760)
  PROVE  /\ Six(h) /\ h.FLG = g.FLG /\ h.TRG = {}
         /\ SetUp4760(h, pins \cup Uart0Pins4760 \cup Uart1Pins4760)
<1>1. PICK a : a = ClearTRG(Func0(g, Uart0Pins4760), Uart0Pins4760)
  OBVIOUS
<1>2. PICK b : b = ClearTRG(Func0(a, Uart1Pins4760), Uart1Pins4760)
  OBVIOUS
<1>3. PICK c : c = ClearTRG(Func0(b, Uart2Pins4760), Uart2Pins4760)
  OBVIOUS
<1>4. PICK d : d = ClearTRG(Func1(c, Uart3Pins4760), Uart3Pins4760)
  OBVIOUS
<1>5. PICK e : e = Func0(d, pins)
  OBVIOUS
<1>6. d = gpio_as_uarts_4760(g)
  BY <1>1, <1>2, <1>3, <1>4 DEF gpio_as_uarts_4760, gpio_as_uart0_4760, gpio_as_uart1_4760,
     gpio_as_uart2_4760, gpio_as_uart3_4760
<1>7. h = gpio_as_input(e, NandReadyPin4760)
  BY <1>5, <1>6
<1>8. /\ Six(a) /\ a.FLG = g.FLG /\ a.TRG = {} /\ a.DIR = g.DIR
      /\ a.FUN = g.FUN \cup Uart0Pins4760 /\ a.SEL = g.SEL \ Uart0Pins4760
  BY <1>1, Uart4760
<1>9. /\ Six(b) /\ b.FLG = g.FLG /\ b.TRG = {} /\ b.DIR = a.DIR
      /\ b.FUN = a.FUN \cup Uart1Pins4760 /\ b.SEL = a.SEL \ Uart1Pins4760
  BY <1>2, <1>8, Uart4760
<1>10. /\ Six(c) /\ c.FLG = g.FLG /\ c.TRG = {} /\ c.DIR = b.DIR
       /\ c.FUN = b.FUN \cup Uart2Pins4760 /\ c.SEL = b.SEL \ Uart2Pins4760
  BY <1>3, <1>9, Uart4760
<1>11. /\ Six(d) /\ d.FLG = g.FLG /\ d.TRG = {} /\ d.DIR = c.DIR
       /\ d.FUN = c.FUN \cup Uart3Pins4760 /\ d.SEL = c.SEL \cup Uart3Pins4760
  BY <1>4, <1>10, Uart4760Func1
<1>12. /\ Six(e) /\ e.FLG = g.FLG /\ e.TRG = {} /\ e.DIR = d.DIR
       /\ e.FUN = d.FUN \cup pins /\ e.SEL = d.SEL \ pins
  BY <1>5, <1>11 DEF Six, Func0
<1>13. /\ Six(h) /\ h.FLG = g.FLG /\ h.TRG = {}
       /\ h.FUN = e.FUN \ NandReadyPin4760 /\ h.SEL = e.SEL \ NandReadyPin4760
       /\ h.DIR = e.DIR \ NandReadyPin4760
  BY <1>7, <1>12 DEF Six, gpio_as_input
<1>14. Uart0Pins4760 \cup Uart1Pins4760 \subseteq b.FUN \cup c.FUN
  BY <1>8, <1>9
<1>15. (Uart0Pins4760 \cup Uart1Pins4760) \cap c.SEL = {}
  BY <1>8, <1>9, <1>10
<1>16. (pins \cup Uart0Pins4760 \cup Uart1Pins4760) \cap e.SEL = {}
  BY <1>15, <1>11, <1>12, PinsApart4760
<1>17. pins \cup Uart0Pins4760 \cup Uart1Pins4760 \subseteq e.FUN
  BY <1>14, <1>10, <1>11, <1>12
<1> QED
  BY <1>13, <1>16, <1>17, PinsApart4760 DEF SetUp4760

\* The pins are still to be set up.
GpioPending == calls # <<>> /\ Head(calls) = "gpio"
BoardPins ==
  tool \in Boards =>
    /\ Six(gpio) /\ gpio.FLG = {} /\ (cpu = "jz4760" => gpio.TRG = {})
    /\ last.what \in {"boot", "memtest"} /\ ~GpioPending => SetUp(gpio)

LEMMA CallsName ==
  ASSUME serial_init \/ InitsMemory
  PROVE  \E name \in {"serial", "pll", "sdram", "refresh", "mode", "ddr", "ddr_mem", "ddr_map"} : Called(name)
<1>1. CASE serial_init
  BY <1>1 DEF serial_init
<1>2. CASE pll_init
  BY <1>2 DEF pll_init
<1>3. CASE sdram_precharge \/ sdram_refresh \/ sdram_mode
  BY <1>3 DEF sdram_precharge, sdram_refresh, sdram_mode
<1>4. CASE ddr_reset
  BY <1>4 DEF ddr_reset
<1>5. CASE ddr_mem_init
  BY <1>5 DEF ddr_mem_init
<1>6. CASE ddr_map
  BY <1>6 DEF ddr_map
<1> QED
  BY <1>1, <1>2, <1>3, <1>4, <1>5, <1>6 DEF InitsMemory

LEMMA BoardPinsStep ==
  ASSUME ToolInv, BoardPins, BoardStep, UNCHANGED <<tool, cpu>>
  PROVE  BoardPins'
<1> SUFFICES ASSUME tool \in Boards PROVE BoardPins'
  BY DEF BoardPins
<1>a. Six(gpio) /\ gpio.FLG = {} /\ (cpu = "jz4760" => gpio.TRG = {})
  BY DEF BoardPins
<1>1. CASE UNCHANGED boardVars
  BY <1>1 DEF boardVars, BoardPins, GpioPending, SetUp
<1>2. ASSUME NEW what, NEW c, Begins(what, c) PROVE BoardPins'
  <2>1. Plan(tool, cpu, what) # <<>> /\ Head(Plan(tool, cpu, what)) = "gpio"
    BY DEF Plan, c_main, do_debug, xb_c_main
  <2>2. GpioPending' /\ gpio' = gpio
    BY <1>2, <2>1 DEF Begins, GpioPending
  <2> QED
    BY <2>2, <1>a DEF BoardPins
<1>3. ASSUME NEW pin, Tests(pin) PROVE BoardPins'
  <2>1. /\ Six(gpio') /\ gpio'.FLG = gpio.FLG /\ gpio'.TRG = gpio.TRG
    BY <1>3, <1>a DEF Tests, gpio_as_output, Six
  <2>2. last'.what = "gpio"
    BY <1>3 DEF Tests
  <2> QED
    BY <2>1, <2>2, <1>a DEF BoardPins
<1>4. CASE Resets
  <2>1. Six(gpio') /\ gpio'.FLG = {} /\ gpio'.TRG = {}
    BY <1>4 DEF Resets, GpioReset, Six
  <2>2. last'.what = "none"
    BY <1>4 DEF Resets, NoRun
  <2> QED
    BY <2>1, <2>2 DEF BoardPins
<1>5. CASE InitsPins
  <2>1. gpio' = GpioInit
    BY <1>5 DEF InitsPins
  <2>2. CASE tool = "usbboot" /\ cpu = "jz4740"
    <3>1. Six(gpio') /\ gpio'.FLG = gpio.FLG /\ SetUp4740(gpio')
      BY <2>1, <2>2, <1>a, Pins4740 DEF GpioInit
    <3> QED
      BY <3>1, <2>2, <1>a DEF BoardPins, SetUp
  <2>3. CASE tool = "usbboot" /\ cpu = "jz4760"
    <3>1. gpio' = gpio_as_input(Func0(gpio_as_uarts_4760(gpio), NandPins4760), NandReadyPin4760)
      BY <2>1, <2>3 DEF GpioInit, gpio_init_4760, gpio_as_nand_8bit_4760
    <3>2. /\ Six(gpio') /\ gpio'.FLG = gpio.FLG /\ gpio'.TRG = {}
          /\ SetUp4760(gpio', NandPins4760 \cup Uart0Pins4760 \cup Uart1Pins4760)
      BY <3>1, <2>3, <1>a, Pins4760
    <3> QED
      BY <3>2, <2>3, <1>a DEF BoardPins, SetUp
  <2>4. CASE tool = "xbboot" /\ cpu = "jz4740"
    <3>1. Six(gpio') /\ gpio'.FLG = gpio.FLG /\ SetUp4740(gpio') /\ MscPins \subseteq gpio'.FUN \ gpio'.SEL
      BY <2>1, <2>4, <1>a, XbPins4740 DEF GpioInit
    <3> QED
      BY <3>1, <2>4, <1>a DEF BoardPins, SetUp
  <2>5. CASE tool = "xbboot" /\ cpu = "jz4760"
    <3>1. gpio' = gpio_as_input(Func0(gpio_as_uarts_4760(gpio), Nand16Pins4760), NandReadyPin4760)
      BY <2>1, <2>5 DEF GpioInit, gpio_as_nand_16bit_4760
    <3>2. /\ Six(gpio') /\ gpio'.FLG = gpio.FLG /\ gpio'.TRG = {}
          /\ SetUp4760(gpio', Nand16Pins4760 \cup Uart0Pins4760 \cup Uart1Pins4760)
      BY <3>1, <2>5, <1>a, Pins4760
    <3> QED
      BY <3>2, <2>5, <1>a DEF BoardPins, SetUp, SetUp4760
  <2> QED
    BY <2>2, <2>3, <2>4, <2>5 DEF ToolInv, CPUs, Boards
<1>6. CASE SetsRegisters \/ serial_init \/ InitsMemory
  <2>1. UNCHANGED <<last, gpio>>
    BY <1>6, CallsRest DEF SetsRegisters
  <2>2. ~GpioPending
    BY <1>6, CallsName DEF SetsRegisters, GpioPending, Called
  <2> QED
    BY <2>1, <2>2, <1>a DEF BoardPins, SetUp
<1> QED
  BY <1>1, <1>2, <1>3, <1>4, <1>5, <1>6 DEF BoardStep

\* xbboot's gpio_init leaves NAND, memory and console their pins, and usbboot's gives them
\* back whatever the gpio commands did, for every pin they were used on and every number of
\* runs and resets (gpio_init_4740 and gpio_init_4760 of both programs).
THEOREM XbPins == SocSpec => []XbPinsKept
<1> DEFINE Inv == ToolInv /\ HostInv /\ BoardPins
<1>1. SocInit => Inv
  <2> SUFFICES ASSUME SocInit PROVE BoardPins
    BY ToolInit
  <2>1. gpio = GpioReset /\ last = NoRun
    BY DEF SocInit, XbInitOf, Init
  <2> QED
    BY <2>1 DEF BoardPins, GpioReset, Six, NoRun
<1>2. Inv /\ [SocNext]_<<allVars, socVars>> => Inv'
  <2> SUFFICES ASSUME Inv, [SocNext]_<<allVars, socVars>> PROVE Inv'
    OBVIOUS
  <2>1. ToolInv' /\ HostInv' /\ UNCHANGED <<tool, cpu>> /\ (tool \in Boards => BoardStep)
    BY ToolStep
  <2>2. BoardPins'
    BY <2>1, BoardPinsStep DEF BoardPins
  <2> QED
    BY <2>1, <2>2
<1>3. Inv => XbPinsKept
  <2> SUFFICES ASSUME Inv PROVE XbPinsKept
    OBVIOUS
  <2>1. ASSUME calls = <<>>, last.what \in {"boot", "memtest"} PROVE tool \in Boards /\ SetUp(gpio)
    BY <2>1 DEF BoardPins, GpioPending, ToolInv, Tools, Boards, NoRun
  <2> QED
    BY <2>1 DEF XbPinsKept, PinsKept, Done, SetUp, SetUp4740, SetUp4760, Boards
<1> QED
  BY <1>1, <1>2, <1>3, PTL DEF SocSpec

(* Clocks ******************************************************************)

\* A field's value is made of its own bits.
LEMMA ValueOf ==
  ASSUME NEW word, NEW other, NEW low, NEW width,
         word \cap low..(low + width - 1) = other \cap low..(low + width - 1)
  PROVE  Value(word, low, width) = Value(other, low, width)
<1> DEFINE S == word \cap low..(low + width - 1)
           T == other \cap low..(low + width - 1)
           V(X) == SumSet({2^(b - low) : b \in X})
<1>1. Value(word, low, width) = V(S) /\ Value(other, low, width) = V(T)
  BY DEF Value
<1>2. S = T
  OBVIOUS
<1> HIDE DEF S, T, V
<1> QED
  BY <1>1, <1>2

LEMMA SetThenGet ==
  ASSUME NEW h \in Headers, NEW c \in CPUs, NEW r, r = [n \in DOMAIN CpmLayout(h, c) |-> r[n]],
         NEW f \in DOMAIN Fields(h, c), NEW v \in Given(h, c, f), NEW q, q = cpm_set(h, c, r, f, v)
  PROVE  /\ q = [n \in DOMAIN CpmLayout(h, c) |-> q[n]]
         /\ cpm_get(h, c, q, f) = v
         /\ \A g \in DOMAIN Fields(h, c) \ {f} : cpm_get(h, c, q, g) = cpm_get(h, c, r, g)
<1>1. PICK at : at = Fields(h, c)[f][1]
  OBVIOUS
<1>2. PICK low : low = FieldAt(h, c, f)[1]
  OBVIOUS
<1>3. PICK width : width = FieldAt(h, c, f)[2]
  OBVIOUS
<1>4. PICK bits : bits = low..(low + width - 1)
  OBVIOUS
<1>5. /\ at \in DOMAIN CpmLayout(h, c)
      /\ Shifted(v, low) \subseteq bits /\ Value(Shifted(v, low), low, width) = v
  BY <1>1, <1>2, <1>3, <1>4, ClockTable DEF Bits
<1>6. q = [r EXCEPT ![at] = (r[at] \ bits) \cup Shifted(v, low)]
  BY <1>1, <1>2, <1>3, <1>4 DEF cpm_set
<1>7. /\ q = [n \in DOMAIN CpmLayout(h, c) |-> q[n]]
      /\ q[at] = (r[at] \ bits) \cup Shifted(v, low)
      /\ \A n \in DOMAIN CpmLayout(h, c) : n # at => q[n] = r[n]
  BY <1>5, <1>6
<1>8. cpm_get(h, c, q, f) = v
  <2>1. q[at] \cap bits = Shifted(v, low) \cap bits
    BY <1>7, <1>5
  <2>2. Value(q[at], low, width) = v
    BY <2>1, <1>4, <1>5, ValueOf
  <2> QED
    BY <2>2, <1>1, <1>2, <1>3 DEF cpm_get
<1>9. ASSUME NEW g \in DOMAIN Fields(h, c) \ {f} PROVE cpm_get(h, c, q, g) = cpm_get(h, c, r, g)
  <2>1. PICK there : there = Fields(h, c)[g][1]
    OBVIOUS
  <2>2. there \in DOMAIN CpmLayout(h, c) /\ (there = at => bits \cap Bits(h, c, g) = {})
    BY <2>1, <1>1, <1>2, <1>3, <1>4, ClockTable DEF Bits
  <2>3. q[there] \cap Bits(h, c, g) = r[there] \cap Bits(h, c, g)
    BY <2>2, <1>5, <1>7
  <2>4. Value(q[there], FieldAt(h, c, g)[1], FieldAt(h, c, g)[2])
          = Value(r[there], FieldAt(h, c, g)[1], FieldAt(h, c, g)[2])
    BY <2>3, ValueOf DEF Bits
  <2> QED
    BY <2>1, <2>4 DEF cpm_get
<1> QED
  BY <1>7, <1>8, <1>9

ClockInv ==
  tool = "clocks" =>
    /\ cpm = [r \in DOMAIN CpmLayout(header, cpu) |-> cpm[r]]
    /\ DOMAIN asked \subseteq DOMAIN Fields(header, cpu)
    /\ \A f \in DOMAIN asked : cpm_get(header, cpu, cpm, f) = asked[f]
GateInv ==
  tool = "clocks" =>
    \A unit \in GatedUnits(header, cpu) \ {"i2c0", "i2c1"} :
      unit \in stopped <=> Gates(cpu)[unit] \in gates

LEMMA SelectMsc ==
  ASSUME ToolInv, ClockInv, tool = "clocks", NEW sd, SelectMscClock(sd), UNCHANGED <<tool, cpu, header>>
  PROVE  ClockInv'
<1> DEFINE clocks(extal) == pllout2_4740(cpm, extal) \div (IF sd THEN 24000 ELSE 16000) - 1
<1>a. PICK extal : cpm' = select_msc_clk_4740(cpm, extal, sd)
  BY DEF SelectMscClock
<1>b. PICK word : word = Shifted(clocks(extal), 0)
  OBVIOUS
<1>1. cpm' = [cpm EXCEPT !.MSCCDR = word]
  BY <1>a, <1>b, SMT DEF select_msc_clk_4740
<1> HIDE DEF clocks
<1>2. /\ cpu = "jz4740" /\ header \in Headers /\ cpu \in CPUs
      /\ asked' = [g \in DOMAIN asked \ {"mscdiv"} |-> asked[g]]
  BY DEF SelectMscClock, ToolInv
<1>3. /\ cpm' = [r \in DOMAIN CpmLayout(header, cpu) |-> cpm'[r]]
      /\ \A r \in DOMAIN CpmLayout(header, cpu) : r # "MSCCDR" => cpm'[r] = cpm[r]
  BY <1>1 DEF ClockInv
<1>4. ASSUME NEW f \in DOMAIN asked' PROVE cpm_get(header, cpu, cpm', f) = asked'[f]
  <2>1. f \in DOMAIN asked /\ f # "mscdiv" /\ asked'[f] = asked[f]
    BY <1>2
  <2>2. f \in DOMAIN Fields(header, cpu) /\ cpm_get(header, cpu, cpm, f) = asked[f]
    BY <2>1 DEF ClockInv
  <2>3. PICK at : at = Fields(header, cpu)[f][1]
    OBVIOUS
  <2>4. at \in DOMAIN CpmLayout(header, cpu) /\ at # "MSCCDR"
    BY <2>1, <2>2, <2>3, <1>2, ClockTable
  <2>5. cpm'[at] = cpm[at]
    BY <2>4, <1>3
  <2> QED
    BY <2>1, <2>2, <2>3, <2>5 DEF cpm_get
<1> QED
  BY <1>2, <1>3, <1>4 DEF ClockInv

LEMMA ClockStepInv ==
  ASSUME ToolInv, ClockInv, GateInv, tool = "clocks", ClockSteps
  PROVE  ClockInv' /\ GateInv'
<1>1. UNCHANGED <<tool, cpu, header>>
  BY ClockTool DEF xbVars, vars
<1>a. header \in Headers /\ cpu \in CPUs
  BY DEF ToolInv
<1>2. ASSUME NEW f \in DOMAIN Fields(header, cpu), NEW v \in Given(header, cpu, f), SetClock(f, v)
      PROVE  ClockInv' /\ GateInv'
  <2>1. /\ cpm' = cpm_set(header, cpu, cpm, f, v)
        /\ asked' = [g \in DOMAIN asked \cup {f} |-> IF g = f THEN v ELSE asked[g]]
        /\ UNCHANGED <<gates, stopped>>
    BY <1>2 DEF SetClock
  <2>2. /\ cpm' = [n \in DOMAIN CpmLayout(header, cpu) |-> cpm'[n]]
        /\ cpm_get(header, cpu, cpm', f) = v
        /\ \A g \in DOMAIN Fields(header, cpu) \ {f} :
             cpm_get(header, cpu, cpm', g) = cpm_get(header, cpu, cpm, g)
    BY <2>1, <1>a, SetThenGet DEF ClockInv
  <2>3. ASSUME NEW g \in DOMAIN asked' PROVE g \in DOMAIN Fields(header, cpu) /\ cpm_get(header, cpu, cpm', g) = asked'[g]
    BY <2>1, <2>2 DEF ClockInv
  <2>4. ClockInv'
    BY <1>1, <2>2, <2>3 DEF ClockInv
  <2> QED
    BY <1>1, <2>1, <2>4 DEF GateInv
<1>3. ASSUME NEW sd \in BOOLEAN, SelectMscClock(sd) PROVE ClockInv' /\ GateInv'
  BY <1>1, <1>3, SelectMsc DEF SelectMscClock, GateInv
<1>4. ASSUME UNCHANGED <<cpm, asked>> PROVE ClockInv'
  BY <1>1, <1>4 DEF ClockInv
<1>5. ASSUME NEW unit \in GatedUnits(header, cpu), StopClock(unit) \/ StartClock(unit)
      PROVE  ClockInv' /\ GateInv'
  <2>1. UNCHANGED <<cpm, asked>>
    BY <1>5 DEF StopClock, StartClock
  <2>2. \/ gates' = gates \cup {GateOf(header, cpu, unit)} /\ stopped' = stopped \cup {unit}
        \/ gates' = gates \ {GateOf(header, cpu, unit)} /\ stopped' = stopped \ {unit}
    BY <1>5 DEF StopClock, StartClock
  <2>3. ASSUME NEW other \in GatedUnits(header, cpu) \ {"i2c0", "i2c1"}
        PROVE  other \in stopped' <=> Gates(cpu)[other] \in gates'
    <3>1. other \in stopped <=> Gates(cpu)[other] \in gates
      BY DEF GateInv
    <3>2. GateOf(header, cpu, unit) = Gates(cpu)[other] <=> unit = other
      BY <1>a, GateTable
    <3> QED
      BY <3>1, <3>2, <2>2
  <2> QED
    BY <1>1, <1>4, <2>1, <2>3 DEF GateInv
<1>6. ASSUME StopAllClocks PROVE ClockInv' /\ GateInv'
  <2>1. /\ UNCHANGED <<cpm, asked>> /\ gates' = stop_all(cpu)
        /\ stopped' = GatedUnits(header, cpu) \ IF cpu = "jz4740" THEN {"uart1"} ELSE {}
    BY <1>6 DEF StopAllClocks
  <2>2. GateInv'
    BY <1>1, <1>a, <2>1, GateTable DEF GateInv
  <2> QED
    BY <1>4, <2>1, <2>2
<1>7. ASSUME StartAllClocks PROVE ClockInv' /\ GateInv'
  BY <1>1, <1>4, <1>7 DEF StartAllClocks, GateInv
<1> QED
  BY <1>2, <1>3, <1>5, <1>6, <1>7 DEF ClockSteps

\* A clock macro's field holds what the macro set, whatever other clock macros were called
\* since, and a unit's clock is stopped exactly when a macro stopped it last, for every
\* order and number of calls (the __cpm_ macros of jz4740.h and jz4760.h).
THEOREM ClockCalls == SocSpec => []ClockCallsIndependent
<1> DEFINE Inv == ToolInv /\ HostInv /\ ClockInv /\ GateInv
<1>1. SocInit => Inv
  <2> SUFFICES ASSUME SocInit PROVE ClockInv /\ GateInv
    BY ToolInit
  <2>1. asked = <<>> /\ gates = {} /\ stopped = {} /\ (tool = "clocks" => cpm = ClockStart)
    BY DEF SocInit
  <2>2. tool = "clocks" => cpm = [r \in DOMAIN CpmLayout(header, cpu) |-> cpm[r]]
    BY <2>1 DEF ClockStart
  <2> QED
    BY <2>1, <2>2 DEF ClockInv, GateInv
<1>2. Inv /\ [SocNext]_<<allVars, socVars>> => Inv'
  <2> SUFFICES ASSUME Inv, [SocNext]_<<allVars, socVars>> PROVE Inv'
    OBVIOUS
  <2>1. /\ ToolInv' /\ HostInv' /\ UNCHANGED <<tool, cpu, header>>
        /\ tool = "clocks" => ClockSteps \/ UNCHANGED <<allVars, socVars>>
    BY ToolStep
  <2>2. CASE tool # "clocks"
    BY <2>1, <2>2 DEF ClockInv, GateInv
  <2>3. CASE tool = "clocks" /\ UNCHANGED <<allVars, socVars>>
    BY <2>1, <2>3 DEF ClockInv, GateInv, socVars, cpmState
  <2> QED
    BY <2>1, <2>2, <2>3, ClockStepInv
<1>3. Inv => ClockCallsIndependent
  BY DEF ClockInv, GateInv, ClockCallsIndependent
<1> QED
  BY <1>1, <1>2, <1>3, PTL DEF SocSpec

(* Units and interrupts ****************************************************)

Config == {"FUN", "SEL", "TRG", "DIR"}

\* The write of an interrupt macro changes its own pin only; the flag is set again by an
\* active level, and for no reason only where the configuration changes.
LEMMA WriteDoes ==
  ASSUME Six(gpio), RegisterWrite, NEW w, w = Head(todo), w.field \in Config \cup {"IE", "FLG"}
  PROVE  /\ Six(gpio')
         /\ \A n : n # w.pin =>
              /\ n \in gpio'.FUN <=> n \in gpio.FUN
              /\ n \in gpio'.SEL <=> n \in gpio.SEL
              /\ n \in gpio'.TRG <=> n \in gpio.TRG
              /\ n \in gpio'.DIR <=> n \in gpio.DIR
              /\ n \in gpio'.FLG <=> n \in gpio.FLG
              /\ n \in seen' <=> n \in seen
         /\ w.field \notin Config => UNCHANGED <<gpio.FUN, gpio.SEL, gpio.TRG, gpio.DIR>>
         /\ w.field # "IE" => gpio'.IE = gpio.IE
         /\ w.field = "IE" =>
              /\ w.on = FALSE => w.pin \notin gpio'.IE
              /\ w.pin \in gpio'.FLG => w.pin \in gpio.FLG \/ w.pin \in seen'
              /\ seen \subseteq seen'
         /\ w.field = "FLG" /\ w.on = FALSE => (w.pin \in gpio'.FLG => w.pin \in seen')
<1>1. PICK x : x = IF w.on THEN gpio[w.field] \cup {w.pin} ELSE gpio[w.field] \ {w.pin}
  OBVIOUS
<1>2. PICK g : g = [gpio EXCEPT ![w.field] = x]
  OBVIOUS
<1>3. PICK p : p = w.pin
  OBVIOUS
<1> DEFINE active == Interrupting(g, p) /\ LevelActive(g, p)
           changes == w.field \in Config
<1>4. /\ \/ gpio' = g /\ ~active
         \/ gpio' = [g EXCEPT !.FLG = @ \cup {p}] /\ (active \/ changes)
      /\ seen' = IF active THEN seen \cup {p}
                 ELSE IF changes \/ w.field = "FLG" THEN seen \ {p} ELSE seen
  BY <1>1, <1>2, <1>3 DEF RegisterWrite, Config
<1> HIDE DEF active, changes
<1>5. \A n : n # p => (n \in x <=> n \in gpio[w.field])
  BY <1>1, <1>3
<1>6. w.on = FALSE => p \notin x
  BY <1>1, <1>3
<1>7. Six(g) /\ g[w.field] = x
  BY <1>2 DEF Six, Config
<1>8. /\ w.field # "FUN" => g.FUN = gpio.FUN
      /\ w.field # "SEL" => g.SEL = gpio.SEL
      /\ w.field # "TRG" => g.TRG = gpio.TRG
      /\ w.field # "DIR" => g.DIR = gpio.DIR
      /\ w.field # "FLG" => g.FLG = gpio.FLG
      /\ w.field # "IE" => g.IE = gpio.IE
  BY <1>2 DEF Six
<1>9. /\ Six(gpio') /\ gpio'.FUN = g.FUN /\ gpio'.SEL = g.SEL /\ gpio'.TRG = g.TRG
      /\ gpio'.DIR = g.DIR /\ gpio'.IE = g.IE
      /\ gpio'.FLG = g.FLG \/ (gpio'.FLG = g.FLG \cup {p} /\ (active \/ changes))
  BY <1>4, <1>7 DEF Six
<1>10. \A n : n # p =>
         /\ n \in gpio'.FUN <=> n \in gpio.FUN
         /\ n \in gpio'.SEL <=> n \in gpio.SEL
         /\ n \in gpio'.TRG <=> n \in gpio.TRG
         /\ n \in gpio'.DIR <=> n \in gpio.DIR
         /\ n \in gpio'.FLG <=> n \in gpio.FLG
         /\ n \in seen' <=> n \in seen
  <2> SUFFICES ASSUME NEW n, n # p
               PROVE  /\ n \in gpio'.FUN <=> n \in gpio.FUN
                      /\ n \in gpio'.SEL <=> n \in gpio.SEL
                      /\ n \in gpio'.TRG <=> n \in gpio.TRG
                      /\ n \in gpio'.DIR <=> n \in gpio.DIR
                      /\ n \in gpio'.FLG <=> n \in gpio.FLG
                      /\ n \in seen' <=> n \in seen
    OBVIOUS
  <2>1. n \in seen' <=> n \in seen
    BY <1>4
  <2>2. /\ n \in g.FUN <=> n \in gpio.FUN
        /\ n \in g.SEL <=> n \in gpio.SEL
        /\ n \in g.TRG <=> n \in gpio.TRG
        /\ n \in g.DIR <=> n \in gpio.DIR
        /\ n \in g.FLG <=> n \in gpio.FLG
    BY <1>5, <1>7, <1>8
  <2> QED
    BY <2>1, <2>2, <1>9
<1>11. w.field \notin Config => UNCHANGED <<gpio.FUN, gpio.SEL, gpio.TRG, gpio.DIR>>
  BY <1>8, <1>9 DEF Config
<1>12. w.field # "IE" => gpio'.IE = gpio.IE
  BY <1>8, <1>9
<1>13. CASE w.field = "IE"
  <2>1. ~changes
    BY <1>13 DEF changes, Config
  <2>2. w.on = FALSE => p \notin gpio'.IE
    BY <1>13, <1>6, <1>7, <1>9
  <2>3. seen \subseteq seen' /\ (p \in gpio'.FLG => p \in gpio.FLG \/ p \in seen')
    BY <1>13, <2>1, <1>4, <1>8, <1>9
  <2> QED
    BY <1>13, <2>2, <2>3, <1>3, <1>9, <1>10, <1>11
<1>14. CASE w.field = "FLG"
  <2>1. ~changes
    BY <1>14 DEF changes, Config
  <2>2. w.on = FALSE => (p \in gpio'.FLG => p \in seen')
    BY <1>14, <2>1, <1>4, <1>6, <1>7, <1>9
  <2> QED
    BY <1>14, <2>2, <1>3, <1>9, <1>10, <1>11, <1>12
<1> QED
  BY <1>3, <1>9, <1>10, <1>11, <1>12, <1>13, <1>14

\* FunctionOf, of any ports.
FunctionIn(g, c, n) ==
  IF n \in g.FUN
  THEN (IF n \in g.SEL THEN 1 ELSE 0)
         + (IF n \in g.TRG /\ (c = "jz4760" \/ n \in Uart1Pins) THEN 2 ELSE 0)
  ELSE IF n \in g.SEL \cup g.DIR THEN -2 ELSE -1
\* What the pins' functions are made of is the same.
Alike(g, h, n) ==
  /\ n \in g.FUN <=> n \in h.FUN
  /\ n \in g.SEL <=> n \in h.SEL
  /\ n \in g.TRG <=> n \in h.TRG
  /\ n \in g.DIR <=> n \in h.DIR
Keeps(g, h, c, u) ==
  \A s \in Signals(c, u) : \A n \in Pinout(h, c)[s][2] : FunctionIn(g, c, n) = Pinout(h, c)[s][1]

LEMMA AlikeFunction ==
  ASSUME NEW g, NEW h, NEW c, NEW n, Alike(g, h, n)
  PROVE  FunctionIn(g, c, n) = FunctionIn(h, c, n)
  BY DEF Alike, FunctionIn

LEMMA KeepsAlike ==
  ASSUME NEW g, NEW k, NEW h, NEW c, NEW u, Keeps(g, h, c, u), \A n \in DocumentedPins(h, c, u) : Alike(g, k, n)
  PROVE  Keeps(k, h, c, u)
  BY AlikeFunction DEF Keeps, DocumentedPins

\* A unit macro, on the registers.
Wrote(g, k, unit, cleared) ==
  /\ Six(k) /\ k.IE = g.IE /\ k.FLG = g.FLG
  /\ k.FUN = (g.FUN \cup unit.f0 \cup unit.f1 \cup unit.f2) \ unit.in
  /\ k.SEL = (g.SEL \ (unit.f0 \cup unit.f2 \cup unit.in)) \cup unit.f1
  /\ k.TRG = (g.TRG \ cleared) \cup unit.f2
  /\ k.DIR = g.DIR \ unit.in
LEMMA UnitWrites ==
  ASSUME NEW g, Six(g), NEW unit
  PROVE  Wrote(g, gpio_as(g, unit), unit, IF unit.clears THEN unit.f0 \cup unit.f1 ELSE {})
<1>1. PICK cleared : cleared = IF unit.clears THEN unit.f0 \cup unit.f1 ELSE {}
  OBVIOUS
<1>2. PICK k : k = gpio_as(g, unit)
  OBVIOUS
<1>3. k = [FUN |-> (g.FUN \cup unit.f0 \cup unit.f1 \cup unit.f2) \ unit.in,
           SEL |-> (g.SEL \ (unit.f0 \cup unit.f2 \cup unit.in)) \cup unit.f1,
           TRG |-> (g.TRG \ cleared) \cup unit.f2,
           DIR |-> g.DIR \ unit.in, IE |-> g.IE, FLG |-> g.FLG]
  BY <1>1, <1>2 DEF gpio_as, Six
<1>4. Wrote(g, k, unit, cleared)
  BY <1>3 DEF Six, Wrote
<1> QED
  BY <1>1, <1>2, <1>4, Zenon

\* Where its masks give a pin the function the pin has, the macro leaves it.
LEMMA UnitLeaves ==
  ASSUME NEW g, Six(g), NEW unit, NEW k, k = gpio_as(g, unit), NEW c, NEW n, NEW f \in -1..2,
         GivesFunction(c, unit, f, n), FunctionIn(g, c, n) = f
  PROVE  FunctionIn(k, c, n) = f
<1>1. PICK cleared : cleared = IF unit.clears THEN unit.f0 \cup unit.f1 ELSE {}
  OBVIOUS
<1>a. Wrote(g, k, unit, cleared)
  BY <1>1, UnitWrites, Zenon
<1>2. /\ k.FUN = (g.FUN \cup unit.f0 \cup unit.f1 \cup unit.f2) \ unit.in
      /\ k.SEL = (g.SEL \ (unit.f0 \cup unit.f2 \cup unit.in)) \cup unit.f1
      /\ k.TRG = (g.TRG \ cleared) \cup unit.f2
      /\ k.DIR = g.DIR \ unit.in
  BY <1>a DEF Wrote
<1>3. CASE f = 0
  BY <1>2, <1>3 DEF GivesFunction, FunctionIn
<1>4. CASE f = 1
  BY <1>2, <1>4 DEF GivesFunction, FunctionIn
<1>5. CASE f = 2
  BY <1>2, <1>5 DEF GivesFunction, FunctionIn
<1>6. CASE f = -1
  BY <1>2, <1>6 DEF GivesFunction, FunctionIn
<1> QED
  BY <1>3, <1>4, <1>5, <1>6

\* Where TRG is not in the way, the macro gives its pins their functions.
LEMMA UnitGives ==
  ASSUME NEW g, Six(g), NEW unit, NEW k, k = gpio_as(g, unit), NEW c \in CPUs, NEW n, NEW f \in -1..2,
         GivesFunction(c, unit, f, n),
         unit.clears \/ g.TRG \cap (unit.f0 \cup unit.f1) \cap (IF c = "jz4740" THEN Uart1Pins ELSE 0..191) = {},
         n \in 0..191
  PROVE  FunctionIn(k, c, n) = f
<1>1. PICK cleared : cleared = IF unit.clears THEN unit.f0 \cup unit.f1 ELSE {}
  OBVIOUS
<1>a. Wrote(g, k, unit, cleared)
  BY <1>1, UnitWrites, Zenon
<1>2. /\ k.FUN = (g.FUN \cup unit.f0 \cup unit.f1 \cup unit.f2) \ unit.in
      /\ k.SEL = (g.SEL \ (unit.f0 \cup unit.f2 \cup unit.in)) \cup unit.f1
      /\ k.TRG = (g.TRG \ cleared) \cup unit.f2
      /\ k.DIR = g.DIR \ unit.in
  BY <1>a DEF Wrote
<1>3. ASSUME n \in unit.f0 \cup unit.f1, n \notin unit.f2, n \in k.TRG PROVE c = "jz4740" /\ n \notin Uart1Pins
  BY <1>1, <1>2, <1>3 DEF CPUs
<1>4. CASE f = 0
  BY <1>2, <1>3, <1>4 DEF GivesFunction, FunctionIn
<1>5. CASE f = 1
  BY <1>2, <1>3, <1>5 DEF GivesFunction, FunctionIn
<1>6. CASE f = 2
  BY <1>2, <1>6 DEF GivesFunction, FunctionIn
<1>7. CASE f = -1
  BY <1>2, <1>7 DEF GivesFunction, FunctionIn
<1> QED
  BY <1>4, <1>5, <1>6, <1>7

HeldInv ==
  /\ tool = "pins" => Six(gpio)
  /\ held \subseteq DOMAIN Units(header, cpu) \ Contradicted(header, cpu)
  /\ \A u \in held : Keeps(gpio, header, cpu, u)
\* The writes that are left change no pin of a unit.
TodoHeld ==
  \A i \in DOMAIN todo : todo[i].field \in Config =>
    \A u \in held : todo[i].pin \notin DocumentedPins(header, cpu, u)

LEMMA UnitOutside ==
  ASSUME NEW g, Six(g), NEW unit, NEW n, n \notin unit.f0 \cup unit.f1 \cup unit.f2 \cup unit.in
  PROVE  Alike(g, gpio_as(g, unit), n)
<1>1. PICK k : k = gpio_as(g, unit)
  OBVIOUS
<1>2. PICK cleared : cleared = IF unit.clears THEN unit.f0 \cup unit.f1 ELSE {}
  OBVIOUS
<1>3. Wrote(g, k, unit, cleared) /\ n \notin cleared
  <2>1. Wrote(g, k, unit, cleared)
    BY <1>1, <1>2, UnitWrites, Zenon
  <2>2. n \notin cleared
    BY <1>2
  <2> QED
    BY <2>1, <2>2
<1>4. Alike(g, k, n)
  BY <1>3 DEF Wrote, Alike
<1> QED
  BY <1>1, <1>4

LEMMA UnitHeld ==
  ASSUME ToolInv, HeldInv, tool = "pins", NEW u \in DOMAIN Units(header, cpu), AsUnit(u),
         UNCHANGED <<tool, cpu, header>>
  PROVE  HeldInv'
<1>1. PICK unit : unit = Units(header, cpu)[u]
  OBVIOUS
<1>2. header \in Headers /\ cpu \in CPUs /\ Six(gpio) /\ gpio' = gpio_as(gpio, unit)
  BY <1>1 DEF ToolInv, HeldInv, AsUnit
<1>3. Six(gpio')
  BY <1>2, UnitWrites DEF Wrote
<1>4. WrittenPins(header, cpu, u) = unit.f0 \cup unit.f1 \cup unit.f2 \cup unit.in
  BY <1>1 DEF WrittenPins
<1>5. ASSUME NEW v \in held, DocumentedPins(header, cpu, v) \cap WrittenPins(header, cpu, u) = {}
      PROVE  Keeps(gpio', header, cpu, v)
  <2>1. \A n \in DocumentedPins(header, cpu, v) : Alike(gpio, gpio', n)
    BY <1>2, <1>4, <1>5, UnitOutside
  <2> QED
    BY <2>1, KeepsAlike DEF HeldInv
<1>6. ASSUME NEW v \in held, u \notin Contradicted(header, cpu),
             DocumentedPins(header, cpu, v) \cap DocumentedPins(header, cpu, u) = {}
      PROVE  Keeps(gpio', header, cpu, v)
  <2> SUFFICES ASSUME NEW s \in Signals(cpu, v), NEW n \in Pinout(header, cpu)[s][2]
               PROVE  FunctionIn(gpio', cpu, n) = Pinout(header, cpu)[s][1]
    BY DEF Keeps
  <2>1. PICK f : f = Pinout(header, cpu)[s][1]
    OBVIOUS
  <2>2. v \in DOMAIN Units(header, cpu) \ Contradicted(header, cpu) /\ FunctionIn(gpio, cpu, n) = f
    BY <2>1 DEF HeldInv, Keeps
  <2>3. f \in -1..2
    BY <2>1, <2>2, <1>2, PinTable
  <2>4. CASE n \in WrittenPins(header, cpu, u)
    <3>1. GivesFunction(cpu, unit, f, n)
      BY <1>1, <1>2, <1>6, <2>1, <2>2, <2>4, PinTable
    <3> QED
      BY <3>1, <1>2, <2>1, <2>2, <2>3, UnitLeaves
  <2>5. CASE n \notin WrittenPins(header, cpu, u)
    BY <1>2, <1>4, <2>1, <2>2, <2>5, UnitOutside, AlikeFunction
  <2> QED
    BY <2>4, <2>5
<1>7. ASSUME u \notin Contradicted(header, cpu), ~TrgInTheWay(u) PROVE Keeps(gpio', header, cpu, u)
  <2> SUFFICES ASSUME NEW s \in Signals(cpu, u), NEW n \in Pinout(header, cpu)[s][2]
               PROVE  FunctionIn(gpio', cpu, n) = Pinout(header, cpu)[s][1]
    BY DEF Keeps
  <2>1. PICK f : f = Pinout(header, cpu)[s][1]
    OBVIOUS
  <2>2. f \in -1..2 /\ n \in 0..191 /\ GivesFunction(cpu, unit, f, n)
    BY <2>1, <1>1, <1>2, <1>7, PinTable
  <2>3. unit.clears \/ gpio.TRG \cap (unit.f0 \cup unit.f1) \cap (IF cpu = "jz4740" THEN Uart1Pins ELSE 0..191) = {}
    BY <1>1, <1>7 DEF TrgInTheWay
  <2> QED
    BY <1>2, <2>1, <2>2, <2>3, UnitGives
<1>8. ASSUME NEW v \in held'
      PROVE  v \in DOMAIN Units(header, cpu) \ Contradicted(header, cpu) /\ Keeps(gpio', header, cpu, v)
  <2>1. CASE u \in Contradicted(header, cpu)
    BY <2>1, <1>5 DEF AsUnit, Without, HeldInv
  <2>2. CASE u \notin Contradicted(header, cpu)
    BY <2>2, <1>6, <1>7 DEF AsUnit, Without, HeldInv
  <2> QED
    BY <2>1, <2>2
<1> QED
  BY <1>3, <1>8 DEF HeldInv

\* A macro for one pin: the other pins stay, the pin is no interrupt.
OnePin(g, h, n) ==
  /\ Six(h) /\ h.IE = g.IE /\ h.FLG = g.FLG /\ ~Interrupting(h, n)
  /\ \A m : m # n => Alike(g, h, m)

LEMMA FuncOnePin ==
  ASSUME NEW g, Six(g), NEW n, NEW k \in 0..3
  PROVE  OnePin(g, as_func(g, n, k), n)
<1>1. PICK odd \in BOOLEAN : odd = (k % 2 # 0)
  OBVIOUS
<1>2. PICK a : a = IF odd THEN Func1(g, {n}) ELSE Func0(g, {n})
  OBVIOUS
<1>3. PICK trg : trg = IF k < 2 THEN a.TRG \ {n} ELSE a.TRG \cup {n}
  OBVIOUS
<1>4. PICK h : h = IF cpu = "jz4740" THEN a ELSE [a EXCEPT !.TRG = trg]
  OBVIOUS
<1>5. h = as_func(g, n, k)
  BY <1>1, <1>2, <1>3, <1>4 DEF as_func
<1>6. /\ Six(a) /\ a.IE = g.IE /\ a.FLG = g.FLG /\ a.TRG = g.TRG /\ a.DIR = g.DIR /\ a.FUN = g.FUN \cup {n}
      /\ a.SEL = g.SEL \cup {n} \/ a.SEL = g.SEL \ {n}
  BY <1>2 DEF Six, Func0, Func1
<1>7. /\ Six(h) /\ h.IE = a.IE /\ h.FLG = a.FLG /\ h.DIR = a.DIR /\ h.FUN = a.FUN /\ h.SEL = a.SEL
      /\ h.TRG = a.TRG \/ h.TRG = trg
  BY <1>4, <1>6 DEF Six
<1>8. \A m : m # n => (m \in trg <=> m \in a.TRG)
  BY <1>3
<1>9. OnePin(g, h, n)
  BY <1>6, <1>7, <1>8 DEF OnePin, Interrupting, Alike
<1> QED
  BY <1>5, <1>9

LEMMA OutputOnePin ==
  ASSUME NEW g, Six(g), NEW n, NEW h, h = gpio_as_output(g, {n}) \/ h = gpio_as_input(g, {n})
  PROVE  OnePin(g, h, n)
<1>1. /\ Six(h) /\ h.IE = g.IE /\ h.FLG = g.FLG /\ h.TRG = g.TRG
      /\ h.FUN = g.FUN \ {n} /\ h.SEL = g.SEL \ {n}
      /\ h.DIR = g.DIR \cup {n} \/ h.DIR = g.DIR \ {n}
  BY DEF Six, gpio_as_output, gpio_as_input
<1> QED
  BY <1>1 DEF OnePin, Interrupting, Alike

\* The macros for one pin.
OnePinStep(n) ==
  /\ OnePin(gpio, gpio', n) /\ held' = Without({n})
  /\ todo = <<>> /\ UNCHANGED <<todo, line, seen>>

LEMMA OnePinSteps ==
  ASSUME HeldInv, tool = "pins", NEW n,
         (\E k \in 0..3 : AsFunc(n, k)) \/ AsOutput(n) \/ AsInput(n)
  PROVE  OnePinStep(n)
<1>1. Six(gpio)
  BY DEF HeldInv
<1>2. ASSUME NEW k \in 0..3, AsFunc(n, k) PROVE OnePinStep(n)
  <2>1. gpio' = as_func(gpio, n, k)
    BY <1>2 DEF AsFunc, xb_as_func
  <2> QED
    BY <1>1, <1>2, <2>1, FuncOnePin DEF AsFunc, Use, OnePinStep
<1>3. ASSUME AsOutput(n) \/ AsInput(n) PROVE OnePinStep(n)
  BY <1>1, <1>3, OutputOnePin DEF AsOutput, AsInput, Use, OnePinStep
<1> QED
  BY <1>2, <1>3

LEMMA OnePinHeld ==
  ASSUME HeldInv, tool = "pins", NEW n, OnePinStep(n), UNCHANGED <<tool, cpu, header>>
  PROVE  HeldInv'
<1>1. ASSUME NEW u \in held' PROVE u \in held /\ Keeps(gpio', header, cpu, u)
  <2>1. u \in held /\ n \notin DocumentedPins(header, cpu, u)
    BY DEF OnePinStep, Without
  <2>2. \A m \in DocumentedPins(header, cpu, u) : Alike(gpio, gpio', m)
    BY <2>1 DEF OnePinStep, OnePin
  <2> QED
    BY <2>1, <2>2, KeepsAlike DEF HeldInv
<1> QED
  BY <1>1 DEF HeldInv, OnePinStep, OnePin

LEMMA WriteHeld ==
  ASSUME HeldInv, TodoHeld, tool = "pins", RegisterWrite, UNCHANGED <<tool, cpu, header>>,
         NEW w, w = Head(todo), w.field \in Config \cup {"IE", "FLG"}, NEW S, todo \in Seq(S)
  PROVE  HeldInv' /\ TodoHeld'
<1>1. todo # <<>> /\ todo' = Tail(todo) /\ held' = held
  BY DEF RegisterWrite
<1>2. \A i \in DOMAIN todo' : i + 1 \in DOMAIN todo /\ todo'[i] = todo[i + 1]
  BY <1>1
<1>3. TodoHeld'
  BY <1>1, <1>2 DEF TodoHeld
<1>4. 1 \in DOMAIN todo /\ w = todo[1]
  BY <1>1
<1>5. Six(gpio')
  BY WriteDoes DEF HeldInv
<1>6. ASSUME NEW u \in held PROVE Keeps(gpio', header, cpu, u)
  <2>1. \A n : n # w.pin => Alike(gpio, gpio', n)
    BY WriteDoes DEF HeldInv, Alike
  <2>2. CASE w.field \in Config
    <3>1. w.pin \notin DocumentedPins(header, cpu, u)
      BY <1>4, <2>2 DEF TodoHeld
    <3> QED
      BY <3>1, <2>1, KeepsAlike DEF HeldInv
  <2>3. CASE w.field \notin Config
    <3>1. \A n : Alike(gpio, gpio', n)
      BY <2>3, WriteDoes DEF HeldInv, Alike
    <3> QED
      BY <3>1, KeepsAlike DEF HeldInv
  <2> QED
    BY <2>2, <2>3
<1> QED
  BY <1>1, <1>3, <1>5, <1>6 DEF HeldInv

\* What is left of an interrupt macro, by the number of its writes.
Left7(n, a, b) == <<Write(n, "IE", FALSE), Write(n, "TRG", a), Write(n, "FUN", FALSE), Write(n, "SEL", TRUE),
                    Write(n, "DIR", b), Write(n, "FLG", FALSE), Write(n, "IE", TRUE)>>
Left6(n, a, b) == <<Write(n, "TRG", a), Write(n, "FUN", FALSE), Write(n, "SEL", TRUE), Write(n, "DIR", b),
                    Write(n, "FLG", FALSE), Write(n, "IE", TRUE)>>
Left5(n, b) == <<Write(n, "FUN", FALSE), Write(n, "SEL", TRUE), Write(n, "DIR", b), Write(n, "FLG", FALSE),
                 Write(n, "IE", TRUE)>>
Left4(n, b) == <<Write(n, "SEL", TRUE), Write(n, "DIR", b), Write(n, "FLG", FALSE), Write(n, "IE", TRUE)>>
Left3(n, b) == <<Write(n, "DIR", b), Write(n, "FLG", FALSE), Write(n, "IE", TRUE)>>
Left2(n) == <<Write(n, "FLG", FALSE), Write(n, "IE", TRUE)>>

\* The interrupt is masked from the first of its writes to the last.
TodoForm(n, a, b) ==
  \/ todo = <<>>
  \/ todo = <<Write(n, "IE", TRUE)>> \/ todo = <<Write(n, "IE", FALSE)>> \/ todo = <<Write(n, "FLG", FALSE)>>
  \/ todo = Left7(n, a, b)
  \/ /\ n \notin gpio.IE
     /\ todo = Left6(n, a, b) \/ todo = Left5(n, b) \/ todo = Left4(n, b) \/ todo = Left3(n, b) \/ todo = Left2(n)
TodoInv == \E n, a, b : TodoForm(n, a, b)

\* A flag no event of the kind asked for has set, and a write that is going to clear it.
StaleAt(n) == n \in gpio.FLG /\ Interrupting(gpio, n) /\ n \notin seen
ClearingIn(t, n) == \E i \in DOMAIN t : t[i].field = "FLG" /\ t[i].pin = n
Clearing(n) == ClearingIn(todo, n)
StaleInv == \A n : StaleAt(n) => n \notin gpio.IE /\ Clearing(n)

LEMMA Heads ==
  ASSUME NEW n, NEW a, NEW b
  PROVE  /\ Head(Left7(n, a, b)) = Write(n, "IE", FALSE) /\ Tail(Left7(n, a, b)) = Left6(n, a, b)
         /\ Head(Left6(n, a, b)) = Write(n, "TRG", a) /\ Tail(Left6(n, a, b)) = Left5(n, b)
         /\ Head(Left5(n, b)) = Write(n, "FUN", FALSE) /\ Tail(Left5(n, b)) = Left4(n, b)
         /\ Head(Left4(n, b)) = Write(n, "SEL", TRUE) /\ Tail(Left4(n, b)) = Left3(n, b)
         /\ Head(Left3(n, b)) = Write(n, "DIR", b) /\ Tail(Left3(n, b)) = Left2(n)
         /\ Head(Left2(n)) = Write(n, "FLG", FALSE) /\ Tail(Left2(n)) = <<Write(n, "IE", TRUE)>>
<1>1. PICK p : p = Write(n, "IE", FALSE)
  OBVIOUS
<1>2. PICK q : q = Write(n, "TRG", a)
  OBVIOUS
<1>3. PICK r : r = Write(n, "FUN", FALSE)
  OBVIOUS
<1>4. PICK s : s = Write(n, "SEL", TRUE)
  OBVIOUS
<1>5. PICK t : t = Write(n, "DIR", b)
  OBVIOUS
<1>6. PICK u : u = Write(n, "FLG", FALSE)
  OBVIOUS
<1>7. PICK v : v = Write(n, "IE", TRUE)
  OBVIOUS
<1>8. /\ Left7(n, a, b) = <<p, q, r, s, t, u, v>> /\ Left6(n, a, b) = <<q, r, s, t, u, v>>
      /\ Left5(n, b) = <<r, s, t, u, v>> /\ Left4(n, b) = <<s, t, u, v>>
      /\ Left3(n, b) = <<t, u, v>> /\ Left2(n) = <<u, v>>
  BY <1>1, <1>2, <1>3, <1>4, <1>5, <1>6, <1>7 DEF Left7, Left6, Left5, Left4, Left3, Left2
<1>9. /\ Tail(<<p, q, r, s, t, u, v>>) = <<q, r, s, t, u, v>> /\ Tail(<<q, r, s, t, u, v>>) = <<r, s, t, u, v>>
      /\ Tail(<<r, s, t, u, v>>) = <<s, t, u, v>> /\ Tail(<<s, t, u, v>>) = <<t, u, v>>
      /\ Tail(<<t, u, v>>) = <<u, v>> /\ Tail(<<u, v>>) = <<v>>
  OBVIOUS
<1>10. /\ Head(<<p, q, r, s, t, u, v>>) = p /\ Head(<<q, r, s, t, u, v>>) = q /\ Head(<<r, s, t, u, v>>) = r
       /\ Head(<<s, t, u, v>>) = s /\ Head(<<t, u, v>>) = t /\ Head(<<u, v>>) = u
  OBVIOUS
<1> QED
  BY <1>1, <1>2, <1>3, <1>4, <1>5, <1>6, <1>7, <1>8, <1>9, <1>10

LEMMA Clears ==
  ASSUME NEW t, NEW n, NEW a, NEW b
  PROVE  /\ \/ t = Left7(n, a, b) \/ t = Left6(n, a, b) \/ t = Left5(n, b)
            \/ t = Left4(n, b) \/ t = Left3(n, b) \/ t = Left2(n)
            => ClearingIn(t, n) /\ \A m : ClearingIn(t, m) => m = n
         /\ t = <<Write(n, "FLG", FALSE)>> => \A m : ClearingIn(t, m) => m = n
         /\ t = <<>> \/ t = <<Write(n, "IE", TRUE)>> \/ t = <<Write(n, "IE", FALSE)>> => \A m : ~ClearingIn(t, m)
<1>1. PICK p : p = Write(n, "IE", FALSE)
  OBVIOUS
<1>2. PICK q : q = Write(n, "TRG", a)
  OBVIOUS
<1>3. PICK r : r = Write(n, "FUN", FALSE)
  OBVIOUS
<1>4. PICK s : s = Write(n, "SEL", TRUE)
  OBVIOUS
<1>5. PICK d : d = Write(n, "DIR", b)
  OBVIOUS
<1>6. PICK u : u = Write(n, "FLG", FALSE)
  OBVIOUS
<1>7. PICK v : v = Write(n, "IE", TRUE)
  OBVIOUS
<1>8. /\ p.pin = n /\ q.pin = n /\ r.pin = n /\ s.pin = n /\ d.pin = n /\ u.pin = n /\ v.pin = n
      /\ u.field = "FLG" /\ v.field = "IE" /\ p.field = "IE"
  BY <1>1, <1>2, <1>3, <1>4, <1>5, <1>6, <1>7 DEF Write
<1>9. CASE t = Left7(n, a, b)
  <2>1. t = <<p, q, r, s, d, u, v>>
    BY <1>1, <1>2, <1>3, <1>4, <1>5, <1>6, <1>7, <1>9 DEF Left7
  <2>2. 6 \in DOMAIN t /\ t[6] = u /\ \A i \in DOMAIN t : t[i].pin = n
    BY <2>1, <1>8
  <2> QED
    BY <2>1, <2>2, <1>8 DEF ClearingIn
<1>10. CASE t = Left6(n, a, b)
  <2>1. t = <<q, r, s, d, u, v>>
    BY <1>2, <1>3, <1>4, <1>5, <1>6, <1>7, <1>10 DEF Left6
  <2>2. 5 \in DOMAIN t /\ t[5] = u /\ \A i \in DOMAIN t : t[i].pin = n
    BY <2>1, <1>8
  <2> QED
    BY <2>1, <2>2, <1>8 DEF ClearingIn
<1>11. CASE t = Left5(n, b)
  <2>1. t = <<r, s, d, u, v>>
    BY <1>3, <1>4, <1>5, <1>6, <1>7, <1>11 DEF Left5
  <2>2. 4 \in DOMAIN t /\ t[4] = u /\ \A i \in DOMAIN t : t[i].pin = n
    BY <2>1, <1>8
  <2> QED
    BY <2>1, <2>2, <1>8 DEF ClearingIn
<1>12. CASE t = Left4(n, b)
  <2>1. t = <<s, d, u, v>>
    BY <1>4, <1>5, <1>6, <1>7, <1>12 DEF Left4
  <2>2. 3 \in DOMAIN t /\ t[3] = u /\ \A i \in DOMAIN t : t[i].pin = n
    BY <2>1, <1>8
  <2> QED
    BY <2>1, <2>2, <1>8 DEF ClearingIn
<1>13. CASE t = Left3(n, b)
  <2>1. t = <<d, u, v>>
    BY <1>5, <1>6, <1>7, <1>13 DEF Left3
  <2>2. 2 \in DOMAIN t /\ t[2] = u /\ \A i \in DOMAIN t : t[i].pin = n
    BY <2>1, <1>8
  <2> QED
    BY <2>1, <2>2, <1>8 DEF ClearingIn
<1>14. CASE t = Left2(n)
  <2>1. t = <<u, v>>
    BY <1>6, <1>7, <1>14 DEF Left2
  <2>2. 1 \in DOMAIN t /\ t[1] = u /\ \A i \in DOMAIN t : t[i].pin = n
    BY <2>1, <1>8
  <2> QED
    BY <2>1, <2>2, <1>8 DEF ClearingIn
<1>15. \/ t = Left7(n, a, b) \/ t = Left6(n, a, b) \/ t = Left5(n, b)
       \/ t = Left4(n, b) \/ t = Left3(n, b) \/ t = Left2(n)
       => ClearingIn(t, n) /\ \A m : ClearingIn(t, m) => m = n
  BY <1>9, <1>10, <1>11, <1>12, <1>13, <1>14
<1>16. t = <<u>> => \A m : ClearingIn(t, m) => m = n
  BY <1>8 DEF ClearingIn
<1>17. t = <<>> \/ t = <<v>> \/ t = <<p>> => \A m : ~ClearingIn(t, m)
  BY <1>8 DEF ClearingIn
<1> QED
  BY <1>1, <1>6, <1>7, <1>15, <1>16, <1>17

\* A write while its interrupt is masked and the flag is still to be cleared.
LEMMA ConfigWrite ==
  ASSUME Six(gpio), StaleInv, RegisterWrite, NEW w, w = Head(todo), w.field \in Config,
         w.pin \notin gpio.IE, \A m : Clearing(m) => m = w.pin, Clearing(w.pin)'
  PROVE  w.pin \notin gpio'.IE /\ StaleInv'
<1>1. gpio'.IE = gpio.IE
  BY WriteDoes DEF Config
<1>2. ASSUME NEW m, StaleAt(m)' PROVE m = w.pin
  <2> SUFFICES ASSUME m # w.pin PROVE FALSE
    OBVIOUS
  <2>1. StaleAt(m)
    BY <1>2, WriteDoes DEF StaleAt, Interrupting
  <2> QED
    BY <2>1 DEF StaleInv
<1> QED
  BY <1>1, <1>2 DEF StaleInv

\* A write that masks, lets through or clears.
LEMMA OtherWrite ==
  ASSUME Six(gpio), StaleInv, RegisterWrite, NEW w, w = Head(todo), w.field \in {"IE", "FLG"},
         \A m : Clearing(m) => m = w.pin,
         \/ w.field = "IE" /\ (\A m : ~Clearing(m))
         \/ w.field = "IE" /\ w.on = FALSE /\ Clearing(w.pin)'
         \/ w.field = "FLG" /\ w.on = FALSE
  PROVE  StaleInv'
<1>1. ASSUME NEW m, StaleAt(m)' PROVE m = w.pin
  <2> SUFFICES ASSUME m # w.pin PROVE FALSE
    OBVIOUS
  <2>1. StaleAt(m)
    BY <1>1, WriteDoes DEF StaleAt, Interrupting
  <2> QED
    BY <2>1 DEF StaleInv
<1>2. CASE w.field = "FLG" /\ w.on = FALSE
  BY <1>1, <1>2, WriteDoes DEF StaleInv, StaleAt
<1>3. CASE w.field = "IE" /\ \A m : ~Clearing(m)
  <2>1. ~StaleAt(w.pin)
    BY <1>3 DEF StaleInv
  <2>2. /\ w.pin \in gpio'.FLG => w.pin \in gpio.FLG \/ w.pin \in seen'
        /\ seen \subseteq seen'
    BY <1>3, WriteDoes
  <2>3. gpio'.FUN = gpio.FUN /\ gpio'.SEL = gpio.SEL
    BY <1>3, WriteDoes DEF Config
  <2>4. ~StaleAt(w.pin)'
    BY <2>1, <2>2, <2>3 DEF StaleAt, Interrupting
  <2> QED
    BY <1>1, <2>4 DEF StaleInv
<1>4. CASE w.field = "IE" /\ w.on = FALSE /\ Clearing(w.pin)'
  <2>1. w.pin \notin gpio'.IE
    BY <1>4, WriteDoes
  <2> QED
    BY <1>1, <1>4, <2>1 DEF StaleInv
<1> QED
  BY <1>2, <1>3, <1>4

LEMMA ClearsLeft ==
  ASSUME NEW n, NEW a, NEW b
  PROVE  /\ ClearingIn(Left6(n, a, b), n) /\ ClearingIn(Left5(n, b), n) /\ ClearingIn(Left4(n, b), n)
         /\ ClearingIn(Left3(n, b), n) /\ ClearingIn(Left2(n), n)
<1>1. ASSUME NEW t, t = Left6(n, a, b) \/ t = Left5(n, b) \/ t = Left4(n, b) \/ t = Left3(n, b) \/ t = Left2(n)
      PROVE  ClearingIn(t, n)
  BY <1>1, Clears
<1> QED
  BY <1>1

LEMMA WriteStale ==
  ASSUME Six(gpio), StaleInv, TodoInv, RegisterWrite
  PROVE  StaleInv' /\ TodoInv' /\ Head(todo).field \in Config \cup {"IE", "FLG"}
<1>1. PICK n, a, b : TodoForm(n, a, b)
  BY DEF TodoInv
<1>a. /\ Head(Left7(n, a, b)) = Write(n, "IE", FALSE) /\ Tail(Left7(n, a, b)) = Left6(n, a, b)
      /\ Head(Left6(n, a, b)) = Write(n, "TRG", a) /\ Tail(Left6(n, a, b)) = Left5(n, b)
      /\ Head(Left5(n, b)) = Write(n, "FUN", FALSE) /\ Tail(Left5(n, b)) = Left4(n, b)
      /\ Head(Left4(n, b)) = Write(n, "SEL", TRUE) /\ Tail(Left4(n, b)) = Left3(n, b)
      /\ Head(Left3(n, b)) = Write(n, "DIR", b) /\ Tail(Left3(n, b)) = Left2(n)
      /\ Head(Left2(n)) = Write(n, "FLG", FALSE) /\ Tail(Left2(n)) = <<Write(n, "IE", TRUE)>>
  BY Heads
<1>2. PICK w : w = Head(todo)
  OBVIOUS
<1>3. todo # <<>> /\ todo' = Tail(todo)
  BY DEF RegisterWrite
<1>4. SUFFICES StaleInv' /\ TodoForm(n, a, b)' /\ w.field \in Config \cup {"IE", "FLG"}
  BY <1>2 DEF TodoInv
<1> USE <1>2, <1>3
<1>5. CASE todo = Left7(n, a, b)
  <2>1. w = Write(n, "IE", FALSE) /\ todo' = Left6(n, a, b)
    BY <1>5, <1>a
  <2>2. w.pin = n /\ w.field = "IE" /\ w.on = FALSE
    BY <2>1 DEF Write
  <2>3. Clearing(n)'
    BY <2>1, ClearsLeft DEF Clearing
  <2>4. \A m : Clearing(m) => m = n
    BY <1>5, Clears DEF Clearing
  <2>5. StaleInv'
    BY <2>2, <2>3, <2>4, OtherWrite
  <2>6. n \notin gpio'.IE
    BY <2>2, WriteDoes
  <2> QED
    BY <2>1, <2>2, <2>5, <2>6 DEF TodoForm
<1>6. CASE todo = Left6(n, a, b) /\ n \notin gpio.IE
  <2>1. w = Write(n, "TRG", a) /\ todo' = Left5(n, b)
    BY <1>6, <1>a
  <2>2. w.pin = n /\ w.field = "TRG" /\ w.field \in Config
    BY <2>1 DEF Write, Config
  <2>3. Clearing(n)'
    BY <2>1, ClearsLeft DEF Clearing
  <2>4. \A m : Clearing(m) => m = n
    BY <1>6, Clears DEF Clearing
  <2>5. StaleInv' /\ n \notin gpio'.IE
    BY <1>6, <2>2, <2>3, <2>4, ConfigWrite
  <2> QED
    BY <2>1, <2>2, <2>5 DEF TodoForm
<1>7. CASE todo = Left5(n, b) /\ n \notin gpio.IE
  <2>1. w = Write(n, "FUN", FALSE) /\ todo' = Left4(n, b)
    BY <1>7, <1>a
  <2>2. w.pin = n /\ w.field = "FUN" /\ w.field \in Config
    BY <2>1 DEF Write, Config
  <2>3. Clearing(n)'
    BY <2>1, ClearsLeft DEF Clearing
  <2>4. \A m : Clearing(m) => m = n
    BY <1>7, Clears DEF Clearing
  <2>5. StaleInv' /\ n \notin gpio'.IE
    BY <1>7, <2>2, <2>3, <2>4, ConfigWrite
  <2> QED
    BY <2>1, <2>2, <2>5 DEF TodoForm
<1>8. CASE todo = Left4(n, b) /\ n \notin gpio.IE
  <2>1. w = Write(n, "SEL", TRUE) /\ todo' = Left3(n, b)
    BY <1>8, <1>a
  <2>2. w.pin = n /\ w.field = "SEL" /\ w.field \in Config
    BY <2>1 DEF Write, Config
  <2>3. Clearing(n)'
    BY <2>1, ClearsLeft DEF Clearing
  <2>4. \A m : Clearing(m) => m = n
    BY <1>8, Clears DEF Clearing
  <2>5. StaleInv' /\ n \notin gpio'.IE
    BY <1>8, <2>2, <2>3, <2>4, ConfigWrite
  <2> QED
    BY <2>1, <2>2, <2>5 DEF TodoForm
<1>9. CASE todo = Left3(n, b) /\ n \notin gpio.IE
  <2>1. w = Write(n, "DIR", b) /\ todo' = Left2(n)
    BY <1>9, <1>a
  <2>2. w.pin = n /\ w.field = "DIR" /\ w.field \in Config
    BY <2>1 DEF Write, Config
  <2>3. Clearing(n)'
    BY <2>1, ClearsLeft DEF Clearing
  <2>4. \A m : Clearing(m) => m = n
    BY <1>9, Clears DEF Clearing
  <2>5. StaleInv' /\ n \notin gpio'.IE
    BY <1>9, <2>2, <2>3, <2>4, ConfigWrite
  <2> QED
    BY <2>1, <2>2, <2>5 DEF TodoForm
<1>10. CASE todo = Left2(n) /\ n \notin gpio.IE
  <2>1. w = Write(n, "FLG", FALSE) /\ todo' = <<Write(n, "IE", TRUE)>>
    BY <1>10, <1>a
  <2>2. w.pin = n /\ w.field = "FLG" /\ w.on = FALSE
    BY <2>1 DEF Write
  <2>3. \A m : Clearing(m) => m = n
    BY <1>10, Clears DEF Clearing
  <2>4. StaleInv'
    BY <2>2, <2>3, OtherWrite
  <2> QED
    BY <2>1, <2>2, <2>4 DEF TodoForm
<1>11. CASE todo = <<Write(n, "FLG", FALSE)>>
  <2>1. w = Write(n, "FLG", FALSE) /\ todo' = <<>>
    BY <1>11
  <2>2. w.pin = n /\ w.field = "FLG" /\ w.on = FALSE
    BY <2>1 DEF Write
  <2>3. \A m : Clearing(m) => m = n
    <3>1. \A m : ClearingIn(todo, m) => m = n
      <4>1. PICK u : u = Write(n, "FLG", FALSE)
        OBVIOUS
      <4>2. todo = <<u>> /\ u.pin = n
        BY <1>11, <4>1 DEF Write
      <4> QED
        BY <4>2 DEF ClearingIn
    <3> QED
      BY <3>1 DEF Clearing
  <2>4. StaleInv'
    BY <2>2, <2>3, OtherWrite
  <2> QED
    BY <2>1, <2>2, <2>4 DEF TodoForm
<1>12. CASE todo = <<Write(n, "IE", TRUE)>> \/ todo = <<Write(n, "IE", FALSE)>>
  <2>1. (w = Write(n, "IE", TRUE) \/ w = Write(n, "IE", FALSE)) /\ todo' = <<>>
    <3>1. PICK v : todo = <<v>> /\ (v = Write(n, "IE", TRUE) \/ v = Write(n, "IE", FALSE))
      BY <1>12, Zenon
    <3>2. Head(<<v>>) = v /\ Tail(<<v>>) = <<>>
      OBVIOUS
    <3> QED
      BY <3>1, <3>2, Zenon
  <2>2. w.pin = n /\ w.field = "IE"
    BY <2>1 DEF Write
  <2>3. \A m : ~Clearing(m)
    <3>1. \A m : ~ClearingIn(todo, m)
      BY <1>12, Clears, Zenon
    <3> QED
      BY <3>1 DEF Clearing
  <2>4. StaleInv'
    BY <2>2, <2>3, OtherWrite
  <2> QED
    BY <2>1, <2>2, <2>4 DEF TodoForm
<1> QED
  BY <1>1, <1>3, <1>5, <1>6, <1>7, <1>8, <1>9, <1>10, <1>11, <1>12 DEF TodoForm

\* The pins while board code sets them up.
PinInv ==
  /\ HeldInv /\ TodoHeld /\ TodoInv /\ StaleInv
  /\ \E S : todo \in Seq(S)

\* No flag is stale where nothing is left to do, and a macro that makes no pin an interrupt
\* and sets no flag leaves it so.
LEMMA IdleStale ==
  ASSUME StaleInv, todo = <<>>,
         \A m : m \in gpio'.FLG /\ Interrupting(gpio', m) => m \in gpio.FLG /\ Interrupting(gpio, m),
         UNCHANGED seen
  PROVE  StaleInv'
<1>1. \A m : ~ClearingIn(<<>>, m)
  BY DEF ClearingIn
<1>2. \A m : ~StaleAt(m)
  BY <1>1 DEF StaleInv, Clearing
<1>3. ASSUME NEW m, StaleAt(m)' PROVE FALSE
  <2>1. m \in gpio'.FLG /\ Interrupting(gpio', m) /\ m \notin seen
    BY <1>3 DEF StaleAt
  <2> QED
    BY <2>1, <1>2 DEF StaleAt
<1> QED
  BY <1>3 DEF StaleInv

LEMMA Idle ==
  ASSUME todo' = <<>>
  PROVE  TodoHeld' /\ TodoInv' /\ \E S : todo' \in Seq(S)
<1>1. TodoForm(0, 0, 0)'
  BY DEF TodoForm
<1>2. TodoHeld'
  BY DEF TodoHeld
<1>3. todo' \in Seq({})
  OBVIOUS
<1> QED
  BY <1>1, <1>2, <1>3 DEF TodoInv

LEMMA UnitPins ==
  ASSUME ToolInv, PinInv, tool = "pins", NEW u \in DOMAIN Units(header, cpu), AsUnit(u),
         UNCHANGED <<tool, cpu, header>>
  PROVE  PinInv'
<1>1. PICK unit : unit = Units(header, cpu)[u]
  OBVIOUS
<1>2. /\ header \in Headers /\ cpu \in CPUs /\ Six(gpio) /\ gpio' = gpio_as(gpio, unit)
      /\ todo = <<>> /\ UNCHANGED <<todo, seen>>
  BY <1>1 DEF ToolInv, PinInv, HeldInv, AsUnit, Use
<1>3. unit.in \cap unit.f1 = {}
  BY <1>1, <1>2, PinTable
<1>4. PICK cleared : Wrote(gpio, gpio', unit, cleared)
  BY <1>2, UnitWrites
<1>5. \A m : m \in gpio'.FLG /\ Interrupting(gpio', m) => m \in gpio.FLG /\ Interrupting(gpio, m)
  BY <1>3, <1>4 DEF Wrote, Interrupting
<1> QED
  BY <1>2, <1>5, IdleStale, Idle, UnitHeld DEF PinInv

LEMMA OnePinPins ==
  ASSUME PinInv, tool = "pins", NEW n, OnePinStep(n), UNCHANGED <<tool, cpu, header>>
  PROVE  PinInv'
<1>1. todo = <<>> /\ todo' = <<>> /\ seen' = seen
  BY DEF OnePinStep
<1>2. \A m : m \in gpio'.FLG /\ Interrupting(gpio', m) => m \in gpio.FLG /\ Interrupting(gpio, m)
  BY DEF OnePinStep, OnePin, Interrupting, Alike
<1> QED
  BY <1>1, <1>2, IdleStale, Idle, OnePinHeld DEF PinInv

\* An interrupt macro starts: its pin is no unit's any more.
LEMMA IrqPins ==
  ASSUME PinInv, tool = "pins", NEW n, NEW mode, AsIrq(mode, n), UNCHANGED <<tool, cpu, header>>
  PROVE  PinInv'
<1>1. PICK a : a = (mode \in {"rise_edge", "fall_edge"})
  OBVIOUS
<1>2. PICK b : b = (mode \in {"high_level", "rise_edge"})
  OBVIOUS
<1>3. todo' = Left7(n, a, b) /\ held' = Without({n}) /\ todo = <<>> /\ UNCHANGED <<gpio, line, seen>>
  BY <1>1, <1>2 DEF AsIrq, Use, irq_writes, xb_irq_writes, Left7
<1>4. TodoInv'
  BY <1>3 DEF TodoInv, TodoForm
<1>5. StaleInv'
  BY <1>3, IdleStale DEF PinInv
<1>6. HeldInv'
  BY <1>3 DEF PinInv, HeldInv, Without
<1>7. \A u \in held' : n \notin DocumentedPins(header, cpu, u)
  BY <1>3 DEF Without
<1>8. (\A i \in DOMAIN todo' : todo'[i].pin = n) /\ (\E S : todo' \in Seq(S))
  <2>1. PICK p : p = Write(n, "IE", FALSE)
    OBVIOUS
  <2>2. PICK q : q = Write(n, "TRG", a)
    OBVIOUS
  <2>3. PICK r : r = Write(n, "FUN", FALSE)
    OBVIOUS
  <2>4. PICK s : s = Write(n, "SEL", TRUE)
    OBVIOUS
  <2>5. PICK d : d = Write(n, "DIR", b)
    OBVIOUS
  <2>6. PICK u : u = Write(n, "FLG", FALSE)
    OBVIOUS
  <2>7. PICK v : v = Write(n, "IE", TRUE)
    OBVIOUS
  <2>8. p.pin = n /\ q.pin = n /\ r.pin = n /\ s.pin = n /\ d.pin = n /\ u.pin = n /\ v.pin = n
    BY <2>1, <2>2, <2>3, <2>4, <2>5, <2>6, <2>7 DEF Write
  <2>9. todo' = <<p, q, r, s, d, u, v>>
    BY <2>1, <2>2, <2>3, <2>4, <2>5, <2>6, <2>7, <1>3 DEF Left7
  <2>10. <<p, q, r, s, d, u, v>> \in Seq({p, q, r, s, d, u, v})
    OBVIOUS
  <2>11. \A i \in DOMAIN todo' : todo'[i].pin = n
    BY <2>8, <2>9
  <2> QED
    BY <2>9, <2>10, <2>11
<1>9. TodoHeld'
  BY <1>7, <1>8 DEF TodoHeld
<1> QED
  BY <1>4, <1>5, <1>6, <1>8, <1>9 DEF PinInv

LEMMA CallPins ==
  ASSUME PinInv, tool = "pins", NEW n, NEW w, IrqCall(w), UNCHANGED <<tool, cpu, header>>,
         w \in {Write(n, "IE", FALSE), Write(n, "IE", TRUE), Write(n, "FLG", FALSE)}
  PROVE  PinInv'
<1>1. todo' = <<w>> /\ todo = <<>> /\ UNCHANGED <<gpio, held, line, seen>>
  BY DEF IrqCall, Use
<1>2. TodoForm(n, 0, 0)'
  BY <1>1 DEF TodoForm
<1>3. w.field \notin Config
  BY DEF Write, Config
<1>4. TodoHeld'
  BY <1>1, <1>3 DEF TodoHeld
<1>5. todo' \in Seq({w})
  BY <1>1
<1> QED
  BY <1>1, <1>2, <1>4, <1>5, IdleStale DEF PinInv, TodoInv, HeldInv

\* A line that changes marks its pin's flag and the event that set it.
LEMMA LinePinsKept ==
  ASSUME PinInv, tool = "pins", NEW n, LineChanges(n), UNCHANGED <<tool, cpu, header>>
  PROVE  PinInv'
<1>1. /\ UNCHANGED <<held, todo>> /\ Six(gpio)
      /\ \/ UNCHANGED <<gpio, seen>>
         \/ gpio' = [gpio EXCEPT !.FLG = gpio.FLG \cup {n}] /\ seen' = seen \cup {n}
  BY DEF LineChanges, PinInv, HeldInv
<1>2. CASE UNCHANGED <<gpio, seen>>
  BY <1>1, <1>2 DEF PinInv, HeldInv, TodoHeld, TodoInv, TodoForm, StaleInv, StaleAt, Clearing
<1>3. CASE gpio' = [gpio EXCEPT !.FLG = gpio.FLG \cup {n}] /\ seen' = seen \cup {n}
  <2>1. /\ Six(gpio') /\ gpio'.FUN = gpio.FUN /\ gpio'.SEL = gpio.SEL /\ gpio'.TRG = gpio.TRG
        /\ gpio'.DIR = gpio.DIR /\ gpio'.IE = gpio.IE /\ gpio'.FLG = gpio.FLG \cup {n}
    BY <1>1, <1>3 DEF Six
  <2>2. \A m : StaleAt(m)' => StaleAt(m)
    BY <1>3, <2>1 DEF StaleAt, Interrupting
  <2>3. StaleInv'
    BY <1>1, <2>1, <2>2 DEF PinInv, StaleInv, Clearing
  <2>4. \A m : Alike(gpio, gpio', m)
    BY <2>1 DEF Alike
  <2>5. HeldInv'
    BY <1>1, <2>1, <2>4, KeepsAlike DEF PinInv, HeldInv
  <2>6. TodoInv' /\ TodoHeld'
    BY <1>1, <2>1 DEF PinInv, TodoInv, TodoForm, TodoHeld
  <2> QED
    BY <1>1, <2>3, <2>5, <2>6 DEF PinInv
<1> QED
  BY <1>1, <1>2, <1>3

LEMMA WritePins ==
  ASSUME PinInv, tool = "pins", RegisterWrite, UNCHANGED <<tool, cpu, header>>
  PROVE  PinInv'
<1>1. PICK w : w = Head(todo)
  OBVIOUS
<1>2. PICK S : todo \in Seq(S)
  BY DEF PinInv
<1>3. StaleInv' /\ TodoInv' /\ w.field \in Config \cup {"IE", "FLG"}
  BY <1>1, WriteStale DEF PinInv, HeldInv
<1>4. HeldInv' /\ TodoHeld'
  BY <1>1, <1>2, <1>3, WriteHeld DEF PinInv
<1>5. todo # <<>> /\ todo' = Tail(todo)
  BY DEF RegisterWrite
<1>6. todo' \in Seq(S)
  BY <1>2, <1>5
<1> QED
  BY <1>3, <1>4, <1>6 DEF PinInv

LEMMA PinStepInv ==
  ASSUME ToolInv, PinInv, tool = "pins", PinSteps, UNCHANGED <<tool, cpu, header>>
  PROVE  PinInv'
<1>1. ASSUME NEW u \in DOMAIN Units(header, cpu), AsUnit(u) PROVE PinInv'
  BY <1>1, UnitPins
<1>2. ASSUME NEW n, (\E k \in 0..3 : AsFunc(n, k)) \/ AsOutput(n) \/ AsInput(n) PROVE PinInv'
  BY <1>2, OnePinSteps, OnePinPins DEF PinInv
<1>3. ASSUME NEW n, LineChanges(n) PROVE PinInv'
  BY <1>3, LinePinsKept
<1>4. ASSUME NEW n, NEW mode, AsIrq(mode, n) PROVE PinInv'
  BY <1>4, IrqPins
<1>5. ASSUME NEW n, NEW w \in {Write(n, "IE", FALSE), Write(n, "IE", TRUE), Write(n, "FLG", FALSE)}, IrqCall(w)
      PROVE  PinInv'
  BY <1>5, CallPins
<1> QED
  BY <1>1, <1>2, <1>3, <1>4, <1>5, WritePins DEF PinSteps

\* After any macros, in any order and number, a unit that was given its pins keeps them in
\* their documented functions until one is given to something else, and an interrupt that
\* is let through comes from an event of the kind asked for, whatever the lines did between
\* the macros' writes (the __gpio_as_ and irq macros of jz4740.h and jz4760.h).
THEOREM PinMacros == SocSpec => []PinsAsAsked
<1> DEFINE Quiet == tool = "clocks" => gpio.FLG = {}
           Inv == ToolInv /\ HostInv /\ BoardPins /\ Quiet /\ (tool = "pins" => PinInv)
<1>1. SocInit => Inv
  <2> SUFFICES ASSUME SocInit PROVE BoardPins /\ Quiet /\ PinInv
    BY ToolInit
  <2>1. gpio = GpioReset /\ last = NoRun /\ held = {} /\ todo = <<>>
    BY DEF SocInit, XbInitOf, Init
  <2>2. Six(gpio) /\ gpio.FLG = {} /\ gpio.TRG = {}
    BY <2>1 DEF GpioReset, Six
  <2>3. BoardPins /\ Quiet
    BY <2>1, <2>2 DEF BoardPins, NoRun
  <2>4. TodoForm(0, 0, 0) /\ TodoHeld /\ todo \in Seq({})
    BY <2>1 DEF TodoForm, TodoHeld
  <2> QED
    BY <2>1, <2>2, <2>3, <2>4 DEF PinInv, HeldInv, TodoInv, StaleInv, StaleAt
<1>2. Inv /\ [SocNext]_<<allVars, socVars>> => Inv'
  <2> SUFFICES ASSUME Inv, [SocNext]_<<allVars, socVars>> PROVE Inv'
    OBVIOUS
  <2>1. /\ ToolInv' /\ HostInv' /\ UNCHANGED <<tool, cpu, header>> /\ (tool \in Boards => BoardStep)
        /\ tool = "pins" => PinSteps \/ UNCHANGED <<allVars, socVars>>
        /\ tool = "clocks" => ClockSteps \/ UNCHANGED <<allVars, socVars>>
    BY ToolStep
  <2>2. BoardPins'
    BY <2>1, BoardPinsStep DEF BoardPins
  <2>3. ASSUME UNCHANGED <<allVars, socVars>> PROVE UNCHANGED <<gpio, held, todo, seen>>
    BY <2>3 DEF allVars, vars, boardVars, socVars, pinState
  <2>4. Quiet'
    BY <2>1, <2>3, ClockTool DEF vars, boardVars
  <2>5. ASSUME UNCHANGED <<gpio, held, todo, seen>>, PinInv PROVE PinInv'
    BY <2>1, <2>5 DEF PinInv, HeldInv, TodoHeld, TodoInv, TodoForm, StaleInv, StaleAt, Clearing
  <2>6. tool = "pins" => PinInv'
    BY <2>1, <2>3, <2>5, PinStepInv
  <2> QED
    BY <2>1, <2>2, <2>4, <2>6
<1>3. Inv => PinsAsAsked
  <2> SUFFICES ASSUME Inv PROVE UnitsKeepTheirPins /\ NoStaleInterrupt
    BY DEF PinsAsAsked
  <2>1. CASE tool = "pins"
    <3>1. UnitsKeepTheirPins
      BY <2>1 DEF UnitsKeepTheirPins, PinInv, HeldInv, Keeps, FunctionIn, FunctionOf
    <3>2. ASSUME todo = <<>>, NEW n \in gpio.FLG \cap gpio.IE, Interrupting(gpio, n) PROVE n \in seen
      BY <2>1, <3>2 DEF PinInv, StaleInv, StaleAt
    <3> QED
      BY <3>1, <3>2 DEF NoStaleInterrupt
  <2>2. CASE tool # "pins"
    <3>1. held = {} /\ gpio.FLG = {}
      BY <2>2 DEF ToolInv, BoardPins, Tools, Boards
    <3> QED
      BY <3>1 DEF UnitsKeepTheirPins, NoStaleInterrupt
  <2> QED
    BY <2>1, <2>2
<1> QED
  BY <1>1, <1>2, <1>3, PTL DEF SocSpec

\* Powers of two, one after the other.
KiloTimes(n) == 2^n = 1024 * 2^(n - 10) /\ 2^(n - 10) \in Nat
LEMMA Powers ==
  /\ 2^0 = 1 /\ 2^1 = 2 /\ 2^2 = 4 /\ 2^3 = 8 /\ 2^4 = 16 /\ 2^5 = 32
  /\ 2^6 = 64 /\ 2^7 = 128 /\ 2^8 = 256 /\ 2^9 = 512
  /\ \A n \in 19..25 : KiloTimes(n)
<1> DEFINE p[n \in 0..30] == 2^n
<1>1. p[0] = 1 /\ \A n \in 0..29 : p[n + 1] = 2 * p[n]
  BY PowerTable
<1>2. \A n \in 0..30 : p[n] = 2^n
  OBVIOUS
<1> HIDE DEF p
<1>3. p[0] = 1 /\ p[1] = 2 /\ p[2] = 4 /\ p[3] = 8 /\ p[4] = 16 /\ p[5] = 32 /\ p[6] = 64 /\ p[7] = 128 /\ p[8] = 256 /\ p[9] = 512
  BY <1>1, SMT
<1>4. p[10] = 1024 /\ p[11] = 2048 /\ p[12] = 4096 /\ p[13] = 8192 /\ p[14] = 16384 /\ p[15] = 32768
  BY <1>1, <1>3, SMT
<1>5. p[16] = 65536 /\ p[17] = 131072 /\ p[18] = 262144 /\ p[19] = 524288 /\ p[20] = 1048576
  BY <1>1, <1>4, SMT
<1>6. p[21] = 2097152 /\ p[22] = 4194304 /\ p[23] = 8388608 /\ p[24] = 16777216 /\ p[25] = 33554432
  BY <1>1, <1>5, SMT
<1>7. \A n \in 19..25 : p[n] = 1024 * p[n - 10] /\ p[n - 10] \in Nat
  BY <1>3, <1>4, <1>5, <1>6, SMT
<1>8. \A n \in 19..25 : n - 10 \in 0..30 /\ n \in 0..30
  OBVIOUS
<1>9. \A n \in 19..25 : KiloTimes(n)
  <2> TAKE n \in 19..25
  <2>1. p[n] = 2^n /\ p[n - 10] = 2^(n - 10)
    BY <1>2, <1>8
  <2> QED
    BY <2>1, <1>7 DEF KiloTimes
<1>10. p[0] = 2^0 /\ p[1] = 2^1 /\ p[2] = 2^2 /\ p[3] = 2^3 /\ p[4] = 2^4 /\ p[5] = 2^5 /\ p[6] = 2^6
       /\ p[7] = 2^7 /\ p[8] = 2^8 /\ p[9] = 2^9
  BY <1>2, SMT
<1> QED
  BY <1>3, <1>9, <1>10

\* A field of a word that was put together from values that fit, whatever other bits are
\* added outside the field.
InRange(L, v) == DOMAIN v \subseteq DOMAIN L /\ \A g \in DOMAIN v : v[g] \in 0..(2^L[g][2] - 1)

LEMMA WordField ==
  ASSUME NEW L, Fits(L), NEW v, InRange(L, v),
         NEW f \in DOMAIN L, NEW E, E \cap FieldBits(L, f) = {}, NEW w, w = Word(L, v) \cup E
  PROVE  (f \in DOMAIN v => Field(L, w, f) = v[f]) /\ (f \notin DOMAIN v => Field(L, w, f) = 0)
<1> USE DEF InRange
<1>1. \A g \in DOMAIN v : Shifted(v[g], L[g][1]) \subseteq FieldBits(L, g)
  BY DEF Fits
<1>2. \A g \in DOMAIN v \ {f} : Shifted(v[g], L[g][1]) \cap FieldBits(L, f) = {}
  BY <1>1 DEF Fits
<1>3. CASE f \in DOMAIN v
  <2>1. w \cap FieldBits(L, f) = Shifted(v[f], L[f][1]) \cap FieldBits(L, f)
    BY <1>2, <1>3 DEF Word
  <2>2. Field(L, w, f) = Field(L, Shifted(v[f], L[f][1]), f)
    BY <2>1 DEF Field, Value, FieldBits
  <2> QED
    BY <2>2, <1>3 DEF Fits
<1>4. CASE f \notin DOMAIN v
  <2>1. w \cap FieldBits(L, f) = {} \cap FieldBits(L, f)
    BY <1>2, <1>4 DEF Word
  <2>2. Field(L, w, f) = Field(L, {}, f)
    BY <2>1 DEF Field, Value, FieldBits
  <2> QED
    BY <2>2, <1>4 DEF Fits
<1> QED
  BY <1>3, <1>4

FieldIs(L, w, v, f) == f \in DOMAIN v => Field(L, w, f) = v[f]
LEMMA WordFieldIs ==
  ASSUME NEW L, Fits(L), NEW v, InRange(L, v),
         NEW f \in DOMAIN L, NEW E, E \cap FieldBits(L, f) = {}
  PROVE  FieldIs(L, Word(L, v) \cup E, v, f)
<1>1. PICK w : w = Word(L, v) \cup E
  OBVIOUS
<1>2. f \in DOMAIN v => Field(L, w, f) = v[f]
  BY <1>1, WordField
<1> QED
  BY <1>1, <1>2 DEF FieldIs

\* All fields of such a word to which nothing is added.
FieldsAre(L, w, v) ==
  \A f \in DOMAIN L : Field(L, w, f) = IF f \in DOMAIN v THEN v[f] ELSE 0
LEMMA WordFields ==
  ASSUME NEW L, Fits(L), NEW v, InRange(L, v)
  PROVE  FieldsAre(L, Word(L, v), v)
<1>1. PICK w, E : E = {} /\ w = Word(L, v)
  OBVIOUS
<1>2. ASSUME NEW f \in DOMAIN L PROVE Field(L, w, f) = IF f \in DOMAIN v THEN v[f] ELSE 0
  <2>1. E \cap FieldBits(L, f) = {} /\ w = Word(L, v) \cup E
    BY <1>1
  <2> QED
    BY <2>1, WordField
<1> QED
  BY <1>1, <1>2 DEF FieldsAre

\* Its other fields are left alone.
LEMMA WordBits ==
  ASSUME NEW L, Fits(L), NEW v, InRange(L, v), NEW f \in DOMAIN L \ DOMAIN v
  PROVE  Word(L, v) \cap FieldBits(L, f) = {}
<1> USE DEF InRange
<1>1. \A g \in DOMAIN v : Shifted(v[g], L[g][1]) \subseteq FieldBits(L, g)
  BY DEF Fits
<1>2. \A g \in DOMAIN v : Shifted(v[g], L[g][1]) \cap FieldBits(L, f) = {}
  BY <1>1 DEF Fits
<1> QED
  BY <1>2 DEF Word

LEMMA Smallest ==
  ASSUME NEW a \in Int, NEW b \in Int
  PROVE  /\ Min({a, b}) \in {a, b} /\ Min({a, b}) <= a /\ Min({a, b}) <= b
         /\ Max({a, b}) \in {a, b} /\ Max({a, b}) >= a /\ Max({a, b}) >= b
<1>1. \E x \in {a, b} : \A y \in {a, b} : x <= y
  OBVIOUS
<1>2. \E x \in {a, b} : \A y \in {a, b} : x >= y
  OBVIOUS
<1> QED
  BY <1>1, <1>2 DEF Min, Max

LEMMA Clamped ==
  ASSUME NEW v \in Int, NEW lo \in Int, NEW hi \in Int, lo <= hi
  PROVE  Clamp(v, lo, hi) \in lo..hi
<1>1. PICK m : m = Min({v, hi})
  OBVIOUS
<1>2. m \in Int /\ m <= hi
  BY <1>1, Smallest
<1>3. Clamp(v, lo, hi) = Max({lo, m})
  BY <1>1 DEF Clamp
<1>4. Max({lo, m}) \in {lo, m} /\ Max({lo, m}) >= lo
  BY <1>2, Smallest
<1> QED
  BY <1>2, <1>3, <1>4

LEMMA Quotient ==
  ASSUME NEW a \in Nat, NEW b \in Nat, b # 0
  PROVE  a \div b \in Nat
  OBVIOUS

\* The codes of the dividers.
LEMMA Dividers ==
  /\ \A n : n2FR(n) \in 0..9
  /\ \A k \in 1..10 : n2FR(Div_4740[k]) = k - 1
  /\ \A k \in 1..10 : Div_4740[k] \in 1..32
  /\ n2FR(1) = 0
<1>1. Div_4740[1] = 1 /\ Div_4740[2] = 2 /\ Div_4740[3] = 3 /\ Div_4740[4] = 4 /\ Div_4740[5] = 6
      /\ Div_4740[6] = 8 /\ Div_4740[7] = 12 /\ Div_4740[8] = 16 /\ Div_4740[9] = 24 /\ Div_4740[10] = 32
  BY DEF Div_4740
<1>2. \A j, k \in 1..10 : Div_4740[j] = Div_4740[k] => j = k
  BY <1>1
<1>3. \A n : n2FR(n) \in 0..9
  BY DEF n2FR
<1>4. ASSUME NEW k \in 1..10 PROVE n2FR(Div_4740[k]) = k - 1
  BY <1>2 DEF n2FR
<1>5. \A k \in 1..10 : Div_4740[k] \in 1..32
  BY <1>1
<1> QED
  BY <1>1, <1>3, <1>4, <1>5

\* Speeds in kHz, of the CPU and of what is divided from it.
Speeds == {s \in Nat : s <= 255000}

LEMMA Divided ==
  ASSUME NEW s \in Speeds, NEW k \in 1..10
  PROVE  s \div Div_4740[k] \in Speeds
<1>1. Div_4740[k] \in {1, 2, 3, 4, 6, 8, 12, 16, 24, 32}
  BY DEF Div_4740
<1> QED
  BY <1>1, SMT DEF Speeds

LEMMA AtLeastOnce ==
  ASSUME NEW a \in Nat, NEW b \in Nat, b # 0, b <= a
  PROVE  a \div b \in Nat /\ a \div b # 0
<1>1. PICK q : q = a \div b
  OBVIOUS
<1>2. q \in Int /\ a < b * (q + 1)
  BY <1>1, SMT
<1>3. q \in Nat
  BY <1>1, Quotient
<1>4. q # 0
  BY <1>2, <1>3, SMT
<1> QED
  BY <1>1, <1>3, <1>4

(* The memory of the JZ4740 ************************************************)

\* The clock control register of pll_init_4740 for the divider code fr.
Cpccr(fr) ==
  Word(CPCCR_4740, [CLKOEN |-> 1, CDIV |-> 0, HDIV |-> fr, PDIV |-> fr, MDIV |-> fr, LDIV |-> fr])
Cpccrs == {{}} \cup {Cpccr(fr) : fr \in 0..9}

LEMMA CpccrFields ==
  /\ Field(CPCCR_4740, {}, "CDIV") = 0 /\ Field(CPCCR_4740, {}, "MDIV") = 0
  /\ \A fr \in 0..9 : Field(CPCCR_4740, Cpccr(fr), "CDIV") = 0 /\ Field(CPCCR_4740, Cpccr(fr), "MDIV") = fr
<1>1. Field(CPCCR_4740, {}, "CDIV") = 0 /\ Field(CPCCR_4740, {}, "MDIV") = 0
  BY LayoutTable DEF Fits, CPCCR_4740
<1>2. ASSUME NEW fr \in 0..9
      PROVE  Field(CPCCR_4740, Cpccr(fr), "CDIV") = 0 /\ Field(CPCCR_4740, Cpccr(fr), "MDIV") = fr
  <2>1. PICK v : v = [CLKOEN |-> 1, CDIV |-> 0, HDIV |-> fr, PDIV |-> fr, MDIV |-> fr, LDIV |-> fr]
    OBVIOUS
  <2>2. DOMAIN v = {"CLKOEN", "CDIV", "HDIV", "PDIV", "MDIV", "LDIV"}
    BY <2>1
  <2>3. 2^1 = 2 /\ 2^4 = 16 /\ 2^5 = 32
    BY Powers
  <2>4. InRange(CPCCR_4740, v)
    <3>1. DOMAIN v \subseteq DOMAIN CPCCR_4740
      BY <2>2 DEF CPCCR_4740
    <3>2. ASSUME NEW g \in DOMAIN v PROVE v[g] \in 0..(2^CPCCR_4740[g][2] - 1)
      <4>1. CASE g = "CLKOEN"
        BY <4>1, <2>1, <2>3 DEF CPCCR_4740
      <4>2. CASE g = "CDIV"
        BY <4>2, <2>1, <2>3 DEF CPCCR_4740
      <4>3. CASE g = "HDIV"
        BY <4>3, <2>1, <2>3 DEF CPCCR_4740
      <4>4. CASE g = "PDIV"
        BY <4>4, <2>1, <2>3 DEF CPCCR_4740
      <4>5. CASE g = "MDIV"
        BY <4>5, <2>1, <2>3 DEF CPCCR_4740
      <4>6. CASE g = "LDIV"
        BY <4>6, <2>1, <2>3 DEF CPCCR_4740
      <4> QED
        BY <4>1, <4>2, <4>3, <4>4, <4>5, <4>6, <2>2
    <3> QED
      BY <3>1, <3>2 DEF InRange
  <2>5. PICK w, E : E = {} /\ w = Cpccr(fr)
    OBVIOUS
  <2>6. /\ "CDIV" \in DOMAIN CPCCR_4740 /\ "MDIV" \in DOMAIN CPCCR_4740 /\ Fits(CPCCR_4740)
        /\ w = Word(CPCCR_4740, v) \cup E
        /\ E \cap FieldBits(CPCCR_4740, "CDIV") = {} /\ E \cap FieldBits(CPCCR_4740, "MDIV") = {}
    BY <2>1, <2>5, LayoutTable DEF CPCCR_4740, Cpccr
  <2>7. Field(CPCCR_4740, Cpccr(fr), "CDIV") = v["CDIV"]
    BY <2>2, <2>4, <2>5, <2>6, WordField
  <2>8. Field(CPCCR_4740, Cpccr(fr), "MDIV") = v["MDIV"]
    BY <2>2, <2>4, <2>5, <2>6, WordField
  <2> QED
    BY <2>1, <2>7, <2>8
<1> QED
  BY <1>1, <1>2

\* The memory clock is the CPU's, divided, and not faster than it.
LEMMA MemoryClock ==
  ASSUME NEW r, r.CPCCR \in Cpccrs, NEW a, a.cpu_speed \in Speeds, mem_4740(r, a) # 0
  PROVE  ns_4740(r, a) \in Nat \ {0}
<1>1. PICK m \in 0..9 : Field(CPCCR_4740, r.CPCCR, "MDIV") = m /\ Field(CPCCR_4740, r.CPCCR, "CDIV") = 0
  BY CpccrFields DEF Cpccrs
<1>2. Div_4740[0 + 1] = 1 /\ m + 1 \in 1..10
  BY DEF Div_4740
<1>3. a.cpu_speed * 1 = a.cpu_speed
  BY DEF Speeds
<1>4. mem_4740(r, a) = a.cpu_speed \div Div_4740[m + 1]
  BY <1>1, <1>2, <1>3 DEF mem_4740
<1>5. mem_4740(r, a) \in Speeds
  BY <1>2, <1>4, Divided
<1>6. 1000000 \in Nat /\ mem_4740(r, a) \in Nat /\ mem_4740(r, a) <= 1000000
  BY <1>5, SMT DEF Speeds
<1> QED
  BY <1>6, AtLeastOnce, SMT DEF ns_4740

\* The timing part of DMCR leaves the geometry and the latency alone.
LEMMA Timing ==
  ASSUME NEW ns \in Nat \ {0}, NEW f \in {"RA", "CA", "BA", "BW", "TCL"}
  PROVE  dmcr_timing(ns) \cap FieldBits(DMCR, f) = {}
<1>1. PICK a \in Nat, b \in Nat, c \in Nat, d \in Nat, e \in Nat :
        /\ a = SDRAM_T.TRAS \div ns /\ b = SDRAM_T.RCD \div ns /\ c = SDRAM_T.TPC \div ns
        /\ d = SDRAM_T.TRWL \div ns /\ e = (SDRAM_T.TRAS + SDRAM_T.TPC) \div ns
  BY Quotient DEF SDRAM_T
<1>2. PICK tras \in 4..11 : tras = Clamp(a, 4, 11)
  <2>1. a \in Int /\ 4 \in Int /\ 11 \in Int /\ 4 <= 11
    OBVIOUS
  <2>2. Clamp(a, 4, 11) \in 4..11
    BY <2>1, Clamped
  <2> QED
    BY <2>2
<1>3. PICK rcd \in 0..3 : rcd = Min({b, 3})
  BY Smallest
<1>4. PICK tpc \in 0..7 : tpc = Min({c, 7})
  BY Smallest
<1>5. PICK trwl \in 0..3 : trwl = Min({d, 3})
  <2>1. Min({d, 3}) \in {d, 3} /\ Min({d, 3}) <= 3
    BY Smallest
  <2> QED
    BY <2>1
<1>6. PICK trc \in 0..14 : trc = Min({e, 14})
  <2>1. Min({e, 14}) \in {e, 14} /\ Min({e, 14}) <= 14
    BY Smallest
  <2> QED
    BY <2>1
<1>7. PICK v : v = [TRAS |-> tras - 4, RCD |-> rcd, TPC |-> tpc, TRWL |-> trwl, TRC |-> (trc + 1) \div 2]
  OBVIOUS
<1>8. dmcr_timing(ns) = Word(DMCR, v)
  BY <1>1, <1>2, <1>3, <1>4, <1>5, <1>6, <1>7 DEF dmcr_timing
<1>9. DOMAIN v = {"TRAS", "RCD", "TPC", "TRWL", "TRC"}
  BY <1>7
<1>10. 2^2 = 4 /\ 2^3 = 8
  BY Powers
<1>11. tras - 4 \in 0..7 /\ (trc + 1) \div 2 \in 0..7
  OBVIOUS
<1>12. InRange(DMCR, v)
  <2>1. DOMAIN v \subseteq DOMAIN DMCR
    BY <1>9 DEF DMCR
  <2>2. ASSUME NEW g \in DOMAIN v PROVE v[g] \in 0..(2^DMCR[g][2] - 1)
    <3>1. CASE g = "TRAS"
      BY <3>1, <1>7, <1>10, <1>11 DEF DMCR
    <3>2. CASE g = "RCD"
      BY <3>2, <1>7, <1>10 DEF DMCR
    <3>3. CASE g = "TPC"
      BY <3>3, <1>7, <1>10 DEF DMCR
    <3>4. CASE g = "TRWL"
      BY <3>4, <1>7, <1>10 DEF DMCR
    <3>5. CASE g = "TRC"
      BY <3>5, <1>7, <1>10, <1>11 DEF DMCR
    <3> QED
      BY <3>1, <3>2, <3>3, <3>4, <3>5, <1>9
  <2> QED
    BY <2>1, <2>2 DEF InRange
<1>13. f \in DOMAIN DMCR \ DOMAIN v
  BY <1>9 DEF DMCR
<1> QED
  BY <1>8, <1>12, <1>13, WordBits, LayoutTable

LEMMA Flags ==
  {23, 24} \subseteq Word(DMCR, [RFSH |-> 1, MRSET |-> 1])
<1>1. 1 \div 2^0 = 1 /\ 1 % 2 = 1
  BY Powers
<1>2. \A s \in 0..31 : s \in Shifted(1, s)
  BY <1>1 DEF Shifted
<1> QED
  BY <1>2 DEF Word, DMCR

\* The fields of DMCR after the mode was set.
SdramDmcr(row, col, bank, bw, ns) ==
  dmcr_basic(row, col, bank, bw) \cup dmcr_timing(ns) \cup Word(DMCR, [RFSH |-> 1, MRSET |-> 1])
GeometryIs(w, row, col, bank, bw) ==
  /\ Field(DMCR, w, "RA") = row - 11 /\ Field(DMCR, w, "CA") = col - 8
  /\ Field(DMCR, w, "BA") = bank /\ Field(DMCR, w, "BW") = bw /\ Field(DMCR, w, "TCL") = 2

LEMMA SdramWord ==
  ASSUME NEW row \in 11..13, NEW col \in 8..12, NEW bank \in 0..1, NEW bw \in 0..1,
         NEW ns \in Nat \ {0}, NEW w, w = SdramDmcr(row, col, bank, bw, ns)
  PROVE  GeometryIs(w, row, col, bank, bw)
<1>1. PICK v : v = [RA |-> row - 11, CA |-> col - 8, BA |-> bank, BW |-> bw, EPIN |-> 1, TCL |-> 2]
  OBVIOUS
<1>2. PICK flags : flags = [RFSH |-> 1, MRSET |-> 1]
  OBVIOUS
<1>3. PICK E : E = dmcr_timing(ns) \cup Word(DMCR, flags)
  OBVIOUS
<1>4. w = Word(DMCR, v) \cup E
  BY <1>1, <1>2, <1>3 DEF SdramDmcr, dmcr_basic, SDRAM_CASL
<1>5. 2^1 = 2 /\ 2^2 = 4 /\ 2^3 = 8
  BY Powers
<1>6. DOMAIN v = {"RA", "CA", "BA", "BW", "EPIN", "TCL"} /\ DOMAIN flags = {"RFSH", "MRSET"}
  BY <1>1, <1>2
<1>7. InRange(DMCR, v)
  <2>1. DOMAIN v \subseteq DOMAIN DMCR
    BY <1>6 DEF DMCR
  <2>2. ASSUME NEW g \in DOMAIN v PROVE v[g] \in 0..(2^DMCR[g][2] - 1)
    <3>1. CASE g = "RA"
      BY <3>1, <1>1, <1>5 DEF DMCR
    <3>2. CASE g = "CA"
      BY <3>2, <1>1, <1>5 DEF DMCR
    <3>3. CASE g = "BA"
      BY <3>3, <1>1, <1>5 DEF DMCR
    <3>4. CASE g = "BW"
      BY <3>4, <1>1, <1>5 DEF DMCR
    <3>5. CASE g = "EPIN"
      BY <3>5, <1>1, <1>5 DEF DMCR
    <3>6. CASE g = "TCL"
      BY <3>6, <1>1, <1>5 DEF DMCR
    <3> QED
      BY <3>1, <3>2, <3>3, <3>4, <3>5, <3>6, <1>6
  <2> QED
    BY <2>1, <2>2 DEF InRange
<1>8. InRange(DMCR, flags)
  <2>1. DOMAIN flags \subseteq DOMAIN DMCR
    BY <1>6 DEF DMCR
  <2>2. ASSUME NEW g \in DOMAIN flags PROVE flags[g] \in 0..(2^DMCR[g][2] - 1)
    <3>1. CASE g = "RFSH"
      BY <3>1, <1>2, <1>5 DEF DMCR
    <3>2. CASE g = "MRSET"
      BY <3>2, <1>2, <1>5 DEF DMCR
    <3> QED
      BY <3>1, <3>2, <1>6
  <2> QED
    BY <2>1, <2>2 DEF InRange
<1>9. ASSUME NEW f \in {"RA", "CA", "BA", "BW", "TCL"} PROVE Field(DMCR, w, f) = v[f]
  <2>1. f \in DOMAIN DMCR \ DOMAIN flags /\ f \in DOMAIN v /\ f \in DOMAIN DMCR /\ Fits(DMCR)
    BY <1>6, LayoutTable DEF DMCR
  <2>2. Word(DMCR, flags) \cap FieldBits(DMCR, f) = {}
    BY <2>1, <1>8, WordBits
  <2>3. E \cap FieldBits(DMCR, f) = {}
    BY <2>2, <1>3, Timing
  <2>4. f \in DOMAIN v => Field(DMCR, w, f) = v[f]
    <3>1. FieldIs(DMCR, Word(DMCR, v) \cup E, v, f)
      BY <2>1, <2>3, <1>7, WordFieldIs
    <3> QED
      BY <3>1, <1>4 DEF FieldIs
  <2> QED
    BY <2>1, <2>4
<1> QED
  BY <1>1, <1>9 DEF GeometryIs

\* The size such a DMCR addresses is the one the host computed.
Kilobytes(row, col, bank, bw) == 2^(row + col - 10) * 2 * (bank + 1) * 2 * (2 - bw)

LEMMA AddressedSize ==
  ASSUME NEW row \in 11..13, NEW col \in 8..12, NEW bank \in 0..1, NEW bw \in 0..1, NEW w,
         GeometryIs(w, row, col, bank, bw)
  PROVE  SdramSize(w) \div 1024 = Kilobytes(row, col, bank, bw)
<1>0. /\ Field(DMCR, w, "RA") = row - 11 /\ Field(DMCR, w, "CA") = col - 8
      /\ Field(DMCR, w, "BA") = bank /\ Field(DMCR, w, "BW") = bw
  BY DEF GeometryIs
<1> USE DEF Kilobytes
<1>1. PICK n \in 19..25 : n = row + col
  OBVIOUS
<1>2. 11 + (row - 11) + 8 + (col - 8) = n
  BY <1>1
<1>3. PICK p \in Nat : p = 2^(n - 10) /\ 2^n = 1024 * p
  <2>1. KiloTimes(n)
    BY Powers
  <2> QED
    BY <2>1 DEF KiloTimes
<1>4. SdramSize(w) = (1024 * p) * (IF bank = 1 THEN 4 ELSE 2) * (IF bw = 1 THEN 2 ELSE 4)
  <2>1. SdramSize(w) = 2^(11 + (row - 11) + 8 + (col - 8)) * (IF bank = 1 THEN 4 ELSE 2) * (IF bw = 1 THEN 2 ELSE 4)
    BY <1>0, Zenon DEF SdramSize
  <2>2. 2^(11 + (row - 11) + 8 + (col - 8)) = (1024 * p)
    BY <1>2, <1>3
  <2> QED
    BY <2>1, <2>2
<1>5. CASE bank = 1 /\ bw = 1
  BY <1>1, <1>3, <1>4, <1>5
<1>6. CASE bank = 1 /\ bw = 0
  BY <1>1, <1>3, <1>4, <1>6
<1>7. CASE bank = 0 /\ bw = 1
  BY <1>1, <1>3, <1>4, <1>7
<1>8. CASE bank = 0 /\ bw = 0
  BY <1>1, <1>3, <1>4, <1>8
<1> QED
  BY <1>5, <1>6, <1>7, <1>8

\* What a documented configuration that is accepted becomes.
LEMMA DocumentedArgs ==
  ASSUME NEW c, Accepted(c), Documented(c)
  PROVE  /\ load_args(fw_args(c)).row = c["ROWADDR"] /\ load_args(fw_args(c)).col = c["COLADDR"]
         /\ load_args(fw_args(c)).bank4 = fw_args(c).bank_num /\ fw_args(c).bank_num \in 0..1
         /\ load_args(fw_args(c)).bw16 = fw_args(c).bus_width /\ fw_args(c).bus_width \in 0..1
         /\ fw_args(c).row_addr = c["ROWADDR"] /\ fw_args(c).col_addr = c["COLADDR"]
<1>1. fw_args(c).row_addr = c["ROWADDR"] /\ fw_args(c).col_addr = c["COLADDR"]
  BY DEF Documented, fw_args, u8
<1>2. fw_args(c).bank_num \in 0..1
  BY DEF Documented, fw_args, u8
<1>3. fw_args(c).bus_width \in 0..1
  BY DEF fw_args
<1> QED
  BY <1>1, <1>2, <1>3 DEF load_args

LEMMA SpeedFits ==
  ASSUME NEW c, Accepted(c)
  PROVE  load_args(fw_args(c)).cpu_speed \in Speeds
<1>1. PICK h : h = fw_args(c)
  OBVIOUS
<1>2. h.ext_clk \in 12..27 /\ c["CPUSPEED"] \in Nat
  BY <1>1 DEF Accepted, check_dump_cfg, Items
<1>3. PICK v \in 0..255 : v = u8(c["CPUSPEED"])
  BY <1>2 DEF u8
<1>4. h.cpu_speed = v \div h.ext_clk
  BY <1>1, <1>3 DEF fw_args
<1>5. h.cpu_speed \in Nat /\ h.cpu_speed * h.ext_clk <= 255
  BY <1>2, <1>4, SMT
<1>6. h.cpu_speed * h.ext_clk * 1000 \in Speeds /\ 192000 \in Speeds
  BY <1>2, <1>5, SMT DEF Speeds
<1> QED
  BY <1>1, <1>6, SMT DEF load_args

\* The clocks are what was asked for, when the chip can do it.
LEMMA ClocksOf ==
  ASSUME NEW c, Accepted(c), Documented(c), Expressible(c), NEW a, a = load_args(fw_args(c)),
         a.cpu_speed # 0, NEW CPCCR, NEW CPPCR,
         CPCCR = Cpccr(n2FR(a.phm_div)),
         CPPCR = Word(CPPCR_4740, [PLLM |-> (a.cpu_speed * 2) \div a.extal - 2, PLLN |-> 0, PLLOD |-> 0,
                                   PLLST |-> 32, PLLEN |-> 1])
  PROVE  /\ pllout_4740(CPPCR, c["EXTCLK"] * 1000) = c["CPUSPEED"] * 1000
         /\ mclk_4740(CPCCR, CPPCR, c["EXTCLK"] * 1000) * c["PHMDIV"] = c["CPUSPEED"] * 1000
<1>1. PICK h : h = fw_args(c)
  OBVIOUS
<1>2. PICK ext, speed, phm : ext = c["EXTCLK"] /\ speed = c["CPUSPEED"] /\ phm = c["PHMDIV"]
  OBVIOUS
<1>3. /\ ext \in 0..255 /\ speed \in 0..255 /\ phm \in Nat /\ ext # 19
      /\ speed % ext = 0 /\ speed % 12 = 0
  <2>1. c \in [Items -> Nat]
    BY DEF Accepted
  <2>2. ext \in Nat /\ speed \in Nat /\ phm \in Nat
    BY <1>2, <2>1 DEF Items
  <2>3. speed < 256 /\ ext < 256 /\ ext # 19
    BY <1>2 DEF Expressible
  <2>4. speed % ext = 0 /\ speed % 12 = 0
    BY <1>2 DEF Documented
  <2> QED
    BY <2>2, <2>3, <2>4
<1>4. /\ h.ext_clk = ext /\ h.ext_clk \in 12..27 /\ h.cpu_speed = speed \div ext
      /\ h.phm_div = u8(phm)
  <2>1. u8(ext) = ext /\ u8(speed) = speed
    BY <1>3 DEF u8
  <2>2. h.ext_clk \in 12..27
    BY <1>1 DEF Accepted, check_dump_cfg
  <2>3. h.ext_clk = u8(ext) /\ h.cpu_speed = u8(speed) \div u8(ext) /\ h.phm_div = u8(phm)
    BY <1>1, <1>2 DEF fw_args
  <2> QED
    BY <2>1, <2>2, <2>3
<1>5. PICK k \in 1..10 : phm = Div_4740[k]
  BY <1>2 DEF Expressible
<1>6. phm \in 1..32 /\ h.phm_div = phm
  BY <1>4, <1>5, Dividers DEF u8
<1>7. PICK s \in Nat : s = h.cpu_speed
  BY <1>3, <1>4, Quotient
<1>8. speed = s * ext
  BY <1>3, <1>4, <1>7, SMT
<1>9. a.extal = ext * 1000 /\ a.cpu_speed = s * ext * 1000 /\ a.phm_div = phm
  BY <1>1, <1>3, <1>4, <1>6, <1>7, SMT DEF load_args
<1>10. s \in 1..21
  <2>1. s # 0
    BY <1>3, <1>9
  <2> QED
    BY <2>1, <1>3, <1>4, <1>8, SMT
<1>11. (a.cpu_speed * 2) \div a.extal = 2 * s
  <2>1. PICK e : e = ext * 1000
    OBVIOUS
  <2>2. e \in Nat /\ e # 0 /\ a.cpu_speed * 2 = (2 * s) * e
    BY <1>4, <1>9, <1>10, <2>1, SMT
  <2>3. ((2 * s) * e) \div e = 2 * s
    BY <1>10, <2>2, SMT
  <2> QED
    BY <1>9, <2>1, <2>2, <2>3
<1>12. Field(CPPCR_4740, CPPCR, "PLLM") = 2 * s - 2 /\ Field(CPPCR_4740, CPPCR, "PLLN") = 0
       /\ Field(CPPCR_4740, CPPCR, "PLLOD") = 0 /\ Field(CPPCR_4740, CPPCR, "PLLEN") = 1
       /\ Field(CPPCR_4740, CPPCR, "PLLBP") = 0
  <2>1. PICK v : v = [PLLM |-> 2 * s - 2, PLLN |-> 0, PLLOD |-> 0, PLLST |-> 32, PLLEN |-> 1]
    OBVIOUS
  <2>2. DOMAIN v = {"PLLM", "PLLN", "PLLOD", "PLLST", "PLLEN"}
    BY <2>1
  <2>3. 2^1 = 2 /\ 2^2 = 4 /\ 2^5 = 32 /\ 2^8 = 256 /\ 2^9 = 512
    BY Powers
  <2>4. InRange(CPPCR_4740, v)
    <3>1. DOMAIN v \subseteq DOMAIN CPPCR_4740
      BY <2>2 DEF CPPCR_4740
    <3>2. ASSUME NEW g \in DOMAIN v PROVE v[g] \in 0..(2^CPPCR_4740[g][2] - 1)
      <4>1. CASE g = "PLLM"
        BY <4>1, <1>10, <2>1, <2>3 DEF CPPCR_4740
      <4>2. CASE g = "PLLN"
        BY <4>2, <2>1, <2>3 DEF CPPCR_4740
      <4>3. CASE g = "PLLOD"
        BY <4>3, <2>1, <2>3 DEF CPPCR_4740
      <4>4. CASE g = "PLLST"
        BY <4>4, <2>1, <2>3 DEF CPPCR_4740
      <4>5. CASE g = "PLLEN"
        BY <4>5, <2>1, <2>3 DEF CPPCR_4740
      <4> QED
        BY <4>1, <4>2, <4>3, <4>4, <4>5, <2>2
    <3> QED
      BY <3>1, <3>2 DEF InRange
  <2>5. CPPCR = Word(CPPCR_4740, v) /\ Fits(CPPCR_4740)
    BY <1>11, <2>1, LayoutTable
  <2>6. FieldsAre(CPPCR_4740, CPPCR, v)
    BY <2>4, <2>5, WordFields
  <2>8. {"PLLM", "PLLN", "PLLOD", "PLLEN", "PLLBP"} \subseteq DOMAIN CPPCR_4740
    BY DEF CPPCR_4740
  <2> QED
    BY <2>1, <2>2, <2>6, <2>8 DEF FieldsAre
<1>13. pllout_4740(CPPCR, ext * 1000) = speed * 1000
  <2>1. PICK e \in Nat : e = ext * 500
    BY <1>3, SMT
  <2>2. (ext * 1000) \div ((0 + 2) * 1) = e
    BY <1>3, <2>1, SMT
  <2>3. <<1, 2, 2, 4>>[0 + 1] = 1
    OBVIOUS
  <2>4. pllout_4740(CPPCR, ext * 1000) = e * ((2 * s - 2) + 2)
    BY <1>12, <2>2, <2>3 DEF pllout_4740
  <2> QED
    BY <1>3, <1>8, <1>10, <2>1, <2>4, SMT
<1>14. mclk_4740(CPCCR, CPPCR, ext * 1000) = (speed * 1000) \div phm
  <2>1. n2FR(a.phm_div) = k - 1 /\ k - 1 \in 0..9
    BY <1>5, <1>9, Dividers
  <2>2. Field(CPCCR_4740, CPCCR, "MDIV") = k - 1
    BY <2>1, CpccrFields
  <2>3. k - 1 + 1 = k
    OBVIOUS
  <2> QED
    BY <1>5, <1>13, <2>2, <2>3 DEF mclk_4740
<1>15. ((speed * 1000) \div phm) * phm = speed * 1000
  <2>1. PICK t \in 0..21 : speed = 12 * t
    BY <1>3
  <2>2. phm \in {1, 2, 3, 4, 6, 8, 12, 16, 24, 32}
    BY <1>5 DEF Div_4740
  <2> QED
    BY <2>1, <2>2, SMT
<1> QED
  BY <1>2, <1>13, <1>14, <1>15

(* The memory of the JZ4760 ************************************************)

\* The clocks after a reset and after pll_init_4760.
Clocks4760 == {<<{}, {}>>, <<cfcr_4760, plcr1_4760>>}

LEMMA Cfcr4760 ==
  cfcr_4760 = Word(CPCCR_4760, [PCS |-> 1, CDIV |-> 0, HDIV |-> 1, H2DIV |-> 3, PDIV |-> 3, MDIV |-> 3,
                                SDIV |-> 3, MEM |-> 1, CE |-> 1, ECS |-> 0])
<1>1. Div_4740[1] = 1 /\ Div_4740[2] = 2 /\ Div_4740[4] = 4 /\ 1 \in 1..10 /\ 2 \in 1..10 /\ 4 \in 1..10
  BY DEF Div_4740
<1>2. n2FR(1) = 0 /\ n2FR(2) = 1 /\ n2FR(4) = 3
  <2>1. n2FR(Div_4740[2]) = 2 - 1
    BY <1>1, Dividers
  <2>2. n2FR(Div_4740[4]) = 4 - 1
    BY <1>1, Dividers
  <2> QED
    BY <1>1, <2>1, <2>2, Dividers
<1>3. (IF EXTAL_4760 > 16000 THEN 1 ELSE 0) = 0
  BY SMT DEF EXTAL_4760
<1> QED
  BY <1>2, <1>3 DEF cfcr_4760

LEMMA MemoryClock4760 ==
  ASSUME NEW CPCCR, NEW CPPCR, <<CPCCR, CPPCR>> \in Clocks4760
  PROVE  mclk_4760(CPCCR, CPPCR) \in {12000, 36000}
<1>1. CASE CPCCR = {} /\ CPPCR = {}
  <2>1. Field(CPPCR_4760, {}, "PLLEN") = 0
    BY LayoutTable4760 DEF Fits, CPPCR_4760
  <2>2. Field(CPCCR_4760, {}, "MDIV") = 0
    BY LayoutTable4760 DEF Fits, CPCCR_4760
  <2>3. pllout_4760(CPPCR) = 12000
    BY <1>1, <2>1, SMT DEF pllout_4760, EXTAL_4760
  <2>4. Div_4760[0 + 1] = 1
    BY DEF Div_4760
  <2>5. mclk_4760(CPCCR, CPPCR) = 12000 \div 1
    BY <1>1, <2>2, <2>3, <2>4, SMT DEF mclk_4760
  <2> QED
    BY <2>5, SMT
<1>2. CASE CPCCR = cfcr_4760 /\ CPPCR = plcr1_4760
  <2>1. PICK v : v = [PCS |-> 1, CDIV |-> 0, HDIV |-> 1, H2DIV |-> 3, PDIV |-> 3, MDIV |-> 3, SDIV |-> 3,
                      MEM |-> 1, CE |-> 1, ECS |-> 0]
    OBVIOUS
  <2>2. DOMAIN v = {"PCS", "CDIV", "HDIV", "H2DIV", "PDIV", "MDIV", "SDIV", "MEM", "CE", "ECS"}
    BY <2>1
  <2>3. 2^1 = 2 /\ 2^4 = 16
    BY Powers
  <2>4. InRange(CPCCR_4760, v)
    <3>1. DOMAIN v \subseteq DOMAIN CPCCR_4760
      BY <2>2 DEF CPCCR_4760
    <3>2. ASSUME NEW g \in DOMAIN v PROVE v[g] \in 0..(2^CPCCR_4760[g][2] - 1)
      <4>1. CASE g = "PCS"
        BY <4>1, <2>1, <2>3 DEF CPCCR_4760
      <4>2. CASE g = "CDIV"
        BY <4>2, <2>1, <2>3 DEF CPCCR_4760
      <4>3. CASE g = "HDIV"
        BY <4>3, <2>1, <2>3 DEF CPCCR_4760
      <4>4. CASE g = "H2DIV"
        BY <4>4, <2>1, <2>3 DEF CPCCR_4760
      <4>5. CASE g = "PDIV"
        BY <4>5, <2>1, <2>3 DEF CPCCR_4760
      <4>6. CASE g = "MDIV"
        BY <4>6, <2>1, <2>3 DEF CPCCR_4760
      <4>7. CASE g = "SDIV"
        BY <4>7, <2>1, <2>3 DEF CPCCR_4760
      <4>8. CASE g = "MEM"
        BY <4>8, <2>1, <2>3 DEF CPCCR_4760
      <4>9. CASE g = "CE"
        BY <4>9, <2>1, <2>3 DEF CPCCR_4760
      <4>10. CASE g = "ECS"
        BY <4>10, <2>1, <2>3 DEF CPCCR_4760
      <4> QED
        BY <4>1, <4>2, <4>3, <4>4, <4>5, <4>6, <4>7, <4>8, <4>9, <4>10, <2>2
    <3> QED
      BY <3>1, <3>2 DEF InRange
  <2>5. FieldsAre(CPCCR_4760, CPCCR, v)
    BY <1>2, <2>1, <2>4, WordFields, LayoutTable4760, Cfcr4760
  <2>6. "MDIV" \in DOMAIN CPCCR_4760
    BY DEF CPCCR_4760
  <2>7. Field(CPCCR_4760, CPCCR, "MDIV") = 3
    BY <2>1, <2>2, <2>5, <2>6 DEF FieldsAre
  <2>8. pllout_4760(CPPCR) = 144000
    BY <1>2, PllTable, SMT DEF CPU_SPEED_4760
  <2>9. Div_4760[3 + 1] = 4
    BY DEF Div_4760
  <2>10. mclk_4760(CPCCR, CPPCR) = 144000 \div 4
    BY <2>7, <2>8, <2>9, SMT DEF mclk_4760
  <2> QED
    BY <2>10, SMT
<1> QED
  BY <1>1, <1>2 DEF Clocks4760

\* The write recovery in the timing register fits whatever the clock is.
LEMMA WriteRecovery ==
  ASSUME NEW ns \in Nat \ {0}
  PROVE  Field(DDRC_TIMING1, ddrc_timing1(ns), "TWR") \in 0..7
<1>1. \A t \in Nat \ {0} : Clocks(t, ns) \in Nat \ {0}
  <2> SUFFICES ASSUME NEW t \in Nat \ {0} PROVE Clocks(t, ns) \in Nat \ {0}
    OBVIOUS
  <2>1. t + ns - 1 \in Nat /\ ns <= t + ns - 1
    OBVIOUS
  <2> QED
    BY <2>1, AtLeastOnce DEF Clocks
<1>2. PICK ras \in 1..31, rtp \in 1..4, rp \in 1..8, rcd \in 1..8, rc \in 3..31, rrd \in 2..4, wr \in 2..6 :
        /\ ras = Clamp(Clocks(DDR_t.RAS, ns), 1, 31) /\ rtp = Clamp(Clocks(DDR_t.RTP, ns), 1, 4)
        /\ rp = Clamp(Clocks(DDR_t.RP, ns), 1, 8) /\ rcd = Clamp(Clocks(DDR_t.RCD, ns), 1, 8)
        /\ rc = Clamp(Clocks(DDR_t.RC, ns), 3, 31) /\ rrd = Clamp(Clocks(DDR_t.RRD, ns), 2, 4)
        /\ wr = Clamp(Clocks(DDR_t.WR, ns), 2, 6)
  <2>1. /\ Clocks(DDR_t.RAS, ns) \in Nat /\ Clocks(DDR_t.RTP, ns) \in Nat /\ Clocks(DDR_t.RP, ns) \in Nat
        /\ Clocks(DDR_t.RCD, ns) \in Nat /\ Clocks(DDR_t.RC, ns) \in Nat /\ Clocks(DDR_t.RRD, ns) \in Nat
        /\ Clocks(DDR_t.WR, ns) \in Nat
    BY <1>1 DEF DDR_t
  <2>2. \A v \in Nat : /\ Clamp(v, 1, 31) \in 1..31 /\ Clamp(v, 1, 4) \in 1..4 /\ Clamp(v, 1, 8) \in 1..8
                       /\ Clamp(v, 3, 31) \in 3..31 /\ Clamp(v, 2, 4) \in 2..4 /\ Clamp(v, 2, 6) \in 2..6
    <3> TAKE v \in Nat
    <3>1. /\ v \in Int /\ 1 \in Int /\ 2 \in Int /\ 3 \in Int /\ 4 \in Int /\ 6 \in Int /\ 8 \in Int
          /\ 31 \in Int /\ 1 <= 31 /\ 1 <= 4 /\ 1 <= 8 /\ 3 <= 31 /\ 2 <= 4 /\ 2 <= 6
      OBVIOUS
    <3>2. Clamp(v, 1, 31) \in 1..31
      BY <3>1, Clamped
    <3>3. Clamp(v, 1, 4) \in 1..4
      BY <3>1, Clamped
    <3>4. Clamp(v, 1, 8) \in 1..8
      BY <3>1, Clamped
    <3>5. Clamp(v, 3, 31) \in 3..31
      BY <3>1, Clamped
    <3>6. Clamp(v, 2, 4) \in 2..4
      BY <3>1, Clamped
    <3>7. Clamp(v, 2, 6) \in 2..6
      BY <3>1, Clamped
    <3> QED
      BY <3>2, <3>3, <3>4, <3>5, <3>6, <3>7
  <2> QED
    BY <2>1, <2>2
<1>3. PICK wtr \in 1..4 : wtr = Min({Clocks(DDR_t.WTR, ns), 4})
  <2>1. PICK t \in Nat \ {0} : t = Clocks(DDR_t.WTR, ns)
    BY <1>1 DEF DDR_t
  <2>2. Min({t, 4}) \in {t, 4} /\ Min({t, 4}) <= 4
    BY Smallest
  <2> QED
    BY <2>1, <2>2
<1>4. PICK late \in 1..4 : late = Clamp(DDR_t.WTR \div ns, 1, 4)
  <2>1. PICK t \in Nat : t = DDR_t.WTR \div ns
    BY Quotient DEF DDR_t
  <2>2. t \in Int /\ 1 \in Int /\ 4 \in Int /\ 1 <= 4
    OBVIOUS
  <2>3. Clamp(t, 1, 4) \in 1..4
    BY <2>2, Clamped
  <2> QED
    BY <2>1, <2>3
<1>5. PICK v : v = [TRAS |-> ras \div 2, TRTP |-> rtp - 1, TRP |-> rp - 1, TRCD |-> rcd - 1,
                    TRC |-> rc \div 2, TRRD |-> rrd - 1, TWR |-> wr - 1, TWTR |-> wtr - 1]
  OBVIOUS
<1>6. PICK u : u = [TWTR |-> late - 1]
  OBVIOUS
<1>7. ddrc_timing1(ns) = Word(DDRC_TIMING1, v) \cup Word(DDRC_TIMING1, u)
  BY <1>2, <1>3, <1>4, <1>5, <1>6 DEF ddrc_timing1
<1>8. /\ DOMAIN v = {"TRAS", "TRTP", "TRP", "TRCD", "TRC", "TRRD", "TWR", "TWTR"}
      /\ DOMAIN u = {"TWTR"}
  BY <1>5, <1>6
<1>9. 2^2 = 4 /\ 2^3 = 8 /\ 2^4 = 16
  BY Powers
<1>10. ras \div 2 \in 0..15 /\ rc \div 2 \in 0..15
  OBVIOUS
<1>11. InRange(DDRC_TIMING1, v)
  <2>1. DOMAIN v \subseteq DOMAIN DDRC_TIMING1
    BY <1>8 DEF DDRC_TIMING1
  <2>2. ASSUME NEW g \in DOMAIN v PROVE v[g] \in 0..(2^DDRC_TIMING1[g][2] - 1)
    <3>1. CASE g = "TRAS"
      BY <3>1, <1>5, <1>9, <1>10 DEF DDRC_TIMING1
    <3>2. CASE g = "TRTP"
      BY <3>2, <1>5, <1>9 DEF DDRC_TIMING1
    <3>3. CASE g = "TRP"
      BY <3>3, <1>5, <1>9 DEF DDRC_TIMING1
    <3>4. CASE g = "TRCD"
      BY <3>4, <1>5, <1>9 DEF DDRC_TIMING1
    <3>5. CASE g = "TRC"
      BY <3>5, <1>5, <1>9, <1>10 DEF DDRC_TIMING1
    <3>6. CASE g = "TRRD"
      BY <3>6, <1>5, <1>9 DEF DDRC_TIMING1
    <3>7. CASE g = "TWR"
      BY <3>7, <1>5, <1>9 DEF DDRC_TIMING1
    <3>8. CASE g = "TWTR"
      BY <3>8, <1>5, <1>9 DEF DDRC_TIMING1
    <3> QED
      BY <3>1, <3>2, <3>3, <3>4, <3>5, <3>6, <3>7, <3>8, <1>8
  <2> QED
    BY <2>1, <2>2 DEF InRange
<1>12. InRange(DDRC_TIMING1, u)
  <2>1. DOMAIN u \subseteq DOMAIN DDRC_TIMING1
    BY <1>8 DEF DDRC_TIMING1
  <2>2. ASSUME NEW g \in DOMAIN u PROVE u[g] \in 0..(2^DDRC_TIMING1[g][2] - 1)
    <3>1. CASE g = "TWTR"
      BY <3>1, <1>6, <1>9 DEF DDRC_TIMING1
    <3> QED
      BY <3>1, <1>8
  <2> QED
    BY <2>1, <2>2 DEF InRange
<1>13. "TWR" \in DOMAIN DDRC_TIMING1 \ DOMAIN u /\ "TWR" \in DOMAIN v /\ Fits(DDRC_TIMING1)
  BY <1>8, LayoutTable4760 DEF DDRC_TIMING1
<1>14. Word(DDRC_TIMING1, u) \cap FieldBits(DDRC_TIMING1, "TWR") = {}
  BY <1>12, <1>13, WordBits
<1>15. PICK E, w : E = Word(DDRC_TIMING1, u) /\ w = ddrc_timing1(ns)
  OBVIOUS
<1>16. Field(DDRC_TIMING1, w, "TWR") = v["TWR"]
  <2>1. w = Word(DDRC_TIMING1, v) \cup E /\ E \cap FieldBits(DDRC_TIMING1, "TWR") = {}
    BY <1>7, <1>14, <1>15
  <2> QED
    BY <2>1, <1>11, <1>13, WordField
<1> QED
  BY <1>5, <1>15, <1>16

\* What ddr_mem_init tells the controller, and what ddr_map makes of it.
LEMMA DdrCfg ==
  /\ Field(DDRC_CFG, ddrc_cfg, "ROW") = 1 /\ Field(DDRC_CFG, ddrc_cfg, "COL") = 2
  /\ Field(DDRC_CFG, ddrc_cfg, "DW") = 1 /\ Field(DDRC_CFG, ddrc_cfg, "BA") = 1
  /\ Field(DDRC_CFG, ddrc_cfg, "CL") = 10
<1>1. PICK v : v = [TYPE |-> 4, ROW |-> 1, COL |-> 2, CS1EN |-> 0, CS0EN |-> 1, CL |-> 10, BA |-> 1,
                    DW |-> 1, MPRT |-> 1]
  OBVIOUS
<1>2. ddrc_cfg = Word(DDRC_CFG, v)
  <2>1. DDR.ROW - 12 = 1 /\ DDR.COL - 8 = 2 /\ DDR.CS1EN = 0 /\ DDR.CS0EN = 1 /\ (DDR.CL - 1) + 8 = 10
        /\ DDR.BANK8 = 1 /\ DDR.DW32 = 1
    BY DEF DDR
  <2> QED
    BY <1>1, <2>1 DEF ddrc_cfg
<1>3. DOMAIN v = {"TYPE", "ROW", "COL", "CS1EN", "CS0EN", "CL", "BA", "DW", "MPRT"}
  BY <1>1
<1>4. 2^1 = 2 /\ 2^2 = 4 /\ 2^3 = 8 /\ 2^4 = 16
  BY Powers
<1>5. InRange(DDRC_CFG, v)
  <2>1. DOMAIN v \subseteq DOMAIN DDRC_CFG
    BY <1>3 DEF DDRC_CFG
  <2>2. ASSUME NEW g \in DOMAIN v PROVE v[g] \in 0..(2^DDRC_CFG[g][2] - 1)
    <3>1. CASE g = "TYPE"
      BY <3>1, <1>1, <1>4 DEF DDRC_CFG
    <3>2. CASE g = "ROW"
      BY <3>2, <1>1, <1>4 DEF DDRC_CFG
    <3>3. CASE g = "COL"
      BY <3>3, <1>1, <1>4 DEF DDRC_CFG
    <3>4. CASE g = "CS1EN"
      BY <3>4, <1>1, <1>4 DEF DDRC_CFG
    <3>5. CASE g = "CS0EN"
      BY <3>5, <1>1, <1>4 DEF DDRC_CFG
    <3>6. CASE g = "CL"
      BY <3>6, <1>1, <1>4 DEF DDRC_CFG
    <3>7. CASE g = "BA"
      BY <3>7, <1>1, <1>4 DEF DDRC_CFG
    <3>8. CASE g = "DW"
      BY <3>8, <1>1, <1>4 DEF DDRC_CFG
    <3>9. CASE g = "MPRT"
      BY <3>9, <1>1, <1>4 DEF DDRC_CFG
    <3> QED
      BY <3>1, <3>2, <3>3, <3>4, <3>5, <3>6, <3>7, <3>8, <3>9, <1>3
  <2> QED
    BY <2>1, <2>2 DEF InRange
<1>6. FieldsAre(DDRC_CFG, ddrc_cfg, v)
  BY <1>2, <1>5, WordFields, LayoutTable4760
<1>7. {"ROW", "COL", "DW", "BA", "CL"} \subseteq DOMAIN DDRC_CFG
  BY DEF DDRC_CFG
<1> QED
  BY <1>1, <1>3, <1>6, <1>7 DEF FieldsAre

LEMMA DdrBases ==
  /\ Field(DDRC_MMAP, ddrc_mmap(ddrc_cfg, 0), "BASE") = 32
  /\ Field(DDRC_MMAP, ddrc_mmap(ddrc_cfg, 1), "BASE") = 48
<1>1. 2^3 = 8 /\ 2^8 = 256
  BY Powers
<1>2. DDR.CS1EN = 0 /\ DDR.CS0EN = 1
  BY DEF DDR
<1>3. initdram(ddrc_cfg) = 16
  <2>1. 12 + Field(DDRC_CFG, ddrc_cfg, "ROW") + 8 + Field(DDRC_CFG, ddrc_cfg, "COL") - 20 = 3
    BY DdrCfg
  <2>2. initdram(ddrc_cfg) = (2^3 * 4 * 8 * (0 + 1)) \div 16
    BY <1>2, <2>1, DdrCfg DEF initdram
  <2> QED
    BY <1>1, <2>2
<1>4. initdram(ddrc_cfg) \div (DDR.CS1EN + DDR.CS0EN) = 16
  BY <1>2, <1>3
<1>5. ASSUME NEW cs \in 0..1 PROVE Field(DDRC_MMAP, ddrc_mmap(ddrc_cfg, cs), "BASE") = 32 + cs * 16
  <2>1. PICK v : v = [BASE |-> 32 + cs * 16]
    OBVIOUS
  <2>2. PICK E, w : E = 0..7 \ Shifted(15, 0) /\ w = ddrc_mmap(ddrc_cfg, cs)
    OBVIOUS
  <2>3. w = Word(DDRC_MMAP, v) \cup E
    BY <1>4, <2>1, <2>2 DEF ddrc_mmap, DDR_MEM_PHY_BASE
  <2>4. DOMAIN v = {"BASE"}
    BY <2>1
  <2>5. InRange(DDRC_MMAP, v)
    <3>1. DOMAIN v \subseteq DOMAIN DDRC_MMAP
      BY <2>4 DEF DDRC_MMAP
    <3>2. ASSUME NEW g \in DOMAIN v PROVE v[g] \in 0..(2^DDRC_MMAP[g][2] - 1)
      <4>1. CASE g = "BASE"
        BY <4>1, <2>1, <1>1 DEF DDRC_MMAP
      <4> QED
        BY <4>1, <2>4
    <3> QED
      BY <3>1, <3>2 DEF InRange
  <2>6. E \cap FieldBits(DDRC_MMAP, "BASE") = {}
    BY <2>2 DEF FieldBits, DDRC_MMAP
  <2>7. "BASE" \in DOMAIN DDRC_MMAP /\ "BASE" \in DOMAIN v /\ Fits(DDRC_MMAP)
    BY <2>4, LayoutTable4760 DEF DDRC_MMAP
  <2>8. Field(DDRC_MMAP, w, "BASE") = v["BASE"]
    BY <2>3, <2>5, <2>6, <2>7, WordField
  <2> QED
    BY <2>1, <2>2, <2>8
<1>6. Field(DDRC_MMAP, ddrc_mmap(ddrc_cfg, 0), "BASE") = 32 + 0 * 16
  BY <1>5
<1>7. Field(DDRC_MMAP, ddrc_mmap(ddrc_cfg, 1), "BASE") = 32 + 1 * 16
  BY <1>5
<1> QED
  BY <1>6, <1>7

\* The mode register the chip is left with.
LEMMA DdrMode ==
  ASSUME NEW twr \in 0..7, NEW w, w = MRS(twr + 1, 0).addr
  PROVE  Field(DDR_MRS, w, "WR") = twr /\ Field(DDR_MRS, w, "CAS") = 3 /\ Field(DDR_MRS, w, "DLL_RST") = 0
<1>1. PICK v : v = [WR |-> twr, DLL_RST |-> 0, CAS |-> 3, BL |-> 2]
  OBVIOUS
<1>2. w = Word(DDR_MRS, v)
  <2>1. twr + 1 - 1 = twr /\ DDR.CL = 3
    BY DEF DDR
  <2> QED
    BY <1>1, <2>1 DEF MRS, DDRC_LMR
<1>3. DOMAIN v = {"WR", "DLL_RST", "CAS", "BL"}
  BY <1>1
<1>4. 2^1 = 2 /\ 2^3 = 8
  BY Powers
<1>5. InRange(DDR_MRS, v)
  <2>1. DOMAIN v \subseteq DOMAIN DDR_MRS
    BY <1>3 DEF DDR_MRS
  <2>2. ASSUME NEW g \in DOMAIN v PROVE v[g] \in 0..(2^DDR_MRS[g][2] - 1)
    <3>1. CASE g = "WR"
      BY <3>1, <1>1, <1>4 DEF DDR_MRS
    <3>2. CASE g = "DLL_RST"
      BY <3>2, <1>1, <1>4 DEF DDR_MRS
    <3>3. CASE g = "CAS"
      BY <3>3, <1>1, <1>4 DEF DDR_MRS
    <3>4. CASE g = "BL"
      BY <3>4, <1>1, <1>4 DEF DDR_MRS
    <3> QED
      BY <3>1, <3>2, <3>3, <3>4, <1>3
  <2> QED
    BY <2>1, <2>2 DEF InRange
<1>6. FieldsAre(DDR_MRS, w, v)
  BY <1>2, <1>5, WordFields, LayoutTable4760
<1>7. {"WR", "CAS", "DLL_RST"} \subseteq DOMAIN DDR_MRS
  BY DEF DDR_MRS
<1> QED
  BY <1>1, <1>3, <1>6, <1>7 DEF FieldsAre

\* Refreshes are in time for the two memory clocks there are.
LEMMA DdrRefresh ==
  ASSUME NEW clk \in {12000, 36000}, NEW w, w = ddrc_refcnt(Clocks(1000000, clk))
  PROVE  (Field(DDRC_REFCNT, w, "CON") + 1) * 16 * 2^DDR.CLK_DIV * 1000000 <= DDR_t.REFI * clk
<1>1. 2^1 = 2 /\ 2^3 = 8 /\ 2^8 = 256 /\ DDR.CLK_DIV = 1 /\ DDR_t.REFI = 7800
  BY Powers, SMT DEF DDR, DDR_t
<1>2. PICK con \in {1, 7} : /\ con = IF clk = 12000 THEN 1 ELSE 7
                            /\ w = Word(DDRC_REFCNT, [CLKDIV |-> 1, REF_EN |-> 1, CON |-> con])
  <2>1. CASE clk = 12000
    <3>1. Clocks(1000000, clk) = 84
      BY <2>1, SMT DEF Clocks
    <3>2. (DDR_t.REFI \div 84) \div (16 * 2^DDR.CLK_DIV) = 2
      BY <1>1, SMT
    <3>3. Clamp(2 - 1, 1, 4095) = 1
      BY SMT DEF Clamp, Max, Min
    <3> QED
      BY <2>1, <3>1, <3>2, <3>3, <1>1, SMT DEF ddrc_refcnt
  <2>2. CASE clk = 36000
    <3>1. Clocks(1000000, clk) = 28
      BY <2>2, SMT DEF Clocks
    <3>2. (DDR_t.REFI \div 28) \div (16 * 2^DDR.CLK_DIV) = 8
      BY <1>1, SMT
    <3>3. Clamp(8 - 1, 1, 4095) = 7
      BY SMT DEF Clamp, Max, Min
    <3> QED
      BY <2>2, <3>1, <3>2, <3>3, <1>1, SMT DEF ddrc_refcnt
  <2> QED
    BY <2>1, <2>2
<1> DEFINE v == [CLKDIV |-> 1, REF_EN |-> 1, CON |-> con]
<1>3. v = [CLKDIV |-> 1, REF_EN |-> 1, CON |-> con]
  BY SMT
<1> HIDE DEF v
<1>4. DOMAIN v = {"CLKDIV", "REF_EN", "CON"}
  BY <1>3
<1>5. InRange(DDRC_REFCNT, v)
  <2>1. DOMAIN v \subseteq DOMAIN DDRC_REFCNT
    BY <1>4 DEF DDRC_REFCNT
  <2>2. ASSUME NEW g \in DOMAIN v PROVE v[g] \in 0..(2^DDRC_REFCNT[g][2] - 1)
    <3>1. CASE g = "CLKDIV"
      BY <3>1, <1>1, <1>3 DEF DDRC_REFCNT
    <3>2. CASE g = "REF_EN"
      BY <3>2, <1>1, <1>3 DEF DDRC_REFCNT
    <3>3. CASE g = "CON"
      BY <3>3, <1>1, <1>3 DEF DDRC_REFCNT
    <3> QED
      BY <3>1, <3>2, <3>3, <1>4
  <2> QED
    BY <2>1, <2>2 DEF InRange
<1>6. FieldsAre(DDRC_REFCNT, w, v)
  BY <1>2, <1>3, <1>5, WordFields, LayoutTable4760
<1>7. "CON" \in DOMAIN DDRC_REFCNT
  BY DEF DDRC_REFCNT
<1>8. Field(DDRC_REFCNT, w, "CON") = con
  BY <1>3, <1>4, <1>6, <1>7 DEF FieldsAre
<1> QED
  BY <1>1, <1>2, <1>8, SMT

(* The memory chip *********************************************************)

LEMMA Largest ==
  ASSUME NEW S, S \subseteq Int, NEW m \in S, \A y \in S : y <= m
  PROVE  Max(S) = m
<1>1. \A x \in S : (\A y \in S : x >= y) => x = m
  OBVIOUS
<1>2. \A y \in S : m >= y
  OBVIOUS
<1> QED
  BY <1>1, <1>2 DEF Max

\* The last precharge comes at p, a refresh at q, the last mode register command at m.
ChipForm(c, n, p, q, m) ==
  /\ DOMAIN c = 1..n /\ Len(c) = n
  /\ c[p] = PREC /\ \A i \in 1..n : i > p => c[i] # PREC
  /\ c[q] = AUREF
  /\ c[m].cmd = "LMR" /\ c[m].ba = 0
  /\ \A i \in 1..n : i > m => ~(c[i].cmd = "LMR" /\ c[i].ba = 0)

LEMMA ChipReady ==
  ASSUME NEW n \in Nat, NEW p \in 1..n, NEW q \in 1..n, NEW m \in 1..n, p < q, q < m,
         ChipForm(chip, n, p, q, m)
  PROVE  RefreshedBeforeMode /\ ModeRegister = chip[m].addr
<1> USE DEF ChipForm
<1>1. Max({i \in DOMAIN chip : chip[i] = PREC}) = p
  <2> DEFINE S == {i \in DOMAIN chip : chip[i] = PREC}
  <2>1. S \subseteq Int /\ p \in S /\ \A y \in S : y <= p
    OBVIOUS
  <2> HIDE DEF S
  <2>2. Max(S) = p
    BY <2>1, Largest
  <2> QED
    BY <2>2 DEF S
<1>2. Max({i \in DOMAIN chip : chip[i].cmd = "LMR" /\ chip[i].ba = 0}) = m
  <2> DEFINE S == {i \in DOMAIN chip : chip[i].cmd = "LMR" /\ chip[i].ba = 0}
  <2>1. S \subseteq Int /\ m \in S /\ \A y \in S : y <= m
    OBVIOUS
  <2> HIDE DEF S
  <2>2. Max(S) = m
    BY <2>1, Largest
  <2> QED
    BY <2>2 DEF S
<1>3. PICK s : s = SubSeq(chip, p, n)
  OBVIOUS
<1>4. SincePrecharge = s
  BY <1>1, <1>3 DEF SincePrecharge
<1>5. DOMAIN s = 1..(n - p + 1) /\ \A i \in 1..(n - p + 1) : s[i] = chip[i + p - 1]
  BY <1>3
<1>6. q - p + 1 \in DOMAIN s /\ m - p + 1 \in DOMAIN s /\ q - p + 1 < m - p + 1
  BY <1>5
<1>7. s[q - p + 1] = chip[q] /\ s[m - p + 1] = chip[m]
  <2>1. (q - p + 1) + p - 1 = q /\ (m - p + 1) + p - 1 = m
    OBVIOUS
  <2> QED
    BY <2>1, <1>5, <1>6
<1> QED
  BY <1>2, <1>4, <1>6, <1>7 DEF RefreshedBeforeMode, ModeRegister

\* What sdram_init_4740 and sdram_init_4760 tell the chip.
SdramChip == <<PREC, AUREF, DDRC_LMR("LMR", 0, sdmode)>>

LEMMA SdramChipForm == ChipForm(SdramChip, 3, 1, 2, 3)
<1>1. PICK e : e = DDRC_LMR("LMR", 0, sdmode)
  OBVIOUS
<1>2. e.cmd = "LMR" /\ e.ba = 0 /\ PREC.cmd = "PREC" /\ AUREF.cmd = "AUREF"
  BY <1>1 DEF DDRC_LMR, PREC, AUREF
<1>3. SdramChip = <<PREC, AUREF, e>>
  BY <1>1 DEF SdramChip
<1> QED
  BY <1>2, <1>3 DEF ChipForm

\* A refresh more, after what ddr_mem_init tells it.
Refreshed(s, t, n, p, q, m) == ChipForm(t, n + 1, p, q, m) /\ t[m] = s[m]
LEMMA RefreshMore ==
  ASSUME NEW S, NEW s \in Seq(S), AUREF \in S, NEW n \in Nat, NEW p \in 1..n, NEW q \in 1..n, NEW m \in 1..n,
         ChipForm(s, n, p, q, m), NEW t, t = Append(s, AUREF)
  PROVE  Refreshed(s, t, n, p, q, m)
<1>1. PICK c \in S : c = AUREF
  OBVIOUS
<1>2. Len(s) = n
  BY DEF ChipForm
<1>3. t \in Seq(S) /\ Len(t) = n + 1 /\ DOMAIN t = 1..(n + 1) /\ t[n + 1] = c /\ \A i \in 1..n : t[i] = s[i]
  BY <1>1, <1>2
<1>4. c # PREC /\ c.cmd # "LMR"
  BY <1>1 DEF AUREF, PREC, DDRC_LMR
<1>5. \A i \in 1..(n + 1) : i \in 1..n \/ i = n + 1
  OBVIOUS
<1>6. \A i \in 1..(n + 1) : i > p => t[i] # PREC
  BY <1>3, <1>4, <1>5 DEF ChipForm
<1>7. \A i \in 1..(n + 1) : i > m => ~(t[i].cmd = "LMR" /\ t[i].ba = 0)
  BY <1>3, <1>4, <1>5 DEF ChipForm
<1> QED
  BY <1>3, <1>6, <1>7 DEF Refreshed, ChipForm

LEMMA DdrCommands ==
  ASSUME NEW TIMING1 PROVE \E S : ddr_mem_commands(TIMING1) \in Seq(S)
<1>1. PICK twr : ddr_mem_commands(TIMING1) =
        <<PREC, DDRC_LMR("LMR", 2, {}), DDRC_LMR("LMR", 3, {}), EMRS1(0), MRS(twr, 1),
          PREC, AUREF, AUREF, MRS(twr, 0), EMRS1(7), EMRS1(0)>>
  BY DEF ddr_mem_commands
<1>2. PICK a, b, c, d, e, f : /\ a = DDRC_LMR("LMR", 2, {}) /\ b = DDRC_LMR("LMR", 3, {})
                              /\ c = EMRS1(0) /\ d = MRS(twr, 1) /\ e = MRS(twr, 0) /\ f = EMRS1(7)
  OBVIOUS
<1>3. <<PREC, a, b, c, d, PREC, AUREF, AUREF, e, f, c>> \in Seq({PREC, AUREF, a, b, c, d, e, f})
  OBVIOUS
<1> QED
  BY <1>1, <1>2, <1>3

DdrChip(TIMING1) == Append(ddr_mem_commands(TIMING1), AUREF)

LEMMA DdrChipForm ==
  ASSUME NEW TIMING1, NEW twr, twr = Field(DDRC_TIMING1, TIMING1, "TWR") + 1
  PROVE  ChipForm(DdrChip(TIMING1), 12, 6, 7, 9) /\ DdrChip(TIMING1)[9] = MRS(twr, 0)
<1>1. PICK a, b, c, d, e, f, g : /\ a = DDRC_LMR("LMR", 2, {}) /\ b = DDRC_LMR("LMR", 3, {})
                                 /\ c = EMRS1(0) /\ d = MRS(twr, 1) /\ e = MRS(twr, 0) /\ f = EMRS1(7)
                                 /\ g = ddr_mem_commands(TIMING1)
  OBVIOUS
<1>2. /\ PREC.cmd = "PREC" /\ AUREF.cmd = "AUREF" /\ e.cmd = "LMR" /\ e.ba = 0
      /\ f.cmd = "LMR" /\ f.ba = 1 /\ c.cmd = "LMR" /\ c.ba = 1
  BY <1>1 DEF DDRC_LMR, PREC, AUREF, EMRS1, MRS
<1>3. g = <<PREC, a, b, c, d, PREC, AUREF, AUREF, e, f, c>>
  BY <1>1 DEF ddr_mem_commands
<1>4. /\ DOMAIN g = 1..11 /\ Len(g) = 11 /\ g[6] = PREC /\ g[7] = AUREF /\ g[8] = AUREF /\ g[9] = e
      /\ g[10] = f /\ g[11] = c
  BY <1>3
<1>5. \A i \in 1..11 : i > 6 => i \in {7, 8, 9, 10, 11}
  OBVIOUS
<1>6. \A i \in 1..11 : i > 6 => g[i] # PREC
  BY <1>2, <1>4, <1>5
<1>7. \A i \in 1..11 : i > 9 => ~(g[i].cmd = "LMR" /\ g[i].ba = 0)
  BY <1>2, <1>4, <1>5
<1>8. ChipForm(g, 11, 6, 7, 9)
  BY <1>2, <1>4, <1>6, <1>7 DEF ChipForm
<1>9. PICK S : S = {PREC, AUREF, a, b, c, d, e, f}
  OBVIOUS
<1>10. g \in Seq(S) /\ AUREF \in S
  BY <1>3, <1>9
<1>11. PICK t : t = Append(g, AUREF)
  OBVIOUS
<1>12. PICK n, p, q, m \in Nat : n = 11 /\ p = 6 /\ q = 7 /\ m = 9
  OBVIOUS
<1>13. Refreshed(g, t, n, p, q, m)
  <2>1. ChipForm(g, n, p, q, m)
    BY <1>8, <1>12
  <2>2. p \in 1..n /\ q \in 1..n /\ m \in 1..n
    BY <1>12
  <2> QED
    BY <1>10, <1>11, <2>1, <2>2, RefreshMore
<1>14. ChipForm(t, 12, 6, 7, 9) /\ t[9] = e
  BY <1>4, <1>12, <1>13 DEF Refreshed
<1> QED
  BY <1>1, <1>11, <1>14 DEF DdrChip

(* A run of stage 1 ********************************************************)

CallNames == {"gpio", "cpm", "serial", "pll", "sdram", "refresh", "mode", "ddr", "ddr_mem", "ddr_map",
              "nand", "check"}
NextCall(s) == IF s = <<>> THEN "end" ELSE Head(s)
Suffix(s, plan) ==
  /\ s \in Seq(CallNames) /\ Len(s) <= Len(plan)
  /\ \A i \in 1..Len(s) : s[i] = plan[Len(plan) - Len(s) + i]

\* x is in the plan, and y comes after it.
InPlan(plan, x, y) ==
  \E k \in 1..Len(plan) : x = plan[k] /\ y = IF k = Len(plan) THEN "end" ELSE plan[k + 1]

LEMMA SuffixStep ==
  ASSUME NEW plan \in Seq(CallNames), NEW s, Suffix(s, plan), s # <<>>, NEW t, t = Tail(s)
  PROVE  Suffix(t, plan) /\ InPlan(plan, Head(s), NextCall(t))
<1>1. PICK n \in Nat, m \in Nat : n = Len(plan) /\ m = Len(s)
  BY DEF Suffix
<1>2. s \in Seq(CallNames) /\ m <= n /\ m # 0 /\ \A i \in 1..m : s[i] = plan[n - m + i]
  BY <1>1 DEF Suffix
<1>3. t \in Seq(CallNames) /\ Len(t) = m - 1 /\ \A i \in 1..(m - 1) : t[i] = s[i + 1]
  BY <1>1, <1>2
<1>4. \A i \in 1..(m - 1) : t[i] = plan[n - (m - 1) + i]
  <2> TAKE i \in 1..(m - 1)
  <2>1. i + 1 \in 1..m /\ n - m + (i + 1) = n - (m - 1) + i
    BY <1>2
  <2>2. s[i + 1] = plan[n - m + (i + 1)]
    BY <1>2, <2>1
  <2> QED
    BY <1>3, <2>1, <2>2
<1>5. Suffix(t, plan)
  BY <1>1, <1>2, <1>3, <1>4 DEF Suffix
<1>6. PICK k \in 1..n : k = n - m + 1
  BY <1>2
<1>7. Head(s) = plan[k]
  <2>1. Head(s) = s[1] /\ 1 \in 1..m
    BY <1>1, <1>2
  <2> QED
    BY <2>1, <1>2, <1>6
<1>8. CASE m = 1
  <2>1. t = <<>> /\ k = n
    BY <1>3, <1>6, <1>8
  <2> QED
    BY <2>1, <1>1, <1>5, <1>7 DEF NextCall, InPlan
<1>9. CASE m > 1
  <2>1. t # <<>> /\ Head(t) = t[1] /\ 1 \in 1..(m - 1) /\ k # n
    BY <1>3, <1>6, <1>9
  <2>2. n - (m - 1) + 1 = k + 1
    BY <1>6
  <2>3. Head(t) = plan[k + 1]
    BY <2>1, <2>2, <1>4
  <2> QED
    BY <2>1, <2>3, <1>1, <1>5, <1>7 DEF NextCall, InPlan
<1> QED
  BY <1>2, <1>8, <1>9

Ends == {"end", "nand", "check"}
\* The memory's calls come one after the other, and none of them before that.
NextIn(c, x, y) ==
  /\ x \in {"gpio", "serial", "pll", "cpm"} => y \in {"serial", "pll", "cpm", "sdram", "ddr"}
  /\ x = "sdram" => c = "jz4740" /\ y = "refresh"
  /\ x = "refresh" => c = "jz4740" /\ y = "mode"
  /\ x = "mode" => c = "jz4740" /\ y \in Ends
  /\ x = "ddr" => c = "jz4760" /\ y = "ddr_mem"
  /\ x = "ddr_mem" => c = "jz4760" /\ y = "ddr_map"
  /\ x = "ddr_map" => c = "jz4760" /\ y \in Ends
  /\ x \in Ends => y = "end"
\* In a boot, the PLL is set up once, and it was when one of these calls is the next.
PllDone(t, c, y) ==
  y \notin {"gpio", "cpm", "pll"} \cup IF t = "usbboot" /\ c = "jz4740" THEN {} ELSE {"serial"}

LEMMA PlanOrder ==
  ASSUME NEW t \in Boards, NEW c \in CPUs, NEW what \in {"boot", "memtest"}, t = "xbboot" => what = "boot",
         NEW plan, plan = Plan(t, c, what), NEW k \in 1..Len(plan), NEW y,
         y = IF k = Len(plan) THEN "end" ELSE plan[k + 1]
  PROVE  /\ NextIn(c, plan[k], y)
         /\ what = "boot" /\ PllDone(t, c, y) => plan[k] = "pll" \/ PllDone(t, c, plan[k])
<1>0. PICK x : x = plan[k]
  OBVIOUS
<1>1. CASE t = "usbboot" /\ c = "jz4740" /\ what = "boot"
  <2>1. plan = <<"gpio", "pll", "serial", "sdram", "refresh", "mode">>
    BY <1>1 DEF Plan, c_main
  <2>2. k \in 1..6 /\ Len(plan) = 6
    BY <2>1
  <2>3. \/ x = "gpio" /\ y = "pll"
        \/ x = "pll" /\ y = "serial"
        \/ x = "serial" /\ y = "sdram"
        \/ x = "sdram" /\ y = "refresh"
        \/ x = "refresh" /\ y = "mode"
        \/ x = "mode" /\ y = "end"
    BY <1>0, <2>1, <2>2
  <2>4. NextIn(c, x, y)
    BY <1>1, <2>3 DEF NextIn, Ends
  <2>5. what = "boot" /\ PllDone(t, c, y) => x = "pll" \/ PllDone(t, c, x)
    BY <1>1, <2>3 DEF PllDone
  <2> QED
    BY <1>0, <2>4, <2>5
<1>2. CASE t = "usbboot" /\ c = "jz4760" /\ what = "boot"
  <2>1. plan = <<"gpio", "cpm", "serial", "pll", "ddr", "ddr_mem", "ddr_map">>
    BY <1>2 DEF Plan, c_main
  <2>2. k \in 1..7 /\ Len(plan) = 7
    BY <2>1
  <2>3. \/ x = "gpio" /\ y = "cpm"
        \/ x = "cpm" /\ y = "serial"
        \/ x = "serial" /\ y = "pll"
        \/ x = "pll" /\ y = "ddr"
        \/ x = "ddr" /\ y = "ddr_mem"
        \/ x = "ddr_mem" /\ y = "ddr_map"
        \/ x = "ddr_map" /\ y = "end"
    BY <1>0, <2>1, <2>2
  <2>4. NextIn(c, x, y)
    BY <1>2, <2>3 DEF NextIn, Ends
  <2>5. what = "boot" /\ PllDone(t, c, y) => x = "pll" \/ PllDone(t, c, x)
    BY <1>2, <2>3 DEF PllDone
  <2> QED
    BY <1>0, <2>4, <2>5
<1>3. CASE t = "usbboot" /\ c = "jz4740" /\ what = "memtest"
  <2>1. plan = <<"gpio", "serial", "sdram", "refresh", "mode", "check">>
    BY <1>3 DEF Plan, do_debug
  <2>2. k \in 1..6 /\ Len(plan) = 6
    BY <2>1
  <2>3. \/ x = "gpio" /\ y = "serial"
        \/ x = "serial" /\ y = "sdram"
        \/ x = "sdram" /\ y = "refresh"
        \/ x = "refresh" /\ y = "mode"
        \/ x = "mode" /\ y = "check"
        \/ x = "check" /\ y = "end"
    BY <1>0, <2>1, <2>2
  <2>4. NextIn(c, x, y)
    BY <1>3, <2>3 DEF NextIn, Ends
  <2>5. what = "boot" /\ PllDone(t, c, y) => x = "pll" \/ PllDone(t, c, x)
    BY <1>3, <2>3 DEF PllDone
  <2> QED
    BY <1>0, <2>4, <2>5
<1>4. CASE t = "usbboot" /\ c = "jz4760" /\ what = "memtest"
  <2>1. plan = <<"gpio", "serial", "ddr", "ddr_mem", "ddr_map", "check">>
    BY <1>4 DEF Plan, do_debug
  <2>2. k \in 1..6 /\ Len(plan) = 6
    BY <2>1
  <2>3. \/ x = "gpio" /\ y = "serial"
        \/ x = "serial" /\ y = "ddr"
        \/ x = "ddr" /\ y = "ddr_mem"
        \/ x = "ddr_mem" /\ y = "ddr_map"
        \/ x = "ddr_map" /\ y = "check"
        \/ x = "check" /\ y = "end"
    BY <1>0, <2>1, <2>2
  <2>4. NextIn(c, x, y)
    BY <1>4, <2>3 DEF NextIn, Ends
  <2>5. what = "boot" /\ PllDone(t, c, y) => x = "pll" \/ PllDone(t, c, x)
    BY <1>4, <2>3 DEF PllDone
  <2> QED
    BY <1>0, <2>4, <2>5
<1>5. CASE t = "xbboot" /\ c = "jz4740"
  <2>1. plan = <<"gpio", "serial", "pll", "sdram", "refresh", "mode", "nand">>
    BY <1>5 DEF Plan, xb_c_main
  <2>2. k \in 1..7 /\ Len(plan) = 7
    BY <2>1
  <2>3. \/ x = "gpio" /\ y = "serial"
        \/ x = "serial" /\ y = "pll"
        \/ x = "pll" /\ y = "sdram"
        \/ x = "sdram" /\ y = "refresh"
        \/ x = "refresh" /\ y = "mode"
        \/ x = "mode" /\ y = "nand"
        \/ x = "nand" /\ y = "end"
    BY <1>0, <2>1, <2>2
  <2>4. NextIn(c, x, y)
    BY <1>5, <2>3 DEF NextIn, Ends
  <2>5. what = "boot" /\ PllDone(t, c, y) => x = "pll" \/ PllDone(t, c, x)
    BY <1>5, <2>3 DEF PllDone
  <2> QED
    BY <1>0, <2>4, <2>5
<1>6. CASE t = "xbboot" /\ c = "jz4760"
  <2>1. plan = <<"gpio", "cpm", "serial", "pll", "ddr", "ddr_mem", "ddr_map", "nand">>
    BY <1>6 DEF Plan, xb_c_main
  <2>2. k \in 1..8 /\ Len(plan) = 8
    BY <2>1
  <2>3. \/ x = "gpio" /\ y = "cpm"
        \/ x = "cpm" /\ y = "serial"
        \/ x = "serial" /\ y = "pll"
        \/ x = "pll" /\ y = "ddr"
        \/ x = "ddr" /\ y = "ddr_mem"
        \/ x = "ddr_mem" /\ y = "ddr_map"
        \/ x = "ddr_map" /\ y = "nand"
        \/ x = "nand" /\ y = "end"
    BY <1>0, <2>1, <2>2
  <2>4. NextIn(c, x, y)
    BY <1>6, <2>3 DEF NextIn, Ends
  <2>5. what = "boot" /\ PllDone(t, c, y) => x = "pll" \/ PllDone(t, c, x)
    BY <1>6, <2>3 DEF PllDone
  <2> QED
    BY <1>0, <2>4, <2>5
<1> QED
  BY <1>1, <1>2, <1>3, <1>4, <1>5, <1>6 DEF CPUs, Boards

\* The run in progress, or the last one.
Running == last.what \in {"boot", "memtest"}
ThePlan == Plan(tool, cpu, last.what)
RunInv ==
  tool \in Boards =>
    IF Running
    THEN /\ tool = "xbboot" => last.what = "boot"
         /\ Accepted(last.cfg) /\ last.total = total_size(fw_args(last.cfg))
         /\ args = load_args(fw_args(last.cfg))
         /\ Suffix(calls, ThePlan)
    ELSE calls = <<>>

LEMMA PlanType ==
  ASSUME NEW t, NEW c, NEW what
  PROVE  Plan(t, c, what) \in Seq(CallNames) /\ Head(Plan(t, c, what)) = "gpio" /\ Plan(t, c, what) # <<>>
<1>1. /\ xb_c_main(c) \in Seq(CallNames) /\ Head(xb_c_main(c)) = "gpio" /\ xb_c_main(c) # <<>>
  <2>1. PICK p, q : p = <<"gpio", "serial", "pll", "sdram", "refresh", "mode", "nand">> /\ q = <<"gpio", "cpm", "serial", "pll", "ddr", "ddr_mem", "ddr_map", "nand">>
    OBVIOUS
  <2>2. p \in Seq(CallNames) /\ Head(p) = "gpio" /\ p # <<>>
    <3>1. p \in Seq(CallNames)
      BY <2>1 DEF CallNames
    <3>2. Head(p) = "gpio" /\ p # <<>>
      BY <2>1
    <3> QED
      BY <3>1, <3>2
  <2>3. q \in Seq(CallNames) /\ Head(q) = "gpio" /\ q # <<>>
    <3>1. q \in Seq(CallNames)
      BY <2>1 DEF CallNames
    <3>2. Head(q) = "gpio" /\ q # <<>>
      BY <2>1
    <3> QED
      BY <3>1, <3>2
  <2>4. xb_c_main(c) = p \/ xb_c_main(c) = q
    BY <2>1 DEF xb_c_main
  <2> QED
    BY <2>2, <2>3, <2>4
<1>2. /\ c_main(c) \in Seq(CallNames) /\ Head(c_main(c)) = "gpio" /\ c_main(c) # <<>>
  <2>1. PICK p, q : p = <<"gpio", "pll", "serial", "sdram", "refresh", "mode">> /\ q = <<"gpio", "cpm", "serial", "pll", "ddr", "ddr_mem", "ddr_map">>
    OBVIOUS
  <2>2. p \in Seq(CallNames) /\ Head(p) = "gpio" /\ p # <<>>
    <3>1. p \in Seq(CallNames)
      BY <2>1 DEF CallNames
    <3>2. Head(p) = "gpio" /\ p # <<>>
      BY <2>1
    <3> QED
      BY <3>1, <3>2
  <2>3. q \in Seq(CallNames) /\ Head(q) = "gpio" /\ q # <<>>
    <3>1. q \in Seq(CallNames)
      BY <2>1 DEF CallNames
    <3>2. Head(q) = "gpio" /\ q # <<>>
      BY <2>1
    <3> QED
      BY <3>1, <3>2
  <2>4. c_main(c) = p \/ c_main(c) = q
    BY <2>1 DEF c_main
  <2> QED
    BY <2>2, <2>3, <2>4
<1>3. /\ do_debug(c) \in Seq(CallNames) /\ Head(do_debug(c)) = "gpio" /\ do_debug(c) # <<>>
  <2>1. PICK p, q : p = <<"gpio", "serial", "sdram", "refresh", "mode", "check">> /\ q = <<"gpio", "serial", "ddr", "ddr_mem", "ddr_map", "check">>
    OBVIOUS
  <2>2. p \in Seq(CallNames) /\ Head(p) = "gpio" /\ p # <<>>
    <3>1. p \in Seq(CallNames)
      BY <2>1 DEF CallNames
    <3>2. Head(p) = "gpio" /\ p # <<>>
      BY <2>1
    <3> QED
      BY <3>1, <3>2
  <2>3. q \in Seq(CallNames) /\ Head(q) = "gpio" /\ q # <<>>
    <3>1. q \in Seq(CallNames)
      BY <2>1 DEF CallNames
    <3>2. Head(q) = "gpio" /\ q # <<>>
      BY <2>1
    <3> QED
      BY <3>1, <3>2
  <2>4. do_debug(c) = p \/ do_debug(c) = q
    BY <2>1 DEF do_debug
  <2> QED
    BY <2>2, <2>3, <2>4
<1> QED
  BY <1>1, <1>2, <1>3 DEF Plan

LEMMA WholePlan ==
  ASSUME NEW plan \in Seq(CallNames) PROVE Suffix(plan, plan)
<1>1. PICK n \in Nat : n = Len(plan)
  OBVIOUS
<1>2. \A i \in 1..n : n - n + i = i
  OBVIOUS
<1> QED
  BY <1>1, <1>2 DEF Suffix

\* A call of stage 1 belongs to the plan, and so does the one after it.
Calling(name) == calls # <<>> /\ Head(calls) = name /\ calls' = Tail(calls) /\ UNCHANGED <<args, last>>

LEMMA CallStep ==
  ASSUME ToolInv, RunInv, tool \in Boards, UNCHANGED <<tool, cpu>>, NEW name, Calling(name)
  PROVE  /\ RunInv' /\ Running
         /\ NextIn(cpu, name, NextCall(calls'))
         /\ last.what = "boot" /\ PllDone(tool, cpu, NextCall(calls')) =>
              name = "pll" \/ PllDone(tool, cpu, name)
<1>1. Running
  BY DEF Calling, RunInv
<1>2. PICK plan \in Seq(CallNames) : plan = ThePlan
  BY PlanType DEF ThePlan
<1>3. PICK s, t : s = calls /\ t = calls' /\ s # <<>> /\ t = Tail(s) /\ Head(s) = name
  BY DEF Calling
<1>4. Suffix(s, plan) /\ (tool = "xbboot" => last.what = "boot")
  BY <1>1, <1>2, <1>3 DEF RunInv
<1>5. Suffix(t, plan)
  BY <1>3, <1>4, SuffixStep
<1>6. PICK k \in 1..Len(plan) : name = plan[k] /\ NextCall(t) = IF k = Len(plan) THEN "end" ELSE plan[k + 1]
  <2>1. InPlan(plan, Head(s), NextCall(t))
    BY <1>3, <1>4, SuffixStep
  <2> QED
    BY <2>1, <1>3 DEF InPlan
<1>7. tool \in Boards /\ cpu \in CPUs /\ last.what \in {"boot", "memtest"}
  BY <1>1 DEF ToolInv, Running
<1>8. /\ NextIn(cpu, name, NextCall(t))
      /\ last.what = "boot" /\ PllDone(tool, cpu, NextCall(t)) => name = "pll" \/ PllDone(tool, cpu, name)
  BY <1>2, <1>4, <1>6, <1>7, PlanOrder DEF ThePlan
<1>9. RunInv'
  <2>1. ThePlan' = plan /\ Running' /\ UNCHANGED <<args, last, tool>>
    BY <1>1, <1>2 DEF Calling, ThePlan, Running
  <2>2. Suffix(calls', ThePlan')
    BY <2>1, <1>3, <1>5
  <2> QED
    BY <2>1, <2>2, <1>1, <1>4 DEF RunInv
<1> QED
  BY <1>1, <1>3, <1>8, <1>9

(* What the registers and the chip hold ************************************)

RegNames == {"CPCCR", "CPPCR", "UHCCDR", "CLKGR", "DLR", "DMCR", "RTCOR", "RTCSR", "CFG", "CTRL",
             "TIMING1", "TIMING2", "REFCNT", "MMAP0", "MMAP1", "MDELAY", "NFCSR"}
MemoryFlags == Word(DMCR, [RFSH |-> 1, MRSET |-> 1])
Cppcr(a) ==
  Word(CPPCR_4740, [PLLM |-> (a.cpu_speed * 2) \div a.extal - 2, PLLN |-> 0, PLLOD |-> 0,
                    PLLST |-> 32, PLLEN |-> 1])
TimingOf(r) == \E ns \in Nat \ {0} : r.TIMING1 = ddrc_timing1(ns)
Recovery(r) == Field(DDRC_TIMING1, r.TIMING1, "TWR") + 1

ClockForm(c, r) ==
  /\ r = [f \in RegNames |-> r[f]]
  /\ c = "jz4740" => r.CPCCR \in Cpccrs
  /\ c = "jz4760" => <<r.CPCCR, r.CPPCR>> \in Clocks4760

\* With y the next call of a run with the arguments a.
SdramForm(r, ch, a, y) ==
  /\ y \in {"refresh", "mode"} \cup Ends => mem_4740(r, a) # 0
  /\ y = "refresh" => ch = <<PREC>>
  /\ y = "mode" => ch = <<PREC, AUREF>>
  /\ y \in Ends => ch = SdramChip /\ r.DMCR = dmcr_4740(r, a) \cup MemoryFlags
DdrForm(r, ch, y) ==
  /\ y \in {"ddr_mem", "ddr_map"} \cup Ends => TimingOf(r)
  /\ y \in {"ddr_map"} \cup Ends => r.CFG = ddrc_cfg
  /\ y = "ddr_mem" => ch = <<>>
  /\ y = "ddr_map" => ch = ddr_mem_commands(r.TIMING1)
  /\ y \in Ends => /\ ch = DdrChip(r.TIMING1)
                   /\ r.MMAP0 = ddrc_mmap(ddrc_cfg, 0) /\ r.MMAP1 = ddrc_mmap(ddrc_cfg, 1)
                   /\ r.REFCNT = ddrc_refcnt(ns_int(r))
PllForm(c, r, a) ==
  IF c = "jz4740" THEN r.CPCCR = Cpccr(n2FR(a.phm_div)) /\ r.CPPCR = Cppcr(a) ELSE r.CPPCR = plcr1_4760

MemoryInv ==
  tool \in Boards =>
    /\ ClockForm(cpu, reg)
    /\ Running => /\ IF cpu = "jz4740" THEN SdramForm(reg, chip, args, NextCall(calls))
                     ELSE DdrForm(reg, chip, NextCall(calls))
                  /\ last.what = "boot" /\ PllDone(tool, cpu, NextCall(calls)) => PllForm(cpu, reg, args)

\* What a call does to the clocks and to the memory.
ClockStepOf(c, name, r, s, a) ==
  /\ DOMAIN s = RegNames /\ s = [f \in RegNames |-> s[f]]
  /\ IF name = "pll" THEN IF c = "jz4740" THEN s.CPCCR = Cpccr(n2FR(a.phm_div)) /\ s.CPPCR = Cppcr(a)
                          ELSE s.CPCCR = cfcr_4760 /\ s.CPPCR = plcr1_4760
     ELSE s.CPCCR = r.CPCCR /\ s.CPPCR = r.CPPCR

\* The invariant after a call, from what the call leaves.
LEMMA CallKeeps ==
  ASSUME ToolInv, RunInv, MemoryInv, tool \in Boards, UNCHANGED <<tool, cpu>>, NEW name, Calling(name),
         ClockStepOf(cpu, name, reg, reg', args),
         cpu = "jz4740" => SdramForm(reg', chip', args, NextCall(calls')),
         cpu = "jz4760" => DdrForm(reg', chip', NextCall(calls'))
  PROVE  RunInv' /\ MemoryInv'
<1>1. /\ RunInv' /\ Running
      /\ last.what = "boot" /\ PllDone(tool, cpu, NextCall(calls')) =>
           name = "pll" \/ PllDone(tool, cpu, name)
  BY CallStep
<1>2. UNCHANGED <<args, last, tool, cpu>> /\ Running' /\ NextCall(calls) = name /\ cpu \in CPUs
  BY <1>1 DEF Calling, Running, NextCall, ToolInv
<1>3. ClockForm(cpu, reg) /\ (last.what = "boot" /\ PllDone(tool, cpu, name) => PllForm(cpu, reg, args))
  BY <1>1, <1>2 DEF MemoryInv
<1>4. ClockForm(cpu, reg')
  <2>1. CASE name = "pll" /\ cpu = "jz4740"
    BY <2>1, Dividers DEF ClockStepOf, ClockForm, Cpccrs
  <2>2. CASE name = "pll" /\ cpu = "jz4760"
    BY <2>2 DEF ClockStepOf, ClockForm, Clocks4760
  <2>3. CASE name # "pll"
    BY <2>3, <1>3 DEF ClockStepOf, ClockForm
  <2> QED
    BY <2>1, <2>2, <2>3, <1>2 DEF CPUs
<1>5. last.what = "boot" /\ PllDone(tool, cpu, NextCall(calls')) => PllForm(cpu, reg', args)
  <2> SUFFICES ASSUME last.what = "boot", PllDone(tool, cpu, NextCall(calls')) PROVE PllForm(cpu, reg', args)
    OBVIOUS
  <2>1. CASE name = "pll"
    BY <2>1, <1>2 DEF ClockStepOf, PllForm, CPUs
  <2>2. CASE name # "pll"
    <3>1. PllForm(cpu, reg, args)
      BY <2>2, <1>1, <1>3
    <3> QED
      BY <2>2, <3>1 DEF ClockStepOf, PllForm
  <2> QED
    BY <2>1, <2>2
<1>6. IF cpu = "jz4740" THEN SdramForm(reg', chip', args, NextCall(calls'))
      ELSE DdrForm(reg', chip', NextCall(calls'))
  BY <1>2 DEF CPUs
<1> QED
  BY <1>1, <1>2, <1>4, <1>5, <1>6 DEF MemoryInv

\* A command more.
LEMMA Appended2 ==
  ASSUME NEW a, NEW b PROVE Append(<<a>>, b) = <<a, b>>
<1>1. PICK s : s = Append(<<a>>, b)
  OBVIOUS
<1>2. <<a>> \in Seq({a, b}) /\ b \in {a, b}
  OBVIOUS
<1>3. s \in Seq({a, b}) /\ Len(s) = 2 /\ s[1] = a /\ s[2] = b
  BY <1>1, <1>2
<1>4. s = <<s[1], s[2]>>
  BY <1>3
<1> QED
  BY <1>1, <1>3, <1>4

LEMMA Appended3 ==
  ASSUME NEW a, NEW b, NEW c PROVE Append(<<a, b>>, c) = <<a, b, c>>
<1>1. PICK s : s = Append(<<a, b>>, c)
  OBVIOUS
<1>2. <<a, b>> \in Seq({a, b, c}) /\ c \in {a, b, c}
  OBVIOUS
<1>3. s \in Seq({a, b, c}) /\ Len(s) = 3 /\ s[1] = a /\ s[2] = b /\ s[3] = c
  BY <1>1, <1>2
<1>4. s = <<s[1], s[2], s[3]>>
  BY <1>3
<1> QED
  BY <1>1, <1>3, <1>4

LEMMA SameClocks ==
  ASSUME NEW r, NEW s, r.CPCCR = s.CPCCR, NEW a
  PROVE  mem_4740(r, a) = mem_4740(s, a) /\ dmcr_4740(r, a) = dmcr_4740(s, a)
<1>1. mem_4740(r, a) = mem_4740(s, a)
  BY DEF mem_4740
<1> QED
  BY <1>1 DEF ns_4740, dmcr_4740

\* The calls before the memory's, and the ones after it.
LEMMA CallEarly ==
  ASSUME ToolInv, RunInv, MemoryInv, tool \in Boards, UNCHANGED <<tool, cpu>>,
         NEW name \in {"gpio", "serial", "pll", "cpm"}, Calling(name),
         ClockStepOf(cpu, name, reg, reg', args)
  PROVE  RunInv' /\ MemoryInv'
<1>1. NextIn(cpu, name, NextCall(calls'))
  BY CallStep
<1>2. NextCall(calls') \in {"serial", "pll", "cpm", "sdram", "ddr"}
  BY <1>1 DEF NextIn
<1>3. SdramForm(reg', chip', args, NextCall(calls')) /\ DdrForm(reg', chip', NextCall(calls'))
  BY <1>2 DEF SdramForm, DdrForm, Ends
<1> QED
  BY <1>3, CallKeeps

LEMMA CallLate ==
  ASSUME ToolInv, RunInv, MemoryInv, tool \in Boards, UNCHANGED <<tool, cpu, chip>>,
         NEW name \in {"nand", "check"}, Calling(name),
         ClockStepOf(cpu, name, reg, reg', args),
         /\ reg'.DMCR = reg.DMCR /\ reg'.TIMING1 = reg.TIMING1 /\ reg'.CFG = reg.CFG
         /\ reg'.MMAP0 = reg.MMAP0 /\ reg'.MMAP1 = reg.MMAP1 /\ reg'.REFCNT = reg.REFCNT
  PROVE  RunInv' /\ MemoryInv'
<1>1. NextIn(cpu, name, NextCall(calls')) /\ Running
  BY CallStep
<1>2. NextCall(calls') = "end" /\ NextCall(calls) = name
  BY <1>1 DEF NextIn, Ends, Calling, NextCall
<1>3. reg'.CPCCR = reg.CPCCR /\ reg'.CPPCR = reg.CPPCR
  BY DEF ClockStepOf
<1>4. ASSUME cpu = "jz4740" PROVE SdramForm(reg', chip', args, "end")
  <2>1. SdramForm(reg, chip, args, name)
    BY <1>1, <1>2, <1>4 DEF MemoryInv
  <2>2. mem_4740(reg, args) = mem_4740(reg', args) /\ dmcr_4740(reg, args) = dmcr_4740(reg', args)
    BY <1>3, SameClocks
  <2> QED
    BY <2>1, <2>2 DEF SdramForm, Ends
<1>5. ASSUME cpu = "jz4760" PROVE DdrForm(reg', chip', "end")
  <2>1. DdrForm(reg, chip, name)
    BY <1>1, <1>2, <1>5 DEF MemoryInv
  <2>2. TimingOf(reg) => TimingOf(reg')
    BY DEF TimingOf
  <2>3. Recovery(reg') = Recovery(reg)
    BY DEF Recovery
  <2>4. ns_int(reg') = ns_int(reg)
    BY <1>3, SMT DEF ns_int
  <2> QED
    BY <2>1, <2>2, <2>3, <2>4 DEF DdrForm, Ends
<1> QED
  BY <1>2, <1>4, <1>5, CallKeeps

\* The three stages of sdram_init_4740.
LEMMA CallSdram ==
  ASSUME ToolInv, RunInv, MemoryInv, tool \in Boards, UNCHANGED <<tool, cpu>>,
         sdram_precharge \/ sdram_refresh \/ sdram_mode
  PROVE  RunInv' /\ MemoryInv'
<1>1. UNCHANGED <<args, last>>
  BY CallsRest DEF InitsMemory
<1>2. PICK name \in {"sdram", "refresh", "mode"} :
        /\ Calling(name)
        /\ name = "sdram" => sdram_precharge
        /\ name = "refresh" => sdram_refresh
        /\ name = "mode" => sdram_mode
  <2>1. CASE sdram_precharge
    <3>1. Calling("sdram")
      BY <2>1, <1>1 DEF sdram_precharge, Called, Calling
    <3> QED
      BY <2>1, <3>1
  <2>2. CASE sdram_refresh
    <3>1. Calling("refresh")
      BY <2>2, <1>1 DEF sdram_refresh, Called, Calling
    <3> QED
      BY <2>2, <3>1
  <2>3. CASE sdram_mode
    <3>1. Calling("mode")
      BY <2>3, <1>1 DEF sdram_mode, Called, Calling
    <3> QED
      BY <2>3, <3>1
  <2> QED
    BY <2>1, <2>2, <2>3
<1>3. NextIn(cpu, name, NextCall(calls')) /\ Running
  BY <1>2, CallStep
<1>4. cpu = "jz4740" /\ NextCall(calls) = name
  BY <1>2, <1>3 DEF NextIn, Calling, NextCall
<1>5. reg = [f \in RegNames |-> reg[f]] /\ SdramForm(reg, chip, args, name)
  BY <1>3, <1>4 DEF MemoryInv, ClockForm
<1>6. CASE name = "sdram"
  <2>1. reg' = [reg EXCEPT !.DMCR = dmcr_4740(reg, args), !.RTCSR = {}] /\ chip' = <<PREC>>
        /\ mem_4740(reg, args) # 0
    BY <1>2, <1>6 DEF sdram_precharge
  <2>2. ClockStepOf(cpu, name, reg, reg', args)
    BY <2>1, <1>5, <1>6 DEF ClockStepOf, RegNames
  <2>3. mem_4740(reg', args) # 0
    <3>1. PICK r, s : r = reg /\ s = reg' /\ r.CPCCR = s.CPCCR
      BY <2>2, <1>6 DEF ClockStepOf
    <3>2. mem_4740(r, args) = mem_4740(s, args)
      BY <3>1, SameClocks
    <3> QED
      BY <2>1, <3>1, <3>2
  <2>4. NextCall(calls') = "refresh"
    BY <1>3, <1>6 DEF NextIn
  <2>5. SdramForm(reg', chip', args, NextCall(calls'))
    BY <2>1, <2>3, <2>4 DEF SdramForm, Ends
  <2> QED
    BY <2>2, <2>5, <1>2, <1>4, CallKeeps
<1>7. CASE name = "refresh"
  <2>1. reg' = [reg EXCEPT !.DMCR = dmcr_4740(reg, args) \cup Word(DMCR, [RFSH |-> 1]),
                           !.RTCOR = Shifted(rtcor_4740(reg, args), 0), !.RTCSR = {0, 1}]
        /\ chip' = Append(chip, AUREF)
    BY <1>2, <1>7 DEF sdram_refresh
  <2>2. ClockStepOf(cpu, name, reg, reg', args)
    BY <2>1, <1>5, <1>7 DEF ClockStepOf, RegNames
  <2>3. mem_4740(reg', args) # 0 /\ chip = <<PREC>>
    BY <2>2, <1>5, <1>7, SameClocks DEF ClockStepOf, SdramForm
  <2>4. NextCall(calls') = "mode"
    BY <1>3, <1>7 DEF NextIn
  <2>5. chip' = <<PREC, AUREF>>
    BY <2>1, <2>3, Appended2
  <2>6. SdramForm(reg', chip', args, NextCall(calls'))
    BY <2>5, <2>3, <2>4 DEF SdramForm, Ends
  <2> QED
    BY <2>2, <2>6, <1>2, <1>4, CallKeeps
<1>8. CASE name = "mode"
  <2>1. reg' = [reg EXCEPT !.DMCR = dmcr_4740(reg, args) \cup MemoryFlags]
        /\ chip' = Append(chip, DDRC_LMR("LMR", 0, sdmode))
    BY <1>2, <1>8 DEF sdram_mode, MemoryFlags
  <2>2. ClockStepOf(cpu, name, reg, reg', args)
    BY <2>1, <1>5, <1>8 DEF ClockStepOf, RegNames
  <2>3. mem_4740(reg', args) # 0 /\ dmcr_4740(reg, args) = dmcr_4740(reg', args) /\ chip = <<PREC, AUREF>>
    BY <2>2, <1>5, <1>8, SameClocks DEF ClockStepOf, SdramForm
  <2>4. NextCall(calls') \in Ends
    BY <1>3, <1>8 DEF NextIn
  <2>5. chip' = SdramChip
    <3>1. PICK a, b, e : a = PREC /\ b = AUREF /\ e = DDRC_LMR("LMR", 0, sdmode)
      OBVIOUS
    <3>2. Append(<<a, b>>, e) = <<a, b, e>>
      BY Appended3
    <3> QED
      BY <2>1, <2>3, <3>1, <3>2 DEF SdramChip
  <2>6. reg'.DMCR = dmcr_4740(reg', args) \cup MemoryFlags
    BY <2>1, <2>3, <1>5 DEF RegNames
  <2>7. SdramForm(reg', chip', args, NextCall(calls'))
    BY <2>5, <2>3, <2>4, <2>6 DEF SdramForm, Ends
  <2> QED
    BY <2>2, <2>7, <1>2, <1>4, CallKeeps
<1> QED
  BY <1>6, <1>7, <1>8

\* The three steps of sdram_init_4760.
LEMMA CallDdr ==
  ASSUME ToolInv, RunInv, MemoryInv, tool \in Boards, UNCHANGED <<tool, cpu>>,
         ddr_reset \/ ddr_mem_init \/ ddr_map
  PROVE  RunInv' /\ MemoryInv'
<1>1. UNCHANGED <<args, last>>
  BY CallsRest DEF InitsMemory
<1>2. PICK name \in {"ddr", "ddr_mem", "ddr_map"} :
        /\ Calling(name)
        /\ name = "ddr" => ddr_reset
        /\ name = "ddr_mem" => ddr_mem_init
        /\ name = "ddr_map" => ddr_map
  <2>1. CASE ddr_reset
    <3>1. Calling("ddr")
      BY <2>1, <1>1 DEF ddr_reset, Called, Calling
    <3> QED
      BY <2>1, <3>1
  <2>2. CASE ddr_mem_init
    <3>1. Calling("ddr_mem")
      BY <2>2, <1>1 DEF ddr_mem_init, Called, Calling
    <3> QED
      BY <2>2, <3>1
  <2>3. CASE ddr_map
    <3>1. Calling("ddr_map")
      BY <2>3, <1>1 DEF ddr_map, Called, Calling
    <3> QED
      BY <2>3, <3>1
  <2> QED
    BY <2>1, <2>2, <2>3
<1>3. NextIn(cpu, name, NextCall(calls')) /\ Running
  BY <1>2, CallStep
<1>4. cpu = "jz4760" /\ NextCall(calls) = name
  BY <1>2, <1>3 DEF NextIn, Calling, NextCall
<1>5. reg = [f \in RegNames |-> reg[f]] /\ DdrForm(reg, chip, name) /\ <<reg.CPCCR, reg.CPPCR>> \in Clocks4760
  BY <1>3, <1>4 DEF MemoryInv, ClockForm
<1>6. CASE name = "ddr"
  <2>1. PICK ns : ns = ns_4760
    OBVIOUS
  <2>2. ns \in Nat \ {0}
    <3>1. PICK clk \in {12000, 36000} : clk = mclk_4760(reg.CPCCR, reg.CPPCR)
      BY <1>5, MemoryClock4760
    <3>2. ns = 1000000 \div clk
      BY <2>1, <3>1, SMT DEF ns_4760
    <3> QED
      BY <3>2, SMT
  <2>3. reg' = [reg EXCEPT !.CTRL = {}, !.TIMING1 = ddrc_timing1(ns), !.TIMING2 = ddrc_timing2(ns)]
        /\ chip' = <<>>
    BY <1>2, <1>6, <2>1 DEF ddr_reset
  <2>4. ClockStepOf(cpu, name, reg, reg', args)
    BY <2>3, <1>5, <1>6 DEF ClockStepOf, RegNames
  <2>5. reg'.TIMING1 = ddrc_timing1(ns)
    BY <2>3, <1>5 DEF RegNames
  <2>6. NextCall(calls') = "ddr_mem"
    BY <1>3, <1>6 DEF NextIn
  <2>7. DdrForm(reg', chip', NextCall(calls'))
    BY <2>2, <2>3, <2>5, <2>6 DEF DdrForm, TimingOf, Ends
  <2> QED
    BY <2>4, <2>7, <1>2, <1>4, CallKeeps
<1>7. CASE name = "ddr_mem"
  <2>1. PICK mdelay : reg' = [reg EXCEPT !.CFG = ddrc_cfg, !.CTRL = Word(DDRC_CTRL, [CKE |-> 1]),
                                         !.MDELAY = mdelay]
    BY <1>2, <1>7 DEF ddr_mem_init
  <2>2. chip' = chip \o ddr_mem_commands(reg.TIMING1)
    BY <1>2, <1>7 DEF ddr_mem_init
  <2>3. ClockStepOf(cpu, name, reg, reg', args)
    BY <2>1, <1>5, <1>7 DEF ClockStepOf, RegNames
  <2>4. reg'.TIMING1 = reg.TIMING1 /\ reg'.CFG = ddrc_cfg
    BY <2>1, <1>5 DEF RegNames
  <2>5. TimingOf(reg') /\ chip = <<>>
    BY <2>4, <1>5, <1>7 DEF DdrForm, TimingOf
  <2>6. NextCall(calls') = "ddr_map"
    BY <1>3, <1>7 DEF NextIn
  <2>7. chip' = ddr_mem_commands(reg'.TIMING1)
    <3>1. PICK s : s = ddr_mem_commands(reg.TIMING1)
      OBVIOUS
    <3>2. \E S : s \in Seq(S)
      BY <3>1, DdrCommands
    <3>3. <<>> \o s = s
      BY <3>2
    <3> QED
      BY <2>2, <2>4, <2>5, <3>1, <3>3
  <2>8. DdrForm(reg', chip', NextCall(calls'))
    BY <2>4, <2>5, <2>6, <2>7 DEF DdrForm, Ends
  <2> QED
    BY <2>3, <2>8, <1>2, <1>4, CallKeeps
<1>8. CASE name = "ddr_map"
  <2>1. PICK ctrl, cnt, lo, hi : cnt = ddrc_refcnt(ns_int(reg)) /\ lo = ddrc_mmap(reg.CFG, 0) /\ hi = ddrc_mmap(reg.CFG, 1)
                         /\ reg' = [reg EXCEPT !.MMAP0 = lo, !.MMAP1 = hi, !.REFCNT = cnt, !.CTRL = ctrl]
    BY <1>2, <1>8 DEF ddr_map
  <2>2. chip' = Append(chip, AUREF)
    BY <1>2, <1>8 DEF ddr_map
  <2>3. ClockStepOf(cpu, name, reg, reg', args)
    BY <2>1, <1>5, <1>8 DEF ClockStepOf, RegNames
  <2>4. /\ reg'.TIMING1 = reg.TIMING1 /\ reg'.CFG = reg.CFG
        /\ reg'.MMAP0 = lo /\ reg'.MMAP1 = hi /\ reg'.REFCNT = cnt
    BY <2>1, <1>5 DEF RegNames
  <2>5. TimingOf(reg') /\ reg.CFG = ddrc_cfg /\ chip = ddr_mem_commands(reg.TIMING1)
    BY <2>4, <1>5, <1>8 DEF DdrForm, TimingOf
  <2>6. NextCall(calls') \in Ends
    BY <1>3, <1>8 DEF NextIn
  <2>7. chip' = DdrChip(reg'.TIMING1)
    BY <2>2, <2>4, <2>5 DEF DdrChip
  <2>8. reg'.REFCNT = ddrc_refcnt(ns_int(reg'))
    <3>1. ns_int(reg') = ns_int(reg)
      BY <2>3, <1>8, SMT DEF ClockStepOf, ns_int
    <3> QED
      BY <2>1, <2>4, <3>1
  <2>9. DdrForm(reg', chip', NextCall(calls'))
    BY <2>1, <2>4, <2>5, <2>6, <2>7, <2>8 DEF DdrForm, Ends
  <2> QED
    BY <2>3, <2>9, <1>2, <1>4, CallKeeps
<1> QED
  BY <1>6, <1>7, <1>8

\* pll_init, on either chip.
LEMMA CallPll ==
  ASSUME ToolInv, RunInv, MemoryInv, tool \in Boards, UNCHANGED <<tool, cpu>>, pll_init
  PROVE  RunInv' /\ MemoryInv'
<1>1. Calling("pll")
  BY CallsRest DEF InitsMemory, pll_init, Called, Calling
<1>2. Running /\ cpu \in CPUs
  BY <1>1, CallStep DEF ToolInv
<1>3. reg = [f \in RegNames |-> reg[f]]
  BY <1>2 DEF MemoryInv, ClockForm
<1>4. ClockStepOf(cpu, "pll", reg, reg', args)
  <2>1. CASE cpu = "jz4740"
    <3>1. PICK fr, a, uhc : fr = n2FR(args.phm_div) /\ a = args /\ uhc = Shifted((a.cpu_speed \div 2) \div 48000 - 1, 0)
      OBVIOUS
    <3>2. reg' = pll_init_4740(reg, a)
      BY <2>1, <3>1 DEF pll_init
    <3>3. reg' = [reg EXCEPT !.UHCCDR = uhc,
                    !.CPCCR = Word(CPCCR_4740, [CLKOEN |-> 1, CDIV |-> n2FR(1), HDIV |-> fr, PDIV |-> fr,
                                                MDIV |-> fr, LDIV |-> fr]),
                    !.CPPCR = Cppcr(a)]
      BY <3>1, <3>2 DEF pll_init_4740, Cppcr
    <3>4. reg' = [reg EXCEPT !.UHCCDR = uhc, !.CPCCR = Cpccr(fr), !.CPPCR = Cppcr(a)]
      BY <3>3, Dividers DEF Cpccr
    <3>5. PICK c, p : c = Cpccr(fr) /\ p = Cppcr(a)
      OBVIOUS
    <3>6. reg' = [reg EXCEPT !.UHCCDR = uhc, !.CPCCR = c, !.CPPCR = p]
      BY <3>4, <3>5
    <3>7. DOMAIN reg' = RegNames /\ reg' = [f \in RegNames |-> reg'[f]] /\ reg'.CPCCR = c /\ reg'.CPPCR = p
      BY <3>6, <1>3 DEF RegNames
    <3> QED
      BY <2>1, <3>1, <3>5, <3>7 DEF ClockStepOf
  <2>2. CASE cpu = "jz4760"
    <3>1. reg' = [reg EXCEPT !.CPCCR = cfcr_4760, !.CPPCR = plcr1_4760]
      BY <2>2 DEF pll_init, pll_init_4760
    <3> QED
      BY <2>2, <3>1, <1>3 DEF ClockStepOf, RegNames
  <2> QED
    BY <2>1, <2>2, <1>2 DEF CPUs
<1> QED
  BY <1>1, <1>4, CallEarly

LEMMA MemoryStarts ==
  ASSUME ToolInv, RunInv, MemoryInv, tool \in Boards, UNCHANGED <<tool, cpu>>, NEW what, NEW c, Begins(what, c)
  PROVE  RunInv' /\ MemoryInv'
<1>1. PICK plan \in Seq(CallNames) : plan = Plan(tool, cpu, what) /\ Head(plan) = "gpio" /\ plan # <<>>
  BY PlanType
<1>2. /\ what \in {"boot", "memtest"} /\ Accepted(c) /\ (tool = "xbboot" => what = "boot")
      /\ calls' = plan /\ args' = load_args(fw_args(c))
      /\ last' = [what |-> what, cfg |-> c, total |-> total_size(fw_args(c))]
      /\ UNCHANGED <<gpio, reg, chip>>
  BY <1>1 DEF Begins
<1>3. last'.what = what /\ last'.cfg = c /\ last'.total = total_size(fw_args(c))
  BY <1>2
<1>4. RunInv'
  <2>1. Suffix(calls', ThePlan')
    BY <1>1, <1>2, <1>3, WholePlan DEF ThePlan
  <2> QED
    BY <2>1, <1>2, <1>3 DEF RunInv, Running
<1>5. NextCall(calls') = "gpio"
  BY <1>1, <1>2 DEF NextCall
<1>6. SdramForm(reg', chip', args', "gpio") /\ DdrForm(reg', chip', "gpio") /\ ~PllDone(tool, cpu, "gpio")
  BY DEF SdramForm, DdrForm, PllDone, Ends
<1>7. ClockForm(cpu, reg)
  BY DEF MemoryInv
<1> QED
  BY <1>2, <1>4, <1>5, <1>6, <1>7 DEF MemoryInv

\* Without a run: after a pin test or a reset.
LEMMA MemoryIdle ==
  ASSUME MemoryInv, UNCHANGED <<tool, cpu>>, calls' = <<>>, last'.what \in {"gpio", "none"},
         reg' = reg \/ reg' = RegReset
  PROVE  RunInv' /\ MemoryInv'
<1>1. ~Running'
  BY DEF Running
<1>2. tool \in Boards => ClockForm(cpu, reg')
  <2>1. CASE reg' = reg
    BY <2>1 DEF MemoryInv
  <2>2. CASE reg' = RegReset
    <3>1. PICK s : s = RegReset
      OBVIOUS
    <3>2. s = [f \in RegNames |-> s[f]] /\ s.CPCCR = {} /\ s.CPPCR = {}
      BY <3>1 DEF RegReset, RegNames
    <3> QED
      BY <2>2, <3>1, <3>2 DEF ClockForm, Cpccrs, Clocks4760
  <2> QED
    BY <2>1, <2>2
<1> QED
  BY <1>1, <1>2 DEF RunInv, MemoryInv

LEMMA MemoryRegisters ==
  ASSUME ToolInv, RunInv, MemoryInv, tool \in Boards, UNCHANGED <<tool, cpu>>, SetsRegisters \/ serial_init
  PROVE  RunInv' /\ MemoryInv'
<1>1. PICK name \in {"cpm", "nand", "check", "serial"} :
        /\ Calling(name) /\ chip' = chip
        /\ name = "cpm" => reg' = [reg EXCEPT !.CLKGR = {}]
        /\ name = "nand" => reg' = [reg EXCEPT !.NFCSR = @ \cup {0, 1}]
        /\ name = "check" => reg' = reg
        /\ name = "serial" => \E d : reg' = [reg EXCEPT !.DLR = d]
  <2>1. CASE SetsRegisters
    BY <2>1 DEF SetsRegisters, Calling, Called
  <2>2. CASE serial_init
    <3>1. Calling("serial") /\ chip' = chip
      BY <2>2 DEF serial_init, Calling, Called, Rest
    <3>2. \E d : reg' = [reg EXCEPT !.DLR = d]
      <4>1. PICK d : d = Shifted(uart_div, 0) \cap 0..15
        OBVIOUS
      <4>2. reg' = [reg EXCEPT !.DLR = d]
        BY <2>2, <4>1 DEF serial_init
      <4> QED
        BY <4>2
    <3> QED
      BY <3>1, <3>2
  <2> QED
    BY <2>1, <2>2
<1>2. Running
  BY <1>1, CallStep
<1>3. reg = [f \in RegNames |-> reg[f]]
  BY <1>2 DEF MemoryInv, ClockForm
<1>4. ClockStepOf(cpu, name, reg, reg', args)
  BY <1>1, <1>3 DEF ClockStepOf, RegNames
<1>5. CASE name \in {"cpm", "serial"}
  BY <1>1, <1>4, <1>5, CallEarly
<1>6. CASE name \in {"nand", "check"}
  <2>1. /\ reg'.DMCR = reg.DMCR /\ reg'.TIMING1 = reg.TIMING1 /\ reg'.CFG = reg.CFG
        /\ reg'.MMAP0 = reg.MMAP0 /\ reg'.MMAP1 = reg.MMAP1 /\ reg'.REFCNT = reg.REFCNT
    BY <1>1, <1>3, <1>6 DEF RegNames
  <2> QED
    BY <1>1, <1>4, <1>6, <2>1, CallLate
<1> QED
  BY <1>5, <1>6

LEMMA MemoryStep ==
  ASSUME ToolInv, RunInv, MemoryInv, tool \in Boards, UNCHANGED <<tool, cpu>>, BoardStep
  PROVE  RunInv' /\ MemoryInv'
<1>1. CASE UNCHANGED boardVars
  <2>1. UNCHANGED <<calls, args, reg, chip, last>>
    BY <1>1 DEF boardVars
  <2> QED
    BY <2>1 DEF RunInv, MemoryInv, Running, ThePlan
<1>2. ASSUME NEW pin, Tests(pin) PROVE RunInv' /\ MemoryInv'
  BY <1>2, MemoryIdle DEF Tests
<1>3. CASE Resets
  <2>1. last'.what = "none"
    BY <1>3 DEF Resets, NoRun
  <2> QED
    BY <1>3, <2>1, MemoryIdle DEF Resets
<1>4. CASE InitsPins
  <2>1. Calling("gpio") /\ reg' = reg
    BY <1>4 DEF InitsPins, Calling, Called
  <2>2. Running
    BY <2>1, CallStep
  <2>3. reg = [f \in RegNames |-> reg[f]]
    BY <2>2 DEF MemoryInv, ClockForm
  <2>4. ClockStepOf(cpu, "gpio", reg, reg', args)
    BY <2>1, <2>3 DEF ClockStepOf
  <2> QED
    BY <2>1, <2>4, CallEarly
<1>5. CASE InitsMemory
  BY <1>5, CallPll, CallSdram, CallDdr DEF InitsMemory
<1> QED
  BY <1>1, <1>2, <1>3, <1>4, <1>5, MemoryStarts, MemoryRegisters DEF BoardStep

LEMMA MemoryInit ==
  ASSUME SocInit PROVE RunInv /\ MemoryInv
<1>1. last = NoRun /\ calls = <<>> /\ reg = RegReset
  BY DEF SocInit, XbInitOf, Init
<1>2. ~Running
  BY <1>1 DEF NoRun, Running
<1>3. ClockForm(cpu, reg)
  <2>1. PICK s : s = RegReset
    OBVIOUS
  <2>2. s = [f \in RegNames |-> s[f]] /\ s.CPCCR = {} /\ s.CPPCR = {}
    BY <2>1 DEF RegReset, RegNames
  <2> QED
    BY <1>1, <2>1, <2>2 DEF ClockForm, Cpccrs, Clocks4760
<1> QED
  BY <1>1, <1>2, <1>3 DEF RunInv, MemoryInv

(* The memory after a run **************************************************)

LEMMA ModeLatency == Field(SDMR, sdmode, "CAS") = 3
<1>1. PICK v : v = [BT |-> 0, OM |-> 0, BL |-> 2, CAS |-> 3]
  OBVIOUS
<1>2. sdmode = Word(SDMR, v)
  BY <1>1 DEF sdmode, SDRAM_CASL
<1>3. InRange(SDMR, v)
  <2>1. DOMAIN v = {"BT", "OM", "BL", "CAS"} /\ DOMAIN SDMR = {"BL", "BT", "CAS", "OM"}
    BY <1>1 DEF SDMR
  <2>2. /\ v["BT"] \in 0..(2^SDMR["BT"][2] - 1)
        /\ v["OM"] \in 0..(2^SDMR["OM"][2] - 1)
        /\ v["BL"] \in 0..(2^SDMR["BL"][2] - 1)
        /\ v["CAS"] \in 0..(2^SDMR["CAS"][2] - 1)
    BY <1>1, Powers DEF SDMR
  <2> QED
    BY <2>1, <2>2 DEF InRange
<1>4. FieldsAre(SDMR, sdmode, v)
  BY <1>2, <1>3, WordFields, LayoutTable
<1> QED
  BY <1>1, <1>4 DEF FieldsAre, SDMR

\* A run that has ended.
LEMMA RunEnded ==
  ASSUME ToolInv, RunInv, MemoryInv, Running, calls = <<>>
  PROVE  /\ tool \in Boards /\ cpu \in CPUs /\ Accepted(last.cfg) /\ last.total = total_size(fw_args(last.cfg))
         /\ args = load_args(fw_args(last.cfg))
         /\ ClockForm(cpu, reg)
         /\ cpu = "jz4740" => SdramForm(reg, chip, args, "end")
         /\ cpu = "jz4760" => DdrForm(reg, chip, "end")
         /\ last.what = "boot" => PllForm(cpu, reg, args)
<1>1. tool \in Boards /\ cpu \in CPUs
  BY DEF ToolInv, Running, NoRun
<1>2. NextCall(calls) = "end" /\ PllDone(tool, cpu, "end")
  BY DEF NextCall, PllDone
<1> QED
  BY <1>1, <1>2 DEF RunInv, MemoryInv

LEMMA SdramAfter ==
  ASSUME ToolInv, RunInv, MemoryInv, Running, calls = <<>>, cpu = "jz4740"
  PROVE  RefreshedBeforeMode /\ (Documented(last.cfg) => SdramReady(last.cfg, last.total))
<1>1. /\ Accepted(last.cfg) /\ last.total = total_size(fw_args(last.cfg)) /\ args = load_args(fw_args(last.cfg))
      /\ reg.CPCCR \in Cpccrs /\ mem_4740(reg, args) # 0 /\ chip = SdramChip
      /\ reg.DMCR = dmcr_4740(reg, args) \cup MemoryFlags
  BY RunEnded DEF ClockForm, SdramForm, Ends
<1>2. RefreshedBeforeMode /\ ModeRegister = chip[3].addr
  <2>1. PICK n, p, q, m \in Nat : n = 3 /\ p = 1 /\ q = 2 /\ m = 3
    OBVIOUS
  <2>2. ChipForm(chip, n, p, q, m) /\ p \in 1..n /\ q \in 1..n /\ m \in 1..n /\ p < q /\ q < m
    BY <2>1, <1>1, SdramChipForm
  <2>3. RefreshedBeforeMode /\ ModeRegister = chip[m].addr
    BY <2>2, ChipReady
  <2> QED
    BY <2>1, <2>3
<1>3. ModeRegister = sdmode
  <2>1. PICK e : e = DDRC_LMR("LMR", 0, sdmode)
    OBVIOUS
  <2>2. e.addr = sdmode /\ chip = <<PREC, AUREF, e>>
    BY <2>1, <1>1 DEF DDRC_LMR, SdramChip
  <2> QED
    BY <2>2, <1>2
<1>4. ASSUME Documented(last.cfg) PROVE SdramReady(last.cfg, last.total)
  <2>1. PICK c, h, a, w, ns : /\ c = last.cfg /\ h = fw_args(c) /\ a = load_args(h) /\ w = reg.DMCR
                              /\ ns = ns_4740(reg, a)
    OBVIOUS
  <2>2. /\ a.row = c["ROWADDR"] /\ a.col = c["COLADDR"] /\ a.bank4 = h.bank_num /\ h.bank_num \in 0..1
        /\ a.bw16 = h.bus_width /\ h.bus_width \in 0..1
        /\ h.row_addr = c["ROWADDR"] /\ h.col_addr = c["COLADDR"]
    BY <2>1, <1>1, <1>4, DocumentedArgs
  <2>3. ns \in Nat \ {0}
    <3>1. a.cpu_speed \in Speeds
      BY <2>1, <1>1, SpeedFits
    <3>2. PICK r : r = reg
      OBVIOUS
    <3>3. r.CPCCR \in Cpccrs /\ mem_4740(r, a) # 0
      BY <3>2, <2>1, <1>1
    <3> QED
      BY <3>1, <3>2, <3>3, <2>1, MemoryClock
  <2>4. PICK row \in 11..13, col \in 8..12 : row = a.row /\ col = a.col
    BY <2>2, <1>4, <2>1 DEF Documented
  <2>5. PICK bank, bw \in 0..1 : bank = a.bank4 /\ bw = a.bw16
    BY <2>2
  <2>6. w = SdramDmcr(row, col, bank, bw, ns)
    BY <2>1, <2>4, <2>5, <1>1 DEF dmcr_4740, MemoryFlags, SdramDmcr
  <2>7. GeometryIs(w, row, col, bank, bw)
    BY <2>3, <2>6, SdramWord
  <2>8. SdramSize(w) \div 1024 = Kilobytes(row, col, bank, bw)
    BY <2>7, AddressedSize
  <2>9. last.total = Kilobytes(row, col, bank, bw)
    BY <2>1, <2>2, <2>4, <2>5, <1>1 DEF total_size, Kilobytes
  <2>10. {23, 24} \subseteq w
    BY <2>6, Flags DEF SdramDmcr
  <2>11. Field(SDMR, ModeRegister, "CAS") = Field(DMCR, w, "TCL") + 1
    BY <2>7, <1>3, ModeLatency DEF GeometryIs
  <2> QED
    BY <2>1, <2>8, <2>9, <2>10, <2>11 DEF SdramReady
<1> QED
  BY <1>2, <1>4

LEMMA DdrAfter ==
  ASSUME ToolInv, RunInv, MemoryInv, Running, calls = <<>>, cpu = "jz4760"
  PROVE  RefreshedBeforeMode /\ DdrReady
<1>1. PICK timing : timing = reg.TIMING1
  OBVIOUS
<1>2. /\ <<reg.CPCCR, reg.CPPCR>> \in Clocks4760 /\ TimingOf(reg) /\ reg.CFG = ddrc_cfg
      /\ chip = DdrChip(timing)
      /\ reg.MMAP0 = ddrc_mmap(ddrc_cfg, 0) /\ reg.MMAP1 = ddrc_mmap(ddrc_cfg, 1)
      /\ reg.REFCNT = ddrc_refcnt(ns_int(reg))
  BY <1>1, RunEnded DEF ClockForm, DdrForm, Ends
<1>3. PICK twr : twr = Field(DDRC_TIMING1, timing, "TWR")
  OBVIOUS
<1>4. twr \in 0..7
  BY <1>1, <1>2, <1>3, WriteRecovery DEF TimingOf
<1>5. ChipForm(chip, 12, 6, 7, 9) /\ chip[9] = MRS(twr + 1, 0)
  BY <1>2, <1>3, DdrChipForm
<1>6. RefreshedBeforeMode /\ ModeRegister = MRS(twr + 1, 0).addr
  <2>1. PICK n, p, q, m \in Nat : n = 12 /\ p = 6 /\ q = 7 /\ m = 9
    OBVIOUS
  <2>2. ChipForm(chip, n, p, q, m) /\ p \in 1..n /\ q \in 1..n /\ m \in 1..n /\ p < q /\ q < m
    BY <2>1, <1>5
  <2>3. RefreshedBeforeMode /\ ModeRegister = chip[m].addr
    BY <2>2, ChipReady
  <2> QED
    BY <2>1, <2>3, <1>5
<1>7. PICK w : w = ModeRegister
  OBVIOUS
<1>8. Field(DDR_MRS, w, "WR") = twr /\ Field(DDR_MRS, w, "CAS") = 3 /\ Field(DDR_MRS, w, "DLL_RST") = 0
  BY <1>4, <1>6, <1>7, DdrMode
<1>9. Field(DDR_MRS, w, "CAS") + 7 = Field(DDRC_CFG, reg.CFG, "CL")
  BY <1>2, <1>8, DdrCfg
<1>10. Field(DDRC_MMAP, reg.MMAP0, "BASE") # Field(DDRC_MMAP, reg.MMAP1, "BASE")
  BY <1>2, DdrBases
<1>11. DdrRefreshed
  <2>1. PICK clk \in {12000, 36000} : clk = mclk_4760(reg.CPCCR, reg.CPPCR)
    BY <1>2, MemoryClock4760
  <2>2. PICK cnt : cnt = reg.REFCNT
    OBVIOUS
  <2>3. cnt = ddrc_refcnt(Clocks(1000000, clk))
    BY <1>2, <2>1, <2>2, SMT DEF ns_int
  <2>4. (Field(DDRC_REFCNT, cnt, "CON") + 1) * 16 * 2^DDR.CLK_DIV * 1000000 <= DDR_t.REFI * clk
    BY <2>3, DdrRefresh, SMT
  <2> QED
    BY <2>1, <2>2, <2>4, SMT DEF DdrRefreshed
<1> QED
  BY <1>1, <1>3, <1>6, <1>7, <1>8, <1>9, <1>10, <1>11 DEF DdrReady

LEMMA ReadyAfter ==
  ASSUME ToolInv, RunInv, MemoryInv PROVE MemoryReady
<1> SUFFICES ASSUME Done({"boot", "memtest"})
    PROVE  /\ RefreshedBeforeMode
           /\ cpu = "jz4740" /\ Documented(last.cfg) => SdramReady(last.cfg, last.total)
           /\ cpu = "jz4760" => DdrReady
  BY DEF MemoryReady
<1>1. Running /\ calls = <<>>
  BY DEF Done, Running
<1>2. cpu \in CPUs
  BY DEF ToolInv
<1> QED
  BY <1>1, <1>2, SdramAfter, DdrAfter DEF CPUs

LEMMA ClocksAfter ==
  ASSUME ToolInv, RunInv, MemoryInv PROVE ClocksAsConfigured
<1> SUFFICES ASSUME Done({"boot"})
    PROVE  /\ cpu = "jz4740" /\ Documented(last.cfg) /\ Expressible(last.cfg) => ClocksRight(last.cfg)
           /\ cpu = "jz4760" => pllout_4760(reg.CPPCR) = CPU_SPEED_4760
  BY DEF ClocksAsConfigured
<1>1. /\ Running /\ calls = <<>> /\ PllForm(cpu, reg, args)
      /\ Accepted(last.cfg) /\ args = load_args(fw_args(last.cfg))
      /\ cpu = "jz4740" => SdramForm(reg, chip, args, "end") /\ ClockForm(cpu, reg)
  BY RunEnded DEF Done, Running
<1>2. ASSUME cpu = "jz4740", Documented(last.cfg), Expressible(last.cfg) PROVE ClocksRight(last.cfg)
  <2>1. PICK c, a, k, p : c = last.cfg /\ a = args /\ k = reg.CPCCR /\ p = reg.CPPCR
    OBVIOUS
  <2>2. /\ Accepted(c) /\ Documented(c) /\ Expressible(c) /\ a = load_args(fw_args(c))
        /\ k = Cpccr(n2FR(a.phm_div)) /\ p = Cppcr(a) /\ mem_4740(reg, a) # 0 /\ k \in Cpccrs
    BY <2>1, <1>1, <1>2 DEF PllForm, SdramForm, ClockForm, Ends
  <2>3. a.cpu_speed # 0
    <3>1. PICK f \in 1..32, g \in 1..32 : mem_4740(reg, a) = (a.cpu_speed * f) \div g
      <4>1. \A fr \in 0..9 : fr + 1 \in 1..10
        OBVIOUS
      <4>2. Field(CPCCR_4740, k, "CDIV") + 1 \in 1..10 /\ Field(CPCCR_4740, k, "MDIV") + 1 \in 1..10
        BY <2>2, <4>1, CpccrFields DEF Cpccrs
      <4> QED
        BY <4>2, <2>1, Dividers DEF mem_4740
    <3> QED
      BY <3>1, <2>2
  <2>4. /\ pllout_4740(p, c["EXTCLK"] * 1000) = c["CPUSPEED"] * 1000
        /\ mclk_4740(k, p, c["EXTCLK"] * 1000) * c["PHMDIV"] = c["CPUSPEED"] * 1000
    BY <2>2, <2>3, ClocksOf DEF Cppcr
  <2> QED
    BY <2>1, <2>4 DEF ClocksRight
<1>3. ASSUME cpu = "jz4760" PROVE pllout_4760(reg.CPPCR) = CPU_SPEED_4760
  BY <1>1, <1>3, PllTable DEF PllForm
<1> QED
  BY <1>2, <1>3

BoardInv == ToolInv /\ HostInv /\ RunInv /\ MemoryInv

LEMMA BoardMemory == SocSpec => []BoardInv
<1>1. SocInit => BoardInv
  BY ToolInit, MemoryInit DEF BoardInv
<1>2. BoardInv /\ [SocNext]_<<allVars, socVars>> => BoardInv'
  <2> SUFFICES ASSUME BoardInv, [SocNext]_<<allVars, socVars>> PROVE BoardInv'
    OBVIOUS
  <2> USE DEF BoardInv
  <2>1. ToolInv' /\ HostInv' /\ UNCHANGED <<tool, cpu, header>> /\ (tool \in Boards => BoardStep)
    BY ToolStep
  <2>2. CASE tool \in Boards
    BY <2>1, <2>2, MemoryStep
  <2>3. CASE tool \notin Boards
    BY <2>1, <2>3 DEF RunInv, MemoryInv
  <2> QED
    BY <2>1, <2>2, <2>3
<1> QED
  BY <1>1, <1>2, PTL DEF SocSpec

\* After a boot or a memory test, in any order and with resets and other configurations
\* before it, controller and chip agree about the memory, for every configuration file
\* usbboot accepts, every crystal and every speed (sdram_init_4740 and sdram_init_4760).
THEOREM Memory == SocSpec => []MemoryReady
<1>1. BoardInv => MemoryReady
  BY ReadyAfter DEF BoardInv
<1> QED
  BY <1>1, BoardMemory, PTL

\* A boot leaves the PLL at CPUSPEED and the memory at CPUSPEED / PHMDIV for every
\* configuration file that is accepted, documented and expressible, and at the speed of
\* board-jz4760.h on the JZ4760 (pll_init_4740 and pll_init_4760 against parse_configure).
THEOREM Clocked == SocSpec => []ClocksAsConfigured
<1>1. BoardInv => ClocksAsConfigured
  BY ClocksAfter DEF BoardInv
<1> QED
  BY <1>1, BoardMemory, PTL

(* The upload of xbboot ****************************************************)

\* While the requests of an attempt are sent to a device that is still there.
Sending ==
  /\ step \in 1..8
  /\ step \in 2..5 => addr = "stage1"
  /\ step \in 6..8 => addr = "program"
  /\ step \in 3..8 => ~option_upload
  /\ step = 3 => image.id # "empty" /\ (retried => image.id # cpu)
  /\ ~retried =>
       /\ step \in 1..2 => option_upload \/ last.what = "boot"
       /\ pad = 0 => /\ step = 3 => last.what = "boot" \/ image = [id |-> cpu, pad |-> 0]
                     /\ step \in 4..8 => last.what = "boot"
                     /\ step \in 7..8 => program = "loaded"
UploadInv ==
  tool = "xbboot" =>
    /\ phase = "off" => ~retried
    /\ phase \in {"open", "send"} /\ retried => ~option_upload /\ last.what # "boot"
    /\ phase = "open" /\ ~retried => option_upload \/ last.what = "boot"
    /\ phase = "send" /\ handle => Sending
    /\ started = "upload" =>
         /\ phase \in {"open", "quit"}
         /\ pad = 0 /\ ~retried => program = "loaded" /\ last.what = "boot"

LEMMA Requested ==
  /\ Attempt[1] = "set_addr_stage1" /\ Attempt[2] = "bulk_write_stage1" /\ Attempt[3] = "start1"
  /\ Attempt[4] = "get_info" /\ Attempt[5] = "set_addr" /\ Attempt[6] = "bulk_write"
  /\ Attempt[7] = "flush_cache" /\ Attempt[8] = "start2" /\ Len(Attempt) = 8
BY DEF Attempt

\* What the requests of an attempt do, one by one.
LEMMA Answered ==
  ASSUME NEW k \in 1..8, NEW patched, NEW by, Effect(Attempt[k], patched, by)
  PROVE  /\ addr' = IF k = 1 THEN "stage1" ELSE IF k = 5 THEN "program" ELSE addr
         /\ k # 2 /\ k # 6 => image' = image /\ program' = program
         /\ k = 2 /\ addr = "stage1" =>
              program' = program
                /\ image' = IF patched THEN [id |-> cpu, pad |-> pad] ELSE [id |-> "none", pad |-> 0]
         /\ k = 6 /\ addr = "program" =>
              image' = image
                /\ program' = IF last.what # "boot" THEN "lost" ELSE IF patched THEN "patched" ELSE "loaded"
         /\ k = 8 => started' = by
         /\ k # 8 /\ (k = 3 => image.id # "empty") => started' = started
         /\ k = 3 /\ image = [id |-> cpu, pad |-> 0] /\ image.id # "empty" => last'.what = "boot"
         /\ k # 3 \/ image # [id |-> cpu, pad |-> 0] => last' = last
<1>1. PICK req : req = Attempt[k]
  OBVIOUS
<1> USE DEF Effect, File
<1>2. CASE k = 1
  BY <1>1, <1>2, Requested
<1>3. CASE k = 2
  BY <1>1, <1>3, Requested
<1>4. CASE k = 3
  <2>1. req = "start1"
    BY <1>1, <1>4, Requested
  <2> QED
    BY <1>1, <1>4, <2>1 DEF RunStage1
<1>5. CASE k = 4
  BY <1>1, <1>5, Requested
<1>6. CASE k = 5
  BY <1>1, <1>6, Requested
<1>7. CASE k = 6
  BY <1>1, <1>7, Requested
<1>8. CASE k = 7
  BY <1>1, <1>8, Requested
<1>9. CASE k = 8
  <2>1. req = "start2"
    BY <1>1, <1>9, Requested
  <2> QED
    BY <1>1, <1>9, <2>1
<1> QED
  BY <1>2, <1>3, <1>4, <1>5, <1>6, <1>7, <1>8, <1>9

\* The steps of xbboot that leave the upload as it is, its other commands among them.
LEMMA UploadLeft ==
  ASSUME ToolInv, UploadInv, tool = "xbboot", UNCHANGED <<tool, cpu, hostState, pad>>,
         \/ UNCHANGED <<device, last>>
         \/ phase \in {"off", "quit"} /\ started = "no" /\ started' # "upload"
  PROVE  UploadInv'
<1>1. UNCHANGED <<phase, step, handle, option_upload, retried>>
  BY DEF hostState
<1>2. CASE UNCHANGED <<device, last>>
  <2>1. UNCHANGED <<image, addr, program, started, last>>
    BY <1>2 DEF device
  <2> QED
    BY <1>1, <2>1 DEF UploadInv, Sending
<1>3. CASE phase \in {"off", "quit"} /\ started = "no" /\ started' # "upload"
  BY <1>1, <1>3 DEF UploadInv
<1> QED
  BY <1>2, <1>3

LEMMA UploadSucceeds ==
  ASSUME ToolInv, UploadInv, tool = "xbboot", UNCHANGED <<tool, cpu>>, Succeeds
  PROVE  UploadInv'
<1>1. /\ phase = "send" /\ handle /\ started = "no" /\ Sending
      /\ UNCHANGED <<handle, pad, retried>>
      /\ retried => ~option_upload /\ last.what # "boot"
  BY DEF Succeeds, Answers, UploadInv
<1>2. PICK k \in 1..8 : k = step
  BY <1>1 DEF Sending
<1>3. PICK patched : /\ patched = Patches(Attempt[k])
                     /\ Effect(Attempt[k], patched, "upload")
                     /\ option_upload' = (option_upload /\ ~patched)
  BY <1>2 DEF Succeeds
<1>4. k = 2 => (patched <=> option_upload)
  BY <1>3, Requested DEF Patches
<1>5. k \in 3..8 => ~patched /\ ~option_upload /\ ~option_upload'
  BY <1>1, <1>2, <1>3 DEF Patches, Sending
<1>6. cpu \in {"jz4740", "jz4760"}
  BY DEF ToolInv, CPUs
<1>7. k = 8 => phase' = "quit"
  BY <1>2, Requested DEF Succeeds
<1>8. k # 8 => phase' = "send" /\ step' = k + 1
  BY <1>1, <1>2, Requested DEF Succeeds
<1>9. CASE k = 8
  <2>1. started' = "upload" /\ last' = last /\ program' = program
    BY <1>3, <1>9, Answered
  <2>2. pad = 0 /\ ~retried => program = "loaded" /\ last.what = "boot"
    BY <1>1, <1>2, <1>9 DEF Sending
  <2> QED
    BY <1>1, <1>7, <1>9, <2>1, <2>2 DEF UploadInv
<1>10. ASSUME k # 8, Sending', started' = "no", retried => last'.what # "boot"
       PROVE  UploadInv'
  <2>1. retried => ~option_upload'
    BY <1>1, <1>3
  <2> QED
    BY <1>1, <1>8, <1>10, <2>1 DEF UploadInv
<1>11. CASE k = 1
  <2>1. addr' = "stage1" /\ last' = last /\ started' = started
    BY <1>3, <1>11, Answered
  <2>2. step' = 2
    BY <1>8, <1>11
  <2>3. option_upload => option_upload'
    <3>1. ~patched
      BY <1>3, <1>11, Requested DEF Patches
    <3> QED
      BY <1>3, <3>1, Zenon
  <2>4. Sending'
    BY <1>1, <1>2, <1>11, <2>1, <2>2, <2>3 DEF Sending
  <2> QED
    BY <1>1, <1>10, <1>11, <2>1, <2>4
<1>12. CASE k = 2
  <2>1. /\ addr' = "stage1" /\ last' = last /\ started' = started
        /\ image' = IF patched THEN [id |-> cpu, pad |-> pad] ELSE [id |-> "none", pad |-> 0]
    BY <1>1, <1>2, <1>3, <1>12, Answered DEF Sending
  <2>2. step' = 3 /\ ~option_upload'
    <3>1. step' = 3
      BY <1>8, <1>12
    <3>2. ~option_upload'
      BY <1>3, <1>4, <1>12, Zenon
    <3> QED
      BY <3>1, <3>2
  <2>3. Sending'
    BY <1>1, <1>2, <1>4, <1>6, <1>12, <2>1, <2>2 DEF Sending
  <2> QED
    BY <1>1, <1>10, <1>12, <2>1, <2>3
<1>13. CASE k = 3
  <2>1. image.id # "empty" /\ (retried => image.id # cpu)
    BY <1>1, <1>2, <1>13 DEF Sending
  <2>2. /\ addr' = addr /\ started' = started
        /\ image = [id |-> cpu, pad |-> 0] => last'.what = "boot"
        /\ image # [id |-> cpu, pad |-> 0] => last' = last
    BY <1>3, <1>13, <2>1, Answered
  <2>3. step' = 4
    BY <1>8, <1>13
  <2>4. Sending'
    BY <1>1, <1>2, <1>5, <1>13, <2>1, <2>2, <2>3 DEF Sending
  <2>5. retried => last'.what # "boot"
    <3>1. image = [id |-> cpu, pad |-> 0] => image.id = cpu
      OBVIOUS
    <3> QED
      BY <1>1, <2>1, <2>2, <3>1
  <2> QED
    BY <1>1, <1>10, <1>13, <2>2, <2>4, <2>5
<1>14. CASE k = 4
  <2>1. addr' = addr /\ last' = last /\ started' = started
    BY <1>3, <1>14, Answered
  <2>2. step' = 5
    BY <1>8, <1>14
  <2>3. Sending'
    BY <1>1, <1>2, <1>5, <1>14, <2>1, <2>2 DEF Sending
  <2> QED
    BY <1>1, <1>10, <1>14, <2>1, <2>3
<1>15. CASE k = 5
  <2>1. addr' = "program" /\ last' = last /\ started' = started
    BY <1>3, <1>15, Answered
  <2>2. step' = 6
    BY <1>8, <1>15
  <2>3. Sending'
    BY <1>1, <1>2, <1>5, <1>15, <2>1, <2>2 DEF Sending
  <2> QED
    BY <1>1, <1>10, <1>15, <2>1, <2>3
<1>16. CASE k = 6
  <2>1. /\ addr' = "program" /\ last' = last /\ started' = started
        /\ program' = IF last.what # "boot" THEN "lost" ELSE IF patched THEN "patched" ELSE "loaded"
    BY <1>1, <1>2, <1>3, <1>16, Answered DEF Sending
  <2>2. step' = 7
    BY <1>8, <1>16
  <2>3. Sending'
    BY <1>1, <1>2, <1>5, <1>16, <2>1, <2>2 DEF Sending
  <2> QED
    BY <1>1, <1>10, <1>16, <2>1, <2>3
<1>17. CASE k = 7
  <2>1. addr' = addr /\ last' = last /\ started' = started /\ program' = program
    BY <1>3, <1>17, Answered
  <2>2. step' = 8
    BY <1>8, <1>17
  <2>3. Sending'
    BY <1>1, <1>2, <1>5, <1>17, <2>1, <2>2 DEF Sending
  <2> QED
    BY <1>1, <1>10, <1>17, <2>1, <2>3
<1> QED
  BY <1>9, <1>11, <1>12, <1>13, <1>14, <1>15, <1>16, <1>17

\* A request that fails, wherever: what it did before it failed counts.
LEMMA UploadFails ==
  ASSUME ToolInv, UploadInv, tool = "xbboot", UNCHANGED <<tool, cpu>>, Fails
  PROVE  UploadInv'
<1>1. /\ phase = "send" /\ phase' = "open" /\ pad' = pad
      /\ retried' = (~option_upload' /\ last'.what # "boot")
      /\ started # "upload" /\ (handle => Sending)
      /\ retried => last.what # "boot"
  BY DEF Fails, UploadInv
<1>2. UploadInv' <=>
        (started' = "upload" => (pad = 0 /\ ~retried' => program' = "loaded" /\ last'.what = "boot"))
  BY <1>1 DEF UploadInv
<1>3. CASE UNCHANGED <<vars, device>>
  <2>1. started' = started
    BY <1>3 DEF device
  <2> QED
    BY <1>1, <1>2, <2>1
<1>4. ASSUME NEW patched, handle, Effect(Attempt[step], patched, "upload"),
             option_upload' = (option_upload /\ ~patched)
      PROVE  UploadInv'
  <2>1. PICK k \in 1..8 : k = step
    BY <1>1, <1>4 DEF Sending
  <2>2. k = 3 => image.id # "empty"
    BY <1>1, <1>4, <2>1 DEF Sending
  <2>3. Effect(Attempt[k], patched, "upload")
    BY <1>4, <2>1
  <2>4. (k = 8 => started' = "upload") /\ (k # 8 => started' = started)
    BY <2>2, <2>3, Answered
  <2>5. CASE k = 8
    <3>1. last' = last /\ program' = program
      BY <2>3, <2>5, Answered
    <3>2. ~option_upload'
      <4>1. ~option_upload
        BY <1>1, <1>4, <2>1, <2>5 DEF Sending
      <4> QED
        BY <1>4, <4>1, Zenon
    <3>3. ~retried' => last.what = "boot" /\ ~retried
      BY <1>1, <3>1, <3>2
    <3>4. pad = 0 /\ ~retried => program = "loaded"
      <4>1. Sending /\ step = 8
        BY <1>1, <1>4, <2>1, <2>5
      <4> QED
        BY <4>1 DEF Sending
    <3> QED
      BY <1>2, <3>1, <3>3, <3>4
  <2> QED
    BY <1>1, <1>2, <2>4, <2>5
<1> QED
  BY <1>3, <1>4 DEF Fails

LEMMA UploadStep ==
  ASSUME ToolInv, UploadInv, tool = "xbboot", XbNext, ~UsbbootNext
  PROVE  UploadInv'
<1>0. UNCHANGED <<cpu, tool>>
  BY XbbootBoard
<1>1. CASE Upload
  BY <1>1 DEF Upload, UploadInv, device, vars
<1>2. CASE open_xburst_device
  <2>1. /\ phase = "open" /\ started = "no" /\ phase' = "send" /\ step' = 1 /\ handle'
        /\ UNCHANGED <<option_upload, pad, retried>>
    BY <1>2 DEF open_xburst_device
  <2>2. UNCHANGED <<last, started>>
    BY <1>2 DEF open_xburst_device, vars, device
  <2>3. Sending'
    BY <2>1, <2>2 DEF Sending, UploadInv
  <2> QED
    BY <2>1, <2>2, <2>3 DEF UploadInv
<1>3. CASE Succeeds
  BY <1>0, <1>3, UploadSucceeds
<1>4. CASE Fails
  BY <1>0, <1>4, UploadFails
<1>5. ASSUME NEW req \in Requests, Single(req) PROVE UploadInv'
  <2>1. phase \in {"off", "quit"} /\ started = "no" /\ UNCHANGED <<hostState, pad>>
    BY <1>5 DEF Single, Answers
  <2>2. started' # "upload"
    BY <1>5, <2>1 DEF Single, Effect
  <2> QED
    BY <1>0, <2>1, <2>2, UploadLeft
<1>6. CASE XbReset
  BY <1>6 DEF XbReset, PowerOn, NoRun, UploadInv
<1>7. ASSUME UNCHANGED <<xbVars, last>> PROVE UploadInv'
  BY <1>0, <1>7, UploadLeft DEF xbVars
<1>8. CASE xb_gpio_init_4740 \/ xb_gpio_init_4760
  BY <1>7, <1>8 DEF xb_gpio_init_4740, xb_gpio_init_4760, Xb, Rest
<1>9. CASE xb_cpm_start_all_4760
  BY <1>7, <1>9 DEF xb_cpm_start_all_4760, cpm_start_all_4760, Rest, Xb
<1>10. CASE \E c \in CPUs : xb_nand_init(c)
  BY <1>7, <1>10 DEF xb_nand_init, Rest, Xb
<1>11. CASE \/ xb_serial_init_4740 \/ xb_serial_init_4760 \/ xb_pll_init_4740 \/ xb_pll_init_4760
            \/ xb_sdram_precharge \/ xb_sdram_refresh \/ xb_sdram_mode
            \/ xb_ddr_reset \/ xb_ddr_mem_init \/ xb_ddr_map
  <2>1. UNCHANGED xbVars /\ (serial_init \/ InitsMemory)
    BY <1>11 DEF xb_serial_init_4740, xb_serial_init_4760, xb_pll_init_4740, xb_pll_init_4760,
                 xb_sdram_precharge, xb_sdram_refresh, xb_sdram_mode,
                 xb_ddr_reset, xb_ddr_mem_init, xb_ddr_map, Xb, InitsMemory
  <2>2. last' = last
    BY <2>1, CallsRest
  <2> QED
    BY <1>7, <2>1, <2>2
<1> QED
  BY <1>1, <1>2, <1>3, <1>4, <1>5, <1>6, <1>8, <1>9, <1>10, <1>11 DEF XbNext

\* What xbboot -u starts is the user's file, unpatched, in memory that was set up before it
\* was written there, for every order of failed requests, resets and other commands: unless
\* the image with the CPU id was lost before it ran, or the two bytes after xburst_cpu are
\* not zero (main, send_request and stage 1's c_main of xbboot).
THEOREM Uploaded == SocSpec => []StartedInMemory
<1>1. SocInit => UploadInv
  BY DEF SocInit, XbInitOf, UploadInv
<1>2. BoardInv /\ UploadInv /\ [SocNext]_<<allVars, socVars>> => UploadInv'
  <2> SUFFICES ASSUME ToolInv, HostInv, UploadInv, [SocNext]_<<allVars, socVars>>, tool' = "xbboot"
      PROVE  UploadInv'
    BY DEF BoardInv, UploadInv
  <2>1. UNCHANGED <<tool, cpu>> /\ tool = "xbboot"
    BY ToolStep
  <2>2. CASE UNCHANGED <<allVars, socVars>>
    <3>1. UNCHANGED <<hostState, pad, device, last>>
      BY <2>2 DEF allVars, vars, xbVars
    <3> QED
      BY <2>1, <3>1, UploadLeft
  <2>3. CASE SocNext
    <3>1. XbNext
      BY <2>1, <2>3, Steps, PinTool, ClockTool
    <3> QED
      BY <2>1, <3>1, XbTool, UploadStep
  <2> QED
    BY <2>2, <2>3
<1>3. BoardInv /\ UploadInv => StartedInMemory
  <2> SUFFICES ASSUME BoardInv, UploadInv, started = "upload", pad = 0, ~retried
      PROVE  program = "loaded" /\ MemoryReady /\ last.what = "boot"
    BY DEF StartedInMemory
  <2>1. tool = "xbboot"
    BY DEF BoardInv, ToolInv
  <2> QED
    BY <2>1, ReadyAfter DEF BoardInv, UploadInv
<1> QED
  BY <1>1, <1>2, <1>3, BoardMemory, PTL DEF SocSpec
=============================================================================
