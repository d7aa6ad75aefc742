------------------------------- MODULE Stage1 -------------------------------
(***************************************************************************)
(* From usbboot's configuration file to an initialised board: the host's   *)
(* parse_configure and check_dump_cfg (ingenic_cfg.c), the firmware        *)
(* arguments they leave in struct hand, and the runs of the stage 1        *)
(* firmware that use them (main.c, debug.c, common.c, board-jz47x0.c).     *)
(* The functions stage 1 calls are steps; registers keep their contents    *)
(* from run to run until the board is reset.                               *)
(***************************************************************************)
EXTENDS Board4760

CONSTANTS
  Configs,     \* configuration files a user may write
  Pins,        \* pins the gpio commands are used on
  Indices,     \* what the uninitialised index of sdram_init_4760 may hold
  MaxRuns,     \* bound: runs of stage 1
  MaxResets    \* bound: resets of the board

CPUs == {"jz4740", "jz4760"}
Items == {"EXTCLK", "CPUSPEED", "PHMDIV", "BOUDRATE", "BUSWIDTH", "BANKS", "ROWADDR", "COLADDR",
          "PAGESIZE", "OOBSIZE", "PAGEPERBLOCK"}

ASSUME ConfigAssumption ==
  /\ Configs \subseteq [Items -> Nat] /\ Pins \subseteq 0..255 /\ Indices \subseteq Nat
  /\ MaxRuns \in Nat /\ MaxResets \in Nat

VARIABLES
  cpu,      \* the CPU of the board
  cfg,      \* the configuration file in use
  verdict,  \* what parse_configure made of it: "none", "ok", "rejected", "crashed"
  hand,     \* Hand.fw_args
  total,    \* total_size, in units of 1 KB
  calls,    \* what stage 1 has still to call
  args,     \* the globals load_args sets
  gpio,     \* pin functions
  reg,      \* clock and memory controller registers
  chip,     \* external: the memory chip
  last,     \* what the last run of stage 1 was for, and its configuration
  runs, resets

hostVars == <<cfg, verdict, hand, total>>
vars == <<cpu, cfg, verdict, hand, total, calls, args, gpio, reg, chip, last, runs, resets>>

(* The host ****************************************************************)

u8(v) == v % 256

\* struct fw_args as parse_configure fills it; cpu_speed is divided after it was
\* cut to eight bits.
fw_args(c) ==
  [ext_clk |-> u8(c["EXTCLK"]), cpu_speed |-> u8(c["CPUSPEED"]) \div u8(c["EXTCLK"]),
   phm_div |-> u8(c["PHMDIV"]), boudrate |-> c["BOUDRATE"],
   bus_width |-> IF u8(c["BUSWIDTH"]) = 32 THEN 0 ELSE 1, bank_num |-> u8(c["BANKS"]) \div 4,
   row_addr |-> u8(c["ROWADDR"]), col_addr |-> u8(c["COLADDR"])]

\* total_size; row_addr + col_addr - 1 is a shift count.
total_size(h) ==
  2^(h.row_addr + h.col_addr - 10) * 2 * (h.bank_num + 1) * 2 * (2 - h.bus_width)

\* The range checks of the row and column addresses are never true.
check_dump_cfg(h, c) ==
  /\ h.ext_clk \in 12..27
  /\ h.phm_div <= 32
  /\ (h.cpu_speed * h.ext_clk) % 12 = 0
  /\ h.bus_width <= 1 /\ h.bank_num <= 1
  /\ ~(c["PAGESIZE"] < 2048 /\ c["OOBSIZE"] > 16)
  /\ ~(c["PAGESIZE"] < 2048 /\ c["PAGEPERBLOCK"] > 32)
  /\ ~(c["PAGESIZE"] > 512 /\ c["OOBSIZE"] <= 16)
  /\ ~(c["PAGESIZE"] > 512 /\ c["PAGEPERBLOCK"] < 64)

NoArgs == [ext_clk |-> 0, cpu_speed |-> 0, phm_div |-> 0, boudrate |-> 0, bus_width |-> 0,
           bank_num |-> 0, row_addr |-> 0, col_addr |-> 0]

\* A zero EXTCLK, and a zero PHMDIV that passes the checks, divide by zero.
parse_configure(c) ==
  /\ verdict = "none" /\ calls = <<>>
  /\ cfg' = c
  /\ IF u8(c["EXTCLK"]) = 0
     THEN verdict' = "crashed" /\ UNCHANGED <<hand, total>>
     ELSE /\ hand' = fw_args(c)
          /\ total' = total_size(hand')
          /\ verdict' = IF ~check_dump_cfg(hand', c) THEN "rejected"
                        ELSE IF hand'.phm_div = 0 THEN "crashed" ELSE "ok"
  /\ UNCHANGED <<cpu, calls, args, gpio, reg, chip, last, runs, resets>>

(* Stage 1 *****************************************************************)

\* load_args; 19 stands for a 19.2 MHz crystal.
load_args(h) ==
  [extal |-> IF h.ext_clk = 19 THEN 19200 ELSE h.ext_clk * 1000,
   cpu_speed |-> IF h.ext_clk = 19 THEN 192000 ELSE h.cpu_speed * h.ext_clk * 1000,
   phm_div |-> h.phm_div, baudrate |-> h.boudrate, bw16 |-> h.bus_width,
   bank4 |-> h.bank_num, row |-> h.row_addr, col |-> h.col_addr]

\* The order in which c_main, and do_debug for a memory test, call the board.
c_main(c) ==
  IF c = "jz4740" THEN <<"gpio", "pll", "serial", "sdram", "refresh", "mode">>
  ELSE <<"gpio", "cpm", "serial", "pll", "ddr", "ddr_mem", "ddr_map">>
do_debug(c) ==
  IF c = "jz4740" THEN <<"gpio", "serial", "sdram", "refresh", "mode", "check">>
  ELSE <<"gpio", "serial", "ddr", "ddr_mem", "ddr_map", "check">>

Start(what, todo) ==
  /\ verdict = "ok" /\ calls = <<>> /\ runs < MaxRuns
  /\ runs' = runs + 1
  /\ args' = load_args(hand)
  /\ calls' = todo
  /\ last' = [what |-> what, cfg |-> cfg, total |-> total]
  /\ UNCHANGED <<cpu, hostVars, reg, chip, resets>>

Boot == Start("boot", c_main(cpu)) /\ UNCHANGED gpio
Memtest == Start("memtest", do_debug(cpu)) /\ UNCHANGED gpio

\* gpio_test: the pin is an output from now on, whatever it was.
GpioTest(pin) ==
  /\ Start("gpio", <<>>)
  /\ gpio' = gpio_as_output(gpio, {pin})

Called(name) == calls # <<>> /\ Head(calls) = name /\ calls' = Tail(calls)
Rest == UNCHANGED <<cpu, hostVars, args, last, runs, resets>>

gpio_init ==
  /\ Called("gpio")
  /\ gpio' = IF cpu = "jz4740" THEN gpio_init_4740(gpio) ELSE gpio_init_4760(gpio)
  /\ UNCHANGED <<reg, chip>> /\ Rest

cpm_start_all_4760 ==
  /\ Called("cpm")
  /\ reg' = [reg EXCEPT !.CLKGR = {}]
  /\ UNCHANGED <<gpio, chip>> /\ Rest

\* serial_init: the baud rate's divisor; the JZ4760's is fixed at 57600.  A baud rate of
\* zero divides by zero: stage 1 stays there.
uart_div ==
  IF cpu = "jz4740" THEN ((args.extal * 1000) \div 16) \div args.baudrate
  ELSE ((EXTAL_4760 * 1000) \div 16) \div 57600
serial_init ==
  /\ Called("serial") /\ (cpu = "jz4740" => args.baudrate # 0)
  /\ reg' = [reg EXCEPT !.DLR = Shifted(uart_div, 0) \cap 0..15]
  /\ UNCHANGED <<gpio, chip>> /\ Rest

pll_init ==
  /\ Called("pll")
  /\ reg' = IF cpu = "jz4740" THEN pll_init_4740(reg, args) ELSE pll_init_4760(reg)
  /\ UNCHANGED <<gpio, chip>> /\ Rest

\* sdram_init_4740.  Stage 1: precharge by writing SDMR while MRSET is 0.  (Its
\* early return is for a bus width of 0xff, which parse_configure never sends.)  The
\* nanoseconds of a clock that is zero divide by zero: stage 1 stays there.
sdram_precharge ==
  /\ Called("sdram") /\ mem_4740(reg, args) # 0
  /\ reg' = [reg EXCEPT !.DMCR = dmcr_4740(reg, args), !.RTCSR = {}]
  /\ chip' = <<PREC>>
  /\ UNCHANGED gpio /\ Rest

\* Stage 2: refresh cycles from now on, one for every RTCOR * 64 clocks.
sdram_refresh ==
  /\ Called("refresh")
  /\ reg' = [reg EXCEPT !.DMCR = dmcr_4740(reg, args) \cup Word(DMCR, [RFSH |-> 1]),
                        !.RTCOR = Shifted(rtcor_4740(reg, args), 0), !.RTCSR = {0, 1}]
  /\ chip' = Append(chip, AUREF)
  /\ UNCHANGED gpio /\ Rest

\* Stage 3: the mode register, under the smallest geometry, then DMCR for good.
sdram_mode ==
  /\ Called("mode")
  /\ reg' = [reg EXCEPT !.DMCR = dmcr_4740(reg, args) \cup Word(DMCR, [RFSH |-> 1, MRSET |-> 1])]
  /\ chip' = Append(chip, DDRC_LMR("LMR", 0, sdmode))
  /\ UNCHANGED gpio /\ Rest

\* sdram_init_4760 up to its call of ddr_mem_init: the timings follow the clocks in force.
ns_4760 == 1000000 \div mclk_4760(reg.CPCCR, reg.CPPCR)
ddr_reset ==
  /\ Called("ddr")
  /\ reg' = [reg EXCEPT !.CTRL = {}, !.TIMING1 = ddrc_timing1(ns_4760),
                        !.TIMING2 = ddrc_timing2(ns_4760)]
  /\ chip' = <<>>
  /\ UNCHANGED gpio /\ Rest

\* ddr_mem_init; MDELAY is made of an index nothing has set.  The refresh command
\* that it starts with finds CKE low.
ddr_mem_init ==
  /\ Called("ddr_mem")
  /\ \E index \in Indices :
       reg' = [reg EXCEPT
         !.CFG = ddrc_cfg, !.CTRL = Word(DDRC_CTRL, [CKE |-> 1]),
         !.MDELAY = Word(DDRC_MDELAY,
            [TSEL |-> 0, MSEL |-> index \div 4, HL |-> 1 - ((index \div 2) % 2),
             QUAR |-> index % 2, MAUTO |-> 1])]
  /\ chip' = chip \o ddr_mem_commands(reg.TIMING1)
  /\ UNCHANGED gpio /\ Rest

\* The rest of sdram_init_4760; its ns_int is rounded up.
ns_int(r) == Clocks(1000000, mclk_4760(r.CPCCR, r.CPPCR))
ddr_map ==
  /\ Called("ddr_map")
  /\ reg' = [reg EXCEPT
       !.MMAP0 = ddrc_mmap(reg.CFG, 0), !.MMAP1 = ddrc_mmap(reg.CFG, 1),
       !.REFCNT = ddrc_refcnt(ns_int(reg)),
       !.CTRL = Word(DDRC_CTRL, [PDT |-> 0, PRET |-> 1, UNALIGN |-> 1, CKE |-> 1])]
  /\ chip' = Append(chip, AUREF)
  /\ UNCHANGED gpio /\ Rest

\* check_sdram writes and reads the memory; Boot.tla has what it reports.
check_sdram == Called("check") /\ UNCHANGED <<gpio, reg, chip>> /\ Rest

(* The board and the user **************************************************)

RegReset == [CPCCR |-> {}, CPPCR |-> {}, UHCCDR |-> {}, CLKGR |-> 0..31, DLR |-> {}, DMCR |-> {},
             RTCOR |-> {}, RTCSR |-> {}, CFG |-> {}, CTRL |-> {}, TIMING1 |-> {}, TIMING2 |-> {},
             REFCNT |-> {}, MMAP0 |-> {}, MMAP1 |-> {}, MDELAY |-> {}, NFCSR |-> {}]
NoRun == [what |-> "none", cfg |-> [i \in Items |-> 0], total |-> 0]

\* External: the reset button, also in the middle of stage 1.
PowerOn ==
  /\ resets < MaxResets
  /\ resets' = resets + 1
  /\ calls' = <<>> /\ last' = NoRun
  /\ gpio' = GpioReset /\ reg' = RegReset /\ chip' = <<>>
  /\ UNCHANGED <<cpu, hostVars, args, runs>>

ResetBoard == last # NoRun /\ PowerOn

\* usbboot ends; the next one may read another configuration.
Quit ==
  /\ verdict # "none" /\ calls = <<>>
  /\ verdict' = "none" /\ hand' = NoArgs /\ total' = 0
  /\ UNCHANGED <<cpu, cfg, calls, args, gpio, reg, chip, last, runs, resets>>

Init ==
  /\ cpu \in CPUs
  /\ cfg = [i \in Items |-> 0] /\ verdict = "none" /\ hand = NoArgs /\ total = 0
  /\ calls = <<>> /\ args = load_args(NoArgs)
  /\ gpio = GpioReset /\ reg = RegReset /\ chip = <<>>
  /\ last = NoRun /\ runs = 0 /\ resets = 0

Next ==
  \/ \E c \in Configs : parse_configure(c)
  \/ Boot \/ Memtest \/ \E pin \in Pins : GpioTest(pin)
  \/ gpio_init \/ cpm_start_all_4760 \/ serial_init \/ pll_init
  \/ sdram_precharge \/ sdram_refresh \/ sdram_mode
  \/ ddr_reset \/ ddr_mem_init \/ ddr_map \/ check_sdram
  \/ ResetBoard \/ Quit

Spec == Init /\ [][Next]_vars

(* Properties **************************************************************)

\* What usbboot.cfg asks of a configuration: the ranges in its comments and
\* "( CPUSPEED % EXTCLK == 0 ) && ( CPUSPEED % 12 == 0 )".
Documented(c) ==
  /\ c["BUSWIDTH"] \in {16, 32} /\ c["BANKS"] \in {2, 4}
  /\ c["ROWADDR"] \in 11..13 /\ c["COLADDR"] \in 8..12
  /\ c["CPUSPEED"] % c["EXTCLK"] = 0 /\ c["CPUSPEED"] % 12 = 0

Done(whats) == calls = <<>> /\ last.what \in whats

\* The commands since the last precharge of all banks, and the mode register the chip has.
SincePrecharge ==
  LET from == Max({i \in DOMAIN chip : chip[i] = PREC}) IN SubSeq(chip, from, Len(chip))
ModeRegister ==
  LET at == Max({i \in DOMAIN chip : chip[i].cmd = "LMR" /\ chip[i].ba = 0}) IN chip[at].addr
RefreshedBeforeMode ==
  LET seq == SincePrecharge
  IN  \E i, j \in DOMAIN seq : i < j /\ seq[i] = AUREF /\ seq[j].cmd = "LMR" /\ seq[j].ba = 0

SdramReady(c, size) ==
  /\ SdramSize(reg.DMCR) \div 1024 = size
  /\ {23, 24} \subseteq reg.DMCR
  /\ Field(SDMR, ModeRegister, "CAS") = Field(DMCR, reg.DMCR, "TCL") + 1

\* Refreshes come in time for the clock the memory really has.
DdrRefreshed ==
  LET every == (Field(DDRC_REFCNT, reg.REFCNT, "CON") + 1) * 16 * 2^DDR.CLK_DIV
  IN  every * 1000000 <= DDR_t.REFI * mclk_4760(reg.CPCCR, reg.CPPCR)
DdrReady ==
  /\ Field(DDR_MRS, ModeRegister, "WR") = Field(DDRC_TIMING1, reg.TIMING1, "TWR")
  /\ Field(DDR_MRS, ModeRegister, "CAS") + 7 = Field(DDRC_CFG, reg.CFG, "CL")
  /\ Field(DDR_MRS, ModeRegister, "DLL_RST") = 0
  /\ DdrRefreshed
  /\ Field(DDRC_MMAP, reg.MMAP0, "BASE") # Field(DDRC_MMAP, reg.MMAP1, "BASE")

\* After a boot or a memory test, in any order and with resets and other
\* configurations before it, controller and chip agree about the memory: on the
\* JZ4740 the controller addresses as much as the host computed as total_size,
\* whatever documented geometry was configured; the chip was precharged and
\* refreshed before its mode register was set, with the controller's latency;
\* on the JZ4760 the chip's write recovery is the controller's and refreshes are
\* in time for the memory clock in force (sdram_init_4740, sdram_init_4760).
MemoryReady ==
  Done({"boot", "memtest"}) =>
    /\ RefreshedBeforeMode
    /\ cpu = "jz4740" /\ Documented(last.cfg) => SdramReady(last.cfg, last.total)
    /\ cpu = "jz4760" => DdrReady

\* A boot leaves the PLL at CPUSPEED and the memory at CPUSPEED / PHMDIV, when
\* CPUSPEED and EXTCLK fit in their bytes, PHMDIV is a divider the chip has and the
\* crystal is not taken for a 19.2 MHz one (pll_init_4740 against parse_configure).
Expressible(c) ==
  /\ c["CPUSPEED"] < 256 /\ c["EXTCLK"] < 256 /\ c["EXTCLK"] # 19
  /\ c["PHMDIV"] \in {Div_4740[k] : k \in 1..10}
ClocksRight(c) ==
  /\ pllout_4740(reg.CPPCR, c["EXTCLK"] * 1000) = c["CPUSPEED"] * 1000
  /\ mclk_4740(reg.CPCCR, reg.CPPCR, c["EXTCLK"] * 1000) * c["PHMDIV"] = c["CPUSPEED"] * 1000
ClocksAsConfigured ==
  Done({"boot"}) =>
    /\ cpu = "jz4740" /\ Documented(last.cfg) /\ Expressible(last.cfg) => ClocksRight(last.cfg)
    /\ cpu = "jz4760" => pllout_4760(reg.CPPCR) = CPU_SPEED_4760

\* Whatever pins the gpio commands have turned into outputs before, a boot or a
\* memory test gives the memory bus, the NAND and the console their pins back, and no
\* macro of gpio_init takes a pin from one called before it.
PinsKept ==
  Done({"boot", "memtest"}) =>
    IF cpu = "jz4740"
    THEN /\ Sdram32Pins \cup NandPins \subseteq gpio.FUN \ gpio.SEL
         /\ Uart0Pins \subseteq gpio.FUN \cap gpio.SEL
         /\ NandReadyPin \cap (gpio.FUN \cup gpio.DIR) = {}
    ELSE /\ NandPins4760 \cup Uart0Pins4760 \cup Uart1Pins4760 \subseteq gpio.FUN \ (gpio.SEL \cup gpio.TRG)
         /\ NandReadyPin4760 \cap (gpio.FUN \cup gpio.DIR) = {}
=============================================================================
