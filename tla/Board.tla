------------------------------- MODULE Board -------------------------------
(***************************************************************************)
(* What the board set-up code of stage 1 computes and writes: the pin      *)
(* functions, the clocks and the memory controllers of the JZ4740 (SDRAM)  *)
(* and of the JZ4760 (DDR2), with the register layouts of jz4740.h and     *)
(* jz4760.h.  A register is the set of its bits that are 1, so that a      *)
(* value too wide for its field, or negative, disturbs the neighbours as   *)
(* it does on the chip.  Clocks are in kHz.  Pull-ups, drive strengths and *)
(* delay loops are left out.                                               *)
(***************************************************************************)
EXTENDS Integers, Sequences, FiniteSetsExt

(* Words of 32 bits ********************************************************)

\* v << shift of a C int: two's complement, what leaves the word is lost.
Shifted(v, shift) ==
  {b \in shift..31 : IF b - shift < 31 THEN (v \div 2^(b - shift)) % 2 = 1 ELSE v < 0}

\* A layout gives each field its lowest bit and its width.
Word(layout, fields) == UNION {Shifted(fields[f], layout[f][1]) : f \in DOMAIN fields}
Value(word, low, width) == SumSet({2^(b - low) : b \in word \cap low..(low + width - 1)})
Field(layout, word, f) == Value(word, layout[f][1], layout[f][2])

Clamp(v, lo, hi) == Max({lo, Min({v, hi})})

(* Pins: FUN, SEL, TRG, DIR and FLG are the pins whose bit is set, IE the  *)
(* ones whose interrupt mask bit is clear *********************************)

Port(p, bits) == {32 * p + b : b \in bits}
GpioReset == [FUN |-> {}, SEL |-> {}, TRG |-> {}, DIR |-> {}, IE |-> {}, FLG |-> {}]

\* Writes to PXFUNS and PXSELC, to PXFUNS and PXSELS: function 0, function 1.
Func0(g, pins) == [g EXCEPT !.FUN = @ \cup pins, !.SEL = @ \ pins]
Func1(g, pins) == [g EXCEPT !.FUN = @ \cup pins, !.SEL = @ \cup pins]
gpio_as_output(g, pins) == [g EXCEPT !.FUN = @ \ pins, !.SEL = @ \ pins, !.DIR = @ \cup pins]
gpio_as_input(g, pins) == [g EXCEPT !.FUN = @ \ pins, !.SEL = @ \ pins, !.DIR = @ \ pins]

\* The pins of the JZ4740's units, from the masks of the __gpio_as_ macros.
Sdram32Pins == Port(0, 0..31) \cup Port(1, 0..16 \cup 19..24 \cup {31}) \cup Port(2, 24..26)
NandPins == Port(1, {15, 16, 22, 25}) \cup Port(2, {28, 29})
NandReadyPin == Port(2, {30})
Uart0Pins == Port(3, {25, 26})
Uart1Pins == Port(3, {30, 31})
Lcd18Pins == Port(2, 0..21)
MscPins == Port(3, 8..13)

gpio_as_sdram_32bit(g) == Func0(g, Sdram32Pins)
gpio_as_nand(g) == gpio_as_input(Func0(g, NandPins), NandReadyPin)
gpio_as_uart0(g) == Func1(g, Uart0Pins)
gpio_as_uart1(g) == [Func0(g, Uart1Pins) EXCEPT !.TRG = @ \cup Uart1Pins]
gpio_as_lcd_18bit(g) == Func0(g, Lcd18Pins)
gpio_as_msc(g) == Func0(g, MscPins)

gpio_init_4740(g) == gpio_as_uart1(gpio_as_uart0(gpio_as_sdram_32bit(gpio_as_nand(g))))

\* The JZ4760 has a second selection bit, TRG, which its NAND macros leave alone.
Uart0Pins4760 == Port(5, {0, 2})
Uart1Pins4760 == Port(3, {26, 28})
Uart2Pins4760 == Port(2, {28, 30})
Uart3Pins4760 == Port(4, {3, 5})
NandPins4760 == Port(0, 0..7 \cup {18, 19, 21}) \cup Port(1, {0, 1})
\* xbboot's header has CLE and ALE on other pins.
Nand16Pins4760 == Port(0, 0..15 \cup {18, 19, 21}) \cup Port(1, {2, 3})
NandReadyPin4760 == Port(0, {20})

ClearTRG(g, pins) == [g EXCEPT !.TRG = @ \ pins]
gpio_as_uart0_4760(g) == ClearTRG(Func0(g, Uart0Pins4760), Uart0Pins4760)
gpio_as_uart1_4760(g) == ClearTRG(Func0(g, Uart1Pins4760), Uart1Pins4760)
gpio_as_uart2_4760(g) == ClearTRG(Func0(g, Uart2Pins4760), Uart2Pins4760)
gpio_as_uart3_4760(g) == ClearTRG(Func1(g, Uart3Pins4760), Uart3Pins4760)
gpio_as_nand_8bit_4760(g) == gpio_as_input(Func0(g, NandPins4760), NandReadyPin4760)
gpio_as_nand_16bit_4760(g) == gpio_as_input(Func0(g, Nand16Pins4760), NandReadyPin4760)

gpio_as_uarts_4760(g) ==
  gpio_as_uart3_4760(gpio_as_uart2_4760(gpio_as_uart1_4760(gpio_as_uart0_4760(g))))
gpio_init_4760(g) == gpio_as_nand_8bit_4760(gpio_as_uarts_4760(g))

(* Clocks of the JZ4740 ****************************************************)

CPCCR_4740 ==
  [CDIV |-> <<0, 4>>, HDIV |-> <<4, 4>>, PDIV |-> <<8, 4>>, MDIV |-> <<12, 4>>,
   LDIV |-> <<16, 5>>, PCS |-> <<21, 1>>, CE |-> <<22, 1>>, CLKOEN |-> <<30, 1>>]
CPPCR_4740 ==
  [PLLST |-> <<0, 8>>, PLLEN |-> <<8, 1>>, PLLBP |-> <<9, 1>>, PLLOD |-> <<16, 2>>,
   PLLN |-> <<18, 5>>, PLLM |-> <<23, 9>>]

Div_4740 == <<1, 2, 3, 4, 6, 8, 12, 16, 24, 32>>

\* n2FR[n], the code of divider n; a number that is no divider has code 0.
n2FR(n) == IF \E k \in 1..10 : Div_4740[k] = n THEN (CHOOSE k \in 1..10 : Div_4740[k] = n) - 1 ELSE 0

\* __cpm_get_pllout and __cpm_get_mclk; od of the PLL is 1, 2, 2, 4.
pllout_4740(CPPCR, extal) ==
  IF Field(CPPCR_4740, CPPCR, "PLLEN") = 1 /\ Field(CPPCR_4740, CPPCR, "PLLBP") = 0
  THEN LET no == <<1, 2, 2, 4>>[Field(CPPCR_4740, CPPCR, "PLLOD") + 1]
       IN  (extal \div ((Field(CPPCR_4740, CPPCR, "PLLN") + 2) * no))
             * (Field(CPPCR_4740, CPPCR, "PLLM") + 2)
  ELSE extal
mclk_4740(CPCCR, CPPCR, extal) ==
  pllout_4740(CPPCR, extal) \div Div_4740[Field(CPCCR_4740, CPCCR, "MDIV") + 1]

\* Mutant: PLLM is given the factor itself.
pll_init_4740Factor(r, a) ==
  LET fr == n2FR(a.phm_div)
  IN  [r EXCEPT
         !.CPCCR = Word(CPCCR_4740, [CLKOEN |-> 1, HDIV |-> fr, PDIV |-> fr, MDIV |-> fr, LDIV |-> fr]),
         !.CPPCR = Word(CPPCR_4740, [PLLM |-> (a.cpu_speed * 2) \div a.extal, PLLST |-> 32,
                                     PLLEN |-> 1])]

\* pll_init_4740 for the arguments a; PCS is not set, the USB host gets half.
pll_init_4740(r, a) ==
  LET fr == n2FR(a.phm_div)
      nf == (a.cpu_speed * 2) \div a.extal
  IN  [r EXCEPT
         !.UHCCDR = Shifted((a.cpu_speed \div 2) \div 48000 - 1, 0),
         !.CPCCR = Word(CPCCR_4740, [CLKOEN |-> 1, CDIV |-> n2FR(1), HDIV |-> fr, PDIV |-> fr,
                                     MDIV |-> fr, LDIV |-> fr]),
         !.CPPCR = Word(CPPCR_4740, [PLLM |-> nf - 2, PLLN |-> 0, PLLOD |-> 0, PLLST |-> 32,
                                     PLLEN |-> 1])]

(* SDRAM of the JZ4740 *****************************************************)

DMCR ==
  [TCL |-> <<0, 2>>, TRC |-> <<2, 3>>, TRWL |-> <<5, 2>>, TPC |-> <<8, 3>>, RCD |-> <<11, 2>>,
   TRAS |-> <<13, 3>>, EPIN |-> <<17, 1>>, BA |-> <<19, 1>>, RA |-> <<20, 2>>,
   MRSET |-> <<23, 1>>, RFSH |-> <<24, 1>>, CA |-> <<26, 3>>, BW |-> <<31, 1>>]
SDMR == [BL |-> <<0, 3>>, BT |-> <<3, 1>>, CAS |-> <<4, 3>>, OM |-> <<7, 2>>]

\* SDRAM_CASL, and SDRAM_TRAS, RCD, TPC, TRWL and TREF in ns.
SDRAM_CASL == 3
SDRAM_T == [TRAS |-> 45, RCD |-> 20, TPC |-> 20, TRWL |-> 7, TREF |-> 15625]

\* The clock of the memory, cpu_clk * div[cdiv] / div[mdiv] as the code has it, and its ns.
mem_4740(r, a) ==
  (a.cpu_speed * Div_4740[Field(CPCCR_4740, r.CPCCR, "CDIV") + 1])
    \div Div_4740[Field(CPCCR_4740, r.CPCCR, "MDIV") + 1]
ns_4740(r, a) == 1000000 \div mem_4740(r, a)

\* Mutant: the column address counts from 9.
dmcr_basicColumn(row, col, bank, bw) ==
  Word(DMCR, [RA |-> row - 11, CA |-> col - 9, BA |-> bank, BW |-> bw, EPIN |-> 1,
              TCL |-> IF SDRAM_CASL = 3 THEN 2 ELSE 1])

\* The geometry part, dmcr0 when it is for the mode register write.
dmcr_basic(row, col, bank, bw) ==
  Word(DMCR, [RA |-> row - 11, CA |-> col - 8, BA |-> bank, BW |-> bw, EPIN |-> 1,
              TCL |-> IF SDRAM_CASL = 3 THEN 2 ELSE 1])

dmcr_timing(ns) ==
  Word(DMCR, [TRAS |-> Clamp(SDRAM_T.TRAS \div ns, 4, 11) - 4,
              RCD |-> Min({SDRAM_T.RCD \div ns, 3}), TPC |-> Min({SDRAM_T.TPC \div ns, 7}),
              TRWL |-> Min({SDRAM_T.TRWL \div ns, 3}),
              TRC |-> (Min({(SDRAM_T.TRAS + SDRAM_T.TPC) \div ns, 14}) + 1) \div 2])
sdmode == Word(SDMR, [BT |-> 0, OM |-> 0, BL |-> 2, CAS |-> IF SDRAM_CASL = 3 THEN 3 ELSE 2])

dmcr_4740(r, a) == dmcr_basic(a.row, a.col, a.bank4, a.bw16) \cup dmcr_timing(ns_4740(r, a))
rtcor_4740(r, a) == Min({(SDRAM_T.TREF \div ns_4740(r, a)) \div 64 + 1, 255})

\* A layout's fields share no bit, and what is written to a field is read from it.
FieldBits(layout, f) == layout[f][1]..(layout[f][1] + layout[f][2] - 1)
Fits(layout) ==
  \A f \in DOMAIN layout :
    /\ \A g \in DOMAIN layout \ {f} : FieldBits(layout, f) \cap FieldBits(layout, g) = {}
    /\ Field(layout, {}, f) = 0
    /\ \A v \in 0..(2^layout[f][2] - 1) :
         /\ Shifted(v, layout[f][1]) \subseteq FieldBits(layout, f)
         /\ Field(layout, Shifted(v, layout[f][1]), f) = v
ASSUME LayoutTable == Fits(CPCCR_4740) /\ Fits(CPPCR_4740) /\ Fits(DMCR) /\ Fits(SDMR)
ASSUME PowerTable == 2^0 = 1 /\ \A n \in 0..29 : 2^(n + 1) = 2 * 2^n

\* The size a controller with this DMCR addresses.
SdramSize(word) ==
  2^(11 + Field(DMCR, word, "RA") + 8 + Field(DMCR, word, "CA"))
    * (IF Field(DMCR, word, "BA") = 1 THEN 4 ELSE 2)
    * (IF Field(DMCR, word, "BW") = 1 THEN 2 ELSE 4)
=============================================================================
