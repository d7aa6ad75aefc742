----------------------------- MODULE ClockUnits -----------------------------
(***************************************************************************)
(* The clock macros of jz4740.h and jz4760.h: dividers, clock sources and  *)
(* clock gates, on the registers of the clock controller (CPM).  Macros    *)
(* that use a name the header does not define, and so cannot be compiled,  *)
(* are left out: on the JZ4760 the setters of h1div, udiv, mscdiv, pcmdiv  *)
(* and pll1div, the gates of CLKGR1, select_clk and select_tveclk, the     *)
(* USB PHY's on both.                                                      *)
(***************************************************************************)
EXTENDS Board4760, TLC

(* jz4740.h ****************************************************************)

\* The registers' fields: lowest bit and width.
CpmLayout_4740 ==
  [CPCCR |-> CPCCR_4740 @@ [UDIV |-> <<23, 6>>, UCS |-> <<29, 1>>, I2CS |-> <<31, 1>>],
   CPPCR |-> CPPCR_4740, I2SCDR |-> [I2SDIV |-> <<0, 9>>], LPCDR |-> [PIXDIV |-> <<0, 9>>],
   MSCCDR |-> [MSCDIV |-> <<0, 5>>],
   LCR |-> [LPM |-> <<0, 2>>, DOZE_ON |-> <<2, 1>>, DOZE_DUTY |-> <<3, 5>>],
   SCR |-> [OSC_ENABLE |-> <<4, 1>>, O1ST |-> <<8, 8>>]]
\* The bits of CLKGR.
Gates_4740 ==
  [uart0 |-> 0, tcu |-> 1, rtc |-> 2, i2c |-> 3, ssi |-> 4, aic2 |-> 5, aic1 |-> 6, msc |-> 7,
   sadc |-> 8, cim |-> 9, lcd |-> 10, udc |-> 11, dmac |-> 12, ipu |-> 13, uhc |-> 14, uart1 |-> 15]

\* __cpm_get_ and __cpm_set_: the field of each divider.
Dividers_4740 ==
  [cdiv |-> <<"CPCCR", "CDIV">>, hdiv |-> <<"CPCCR", "HDIV">>, pdiv |-> <<"CPCCR", "PDIV">>,
   mdiv |-> <<"CPCCR", "MDIV">>, ldiv |-> <<"CPCCR", "LDIV">>, udiv |-> <<"CPCCR", "UDIV">>,
   i2sdiv |-> <<"I2SCDR", "I2SDIV">>, pixdiv |-> <<"LPCDR", "PIXDIV">>,
   mscdiv |-> <<"MSCCDR", "MSCDIV">>]
\* What is set and cleared; only cleared or only set where there is one macro.
Switches_4740 ==
  [i2sclk |-> <<"CPCCR", "I2CS">>, usbclk |-> <<"CPCCR", "UCS">>, cko |-> <<"CPCCR", "CLKOEN">>,
   pll_change |-> <<"CPCCR", "CE">>, pllout |-> <<"CPCCR", "PCS">>, pll_bypass |-> <<"CPPCR", "PLLBP">>,
   pll |-> <<"CPPCR", "PLLEN">>]
Power_4740 ==
  [doze_duty |-> <<"LCR", "DOZE_DUTY">>, doze |-> <<"LCR", "DOZE_ON">>, mode |-> <<"LCR", "LPM">>,
   o1st |-> <<"SCR", "O1ST">>, osc_in_sleep |-> <<"SCR", "OSC_ENABLE">>]
\* __cpm_stop_all forgets UART1.
stop_all_4740 == 0..14
\* Each start and stop macro acts on the gate of its name.
GateOf_4740(unit) == Gates_4740[unit]

(* jz4760.h ****************************************************************)

CpmLayout_4760 ==
  [CPCCR |-> CPCCR_4760, CPPCR |-> CPPCR_4760,
   CPPCR1 |-> [PLL1EN |-> <<7, 1>>, P1SDIV |-> <<9, 6>>, P1SCS |-> <<15, 1>>, PLL1OD |-> <<16, 2>>,
               PLL1N |-> <<18, 4>>, PLL1M |-> <<24, 7>>],
   CPPSR |-> [PLLBP |-> <<30, 1>>], USBCDR |-> [UPCS |-> <<30, 1>>],
   I2SCDR |-> [I2SDIV |-> <<0, 9>>, I2PCS |-> <<30, 1>>, I2CS |-> <<31, 1>>],
   LPCDR |-> [PIXDIV |-> <<0, 11>>, LPCS |-> <<29, 1>>, LTCS |-> <<30, 1>>, LSCS |-> <<31, 1>>],
   UHCCDR |-> [UHPCS |-> <<31, 1>>], SSICDR |-> [SSIDIV |-> <<0, 6>>],
   GPSCDR |-> [GPCS |-> <<31, 1>>], PCMCDR |-> [PCMPCS |-> <<30, 1>>, PCMS |-> <<31, 1>>],
   GPUCDR |-> [GPCS |-> <<31, 1>>],
   LCR |-> [LPM |-> <<0, 2>>, DOZE_ON |-> <<2, 1>>, DOZE_DUTY |-> <<3, 5>>],
   OPCR |-> [ERCS |-> <<2, 1>>, O1ST |-> <<8, 8>>]]
\* The bits of CLKGR0.
Gates_4760 ==
  [nemc |-> 0, bch |-> 1, otg |-> 2, msc0 |-> 3, ssi0 |-> 4, i2c0 |-> 5, i2c1 |-> 6, scc |-> 7,
   aic |-> 8, tssi |-> 9, owi |-> 10, msc1 |-> 11, msc2 |-> 12, kbc |-> 13, sadc |-> 14,
   uart0 |-> 15, uart1 |-> 16, uart2 |-> 17, uart3 |-> 18, ssi1 |-> 19, ssi2 |-> 20, dmac |-> 21,
   gps |-> 22, mac |-> 23, uhc |-> 24, mdma |-> 25, cim |-> 26, tve |-> 27, lcd |-> 28, ipu |-> 29,
   ddr |-> 30, emc |-> 31]

Dividers_4760 ==
  [cdiv |-> <<"CPCCR", "CDIV">>, hdiv |-> <<"CPCCR", "HDIV">>, pdiv |-> <<"CPCCR", "PDIV">>,
   mdiv |-> <<"CPCCR", "MDIV">>, i2sdiv |-> <<"I2SCDR", "I2SDIV">>, pixdiv |-> <<"LPCDR", "PIXDIV">>,
   ssidiv |-> <<"SSICDR", "SSIDIV">>]
\* select_pixclk_ext and select_lcdpclk_pll1 set one and the same bit.
Switches_4760 ==
  [i2sclk_pll1 |-> <<"I2SCDR", "I2PCS">>, otgclk_pll1 |-> <<"USBCDR", "UPCS">>,
   lcdpclk_pll1 |-> <<"LPCDR", "LPCS">>, uhcclk_pll1 |-> <<"UHCCDR", "UHPCS">>,
   gpsclk_pll1 |-> <<"GPSCDR", "GPCS">>, pcmclk_pll1 |-> <<"PCMCDR", "PCMPCS">>,
   gpuclk_pll1 |-> <<"GPUCDR", "GPCS">>, pcmclk |-> <<"PCMCDR", "PCMS">>,
   pixclk_tve |-> <<"LPCDR", "LTCS">>, i2sclk |-> <<"I2SCDR", "I2CS">>, exclk_div2 |-> <<"CPCCR", "ECS">>,
   pll_change |-> <<"CPCCR", "CE">>, pllout |-> <<"CPCCR", "PCS">>, pll |-> <<"CPPCR", "PLLEN">>,
   pll1 |-> <<"CPPCR1", "PLL1EN">>, pll_bypass |-> <<"CPPSR", "PLLBP">>]
Power_4760 ==
  [doze_duty |-> <<"LCR", "DOZE_DUTY">>, doze |-> <<"LCR", "DOZE_ON">>, mode |-> <<"LCR", "LPM">>,
   o1st |-> <<"OPCR", "O1ST">>, rtcclk |-> <<"OPCR", "ERCS">>]
stop_all_4760 == 0..31
\* The macros of I2C0 act on the gate of I2C1, and those of I2C1 on I2C0's.
GateOf_4760(unit) ==
  Gates_4760[CASE unit = "i2c0" -> "i2c1" [] unit = "i2c1" -> "i2c0" [] OTHER -> unit]

(* xbboot's copies of the headers ******************************************)

XbCpmLayout_4740 == CpmLayout_4740
XbDividers_4740 == Dividers_4740
XbSwitches_4740 == Switches_4740 @@ Power_4740
XbGateOf_4740(unit) == GateOf_4740(unit)
XbCpmLayout_4760 == CpmLayout_4760
XbGates_4760 == Gates_4760
XbDividers_4760 == Dividers_4760
XbSwitches_4760 == Switches_4760 @@ Power_4760
XbGateOf_4760(unit) == GateOf_4760(unit)

(* Reading and writing *****************************************************)

CpmLayout(h, c) ==
  IF c = "jz4740" THEN IF h = "usbboot" THEN CpmLayout_4740 ELSE XbCpmLayout_4740
  ELSE IF h = "usbboot" THEN CpmLayout_4760 ELSE XbCpmLayout_4760
Fields(h, c) ==
  CASE h = "usbboot" /\ c = "jz4740" -> Dividers_4740 @@ Switches_4740 @@ Power_4740
    [] h = "xbboot" /\ c = "jz4740" -> XbDividers_4740 @@ XbSwitches_4740
    [] h = "usbboot" /\ c = "jz4760" -> Dividers_4760 @@ Switches_4760 @@ Power_4760
    [] h = "xbboot" /\ c = "jz4760" -> XbDividers_4760 @@ XbSwitches_4760
GateOf(h, c, unit) ==
  IF c = "jz4740" THEN IF h = "usbboot" THEN GateOf_4740(unit) ELSE XbGateOf_4740(unit)
  ELSE IF h = "usbboot" THEN GateOf_4760(unit) ELSE XbGateOf_4760(unit)
GatedUnits(h, c) ==
  DOMAIN IF c = "jz4740" THEN Gates_4740 ELSE IF h = "usbboot" THEN Gates_4760 ELSE XbGates_4760
Gates(c) == IF c = "jz4740" THEN Gates_4740 ELSE Gates_4760
stop_all(c) == IF c = "jz4740" THEN stop_all_4740 ELSE stop_all_4760

\* The field named f: its layout in its register.
FieldAt(h, c, f) == CpmLayout(h, c)[Fields(h, c)[f][1]][Fields(h, c)[f][2]]
cpm_get(h, c, r, f) == Value(r[Fields(h, c)[f][1]], FieldAt(h, c, f)[1], FieldAt(h, c, f)[2])

\* Mutant: the old value is not masked out.
cpm_setOr(h, c, r, f, v) ==
  [r EXCEPT ![Fields(h, c)[f][1]] = @ \cup Shifted(v, FieldAt(h, c, f)[1])]

\* The old value is masked out, the new one is not masked.
cpm_set(h, c, r, f, v) ==
  LET low == FieldAt(h, c, f)[1]
      width == FieldAt(h, c, f)[2]
  IN  [r EXCEPT ![Fields(h, c)[f][1]] = (@ \ low..(low + width - 1)) \cup Shifted(v, low)]

(* Frequencies of the JZ4740, in kHz ***************************************)

pllout2_4740(r, extal) ==
  IF Field(CPCCR_4740, r.CPCCR, "PCS") = 1 THEN pllout_4740(r.CPPCR, extal)
  ELSE pllout_4740(r.CPPCR, extal) \div 2

\* __cpm_select_msc_clk: less than one whole clock is minus one, all bits set.
select_msc_clk_4740(r, extal, sd) ==
  [r EXCEPT !.MSCCDR = Shifted(pllout2_4740(r, extal) \div (IF sd THEN 24000 ELSE 16000) - 1, 0)]
=============================================================================
