------------------------------ MODULE PinUnits ------------------------------
(***************************************************************************)
(* The pin macros of jz4740.h and jz4760.h: which pins each __gpio_as_     *)
(* macro gives which function, and beside it what the header's own pin     *)
(* description and the comment over the macro say.  usbboot and xbboot     *)
(* each have a copy of both headers.                                       *)
(***************************************************************************)
EXTENDS Board, TLC

\* A macro: pins it gives function 0, 1 and 2, pins it makes inputs, and whether it
\* clears TRG where the function needs it clear.
Unit(f0, f1) == [f0 |-> f0, f1 |-> f1, f2 |-> {}, in |-> {}, clears |-> FALSE]
Unit4760(f0, f1, f2) == [f0 |-> f0, f1 |-> f1, f2 |-> f2, in |-> {}, clears |-> TRUE]

gpio_as(g, u) ==
  [g EXCEPT !.FUN = (@ \cup u.f0 \cup u.f1 \cup u.f2) \ u.in,
            !.SEL = (@ \ (u.f0 \cup u.f2 \cup u.in)) \cup u.f1,
            !.TRG = (@ \ (IF u.clears THEN u.f0 \cup u.f1 ELSE {})) \cup u.f2,
            !.DIR = @ \ u.in]

(* jz4740.h ****************************************************************)

NorPins(data) == Port(0, data) \cup Port(1, 0..16 \cup {22, 28, 29, 30}) \cup Port(2, {27})
NorHighPins == Port(1, {17, 18}) \cup Port(2, {22, 23}) \cup Port(3, {27, 28})
MemoryUnits_4740 ==
  [sdram_32bit |-> Unit(Sdram32Pins, {}),
   sdram_16bit |-> Unit(Port(0, {1, 3, 5, 7, 15, 17, 22, 26, 28, 30} \cup 8..13)
                          \cup Port(1, 0..16 \cup 19..24 \cup {31}) \cup Port(2, {24}), {}),
   nand |-> [Unit(NandPins, {}) EXCEPT !.in = NandReadyPin],
   nor_8bit |-> Unit(NorPins(0..7), NorHighPins),
   nor_16bit |-> Unit(NorPins(0..15), NorHighPins)]

SerialUnits_4740 ==
  [uart0 |-> Unit({}, Uart0Pins),
   ctsrts |-> [Unit({}, Uart1Pins) EXCEPT !.clears = TRUE],
   uart1 |-> [Unit({}, {}) EXCEPT !.f2 = Uart1Pins]]

MediaUnits_4740 ==
  [lcd_16bit |-> Unit(Port(2, 0..15 \cup 18..21), {}),
   lcd_18bit |-> Unit(Lcd18Pins, {}),
   cim |-> Unit(Port(3, 0..7 \cup 14..17), {}),
   aic |-> Unit({}, Port(3, 18..22)),
   msc |-> Unit(MscPins, {}),
   ssi |-> Unit(Port(3, 18..21), {}),
   i2c |-> Unit({}, Port(3, {23, 24}))]
PwmPin_4740 == [pwm0 |-> 23, pwm1 |-> 24, pwm2 |-> 25, pwm3 |-> 26, pwm4 |-> 27, pwm5 |-> 28,
                pwm6 |-> 30, pwm7 |-> 31]
PwmUnits_4740 == [u \in DOMAIN PwmPin_4740 |-> Unit(Port(3, {PwmPin_4740[u]}), {})]

\* "GPIO Pins Description": the function (-1: an input) and the pins of the signals.
\* UART1 is a second name in the column of function 1, which __gpio_as_uart1 does not use.
Pinout_4740 ==
  [D0_7 |-> <<0, Port(0, 0..7)>>, D8_15 |-> <<0, Port(0, 8..15)>>, D16_31 |-> <<0, Port(0, 16..31)>>,
   A0_16 |-> <<0, Port(1, 0..16)>>, A17_18 |-> <<1, Port(3, {27, 28})>>,
   A19_20 |-> <<1, Port(2, {22, 23})>>, A21_22 |-> <<1, Port(1, {17, 18})>>,
   DCS |-> <<0, Port(1, {19})>>, RAS |-> <<0, Port(1, {20})>>, CAS |-> <<0, Port(1, {21})>>,
   RDWE |-> <<0, Port(1, {22})>>, CKE |-> <<0, Port(1, {23})>>, CKO |-> <<0, Port(1, {24})>>,
   CS1 |-> <<0, Port(1, {25})>>, CS4 |-> <<0, Port(1, {28})>>, RD |-> <<0, Port(1, {29})>>,
   WR |-> <<0, Port(1, {30})>>, WE0 |-> <<0, Port(1, {31})>>, WE1_3 |-> <<0, Port(2, 24..26)>>,
   CLE_ALE |-> <<0, Port(1, {15, 16})>>, WAIT |-> <<0, Port(2, {27})>>,
   FRE_FWE |-> <<0, Port(2, {28, 29})>>, FRB |-> <<-1, Port(2, {30})>>,
   LCD_D0_15 |-> <<0, Port(2, 0..15)>>, LCD_D16_17 |-> <<0, Port(2, {16, 17})>>,
   LCD_PCLK_DE |-> <<0, Port(2, 18..21)>>,
   CIM_D |-> <<0, Port(3, 0..7)>>, CIM_CLK |-> <<0, Port(3, 14..17)>>, MSC |-> <<0, Port(3, 8..13)>>,
   SSI |-> <<0, Port(3, 18..21)>>, AIC |-> <<1, Port(3, 18..22)>>, I2C |-> <<1, Port(3, {23, 24})>>,
   UART0 |-> <<1, Port(3, {25, 26})>>, UART0_CTS_RTS |-> <<1, Port(3, {30, 31})>>,
   UART1 |-> <<2, Port(3, {30, 31})>>]
     @@ [u \in DOMAIN PwmPin_4740 |-> <<0, Port(3, {PwmPin_4740[u]})>>]

\* The comments over the macros.
Signals_4740 ==
  LET address == {"A0_16", "A17_18", "A19_20", "A21_22"}
      sdram == {"D0_7", "D8_15", "A0_16", "DCS", "RAS", "CAS", "CKE", "RDWE", "CKO", "WE0", "WE1_3"}
      nor == address \cup {"CS4", "RD", "WR", "WAIT", "D0_7"}
      lcd == {"LCD_D0_15", "LCD_PCLK_DE"}
  IN  [sdram_32bit |-> sdram \cup {"D16_31"}, sdram_16bit |-> sdram,
       nand |-> {"CS1", "CLE_ALE", "FRE_FWE", "FRB", "RDWE"},
       nor_8bit |-> nor, nor_16bit |-> nor \cup {"D8_15"},
       uart0 |-> {"UART0"}, ctsrts |-> {"UART0_CTS_RTS"}, uart1 |-> {"UART1"},
       lcd_16bit |-> lcd, lcd_18bit |-> lcd \cup {"LCD_D16_17"}, cim |-> {"CIM_D", "CIM_CLK"},
       aic |-> {"AIC"}, msc |-> {"MSC"}, ssi |-> {"SSI"}, i2c |-> {"I2C"}]
         @@ [u \in DOMAIN PwmPin_4740 |-> {u}]

\* The masks of this macro contradict the pin description.
Contradicted_4740 == {"sdram_16bit"}

(* jz4760.h ****************************************************************)

SerialUnits_4760 ==
  [eth |-> Unit4760(Port(3, 0..16), {}, {}),
   uart0 |-> Unit4760(Uart0Pins4760, {}, {}),
   uart0_ctsrts |-> Unit4760(Port(5, 0..3), {}, {}),
   gps |-> Unit4760({}, Port(5, 0..2), {}),
   uart1 |-> Unit4760(Uart1Pins4760, {}, {}),
   uart1_ctsrts |-> Unit4760(Port(3, 26..29), {}, {}),
   uart2 |-> Unit4760(Uart2Pins4760, {}, {}),
   uart2_ctsrts |-> Unit4760(Port(2, 28..31), {}, {}),
   uart3 |-> Unit4760({}, Uart3Pins4760, {}),
   uart3_ctsrts |-> Unit4760(Port(4, {8, 9}), Uart3Pins4760, {})]

\* __gpio_as_nand_8bit(n) and _16bit(n): chip selects 1 and n, TRG left alone.
NandUnit_4760(data, addresses, n) ==
  [Unit(Port(0, data \cup {18, 19, 21, 20 + n}) \cup Port(1, addresses), {})
     EXCEPT !.in = NandReadyPin4760]
NandUnits_4760 ==
  [nand_8bit |-> NandUnit_4760(0..7, {0, 1}, 1), nand_16bit |-> NandUnit_4760(0..15, {0, 1}, 1),
   nand_8bit_cs6 |-> NandUnit_4760(0..7, {0, 1}, 6)]
NorUnit_4760 ==
  [nor |-> Unit4760(Port(0, 0..7 \cup {16, 17, 22, 27}) \cup Port(1, 0..5), {}, {})]

LcdPins(r, g, b) == Port(2, (20 + r)..27 \cup (10 + g)..17 \cup b..7 \cup {8, 9, 18, 19})
LcdSpecialPins == Port(2, {0, 1, 10, 20})
LcdUnits_4760 ==
  [lcd_8bit |-> Unit4760(Port(2, 0..9 \cup {18, 19}), {}, {}),
   lcd_16bit |-> Unit4760(LcdPins(3, 2, 3), {}, {}),
   lcd_18bit |-> Unit4760(LcdPins(2, 2, 2), {}, {}),
   lcd_24bit |-> Unit4760(Port(2, 0..27), {}, {}),
   lcd_special |-> Unit4760(Port(2, 0..27) \ LcdSpecialPins, LcdSpecialPins, {})]
CardUnits_4760 ==
  [cim |-> Unit4760(Port(1, 6..17), {}, {}),
   aic |-> Unit4760(Port(4, {22, 23}), Port(4, {25}), Port(4, {26, 28})),
   msc0_4bit |-> Unit4760(Port(2, {27}), Port(2, {8, 9, 22, 28, 29}), {}),
   msc1_4bit |-> Unit4760(Port(1, 26..31), {}, {}),
   msc2_4bit_1 |-> Unit4760(Port(1, {20, 21} \cup 28..31), {}, {})]
StreamUnits_4760 ==
  [tssi_1 |-> Unit4760({}, Port(1, 6..17), {}),
   tssi_2 |-> Unit4760(Port(1, 22..27), {}, Port(1, {20, 21} \cup 28..31)),
   ssi |-> Unit4760({}, Port(0, {20}), Port(0, {18, 19, 21})),
   ssi_1 |-> Unit4760(Port(5, 10..15), {}, {}),
   ssi2_1 |-> Unit4760({}, Port(5, {20, 21} \cup 28..31), {})]
PwmUnits_4760 ==
  [i2c |-> Unit(Port(4, {12, 13}), {}), pwm0 |-> Unit(Port(4, {20}), {}),
   pwm1 |-> Unit(Port(5, {11}), {}), pwm2 |-> Unit(Port(4, {22}), {}),
   pwm3 |-> Unit(Port(4, {23}), {}), pwm4 |-> Unit(Port(4, {24}), {}),
   pwm5 |-> Unit(Port(4, {25}), {})]

\* "GPIO Pins Description", ports 0 and 1, then ports 2 to 5.
MemoryPinout_4760 ==
  [SD0_7 |-> <<0, Port(0, 0..7)>>, SD8_15 |-> <<0, Port(0, 8..15)>>, RD_WE |-> <<0, Port(0, {16, 17})>>,
   FRE_FWE |-> <<0, Port(0, {18, 19})>>, FRB |-> <<-1, Port(0, {20})>>, CS1 |-> <<0, Port(0, {21})>>,
   CS2 |-> <<0, Port(0, {22})>>, CS6 |-> <<0, Port(0, {26})>>, WAIT |-> <<0, Port(0, {27})>>,
   SSI0_CLK_CE0_DT |-> <<2, Port(0, {18, 19, 21})>>, SSI0_DR |-> <<1, Port(0, {20})>>,
   SA0_5 |-> <<0, Port(1, 0..5)>>, CLE_ALE |-> <<0, Port(1, {2, 3})>>, CIM |-> <<0, Port(1, 6..17)>>,
   TS_1 |-> <<1, Port(1, 6..17)>>, MSC2 |-> <<0, Port(1, {20, 21} \cup 28..31)>>,
   SSI2 |-> <<1, Port(1, {20, 21} \cup 28..31)>>,
   TS_2 |-> <<2, Port(1, {20, 21} \cup 28..31)>>, TSDI2_7 |-> <<0, Port(1, 22..27)>>]
MediaPinout_4760 ==
  [LCD_B0_1 |-> <<0, Port(2, {0, 1})>>, LCD_B2 |-> <<0, Port(2, {2})>>, LCD_B3_7 |-> <<0, Port(2, 3..7)>>,
   LCD_G0_1 |-> <<0, Port(2, {10, 11})>>, LCD_G2_7 |-> <<0, Port(2, 12..17)>>,
   LCD_R0_1 |-> <<0, Port(2, {20, 21})>>, LCD_R2 |-> <<0, Port(2, {22})>>,
   LCD_R3_7 |-> <<0, Port(2, 23..27)>>, LCD_CTL |-> <<0, Port(2, {8, 9, 18, 19})>>,
   LCD_SPECIAL |-> <<1, Port(2, {0, 1, 10, 20})>>,
   UART2 |-> <<0, Port(2, {28, 30})>>, UART2_CTS_RTS |-> <<0, Port(2, {29, 31})>>,
   MII |-> <<0, Port(3, 0..16)>>, MSC1 |-> <<0, Port(3, 20..25)>>,
   UART1 |-> <<0, Port(3, {26, 28})>>, UART1_CTS_RTS |-> <<0, Port(3, {27, 29})>>,
   PWM0 |-> <<0, Port(4, {0})>>, PWM1 |-> <<0, Port(4, {1})>>, PWM2 |-> <<0, Port(4, {2})>>,
   PWM3 |-> <<0, Port(4, {3})>>, PWM4 |-> <<0, Port(4, {4})>>, PWM5 |-> <<0, Port(4, {5})>>,
   SYNC |-> <<1, Port(4, {2})>>, BCLK_RSTN |-> <<2, Port(4, {3, 5})>>, SDATI_SDATO |-> <<0, Port(4, {6, 7})>>,
   UART3 |-> <<1, Port(4, {3, 5})>>, UART3_CTS_RTS |-> <<0, Port(4, {8, 9})>>,
   SSI1 |-> <<1, Port(4, 14..19)>>, MSC0 |-> <<0, Port(4, 20..25)>>, I2C1 |-> <<0, Port(4, {30, 31})>>,
   UART0 |-> <<0, Port(5, {0, 2})>>, UART0_CTS_RTS |-> <<0, Port(5, {1, 3})>>,
   GPS |-> <<1, Port(5, 0..2)>>]

Signals_4760 ==
  LET nand8 == {"SD0_7", "CS1", "CLE_ALE", "FRE_FWE", "FRB"}
      lcd16 == {"LCD_R3_7", "LCD_G2_7", "LCD_B3_7", "LCD_CTL"}
      lcd18 == lcd16 \cup {"LCD_R2", "LCD_B2"}
  IN  [eth |-> {"MII"}, uart0 |-> {"UART0"}, uart0_ctsrts |-> {"UART0", "UART0_CTS_RTS"},
       gps |-> {"GPS"}, uart1 |-> {"UART1"}, uart1_ctsrts |-> {"UART1", "UART1_CTS_RTS"},
       uart2 |-> {"UART2"}, uart2_ctsrts |-> {"UART2", "UART2_CTS_RTS"},
       uart3 |-> {"UART3"}, uart3_ctsrts |-> {"UART3", "UART3_CTS_RTS"},
       nand_8bit |-> nand8, nand_16bit |-> nand8 \cup {"SD8_15"}, nand_8bit_cs6 |-> nand8 \cup {"CS6"},
       nor |-> {"SD0_7", "SA0_5", "CS2", "RD_WE", "WAIT"},
       lcd_8bit |-> {"LCD_B0_1", "LCD_B2", "LCD_B3_7", "LCD_CTL"}, lcd_16bit |-> lcd16,
       lcd_18bit |-> lcd18, lcd_24bit |-> lcd18 \cup {"LCD_R0_1", "LCD_G0_1", "LCD_B0_1"},
       lcd_special |-> {"LCD_SPECIAL"}, cim |-> {"CIM"},
       aic |-> {"SDATI_SDATO", "BCLK_RSTN", "SYNC"}, msc0_4bit |-> {"MSC0"}, msc1_4bit |-> {"MSC1"},
       msc2_4bit_1 |-> {"MSC2"}, tssi_1 |-> {"TS_1"}, tssi_2 |-> {"TS_2", "TSDI2_7"},
       ssi |-> {"SSI0_CLK_CE0_DT", "SSI0_DR"}, ssi_1 |-> {"SSI1"}, ssi2_1 |-> {"SSI2"},
       i2c |-> {"I2C1"}, pwm0 |-> {"PWM0"}, pwm1 |-> {"PWM1"}, pwm2 |-> {"PWM2"}, pwm3 |-> {"PWM3"},
       pwm4 |-> {"PWM4"}, pwm5 |-> {"PWM5"}]

\* The masks of these macros contradict the pin description; in usbboot's header those
\* of the NAND too, where CLE and ALE are on SA0 and SA1.
Contradicted_4760 ==
  {"aic", "msc0_4bit", "msc1_4bit", "ssi_1", "ssi2_1", "i2c", "pwm0", "pwm1", "pwm2", "pwm3", "pwm4", "pwm5"}

(* xbboot's copies of the headers ******************************************)

XbMemoryUnits_4740 == MemoryUnits_4740
XbSerialUnits_4740 == SerialUnits_4740
XbMediaUnits_4740 == MediaUnits_4740
XbPwmUnits_4740 == PwmUnits_4740
XbPinout_4740 == Pinout_4740
XbSerialUnits_4760 == SerialUnits_4760
XbNandUnits_4760 ==
  [nand_8bit |-> NandUnit_4760(0..7, {2, 3}, 1), nand_16bit |-> NandUnit_4760(0..15, {2, 3}, 1),
   nand_8bit_cs6 |-> NandUnit_4760(0..7, {2, 3}, 6)]
XbLcdUnits_4760 == NorUnit_4760 @@ LcdUnits_4760
XbCardUnits_4760 == CardUnits_4760
XbStreamUnits_4760 == StreamUnits_4760
XbPwmUnits_4760 == PwmUnits_4760
XbMemoryPinout_4760 == MemoryPinout_4760
XbMediaPinout_4760 == MediaPinout_4760

(* All of a header *********************************************************)

Headers == {"usbboot", "xbboot"}
Units(h, c) ==
  CASE h = "usbboot" /\ c = "jz4740" ->
         MemoryUnits_4740 @@ SerialUnits_4740 @@ MediaUnits_4740 @@ PwmUnits_4740
    [] h = "xbboot" /\ c = "jz4740" ->
         XbMemoryUnits_4740 @@ XbSerialUnits_4740 @@ XbMediaUnits_4740 @@ XbPwmUnits_4740
    [] h = "usbboot" /\ c = "jz4760" ->
         SerialUnits_4760 @@ NandUnits_4760 @@ NorUnit_4760 @@ LcdUnits_4760 @@ CardUnits_4760
           @@ StreamUnits_4760 @@ PwmUnits_4760
    [] h = "xbboot" /\ c = "jz4760" ->
         XbSerialUnits_4760 @@ XbNandUnits_4760 @@ XbLcdUnits_4760 @@ XbCardUnits_4760
           @@ XbStreamUnits_4760 @@ XbPwmUnits_4760
Pinout(h, c) ==
  CASE h = "usbboot" /\ c = "jz4740" -> Pinout_4740
    [] h = "xbboot" /\ c = "jz4740" -> XbPinout_4740
    [] h = "usbboot" /\ c = "jz4760" -> MemoryPinout_4760 @@ MediaPinout_4760
    [] h = "xbboot" /\ c = "jz4760" -> XbMemoryPinout_4760 @@ XbMediaPinout_4760
Signals(c, u) == IF c = "jz4740" THEN Signals_4740[u] ELSE Signals_4760[u]
Contradicted(h, c) ==
  IF c = "jz4740" THEN Contradicted_4740
  ELSE Contradicted_4760 \cup IF h = "usbboot" THEN {"nand_8bit", "nand_16bit", "nand_8bit_cs6"} ELSE {}
=============================================================================
