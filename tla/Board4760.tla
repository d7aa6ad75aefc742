----------------------------- MODULE Board4760 -----------------------------
(***************************************************************************)
(* The clocks and the DDR2 controller of the JZ4760 as board-jz4760.c sets *)
(* them up.  The speeds and the memory's parameters are the constants of   *)
(* board-jz4760.h, not the host's configuration.                           *)
(***************************************************************************)
EXTENDS Board

\* board-jz4760.h
EXTAL_4760 == 12000
CPU_SPEED_4760 == 144000
DDR == [CS1EN |-> 0, CS0EN |-> 1, DW32 |-> 1, ROW |-> 13, COL |-> 10, BANK8 |-> 1, CL |-> 3,
        CLK_DIV |-> 1]
DDR_t == [RAS |-> 45, RTP |-> 8, RP |-> 42, RCD |-> 42, RC |-> 60, RRD |-> 8, WR |-> 15,
          WTR |-> 2, RFC |-> 128, MINSR |-> 6, XP |-> 2, MRD |-> 2, REFI |-> 7800]

(* Clocks ******************************************************************)

CPCCR_4760 ==
  [CDIV |-> <<0, 4>>, HDIV |-> <<4, 4>>, PDIV |-> <<8, 4>>, MDIV |-> <<12, 4>>,
   H2DIV |-> <<16, 4>>, PCS |-> <<21, 1>>, CE |-> <<22, 1>>, SDIV |-> <<24, 4>>,
   MEM |-> <<30, 1>>, ECS |-> <<31, 1>>]
CPPCR_4760 ==
  [PLLST |-> <<0, 8>>, PLLEN |-> <<8, 1>>, PLLBP |-> <<9, 1>>, PLLOD |-> <<16, 2>>,
   PLLN |-> <<18, 4>>, PLLM |-> <<24, 7>>]

Div_4760 == <<1, 2, 3, 4, 6, 8>>

pllout_4760(CPPCR) ==
  IF Field(CPPCR_4760, CPPCR, "PLLEN") = 1 /\ Field(CPPCR_4760, CPPCR, "PLLBP") = 0
  THEN (EXTAL_4760 * Field(CPPCR_4760, CPPCR, "PLLM") * 2)
         \div (Field(CPPCR_4760, CPPCR, "PLLN") * 2^Field(CPPCR_4760, CPPCR, "PLLOD"))
  ELSE EXTAL_4760
mclk_4760(CPCCR, CPPCR) == pllout_4760(CPPCR) \div Div_4760[Field(CPCCR_4760, CPCCR, "MDIV") + 1]

\* The settings pll_calc_m_n_od tries, in its order <<i, k, j>>, and how far each one is off.
PllTries(speed, xtal) ==
  {t \in (0..3) \X (2..15) \X (4..127) :
     speed * 2^t[1] \in 500000..1500000 /\ xtal \div t[2] \in 1000..15000}
PllOff(speed, xtal, t) ==
  LET out == ((xtal * t[3] * 2) \div t[2]) \div 2^t[1]
  IN  Max({out - speed, speed - out})
TriedBefore(s, t) ==
  \/ s[1] < t[1]
  \/ s[1] = t[1] /\ s[2] < t[2]
  \/ s[1] = t[1] /\ s[2] = t[2] /\ s[3] < t[3]

\* The first of the closest ones; nothing is set when none is in the limits.
pll_calc_m_n_od(speed, xtal) ==
  LET tries == PllTries(speed, xtal)
      least == Min({PllOff(speed, xtal, t) : t \in tries})
      best == {t \in tries : PllOff(speed, xtal, t) = least}
      first == CHOOSE t \in best : \A s \in best \ {t} : TriedBefore(t, s)
  IN  IF tries = {} THEN {}
      ELSE Word(CPPCR_4760, [PLLM |-> first[3], PLLN |-> first[2], PLLOD |-> first[1]])

cfcr_4760 ==
  Word(CPCCR_4760,
    [PCS |-> 1, CDIV |-> n2FR(1), HDIV |-> n2FR(2), H2DIV |-> n2FR(4), PDIV |-> n2FR(4),
     MDIV |-> n2FR(4), SDIV |-> n2FR(4), MEM |-> 1, CE |-> 1,
     ECS |-> IF EXTAL_4760 > 16000 THEN 1 ELSE 0])
plcr1_4760 ==
  pll_calc_m_n_od(CPU_SPEED_4760, EXTAL_4760) \cup Word(CPPCR_4760, [PLLST |-> 32, PLLEN |-> 1])
pll_init_4760(r) == [r EXCEPT !.CPCCR = cfcr_4760, !.CPPCR = plcr1_4760]

(* The DDR controller ******************************************************)

DDRC_CFG ==
  [DW |-> <<0, 1>>, BA |-> <<1, 1>>, CL |-> <<2, 4>>, CS0EN |-> <<6, 1>>, CS1EN |-> <<7, 1>>,
   COL |-> <<8, 2>>, ROW |-> <<10, 2>>, TYPE |-> <<12, 3>>, MPRT |-> <<15, 1>>]
DDRC_CTRL ==
  [RESET |-> <<0, 1>>, CKE |-> <<1, 1>>, UNALIGN |-> <<4, 1>>, PRET |-> <<8, 3>>, PDT |-> <<12, 3>>]
DDRC_TIMING1 ==
  [TWTR |-> <<0, 2>>, TWR |-> <<4, 3>>, TRRD |-> <<8, 2>>, TRC |-> <<12, 4>>, TRCD |-> <<16, 3>>,
   TRP |-> <<20, 3>>, TRTP |-> <<24, 2>>, TRAS |-> <<28, 4>>]
DDRC_TIMING2 == [TMRD |-> <<0, 2>>, TXP |-> <<4, 3>>, TMINSR |-> <<8, 4>>, TRFC |-> <<12, 4>>]
DDRC_REFCNT == [REF_EN |-> <<0, 1>>, CLKDIV |-> <<1, 3>>, CON |-> <<16, 8>>]
DDRC_MMAP == [MASK |-> <<0, 8>>, BASE |-> <<8, 8>>]
DDRC_MDELAY == [MAUTO |-> <<6, 1>>, QUAR |-> <<14, 1>>, HL |-> <<15, 1>>, MSEL |-> <<16, 2>>,
                TSEL |-> <<18, 2>>]
DDR_MRS == [BL |-> <<0, 3>>, CAS |-> <<4, 3>>, DLL_RST |-> <<8, 1>>, WR |-> <<9, 3>>]
DDR_EMRS1 == [OCD |-> <<7, 3>>, DQS_DIS |-> <<10, 1>>]

\* A load mode register command, DDRC_LMR: what the chip is told.
DDRC_LMR(cmd, ba, addr) == [cmd |-> cmd, ba |-> ba, addr |-> addr]
AUREF == DDRC_LMR("AUREF", 0, {})
PREC == DDRC_LMR("PREC", 0, {})
MRS(twr, reset) ==
  DDRC_LMR("LMR", 0, Word(DDR_MRS, [WR |-> twr - 1, DLL_RST |-> reset, CAS |-> DDR.CL, BL |-> 2]))
EMRS1(ocd) == DDRC_LMR("LMR", 1, Word(DDR_EMRS1, [DQS_DIS |-> 1, OCD |-> ocd]))

\* t nanoseconds in clocks of ns nanoseconds, rounded up.
Clocks(t, ns) == (t + ns - 1) \div ns

ddrc_timing1(ns) ==
  Word(DDRC_TIMING1,
    [TRAS |-> Clamp(Clocks(DDR_t.RAS, ns), 1, 31) \div 2,
     TRTP |-> Clamp(Clocks(DDR_t.RTP, ns), 1, 4) - 1,
     TRP |-> Clamp(Clocks(DDR_t.RP, ns), 1, 8) - 1,
     TRCD |-> Clamp(Clocks(DDR_t.RCD, ns), 1, 8) - 1,
     TRC |-> Clamp(Clocks(DDR_t.RC, ns), 3, 31) \div 2,
     TRRD |-> Clamp(Clocks(DDR_t.RRD, ns), 2, 4) - 1,
     TWR |-> Clamp(Clocks(DDR_t.WR, ns), 2, 6) - 1,
     TWTR |-> Min({Clocks(DDR_t.WTR, ns), 4}) - 1])
    \cup Word(DDRC_TIMING1, [TWTR |-> Clamp(DDR_t.WTR \div ns, 1, 4) - 1])
ddrc_timing2(ns) ==
  Word(DDRC_TIMING2,
    [TRFC |-> Min({Clocks(DDR_t.RFC, ns), 31}) \div 2,
     TMINSR |-> (Clamp(DDR_t.MINSR \div ns, 9, 129) - 1) \div 8 - 1,
     TXP |-> DDR_t.XP - 1, TMRD |-> DDR_t.MRD - 1])
\* The interval is unsigned: none at all minus one is the longest.
ddrc_refcnt(ns_int) ==
  LET interval == (DDR_t.REFI \div ns_int) \div (16 * 2^DDR.CLK_DIV)
  IN  Word(DDRC_REFCNT,
        [CLKDIV |-> DDR.CLK_DIV, REF_EN |-> 1,
         CON |-> IF interval = 0 THEN 4095 ELSE Clamp(interval - 1, 1, 4095)])

ddrc_cfg ==
  Word(DDRC_CFG,
    [TYPE |-> 4, ROW |-> DDR.ROW - 12, COL |-> DDR.COL - 8, CS1EN |-> DDR.CS1EN,
     CS0EN |-> DDR.CS0EN, CL |-> (DDR.CL - 1) + 8, BA |-> DDR.BANK8, DW |-> DDR.DW32, MPRT |-> 1])

\* initdram: the size in units of 16 MB, as the map registers count.
initdram(CFG) ==
  (2^(12 + Field(DDRC_CFG, CFG, "ROW") + 8 + Field(DDRC_CFG, CFG, "COL") - 20)
     * (IF Field(DDRC_CFG, CFG, "DW") = 1 THEN 4 ELSE 2)
     * (IF Field(DDRC_CFG, CFG, "BA") = 1 THEN 8 ELSE 4)
     * (DDR.CS1EN + DDR.CS0EN)) \div 16
DDR_MEM_PHY_BASE == 32  \* 0x20000000, in units of 16 MB
ddrc_mmap(CFG, cs) ==
  LET each == initdram(CFG) \div (DDR.CS1EN + DDR.CS0EN)
  IN  Word(DDRC_MMAP, [BASE |-> DDR_MEM_PHY_BASE + cs * each]) \cup (0..7 \ Shifted(each - 1, 0))

\* The commands ddr_mem_init gives the chip; it reads tWR back from TIMING1.
ddr_mem_commands(TIMING1) ==
  LET ddr_twr == Field(DDRC_TIMING1, TIMING1, "TWR") + 1
  IN  <<PREC, DDRC_LMR("LMR", 2, {}), DDRC_LMR("LMR", 3, {}), EMRS1(0), MRS(ddr_twr, 1),
        PREC, AUREF, AUREF, MRS(ddr_twr, 0), EMRS1(7), EMRS1(0)>>

ASSUME LayoutTable4760 ==
  /\ Fits(CPCCR_4760) /\ Fits(CPPCR_4760) /\ Fits(DDRC_CFG) /\ Fits(DDRC_TIMING1)
  /\ Fits(DDRC_REFCNT) /\ Fits(DDRC_MMAP) /\ Fits(DDR_MRS)

\* The settings that are found for the speed of board-jz4760.h.
ASSUME PllTable == pllout_4760(plcr1_4760) = CPU_SPEED_4760
=============================================================================
