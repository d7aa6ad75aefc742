----------------------------- MODULE SocHeader ------------------------------
(***************************************************************************)
(* The macros of jz4740.h and jz4760.h as board code may call them: any    *)
(* unit macro, interrupt macro or clock macro of usbboot's or of xbboot's  *)
(* copy of a header, in any order.  A behaviour is that of Xbboot, or that *)
(* of board code that sets up pins, or that of board code that sets up     *)
(* clocks.  The interrupt macros write their registers one by one, and the *)
(* lines of the pins change in between.                                    *)
(***************************************************************************)
EXTENDS Xbboot, PinUnits, ClockUnits

CONSTANTS
  LinePins,  \* pins used as interrupts, inputs and outputs
  MaxUses    \* bound: macros called

ASSUME SocAssumption == LinePins \subseteq 0..127 /\ MaxUses \in Nat

VARIABLES
  header,   \* whose copy of the header
  held,     \* units given their pins, and no pin of them given to anything else since
  todo,     \* writes of the interrupt macro still to come
  line,     \* external: pins whose line is high
  seen,     \* pins with an event of the kind asked for since their flag was cleared
  cpm,      \* clock registers, but the gates
  gates,    \* the bits of CLKGR, or of CLKGR0, that are 1
  asked,    \* the values last given to the clock macros
  stopped,  \* units whose clock was stopped last
  uses

pinState == <<held, todo, line, seen>>
cpmState == <<cpm, gates, asked, stopped>>
socVars == <<header, pinState, cpmState, uses>>

Use(t) == tool = t /\ todo = <<>> /\ uses < MaxUses /\ uses' = uses + 1
PinStep == UNCHANGED <<cpu, hostVars, calls, args, reg, chip, last, runs, resets, xbVars, header, cpmState>>
ClockStep == UNCHANGED <<vars, xbVars, header, pinState>>

(* Units *******************************************************************)

DocumentedPins(h, c, u) == UNION {Pinout(h, c)[s][2] : s \in Signals(c, u)}
WrittenPins(h, c, u) == LET unit == Units(h, c)[u] IN unit.f0 \cup unit.f1 \cup unit.f2 \cup unit.in
Without(pins) == {v \in held : DocumentedPins(header, cpu, v) \cap pins = {}}

\* The masks agree with the pin description, but for the macros of Contradicted: a unit's
\* pins get the function they have there, and so does a pin of another unit that is written.
GivesFunction(c, unit, k, n) ==
  CASE k = 0 -> n \in unit.f0 \ (unit.f1 \cup unit.f2 \cup unit.in)
    [] k = 1 -> n \in unit.f1 \ (unit.f2 \cup unit.in)
    [] k = 2 -> n \in unit.f2 \ (unit.f1 \cup unit.in) /\ (c = "jz4760" \/ n \in Uart1Pins)
    [] k = -1 -> n \in unit.in \ unit.f1
ASSUME PinTable ==
  \A h \in Headers, c \in CPUs : \A u \in DOMAIN Units(h, c) :
    /\ Units(h, c)[u].in \cap Units(h, c)[u].f1 = {}
    /\ u \notin Contradicted(h, c) =>
         /\ \A s \in Signals(c, u) :
              /\ Pinout(h, c)[s][1] \in -1..2 /\ Pinout(h, c)[s][2] \subseteq 0..191
              /\ \A n \in Pinout(h, c)[s][2] : GivesFunction(c, Units(h, c)[u], Pinout(h, c)[s][1], n)
         /\ \A v \in DOMAIN Units(h, c) \ Contradicted(h, c) :
              DocumentedPins(h, c, v) \cap DocumentedPins(h, c, u) = {} =>
                \A s \in Signals(c, v) : \A n \in Pinout(h, c)[s][2] \cap WrittenPins(h, c, u) :
                  GivesFunction(c, Units(h, c)[u], Pinout(h, c)[s][1], n)

\* A macro that does not clear TRG gets its function only where TRG is clear.
TrgInTheWay(u) ==
  LET unit == Units(header, cpu)[u]
      looked_at == IF cpu = "jz4740" THEN Uart1Pins ELSE 0..191
  IN  ~unit.clears /\ gpio.TRG \cap (unit.f0 \cup unit.f1) \cap looked_at # {}

\* __gpio_as_<unit>()
AsUnit(u) ==
  /\ Use("pins")
  /\ gpio' = gpio_as(gpio, Units(header, cpu)[u])
  /\ held' = IF u \in Contradicted(header, cpu) THEN Without(WrittenPins(header, cpu, u))
             ELSE Without(DocumentedPins(header, cpu, u)) \cup IF TrgInTheWay(u) THEN {} ELSE {u}
  /\ PinStep /\ UNCHANGED <<todo, line, seen>>

\* __gpio_as_func0(n) to __gpio_as_func3(n) of usbboot's headers and of xbboot's; the
\* JZ4740 has the first two and leaves TRG alone.
as_func(g, n, k) ==
  LET selected == IF k % 2 = 0 THEN Func0(g, {n}) ELSE Func1(g, {n})
  IN  IF cpu = "jz4740" THEN selected
      ELSE [selected EXCEPT !.TRG = IF k < 2 THEN @ \ {n} ELSE @ \cup {n}]
xb_as_func(g, n, k) == as_func(g, n, k)

AsFunc(n, k) ==
  /\ Use("pins")
  /\ k <= IF cpu = "jz4740" THEN 1 ELSE 3
  /\ gpio' = IF header = "usbboot" THEN as_func(gpio, n, k) ELSE xb_as_func(gpio, n, k)
  /\ held' = Without({n})
  /\ PinStep /\ UNCHANGED <<todo, line, seen>>

AsOutput(n) ==
  /\ Use("pins")
  /\ gpio' = gpio_as_output(gpio, {n}) /\ held' = Without({n})
  /\ PinStep /\ UNCHANGED <<todo, line, seen>>
AsInput(n) ==
  /\ Use("pins")
  /\ gpio' = gpio_as_input(gpio, {n}) /\ held' = Without({n})
  /\ PinStep /\ UNCHANGED <<todo, line, seen>>

(* Interrupts **************************************************************)

Modes == {"high_level", "low_level", "rise_edge", "fall_edge"}
Interrupting(g, n) == n \notin g.FUN /\ n \in g.SEL
LevelActive(g, n) == n \notin g.TRG /\ (n \in g.DIR <=> n \in line)

\* A write to a set or a clear register; IE has the pins whose IM bit is 0.
Write(n, field, on) == [pin |-> n, field |-> field, on |-> on]

\* Mutant: the flag is cleared before the trigger is chosen.
irq_writesEarly(mode, n) ==
  <<Write(n, "IE", FALSE), Write(n, "FLG", FALSE), Write(n, "TRG", mode \in {"rise_edge", "fall_edge"}),
    Write(n, "FUN", FALSE), Write(n, "SEL", TRUE), Write(n, "DIR", mode \in {"high_level", "rise_edge"}),
    Write(n, "IE", TRUE)>>

irq_writes(mode, n) ==
  <<Write(n, "IE", FALSE), Write(n, "TRG", mode \in {"rise_edge", "fall_edge"}),
    Write(n, "FUN", FALSE), Write(n, "SEL", TRUE), Write(n, "DIR", mode \in {"high_level", "rise_edge"}),
    Write(n, "FLG", FALSE), Write(n, "IE", TRUE)>>

xb_irq_writes(mode, n) == irq_writes(mode, n)

\* __gpio_as_irq_<mode>(n)
AsIrq(mode, n) ==
  /\ Use("pins")
  /\ todo' = (IF header = "usbboot" THEN irq_writes(mode, n) ELSE xb_irq_writes(mode, n)) /\ held' = Without({n})
  /\ PinStep /\ UNCHANGED <<gpio, line, seen>>

\* __gpio_mask_irq, __gpio_unmask_irq and __gpio_ack_irq are one write each.
IrqCall(w) ==
  /\ Use("pins")
  /\ todo' = <<w>>
  /\ PinStep /\ UNCHANGED <<gpio, held, line, seen>>

\* External: how the port answers a write.  An active level sets the flag again, and a
\* pin whose trigger is being changed may set it for no reason.
RegisterWrite ==
  /\ todo # <<>> /\ todo' = Tail(todo)
  /\ LET w == Head(todo)
         g == [gpio EXCEPT ![w.field] = IF w.on THEN @ \cup {w.pin} ELSE @ \ {w.pin}]
         changes == w.field \in {"FUN", "SEL", "TRG", "DIR"}
         active == Interrupting(g, w.pin) /\ LevelActive(g, w.pin)
     IN  /\ \E spurious \in IF changes /\ Interrupting(g, w.pin) THEN BOOLEAN ELSE {FALSE} :
              gpio' = IF active \/ spurious THEN [g EXCEPT !.FLG = @ \cup {w.pin}] ELSE g
         /\ seen' = IF active THEN seen \cup {w.pin}
                    ELSE IF changes \/ w.field = "FLG" THEN seen \ {w.pin} ELSE seen
  /\ PinStep /\ UNCHANGED <<held, line, uses>>

\* External: the line of a pin changes.
LineChanges(n) ==
  /\ tool = "pins"
  /\ line' = IF n \in line THEN line \ {n} ELSE line \cup {n}
  /\ LET event == /\ Interrupting(gpio, n)
                  /\ n \in gpio.DIR <=> n \in line'
     IN  IF event
         THEN gpio' = [gpio EXCEPT !.FLG = @ \cup {n}] /\ seen' = seen \cup {n}
         ELSE UNCHANGED <<gpio, seen>>
  /\ PinStep /\ UNCHANGED <<held, todo, uses>>

(* Clocks ******************************************************************)

ClockStart ==
  LET booted == pll_init_4740(RegReset, load_args(fw_args(load_args_4740)))
  IN  [r \in DOMAIN CpmLayout(header, cpu) |->
         IF cpu = "jz4740" /\ r \in {"CPCCR", "CPPCR"} THEN booted[r] ELSE {}]

\* The values a macro is given, or has: those that fit, smallest and largest.
Given(h, c, f) ==
  CASE f \in {"cko", "pll_change", "pll_bypass", "pll", "pll1", "doze", "osc_in_sleep"} -> {1}
    [] f = "pllout" -> IF c = "jz4740" THEN {0, 1} ELSE {0}
    [] f = "mode" -> {0, 1}
    [] OTHER -> {0, 1, 2^FieldAt(h, c, f)[2] - 1}

\* No field or gate shares a bit with another one that is named here, and the values fit.
Bits(h, c, f) == FieldAt(h, c, f)[1]..(FieldAt(h, c, f)[1] + FieldAt(h, c, f)[2] - 1)
ASSUME ClockTable ==
  \A h \in Headers, c \in CPUs :
    /\ \A f \in DOMAIN Fields(h, c) :
         /\ Fields(h, c)[f][1] \in DOMAIN CpmLayout(h, c)
         /\ \A g \in DOMAIN Fields(h, c) \ {f} :
              Fields(h, c)[f][1] = Fields(h, c)[g][1] => Bits(h, c, f) \cap Bits(h, c, g) = {}
         /\ \A v \in Given(h, c, f) :
              /\ Shifted(v, FieldAt(h, c, f)[1]) \subseteq Bits(h, c, f)
              /\ Value(Shifted(v, FieldAt(h, c, f)[1]), FieldAt(h, c, f)[1], FieldAt(h, c, f)[2]) = v
         /\ c = "jz4740" /\ Fields(h, c)[f][1] = "MSCCDR" => f = "mscdiv"
ASSUME GateTable ==
  \A h \in Headers, c \in CPUs :
    \A unit \in GatedUnits(h, c) \ {"i2c0", "i2c1"} :
      /\ GateOf(h, c, unit) = Gates(c)[unit]
      /\ \A other \in GatedUnits(h, c) \ {unit} : GateOf(h, c, other) # Gates(c)[unit]
      /\ Gates(c)[unit] \in stop_all(c) <=> ~(c = "jz4740" /\ unit = "uart1")

\* __cpm_set_<f>(v), __cpm_select_<f>, __cpm_<f>_enable and the like
SetClock(f, v) ==
  /\ Use("clocks")
  /\ cpm' = cpm_set(header, cpu, cpm, f, v)
  /\ asked' = [g \in DOMAIN asked \cup {f} |-> IF g = f THEN v ELSE asked[g]]
  /\ ClockStep /\ UNCHANGED <<gates, stopped>>

\* __cpm_select_msc_clk(sd)
SelectMscClock(sd) ==
  /\ Use("clocks") /\ cpu = "jz4740"
  /\ cpm' = select_msc_clk_4740(cpm, 12000, sd)
  /\ asked' = [g \in DOMAIN asked \ {"mscdiv"} |-> asked[g]]
  /\ ClockStep /\ UNCHANGED <<gates, stopped>>

\* __cpm_stop_<unit>, __cpm_start_<unit>
StopClock(unit) ==
  /\ Use("clocks")
  /\ gates' = gates \cup {GateOf(header, cpu, unit)} /\ stopped' = stopped \cup {unit}
  /\ ClockStep /\ UNCHANGED <<cpm, asked>>
StartClock(unit) ==
  /\ Use("clocks")
  /\ gates' = gates \ {GateOf(header, cpu, unit)} /\ stopped' = stopped \ {unit}
  /\ ClockStep /\ UNCHANGED <<cpm, asked>>

\* The JZ4740's stop_all lets UART1 run.
StopAllClocks ==
  /\ Use("clocks")
  /\ gates' = stop_all(cpu)
  /\ stopped' = GatedUnits(header, cpu) \ IF cpu = "jz4740" THEN {"uart1"} ELSE {}
  /\ ClockStep /\ UNCHANGED <<cpm, asked>>
StartAllClocks ==
  /\ Use("clocks")
  /\ gates' = {} /\ stopped' = {}
  /\ ClockStep /\ UNCHANGED <<cpm, asked>>

(* The specification *******************************************************)

SocInit ==
  /\ XbInitOf({"usbboot", "xbboot", "pins", "clocks"})
  /\ header \in IF tool \in {"pins", "clocks"} THEN Headers ELSE {"usbboot"}
  /\ held = {} /\ todo = <<>> /\ line = {} /\ seen = {}
  /\ cpm = IF tool = "clocks" THEN ClockStart ELSE <<>>
  /\ asked = <<>>
  /\ gates = {} /\ stopped = {}
  /\ uses = 0

SocNext ==
  \/ XbNext /\ UNCHANGED socVars
  \/ \E u \in DOMAIN Units(header, cpu) : AsUnit(u)
  \/ \E n \in LinePins :
       \/ \E k \in 0..3 : AsFunc(n, k)
       \/ AsOutput(n) \/ AsInput(n) \/ LineChanges(n)
       \/ \E mode \in Modes : AsIrq(mode, n)
       \/ \E w \in {Write(n, "IE", FALSE), Write(n, "IE", TRUE), Write(n, "FLG", FALSE)} : IrqCall(w)
  \/ RegisterWrite
  \/ \E f \in DOMAIN Fields(header, cpu) : \E v \in Given(header, cpu, f) : SetClock(f, v)
  \/ \E sd \in BOOLEAN : SelectMscClock(sd)
  \/ \E unit \in GatedUnits(header, cpu) : StopClock(unit) \/ StartClock(unit)
  \/ StopAllClocks \/ StartAllClocks

SocSpec == SocInit /\ [][SocNext]_<<allVars, socVars>>

(* Properties **************************************************************)

\* The function a pin has: 0 to 3, or -1 for an input and -2 for anything else.
FunctionOf(n) ==
  IF n \in gpio.FUN
  THEN (IF n \in gpio.SEL THEN 1 ELSE 0)
         + (IF n \in gpio.TRG /\ (cpu = "jz4760" \/ n \in Uart1Pins) THEN 2 ELSE 0)
  ELSE IF n \in gpio.SEL \cup gpio.DIR THEN -2 ELSE -1

\* After any macros, in any order, a unit that was given its pins has every signal its
\* macro's comment lists where the header's pin description has it, in the function it
\* has there: until one of these pins is given to something else.  Macros whose masks
\* contradict the description, and the ones that rely on TRG being clear when it is not,
\* are the exceptions (Contradicted, TrgInTheWay).
UnitsKeepTheirPins ==
  \A u \in held : \A s \in Signals(cpu, u) :
    \A n \in Pinout(header, cpu)[s][2] : FunctionOf(n) = Pinout(header, cpu)[s][1]

\* A pin's interrupt that is let through comes from an event of the kind that was asked
\* for, after it was asked for: nothing that happened to the line or to the flag while the
\* macro was changing the trigger is left behind (the order of the irq macros' writes).
NoStaleInterrupt ==
  todo = <<>> => \A n \in gpio.FLG \cap gpio.IE : Interrupting(gpio, n) => n \in seen

\* Both, for every order of unit and interrupt macros: units keep their signals and no
\* interrupt is left from before (the __gpio_as_ macros of jz4740.h and jz4760.h).
PinsAsAsked == UnitsKeepTheirPins /\ NoStaleInterrupt

\* A clock macro's field holds what the macro set, whatever other macros were called since, and a unit's clock is stopped exactly when a macro stopped it last, but
\* for I2C0 and I2C1 of the JZ4760, which are mixed up: no field or gate shares a bit with
\* another (the masks of jz4740.h and jz4760.h).
ClockCallsIndependent ==
  tool = "clocks" =>
    /\ \A f \in DOMAIN asked : cpm_get(header, cpu, cpm, f) = asked[f]
    /\ \A unit \in GatedUnits(header, cpu) \ {"i2c0", "i2c1"} :
         unit \in stopped <=> Gates(cpu)[unit] \in gates
=============================================================================
