----------------------------- MODULE BootProofs -----------------------------
(***************************************************************************)
(* What Boot's runs check on small instances, proved for either chip, for  *)
(* every set of commands and for sessions of any length, with any number   *)
(* of failed requests, restarts and power cycles.                          *)
(*                                                                         *)
(* The invariant says, place by place in each command's script, what the   *)
(* requests made so far have established: in the state that init_cfg       *)
(* depends on whatever failed, and in the uploads and the packets while    *)
(* nothing failed.  A place is the command and the number of steps left.   *)
(***************************************************************************)
EXTENDS Boot, SequenceTheorems, TLAPS

\* How many steps are left, and where in which command that is.
Left == Len(todo)
At(c, k) == cmd = c /\ Left = k
Within(c, k, l) == cmd = c /\ Left \in k..l

\* The command under way has its last steps still to do.
OnScript ==
  IF Idle THEN todo = <<>>
  ELSE LET all == Script[cmd] IN
    /\ Len(todo) \in 1..Len(all)
    /\ \A k \in 1..Len(todo) : todo[k] = all[Len(all) - Len(todo) + k]

\* The requests of each command in order, and the step at a place counted
\* from the end of its script.
LEMMA BootWords ==
  LET all == Script["boot"] IN
  /\ Len(all) = 18
  /\ all[1] = "bootcpu" /\ all[2] = "load1" /\ all[3] = "address" /\ all[4] = "bulk"
  /\ all[5] = "start" /\ all[6] = "check" /\ all[7] = "load2" /\ all[8] = "address"
  /\ all[9] = "bulk" /\ all[10] = "check" /\ all[11] = "flush" /\ all[12] = "start"
  /\ all[13] = "check" /\ all[14] = "cfgcpu" /\ all[15] = "hand" /\ all[16] = "bulkhand"
  /\ all[17] = "config" /\ all[18] = "ack"
  BY DEF Script, Upload1, Upload2, init_cfg

LEMMA BootSteps ==
  ASSUME NEW k \in 1..18, NEW w, w = Script["boot"][18 - k + 1]
  PROVE  /\ (k = 18 => w = "bootcpu") /\ (k = 17 => w = "load1") /\ (k = 16 => w = "address")
         /\ (k = 15 => w = "bulk") /\ (k = 14 => w = "start") /\ (k = 13 => w = "check")
         /\ (k = 12 => w = "load2") /\ (k = 11 => w = "address") /\ (k = 10 => w = "bulk")
         /\ (k = 9 => w = "check") /\ (k = 8 => w = "flush") /\ (k = 7 => w = "start")
         /\ (k = 6 => w = "check") /\ (k = 5 => w = "cfgcpu") /\ (k = 4 => w = "hand")
         /\ (k = 3 => w = "bulkhand") /\ (k = 2 => w = "config") /\ (k = 1 => w = "ack")
  BY BootWords

LEMMA MemtestWords ==
  LET all == Script["memtest"] IN
  /\ Len(all) = 7
  /\ all[1] = "debugcpu" /\ all[2] = "load1" /\ all[3] = "address" /\ all[4] = "bulk"
  /\ all[5] = "start" /\ all[6] = "check" /\ all[7] = "result"
  BY DEF Script, Upload1, Upload2, init_cfg

LEMMA MemtestSteps ==
  ASSUME NEW k \in 1..7, NEW w, w = Script["memtest"][7 - k + 1]
  PROVE  /\ (k = 7 => w = "debugcpu") /\ (k = 6 => w = "load1") /\ (k = 5 => w = "address")
         /\ (k = 4 => w = "bulk") /\ (k = 3 => w = "start") /\ (k = 2 => w = "check")
         /\ (k = 1 => w = "result")
  BY MemtestWords

LEMMA GpioWords ==
  LET all == Script["gpio"] IN
  /\ Len(all) = 6
  /\ all[1] = "debugcpu" /\ all[2] = "load1" /\ all[3] = "address" /\ all[4] = "bulk"
  /\ all[5] = "start" /\ all[6] = "check"
  BY DEF Script, Upload1, Upload2, init_cfg

LEMMA GpioSteps ==
  ASSUME NEW k \in 1..6, NEW w, w = Script["gpio"][6 - k + 1]
  PROVE  /\ (k = 6 => w = "debugcpu") /\ (k = 5 => w = "load1") /\ (k = 4 => w = "address")
         /\ (k = 3 => w = "bulk") /\ (k = 2 => w = "start") /\ (k = 1 => w = "check")
  BY GpioWords

LEMMA NandWords ==
  LET all == Script["nand"] IN
  /\ Len(all) = 3
  /\ all[1] = "needboot" /\ all[2] = "op" /\ all[3] = "ack"
  BY DEF Script

LEMMA NandSteps ==
  ASSUME NEW k \in 1..3, NEW w, w = Script["nand"][3 - k + 1]
  PROVE  /\ (k = 3 => w = "needboot") /\ (k = 2 => w = "op") /\ (k = 1 => w = "ack")
  BY NandWords

LEMMA ResetWords ==
  LET all == Script["reset"] IN
  /\ Len(all) = 2
  /\ all[1] = "needboot" /\ all[2] = "reset"
  BY DEF Script

LEMMA ResetSteps ==
  ASSUME NEW k \in 1..2, NEW w, w = Script["reset"][2 - k + 1]
  PROVE  /\ (k = 2 => w = "needboot") /\ (k = 1 => w = "reset")
  BY ResetWords

LEMMA GoWords ==
  LET all == Script["go"] IN
  /\ Len(all) = 1
  /\ all[1] = "start"
  BY DEF Script

LEMMA GoSteps ==
  ASSUME NEW k \in 1..1, NEW w, w = Script["go"][1 - k + 1]
  PROVE  /\ (k = 1 => w = "start")
  BY GoWords

\* How long the scripts are; none is empty, and all are made of known steps.
LEMMA ScriptLength ==
  /\ Len(Script["boot"]) = 18 /\ Len(Script["memtest"]) = 7 /\ Len(Script["gpio"]) = 6
  /\ Len(Script["nand"]) = 3 /\ Len(Script["reset"]) = 2 /\ Len(Script["go"]) = 1
<1>1. Len(Script["boot"]) = 18
  BY BootWords
<1>2. Len(Script["memtest"]) = 7
  BY MemtestWords
<1>3. Len(Script["gpio"]) = 6
  BY GpioWords
<1> QED
  BY <1>1, <1>2, <1>3, NandWords, ResetWords, GoWords

LEMMA ScriptNonempty == \A c \in AllCommands : Len(Script[c]) >= 1 /\ Script[c] # <<>>
<1> SUFFICES ASSUME NEW c \in AllCommands PROVE Len(Script[c]) >= 1 /\ Script[c] # <<>>
  OBVIOUS
<1>1. c = "boot" \/ c = "memtest" \/ c = "gpio" \/ c = "nand" \/ c = "reset" \/ c = "go"
  BY DEF AllCommands
<1>2. Len(Script[c]) \in {18, 7, 6, 3, 2, 1}
  BY <1>1, ScriptLength
<1>3. Len(<<>>) = 0
  OBVIOUS
<1>4. ASSUME Script[c] = <<>> PROVE FALSE
  <2>1. Len(Script[c]) = 0
    BY <1>3, <1>4, Zenon
  <2> QED
    BY <1>2, <2>1
<1> QED
  BY <1>2, <1>4

LEMMA ScriptType == \A c \in AllCommands : Script[c] \in Seq(StepNames)
<1>1. /\ Upload1 \in Seq(StepNames) /\ Upload2 \in Seq(StepNames) /\ init_cfg \in Seq(StepNames)
      /\ <<"bootcpu">> \in Seq(StepNames) /\ <<"debugcpu">> \in Seq(StepNames) /\ <<"result">> \in Seq(StepNames)
      /\ <<"start">> \in Seq(StepNames) /\ <<"needboot", "op", "ack">> \in Seq(StepNames)
      /\ <<"needboot", "reset">> \in Seq(StepNames)
  BY DEF Upload1, Upload2, init_cfg, StepNames
<1>2. <<"bootcpu">> \o Upload1 \in Seq(StepNames) /\ <<"debugcpu">> \o Upload1 \in Seq(StepNames)
  BY <1>1, ConcatProperties
<1>3. <<"bootcpu">> \o Upload1 \o Upload2 \in Seq(StepNames)
  BY <1>1, <1>2, ConcatProperties
<1>4. /\ <<"bootcpu">> \o Upload1 \o Upload2 \o init_cfg \in Seq(StepNames)
      /\ <<"debugcpu">> \o Upload1 \o <<"result">> \in Seq(StepNames)
  BY <1>1, <1>2, <1>3, ConcatProperties
<1>5. /\ Script["boot"] \in Seq(StepNames) /\ Script["memtest"] \in Seq(StepNames)
      /\ Script["gpio"] \in Seq(StepNames) /\ Script["nand"] \in Seq(StepNames)
      /\ Script["reset"] \in Seq(StepNames) /\ Script["go"] \in Seq(StepNames)
  BY <1>1, <1>2, <1>4 DEF Script
<1> QED
  BY <1>5 DEF AllCommands

\* The converse: where in its script a command makes a given request.
LEMMA BootAt ==
  ASSUME NEW k \in 1..18, NEW w, w = Script["boot"][18 - k + 1]
  PROVE  /\ (w = "bootcpu" => k = 18)
         /\ (w = "load1" => k = 17)
         /\ (w = "address" => k = 16 \/ k = 11)
         /\ (w = "bulk" => k = 15 \/ k = 10)
         /\ (w = "start" => k = 14 \/ k = 7)
         /\ (w = "check" => k = 13 \/ k = 9 \/ k = 6)
         /\ (w = "load2" => k = 12)
         /\ (w = "flush" => k = 8)
         /\ (w = "cfgcpu" => k = 5)
         /\ (w = "hand" => k = 4)
         /\ (w = "bulkhand" => k = 3)
         /\ (w = "config" => k = 2)
         /\ (w = "ack" => k = 1)
         /\ w \in {"bootcpu", "load1", "address", "bulk", "start", "check", "load2", "flush", "cfgcpu", "hand", "bulkhand", "config", "ack"}
  BY BootSteps

LEMMA MemtestAt ==
  ASSUME NEW k \in 1..7, NEW w, w = Script["memtest"][7 - k + 1]
  PROVE  /\ (w = "debugcpu" => k = 7)
         /\ (w = "load1" => k = 6)
         /\ (w = "address" => k = 5)
         /\ (w = "bulk" => k = 4)
         /\ (w = "start" => k = 3)
         /\ (w = "check" => k = 2)
         /\ (w = "result" => k = 1)
         /\ w \in {"debugcpu", "load1", "address", "bulk", "start", "check", "result"}
  BY MemtestSteps

LEMMA GpioAt ==
  ASSUME NEW k \in 1..6, NEW w, w = Script["gpio"][6 - k + 1]
  PROVE  /\ (w = "debugcpu" => k = 6)
         /\ (w = "load1" => k = 5)
         /\ (w = "address" => k = 4)
         /\ (w = "bulk" => k = 3)
         /\ (w = "start" => k = 2)
         /\ (w = "check" => k = 1)
         /\ w \in {"debugcpu", "load1", "address", "bulk", "start", "check"}
  BY GpioSteps

LEMMA NandAt ==
  ASSUME NEW k \in 1..3, NEW w, w = Script["nand"][3 - k + 1]
  PROVE  /\ (w = "needboot" => k = 3)
         /\ (w = "op" => k = 2)
         /\ (w = "ack" => k = 1)
         /\ w \in {"needboot", "op", "ack"}
  BY NandSteps

LEMMA ResetAt ==
  ASSUME NEW k \in 1..2, NEW w, w = Script["reset"][2 - k + 1]
  PROVE  /\ (w = "needboot" => k = 2)
         /\ (w = "reset" => k = 1)
         /\ w \in {"needboot", "reset"}
  BY ResetSteps

LEMMA GoAt ==
  ASSUME NEW k \in 1..1, NEW w, w = Script["go"][1 - k + 1]
  PROVE  /\ (w = "start" => k = 1)
         /\ w \in {"start"}
  BY GoSteps

\* At which places of which commands the next step is a given request.
LEMMA StepAt ==
  ASSUME OnScript, ~Idle, cmd \in AllCommands
  PROVE  /\ (Step = "bootcpu" => At("boot", 18))
         /\ (Step = "load1" => At("boot", 17) \/ At("memtest", 6) \/ At("gpio", 5))
         /\ (Step = "address" => At("boot", 16) \/ At("boot", 11) \/ At("memtest", 5) \/ At("gpio", 4))
         /\ (Step = "bulk" => At("boot", 15) \/ At("boot", 10) \/ At("memtest", 4) \/ At("gpio", 3))
         /\ (Step = "start" => At("boot", 14) \/ At("boot", 7) \/ At("memtest", 3) \/ At("gpio", 2) \/ At("go", 1))
         /\ (Step = "check" => At("boot", 13) \/ At("boot", 9) \/ At("boot", 6) \/ At("memtest", 2) \/ At("gpio", 1))
         /\ (Step = "load2" => At("boot", 12))
         /\ (Step = "flush" => At("boot", 8))
         /\ (Step = "cfgcpu" => At("boot", 5))
         /\ (Step = "hand" => At("boot", 4))
         /\ (Step = "bulkhand" => At("boot", 3))
         /\ (Step = "config" => At("boot", 2))
         /\ (Step = "ack" => At("boot", 1) \/ At("nand", 1))
         /\ (Step = "debugcpu" => At("memtest", 7) \/ At("gpio", 6))
         /\ (Step = "result" => At("memtest", 1))
         /\ (Step = "needboot" => At("nand", 3) \/ At("reset", 2))
         /\ (Step = "op" => At("nand", 2))
         /\ (Step = "reset" => At("reset", 1))
         /\ Step \in StepNames
<1>1. Len(todo) \in 1..Len(Script[cmd]) /\ Step = Script[cmd][Len(Script[cmd]) - Len(todo) + 1]
  BY DEF OnScript, Step
<1>2. CASE cmd = "boot"
  <2>1. Len(Script["boot"]) = 18
    BY BootWords
  <2>2. Len(todo) \in 1..18 /\ Step = Script["boot"][18 - Len(todo) + 1]
    BY <1>1, <2>1, <1>2
  <2>3. /\ (Step = "bootcpu" => Len(todo) = 18)
        /\ (Step = "load1" => Len(todo) = 17)
        /\ (Step = "address" => Len(todo) = 16 \/ Len(todo) = 11)
        /\ (Step = "bulk" => Len(todo) = 15 \/ Len(todo) = 10)
        /\ (Step = "start" => Len(todo) = 14 \/ Len(todo) = 7)
        /\ (Step = "check" => Len(todo) = 13 \/ Len(todo) = 9 \/ Len(todo) = 6)
        /\ (Step = "load2" => Len(todo) = 12)
        /\ (Step = "flush" => Len(todo) = 8)
        /\ (Step = "cfgcpu" => Len(todo) = 5)
        /\ (Step = "hand" => Len(todo) = 4)
        /\ (Step = "bulkhand" => Len(todo) = 3)
        /\ (Step = "config" => Len(todo) = 2)
        /\ (Step = "ack" => Len(todo) = 1)
        /\ Step \in {"bootcpu", "load1", "address", "bulk", "start", "check", "load2", "flush",
                     "cfgcpu", "hand", "bulkhand", "config", "ack"}
    BY <2>2, BootAt
  <2> QED
    BY <2>3, <1>2 DEF At, Left, StepNames
<1>3. CASE cmd = "memtest"
  <2>1. Len(Script["memtest"]) = 7
    BY MemtestWords
  <2>2. Len(todo) \in 1..7 /\ Step = Script["memtest"][7 - Len(todo) + 1]
    BY <1>1, <2>1, <1>3
  <2>3. /\ (Step = "debugcpu" => Len(todo) = 7)
        /\ (Step = "load1" => Len(todo) = 6)
        /\ (Step = "address" => Len(todo) = 5)
        /\ (Step = "bulk" => Len(todo) = 4)
        /\ (Step = "start" => Len(todo) = 3)
        /\ (Step = "check" => Len(todo) = 2)
        /\ (Step = "result" => Len(todo) = 1)
        /\ Step \in {"debugcpu", "load1", "address", "bulk", "start", "check", "result"}
    BY <2>2, MemtestAt
  <2> QED
    BY <2>3, <1>3 DEF At, Left, StepNames
<1>4. CASE cmd = "gpio"
  <2>1. Len(Script["gpio"]) = 6
    BY GpioWords
  <2>2. Len(todo) \in 1..6 /\ Step = Script["gpio"][6 - Len(todo) + 1]
    BY <1>1, <2>1, <1>4
  <2>3. /\ (Step = "debugcpu" => Len(todo) = 6)
        /\ (Step = "load1" => Len(todo) = 5)
        /\ (Step = "address" => Len(todo) = 4)
        /\ (Step = "bulk" => Len(todo) = 3)
        /\ (Step = "start" => Len(todo) = 2)
        /\ (Step = "check" => Len(todo) = 1)
        /\ Step \in {"debugcpu", "load1", "address", "bulk", "start", "check"}
    BY <2>2, GpioAt
  <2> QED
    BY <2>3, <1>4 DEF At, Left, StepNames
<1>5. CASE cmd = "nand"
  <2>1. Len(Script["nand"]) = 3
    BY NandWords
  <2>2. Len(todo) \in 1..3 /\ Step = Script["nand"][3 - Len(todo) + 1]
    BY <1>1, <2>1, <1>5
  <2>3. /\ (Step = "needboot" => Len(todo) = 3)
        /\ (Step = "op" => Len(todo) = 2)
        /\ (Step = "ack" => Len(todo) = 1)
        /\ Step \in {"needboot", "op", "ack"}
    BY <2>2, NandAt
  <2> QED
    BY <2>3, <1>5 DEF At, Left, StepNames
<1>6. CASE cmd = "reset"
  <2>1. Len(Script["reset"]) = 2
    BY ResetWords
  <2>2. Len(todo) \in 1..2 /\ Step = Script["reset"][2 - Len(todo) + 1]
    BY <1>1, <2>1, <1>6
  <2> QED
    BY <2>2, <1>6, ResetAt DEF At, Left, StepNames
<1>7. CASE cmd = "go"
  <2>1. Len(Script["go"]) = 1
    BY GoWords
  <2>2. Len(todo) \in 1..1 /\ Step = Script["go"][1 - Len(todo) + 1]
    BY <1>1, <2>1, <1>7
  <2> QED
    BY <2>2, <1>7, GoAt DEF At, Left, StepNames
<1> QED
  BY <1>2, <1>3, <1>4, <1>5, <1>6, <1>7 DEF AllCommands

\* Which request is next at each place of each command.
LEMMA AtStep ==
  ASSUME OnScript, ~Idle, cmd \in AllCommands
  PROVE  /\ (At("boot", 18) => Step = "bootcpu") /\ (At("boot", 17) => Step = "load1")
         /\ (At("boot", 16) => Step = "address") /\ (At("boot", 15) => Step = "bulk")
         /\ (At("boot", 14) => Step = "start") /\ (At("boot", 13) => Step = "check")
         /\ (At("boot", 12) => Step = "load2") /\ (At("boot", 11) => Step = "address")
         /\ (At("boot", 10) => Step = "bulk") /\ (At("boot", 9) => Step = "check")
         /\ (At("boot", 8) => Step = "flush") /\ (At("boot", 7) => Step = "start")
         /\ (At("boot", 6) => Step = "check") /\ (At("boot", 5) => Step = "cfgcpu")
         /\ (At("boot", 4) => Step = "hand") /\ (At("boot", 3) => Step = "bulkhand")
         /\ (At("boot", 2) => Step = "config") /\ (At("boot", 1) => Step = "ack")
         /\ (At("memtest", 7) => Step = "debugcpu") /\ (At("memtest", 6) => Step = "load1")
         /\ (At("memtest", 5) => Step = "address") /\ (At("memtest", 4) => Step = "bulk")
         /\ (At("memtest", 3) => Step = "start") /\ (At("memtest", 2) => Step = "check")
         /\ (At("memtest", 1) => Step = "result")
         /\ (At("gpio", 6) => Step = "debugcpu") /\ (At("gpio", 5) => Step = "load1")
         /\ (At("gpio", 4) => Step = "address") /\ (At("gpio", 3) => Step = "bulk")
         /\ (At("gpio", 2) => Step = "start") /\ (At("gpio", 1) => Step = "check")
         /\ (At("nand", 3) => Step = "needboot") /\ (At("nand", 2) => Step = "op")
         /\ (At("nand", 1) => Step = "ack")
         /\ (At("reset", 2) => Step = "needboot") /\ (At("reset", 1) => Step = "reset")
         /\ (At("go", 1) => Step = "start")
<1>1. Len(todo) \in 1..Len(Script[cmd]) /\ Step = Script[cmd][Len(Script[cmd]) - Len(todo) + 1]
  BY DEF OnScript, Step
<1>2. CASE cmd = "boot"
  <2>1. Len(todo) \in 1..18 /\ Step = Script["boot"][18 - Len(todo) + 1]
    BY <1>1, <1>2, ScriptLength
  <2> QED
    BY <2>1, <1>2, BootSteps DEF At, Left
<1>3. CASE cmd = "memtest"
  <2>1. Len(todo) \in 1..7 /\ Step = Script["memtest"][7 - Len(todo) + 1]
    BY <1>1, <1>3, ScriptLength
  <2> QED
    BY <2>1, <1>3, MemtestSteps DEF At, Left
<1>4. CASE cmd = "gpio"
  <2>1. Len(todo) \in 1..6 /\ Step = Script["gpio"][6 - Len(todo) + 1]
    BY <1>1, <1>4, ScriptLength
  <2> QED
    BY <2>1, <1>4, GpioSteps DEF At, Left
<1>5. CASE cmd = "nand"
  <2>1. Len(todo) \in 1..3 /\ Step = Script["nand"][3 - Len(todo) + 1]
    BY <1>1, <1>5, ScriptLength
  <2> QED
    BY <2>1, <1>5, NandSteps DEF At, Left
<1>6. CASE cmd = "reset"
  <2>1. Len(todo) \in 1..2 /\ Step = Script["reset"][2 - Len(todo) + 1]
    BY <1>1, <1>6, ScriptLength
  <2> QED
    BY <2>1, <1>6, ResetSteps DEF At, Left
<1>7. CASE cmd = "go"
  <2>1. Len(todo) \in 1..1 /\ Step = Script["go"][1 - Len(todo) + 1]
    BY <1>1, <1>7, ScriptLength
  <2> QED
    BY <2>1, <1>7, GoSteps DEF At, Left
<1> QED
  BY <1>2, <1>3, <1>4, <1>5, <1>6, <1>7 DEF AllCommands

\* The host goes on to the next step.
Advance ==
  /\ cmd' = cmd /\ report' = report /\ Left > 1 /\ Left' = Left - 1
  /\ todo' \in Seq(StepNames) /\ todo' # <<>> /\ OnScript'

\* A command under way has a step left.
LEMMA LeftType ==
  ASSUME TypeOK, OnScript
  PROVE  Left \in Nat /\ (~Idle => Left >= 1 /\ cmd \in AllCommands)
  BY DEF TypeOK, OnScript, Left, Idle

\* Go keeps the host on its script, one step further.
LEMMA GoOn ==
  ASSUME TypeOK, OnScript, ~Idle, Left > 1, Go
  PROVE  Advance
<1>1. cmd' = cmd /\ report' = report /\ todo' = Tail(todo)
  BY DEF Go
<1>2. cmd \in AllCommands /\ todo \in Seq(StepNames) /\ Len(todo) > 1
  BY DEF TypeOK, Idle, Left
<1>3. todo' \in Seq(StepNames) /\ Len(todo') = Len(todo) - 1
       /\ \A k \in 1..Len(todo') : todo'[k] = todo[k + 1]
  BY <1>1, <1>2, HeadTailProperties
<1>4. /\ Len(todo) \in 1..Len(Script[cmd])
      /\ \A k \in 1..Len(todo) : todo[k] = Script[cmd][Len(Script[cmd]) - Len(todo) + k]
  BY DEF OnScript
<1>5. Len(Script[cmd]) \in Nat
  BY <1>2, ScriptType
<1>6. OnScript'
  BY <1>1, <1>2, <1>3, <1>4, <1>5 DEF OnScript, Idle
<1>7. todo' # <<>>
  BY <1>2, <1>3
<1>8. Left' = Left - 1 /\ todo' \in Seq(StepNames)
  BY <1>3 DEF Left
<1> QED
  BY <1>1, <1>6, <1>7, <1>8 DEF Advance

\* A command's end leaves nothing to do and reports the command.
LEMMA EndOn ==
  ASSUME NEW res, End(res)
  PROVE  Idle' /\ OnScript' /\ cmd' = "none" /\ todo' = <<>> /\ report' = [cmd |-> cmd, res |-> res]
  BY DEF End, Idle, OnScript

\* AfterSuccess goes on, except at the last step and after a status error.
LEMMA SuccessControl ==
  ASSUME TypeOK, OnScript, ~Idle, AfterSuccess
  PROVE  /\ UNCHANGED <<cpu_id, debug_ops, file>>
         /\ \/ Step = "check" /\ CpuStatus = "error" /\ End(-1)
            \/ ~(Step = "check" /\ CpuStatus = "error") /\ Left = 1 /\ End(1)
            \/ ~(Step = "check" /\ CpuStatus = "error") /\ Advance
<1>1. Left # 1 => Left > 1
  BY LeftType
<1> QED
  BY <1>1, GoOn DEF AfterSuccess, Left

\* AfterFailure goes on only where the result of the request is ignored.
LEMMA FailureControl ==
  ASSUME TypeOK, OnScript, ~Idle, AfterFailure
  PROVE  /\ UNCHANGED <<cpu_id, debug_ops, file>>
         /\ \/ Step \in Ignored /\ Advance
            \/ Step \in {"bulkhand", "config", "ack"} /\ End(1)
            \/ Step \notin Ignored \cup {"bulkhand", "config", "ack"} /\ End(-1)
<1>1. Step \in Ignored => Left > 1
  BY StepAt, LeftType DEF At, Ignored
<1> QED
  BY <1>1, GoOn DEF AfterFailure

\* get_ingenic_cpu: each caller's decision on the status it got.
LEMMA CpuControl ==
  ASSUME TypeOK, OnScript, ~Idle, NEW s, get_ingenic_cpu(s)
  PROVE  /\ file' = file /\ cpu_id' = IF s = "error" THEN 0 ELSE Cpu
         /\ \/ At("boot", 18) /\ s # "BOOT" /\ Advance /\ debug_ops' = debug_ops
            \/ At("boot", 18) /\ s = "BOOT" /\ End(1) /\ debug_ops' = debug_ops
            \/ At("boot", 5) /\ s = "BOOT" /\ Advance /\ debug_ops' = debug_ops
            \/ At("boot", 5) /\ s # "BOOT" /\ End(1) /\ debug_ops' = debug_ops
            \/ At("memtest", 7) /\ s # "BOOT" /\ Advance /\ debug_ops' = 1
            \/ At("gpio", 6) /\ s # "BOOT" /\ Advance /\ debug_ops' = 2
            \/ (At("memtest", 7) \/ At("gpio", 6)) /\ End(-1) /\ debug_ops' = debug_ops
            \/ (At("nand", 3) \/ At("reset", 2)) /\ s = "BOOT" /\ Advance /\ debug_ops' = debug_ops
            \/ (At("nand", 3) \/ At("reset", 2)) /\ s # "BOOT" /\ End(-1) /\ debug_ops' = debug_ops
<1>1. Go /\ Step \in CpuSteps => Advance
  BY StepAt, LeftType, GoOn DEF At, CpuSteps
<1>2. CASE Step = "bootcpu" /\ BootCpu(s)
  BY <1>1, <1>2, StepAt, LeftType DEF BootCpu, CpuSteps, get_ingenic_cpu
<1>3. CASE Step = "debugcpu" /\ DebugCpu(s)
  BY <1>1, <1>3, StepAt, LeftType DEF DebugCpu, CpuSteps, At, get_ingenic_cpu
<1>4. CASE Step = "needboot" /\ NeedBoot(s)
  BY <1>1, <1>4, StepAt, LeftType DEF NeedBoot, CpuSteps, get_ingenic_cpu
<1>5. CASE Step = "cfgcpu" /\ CfgCpu(s)
  BY <1>1, <1>5, StepAt, LeftType DEF CfgCpu, CpuSteps, get_ingenic_cpu
<1> QED
  BY <1>2, <1>3, <1>4, <1>5 DEF get_ingenic_cpu

-----------------------------------------------------------------------------
(* The inductive invariant.                                                *)

\* A stale handle means a device fresh from power-on.
Plugged == (~handle => mode = "rom") /\ (cut /\ ~Idle => ~handle)

\* A result is there between commands only.
Reported == report.cmd # "none" => Idle

\* What boot has established on its way, whatever failed: stage 2 is the file
\* to upload; in init_cfg stage 2 runs and knows its chip, the hand structure to
\* send is complete, and nothing but it is in stage 2's buffer.
Started ==
  /\ Within("boot", 7, 11) => file.what = "stage2"
  /\ Within("boot", 1, 6) /\ handle => mode \in {"stage2", "lost", "gone"}
  /\ Within("boot", 2, 6) /\ mode = "stage2" =>
       Hand = Junk /\ (At("boot", 2) => bulk = <<file>>) /\ (~At("boot", 2) => bulk = <<>>)
  /\ Within("boot", 1, 5) => cut \/ (mode = "stage2" /\ hand_id = Cpu)
  /\ Within("boot", 1, 4) => cpu_id = Cpu
  /\ Within("boot", 1, 3) => file.what = "hand" /\ file.cpu = Cpu

\* NAND operations and reset have asked for stage 2 first.
NeedsStage2 ==
  Within("nand", 1, 2) \/ At("reset", 1) => ~handle \/ mode \in {"stage2", "lost"}

\* debug_ops while stage 1 is uploaded and run; boot keeps an old one.
DebugKept ==
  /\ Within("memtest", 1, 6) => debug_ops = 1
  /\ Within("gpio", 1, 5) => debug_ops = 2
  /\ Within("boot", 1, 16) => debug_ops = 0 \/ odd

\* While nothing failed, what is in memory was built for the chip, and what
\* runs is what was uploaded.
Memory ==
  failed = 0 =>
  /\ mem.cache = Junk \/ mem.cache.cpu = Cpu
  /\ mem.sdram = Junk \/ mem.sdram.cpu = Cpu
  /\ mode = "stage2" => hand_id = Cpu
  /\ mode = "stage1" => mem.cache.what = "stage1"

Uploading == Within("boot", 7, 17) \/ Within("memtest", 1, 6) \/ Within("gpio", 1, 5)
There == handle /\ mode \in {"rom", "stage1"}

\* While nothing failed, stage 1 runs only between its start and the check.
Uploads ==
  failed = 0 /\ Uploading =>
  /\ mode # "stage2"
  /\ There => cpu_id = Cpu
  /\ mode = "stage1" => At("boot", 13) \/ At("memtest", 2) \/ At("gpio", 1)

\* The upload of stage 1: file, address and memory, one request after another.
Stage1Upload ==
  failed = 0 /\ There =>
  /\ Within("boot", 13, 16) \/ Within("memtest", 1, 5) \/ Within("gpio", 1, 4) =>
       file = Code("stage1", Cpu, debug_ops)
  /\ Within("boot", 13, 15) \/ Within("memtest", 1, 4) \/ Within("gpio", 1, 3) =>
       addr = "cache"
  /\ Within("boot", 13, 14) \/ Within("memtest", 1, 3) \/ Within("gpio", 1, 2) =>
       mem.cache = file

\* The upload of stage 2, into memory that stage 1 has set up.
Stage2Upload ==
  failed = 0 /\ There =>
  /\ Within("boot", 7, 11) => file = Code("stage2", Cpu, debug_ops)
  /\ ~odd /\ Within("boot", 7, 13) => mode = "stage1" \/ sdram
  /\ Within("boot", 7, 10) => addr = "sdram"
  /\ ~odd /\ Within("boot", 7, 9) => mem.sdram = file

\* Without a kill either, stage 1 is waited for, and stage 2 is configured.
Attended ==
  failed = 0 /\ ~killed =>
  /\ mode = "stage1" => At("boot", 13) \/ At("memtest", 2) \/ At("gpio", 1)
  /\ mode = "stage2" /\ ~Within("boot", 2, 6) => Hand.cpu = Cpu

\* Without a kill either, every packet waiting is the one the command is about
\* to read.
Packets ==
  failed = 0 /\ ~killed =>
  /\ mode \in {"rom", "stage1"} /\ ep1 # <<>> =>
       handle /\ ((Within("boot", 7, 13) /\ odd) \/ Within("memtest", 1, 2))
  /\ Within("memtest", 1, 2) /\ ~cut =>
       /\ handle
       /\ \/ At("memtest", 2) /\ mode = "stage1" /\ ep1 = <<>> /\ mem.cache.debug = 1
          \/ mode = "rom" /\ tested \in {"pass", "fail"} /\ ep1 = <<tested>>
  /\ ~odd /\ ep1 # <<>> => At("boot", 1) \/ At("nand", 1) \/ Within("memtest", 1, 2)
  /\ ~odd => Len(ep1) <= 1
  /\ At("nand", 1) /\ ~odd /\ mode = "lost" => ep1 = <<>>

IInv ==
  /\ TypeOK /\ OnScript /\ Plugged /\ Reported /\ Started /\ NeedsStage2 /\ DebugKept
  /\ Memory /\ Uploads /\ Stage1Upload /\ Stage2Upload /\ Attended /\ Packets
  /\ ConfiguredRight /\ BootReportsStage2 /\ LostForCause /\ MemtestHonest

-----------------------------------------------------------------------------
(* Types.                                                                  *)

Packet == {"handshake", "pass", "fail"}

\* The device's part of TypeOK.
DevType ==
  /\ mode \in {"rom", "stage1", "stage2", "gone", "lost"}
  /\ addr \in {"nowhere", "cache", "sdram"}
  /\ mem \in [cache : Codes, sdram : Codes]
  /\ sdram \in BOOLEAN /\ hand_id \in {0, Cpu} /\ Hand \in Codes
  /\ bulk \in Seq(Codes) /\ ep1 \in Seq(Packet)
  /\ why \in {"none", "wild", "null", "go", "again"}

\* The arguments in an uploaded file have their types, torn or not.
LEMMA CodeType ==
  /\ Junk \in Codes /\ Junk.what = "junk" /\ Junk.cpu = 0 /\ Junk.debug = 0
  /\ \A f \in Codes : [f EXCEPT !.what = "torn"] \in Codes
  /\ \A f, g \in Codes : Torn(f, g) \in Codes
  BY DEF Junk, Code, Codes, Torn

\* So have the two places code is started from, after a store to either.
LEMMA MemType ==
  ASSUME mem \in [cache : Codes, sdram : Codes], NEW f \in Codes
  PROVE  /\ [mem EXCEPT !.cache = f] \in [cache : Codes, sdram : Codes]
         /\ [mem EXCEPT !.sdram = f] \in [cache : Codes, sdram : Codes]
         /\ [mem EXCEPT !["cache"] = f] \in [cache : Codes, sdram : Codes]
         /\ [mem EXCEPT !["sdram"] = f] \in [cache : Codes, sdram : Codes]
         /\ mem.cache \in Codes /\ mem.sdram \in Codes
         /\ mem["cache"] \in Codes /\ mem["sdram"] \in Codes
  OBVIOUS

\* Receiving bulk data keeps the device's types,
LEMMA ReceiveType ==
  ASSUME DevType, file \in Codes, NEW part \in BOOLEAN, Receive(part)
  PROVE  DevType'
<1>1. bulk' \in Seq(Codes)
  <2>1. [file EXCEPT !.what = "torn"] \in Codes
    BY CodeType
  <2>2. bulk \in Seq(Codes)
    BY DEF DevType
  <2>3. Append(bulk, file) \in Seq(Codes) /\ Append(bulk, [file EXCEPT !.what = "torn"]) \in Seq(Codes)
    BY <2>1, <2>2, AppendProperties
  <2> QED
    BY <2>2, <2>3 DEF Receive
<1>2. mem' \in [cache : Codes, sdram : Codes]
  <2>1. CASE UNCHANGED mem
    BY <2>1 DEF DevType
  <2>2. CASE addr = "cache" /\ mem' = [mem EXCEPT !["cache"] = IF part THEN Torn(file, mem["cache"]) ELSE file]
    BY <2>2, CodeType, MemType DEF DevType
  <2>3. CASE addr = "sdram" /\ mem' = [mem EXCEPT !["sdram"] = IF part THEN Torn(file, mem["sdram"]) ELSE file]
    BY <2>3, CodeType, MemType DEF DevType
  <2> QED
    BY <2>1, <2>2, <2>3 DEF Receive, DevType
<1> QED
  BY <1>1, <1>2 DEF Receive, DevType

\* and so do a power-on,
LEMMA PowerOnType ==
  ASSUME DevType, PowerOnState, why' \in {why, "none"}
  PROVE  DevType'
<1>1. [cache |-> Junk, sdram |-> Junk] \in [cache : Codes, sdram : Codes]
  BY CodeType
<1>2. <<>> \in Seq(Codes) /\ <<>> \in Seq(Packet)
  OBVIOUS
<1> QED
  BY <1>1, <1>2, CodeType DEF PowerOnState, DevType

\* a start at the stage 2 address or elsewhere,
LEMMA Start2Type ==
  ASSUME DevType, Start2
  PROVE  DevType'
<1>1. CASE EnterStage2
  <2>1. mem.sdram \in Codes /\ [mem EXCEPT !.sdram = Junk] \in [cache : Codes, sdram : Codes]
    BY MemType, CodeType DEF DevType
  <2>2. mem.sdram.cpu \in {0, Cpu}
    BY <2>1 DEF Codes
  <2> QED
    BY <1>1, <2>1, <2>2, CodeType DEF EnterStage2, DevType
<1>2. CASE LeaveBus
  BY <1>2 DEF LeaveBus, DevType
<1> QED
  BY <1>1, <1>2 DEF Start2

\* the configuration,
LEMMA ConfigType ==
  ASSUME DevType, CONFIGRATION_Handle
  PROVE  DevType'
<1>1. Hand' \in Codes
  BY CodeType, HeadTailProperties DEF CONFIGRATION_Handle, DevType
<1>2. hand_id' \in {0, Cpu}
  BY <1>1 DEF CONFIGRATION_Handle, Codes
<1>3. ep1' \in Seq(Packet) /\ bulk' \in Seq(Codes)
  BY AppendProperties DEF CONFIGRATION_Handle, DevType, Packet
<1> QED
  BY <1>1, <1>2, <1>3 DEF CONFIGRATION_Handle, DevType

\* a NAND operation,
LEMMA NandType ==
  ASSUME DevType, NAND_OPS_Handle
  PROVE  DevType'
<1>1. Append(ep1, "handshake") \in Seq(Packet) /\ <<>> \in Seq(Codes)
  BY AppendProperties DEF DevType, Packet
<1> QED
  BY <1>1 DEF NAND_OPS_Handle, DevType

\* and hence every served request.
LEMMA ServeType ==
  ASSUME DevType, file \in Codes, NEW step, Serve(step)
  PROVE  DevType'
<1>1. CASE SetAddress
  BY <1>1 DEF SetAddress, DevType
<1>2. CASE Start1
  BY <1>2 DEF Start1, DevType
<1>3. CASE SameDevice
  BY <1>3 DEF SameDevice, devVars, DevType
<1> QED
  BY <1>1, <1>2, <1>3, ReceiveType, Start2Type, ConfigType, NandType, PowerOnType DEF Serve

\* The host's part of TypeOK: its place in the command, and its data.
ControlType ==
  /\ cmd \in AllCommands \cup {"none"}
  /\ todo \in Seq(StepNames) /\ (Idle <=> todo = <<>>)
  /\ report.cmd \in AllCommands \cup {"none", "pass", "fail"} /\ report.res \in {-1, 0, 1}

DataType == cpu_id \in {0, Cpu} /\ debug_ops \in 0..2 /\ file \in Codes

RestType ==
  /\ handle \in BOOLEAN
  /\ cmds \in 0..MaxCmds /\ failed \in 0..MaxFailed /\ restarts \in 0..MaxRestarts
  /\ killed \in BOOLEAN /\ cut \in BOOLEAN /\ odd \in BOOLEAN
  /\ tested \in {"none", "pass", "fail"}

\* TypeOK is the conjunction of its parts, in a state and in the next.
LEMMA TypeParts == TypeOK <=> DevType /\ ControlType /\ DataType /\ RestType
  BY DEF TypeOK, DevType, ControlType, DataType, RestType, Packet

LEMMA TypePartsNext == DevType' /\ ControlType' /\ DataType' /\ RestType' => TypeOK'
  BY DEF TypeOK, DevType, ControlType, DataType, RestType, Packet

\* Going on, ending a command and reading a packet keep the host's types.
LEMMA AdvanceType ==
  ASSUME ControlType, ~Idle, Advance
  PROVE  ControlType'
  BY DEF ControlType, Advance, Idle

LEMMA EndType ==
  ASSUME ControlType, ~Idle, NEW res \in {-1, 1}, End(res)
  PROVE  ControlType'
<1>1. cmd' = "none" /\ todo' = <<>> /\ report'.cmd = cmd /\ report'.res = res
  BY DEF End
<1> QED
  BY <1>1 DEF ControlType, Idle

LEMMA ReadType ==
  ASSUME ControlType, ~Idle, NEW got, ReadEnds(got)
  PROVE  ControlType'
<1>1. CASE End(1)
  BY <1>1, EndType
<1>2. ASSUME NEW said \in {"pass", "fail"}, cmd' = "none", todo' = <<>>, report' = [cmd |-> said, res |-> 1]
      PROVE  ControlType'
  BY <1>2 DEF ControlType, Idle
<1> QED
  BY <1>1, <1>2 DEF ReadEnds

\* Whatever the host does after a request keeps the host's types.
LEMMA HostType ==
  ASSUME TypeOK, OnScript, ~Idle,
         AfterSuccess \/ AfterFailure \/ \E s \in {"JZ", "BOOT", "error"} : get_ingenic_cpu(s)
  PROVE  ControlType' /\ DataType'
<1>1. ControlType /\ DataType
  BY TypeParts
<1>2. CASE AfterSuccess \/ AfterFailure
  <2>1. Advance \/ End(1) \/ End(-1)
    BY <1>2, SuccessControl, FailureControl
  <2>2. UNCHANGED <<cpu_id, debug_ops, file>>
    BY <1>2 DEF AfterSuccess, AfterFailure
  <2> QED
    BY <1>1, <2>1, <2>2, AdvanceType, EndType DEF DataType
<1>3. ASSUME NEW s \in {"JZ", "BOOT", "error"}, get_ingenic_cpu(s)
      PROVE  ControlType' /\ DataType'
  <2>1. Advance \/ End(1) \/ End(-1)
    BY <1>3, CpuControl
  <2>2. file' = file /\ cpu_id' \in {0, Cpu} /\ (debug_ops' = debug_ops \/ debug_ops' \in 1..2)
    BY <1>3, CpuControl
  <2> QED
    BY <1>1, <2>1, <2>2, AdvanceType, EndType DEF DataType
<1> QED
  BY <1>2, <1>3

\* A status is one of three names.
LEMMA StatusType == CpuStatus \in {"JZ", "BOOT", "error"}
  BY DEF CpuStatus

\* The initial state has its types.
LEMMA InitType == Init => TypeOK
<1> SUFFICES ASSUME Init PROVE TypeOK
  OBVIOUS
<1>1. DevType
  <2>1. [cache |-> Junk, sdram |-> Junk] \in [cache : Codes, sdram : Codes] /\ Junk \in Codes
    BY CodeType
  <2>2. <<>> \in Seq(Codes) /\ <<>> \in Seq(Packet)
    OBVIOUS
  <2> QED
    BY <2>1, <2>2 DEF Init, DevType
<1>2. ControlType /\ DataType
  BY CodeType DEF Init, ControlType, DataType, Idle
<1>3. cmds \in 0..MaxCmds /\ failed \in 0..MaxFailed /\ restarts \in 0..MaxRestarts
  BY BoundAssumption DEF Init
<1>4. RestType
  BY <1>3 DEF Init, RestType
<1> QED
  BY <1>1, <1>2, <1>4, TypeParts

\* Every step keeps the types.
LEMMA NextType ==
  ASSUME TypeOK, OnScript, Next
  PROVE  TypeOK'
<1>0. /\ DevType /\ ControlType /\ DataType /\ RestType
      /\ MaxCmds \in Nat /\ MaxFailed \in Nat /\ MaxRestarts \in Nat
  BY TypeParts, BoundAssumption
<1>1. ASSUME NEW c \in Commands, Enter(c)
      PROVE  TypeOK'
  <2>1. c \in AllCommands /\ Script[c] \in Seq(StepNames)
    BY CommandAssumption, ScriptType
  <2>2. Script[c] # <<>>
    BY <2>1, ScriptNonempty
  <2>3. ControlType'
    BY <1>1, <2>1, <2>2 DEF Enter, ControlType, Idle, AllCommands
  <2>4. DevType' /\ DataType'
    BY <1>0, <1>1 DEF Enter, devVars, DevType, DataType
  <2>5. cmds' \in 0..MaxCmds
    BY <1>0, <1>1 DEF Enter, RestType
  <2>6. RestType'
    BY <1>0, <1>1, <2>5 DEF Enter, RestType
  <2> QED
    BY <2>3, <2>4, <2>6, TypePartsNext
<1>2. CASE Load
  <2>1. Left > 1 /\ ~Idle
    BY <1>2, StepAt, LeftType DEF Load, At
  <2>2. ControlType'
    BY <1>0, <1>2, <2>1, GoOn, AdvanceType DEF Load
  <2>3. Code(CASE Step = "load1" -> "stage1" [] Step = "load2" -> "stage2" [] OTHER -> "hand",
             cpu_id, debug_ops) \in Codes
    BY <1>0 DEF DataType, Codes, Code
  <2>4. DataType'
    BY <1>0, <1>2, <2>3 DEF Load, DataType
  <2>5. DevType' /\ RestType'
    BY <1>0, <1>2 DEF Load, devVars, counters, DevType, RestType
  <2> QED
    BY <2>2, <2>4, <2>5, TypePartsNext
<1>3. CASE LoadFails
  <2>1. ControlType'
    BY <1>0, <1>3, EndType DEF LoadFails
  <2>2. DevType' /\ DataType' /\ RestType'
    BY <1>0, <1>3 DEF LoadFails, devVars, ghosts, DevType, DataType, RestType
  <2> QED
    BY <2>1, <2>2, TypePartsNext
<1>4. CASE RequestServed
  <2>1. ControlType' /\ DataType'
    BY <1>4, StatusType, HostType DEF RequestServed, Request
  <2>2. DevType'
    BY <1>0, <1>4, ServeType DEF RequestServed, DataType
  <2>3. RestType'
    BY <1>0, <1>4 DEF RequestServed, counters, RestType
  <2> QED
    BY <2>1, <2>2, <2>3, TypePartsNext
<1>5. CASE RequestUnanswered
  <2>1. ControlType' /\ DataType'
    BY <1>5, HostType DEF RequestUnanswered, HostSeesFailure, Request
  <2>2. DevType' /\ RestType'
    BY <1>0, <1>5 DEF RequestUnanswered, devVars, counters, ghosts, DevType, RestType
  <2> QED
    BY <2>1, <2>2, TypePartsNext
<1>6. CASE RequestFails
  <2>1. ControlType' /\ DataType'
    BY <1>6, HostType DEF RequestFails, HostSeesFailure, Request
  <2>2. SameDevice => DevType'
    BY <1>0 DEF SameDevice, devVars, DevType
  <2>3. DevType'
    BY <1>0, <1>6, <2>2, ServeType, ReceiveType DEF RequestFails, DataType
  <2>4. handle' \in BOOLEAN
    BY <1>0, <1>6 DEF RequestFails, RestType
  <2>5. RestType'
    BY <1>0, <1>6, <2>4 DEF RequestFails, RestType
  <2> QED
    BY <2>1, <2>3, <2>5, TypePartsNext
<1>7. CASE ReadPacket
  <2>1. ControlType'
    BY <1>0, <1>7, ReadType DEF ReadPacket
  <2>2. ep1' \in Seq(Packet)
    BY <1>0, <1>7, HeadTailProperties DEF ReadPacket, DevType
  <2>3. DevType' /\ DataType' /\ RestType'
    BY <1>0, <1>7, <2>2 DEF ReadPacket, counters, ghosts, DevType, DataType, RestType
  <2> QED
    BY <2>1, <2>3, TypePartsNext
<1>8. CASE ReadTimesOut
  <2>1. ControlType'
    BY <1>0, <1>8, ReadType DEF ReadTimesOut
  <2>2. DevType' /\ DataType' /\ RestType'
    BY <1>0, <1>8 DEF ReadTimesOut, devVars, ghosts, DevType, DataType, RestType
  <2> QED
    BY <2>1, <2>2, TypePartsNext
<1>9. CASE Stage1Runs
  <2>1. ControlType' /\ DataType'
    BY <1>0, <1>9 DEF Stage1Runs, hostVars, ControlType, DataType, Idle
  <2>2. ep1' \in Seq(Packet)
    <3>1. Append(ep1, "pass") \in Seq(Packet) /\ Append(ep1, "fail") \in Seq(Packet) /\ ep1 \in Seq(Packet)
      BY <1>0, AppendProperties DEF DevType, Packet
    <3> QED
      BY <1>9, <3>1 DEF Stage1Runs
  <2>3. mem' \in [cache : Codes, sdram : Codes]
    BY <1>0, <1>9, MemType, CodeType DEF Stage1Runs, DevType
  <2>4. DevType'
    BY <1>0, <1>9, <2>2, <2>3 DEF Stage1Runs, DevType
  <2>5. RestType'
    BY <1>0, <1>9 DEF Stage1Runs, hostVars, counters, RestType
  <2> QED
    BY <2>1, <2>4, <2>5, TypePartsNext
<1>10. CASE Restart
  <2>1. ControlType' /\ DataType'
    BY <1>10, CodeType DEF Restart, ControlType, DataType, Idle
  <2>2. DevType' /\ RestType'
    BY <1>0, <1>10 DEF Restart, devVars, DevType, RestType
  <2> QED
    BY <2>1, <2>2, TypePartsNext
<1>11. CASE PowerCycle
  <2>1. ControlType' /\ DataType'
    BY <1>0, <1>11 DEF PowerCycle, ControlType, DataType, Idle
  <2>3. restarts' \in 0..MaxRestarts
    BY <1>0, <1>11 DEF PowerCycle, RestType
  <2>4. RestType'
    BY <1>0, <1>11, <2>3 DEF PowerCycle, RestType
  <2>2. DevType'
    BY <1>0, <1>11, PowerOnType DEF PowerCycle
  <2> QED
    BY <2>1, <2>2, <2>4, TypePartsNext
<1>12. CASE Done
  BY <1>12 DEF Done, vars, devVars, hostVars, counters, ghosts, TypeOK, Idle
<1> QED
  BY <1>1, <1>2, <1>3, <1>4, <1>5, <1>6, <1>7, <1>8, <1>9, <1>10, <1>11, <1>12 DEF Next, HostStep

-----------------------------------------------------------------------------
(* Every action keeps the invariant.                                       *)

\* The invariant holds when usbboot is started with a device in its ROM.
LEMMA InitInv == Init => IInv
<1> SUFFICES ASSUME Init PROVE IInv
  OBVIOUS
<1>1. TypeOK
  BY InitType
<1>2. Idle /\ OnScript /\ cmd = "none" /\ report.cmd = "none"
  BY DEF Init, Idle, OnScript
<1>3. Plugged /\ Reported /\ Started /\ NeedsStage2 /\ DebugKept
  BY <1>2 DEF Init, Plugged, Reported, Started, NeedsStage2, DebugKept, At, Within
<1>4. Memory /\ Uploads /\ Stage1Upload /\ Stage2Upload
  BY <1>2 DEF Init, Memory, Uploads, Stage1Upload, Stage2Upload, Uploading, At, Within
<1>5. Attended /\ Packets
  <2>1. Len(ep1) = 0
    BY DEF Init
  <2> QED
    BY <1>2, <2>1 DEF Init, Attended, Packets, At, Within
<1>6. ConfiguredRight /\ BootReportsStage2 /\ LostForCause /\ MemtestHonest
  BY <1>2 DEF Init, ConfiguredRight, BootReportsStage2, LostForCause, MemtestHonest
<1> QED
  BY <1>1, <1>2, <1>3, <1>4, <1>5, <1>6 DEF IInv

\* A command that is entered has everything still to do.
LEMMA EnterInv ==
  ASSUME IInv, NEW c \in Commands, Enter(c)
  PROVE  IInv'
<1>0. /\ TypeOK /\ OnScript /\ Idle /\ cmd' = c /\ todo' = Script[c] /\ report'.cmd = "none"
      /\ cut' = FALSE /\ c \in AllCommands /\ ~Idle'
  BY CommandAssumption DEF IInv, Enter, Idle, AllCommands
<1>1. TypeOK'
  BY <1>0, NextType DEF Next
<1>2. OnScript'
  <2>1. Script[c] \in Seq(StepNames) /\ Len(Script[c]) >= 1
    BY <1>0, ScriptType, ScriptNonempty
  <2> QED
    BY <1>0, <2>1 DEF OnScript
<1>3. /\ (c = "boot" => Left' = 18) /\ (c = "memtest" => Left' = 7) /\ (c = "gpio" => Left' = 6)
      /\ (c = "nand" => Left' = 3) /\ (c = "reset" => Left' = 2) /\ (c = "go" => Left' = 1)
  BY <1>0, ScriptLength DEF Left
<1>4. Plugged' /\ Reported' /\ Started' /\ NeedsStage2' /\ DebugKept'
  BY <1>0, <1>3 DEF IInv, Enter, devVars, Plugged, Reported, Started, NeedsStage2, DebugKept, At, Within
<1>5. Memory' /\ Uploads' /\ Stage1Upload' /\ Stage2Upload'
  BY <1>0, <1>3 DEF IInv, Enter, devVars, Memory, Uploads, Stage1Upload, Stage2Upload, Uploading, At, Within
<1>6. Attended' /\ Packets'
  BY <1>0, <1>3 DEF IInv, Enter, devVars, Idle, Attended, Packets, At, Within
<1>7. ConfiguredRight' /\ BootReportsStage2' /\ LostForCause' /\ MemtestHonest'
  BY <1>0 DEF IInv, Enter, devVars, ConfiguredRight, BootReportsStage2, LostForCause, MemtestHonest
<1> QED
  BY <1>1, <1>2, <1>4, <1>5, <1>6, <1>7 DEF IInv

\* What does not mention the step survives a command's end.
LEMMA IdleInv ==
  ASSUME IInv, TypeOK', Idle', todo' = <<>>, failed' >= failed, killed => killed', odd' = odd,
         UNCHANGED <<mode, addr, mem, sdram, hand_id, Hand, bulk, why>>,
         mode # "rom" => handle',
         BootReportsStage2', MemtestHonest', Attended', Packets'
  PROVE  IInv'
<1>1. OnScript' /\ cmd' = "none"
  BY DEF OnScript, Idle
<1>2. Plugged' /\ Reported' /\ Started' /\ NeedsStage2' /\ DebugKept'
  BY <1>1 DEF IInv, Plugged, Reported, Started, NeedsStage2, DebugKept, At, Within
<1>3. failed' = 0 => failed = 0
  BY TypeParts DEF IInv, RestType
<1>4. Memory' /\ Uploads' /\ Stage1Upload' /\ Stage2Upload'
  BY <1>1, <1>3 DEF IInv, Memory, Uploads, Stage1Upload, Stage2Upload, Uploading, At, Within
<1>5. ConfiguredRight' /\ LostForCause'
  <2>1. failed \in Nat /\ failed' \in Nat
    BY TypeParts DEF IInv, RestType, TypeOK
  <2> QED
    BY <2>1 DEF IInv, ConfiguredRight, LostForCause
<1> QED
  BY <1>1, <1>2, <1>4, <1>5 DEF IInv

\* The count of failures is a natural number.
LEMMA FailedType == TypeOK => failed \in Nat /\ (failed = 0 \/ failed > 0)
  BY DEF TypeOK

\* A file that cannot be read ends the command.
LEMMA LoadFailsInv ==
  ASSUME IInv, LoadFails
  PROVE  IInv'
<1>0. TypeOK /\ OnScript /\ ~Idle /\ Plugged /\ Started /\ TypeOK' /\ failed \in Nat /\ failed' = failed + 1
  BY NextType, FailedType DEF IInv, LoadFails, Next
<1>1. Idle' /\ todo' = <<>> /\ report'.cmd = cmd /\ (report'.res = 1 => Step = "hand")
  BY EndOn DEF LoadFails
<1>2. Step = "hand" => At("boot", 4)
  BY <1>0, StepAt, LeftType
<1>3. BootReportsStage2'
  BY <1>0, <1>1, <1>2 DEF LoadFails, devVars, ghosts, BootReportsStage2, Started, At, Within
<1>4. MemtestHonest' /\ Attended' /\ Packets'
  BY <1>0 DEF MemtestHonest, Attended, Packets
<1>5. mode # "rom" => handle'
  BY <1>0 DEF Plugged, LoadFails
<1> QED
  BY <1>0, <1>1, <1>3, <1>4, <1>5, IdleInv DEF LoadFails, devVars, ghosts

\* The host reads a packet at the end of three commands only.
LEMMA ReadAt ==
  ASSUME TypeOK, OnScript, ~Idle, Step \in Reads
  PROVE  At("boot", 1) \/ At("nand", 1) \/ At("memtest", 1)
  BY StepAt, LeftType DEF Reads

LEMMA NoReadAt ==
  ASSUME TypeOK, OnScript, ~Idle, Step \notin Reads
  PROVE  ~At("boot", 1) /\ ~At("nand", 1) /\ ~At("memtest", 1)
  BY LeftType, AtStep DEF Reads

\* A read ends the command; debug_memory reports the packet it read.
LEMMA ReadEnd ==
  ASSUME NEW got, ReadEnds(got)
  PROVE  /\ Idle' /\ cmd' = "none" /\ todo' = <<>>
         /\ report'.cmd = "boot" => cmd # "memtest"
         /\ report'.cmd \in {"pass", "fail"} /\ got \in {"pass", "fail"} => report'.cmd = got \/ report'.cmd = cmd
         /\ report'.cmd = "boot" => cmd = "boot"
         /\ cmd # "memtest" => report'.cmd = cmd
<1>1. CASE cmd = "memtest"
  <2>1. PICK said \in (IF got \in {"pass", "fail"} THEN {got} ELSE {"pass", "fail"}) :
          cmd' = "none" /\ todo' = <<>> /\ report' = [cmd |-> said, res |-> 1]
    BY <1>1 DEF ReadEnds
  <2>2. report'.cmd = said
    BY <2>1
  <2> QED
    BY <1>1, <2>1, <2>2 DEF Idle
<1>2. CASE cmd # "memtest"
  BY <1>2, EndOn DEF ReadEnds
<1> QED
  BY <1>1, <1>2

\* Reading the packet that is there keeps the invariant.
LEMMA ReadPacketInv ==
  ASSUME IInv, ReadPacket
  PROVE  IInv'
<1>0. TypeOK /\ OnScript /\ ~Idle /\ TypeOK' /\ handle /\ ep1 # <<>> /\ mode # "gone" /\ failed' = failed
  BY NextType DEF IInv, ReadPacket, Next, HostStep, counters
<1>1. At("boot", 1) \/ At("nand", 1) \/ At("memtest", 1)
  BY <1>0, ReadAt DEF ReadPacket
<1>2. /\ Idle' /\ cmd' = "none" /\ todo' = <<>>
      /\ report'.cmd = "boot" => cmd = "boot"
      /\ cmd # "memtest" => report'.cmd = cmd
      /\ report'.cmd \in {"pass", "fail"} /\ Head(ep1) \in {"pass", "fail"} => report'.cmd = Head(ep1) \/ report'.cmd = cmd
  BY ReadEnd DEF ReadPacket
<1>3. BootReportsStage2'
  BY <1>0, <1>1, <1>2 DEF IInv, ReadPacket, ghosts, BootReportsStage2, Started, At, Within
<1>4. ep1 \in Seq(Packet) /\ Len(ep1) \in Nat /\ ep1' = Tail(ep1) /\ Len(ep1') = Len(ep1) - 1
  BY <1>0, HeadTailProperties, TypeParts DEF ReadPacket, DevType
<1>5. Len(ep1) <= 1 => ep1' = <<>>
  BY <1>0, <1>4
<1>6. At("memtest", 1) /\ failed = 0 /\ ~killed => mode = "rom" /\ tested \in {"pass", "fail"} /\ ep1 = <<tested>> /\ ~cut
  BY <1>0 DEF IInv, Packets, Plugged, At, Within
<1>7. MemtestHonest'
  BY <1>0, <1>1, <1>2, <1>6 DEF ReadPacket, ghosts, MemtestHonest, At
<1>8. Attended'
  BY <1>0, <1>1, <1>2 DEF IInv, ReadPacket, ghosts, Attended, At, Within
<1>9. failed = 0 /\ ~killed /\ (~odd \/ At("memtest", 1)) => ep1' = <<>>
  BY <1>4, <1>5, <1>6 DEF IInv, Packets
<1>10. failed = 0 /\ ~killed /\ mode \in {"rom", "stage1"} => At("memtest", 1)
  BY <1>0, <1>1 DEF IInv, Packets, At, Within
<1>11. failed = 0 /\ ~killed /\ ~odd => Len(ep1') <= 1
  BY <1>4 DEF IInv, Packets
<1>12. Packets'
  BY <1>0, <1>2, <1>9, <1>10, <1>11 DEF ReadPacket, ghosts, Packets, At, Within
<1> QED
  BY <1>0, <1>2, <1>3, <1>7, <1>8, <1>12, IdleInv, FailedType DEF ReadPacket, ghosts

\* A read without a packet: none was due, or something failed.
LEMMA ReadTimesOutInv ==
  ASSUME IInv, ReadTimesOut
  PROVE  IInv'
<1>d. /\ TypeOK /\ OnScript /\ ~Idle /\ TypeOK' /\ UNCHANGED <<devVars, handle, ghosts>> /\ failed \in Nat
  BY NextType, FailedType DEF IInv, ReadTimesOut, Next, HostStep
<1>e. \/ failed' = failed /\ (~handle \/ mode = "gone" \/ (ep1 = <<>> /\ mode # "stage1"))
      \/ failed' = failed + 1
  BY DEF ReadTimesOut
<1>0. /\ TypeOK /\ OnScript /\ ~Idle /\ TypeOK' /\ UNCHANGED <<devVars, handle, ghosts>>
      /\ failed \in Nat /\ failed' \in {failed, failed + 1}
      /\ failed' = failed => ~handle \/ mode = "gone" \/ (ep1 = <<>> /\ mode # "stage1")
  BY <1>d, <1>e
<1>1. At("boot", 1) \/ At("nand", 1) \/ At("memtest", 1)
  BY <1>0, ReadAt DEF ReadTimesOut
<1>2. /\ Idle' /\ cmd' = "none" /\ todo' = <<>>
      /\ report'.cmd = "boot" => cmd = "boot"
      /\ cmd # "memtest" => report'.cmd = cmd
  BY ReadEnd DEF ReadTimesOut
<1>3. BootReportsStage2'
  BY <1>0, <1>1, <1>2 DEF IInv, devVars, ghosts, BootReportsStage2, Started, At, Within
<1>4. failed' = 0 => failed = 0 /\ failed' = failed
  BY <1>0
<1>5. MemtestHonest'
  BY <1>0, <1>1, <1>2, <1>4 DEF IInv, devVars, ghosts, MemtestHonest, Packets, At, Within
<1>6. Attended'
  BY <1>0, <1>1, <1>2, <1>4 DEF IInv, devVars, ghosts, Attended, At, Within
<1>7. failed' = 0 /\ ~killed => mode \notin {"rom", "stage1"} \/ ep1 = <<>>
  BY <1>0, <1>1, <1>4 DEF IInv, Packets, Plugged, At, Within
<1>8. failed' = 0 /\ ~killed /\ ~odd => ep1 = <<>>
  BY <1>0, <1>1, <1>4, <1>7 DEF IInv, Packets, Plugged, NeedsStage2, Started, At, Within
<1>9. Packets'
  BY <1>0, <1>2, <1>4, <1>7, <1>8 DEF IInv, devVars, ghosts, Packets, At, Within
<1> QED
  BY <1>0, <1>2, <1>3, <1>5, <1>6, <1>9, IdleInv DEF IInv, Plugged, devVars, ghosts

\* A new usbboot starts from a clean host and the device as it was left.
LEMMA RestartInv ==
  ASSUME IInv, Restart
  PROVE  IInv'
<1>0. /\ TypeOK /\ OnScript /\ TypeOK' /\ Idle' /\ cmd' = "none" /\ todo' = <<>> /\ report'.cmd = "none"
      /\ handle' = TRUE /\ failed' = failed /\ failed \in Nat /\ killed' = (killed \/ ~Idle)
      /\ UNCHANGED <<devVars, cut, odd, tested, why>>
  BY NextType, FailedType DEF IInv, Restart, Next, Idle
<1>1. BootReportsStage2' /\ MemtestHonest'
  BY <1>0 DEF BootReportsStage2, MemtestHonest
<1>2. Attended' /\ Packets'
  BY <1>0 DEF IInv, devVars, Attended, Packets, At, Within, Idle
<1>3. failed' >= failed /\ (mode # "rom" => handle')
  BY <1>0
<1>4. killed => killed'
  BY <1>0, Zenon
<1> QED
  BY <1>0, <1>1, <1>2, <1>3, <1>4, IdleInv DEF devVars

\* A power cycle leaves a fresh device and a stale handle.
LEMMA PowerCycleInv ==
  ASSUME IInv, PowerCycle
  PROVE  IInv'
<1>0. /\ TypeOK /\ OnScript /\ TypeOK' /\ PowerOnState /\ handle' = FALSE /\ cut' = TRUE /\ why' = "none"
      /\ UNCHANGED <<cmd, todo, cpu_id, debug_ops, file, report, failed, killed, odd, tested>>
  BY NextType DEF IInv, PowerCycle, Next
<1>1. OnScript' /\ Left' = Left /\ (Idle' <=> Idle)
  BY <1>0 DEF OnScript, Left, Idle
<1>2. Plugged' /\ Reported' /\ Started' /\ NeedsStage2' /\ DebugKept'
  BY <1>0, <1>1 DEF IInv, PowerOnState, Plugged, Reported, Started, NeedsStage2, DebugKept, At, Within
<1>3. Memory' /\ Uploads' /\ Stage1Upload' /\ Stage2Upload'
  BY <1>0 DEF PowerOnState, Memory, Uploads, Stage1Upload, Stage2Upload, There
<1>4. Len(ep1') = 0
  BY <1>0 DEF PowerOnState
<1>5. Attended' /\ Packets'
  BY <1>0, <1>4 DEF PowerOnState, Attended, Packets
<1>6. ConfiguredRight' /\ BootReportsStage2' /\ LostForCause' /\ MemtestHonest'
  BY <1>0 DEF PowerOnState, ConfiguredRight, BootReportsStage2, LostForCause, MemtestHonest
<1> QED
  BY <1>0, <1>1, <1>2, <1>3, <1>5, <1>6 DEF IInv

\* Stuttering keeps the invariant.
LEMMA DoneInv ==
  ASSUME IInv, UNCHANGED vars
  PROVE  IInv'
<1> USE DEF vars, devVars, hostVars, counters, ghosts
<1>1. TypeOK' /\ OnScript' /\ Left' = Left /\ (Idle' <=> Idle)
  BY DEF IInv, TypeOK, OnScript, Left, Idle
<1>2. Plugged' /\ Reported' /\ Started' /\ NeedsStage2' /\ DebugKept'
  BY <1>1 DEF IInv, Plugged, Reported, Started, NeedsStage2, DebugKept, At, Within
<1>3. Memory' /\ Uploads' /\ Stage1Upload' /\ Stage2Upload'
  BY <1>1 DEF IInv, Memory, Uploads, Stage1Upload, Stage2Upload, There, Uploading, At, Within
<1>4. Attended' /\ Packets'
  BY <1>1 DEF IInv, Attended, Packets, At, Within
<1>5. ConfiguredRight' /\ BootReportsStage2' /\ LostForCause' /\ MemtestHonest'
  BY DEF IInv, ConfiguredRight, BootReportsStage2, LostForCause, MemtestHonest
<1> QED
  BY <1>1, <1>2, <1>3, <1>4, <1>5 DEF IInv

\* Stage 1 sets memory up for the boot that started it and sends a verdict
\* to the memory test that started it, and returns to the ROM.
LEMMA Stage1RunsInv ==
  ASSUME IInv, Stage1Runs
  PROVE  IInv'
<1>0. /\ TypeOK /\ OnScript /\ TypeOK' /\ mode = "stage1" /\ mode' \in {"rom", "lost"} /\ handle
      /\ UNCHANGED <<addr, hand_id, Hand, bulk, hostVars, counters, killed, cut, odd>>
  BY NextType DEF IInv, Stage1Runs, Next, Plugged
<1>1. OnScript' /\ Left' = Left /\ (Idle' <=> Idle)
  BY <1>0 DEF OnScript, Left, Idle, hostVars
<1>2. ~Within("boot", 1, 6) /\ ~Within("nand", 1, 2) /\ ~At("reset", 1) /\ (cut => Idle)
  BY <1>0 DEF IInv, Started, NeedsStage2, Plugged
<1>3. Plugged' /\ Reported' /\ Started' /\ NeedsStage2' /\ DebugKept'
  BY <1>0, <1>1, <1>2 DEF IInv, hostVars, Plugged, Reported, Started, NeedsStage2, DebugKept, At, Within
<1>4. mem \in [cache : Codes, sdram : Codes] /\ mem' \in {mem, [mem EXCEPT !.sdram = Junk]}
  BY <1>0 DEF Stage1Runs, TypeOK
<1>5. mem'.cache = mem.cache /\ mem'.sdram \in {mem.sdram, Junk}
  BY <1>4
<1>6. Memory'
  BY <1>0, <1>5 DEF IInv, Memory, counters
<1>7. failed = 0 /\ Uploading => At("boot", 13) \/ At("memtest", 2) \/ At("gpio", 1)
  BY <1>0 DEF IInv, Uploads
<1>8. Uploads' /\ Stage1Upload'
  BY <1>0, <1>1, <1>5 DEF IInv, hostVars, counters, Uploads, Stage1Upload, Uploading, There, At, Within
<1>9. failed = 0 => mem.cache.what = "stage1"
  BY <1>0 DEF IInv, Memory
<1>10. failed = 0 /\ (At("boot", 13) \/ At("memtest", 2) \/ At("gpio", 1)) =>
         mem.cache.cpu = Cpu /\ mem.cache.debug = debug_ops
  BY <1>0 DEF IInv, Stage1Upload, There, At, Within, Code
<1>11. failed = 0 /\ ~odd /\ At("boot", 13) => sdram'
  <2>1. failed = 0 => sdram' = (sdram \/ (mem.cache.cpu = Cpu /\ mem.cache.debug \in {0, 1}))
    BY <1>9 DEF Stage1Runs
  <2>2. ~odd /\ At("boot", 13) => debug_ops = 0
    BY DEF IInv, DebugKept, At, Within
  <2>3. failed = 0 /\ ~odd /\ At("boot", 13) => mem.cache.cpu = Cpu /\ mem.cache.debug \in {0, 1}
    BY <1>10, <2>2
  <2> QED
    BY <2>1, <2>3
<1>12. Stage2Upload'
  BY <1>0, <1>1, <1>7, <1>11 DEF IInv, hostVars, counters, Stage2Upload, Uploading, There, At, Within
<1>13. failed = 0 /\ ~killed => At("boot", 13) \/ At("memtest", 2) \/ At("gpio", 1)
  BY <1>0 DEF IInv, Attended
<1>14. Attended'
  BY <1>0 DEF Attended
<1>15. Packets'
  <2> SUFFICES ASSUME failed = 0, ~killed PROVE Packets'
    BY <1>0 DEF Packets, counters
  <2>1. mode' = "rom" /\ UNCHANGED why
    BY <1>9 DEF Stage1Runs
  <2>2. CASE mem.cache.debug = 1
    <3>1. PICK err \in {"pass", "fail"} : tested' = err /\ ep1' = Append(ep1, err)
      BY <1>9, <2>2 DEF Stage1Runs
    <3>2. (At("boot", 13) /\ odd) \/ At("memtest", 2)
      BY <1>10, <1>13, <2>2 DEF IInv, DebugKept, At, Within
    <3>3. At("memtest", 2) => ep1 = <<>>
      BY <1>0, <1>2 DEF IInv, Packets, At, Within, Idle
    <3>4. At("memtest", 2) => ep1' = <<tested'>> /\ Len(ep1') = 1
      BY <3>1, <3>3
    <3>5. At("boot", 13) => ~At("memtest", 2) /\ cmd = "boot" /\ odd' /\ Left = 13
      BY <1>0, <3>2 DEF At
    <3> QED
      BY <1>0, <1>1, <2>1, <3>1, <3>2, <3>4, <3>5 DEF Packets, hostVars, At, Within
  <2>3. CASE mem.cache.debug # 1
    <3>1. UNCHANGED <<tested, ep1, mem>>
      BY <1>9, <2>3 DEF Stage1Runs
    <3>2. ~At("memtest", 2)
      BY <1>10, <2>3 DEF IInv, DebugKept, At, Within
    <3> QED
      BY <1>0, <1>1, <1>13, <2>1, <3>1, <3>2 DEF IInv, Packets, hostVars, At, Within
  <2> QED
    BY <2>2, <2>3
<1>16. BootReportsStage2' /\ ConfiguredRight'
  BY <1>0 DEF IInv, hostVars, BootReportsStage2, ConfiguredRight
<1>17. LostForCause'
  BY <1>0, <1>9, FailedType DEF IInv, Stage1Runs, LostForCause, counters
<1>18. MemtestHonest'
  BY <1>0, <1>13 DEF IInv, Reported, hostVars, counters, MemtestHonest, At, Idle
<1> QED
  BY <1>0, <1>1, <1>3, <1>6, <1>8, <1>12, <1>14, <1>15, <1>16, <1>17, <1>18 DEF IInv

\* Loading a file gives it the chip's id and the debug operation in force.
LEMMA LoadInv ==
  ASSUME IInv, Load
  PROVE  IInv'
<1>0. /\ TypeOK /\ OnScript /\ TypeOK' /\ ~Idle
      /\ UNCHANGED <<devVars, handle, cpu_id, debug_ops, counters, killed, cut, tested, why>>
  BY NextType DEF IInv, Load, Next, HostStep
<1>1. /\ Left \in Nat
      /\ \/ Step = "load1" /\ (At("boot", 17) \/ At("memtest", 6) \/ At("gpio", 5))
         \/ Step = "load2" /\ At("boot", 12)
         \/ Step = "hand" /\ At("boot", 4)
  BY <1>0, StepAt, LeftType DEF Load
<1>2. Left > 1
  BY <1>1 DEF At
<1>3. Advance
  BY <1>0, <1>2, GoOn DEF Load
<1>4. /\ (Step = "load1" => file' = Code("stage1", cpu_id, debug_ops))
      /\ (Step = "load2" => file' = Code("stage2", cpu_id, debug_ops) /\ file'.what = "stage2")
      /\ (Step = "hand" => file'.what = "hand" /\ file'.cpu = cpu_id)
  BY DEF Load, Code
<1>5. odd' = (odd \/ (At("boot", 17) /\ debug_ops # 0))
  BY <1>1 DEF Load, At
<1>6. odd => odd'
  BY <1>5
<1>7. Started'
  BY <1>0, <1>1, <1>3, <1>4 DEF IInv, devVars, Advance, Started, At, Within
<1>8. At("boot", 17) /\ debug_ops # 0 => odd'
  BY <1>5
<1>9. Plugged' /\ Reported' /\ NeedsStage2' /\ DebugKept'
  BY <1>0, <1>1, <1>3, <1>6, <1>8 DEF IInv, devVars, Advance, Plugged, Reported, NeedsStage2, DebugKept, At, Within, Idle
<1>10. Memory' /\ Uploads'
  BY <1>0, <1>1, <1>3 DEF IInv, devVars, counters, Advance, Memory, Uploads, Uploading, There, At, Within
<1>11. Stage1Upload'
  BY <1>0, <1>1, <1>3, <1>4 DEF IInv, devVars, counters, Advance, Uploads, Uploading, Stage1Upload, There, At, Within
<1>12. Stage2Upload'
  BY <1>0, <1>1, <1>3, <1>4, <1>6 DEF IInv, devVars, counters, Advance, Uploads, Uploading, Stage2Upload, There, At, Within
<1>13. Attended' /\ Packets'
  BY <1>0, <1>1, <1>3, <1>6 DEF IInv, devVars, counters, Advance, Attended, Packets, At, Within
<1>14. ConfiguredRight' /\ BootReportsStage2' /\ LostForCause' /\ MemtestHonest'
  BY <1>0, <1>3, <1>6 DEF IInv, devVars, counters, Advance, ConfiguredRight, BootReportsStage2, LostForCause, MemtestHonest
<1> QED
  BY <1>0, <1>3, <1>7, <1>9, <1>10, <1>11, <1>12, <1>13, <1>14 DEF IInv, Advance

\* Where the host goes after a failed request: on only after the address, an
\* upload, a flush, a NAND operation or a first status request.
LEMMA FailureMoves ==
  ASSUME TypeOK, OnScript, ~Idle, Step \notin Reads, HostSeesFailure
  PROVE  \/ Advance /\ \/ /\ \/ At("boot", 18) \/ At("boot", 16) \/ At("boot", 15) \/ At("boot", 11)
                             \/ At("boot", 10) \/ At("boot", 8) \/ At("memtest", 5) \/ At("memtest", 4)
                             \/ At("gpio", 4) \/ At("gpio", 3) \/ At("nand", 2)
                          /\ debug_ops' = debug_ops
                       \/ At("memtest", 7) /\ debug_ops' = 1
                       \/ At("gpio", 6) /\ debug_ops' = 2
         \/ End(-1)
         \/ End(1) /\ Within("boot", 2, 5)
<1>1. CASE AfterFailure
  <2>1. \/ Step \in Ignored /\ Advance
        \/ Step \in {"bulkhand", "config"} /\ End(1)
        \/ End(-1)
    BY <1>1, FailureControl DEF Reads
  <2>2. /\ Step \in {"bulkhand", "config"} => Within("boot", 2, 5)
        /\ Step \in Ignored => \/ At("boot", 16) \/ At("boot", 15) \/ At("boot", 11)
                               \/ At("boot", 10) \/ At("boot", 8) \/ At("memtest", 5)
                               \/ At("memtest", 4) \/ At("gpio", 4) \/ At("gpio", 3) \/ At("nand", 2)
    BY StepAt, LeftType DEF Ignored, At, Within
  <2> QED
    BY <1>1, <2>1, <2>2, FailureControl
<1>2. CASE get_ingenic_cpu("error")
  BY <1>2, CpuControl DEF At, Within
<1> QED
  BY <1>1, <1>2 DEF HostSeesFailure

\* A request that times out changes nothing on the device.
LEMMA UnansweredInv ==
  ASSUME IInv, RequestUnanswered
  PROVE  IInv'
<1>0. /\ TypeOK /\ OnScript /\ TypeOK' /\ ~Idle /\ Left \in Nat /\ UNCHANGED <<devVars, handle, counters, ghosts>>
      /\ Step \notin Reads
  BY NextType, LeftType DEF IInv, RequestUnanswered, Request, Next, HostStep
<1>1. mode \in {"rom", "gone", "lost"} /\ ~There /\ (mode = "rom" => ~handle)
  BY <1>0 DEF IInv, Plugged, RequestUnanswered, Listening, Busy, There, TypeOK
<1>2. \/ Advance /\ \/ /\ \/ At("boot", 18) \/ At("boot", 16) \/ At("boot", 15) \/ At("boot", 11)
                          \/ At("boot", 10) \/ At("boot", 8) \/ At("memtest", 5) \/ At("memtest", 4)
                          \/ At("gpio", 4) \/ At("gpio", 3) \/ At("nand", 2)
                       /\ debug_ops' = debug_ops
                    \/ At("memtest", 7) /\ debug_ops' = 1
                    \/ At("gpio", 6) /\ debug_ops' = 2
      \/ End(-1)
      \/ End(1) /\ Within("boot", 2, 5)
  BY <1>0, FailureMoves DEF RequestUnanswered
<1>3. UNCHANGED file /\ cpu_id' \in {cpu_id, 0}
  BY <1>0, FailureControl, CpuControl DEF RequestUnanswered, HostSeesFailure
<1>4. Reported => report.cmd = "none"
  BY <1>0 DEF Reported
<1>5. Started'
  BY <1>0, <1>2, <1>3, EndOn DEF IInv, devVars, ghosts, Advance, Started, At, Within
<1>6. Plugged' /\ Reported' /\ NeedsStage2' /\ DebugKept'
  BY <1>0, <1>2, <1>4, EndOn DEF IInv, devVars, ghosts, Advance, Plugged, Reported, NeedsStage2, DebugKept, At, Within, Idle
<1>7. Memory' /\ Uploads' /\ Stage1Upload' /\ Stage2Upload'
  BY <1>0, <1>1 DEF IInv, devVars, counters, Memory, Uploads, Stage1Upload, Stage2Upload, There
<1>8. Attended'
  BY <1>0, <1>1 DEF Attended, devVars
<1>9. failed = 0 /\ ~killed => (mode = "rom" => ep1 = <<>>) /\ (~odd => ep1 = <<>>)
  BY <1>0, <1>1, NoReadAt DEF IInv, Packets, Plugged, At, Within
<1>10. Packets'
  BY <1>0, <1>1, <1>2, <1>9, EndOn DEF IInv, devVars, counters, ghosts, Advance, Packets, At, Within
<1>11. OnScript'
  BY <1>2, EndOn DEF Advance
<1>12. cmd \in AllCommands /\ (report' = report \/ (report'.cmd = cmd /\ (report'.res = 1 => Within("boot", 2, 5))))
  <2>1. cmd \in AllCommands
    BY <1>0, LeftType
  <2>2. End(-1) => report'.cmd = cmd /\ report'.res = -1
    BY EndOn
  <2>3. End(1) => report'.cmd = cmd
    BY EndOn
  <2> QED
    BY <1>2, <2>1, <2>2, <2>3 DEF Advance
<1>13. ConfiguredRight' /\ BootReportsStage2' /\ LostForCause' /\ MemtestHonest'
  BY <1>0, <1>4, <1>12 DEF IInv, devVars, counters, ghosts, Started, Within, AllCommands,
       ConfiguredRight, BootReportsStage2, LostForCause, MemtestHonest
<1> QED
  BY <1>0, <1>5, <1>6, <1>7, <1>8, <1>10, <1>11, <1>13 DEF IInv

\* What a served request does to the state that init_cfg depends on.
LEMMA ServeCore ==
  ASSUME IInv, Request, Listening, Serve(Step)
  PROVE  /\ ConfiguredRight'
         /\ Within("boot", 2, 5) => mode' = "stage2" /\ hand_id' = Cpu
         /\ At("boot", 7) => mode' \in {"stage2", "lost", "gone"} /\ (mode' = "stage2" => Hand' = Junk /\ bulk' = <<>>)
         /\ At("boot", 3) => mode' = "stage2" /\ Hand' = Junk /\ bulk' = <<file>>
         /\ Within("boot", 4, 6) => UNCHANGED devVars
         /\ At("nand", 2) => mode' \in {"stage2", "lost"}
         /\ Step = "reset" => mode' = "rom"
<1>0. /\ TypeOK /\ OnScript /\ ~Idle /\ Started /\ NeedsStage2 /\ ConfiguredRight /\ cmd \in AllCommands /\ Left \in Nat
      /\ handle /\ ~cut /\ mode \in {"rom", "stage2"}
  BY LeftType DEF IInv, Request, Listening, Plugged
<1>1. /\ Within("boot", 2, 5) => mode = "stage2" /\ hand_id = Cpu
      /\ Within("boot", 1, 6) => mode = "stage2"
      /\ At("nand", 2) => mode = "stage2"
  BY <1>0 DEF Started, NeedsStage2, At, Within
<1>2. CASE Step = "address" /\ SetAddress
  <2>1. ~Within("boot", 2, 7) /\ ~At("nand", 2) /\ Step # "reset"
    BY <1>0, <1>2, StepAt DEF At, Within
  <2> QED
    BY <1>0, <1>2, <2>1 DEF SetAddress, ConfiguredRight, At, Within
<1>3. CASE Step = "bulk" /\ Receive(FALSE)
  <2>1. ~Within("boot", 2, 7) /\ ~At("nand", 2) /\ Step # "reset"
    BY <1>0, <1>3, StepAt DEF At, Within
  <2> QED
    BY <1>0, <1>3, <2>1 DEF Receive, ConfiguredRight, At, Within
<1>4. CASE Step = "bulkhand" /\ Receive(FALSE)
  <2>1. At("boot", 3)
    BY <1>0, <1>4, StepAt
  <2>2. mode = "stage2" /\ Hand = Junk /\ bulk = <<>> /\ hand_id = Cpu
    BY <1>0, <1>1, <2>1 DEF Started, At, Within
  <2>3. bulk' = <<file>> /\ UNCHANGED <<mode, Hand, hand_id>>
    BY <1>4, <2>2 DEF Receive
  <2> QED
    BY <1>4, <2>1, <2>2, <2>3 DEF ConfiguredRight, At, Within
<1>5. CASE Step = "start" /\ ~Stage2Start /\ Start1
  <2>1. ~At("boot", 7) /\ ~Within("boot", 2, 6) /\ ~At("nand", 2) /\ Step # "reset"
    BY <1>0, <1>5, StepAt DEF Stage2Start, Started, At, Within
  <2> QED
    BY <1>0, <1>5, <2>1 DEF Start1, ConfiguredRight, At, Within
<1>6. CASE Step = "start" /\ Stage2Start /\ Start2
  <2>1. ~Within("boot", 2, 6) /\ ~At("nand", 2) /\ Step # "reset"
    BY <1>0, <1>6, StepAt DEF At, Within
  <2>2. mode' \in {"stage2", "lost", "gone"} /\ (mode' = "stage2" => Hand' = Junk /\ bulk' = <<>>)
    BY <1>6 DEF Start2, EnterStage2, LeaveBus
  <2> QED
    BY <2>1, <2>2 DEF ConfiguredRight, At, Within
<1>7. CASE Step = "config" /\ CONFIGRATION_Handle
  <2>1. At("boot", 2)
    BY <1>0, <1>7, StepAt
  <2>2. mode = "stage2" /\ bulk = <<file>> /\ file.what = "hand" /\ file.cpu = Cpu
    BY <1>0, <1>1, <2>1 DEF Started, At, Within
  <2>3. Hand' = file /\ hand_id' = Hand'.cpu /\ mode' = mode
    BY <1>7, <2>2 DEF CONFIGRATION_Handle
  <2> QED
    BY <1>7, <2>1, <2>2, <2>3 DEF ConfiguredRight, At, Within
<1>8. CASE Step = "op" /\ NAND_OPS_Handle
  <2>1. At("nand", 2)
    BY <1>0, <1>8, StepAt
  <2> QED
    BY <1>0, <1>1, <1>8, <2>1 DEF NAND_OPS_Handle, ConfiguredRight, At, Within
<1>9. CASE Step = "reset" /\ PowerOnState
  <2>1. At("reset", 1)
    BY <1>0, <1>9, StepAt
  <2> QED
    BY <1>9, <2>1 DEF PowerOnState, ConfiguredRight, At, Within
<1>10. CASE Step \in {"flush", "bootcpu", "debugcpu", "needboot", "cfgcpu", "check"} /\ SameDevice
  <2>1. ~At("boot", 7) /\ ~At("boot", 3) /\ ~At("boot", 2) /\ ~At("nand", 2) /\ Step # "reset"
    BY <1>0, <1>10, AtStep
  <2> QED
    BY <1>0, <1>1, <1>10, <2>1 DEF SameDevice, devVars, ConfiguredRight, At, Within
<1> QED
  BY <1>2, <1>3, <1>4, <1>5, <1>6, <1>7, <1>8, <1>9, <1>10 DEF Serve

\* A failed request, whatever the device did with it: what holds whatever
\* fails is kept.
LEMMA RequestFailsInv ==
  ASSUME IInv, RequestFails
  PROVE  IInv'
<1>0. /\ TypeOK /\ OnScript /\ TypeOK' /\ ~Idle /\ Left \in Nat /\ cmd \in AllCommands /\ handle /\ ~cut
      /\ failed' = failed + 1 /\ failed \in Nat /\ Request /\ UNCHANGED <<killed, cut, odd, tested>>
  BY NextType, LeftType, FailedType DEF IInv, RequestFails, Request, Next, Listening, Busy, Plugged
<1>1. failed' # 0 /\ failed' > 0
  BY <1>0
<1>2. Memory' /\ Uploads' /\ Stage1Upload' /\ Stage2Upload' /\ Attended' /\ Packets' /\ LostForCause' /\ MemtestHonest'
  BY <1>1 DEF Memory, Uploads, Stage1Upload, Stage2Upload, Attended, Packets, LostForCause, MemtestHonest
<1>3. /\ ConfiguredRight'
      /\ Within("boot", 2, 5) => mode' = "stage2" /\ hand_id' = Cpu
      /\ At("nand", 2) => mode' \in {"stage2", "lost"}
      /\ ~handle' => mode' = "rom"
  <2>0. /\ Within("boot", 2, 5) => mode = "stage2" /\ hand_id = Cpu
        /\ At("nand", 2) => mode \in {"stage2", "lost"}
    BY <1>0 DEF IInv, Started, NeedsStage2, At, Within
  <2>1. CASE SameDevice /\ UNCHANGED handle
    BY <1>0, <2>0, <2>1 DEF IInv, SameDevice, devVars, ConfiguredRight
  <2>2. CASE Receive(TRUE) /\ UNCHANGED handle
    BY <1>0, <2>0, <2>2 DEF IInv, Receive, ConfiguredRight
  <2>3. CASE Listening /\ Serve(Step) /\ handle' = (Step # "reset")
    BY <1>0, <2>3, ServeCore
  <2> QED
    BY <2>1, <2>2, <2>3 DEF RequestFails
<1>4. \/ Advance /\ \/ /\ \/ At("boot", 18) \/ At("boot", 16) \/ At("boot", 15) \/ At("boot", 11)
                          \/ At("boot", 10) \/ At("boot", 8) \/ At("memtest", 5) \/ At("memtest", 4)
                          \/ At("gpio", 4) \/ At("gpio", 3) \/ At("nand", 2)
                       /\ debug_ops' = debug_ops
                    \/ At("memtest", 7) /\ debug_ops' = 1
                    \/ At("gpio", 6) /\ debug_ops' = 2
      \/ End(-1)
      \/ End(1) /\ Within("boot", 2, 5)
  BY <1>0, FailureMoves DEF RequestFails, Request, Reads
<1>5. UNCHANGED file
  BY <1>0, FailureControl, CpuControl DEF RequestFails, HostSeesFailure
<1>6. report.cmd = "none"
  BY <1>0 DEF IInv, Reported
<1>7. Started'
  BY <1>0, <1>4, <1>5, EndOn DEF IInv, Advance, Started, At, Within
<1>8. Plugged' /\ Reported' /\ NeedsStage2' /\ DebugKept'
  BY <1>0, <1>3, <1>4, <1>6, EndOn DEF IInv, Advance, Plugged, Reported, NeedsStage2, DebugKept, At, Within, Idle
<1>9. OnScript'
  BY <1>4, EndOn DEF Advance
<1>10. BootReportsStage2'
  <2>1. End(-1) => report'.res = -1
    BY EndOn
  <2>2. Advance => report'.cmd = "none"
    BY <1>6 DEF Advance
  <2> QED
    BY <1>3, <1>4, <2>1, <2>2 DEF BootReportsStage2
<1> QED
  BY <1>0, <1>2, <1>3, <1>7, <1>8, <1>9, <1>10 DEF IInv

\* What is known whenever a request is served and its completion seen.
LEMMA ServedFacts ==
  ASSUME IInv, RequestServed
  PROVE  /\ TypeOK /\ OnScript /\ TypeOK' /\ ~Idle /\ Left \in Nat /\ cmd \in AllCommands
         /\ handle /\ ~cut /\ mode \in {"rom", "stage2"} /\ Request /\ Listening /\ Serve(Step) /\ Step \notin Reads
         /\ handle' = (Step # "reset") /\ UNCHANGED <<counters, killed, cut, odd, tested>>
         /\ report.cmd = "none" /\ file' = file
<1>1. TypeOK /\ OnScript /\ ~Idle /\ Request /\ Listening /\ Serve(Step)
  BY DEF IInv, RequestServed, Request
<1>2. TypeOK' /\ Left \in Nat /\ cmd \in AllCommands
  BY <1>1, NextType, LeftType DEF Next, HostStep
<1>3. handle /\ ~cut /\ mode \in {"rom", "stage2"} /\ Step \notin Reads /\ report.cmd = "none"
  BY <1>1 DEF IInv, Plugged, Reported, Listening, Request
<1>4. file' = file
  BY <1>1, SuccessControl, CpuControl DEF RequestServed
<1> QED
  BY <1>1, <1>2, <1>3, <1>4 DEF RequestServed

\* Where the host goes after a request whose completion it has seen.
LEMMA SuccessMoves ==
  ASSUME IInv, RequestServed
  PROVE  \/ /\ Advance /\ debug_ops' = debug_ops
            /\ \/ Step \notin CpuSteps /\ cpu_id' = cpu_id /\ ~(Step = "check" /\ CpuStatus = "error")
               \/ At("boot", 18) /\ CpuStatus # "BOOT" /\ cpu_id' = IF CpuStatus = "error" THEN 0 ELSE Cpu
               \/ (At("boot", 5) \/ At("nand", 3) \/ At("reset", 2)) /\ CpuStatus = "BOOT" /\ cpu_id' = Cpu
         \/ /\ Advance /\ CpuStatus # "BOOT" /\ cpu_id' = IF CpuStatus = "error" THEN 0 ELSE Cpu
            /\ (At("memtest", 7) /\ debug_ops' = 1) \/ (At("gpio", 6) /\ debug_ops' = 2)
         \/ End(-1) /\ (Step = "check" => CpuStatus = "error")
         \/ /\ End(1)
            /\ \/ At("boot", 18) /\ CpuStatus = "BOOT"
               \/ At("boot", 5) /\ CpuStatus # "BOOT"
               \/ cmd # "boot"
<1>0. TypeOK /\ OnScript /\ ~Idle /\ Step \notin Reads
  BY ServedFacts
<1>1. CASE Step \in CpuSteps /\ get_ingenic_cpu(CpuStatus)
  <2>1. Step # "check"
    BY <1>1 DEF CpuSteps
  <2> QED
    BY <1>0, <1>1, <2>1, CpuControl
<1>2. CASE Step \notin CpuSteps /\ AfterSuccess
  <2>1. Left = 1 => cmd # "boot"
    BY <1>0, NoReadAt DEF At
  <2> QED
    BY <1>0, <1>2, <2>1, SuccessControl
<1> QED
  BY <1>1, <1>2 DEF RequestServed

\* Such a request keeps what holds whatever fails.
LEMMA ServedCoreInv ==
  ASSUME IInv, RequestServed
  PROVE  /\ OnScript' /\ Plugged' /\ Reported' /\ Started' /\ NeedsStage2' /\ DebugKept'
         /\ ConfiguredRight' /\ BootReportsStage2' /\ MemtestHonest'
<1>0. /\ TypeOK /\ OnScript /\ ~Idle /\ Left \in Nat /\ cmd \in AllCommands
      /\ handle /\ ~cut /\ mode \in {"rom", "stage2"} /\ Request /\ Listening /\ Serve(Step)
      /\ handle' = (Step # "reset") /\ UNCHANGED <<cut, odd>> /\ report.cmd = "none" /\ file' = file
  BY ServedFacts
<1>1. /\ ConfiguredRight'
      /\ Within("boot", 2, 5) => mode' = "stage2" /\ hand_id' = Cpu
      /\ At("boot", 7) => mode' \in {"stage2", "lost", "gone"} /\ (mode' = "stage2" => Hand' = Junk /\ bulk' = <<>>)
      /\ At("boot", 3) => mode' = "stage2" /\ Hand' = Junk /\ bulk' = <<file>>
      /\ Within("boot", 4, 6) => UNCHANGED devVars
      /\ At("nand", 2) => mode' \in {"stage2", "lost"}
      /\ Step = "reset" => mode' = "rom"
  BY <1>0, ServeCore
<1>2. CpuStatus = "BOOT" => mode = "stage2" /\ hand_id = Cpu
  BY <1>0 DEF CpuStatus
<1>3. CASE Advance
  <2>1. At("boot", 6) => mode = "stage2" /\ hand_id = Cpu
    <3>1. At("boot", 6) => mode = "stage2" /\ Step = "check"
      BY <1>0, AtStep DEF IInv, Started, At, Within
    <3>2. At("boot", 6) => CpuStatus # "error"
      BY <1>3, <3>1, SuccessMoves DEF At, CpuSteps, Advance, End
    <3> QED
      BY <3>1, <3>2 DEF CpuStatus
  <2>3. /\ (cpu_id' = cpu_id \/ At("boot", 18) \/ cpu_id' = Cpu \/ cmd # "boot")
        /\ (At("boot", 5) => cpu_id' = Cpu)
    BY <1>0, <1>3, SuccessMoves, AtStep DEF At, CpuSteps, Advance, End
  <2>4. Started'
    <3>1. Left' = Left - 1 /\ cmd' = cmd /\ Left > 1
      BY <1>3 DEF Advance
    <3>2. /\ Within("boot", 7, 11)' => Within("boot", 8, 12)
          /\ Within("boot", 1, 6)' => Within("boot", 2, 7)
          /\ Within("boot", 2, 6)' => Within("boot", 3, 7)
          /\ Within("boot", 1, 5)' => Within("boot", 2, 6)
          /\ Within("boot", 1, 4)' => Within("boot", 2, 5)
          /\ Within("boot", 1, 3)' => Within("boot", 2, 4)
          /\ At("boot", 2)' <=> At("boot", 3)
      BY <1>0, <3>1 DEF At, Within
    <3>3. ~At("boot", 12) /\ ~At("boot", 4)
      BY <1>0, AtStep DEF Request
    <3>4. Within("boot", 7, 11)' => file'.what = "stage2"
      BY <1>0, <3>2, <3>3 DEF IInv, Started, At, Within
    <3>5. Within("boot", 1, 6)' => mode' \in {"stage2", "lost", "gone"}
      BY <1>0, <1>1, <3>2 DEF IInv, Started, devVars, At, Within
    <3>6. Within("boot", 2, 6)' /\ mode' = "stage2" =>
             Hand' = Junk /\ (At("boot", 2)' => bulk' = <<file'>>) /\ (~At("boot", 2)' => bulk' = <<>>)
      BY <1>0, <1>1, <3>2, <3>3 DEF IInv, Started, devVars, At, Within
    <3>7. Within("boot", 1, 5)' => mode' = "stage2" /\ hand_id' = Cpu
      BY <1>0, <1>1, <2>1, <3>2 DEF devVars, At, Within
    <3>8. Within("boot", 1, 4)' => cpu_id' = Cpu
      BY <1>0, <2>3, <3>2 DEF IInv, Started, At, Within
    <3>9. Within("boot", 1, 3)' => file'.what = "hand" /\ file'.cpu = Cpu
      BY <1>0, <3>2, <3>3 DEF IInv, Started, At, Within
    <3> QED
      BY <3>4, <3>5, <3>6, <3>7, <3>8, <3>9 DEF Started
  <2>5. NeedsStage2'
    <3>1. At("nand", 3) \/ At("reset", 2) => mode' = "stage2"
      <4>1. At("nand", 3) \/ At("reset", 2) => Step = "needboot"
        BY <1>0, AtStep
      <4>2. At("nand", 3) \/ At("reset", 2) => CpuStatus = "BOOT"
        BY <1>3, <4>1, SuccessMoves DEF At, CpuSteps, Advance, End
      <4>3. Step = "needboot" => mode' = mode
        BY <1>0 DEF Serve, SameDevice, devVars
      <4> QED
        BY <1>2, <4>1, <4>2, <4>3
    <3> QED
      BY <1>0, <1>1, <1>3, <3>1 DEF Advance, NeedsStage2, At, Within
  <2>6. DebugKept'
    <3>1. ~At("boot", 17)
      BY <1>0, AtStep DEF Request
    <3>2. \/ debug_ops' = debug_ops /\ ~At("memtest", 7) /\ ~At("gpio", 6)
          \/ At("memtest", 7) /\ debug_ops' = 1
          \/ At("gpio", 6) /\ debug_ops' = 2
      BY <1>0, <1>3, SuccessMoves, AtStep DEF At, CpuSteps, Advance, End
    <3> QED
      BY <1>0, <1>3, <3>1, <3>2 DEF IInv, Advance, DebugKept, At, Within
  <2>7. Plugged' /\ Reported' /\ OnScript' /\ BootReportsStage2' /\ MemtestHonest'
    BY <1>0, <1>1, <1>3 DEF Advance, Plugged, Reported, BootReportsStage2, MemtestHonest
  <2> QED
    BY <1>1, <2>4, <2>5, <2>6, <2>7
<1>4. ASSUME NEW res \in {-1, 1}, End(res)
      PROVE  /\ OnScript' /\ Plugged' /\ Reported' /\ Started' /\ NeedsStage2' /\ DebugKept'
             /\ ConfiguredRight' /\ BootReportsStage2' /\ MemtestHonest'
  <2>1. cmd' = "none" /\ Idle' /\ OnScript' /\ report'.cmd = cmd /\ report'.res = res
    BY <1>4, EndOn
  <2>2. Plugged' /\ Reported' /\ Started' /\ NeedsStage2' /\ DebugKept'
    BY <1>0, <1>1, <2>1 DEF Plugged, Reported, Started, NeedsStage2, DebugKept, At, Within
  <2>3. MemtestHonest'
    BY <1>0, <2>1 DEF MemtestHonest, AllCommands
  <2>4. BootReportsStage2'
    <3>1. cmd = "boot" /\ res = 1 => At("boot", 5) \/ (At("boot", 18) /\ CpuStatus = "BOOT")
      BY <1>0, <1>4, <2>1, SuccessMoves, EndOn DEF Advance, Idle
    <3>2. At("boot", 18) => UNCHANGED <<mode, hand_id>>
      BY <1>0, AtStep DEF Serve, SameDevice, devVars
    <3> QED
      BY <1>1, <1>2, <2>1, <3>1, <3>2 DEF BootReportsStage2, At, Within
  <2> QED
    BY <1>1, <2>1, <2>2, <2>3, <2>4
<1> QED
  BY <1>3, <1>4, SuccessMoves

\* The parts of the invariant that hold while nothing has failed.
Clean == Memory /\ Uploads /\ Stage1Upload /\ Stage2Upload /\ Attended /\ Packets /\ LostForCause

\* After a failure the clean parts promise nothing.
LEMMA FailedCleanNext ==
  ASSUME TypeOK', failed' # 0
  PROVE  Clean'
<1>1. failed' > 0
  BY DEF TypeOK
<1> QED
  BY <1>1 DEF Clean, Memory, Uploads, Stage1Upload, Stage2Upload, Attended, Packets, LostForCause

\* Before a request of an upload the device is in the ROM and has no packet left.
LEMMA UploadFacts ==
  ASSUME IInv, RequestServed, failed = 0, Uploading
  PROVE  /\ mode = "rom" /\ There /\ cpu_id = Cpu
         /\ ~killed /\ ep1 # <<>> => (Within("boot", 7, 13) /\ odd) \/ At("memtest", 2)
  BY ServedFacts, NoReadAt DEF IInv, Uploads, There, Packets, At, Within

\* VR_SET_DATA_ADDRESS selects the place the file is for.
LEMMA AddressClean ==
  ASSUME IInv, RequestServed, failed = 0, Step = "address"
  PROVE  Clean'
<1>0. /\ TypeOK /\ OnScript /\ ~Idle /\ Left \in Nat /\ cmd \in AllCommands /\ handle'
      /\ SetAddress /\ UNCHANGED <<counters, killed, cut, odd, tested, file>>
  BY ServedFacts DEF Serve
<1>1. At("boot", 16) \/ At("boot", 11) \/ At("memtest", 5) \/ At("gpio", 4)
  BY <1>0, StepAt
<1>2. Advance /\ UNCHANGED <<cpu_id, debug_ops>>
  BY <1>0, <1>1, SuccessControl DEF RequestServed, CpuSteps, At
<1>3. mode = "rom" /\ There /\ cpu_id = Cpu
  BY <1>1, UploadFacts DEF Uploading, At, Within
<1>4. /\ At("boot", 11) => addr' = "sdram" /\ file = Code("stage2", Cpu, debug_ops)
      /\ ~At("boot", 11) => addr' = "cache" /\ file = Code("stage1", Cpu, debug_ops)
  BY <1>0, <1>1, <1>3 DEF SetAddress, IInv, Stage1Upload, Stage2Upload, Code, At, Within
<1>5. Memory' /\ Uploads' /\ Stage1Upload' /\ Stage2Upload'
  BY <1>0, <1>1, <1>2, <1>3, <1>4 DEF SetAddress, counters, Advance, IInv, Memory, Uploads, Uploading,
       Stage1Upload, Stage2Upload, There, At, Within
<1>6. Attended' /\ Packets' /\ LostForCause'
  BY <1>0, <1>1, <1>2, <1>3 DEF SetAddress, counters, Advance, IInv, Attended, Packets, LostForCause, At, Within
<1> QED
  BY <1>5, <1>6 DEF Clean

\* An upload stores the file there.
LEMMA BulkClean ==
  ASSUME IInv, RequestServed, failed = 0, Step = "bulk"
  PROVE  Clean'
<1>0. /\ TypeOK /\ OnScript /\ ~Idle /\ Left \in Nat /\ cmd \in AllCommands /\ handle'
      /\ Receive(FALSE) /\ UNCHANGED <<counters, killed, cut, odd, tested, file>>
  BY ServedFacts DEF Serve
<1>1. At("boot", 15) \/ At("boot", 10) \/ At("memtest", 4) \/ At("gpio", 3)
  BY <1>0, StepAt
<1>2. Advance /\ UNCHANGED <<cpu_id, debug_ops>>
  BY <1>0, <1>1, SuccessControl DEF RequestServed, CpuSteps, At
<1>3. mode = "rom" /\ There /\ cpu_id = Cpu
  BY <1>1, UploadFacts DEF Uploading, At, Within
<1>4. /\ At("boot", 10) => addr = "sdram" /\ file = Code("stage2", Cpu, debug_ops) /\ (odd \/ sdram)
      /\ ~At("boot", 10) => addr = "cache" /\ file = Code("stage1", Cpu, debug_ops)
  BY <1>0, <1>1, <1>3 DEF IInv, Stage1Upload, Stage2Upload, At, Within
<1>5. mem \in [cache : Codes, sdram : Codes] /\ file.cpu = Cpu
  BY <1>0, <1>4 DEF TypeOK, Code
<1>6. /\ ~At("boot", 10) => mem'.cache = file /\ mem'.sdram = mem.sdram
      /\ At("boot", 10) => mem'.cache = mem.cache /\ mem'.sdram \in {mem.sdram, file} /\ (~odd => mem'.sdram = file)
  BY <1>0, <1>3, <1>4, <1>5 DEF Receive
<1>7. Memory' /\ Uploads'
  BY <1>0, <1>1, <1>2, <1>3, <1>5, <1>6 DEF Receive, counters, Advance, IInv, Memory, Uploads, Uploading,
       There, At, Within
<1>8. Stage1Upload' /\ Stage2Upload'
  BY <1>0, <1>1, <1>2, <1>3, <1>4, <1>6 DEF Receive, counters, Advance, IInv,
       Stage1Upload, Stage2Upload, There, At, Within
<1>9. Attended' /\ Packets' /\ LostForCause'
  BY <1>0, <1>1, <1>2, <1>3 DEF Receive, counters, Advance, IInv, Attended, Packets, LostForCause, At, Within
<1> QED
  BY <1>7, <1>8, <1>9 DEF Clean

\* The hand structure goes to stage 2's buffer.
LEMMA HandClean ==
  ASSUME IInv, RequestServed, failed = 0, Step = "bulkhand"
  PROVE  Clean'
<1>0. /\ TypeOK /\ OnScript /\ ~Idle /\ Left \in Nat /\ cmd \in AllCommands /\ handle /\ ~cut
      /\ Receive(FALSE) /\ UNCHANGED <<counters, killed, cut, odd, tested, file>>
  BY ServedFacts DEF Serve
<1>1. At("boot", 3)
  BY <1>0, StepAt
<1>2. Advance
  BY <1>0, <1>1, SuccessControl DEF RequestServed, CpuSteps, At
<1>3. mode = "stage2" /\ UNCHANGED mem
  BY <1>0, <1>1 DEF IInv, Started, Receive, At, Within
<1> QED
  BY <1>0, <1>1, <1>2, <1>3 DEF Receive, counters, Advance, IInv, Clean, Memory, Uploads, Uploading,
       Stage1Upload, Stage2Upload, There, Attended, Packets, LostForCause, At, Within

\* A start finds the program it is meant for.
LEMMA StartClean ==
  ASSUME IInv, RequestServed, failed = 0, Step = "start"
  PROVE  Clean'
<1>0. /\ TypeOK /\ OnScript /\ ~Idle /\ Left \in Nat /\ cmd \in AllCommands /\ handle' /\ ~cut
      /\ UNCHANGED <<counters, killed, cut, odd, tested, file>>
      /\ (~Stage2Start /\ Start1) \/ (Stage2Start /\ Start2)
  BY ServedFacts DEF Serve
<1>1. CASE At("boot", 14) \/ At("memtest", 3) \/ At("gpio", 2)
  <2>1. Advance /\ UNCHANGED <<cpu_id, debug_ops>>
    BY <1>0, <1>1, SuccessControl DEF RequestServed, CpuSteps, At
  <2>2. mode = "rom" /\ There /\ cpu_id = Cpu /\ (~killed => ep1 = <<>>)
    BY <1>1, UploadFacts DEF Uploading, At, Within
  <2>3. file = Code("stage1", Cpu, debug_ops) /\ addr = "cache" /\ mem.cache = file
    BY <1>1, <2>2 DEF IInv, Stage1Upload, At, Within
  <2>4. file.what = "stage1" /\ file.debug = debug_ops /\ cmd # "go"
    BY <1>1, <2>3 DEF Code, At
  <2>5. mode' = "stage1" /\ UNCHANGED <<addr, mem, sdram, hand_id, Hand, bulk, ep1, why>>
    BY <1>0, <2>2, <2>4 DEF Stage2Start, Start1
  <2>6. Memory' /\ Uploads' /\ Stage1Upload' /\ Stage2Upload'
    BY <1>0, <1>1, <2>1, <2>2, <2>3, <2>4, <2>5 DEF counters, Advance, IInv, Memory, Uploads, Uploading,
         Stage1Upload, Stage2Upload, There, At, Within
  <2>7. At("memtest", 3) => debug_ops = 1
    BY DEF IInv, DebugKept, At, Within
  <2>8. Attended' /\ Packets' /\ LostForCause'
    BY <1>0, <1>1, <2>1, <2>2, <2>3, <2>4, <2>5, <2>7 DEF counters, Advance, IInv, Attended, Packets, LostForCause, At, Within
  <2> QED
    BY <2>6, <2>8 DEF Clean
<1>2. CASE At("boot", 7)
  <2>1. Advance /\ UNCHANGED <<cpu_id, debug_ops>>
    BY <1>0, <1>2, SuccessControl DEF RequestServed, CpuSteps, At
  <2>2. mode = "rom" /\ There
    BY <1>2, UploadFacts DEF Uploading, At, Within
  <2>3. file.what = "stage2" /\ file.cpu = Cpu /\ (~odd => sdram /\ mem.sdram = file)
    BY <1>2, <2>2 DEF IInv, Stage2Upload, Code, At, Within
  <2>4. EnterStage2
    BY <1>0, <1>2, <2>2, <2>3 DEF Stage2Start, Start2, At
  <2>5. mem \in [cache : Codes, sdram : Codes] /\ (mem.sdram.what = "stage2" => mem.sdram.cpu = Cpu)
    BY <1>0, CodeType DEF IInv, Memory, TypeOK
  <2>6. /\ mem'.cache = mem.cache /\ (mem'.sdram = mem.sdram \/ mem'.sdram = Junk) /\ mode' \in {"stage2", "lost"}
        /\ mode' = "stage2" => hand_id' = Cpu
        /\ mode' = "lost" => odd /\ why' = "wild"
        /\ mode' = "stage2" => why' = why
        /\ ep1' = ep1
    BY <2>3, <2>4, <2>5 DEF EnterStage2
  <2>7. Memory' /\ Uploads' /\ Stage1Upload' /\ Stage2Upload'
    BY <1>0, <1>2, <2>1, <2>6 DEF counters, Advance, IInv, Memory, Uploads, Uploading,
         Stage1Upload, Stage2Upload, There, At, Within
  <2>8. Attended' /\ Packets' /\ LostForCause'
    BY <1>0, <1>2, <2>1, <2>6 DEF counters, Advance, IInv, Attended, Packets, LostForCause, At, Within
  <2> QED
    BY <2>7, <2>8 DEF Clean
<1>3. CASE At("go", 1)
  <2>1. End(1)
    BY <1>0, <1>3, SuccessControl DEF RequestServed, CpuSteps, At, Advance
  <2>2. LeaveBus /\ why' = "go"
    BY <1>0, <1>3 DEF Stage2Start, Start2, LeaveBus, At
  <2> QED
    BY <1>0, <1>3, <2>1, <2>2, EndOn DEF LeaveBus, counters, IInv, Clean, Memory, Uploads, Uploading,
         Stage1Upload, Stage2Upload, There, Attended, Packets, LostForCause, At, Within
<1> QED
  BY <1>0, <1>1, <1>2, <1>3, StepAt

\* The configuration finds the hand structure and sends one handshake.
LEMMA ConfigClean ==
  ASSUME IInv, RequestServed, failed = 0, Step = "config"
  PROVE  Clean'
<1>0. /\ TypeOK /\ OnScript /\ ~Idle /\ Left \in Nat /\ cmd \in AllCommands /\ handle /\ ~cut
      /\ CONFIGRATION_Handle /\ UNCHANGED <<counters, killed, cut, odd, tested, file>>
  BY ServedFacts DEF Serve
<1>1. At("boot", 2)
  BY <1>0, StepAt
<1>2. Advance
  BY <1>0, <1>1, SuccessControl DEF RequestServed, CpuSteps, At
<1>3. mode = "stage2" /\ bulk = <<file>> /\ file.cpu = Cpu
  BY <1>0, <1>1 DEF IInv, Started, At, Within
<1>4. Hand' = file /\ hand_id' = Cpu /\ ep1' = Append(ep1, "handshake") /\ UNCHANGED <<mode, addr, mem, sdram, why>>
  BY <1>0, <1>3 DEF CONFIGRATION_Handle
<1>5. ~killed /\ ~odd => ep1 = <<>>
  BY <1>0, <1>1 DEF IInv, Packets, At, Within
<1>6. ~killed /\ ~odd => Len(ep1') <= 1
  BY <1>4, <1>5
<1>7. Packets'
  BY <1>0, <1>1, <1>2, <1>3, <1>4, <1>6 DEF counters, Advance, Packets, At, Within
<1> QED
  BY <1>0, <1>1, <1>2, <1>3, <1>4, <1>7 DEF counters, Advance, IInv, Clean, Memory, Uploads, Uploading,
       Stage1Upload, Stage2Upload, There, Attended, LostForCause, At, Within

\* A NAND operation finds a configured stage 2 and sends one handshake.
LEMMA OpClean ==
  ASSUME IInv, RequestServed, failed = 0, Step = "op"
  PROVE  Clean'
<1>0. /\ TypeOK /\ OnScript /\ ~Idle /\ Left \in Nat /\ cmd \in AllCommands /\ handle /\ ~cut /\ mode \in {"rom", "stage2"}
      /\ NAND_OPS_Handle /\ UNCHANGED <<counters, killed, cut, odd, tested, file>>
  BY ServedFacts DEF Serve
<1>1. At("nand", 2)
  BY <1>0, StepAt
<1>2. Advance
  BY <1>0, <1>1, SuccessControl DEF RequestServed, CpuSteps, At
<1>3. mode = "stage2" /\ (~killed => Hand.cpu = Cpu)
  BY <1>0, <1>1 DEF IInv, NeedsStage2, Attended, At, Within
<1>4. /\ mode' \in {"stage2", "lost"} /\ UNCHANGED <<addr, mem, sdram, hand_id, Hand>>
      /\ mode' = "stage2" => ep1' = Append(ep1, "handshake") /\ why' = why
      /\ mode' = "lost" => killed /\ why' = "null"
  BY <1>0, <1>3 DEF NAND_OPS_Handle
<1>5. ~killed /\ ~odd => ep1 = <<>>
  BY <1>0, <1>1 DEF IInv, Packets, At, Within
<1>6. ~killed /\ ~odd => Len(ep1') <= 1
  BY <1>4, <1>5
<1>7. Packets'
  BY <1>0, <1>1, <1>2, <1>3, <1>4, <1>6 DEF counters, Advance, Packets, At, Within
<1> QED
  BY <1>0, <1>1, <1>2, <1>3, <1>4, <1>7 DEF counters, Advance, IInv, Clean, Memory, Uploads, Uploading,
       Stage1Upload, Stage2Upload, There, Attended, LostForCause, At, Within

\* reset puts the device back into its ROM.
LEMMA ResetClean ==
  ASSUME IInv, RequestServed, failed = 0, Step = "reset"
  PROVE  Clean'
<1>0. /\ TypeOK /\ OnScript /\ ~Idle /\ cmd \in AllCommands /\ PowerOnState /\ UNCHANGED <<counters, killed, odd, why>>
      /\ handle' = FALSE
  BY ServedFacts DEF Serve
<1>1. At("reset", 1)
  BY <1>0, StepAt
<1>2. End(1)
  BY <1>0, <1>1, SuccessControl DEF RequestServed, CpuSteps, At, Advance
<1>3. Len(ep1') = 0 /\ ep1' = <<>>
  BY <1>0 DEF PowerOnState
<1> QED
  BY <1>0, <1>2, <1>3, EndOn DEF PowerOnState, counters, IInv, Clean, Memory, Uploads,
       Stage1Upload, Stage2Upload, There, Attended, Packets, LostForCause, At, Within

\* Status requests and the cache flush change nothing on the device.
LEMMA StatusClean ==
  ASSUME IInv, RequestServed, failed = 0,
         Step \in {"flush", "bootcpu", "debugcpu", "needboot", "cfgcpu", "check"}
  PROVE  Clean'
<1>0. /\ TypeOK /\ OnScript /\ ~Idle /\ Left \in Nat /\ cmd \in AllCommands /\ handle /\ handle' /\ ~cut
      /\ mode \in {"rom", "stage2"} /\ Step \notin Reads
      /\ SameDevice /\ UNCHANGED <<counters, killed, cut, odd, tested, file>>
  BY ServedFacts DEF Serve
<1>1. mode = "stage2" => CpuStatus = "BOOT"
  BY DEF IInv, Memory, CpuStatus
<1>2. mode = "rom" => CpuStatus = "JZ"
  BY DEF CpuStatus
<1>3. Within("boot", 1, 6) => mode = "stage2"
  BY <1>0 DEF IInv, Started
<1>4. Memory' /\ LostForCause'
  BY <1>0 DEF SameDevice, devVars, counters, IInv, Memory, LostForCause
<1>5. \/ Advance /\ \/ At("boot", 18) /\ mode = "rom" /\ cpu_id' = Cpu /\ UNCHANGED debug_ops
                    \/ (At("memtest", 7) \/ At("gpio", 6)) /\ mode = "rom" /\ cpu_id' = Cpu
                    \/ (At("boot", 5) \/ At("nand", 3) \/ At("reset", 2)) /\ mode = "stage2"
                    \/ /\ UNCHANGED <<cpu_id, debug_ops>>
                       /\ At("boot", 13) \/ At("boot", 9) \/ At("boot", 8) \/ At("boot", 6) \/ At("memtest", 2)
      \/ cmd' = "none" /\ (At("boot", 18) \/ At("memtest", 7) \/ At("gpio", 6) \/ At("gpio", 1) \/ At("nand", 3) \/ At("reset", 2))
  <2>1. CASE Step \in CpuSteps
    <3>1. get_ingenic_cpu(CpuStatus)
      BY <2>1 DEF RequestServed
    <3>2. At("boot", 5) => CpuStatus = "BOOT"
      BY <1>1, <1>3 DEF At, Within
    <3> QED
      BY <1>0, <1>1, <1>2, <3>1, <3>2, CpuControl, EndOn
  <2>2. CASE Step \notin CpuSteps
    <3>1. \/ At("boot", 13) \/ At("boot", 9) \/ At("boot", 8) \/ At("boot", 6)
          \/ At("memtest", 2) \/ At("gpio", 1)
      BY <1>0, <2>2, StepAt DEF CpuSteps
    <3>2. CpuStatus # "error"
      BY <1>0, <1>1, <1>2
    <3>3. /\ UNCHANGED <<cpu_id, debug_ops>>
          /\ Advance \/ (Left = 1 /\ End(1))
      BY <1>0, <2>2, <3>2, SuccessControl DEF RequestServed
    <3> QED
      BY <3>1, <3>3, EndOn DEF At, Advance
  <2> QED
    BY <2>1, <2>2
<1>6. CASE Advance
  <2>1. Left' = Left - 1 /\ cmd' = cmd /\ Left > 1
    BY <1>6 DEF Advance
  <2>2. cmd' # "none"
    BY <1>0, <2>1 DEF Idle
  <2>3. Uploads' /\ Stage1Upload' /\ Stage2Upload'
    BY <1>0, <1>5, <2>1, <2>2 DEF SameDevice, devVars, counters, IInv, Uploads, Uploading,
         Stage1Upload, Stage2Upload, There, At, Within
  <2>4. Attended'
    BY <1>0, <1>3, <1>5, <2>1, <2>2 DEF SameDevice, devVars, counters, IInv, Attended, At, Within
  <2>5. Packets'
    BY <1>0, <1>5, <2>1, <2>2 DEF SameDevice, devVars, counters, IInv, Packets, At, Within
  <2> QED
    BY <1>4, <2>3, <2>4, <2>5 DEF Clean
<1>7. CASE cmd' = "none"
  <2>1. Uploads' /\ Stage1Upload' /\ Stage2Upload'
    BY <1>7 DEF Uploads, Uploading, Stage1Upload, Stage2Upload, At, Within
  <2>2. cmd # cmd'
    BY <1>0, <1>7 DEF Idle
  <2>3. Attended' /\ Packets'
    BY <1>0, <1>5, <1>7, <2>2 DEF Advance, SameDevice, devVars, counters, IInv, Attended, Packets, At, Within
  <2> QED
    BY <1>4, <2>1, <2>3 DEF Clean
<1> QED
  BY <1>5, <1>6, <1>7

\* Every served request keeps the invariant.
LEMMA ServedInv ==
  ASSUME IInv, RequestServed
  PROVE  IInv'
<1>1. TypeOK' /\ failed' = failed /\ Serve(Step)
  BY ServedFacts DEF counters
<1>2. failed = 0 => Clean'
  BY <1>1, AddressClean, BulkClean, HandClean, StartClean, ConfigClean, OpClean, ResetClean, StatusClean DEF Serve
<1>3. failed # 0 => Clean'
  BY <1>1, FailedCleanNext
<1> QED
  BY <1>1, <1>2, <1>3, ServedCoreInv DEF IInv, Clean

\* Every step keeps the invariant.
LEMMA NextInv ==
  ASSUME IInv, [Next]_vars
  PROVE  IInv'
<1>1. ASSUME NEW c \in Commands, Enter(c) PROVE IInv'
  BY <1>1, EnterInv
<1>2. CASE HostStep
  BY <1>2, LoadInv, ServedInv, UnansweredInv, ReadPacketInv, ReadTimesOutInv DEF HostStep
<1>3. CASE LoadFails \/ RequestFails
  BY <1>3, LoadFailsInv, RequestFailsInv
<1>4. CASE Stage1Runs \/ Restart \/ PowerCycle
  BY <1>4, Stage1RunsInv, RestartInv, PowerCycleInv
<1>5. CASE Done \/ UNCHANGED vars
  BY <1>5, DoneInv DEF Done
<1> QED
  BY <1>1, <1>2, <1>3, <1>4, <1>5 DEF Next

-----------------------------------------------------------------------------
(* The theorems.                                                           *)

\* The strengthening is an invariant of the session: every action of the host,
\* of the device and of the user keeps it.
THEOREM Invariance == Spec => []IInv
<1>1. Init => IInv
  BY InitInv
<1>2. IInv /\ [Next]_vars => IInv'
  BY NextInv
<1> QED
  BY <1>1, <1>2, PTL DEF Spec

\* The host's and the device's copies of the firmware arguments, the places of
\* a command's steps and the FIFO contents have their types throughout.
THEOREM TypeCorrect == Spec => []TypeOK
<1>1. IInv => TypeOK
  BY DEF IInv
<1> QED
  BY <1>1, Invariance, PTL

\* Whatever fails, in any session of any length, a stage 2 that Board_Init has
\* configured holds the host's complete hand structure with the chip's id.
THEOREM Configuration == Spec => []ConfiguredRight
<1>1. IInv => ConfiguredRight
  BY DEF IInv
<1> QED
  BY <1>1, Invariance, PTL

\* Whatever fails, a boot that returns 1 leaves the device in stage 2 with its
\* chip known, unless it was powered off meanwhile.
THEOREM BootResult == Spec => []BootReportsStage2
<1>1. IInv => BootReportsStage2
  BY DEF IInv
<1> QED
  BY <1>1, Invariance, PTL

\* The device stops answering only for a cause: a failed request or file, a
\* boot with stage 1 in a debug mode, a kill inside a boot, or go.
THEOREM Causes == Spec => []LostForCause
<1>1. IInv => LostForCause
  BY DEF IInv
<1> QED
  BY <1>1, Invariance, PTL

\* While nothing fails, debug_memory prints the verdict of its own memory test.
THEOREM Verdict == Spec => []MemtestHonest
<1>1. IInv => MemtestHonest
  BY DEF IInv
<1> QED
  BY <1>1, Invariance, PTL

\* While nothing fails, no packet is left for the next command to read.
THEOREM Drained == Spec => []EP1Drained
<1>1. IInv => EP1Drained
  <2> SUFFICES ASSUME IInv, Idle, ep1 # <<>>, failed = 0, ~killed, ~odd PROVE FALSE
    BY FailedType DEF IInv, EP1Drained
  <2> QED
    BY DEF IInv, Packets, Idle, At, Within
<1> QED
  BY <1>1, Invariance, PTL

====
