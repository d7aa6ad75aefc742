-------------------------------- MODULE Udc --------------------------------
(***************************************************************************)
(* The stage 2 firmware's USB side (xburst_stage2/udc.c, boothandler.c)    *)
(* talking to the host tools over one control endpoint and one bulk        *)
(* endpoint pair.                                                          *)
(*                                                                         *)
(* The firmware is a polling loop without interrupts: udc4740Proc reads    *)
(* the three interrupt registers one after the other (reading clears       *)
(* them), then runs the handlers EP1-IN, EP1-OUT, bus reset, EP0 in that   *)
(* order.  The controller and the host run concurrently with it, so every  *)
(* register read and every handler is a step of its own, and the EP0       *)
(* handler is two: it acknowledges the SETUP packet before it executes the *)
(* request, and the host goes on as soon as the acknowledgement is out.    *)
(*                                                                         *)
(* The host performs one exchange after another: optional GET_CPU_INFO,    *)
(* bulk OUT data, address, length, the operation, bulk IN data, handshake. *)
(* It may time out in any of them, and the bus may be reset.               *)
(*                                                                         *)
(* Data is abstracted to its origin: every packet, parameter and result    *)
(* carries the number of the request it belongs to.  Sizes are in units of *)
(* one handshake (8 bytes).                                                *)
(***************************************************************************)
EXTENDS Integers, Sequences

CONSTANTS
  FifoSize,     \* fifosize[1], the EP1 packet size
  Lens,         \* sizes of the bulk data of an exchange, IN and OUT
  Ops,          \* the operations the host uses
  FullSpeed,    \* POWER register bit 0x10 clear: the link runs at full speed
  MaxReq,       \* bound: exchanges the host starts
  MaxTimeouts,  \* bound: host timeouts
  MaxResets     \* bound: bus resets

AllOps == {"query", "mark_bad", "erase", "program", "read", "read_oob",
           "read_raw", "read_to_ram", "config", "sdram"}

ASSUME FifoAssumption == FifoSize \in Nat \ {0}
ASSUME LensAssumption == Lens \subseteq Nat \ {0}
ASSUME OpsAssumption  == Ops \subseteq AllOps
ASSUME SpeedAssumption == FullSpeed \in BOOLEAN
ASSUME BoundAssumption == MaxReq \in Nat /\ MaxTimeouts \in Nat /\ MaxResets \in Nat

VARIABLES
  \* USB controller (external hardware)
  intrUsb,         \* USB_REG_INTRUSB: reset seen
  intrIn,          \* USB_REG_INTRIN: subset of {"EP0", "EP1"}
  intrOut,         \* USB_REG_INTROUT: EP1 packet received
  inFifo,          \* EP1 IN FIFO (INPKTRDY while it holds a packet)
  outFifo,         \* EP1 OUT FIFO (OUTPKTRDY while not empty)
  setup,           \* EP0 FIFO: SETUP packet not yet read by the firmware
  setupEnd,        \* USB_CSR0_SETUPEND
  \* firmware
  pc,              \* where udc4740Proc is
  lUsb, lIn, lOut, \* its local copies IntrUSB, IntrIn, IntrOut
  cur,             \* rx_buf: the request being executed
  ep0state, tx_size, finished,
  udc_state, Bulk_in_size, Bulk_in_finish, USB_Version,
  in_buf,          \* whose data is in Bulk_in_buf
  out_buf,         \* Bulk_out_buf[0 .. Bulk_out_size)
  handshake_PKT,   \* whose position (words 0,1) and whose status (word 3)
  ret_dat, start_addr, ops_length, ram_addr,
  \* host
  req, op, n,      \* current exchange: number, operation, data size
  todo,            \* its remaining stages
  sent, left,      \* bulk units sent / still to be read
  waiting, acked,  \* control transfer under way; last SETUP answered
  got,             \* packets read from EP1 IN
  timeouts, resets,
  \* bookkeeping for the properties
  dirty,           \* an exchange was cut short since the last udc_reset
  overrun,         \* a packet was written into a full IN FIFO
  ran              \* inputs the last operation really used

hwVars   == <<intrUsb, intrIn, intrOut, inFifo, outFifo, setup, setupEnd>>
pollVars == <<pc, lUsb, lIn, lOut>>
ep0Vars  == <<cur, ep0state, tx_size, finished>>
bulkVars == <<udc_state, Bulk_in_size, Bulk_in_finish, in_buf, out_buf>>
parVars  == <<handshake_PKT, ret_dat, start_addr, ops_length, ram_addr>>
xferVars == <<req, op, n, todo, sent, left, waiting, got>>
hostVars == <<xferVars, acked, timeouts, resets>>
ghosts   == <<dirty, overrun, ran>>
vars == <<hwVars, pollVars, ep0Vars, bulkVars, parVars, USB_Version, hostVars, ghosts>>

-----------------------------------------------------------------------------
(* Packets and requests.                                                   *)

HsLen == 1                      \* sizeof(handshake_PKT), the unit
MAX_EP0_SIZE == 64              \* EP0 sizes are in bytes

Least(a, b) == IF a <= b THEN a ELSE b

\* Stages of an exchange that are control transfers, and what each asks for.
Control == {"cpuinfo", "addr", "len", "ram", "op", "descriptor", "set_address"}

NoPkt == [kind |-> "none", req |-> 0, from |-> 0, len |-> 0, stat |-> 0]
DataPkt(r, from, len) == [kind |-> "data", req |-> r, from |-> from, len |-> len, stat |-> 0]
HsPkt(h) == [kind |-> "hs", req |-> h.pos, from |-> 0, len |-> HsLen, stat |-> h.stat]

NoSetup == [stage |-> "none", req |-> 0, op |-> "none", n |-> 0]

\* The bulk OUT payload of exchange r: one token per unit.
Payload(r, len) == [i \in 1..len |-> <<r, i>>]

\* What each operation sends and reads after the optional GET_CPU_INFO.
Body == [ query       |-> <<"op", "data", "hs">>,
          mark_bad    |-> <<"addr", "op", "hs">>,
          erase       |-> <<"addr", "len", "op", "hs">>,
          program     |-> <<"out", "addr", "len", "op", "hs">>,
          read        |-> <<"addr", "len", "op", "data", "hs">>,
          read_oob    |-> <<"addr", "len", "op", "data", "hs">>,
          read_raw    |-> <<"addr", "len", "op", "data", "hs">>,
          read_to_ram |-> <<"ram", "addr", "len", "op", "hs">>,
          config      |-> <<"out", "op", "hs">>,
          sdram       |-> <<"out", "addr", "len", "op", "hs">> ]

\* usbboot asks for the CPU before every command, jzboot does not.
Script(o, probe) == (IF probe THEN <<"cpuinfo">> ELSE <<>>) \o Body[o]

\* What the kernel's enumeration asks for after a bus reset.
Enumeration == <<"descriptor", "set_address">>

\* Stages whose failure makes the host give the operation up; the result of
\* the others is ignored and the next stage follows.
Checked(o) == {"cpuinfo", "descriptor", "set_address"} \cup
              (CASE o = "program" -> {"addr", "len", "op", "hs"}
                 [] o = "config" -> {"out", "op", "hs"}
                 [] o = "read_to_ram" -> {"ram", "addr", "len", "op", "hs"}
                 [] OTHER -> {})

Stage == IF todo = <<>> THEN "idle" ELSE Head(todo)

Init ==
  /\ intrUsb = FALSE /\ intrIn = {} /\ intrOut = FALSE
  /\ inFifo = NoPkt /\ outFifo = <<>> /\ setup = NoSetup /\ setupEnd = FALSE
  /\ pc = "usb" /\ lUsb = FALSE /\ lIn = {} /\ lOut = FALSE
  /\ cur = NoSetup /\ ep0state = "IDLE" /\ tx_size = 0 /\ finished = 0
  /\ udc_state = "IDLE" /\ Bulk_in_size = 0 /\ Bulk_in_finish = 0
  /\ USB_Version = "HS"          \* usb_main ends with it whatever the link speed
  /\ in_buf = 0 /\ out_buf = <<>>
  /\ handshake_PKT = [pos |-> 0, stat |-> 0] /\ ret_dat = 0
  /\ start_addr = 0 /\ ops_length = [req |-> 0, n |-> 0] /\ ram_addr = 0
  /\ req = 0 /\ op = "none" /\ n = 0 /\ todo = <<>> /\ sent = 0 /\ left = 0
  /\ waiting = FALSE /\ acked = NoSetup /\ got = <<>> /\ timeouts = 0 /\ resets = 0
  /\ dirty = FALSE /\ overrun = FALSE
  /\ ran = [req |-> 0, op |-> "none", out |-> <<>>, addr |-> 0, len |-> 0, ram |-> 0]

-----------------------------------------------------------------------------
(* Sending on EP1.                                                         *)

\* Writing the FIFO and setting INPKTRDY.  The firmware never looks whether
\* the previous packet is still there; what the controller then holds is not
\* specified, so either packet may survive.
WriteFifo(p) ==
  /\ inFifo' \in IF inFifo = NoPkt THEN {p} ELSE {inFifo, p}
  /\ overrun' = (overrun \/ inFifo # NoPkt)

\* HW_SendPKT(1, buf, size): start a transfer with its first packet.
SendHandshake(h) ==
  /\ handshake_PKT' = h
  /\ Bulk_in_size' = HsLen
  /\ Bulk_in_finish' = HsLen
  /\ WriteFifo(HsPkt(h))

\* Mutant: the first packet is sent but not counted.
SendDataUncounted(r, size) ==
  /\ in_buf' = r
  /\ Bulk_in_size' = size
  /\ Bulk_in_finish' = 0
  /\ WriteFifo(DataPkt(r, 0, Least(size, FifoSize)))

SendData(r, size) ==
  /\ in_buf' = r
  /\ Bulk_in_size' = size
  /\ Bulk_in_finish' = Least(size, FifoSize)
  /\ WriteFifo(DataPkt(r, 0, Least(size, FifoSize)))

\* HW_SendPKT(0, buf, size): hand size bytes to the EP0 handler.
SendEP0(size) == tx_size' = size /\ finished' = 0 /\ ep0state' = "TX"

-----------------------------------------------------------------------------
(* The polling loop: reading the interrupt registers.                      *)

At(here, next) == pc = here /\ pc' = next

ReadIntrUsb ==
  /\ At("usb", "in")
  /\ lUsb' = intrUsb /\ intrUsb' = FALSE
  /\ UNCHANGED <<intrIn, intrOut, inFifo, outFifo, setup, setupEnd, lIn, lOut,
                 ep0Vars, bulkVars, parVars, USB_Version, hostVars, ghosts>>

ReadIntrIn ==
  /\ At("in", "out")
  /\ lIn' = intrIn /\ intrIn' = {}
  /\ UNCHANGED <<intrUsb, intrOut, inFifo, outFifo, setup, setupEnd, lUsb, lOut,
                 ep0Vars, bulkVars, parVars, USB_Version, hostVars, ghosts>>

\* The last register; nothing pending ends the poll at once.
ReadIntrOut ==
  /\ At("out", IF ~lUsb /\ lIn = {} /\ ~intrOut THEN "usb" ELSE "epin")
  /\ lOut' = intrOut /\ intrOut' = FALSE
  /\ UNCHANGED <<intrUsb, intrIn, inFifo, outFifo, setup, setupEnd, lUsb, lIn,
                 ep0Vars, bulkVars, parVars, USB_Version, hostVars, ghosts>>

-----------------------------------------------------------------------------
(* The handlers.                                                           *)

\* Mutant: udc_state is not put back to IDLE.
Handshake_PKTAgain ==
  IF udc_state # "IDLE"
  THEN SendHandshake(handshake_PKT) /\ UNCHANGED <<udc_state, in_buf>>
  ELSE UNCHANGED <<udc_state, Bulk_in_size, Bulk_in_finish, in_buf, inFifo, overrun,
                   handshake_PKT>>

\* Handshake_PKT: the data phase is over, send the handshake once.
Handshake_PKT ==
  IF udc_state # "IDLE"
  THEN SendHandshake(handshake_PKT) /\ udc_state' = "IDLE" /\ UNCHANGED in_buf
  ELSE UNCHANGED <<udc_state, Bulk_in_size, Bulk_in_finish, in_buf, inFifo, overrun,
                   handshake_PKT>>

\* Mutants: the size is counted down as well; a full FIFO is always counted.
NextPacketCountsDown ==
  LET len == Least(Bulk_in_size - Bulk_in_finish, FifoSize) IN
  /\ WriteFifo(DataPkt(in_buf, Bulk_in_finish, len))
  /\ Bulk_in_finish' = Bulk_in_finish + len
  /\ Bulk_in_size' = Bulk_in_size - len
  /\ UNCHANGED <<udc_state, in_buf, handshake_PKT>>

NextPacketFullFifo ==
  /\ WriteFifo(DataPkt(in_buf, Bulk_in_finish, FifoSize))
  /\ Bulk_in_finish' = Bulk_in_finish + FifoSize
  /\ UNCHANGED <<udc_state, Bulk_in_size, in_buf, handshake_PKT>>

\* The next packet of the running transfer; always taken from Bulk_in_buf.
NextPacket ==
  LET len == Least(Bulk_in_size - Bulk_in_finish, FifoSize) IN
  /\ WriteFifo(DataPkt(in_buf, Bulk_in_finish, len))
  /\ Bulk_in_finish' = Bulk_in_finish + len
  /\ UNCHANGED <<udc_state, Bulk_in_size, in_buf, handshake_PKT>>

EPIN_Handler ==
  /\ At("epin", "epout")
  /\ IF "EP1" \in lIn
     THEN IF Bulk_in_size = Bulk_in_finish THEN Handshake_PKT ELSE NextPacket
     ELSE UNCHANGED <<udc_state, Bulk_in_size, Bulk_in_finish, in_buf, inFifo, overrun,
                      handshake_PKT>>
  /\ UNCHANGED <<intrUsb, intrIn, intrOut, outFifo, setup, setupEnd, lUsb, lIn, lOut,
                 ep0Vars, out_buf, ret_dat, start_addr, ops_length, ram_addr,
                 USB_Version, hostVars, dirty, ran>>

\* The received packet is appended at Bulk_out_size.
EPOUT_Handler ==
  /\ At("epout", "reset")
  /\ IF lOut THEN out_buf' = out_buf \o outFifo /\ outFifo' = <<>>
             ELSE UNCHANGED <<out_buf, outFifo>>
  /\ UNCHANGED <<intrUsb, intrIn, intrOut, inFifo, setup, setupEnd, lUsb, lIn, lOut,
                 ep0Vars, udc_state, Bulk_in_size, Bulk_in_finish, in_buf, parVars,
                 USB_Version, hostVars, ghosts>>

\* Mutant: the FIFOs are not flushed.
udc_resetNoFlush ==
  /\ At("reset", "ep0")
  /\ IF lUsb
     THEN /\ ep0state' = "IDLE" /\ tx_size' = 0 /\ finished' = 0
          /\ Bulk_in_size' = 0 /\ Bulk_in_finish' = 0
          /\ out_buf' = <<>> /\ udc_state' = "IDLE"
          /\ setup' = NoSetup /\ setupEnd' = FALSE
          /\ USB_Version' = IF FullSpeed THEN "FS" ELSE "HS"
          /\ dirty' = FALSE /\ overrun' = FALSE
     ELSE UNCHANGED <<ep0state, tx_size, finished, Bulk_in_size, Bulk_in_finish, out_buf,
                      udc_state, setup, setupEnd, USB_Version, dirty, overrun>>
  /\ UNCHANGED <<intrUsb, intrIn, intrOut, inFifo, outFifo, lUsb, lIn, lOut, cur, in_buf,
                 parVars, hostVars, ran>>

\* Everything back to the start: both FIFOs flushed (INCSR 0x2048, OUTCSR
\* 0x0090) and a pending SETUP packet dropped (CSR0 0xc0).
udc_reset ==
  /\ At("reset", "ep0")
  /\ IF lUsb
     THEN /\ ep0state' = "IDLE" /\ tx_size' = 0 /\ finished' = 0
          /\ Bulk_in_size' = 0 /\ Bulk_in_finish' = 0
          /\ out_buf' = <<>> /\ udc_state' = "IDLE"
          /\ inFifo' = NoPkt /\ outFifo' = <<>>
          /\ setup' = NoSetup /\ setupEnd' = FALSE
          /\ USB_Version' = IF FullSpeed THEN "FS" ELSE "HS"
          /\ dirty' = FALSE /\ overrun' = FALSE
     ELSE UNCHANGED <<ep0state, tx_size, finished, Bulk_in_size, Bulk_in_finish, out_buf,
                      udc_state, inFifo, outFifo, setup, setupEnd, USB_Version, dirty,
                      overrun>>
  /\ UNCHANGED <<intrUsb, intrIn, intrOut, lUsb, lIn, lOut, cur, in_buf, parVars,
                 hostVars, ran>>

\* EP0_Handler up to the point where the SETUP packet is read and answered:
\* a request without data is complete for the host as of now.
EP0_Setup ==
  /\ pc = "ep0"
  /\ \/ /\ "EP0" \notin lIn
        /\ pc' = "tail"
        /\ UNCHANGED <<setupEnd, setup, cur, acked, ep0state>>
     \/ /\ "EP0" \in lIn /\ setupEnd
        /\ pc' = "tail"
        /\ setupEnd' = FALSE /\ ep0state' = "IDLE"
        /\ UNCHANGED <<setup, cur, acked>>
     \/ /\ "EP0" \in lIn /\ ~setupEnd
        /\ ep0state = "IDLE" /\ setup # NoSetup
        /\ pc' = "request"
        /\ cur' = setup /\ setup' = NoSetup
        /\ acked' = IF setup.stage \in {"cpuinfo", "descriptor"} THEN acked ELSE setup
        /\ UNCHANGED <<setupEnd, ep0state>>
     \/ /\ "EP0" \in lIn /\ ~setupEnd
        /\ ~(ep0state = "IDLE" /\ setup # NoSetup)
        /\ pc' = "tx"
        /\ UNCHANGED <<setupEnd, setup, cur, acked, ep0state>>
  /\ UNCHANGED <<intrUsb, intrIn, intrOut, inFifo, outFifo, lUsb, lIn, lOut, tx_size,
                 finished, bulkVars, parVars, USB_Version, xferVars, timeouts, resets,
                 ghosts>>

\* Mutant: ep0state stays USB_EP0_TX after the last packet of an answer.
EP0_TxStays ==
  /\ At("tx", "tail")
  /\ IF ep0state = "TX" /\ tx_size - finished <= MAX_EP0_SIZE
     THEN finished' = tx_size /\ acked' = cur
     ELSE UNCHANGED <<finished, acked>>
  /\ UNCHANGED <<hwVars, lUsb, lIn, lOut, cur, ep0state, tx_size, bulkVars, parVars,
                 USB_Version, xferVars, timeouts, resets, ghosts>>

\* The rest of EP0_Handler: answer on EP0, at most MAX_EP0_SIZE at a time.
EP0_Tx ==
  /\ At("tx", "tail")
  /\ IF ep0state = "TX"
     THEN IF tx_size - finished <= MAX_EP0_SIZE
          THEN /\ finished' = tx_size /\ ep0state' = "IDLE" /\ acked' = cur
          ELSE /\ finished' = finished + MAX_EP0_SIZE /\ UNCHANGED <<ep0state, acked>>
     ELSE UNCHANGED <<finished, ep0state, acked>>
  /\ UNCHANGED <<hwVars, lUsb, lIn, lOut, cur, tx_size, bulkVars, parVars, USB_Version,
                 xferVars, timeouts, resets, ghosts>>

\* Mutant: the register is cleared at any speed.
PollTailClears ==
  /\ At("tail", "usb")
  /\ intrIn' = {}
  /\ UNCHANGED <<intrUsb, intrOut, inFifo, outFifo, setup, setupEnd, lUsb, lIn, lOut,
                 ep0Vars, bulkVars, parVars, USB_Version, hostVars, ghosts>>

\* At full speed the IN interrupt register is read, hence cleared, once more.
PollTail ==
  /\ At("tail", "usb")
  /\ intrIn' = IF USB_Version = "FS" THEN {} ELSE intrIn
  /\ UNCHANGED <<intrUsb, intrOut, inFifo, outFifo, setup, setupEnd, lUsb, lIn, lOut,
                 ep0Vars, bulkVars, parVars, USB_Version, hostVars, ghosts>>

-----------------------------------------------------------------------------
(* usbHandleDevReq: the requests.  Each is one step at pc = "request".      *)

Requested(stages) == At("request", "tx") /\ cur.stage \in stages

\* What every request leaves alone.
ReqFrame == UNCHANGED <<intrUsb, intrIn, intrOut, outFifo, setup, setupEnd, lUsb, lIn,
                        lOut, cur, USB_Version, hostVars, dirty>>
NoBulk   == UNCHANGED <<Bulk_in_size, Bulk_in_finish, inFifo, overrun>>
NoEP0    == UNCHANGED <<ep0state, tx_size, finished>>

\* GET_CPU_INFO_Handle: 8 bytes on EP0; also ends a data phase under way.
GET_CPU_INFO_Handle ==
  /\ Requested({"cpuinfo"})
  /\ SendEP0(8)
  /\ udc_state' = "IDLE"
  /\ NoBulk /\ ReqFrame
  /\ UNCHANGED <<in_buf, out_buf, parVars, ran>>

\* usbHandleStandDevReq: GET_DESCRIPTOR answers cur.n bytes, SET_ADDRESS none.
usbHandleStandDevReq ==
  /\ Requested({"descriptor", "set_address"})
  /\ IF cur.stage = "descriptor" THEN SendEP0(cur.n) ELSE NoEP0
  /\ NoBulk /\ ReqFrame
  /\ UNCHANGED <<udc_state, in_buf, out_buf, parVars, ran>>

\* SET_DATA_ADDERSS_Handle, SET_DATA_LENGTH_Handle, PROGRAM_START1_Handle.
SetParameter ==
  /\ Requested({"addr", "len", "ram"})
  /\ start_addr' = IF cur.stage = "addr" THEN cur.req ELSE start_addr
  /\ ops_length' = IF cur.stage = "len" THEN [req |-> cur.req, n |-> cur.n] ELSE ops_length
  /\ ram_addr'   = IF cur.stage = "ram" THEN cur.req ELSE ram_addr
  /\ NoEP0 /\ NoBulk /\ ReqFrame
  /\ UNCHANGED <<udc_state, in_buf, out_buf, handshake_PKT, ret_dat, ran>>

\* Mutant: Bulk_out_size is not reset.
OperationKeepsBulkOut(ops) ==
  /\ Requested({"op"}) /\ cur.op \in ops
  /\ ran' = [req |-> cur.req, op |-> cur.op, out |-> out_buf, addr |-> start_addr,
             len |-> ops_length.req, ram |-> ram_addr]
  /\ NoEP0 /\ ReqFrame
  /\ UNCHANGED <<out_buf, start_addr, ops_length, ram_addr>>

\* An operation request: record its inputs; Bulk_out_size = 0 afterwards.
Operation(ops) ==
  /\ Requested({"op"}) /\ cur.op \in ops
  /\ ran' = [req |-> cur.req, op |-> cur.op, out |-> out_buf, addr |-> start_addr,
             len |-> ops_length.req, ram |-> ram_addr]
  /\ out_buf' = <<>>
  /\ NoEP0 /\ ReqFrame
  /\ UNCHANGED <<start_addr, ops_length, ram_addr>>

\* NAND_MARK_BAD, NAND_ERASE, NAND_PROGRAM and SDRAM_LOAD: only a handshake,
\* with the new position and the status word as some earlier request left it.
PositionOps ==
  /\ Operation({"mark_bad", "erase", "program", "sdram"})
  /\ ret_dat' = cur.req
  /\ SendHandshake([handshake_PKT EXCEPT !.pos = cur.req])
  /\ udc_state' = "IDLE"
  /\ UNCHANGED in_buf

\* NAND_READ_TO_RAM: only a handshake, with the status.
NAND_READ_TO_RAM ==
  /\ Operation({"read_to_ram"})
  /\ SendHandshake([handshake_PKT EXCEPT !.stat = cur.req])
  /\ udc_state' = "IDLE"
  /\ UNCHANGED <<in_buf, ret_dat>>

\* NAND_READ and NAND_READ_OOB: data now, the handshake when it is read;
\* only nand_read writes the status word.
NAND_READ ==
  /\ Operation({"read", "read_oob"})
  /\ ret_dat' = cur.req
  /\ handshake_PKT' = [pos  |-> cur.req,
                       stat |-> IF cur.op = "read" THEN cur.req ELSE handshake_PKT.stat]
  /\ SendData(cur.req, ops_length.n)
  /\ udc_state' = "BULK_IN"

\* NAND_READ_RAW: the result of nand_read_raw is not stored, the handshake
\* repeats the ret_dat of the operation before.
NAND_READ_RAW ==
  /\ Operation({"read_raw"})
  /\ handshake_PKT' = [handshake_PKT EXCEPT !.pos = ret_dat]
  /\ SendData(cur.req, ops_length.n)
  /\ udc_state' = "BULK_IN"
  /\ UNCHANGED ret_dat

\* NAND_QUERY: 8 bytes of identification as data.
NAND_QUERY ==
  /\ Operation({"query"})
  /\ handshake_PKT' = [handshake_PKT EXCEPT !.stat = cur.req]
  /\ SendData(cur.req, HsLen)
  /\ udc_state' = "BULK_IN"
  /\ UNCHANGED ret_dat

\* VR_CONFIGRATION: a handshake sent without regard to udc_state.
CONFIGRATION_Handle ==
  /\ Operation({"config"})
  /\ SendHandshake([handshake_PKT EXCEPT !.stat = cur.req])
  /\ UNCHANGED <<udc_state, in_buf, ret_dat>>

usbHandleDevReq ==
  \/ GET_CPU_INFO_Handle \/ usbHandleStandDevReq \/ SetParameter
  \/ PositionOps \/ NAND_READ_TO_RAM \/ NAND_READ \/ NAND_READ_RAW \/ NAND_QUERY
  \/ CONFIGRATION_Handle

udc4740Proc ==
  \/ ReadIntrUsb \/ ReadIntrIn \/ ReadIntrOut
  \/ EPIN_Handler \/ EPOUT_Handler \/ udc_reset
  \/ EP0_Setup \/ usbHandleDevReq \/ EP0_Tx
  \/ PollTail

-----------------------------------------------------------------------------
(* The host.                                                               *)

DeviceFrame == UNCHANGED <<pollVars, ep0Vars, bulkVars, parVars, USB_Version,
                           overrun, ran>>

\* A command of usbboot (probe) or jzboot.
StartExchange ==
  /\ todo = <<>> /\ req < MaxReq
  /\ \E o \in Ops, len \in Lens, probe \in BOOLEAN :
       /\ op' = o
       /\ n' = IF o = "query" THEN HsLen ELSE len
       /\ left' = n'
       /\ todo' = Script(o, probe)
  /\ req' = req + 1 /\ sent' = 0 /\ got' = <<>>
  /\ DeviceFrame
  /\ UNCHANGED <<hwVars, waiting, acked, timeouts, resets, dirty>>

\* usb_bulk_write: the next packet goes out when the FIFO is free.
SendBulk ==
  /\ Stage = "out" /\ outFifo = <<>>
  /\ LET to == Least(sent + FifoSize, n) IN
     /\ outFifo' = SubSeq(Payload(req, n), sent + 1, to)
     /\ sent' = to
     /\ todo' = IF to = n THEN Tail(todo) ELSE todo
  /\ intrOut' = TRUE
  /\ DeviceFrame
  /\ UNCHANGED <<intrUsb, intrIn, inFifo, setup, setupEnd, req, op, n, left, waiting,
                 acked, got, timeouts, resets, dirty>>

ThisSetup == [stage |-> Stage, req |-> req, op |-> op, n |-> IF Stage = "descriptor" THEN 18 ELSE n]

\* Timing: EP0_Handler looks at CSR0 itself, so a SETUP packet is served in the
\* poll it arrives in when an older EP0 interrupt is being handled.  An EP1
\* event that came after this poll's register reads would then be handled
\* late.  The host completes one transfer before it submits the next, so the
\* two are further apart than the few microseconds from the register reads to
\* EP0_Handler (init_cfg even sleeps a second after its bulk data).
TransfersApart ==
  /\ pc \in {"epin", "epout", "reset", "ep0"} => ~intrOut
  /\ pc \in {"out", "epin", "epout", "reset", "ep0"} => "EP1" \notin intrIn

\* usb_control_msg: the SETUP packet arrives ...
SendSetup ==
  /\ Stage \in Control /\ ~waiting /\ setup = NoSetup /\ TransfersApart
  /\ setup' = ThisSetup
  /\ waiting' = TRUE
  /\ intrIn' = intrIn \cup {"EP0"}
  /\ DeviceFrame
  /\ UNCHANGED <<intrUsb, intrOut, inFifo, outFifo, setupEnd, req, op, n, todo, sent,
                 left, acked, got, timeouts, resets, dirty>>

\* ... first ending an older transfer the firmware has not looked at yet ...
EndOldSetup ==
  /\ Stage \in Control /\ ~waiting /\ setup # NoSetup
  /\ setup' = NoSetup /\ setupEnd' = TRUE
  /\ intrIn' = intrIn \cup {"EP0"}
  /\ DeviceFrame
  /\ UNCHANGED <<intrUsb, intrOut, inFifo, outFifo, hostVars, dirty>>

\* ... and the transfer is over when the firmware has answered; reading an
\* EP0 IN packet raises the EP0 interrupt again.
ControlDone ==
  /\ waiting /\ acked = ThisSetup
  /\ waiting' = FALSE
  /\ todo' = Tail(todo)
  /\ acked' = NoSetup
  /\ intrIn' = IF Stage \in {"cpuinfo", "descriptor"} THEN intrIn \cup {"EP0"} ELSE intrIn
  /\ DeviceFrame
  /\ UNCHANGED <<intrUsb, intrOut, inFifo, outFifo, setup, setupEnd, req, op, n, sent,
                 left, got, timeouts, resets, dirty>>

\* usb_bulk_read of the data (ends when complete or on a short packet) or of
\* the handshake; the controller then raises the EP1 IN interrupt.
ReadBulk ==
  /\ Stage \in {"data", "hs"} /\ inFifo # NoPkt
  /\ got' = Append(got, inFifo)
  /\ inFifo' = NoPkt
  /\ intrIn' = intrIn \cup {"EP1"}
  /\ left' = IF Stage = "data" THEN left - Least(left, inFifo.len) ELSE left
  /\ todo' = IF Stage = "hs" \/ left' = 0 \/ inFifo.len < FifoSize THEN Tail(todo) ELSE todo
  /\ DeviceFrame
  /\ UNCHANGED <<intrUsb, intrOut, outFifo, setup, setupEnd, req, op, n, sent, waiting,
                 acked, timeouts, resets, dirty>>

\* USB_TIMEOUT: the transfer fails although the device may still serve it.
Timeout ==
  /\ todo # <<>> /\ op # "none" /\ timeouts < MaxTimeouts
  /\ ~(waiting /\ acked = ThisSetup)
  /\ timeouts' = timeouts + 1
  /\ dirty' = TRUE
  /\ waiting' = FALSE
  /\ todo' \in {<<>>} \cup (IF Stage \in Checked(op) THEN {} ELSE {Tail(todo)})
  /\ DeviceFrame
  /\ UNCHANGED <<hwVars, req, op, n, sent, left, acked, got, resets>>

\* A bus reset flushes the controller; the kernel then enumerates the device
\* again.  It takes 10 ms and does not fall between two register reads.
BusReset ==
  /\ resets < MaxResets /\ pc \notin {"in", "out"}
  /\ resets' = resets + 1
  /\ intrUsb' = TRUE
  /\ inFifo' = NoPkt /\ outFifo' = <<>> /\ setup' = NoSetup /\ setupEnd' = FALSE
  /\ op' = "none" /\ got' = <<>> /\ waiting' = FALSE /\ acked' = NoSetup
  /\ todo' = Enumeration
  /\ dirty' = TRUE
  /\ DeviceFrame
  /\ UNCHANGED <<intrIn, intrOut, req, n, sent, left, timeouts>>

\* The kernel repeats an enumeration request that was lost: no answer, and no
\* interrupt left that would make the firmware look at it.
RetryEnumeration ==
  /\ Stage \in {"descriptor", "set_address"} /\ waiting /\ acked # ThisSetup
  /\ "EP0" \notin intrIn /\ (pc \in {"usb", "in"} \/ "EP0" \notin lIn)
  /\ waiting' = FALSE
  /\ DeviceFrame
  /\ UNCHANGED <<hwVars, req, op, n, todo, sent, left, acked, got, timeouts, resets, dirty>>

Host == StartExchange \/ SendBulk \/ SendSetup \/ EndOldSetup \/ ControlDone \/ ReadBulk

Next == udc4740Proc \/ Host \/ Timeout \/ BusReset \/ RetryEnumeration

Spec == Init /\ [][Next]_vars

\* The firmware's loop never stops, and the host goes on with a transfer that
\* can proceed; it need not start another one.
HostGoesOn == SendBulk \/ SendSetup \/ EndOldSetup \/ ControlDone \/ ReadBulk \/ RetryEnumeration
FairSpec == Spec /\ WF_vars(udc4740Proc) /\ WF_vars(HostGoesOn)

-----------------------------------------------------------------------------
(* Properties.                                                             *)

PcSet == {"usb", "in", "out", "epin", "epout", "reset", "ep0", "request", "tx", "tail"}
StageSet == Control \cup {"out", "data", "hs"}
Packets == [kind : {"none", "data", "hs"}, req : Nat, from : Nat, len : Nat, stat : Nat]
Setups  == [stage : Control \cup {"none"}, req : Nat, op : AllOps \cup {"none"}, n : Nat]
Tokens  == Seq(Nat \X Nat)

HwTypeOK ==
  /\ intrUsb \in BOOLEAN /\ intrIn \in SUBSET {"EP0", "EP1"} /\ intrOut \in BOOLEAN
  /\ inFifo \in Packets /\ outFifo \in Tokens /\ setup \in Setups /\ setupEnd \in BOOLEAN

PollTypeOK ==
  /\ pc \in PcSet /\ lUsb \in BOOLEAN /\ lIn \in SUBSET {"EP0", "EP1"} /\ lOut \in BOOLEAN
  /\ cur \in Setups /\ ep0state \in {"IDLE", "TX"} /\ tx_size \in Nat /\ finished \in Nat

BulkTypeOK ==
  /\ udc_state \in {"IDLE", "BULK_IN"} /\ Bulk_in_size \in Nat /\ Bulk_in_finish \in Nat
  /\ USB_Version \in {"HS", "FS"} /\ in_buf \in Nat /\ out_buf \in Tokens
  /\ handshake_PKT \in [pos : Nat, stat : Nat] /\ ret_dat \in Nat
  /\ start_addr \in Nat /\ ops_length \in [req : Nat, n : Nat] /\ ram_addr \in Nat

HostTypeOK ==
  /\ req \in 0..MaxReq /\ op \in AllOps \cup {"none"} /\ n \in Nat
  /\ todo \in Seq(StageSet) /\ sent \in Nat /\ left \in Nat
  /\ waiting \in BOOLEAN /\ acked \in Setups /\ got \in Seq(Packets)
  /\ timeouts \in 0..MaxTimeouts /\ resets \in 0..MaxResets

GhostTypeOK ==
  /\ dirty \in BOOLEAN /\ overrun \in BOOLEAN
  /\ ran \in [req : Nat, op : AllOps \cup {"none"}, out : Tokens, addr : Nat, len : Nat,
              ram : Nat]

\* Every variable has its type; the counters of udc.c stay natural numbers.
TypeOK == HwTypeOK /\ PollTypeOK /\ BulkTypeOK /\ HostTypeOK /\ GhostTypeOK

\* Bulk_in_size - Bulk_in_finish and tx_size - finished are unsigned: they are
\* never taken below zero, whatever the host does, timeouts included, so
\* EPIN_Handler and EP0_Handler never send past the end of their buffers.
NoCounterWrap == Bulk_in_finish <= Bulk_in_size /\ finished <= tx_size

\* EP0_Handler reads a SETUP packet only in state USB_EP0_IDLE: whenever a poll
\* may find one, the previous answer on EP0 is complete, so no request is
\* mistaken for the continuation of an answer.
EP0ReadyForSetup == pc \notin {"request", "tx"} => ep0state = "IDLE"

\* HW_SendPKT and EPIN_Handler never write a packet over one the host has not
\* read, unless an exchange was cut short by a timeout since the last udc_reset.
NoFifoOverrun == overrun => dirty

\* An operation works on the bulk data, address, length and RAM address of its
\* own exchange (poll order, Bulk_out_size handling), unless one was cut short.
Has(o, stage) == \E i \in DOMAIN Body[o] : Body[o][i] = stage

OperationUsesItsInputs ==
  (~dirty /\ ran.req = req /\ ran.op # "none" /\ op = ran.op) =>
    /\ ran.out = IF Has(op, "out") THEN Payload(req, n) ELSE <<>>
    /\ Has(op, "addr") => ran.addr = req
    /\ Has(op, "len") => ran.len = req
    /\ Has(op, "ram") => ran.ram = req

\* What the host has read so far is its own answer, in order; a finished
\* exchange has read all of its data and then exactly one handshake whose
\* position and status are this operation's, where the operation sets them.
\* (NAND_READ_RAW, NAND_QUERY, NAND_READ_TO_RAM and configuration leave the
\* position, the others but NAND_READ the status, of an earlier operation.)
DataPackets == IF ~Has(op, "data") THEN 0 ELSE (n + FifoSize - 1) \div FifoSize

AnswerMatchesRequest ==
  (~dirty /\ op # "none") =>
    /\ \A i \in DOMAIN got :
         IF i <= DataPackets
         THEN got[i] = DataPkt(req, (i - 1) * FifoSize, Least(FifoSize, n - (i - 1) * FifoSize))
         ELSE /\ i = DataPackets + 1
              /\ got[i].kind = "hs"
              /\ op \in {"mark_bad", "erase", "program", "sdram", "read", "read_oob"}
                    => got[i].req = req
              /\ op \in {"read", "query", "read_to_ram", "config"} => got[i].stat = req
    /\ todo = <<>> => Len(got) = DataPackets + 1

\* Between exchanges nothing is under way on EP1: no packet in a FIFO, no data
\* left in Bulk_out_buf, no handshake owed (udc_state), so one exchange cannot
\* leak into the next.
LinkQuiet ==
  (~dirty /\ todo = <<>>) =>
    /\ inFifo = NoPkt /\ outFifo = <<>> /\ out_buf = <<>>
    /\ udc_state = "IDLE" /\ Bulk_in_finish = Bulk_in_size

\* The three together, for the run of all operations: every operation works on its own
\* inputs, is answered once and leaves nothing behind on EP1.
ExchangesInStep == OperationUsesItsInputs /\ AnswerMatchesRequest /\ LinkQuiet

\* Every exchange, and the enumeration after a bus reset, comes to its end: no
\* interrupt is lost and nobody waits for the other (high speed, no timeouts).
ExchangeCompletes == (todo # <<>>) ~> (todo = <<>>)
=============================================================================
