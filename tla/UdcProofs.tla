----------------------------- MODULE UdcProofs -----------------------------
(***************************************************************************)
(* Theorems about Udc, for every packet size, every set of data sizes and  *)
(* operations, either link speed and any number of exchanges, timeouts and *)
(* bus resets.                                                             *)
(***************************************************************************)
EXTENDS Udc, SequenceTheorems, TLAPS

\* An answer on EP0 fits one packet: the longest is the device descriptor the
\* kernel asks for.
EP0AnswerShort ==
  /\ setup.stage = "descriptor" => setup.n <= MAX_EP0_SIZE
  /\ cur.stage = "descriptor" => cur.n <= MAX_EP0_SIZE
  /\ ep0state = "TX" => tx_size - finished <= MAX_EP0_SIZE

\* EP0_Handler serves a request only from USB_EP0_IDLE; with EP0ReadyForSetup
\* the answer is prepared and sent within one poll.
RequestFromIdle == pc = "request" => ep0state = "IDLE"

\* The host never sends past the end of its bulk data.
SentWithinData == sent <= n

\* The inductive invariant.
IndInv == TypeOK /\ NoCounterWrap /\ EP0ReadyForSetup /\ EP0AnswerShort /\
          RequestFromIdle /\ SentWithinData

-----------------------------------------------------------------------------
(* Helpers.                                                                *)

USE FifoAssumption, LensAssumption, OpsAssumption, SpeedAssumption, BoundAssumption

\* The scripts of the host are sequences of stages.
LEMMA BodyType == \A o \in AllOps : Body[o] \in Seq(StageSet)
<1>1. /\ Body.query \in Seq(StageSet) /\ Body.mark_bad \in Seq(StageSet)
      /\ Body.erase \in Seq(StageSet) /\ Body.program \in Seq(StageSet)
  BY DEF Body, StageSet, Control
<1>2. /\ Body.read \in Seq(StageSet) /\ Body.read_oob \in Seq(StageSet)
      /\ Body.read_raw \in Seq(StageSet) /\ Body.read_to_ram \in Seq(StageSet)
  BY DEF Body, StageSet, Control
<1>3. Body.config \in Seq(StageSet) /\ Body.sdram \in Seq(StageSet)
  BY DEF Body, StageSet, Control
<1> QED
  BY <1>1, <1>2, <1>3, Zenon DEF AllOps

LEMMA ScriptType == \A o \in AllOps, probe \in BOOLEAN : Script(o, probe) \in Seq(StageSet)
<1> SUFFICES ASSUME NEW o \in AllOps, NEW probe \in BOOLEAN
             PROVE  Script(o, probe) \in Seq(StageSet)
  OBVIOUS
<1>1. <<"cpuinfo">> \in Seq(StageSet) /\ <<>> \in Seq(StageSet)
  BY DEF StageSet, Control
<1>2. Body[o] \in Seq(StageSet)
  BY BodyType
<1> QED
  BY <1>1, <1>2, ConcatProperties DEF Script

LEMMA LeastType == \A a, b \in Nat : Least(a, b) \in Nat /\ Least(a, b) <= a /\ Least(a, b) <= b
  BY DEF Least

\* A packet of the firmware has its type and leaves the FIFO well typed.
LEMMA PacketType ==
  /\ \A r, from, len \in Nat : DataPkt(r, from, len) \in Packets
  /\ \A h \in [pos : Nat, stat : Nat] : HsPkt(h) \in Packets
  /\ NoPkt \in Packets
  BY DEF DataPkt, HsPkt, NoPkt, Packets, HsLen

LEMMA WriteFifoType ==
  ASSUME HwTypeOK, GhostTypeOK, NEW p \in Packets, WriteFifo(p)
  PROVE  inFifo' \in Packets /\ overrun' \in BOOLEAN
  BY DEF HwTypeOK, GhostTypeOK, WriteFifo

-----------------------------------------------------------------------------
(* IndInv is inductive.                                                    *)

LEMMA InitInv == Init => IndInv
<1> SUFFICES ASSUME Init PROVE IndInv
  OBVIOUS
<1>1. NoSetup \in Setups
  BY DEF NoSetup, Setups, Control
<1>2. HwTypeOK
  BY <1>1, PacketType, EmptySeq DEF Init, HwTypeOK, Tokens
<1>3. PollTypeOK
  BY <1>1 DEF Init, PollTypeOK, PcSet
<1>4. BulkTypeOK
  BY EmptySeq DEF Init, BulkTypeOK, Tokens
<1>5. HostTypeOK
  <2>1. <<>> \in Seq(StageSet) /\ <<>> \in Seq(Packets)
    BY EmptySeq
  <2>2. 0 \in 0..MaxReq /\ 0 \in 0..MaxTimeouts /\ 0 \in 0..MaxResets
    BY DEF BoundAssumption
  <2> QED
    BY <1>1, <2>1, <2>2 DEF Init, HostTypeOK
<1>6. GhostTypeOK
  BY EmptySeq DEF Init, GhostTypeOK, Tokens
<1>7. NoCounterWrap /\ EP0ReadyForSetup /\ RequestFromIdle /\ SentWithinData
  BY DEF Init, NoCounterWrap, EP0ReadyForSetup, RequestFromIdle, SentWithinData
<1>8. EP0AnswerShort
  BY DEF Init, EP0AnswerShort, NoSetup
<1> QED
  BY <1>2, <1>3, <1>4, <1>5, <1>6, <1>7, <1>8 DEF IndInv, TypeOK


\* Reading the registers and the end of a poll touch no counter.
LEMMA PollInv ==
  ASSUME IndInv, ReadIntrUsb \/ ReadIntrIn \/ ReadIntrOut \/ PollTail
  PROVE  IndInv'
<1> USE DEF IndInv, TypeOK
<1>1. UNCHANGED <<inFifo, outFifo, setup, setupEnd, ep0Vars, bulkVars, parVars, USB_Version,
                  hostVars, ghosts>>
  BY DEF ReadIntrUsb, ReadIntrIn, ReadIntrOut, PollTail
<1>2. /\ pc \notin {"request", "tx"} /\ pc' \notin {"request", "tx"}
      /\ HwTypeOK' /\ PollTypeOK'
  BY <1>1 DEF ReadIntrUsb, ReadIntrIn, ReadIntrOut, PollTail, At, HwTypeOK, PollTypeOK, PcSet,
              ep0Vars
<1>3. BulkTypeOK' /\ HostTypeOK' /\ GhostTypeOK'
  BY <1>1 DEF bulkVars, parVars, hostVars, xferVars, ghosts, BulkTypeOK, HostTypeOK, GhostTypeOK
<1>4. NoCounterWrap' /\ EP0AnswerShort' /\ SentWithinData'
  BY <1>1 DEF ep0Vars, bulkVars, hostVars, xferVars, NoCounterWrap, EP0AnswerShort,
              SentWithinData
<1>5. EP0ReadyForSetup' /\ RequestFromIdle'
  BY <1>1, <1>2 DEF ep0Vars, EP0ReadyForSetup, RequestFromIdle
<1> QED
  BY <1>2, <1>3, <1>4, <1>5


\* Each packet advances Bulk_in_finish by at most what is left.
LEMMA EPIN_HandlerInv ==
  ASSUME IndInv, EPIN_Handler
  PROVE  IndInv'
<1> USE DEF IndInv, TypeOK
<1>1. /\ pc = "epin" /\ pc' = "epout"
      /\ UNCHANGED <<intrUsb, intrIn, intrOut, outFifo, setup, setupEnd, lUsb, lIn, lOut,
                     ep0Vars, out_buf, ret_dat, start_addr, ops_length, ram_addr,
                     USB_Version, hostVars, dirty, ran>>
  BY DEF EPIN_Handler, At
<1>2. /\ inFifo' \in Packets /\ overrun' \in BOOLEAN
      /\ Bulk_in_size' \in Nat /\ Bulk_in_finish' \in Nat /\ Bulk_in_finish' <= Bulk_in_size'
      /\ UNCHANGED <<in_buf, handshake_PKT>> /\ udc_state' \in {"IDLE", "BULK_IN"}
  <2>1. CASE "EP1" \in lIn /\ Bulk_in_size = Bulk_in_finish
    <3>1. Handshake_PKT
      BY <2>1 DEF EPIN_Handler
    <3>2. HsPkt(handshake_PKT) \in Packets
      BY PacketType DEF BulkTypeOK
    <3>3. CASE udc_state # "IDLE"
      BY <3>1, <3>2, <3>3, WriteFifoType DEF Handshake_PKT, SendHandshake, HsLen
    <3>4. CASE udc_state = "IDLE"
      BY <3>1, <3>4 DEF Handshake_PKT, HwTypeOK, GhostTypeOK, BulkTypeOK, NoCounterWrap
    <3> QED
      BY <3>3, <3>4
  <2>2. CASE "EP1" \in lIn /\ Bulk_in_size # Bulk_in_finish
    <3> DEFINE len == Least(Bulk_in_size - Bulk_in_finish, FifoSize)
    <3>1. NextPacket
      BY <2>2 DEF EPIN_Handler
    <3>2. len \in Nat /\ len <= Bulk_in_size - Bulk_in_finish
      <4>1. Bulk_in_size - Bulk_in_finish \in Nat /\ FifoSize \in Nat
        BY DEF BulkTypeOK, NoCounterWrap, FifoAssumption
      <4> QED
        BY <4>1, LeastType
    <3>3. DataPkt(in_buf, Bulk_in_finish, len) \in Packets
      BY <3>2, PacketType DEF BulkTypeOK
    <3>4. inFifo' \in Packets /\ overrun' \in BOOLEAN
      BY <3>1, <3>3, WriteFifoType DEF NextPacket
    <3> QED
      BY <3>1, <3>2, <3>4 DEF NextPacket, BulkTypeOK
  <2>3. CASE "EP1" \notin lIn
    BY <2>3 DEF EPIN_Handler, HwTypeOK, GhostTypeOK, BulkTypeOK, NoCounterWrap
  <2> QED
    BY <2>1, <2>2, <2>3
<1>3. HwTypeOK' /\ GhostTypeOK'
  BY <1>1, <1>2 DEF HwTypeOK, GhostTypeOK
<1>4. PollTypeOK' /\ BulkTypeOK' /\ HostTypeOK'
  BY <1>1, <1>2 DEF PollTypeOK, BulkTypeOK, HostTypeOK, PcSet, ep0Vars, hostVars, xferVars
<1>5. NoCounterWrap' /\ EP0ReadyForSetup' /\ EP0AnswerShort' /\ RequestFromIdle' /\ SentWithinData'
  BY <1>1, <1>2 DEF NoCounterWrap, EP0ReadyForSetup, EP0AnswerShort, RequestFromIdle,
                    SentWithinData, ep0Vars, hostVars, xferVars
<1> QED
  BY <1>3, <1>4, <1>5

LEMMA EPOUT_HandlerInv ==
  ASSUME IndInv, EPOUT_Handler
  PROVE  IndInv'
<1> USE DEF IndInv, TypeOK
<1>1. /\ pc = "epout" /\ pc' = "reset"
      /\ UNCHANGED <<intrUsb, intrIn, intrOut, inFifo, setup, setupEnd, lUsb, lIn, lOut,
                     ep0Vars, udc_state, Bulk_in_size, Bulk_in_finish, in_buf, parVars,
                     USB_Version, hostVars, ghosts>>
  BY DEF EPOUT_Handler, At
<1>2. out_buf' \in Tokens /\ outFifo' \in Tokens
  <2>1. out_buf \o outFifo \in Tokens /\ <<>> \in Tokens
    BY ConcatProperties, EmptySeq DEF BulkTypeOK, HwTypeOK, Tokens
  <2> QED
    BY <2>1 DEF EPOUT_Handler, BulkTypeOK, HwTypeOK
<1>3. HwTypeOK' /\ PollTypeOK' /\ BulkTypeOK'
  BY <1>1, <1>2 DEF HwTypeOK, PollTypeOK, BulkTypeOK, PcSet, ep0Vars, parVars
<1>4. HostTypeOK' /\ GhostTypeOK'
  BY <1>1 DEF HostTypeOK, GhostTypeOK, hostVars, xferVars, ghosts
<1>5. NoCounterWrap' /\ EP0ReadyForSetup' /\ EP0AnswerShort' /\ RequestFromIdle' /\ SentWithinData'
  BY <1>1 DEF NoCounterWrap, EP0ReadyForSetup, EP0AnswerShort, RequestFromIdle,
              SentWithinData, ep0Vars, hostVars, xferVars
<1> QED
  BY <1>3, <1>4, <1>5


LEMMA udc_resetInv ==
  ASSUME IndInv, udc_reset
  PROVE  IndInv'
<1> USE DEF IndInv, TypeOK
<1>1. /\ pc = "reset" /\ pc' = "ep0"
      /\ UNCHANGED <<intrUsb, intrIn, intrOut, lUsb, lIn, lOut, cur, in_buf, parVars,
                     hostVars, ran>>
  BY DEF udc_reset, At
<1>2. <<>> \in Tokens /\ NoSetup \in Setups /\ NoPkt \in Packets
  BY EmptySeq, PacketType DEF Tokens, Setups, NoSetup
<1>3. CASE lUsb
  <2>1. /\ ep0state' = "IDLE" /\ tx_size' = 0 /\ finished' = 0
        /\ Bulk_in_size' = 0 /\ Bulk_in_finish' = 0 /\ setup' = NoSetup
    BY <1>3 DEF udc_reset
  <2>2. HwTypeOK' /\ GhostTypeOK'
    BY <1>1, <1>2, <1>3 DEF udc_reset, HwTypeOK, GhostTypeOK
  <2>3. PollTypeOK' /\ HostTypeOK'
    BY <1>1, <2>1 DEF PollTypeOK, HostTypeOK, PcSet, hostVars, xferVars
  <2>4. BulkTypeOK'
    BY <1>1, <1>2, <1>3 DEF udc_reset, BulkTypeOK, parVars
  <2>5. NoCounterWrap' /\ EP0ReadyForSetup' /\ EP0AnswerShort' /\ RequestFromIdle' /\ SentWithinData'
    BY <1>1, <2>1 DEF NoCounterWrap, EP0ReadyForSetup, EP0AnswerShort, RequestFromIdle,
                      SentWithinData, hostVars, xferVars, NoSetup
  <2> QED
    BY <2>2, <2>3, <2>4, <2>5
<1>4. CASE ~lUsb
  <2>1. UNCHANGED <<ep0state, tx_size, finished, Bulk_in_size, Bulk_in_finish, out_buf,
                    udc_state, inFifo, outFifo, setup, setupEnd, USB_Version, dirty, overrun>>
    BY <1>4 DEF udc_reset
  <2>2. HwTypeOK' /\ GhostTypeOK' /\ PollTypeOK'
    BY <1>1, <2>1 DEF HwTypeOK, GhostTypeOK, PollTypeOK, PcSet
  <2>3. BulkTypeOK' /\ HostTypeOK'
    BY <1>1, <2>1 DEF BulkTypeOK, HostTypeOK, parVars, hostVars, xferVars
  <2>4. NoCounterWrap' /\ EP0ReadyForSetup' /\ EP0AnswerShort' /\ RequestFromIdle' /\ SentWithinData'
    BY <1>1, <2>1 DEF NoCounterWrap, EP0ReadyForSetup, EP0AnswerShort, RequestFromIdle,
                      SentWithinData, hostVars, xferVars
  <2> QED
    BY <2>2, <2>3, <2>4
<1> QED
  BY <1>3, <1>4

\* EP0_Handler: a request is read only when EP0 is idle.
LEMMA EP0_SetupInv ==
  ASSUME IndInv, EP0_Setup
  PROVE  IndInv'
<1> USE DEF IndInv, TypeOK
<1>1. /\ pc = "ep0" /\ ep0state = "IDLE" /\ ep0state' = "IDLE"
      /\ UNCHANGED <<intrUsb, intrIn, intrOut, inFifo, outFifo, lUsb, lIn, lOut, tx_size,
                     finished, bulkVars, parVars, USB_Version, xferVars, timeouts, resets,
                     ghosts>>
  BY DEF EP0_Setup, EP0ReadyForSetup
<1>2. /\ pc' \in {"tail", "request", "tx"} /\ setup' \in Setups /\ cur' \in Setups
      /\ acked' \in Setups /\ setupEnd' \in BOOLEAN
      /\ setup' \in {setup, NoSetup} /\ cur' \in {cur, setup}
  <2>1. NoSetup \in Setups
    BY DEF Setups, NoSetup
  <2> QED
    BY <2>1 DEF EP0_Setup, HwTypeOK, PollTypeOK, HostTypeOK
<1>3. HwTypeOK' /\ PollTypeOK' /\ BulkTypeOK'
  BY <1>1, <1>2 DEF HwTypeOK, PollTypeOK, BulkTypeOK, PcSet, bulkVars, parVars
<1>4. HostTypeOK' /\ GhostTypeOK'
  BY <1>1, <1>2 DEF HostTypeOK, GhostTypeOK, xferVars, ghosts
<1>5. NoCounterWrap' /\ EP0ReadyForSetup' /\ RequestFromIdle' /\ SentWithinData'
  BY <1>1 DEF NoCounterWrap, EP0ReadyForSetup, RequestFromIdle, SentWithinData, bulkVars,
              xferVars
<1>6. EP0AnswerShort'
  BY <1>1, <1>2 DEF EP0AnswerShort, NoSetup
<1> QED
  BY <1>3, <1>4, <1>5, <1>6

\* An answer of at most MAX_EP0_SIZE bytes is complete in the same poll.
LEMMA EP0_TxInv ==
  ASSUME IndInv, EP0_Tx
  PROVE  IndInv'
<1> USE DEF IndInv, TypeOK
<1>1. /\ pc = "tx" /\ pc' = "tail"
      /\ UNCHANGED <<hwVars, lUsb, lIn, lOut, cur, tx_size, bulkVars, parVars, USB_Version,
                     xferVars, timeouts, resets, ghosts>>
  BY DEF EP0_Tx, At
<1>2. /\ ep0state' = "IDLE" /\ finished' \in {finished, tx_size} /\ acked' \in {acked, cur}
  BY DEF EP0_Tx, EP0AnswerShort, PollTypeOK
<1>3. HwTypeOK' /\ PollTypeOK' /\ BulkTypeOK'
  BY <1>1, <1>2 DEF HwTypeOK, PollTypeOK, BulkTypeOK, PcSet, hwVars, bulkVars, parVars
<1>4. HostTypeOK' /\ GhostTypeOK'
  BY <1>1, <1>2 DEF HostTypeOK, GhostTypeOK, PollTypeOK, xferVars, ghosts
<1>5. NoCounterWrap' /\ EP0ReadyForSetup' /\ RequestFromIdle' /\ SentWithinData'
  BY <1>1, <1>2 DEF NoCounterWrap, EP0ReadyForSetup, RequestFromIdle, SentWithinData, bulkVars,
                    xferVars, PollTypeOK
<1>6. EP0AnswerShort'
  BY <1>1, <1>2 DEF EP0AnswerShort, hwVars
<1> QED
  BY <1>3, <1>4, <1>5, <1>6


\* What every request keeps, once its own variables are known to be typed.
LEMMA RequestFrame ==
  ASSUME IndInv, ReqFrame, pc = "request", pc' = "tx",
         inFifo' \in Packets, overrun' \in BOOLEAN, BulkTypeOK',
         ran' \in [req : Nat, op : AllOps \cup {"none"}, out : Tokens, addr : Nat, len : Nat,
                   ram : Nat],
         ep0state' \in {"IDLE", "TX"}, tx_size' \in Nat, finished' \in Nat,
         ep0state' = "TX" => tx_size' - finished' <= MAX_EP0_SIZE,
         NoCounterWrap'
  PROVE  IndInv'
<1> USE DEF IndInv, TypeOK, ReqFrame
<1>1. HwTypeOK' /\ PollTypeOK' /\ GhostTypeOK'
  BY DEF HwTypeOK, PollTypeOK, GhostTypeOK, PcSet
<1>2. HostTypeOK'
  BY DEF HostTypeOK, hostVars, xferVars
<1>3. EP0ReadyForSetup' /\ RequestFromIdle' /\ SentWithinData' /\ EP0AnswerShort'
  BY DEF EP0ReadyForSetup, RequestFromIdle, SentWithinData, EP0AnswerShort, hostVars, xferVars
<1> QED
  BY <1>1, <1>2, <1>3

LEMMA ParameterInv ==
  ASSUME IndInv, GET_CPU_INFO_Handle \/ usbHandleStandDevReq \/ SetParameter
  PROVE  IndInv'
<1> USE DEF IndInv, TypeOK
<1>1. /\ pc = "request" /\ pc' = "tx" /\ ReqFrame /\ NoBulk
      /\ UNCHANGED <<in_buf, out_buf, handshake_PKT, ret_dat, ran>>
      /\ udc_state' \in {udc_state, "IDLE"}
  BY DEF GET_CPU_INFO_Handle, usbHandleStandDevReq, SetParameter, Requested, At, parVars
<1>2. start_addr' \in Nat /\ ops_length' \in [req : Nat, n : Nat] /\ ram_addr' \in Nat
  BY DEF GET_CPU_INFO_Handle, usbHandleStandDevReq, SetParameter, parVars, BulkTypeOK,
         PollTypeOK, Setups
<1>3. /\ ep0state' \in {"IDLE", "TX"} /\ tx_size' \in Nat /\ finished' \in Nat
      /\ ep0state' = "TX" => tx_size' - finished' <= MAX_EP0_SIZE
      /\ finished' <= tx_size'
  BY DEF GET_CPU_INFO_Handle, usbHandleStandDevReq, SetParameter, SendEP0, NoEP0, PollTypeOK,
         Setups, EP0AnswerShort, MAX_EP0_SIZE, NoCounterWrap
<1>4. BulkTypeOK'
  BY <1>1, <1>2 DEF BulkTypeOK, NoBulk, ReqFrame
<1>5. NoCounterWrap'
  BY <1>1, <1>3 DEF NoCounterWrap, NoBulk
<1> QED
  BY <1>1, <1>3, <1>4, <1>5, RequestFrame DEF NoBulk, HwTypeOK, GhostTypeOK

\* Every operation starts a transfer that HW_SendPKT has counted correctly.
LEMMA OperationInv ==
  ASSUME IndInv, PositionOps \/ NAND_READ_TO_RAM \/ NAND_READ \/ NAND_READ_RAW \/ NAND_QUERY
                   \/ CONFIGRATION_Handle
  PROVE  IndInv'
<1> USE DEF IndInv, TypeOK
<1>1. PICK ops : Operation(ops)
  BY DEF PositionOps, NAND_READ_TO_RAM, NAND_READ, NAND_READ_RAW, NAND_QUERY,
         CONFIGRATION_Handle
<1>2. /\ pc = "request" /\ pc' = "tx" /\ ReqFrame /\ NoEP0 /\ out_buf' = <<>>
      /\ UNCHANGED <<start_addr, ops_length, ram_addr>>
      /\ ran' = [req |-> cur.req, op |-> cur.op, out |-> out_buf, addr |-> start_addr,
                 len |-> ops_length.req, ram |-> ram_addr]
  BY <1>1 DEF Operation, Requested, At
<1>3. ran' \in [req : Nat, op : AllOps \cup {"none"}, out : Tokens, addr : Nat, len : Nat,
                ram : Nat]
  BY <1>2 DEF PollTypeOK, Setups, BulkTypeOK
<1>4. /\ cur.req \in Nat /\ handshake_PKT \in [pos : Nat, stat : Nat] /\ ret_dat \in Nat
      /\ ops_length.n \in Nat /\ HsLen \in Nat
  BY DEF PollTypeOK, Setups, BulkTypeOK, HsLen
<1>5. ASSUME NEW h \in [pos : Nat, stat : Nat], SendHandshake(h)
      PROVE  /\ inFifo' \in Packets /\ overrun' \in BOOLEAN
             /\ Bulk_in_size' \in Nat /\ Bulk_in_finish' \in Nat
             /\ Bulk_in_finish' <= Bulk_in_size'
             /\ handshake_PKT' \in [pos : Nat, stat : Nat]
  <2>1. HsPkt(h) \in Packets
    BY PacketType
  <2> QED
    BY <1>5, <2>1, WriteFifoType DEF SendHandshake, HsLen
<1>6. ASSUME NEW size \in Nat, SendData(cur.req, size)
      PROVE  /\ inFifo' \in Packets /\ overrun' \in BOOLEAN /\ in_buf' \in Nat
             /\ Bulk_in_size' \in Nat /\ Bulk_in_finish' \in Nat
             /\ Bulk_in_finish' <= Bulk_in_size'
  <2>1. Least(size, FifoSize) \in Nat /\ Least(size, FifoSize) <= size
    BY LeastType DEF FifoAssumption
  <2>2. DataPkt(cur.req, 0, Least(size, FifoSize)) \in Packets
    BY <1>4, <2>1, PacketType
  <2> QED
    BY <1>4, <1>6, <2>1, <2>2, WriteFifoType DEF SendData
<1>7. /\ inFifo' \in Packets /\ overrun' \in BOOLEAN /\ in_buf' \in Nat
      /\ Bulk_in_size' \in Nat /\ Bulk_in_finish' \in Nat
      /\ Bulk_in_finish' <= Bulk_in_size'
      /\ handshake_PKT' \in [pos : Nat, stat : Nat] /\ ret_dat' \in Nat
      /\ udc_state' \in {"IDLE", "BULK_IN"}
  <2>0. in_buf \in Nat /\ udc_state \in {"IDLE", "BULK_IN"}
    BY DEF BulkTypeOK
  <2>1. CASE PositionOps
    BY <1>4, <1>5, <2>0, <2>1 DEF PositionOps
  <2>2. CASE NAND_READ_TO_RAM \/ CONFIGRATION_Handle
    BY <1>4, <1>5, <2>0, <2>2 DEF NAND_READ_TO_RAM, CONFIGRATION_Handle
  <2>3. CASE NAND_READ
    BY <1>4, <1>6, <2>3 DEF NAND_READ
  <2>4. CASE NAND_READ_RAW
    BY <1>4, <1>6, <2>4 DEF NAND_READ_RAW
  <2>5. CASE NAND_QUERY
    BY <1>4, <1>6, <2>5 DEF NAND_QUERY
  <2> QED
    BY <2>1, <2>2, <2>3, <2>4, <2>5
<1>8. BulkTypeOK'
  BY <1>2, <1>7, EmptySeq DEF BulkTypeOK, ReqFrame, Tokens
<1>9. NoCounterWrap'
  BY <1>2, <1>7 DEF NoCounterWrap, NoEP0
<1> QED
  BY <1>2, <1>3, <1>7, <1>8, <1>9, RequestFrame DEF NoEP0, PollTypeOK, RequestFromIdle


-----------------------------------------------------------------------------
(* Steps of the host, the kernel and the controller.                       *)

\* The host never touches the firmware's variables.
LEMMA HostFrame ==
  ASSUME IndInv, DeviceFrame, HwTypeOK', HostTypeOK', dirty' \in BOOLEAN, SentWithinData',
         setup'.stage = "descriptor" => setup'.n <= MAX_EP0_SIZE
  PROVE  IndInv'
<1> USE DEF IndInv, TypeOK, DeviceFrame
<1>1. PollTypeOK' /\ BulkTypeOK'
  BY DEF PollTypeOK, BulkTypeOK, pollVars, ep0Vars, bulkVars, parVars
<1>2. GhostTypeOK'
  BY DEF GhostTypeOK
<1>3. NoCounterWrap' /\ EP0ReadyForSetup' /\ RequestFromIdle' /\ EP0AnswerShort'
  BY DEF NoCounterWrap, EP0ReadyForSetup, RequestFromIdle, EP0AnswerShort, pollVars, ep0Vars,
         bulkVars
<1> QED
  BY <1>1, <1>2, <1>3

\* The stage under way and the SETUP packet for it.
LEMMA StageType ==
  ASSUME HostTypeOK
  PROVE  /\ Stage # "idle" => /\ todo # <<>> /\ Stage \in StageSet
                              /\ Tail(todo) \in Seq(StageSet)
         /\ Stage \in Control => ThisSetup \in Setups
         /\ Stage = "descriptor" => ThisSetup.n <= MAX_EP0_SIZE
<1>1. ASSUME todo # <<>> PROVE Head(todo) \in StageSet /\ Tail(todo) \in Seq(StageSet)
  BY <1>1, HeadTailProperties DEF HostTypeOK
<1>2. "idle" \notin StageSet
  BY DEF StageSet, Control
<1>3. Stage # "idle" => todo # <<>> /\ Stage = Head(todo)
  BY DEF Stage
<1>4. Stage \in Control => ThisSetup \in Setups
  BY DEF ThisSetup, Setups, HostTypeOK
<1>5. Stage = "descriptor" => ThisSetup.n <= MAX_EP0_SIZE
  BY DEF ThisSetup, MAX_EP0_SIZE
<1> QED
  BY <1>1, <1>2, <1>3, <1>4, <1>5

LEMMA StartExchangeInv ==
  ASSUME IndInv, StartExchange
  PROVE  IndInv'
<1> USE DEF IndInv, TypeOK
<1>1. PICK o \in Ops, len \in Lens, probe \in BOOLEAN :
        /\ op' = o /\ n' = (IF o = "query" THEN HsLen ELSE len) /\ left' = n'
        /\ todo' = Script(o, probe)
  BY DEF StartExchange
<1>2. /\ req < MaxReq /\ req' = req + 1 /\ sent' = 0 /\ got' = <<>> /\ DeviceFrame
      /\ UNCHANGED <<hwVars, waiting, acked, timeouts, resets, dirty>>
  BY DEF StartExchange
<1>3. o \in AllOps /\ n' \in Nat /\ todo' \in Seq(StageSet) /\ got' \in Seq(Packets)
  BY <1>1, <1>2, ScriptType, EmptySeq DEF HsLen, OpsAssumption, LensAssumption
<1>4. req' \in 0..MaxReq
  BY <1>2 DEF HostTypeOK, BoundAssumption
<1>5. HostTypeOK'
  BY <1>1, <1>2, <1>3, <1>4 DEF HostTypeOK
<1>6. HwTypeOK' /\ dirty' \in BOOLEAN /\ SentWithinData'
  BY <1>2, <1>3 DEF HwTypeOK, GhostTypeOK, SentWithinData, hwVars
<1> QED
  BY <1>2, <1>5, <1>6, HostFrame DEF hwVars, EP0AnswerShort

LEMMA SendBulkInv ==
  ASSUME IndInv, SendBulk
  PROVE  IndInv'
<1> USE DEF IndInv, TypeOK
<1> DEFINE to == Least(sent + FifoSize, n)
<1>1. /\ Stage = "out" /\ outFifo' = SubSeq(Payload(req, n), sent + 1, to)
      /\ sent' = to /\ todo' = (IF to = n THEN Tail(todo) ELSE todo) /\ intrOut' = TRUE
      /\ DeviceFrame
      /\ UNCHANGED <<intrUsb, intrIn, inFifo, setup, setupEnd, req, op, n, left, waiting,
                     acked, got, timeouts, resets, dirty>>
  BY DEF SendBulk
<1>2. to \in Nat /\ to <= n
  <2>1. sent + FifoSize \in Nat /\ n \in Nat
    BY DEF HostTypeOK, FifoAssumption
  <2> QED
    BY <2>1, LeastType
<1>3. outFifo' \in Tokens
  <2>1. \A i \in (sent + 1)..to : Payload(req, n)[i] \in Nat \X Nat
    BY <1>2 DEF Payload, HostTypeOK
  <2>2. sent + 1 \in Int /\ to \in Int
    BY <1>2 DEF HostTypeOK
  <2> QED
    BY <1>1, <2>1, <2>2, SubSeqProperties DEF Tokens
<1>4. todo' \in Seq(StageSet)
  BY <1>1, StageType DEF HostTypeOK
<1>5. HwTypeOK' /\ HostTypeOK' /\ dirty' \in BOOLEAN
  BY <1>1, <1>2, <1>3, <1>4 DEF HwTypeOK, HostTypeOK, GhostTypeOK
<1>6. SentWithinData'
  BY <1>1, <1>2 DEF SentWithinData
<1> QED
  BY <1>1, <1>5, <1>6, HostFrame DEF EP0AnswerShort

LEMMA ControlInv ==
  ASSUME IndInv, SendSetup \/ EndOldSetup \/ ControlDone \/ RetryEnumeration
  PROVE  IndInv'
<1> USE DEF IndInv, TypeOK
<1>0. NoSetup \in Setups
  BY DEF NoSetup, Setups
<1>1. /\ DeviceFrame
      /\ UNCHANGED <<intrUsb, intrOut, inFifo, outFifo, req, op, n, sent, left, got, timeouts,
                     resets, dirty>>
  BY DEF SendSetup, EndOldSetup, ControlDone, RetryEnumeration, hwVars, hostVars, xferVars
<1>2. todo' \in Seq(StageSet) /\ waiting' \in BOOLEAN /\ acked' \in Setups
  <2>1. CASE SendSetup \/ EndOldSetup \/ RetryEnumeration
    BY <2>1 DEF SendSetup, EndOldSetup, RetryEnumeration, hostVars, xferVars, HostTypeOK
  <2>2. CASE ControlDone
    <3>1. acked = ThisSetup /\ todo' = Tail(todo) /\ acked' = NoSetup /\ waiting' = FALSE
      BY <2>2 DEF ControlDone
    <3>2. Stage = acked.stage
      BY <3>1 DEF ThisSetup
    <3>3. Stage # "idle"
      BY <3>2 DEF HostTypeOK, Setups, Control
    <3> QED
      BY <1>0, <3>1, <3>3, StageType
  <2> QED
    BY <2>1, <2>2
<1>3. /\ intrIn' \in SUBSET {"EP0", "EP1"} /\ setupEnd' \in BOOLEAN /\ setup' \in Setups
      /\ setup'.stage = "descriptor" => setup'.n <= MAX_EP0_SIZE
  <2>1. CASE SendSetup
    <3>1. Stage \in Control /\ setup' = ThisSetup /\ UNCHANGED setupEnd
          /\ intrIn' = intrIn \cup {"EP0"}
      BY <2>1 DEF SendSetup
    <3>2. ThisSetup \in Setups /\ (ThisSetup.stage = "descriptor" => ThisSetup.n <= MAX_EP0_SIZE)
      BY <3>1, StageType DEF ThisSetup
    <3> QED
      BY <3>1, <3>2 DEF HwTypeOK
  <2>2. CASE EndOldSetup
    BY <1>0, <2>2 DEF EndOldSetup, HwTypeOK, NoSetup
  <2>3. CASE ControlDone
    BY <2>3 DEF ControlDone, HwTypeOK, EP0AnswerShort
  <2>4. CASE RetryEnumeration
    BY <2>4 DEF RetryEnumeration, HwTypeOK, EP0AnswerShort, hwVars
  <2> QED
    BY <2>1, <2>2, <2>3, <2>4
<1>4. HwTypeOK' /\ HostTypeOK' /\ dirty' \in BOOLEAN
  BY <1>1, <1>2, <1>3 DEF HwTypeOK, HostTypeOK, GhostTypeOK
<1>5. SentWithinData'
  BY <1>1 DEF SentWithinData
<1> QED
  BY <1>1, <1>3, <1>4, <1>5, HostFrame


LEMMA ReadBulkInv ==
  ASSUME IndInv, ReadBulk
  PROVE  IndInv'
<1> USE DEF IndInv, TypeOK
<1>1. /\ Stage \in {"data", "hs"} /\ got' = Append(got, inFifo) /\ inFifo' = NoPkt
      /\ intrIn' = intrIn \cup {"EP1"} /\ todo' \in {todo, Tail(todo)} /\ DeviceFrame
      /\ UNCHANGED <<intrUsb, intrOut, outFifo, setup, setupEnd, req, op, n, sent, waiting,
                     acked, timeouts, resets, dirty>>
  BY DEF ReadBulk
<1>2. left' \in Nat
  <2>1. left \in Nat /\ inFifo.len \in Nat
    BY DEF HostTypeOK, HwTypeOK, Packets
  <2>2. Least(left, inFifo.len) \in Nat /\ Least(left, inFifo.len) <= left
    BY <2>1, LeastType
  <2> QED
    BY <2>1, <2>2 DEF ReadBulk
<1>3. todo' \in Seq(StageSet) /\ got' \in Seq(Packets)
  BY <1>1, StageType, AppendProperties DEF HostTypeOK, HwTypeOK
<1>4. HwTypeOK' /\ HostTypeOK' /\ dirty' \in BOOLEAN
  BY <1>1, <1>2, <1>3, PacketType DEF HwTypeOK, HostTypeOK, GhostTypeOK
<1>5. SentWithinData'
  BY <1>1 DEF SentWithinData
<1> QED
  BY <1>1, <1>4, <1>5, HostFrame DEF EP0AnswerShort

LEMMA TimeoutInv ==
  ASSUME IndInv, Timeout
  PROVE  IndInv'
<1> USE DEF IndInv, TypeOK
<1>1. /\ todo # <<>> /\ timeouts < MaxTimeouts /\ timeouts' = timeouts + 1 /\ dirty' = TRUE
      /\ waiting' = FALSE /\ todo' \in {<<>>, Tail(todo)} /\ DeviceFrame
      /\ UNCHANGED <<hwVars, req, op, n, sent, left, acked, got, resets>>
  BY DEF Timeout
<1>2. todo' \in Seq(StageSet)
  <2>1. Tail(todo) \in Seq(StageSet)
    BY <1>1, HeadTailProperties DEF HostTypeOK
  <2>2. <<>> \in Seq(StageSet)
    BY EmptySeq
  <2> QED
    BY <1>1, <2>1, <2>2
<1>3. timeouts' \in 0..MaxTimeouts
  BY <1>1 DEF HostTypeOK, BoundAssumption
<1>4. HostTypeOK'
  BY <1>1, <1>2, <1>3 DEF HostTypeOK
<1>5. HwTypeOK' /\ SentWithinData'
  BY <1>1 DEF HwTypeOK, SentWithinData, hwVars
<1> QED
  BY <1>1, <1>4, <1>5, HostFrame DEF hwVars, EP0AnswerShort

LEMMA BusResetInv ==
  ASSUME IndInv, BusReset
  PROVE  IndInv'
<1> USE DEF IndInv, TypeOK
<1>1. /\ resets < MaxResets /\ resets' = resets + 1 /\ intrUsb' = TRUE
      /\ inFifo' = NoPkt /\ outFifo' = <<>> /\ setup' = NoSetup /\ setupEnd' = FALSE
      /\ op' = "none" /\ got' = <<>> /\ waiting' = FALSE /\ acked' = NoSetup
      /\ todo' = Enumeration /\ dirty' = TRUE /\ DeviceFrame
      /\ UNCHANGED <<intrIn, intrOut, req, n, sent, left, timeouts>>
  BY DEF BusReset
<1>2. /\ NoSetup \in Setups /\ <<>> \in Tokens /\ <<>> \in Seq(Packets)
      /\ Enumeration \in Seq(StageSet) /\ NoPkt \in Packets
  BY EmptySeq, PacketType DEF NoSetup, Setups, Tokens, Enumeration, StageSet, Control
<1>3. resets' \in 0..MaxResets
  BY <1>1 DEF HostTypeOK, BoundAssumption
<1>4. HostTypeOK'
  BY <1>1, <1>2, <1>3 DEF HostTypeOK
<1>5. HwTypeOK' /\ SentWithinData'
  BY <1>1, <1>2 DEF HwTypeOK, SentWithinData
<1> QED
  BY <1>1, <1>4, <1>5, HostFrame DEF NoSetup

LEMMA StutterInv ==
  ASSUME IndInv, UNCHANGED vars
  PROVE  IndInv'
<1> USE DEF IndInv, TypeOK, vars
<1>1. HwTypeOK' /\ PollTypeOK'
  BY DEF HwTypeOK, PollTypeOK, hwVars, pollVars, ep0Vars
<1>2. BulkTypeOK' /\ GhostTypeOK'
  BY DEF BulkTypeOK, GhostTypeOK, bulkVars, parVars, ghosts
<1>3. HostTypeOK' /\ SentWithinData'
  BY DEF HostTypeOK, SentWithinData, hostVars, xferVars
<1>4. NoCounterWrap' /\ EP0ReadyForSetup' /\ RequestFromIdle' /\ EP0AnswerShort'
  BY DEF NoCounterWrap, EP0ReadyForSetup, RequestFromIdle, EP0AnswerShort, hwVars, pollVars,
         ep0Vars, bulkVars
<1> QED
  BY <1>1, <1>2, <1>3, <1>4

LEMMA NextInv == IndInv /\ [Next]_vars => IndInv'
<1> SUFFICES ASSUME IndInv, [Next]_vars PROVE IndInv'
  OBVIOUS
<1>1. CASE udc4740Proc
  BY <1>1, PollInv, EPIN_HandlerInv, EPOUT_HandlerInv, udc_resetInv, EP0_SetupInv, EP0_TxInv,
     ParameterInv, OperationInv
     DEF udc4740Proc, usbHandleDevReq
<1>2. CASE Host \/ RetryEnumeration
  BY <1>2, StartExchangeInv, SendBulkInv, ControlInv, ReadBulkInv DEF Host
<1>3. CASE Timeout
  BY <1>3, TimeoutInv
<1>4. CASE BusReset
  BY <1>4, BusResetInv
<1>5. CASE UNCHANGED vars
  BY <1>5, StutterInv
<1> QED
  BY <1>1, <1>2, <1>3, <1>4, <1>5 DEF Next

-----------------------------------------------------------------------------
(* The theorems.                                                           *)

\* IndInv holds in every reachable state.
THEOREM Invariance == Spec => []IndInv
<1> QED
  BY InitInv, NextInv, PTL DEF Spec

\* Every variable of the firmware and of the host keeps its type (TypeOK).
THEOREM TypeCorrect == Spec => []TypeOK
<1>1. IndInv => TypeOK
  BY DEF IndInv
<1> QED
  BY <1>1, Invariance, PTL

\* The unsigned differences EPIN_Handler and EP0_Handler compute never wrap,
\* for every packet size, with timeouts and bus resets at any time.
THEOREM CountersSafe == Spec => []NoCounterWrap
<1>1. IndInv => NoCounterWrap
  BY DEF IndInv
<1> QED
  BY <1>1, Invariance, PTL

\* When a poll looks for a SETUP packet, no answer is pending on EP0.
THEOREM EP0Ready == Spec => []EP0ReadyForSetup
<1>1. IndInv => EP0ReadyForSetup
  BY DEF IndInv
<1> QED
  BY <1>1, Invariance, PTL
=============================================================================
