------------------------- MODULE UdcExchangeProofs --------------------------
(***************************************************************************)
(* The exchanges of the host and stage 2 stay in step: for every packet    *)
(* size, every set of data sizes and operations, either link speed and any *)
(* number of exchanges, timeouts and bus resets.                           *)
(***************************************************************************)
EXTENDS UdcProofs

\* The stages of an exchange in the order in which every script has them.
Rank == [cpuinfo |-> 0, out |-> 1, ram |-> 2, addr |-> 3, len |-> 4, op |-> 5, data |-> 6,
         hs |-> 7, idle |-> 8]
First(s) == IF s = <<>> THEN "idle" ELSE Head(s)

\* What is left of an exchange is determined by its operation and stage.
Plans(o) == {SubSeq(Script(o, TRUE), j, Len(Script(o, TRUE))) : j \in 1..(Len(Script(o, TRUE)) + 1)}

\* An interrupt that EP1's or EP0's handler has yet to see, and a bus reset that
\* udc_reset has yet to see.
Pending1 == "EP1" \in intrIn \/ ("EP1" \in lIn /\ pc \in {"out", "epin"})
Pending0 == "EP0" \in intrIn \/ ("EP0" \in lIn /\ pc \notin {"usb", "in"})
ResetAhead == intrUsb \/ (lUsb /\ pc \in {"in", "out", "epin", "epout", "reset"})

-----------------------------------------------------------------------------
(* Bus reset and enumeration.                                              *)

\* Only these two requests are answered on EP0.
AnsweredOnEP0 == (pc = "tx" /\ ep0state = "TX") => cur.stage \in {"cpuinfo", "descriptor"}

\* Until udc_reset has run the host cannot get through the enumeration.
Resetting ==
  /\ ResetAhead => op = "none" /\ todo # <<>> /\ acked.stage # "set_address"
  /\ (intrUsb /\ pc \in {"in", "out", "epin", "epout", "reset", "ep0"}) =>
       todo = Enumeration /\ acked = NoSetup
  /\ (dirty /\ op = "none") => ResetAhead

\* When the enumeration is through, nothing of it is left.
Enumerated ==
  op = "none" =>
    /\ todo \in {Enumeration, <<"set_address">>, <<>>}
    /\ setup.stage \in {"descriptor", "set_address"} \/ setup = NoSetup
    /\ setup.stage = "set_address" =>
         /\ setup = ThisSetup /\ todo = <<"set_address">> /\ acked.stage # "set_address"
         /\ waiting \/ ~Pending0
    /\ acked.stage = "set_address" =>
         /\ acked = ThisSetup /\ todo = <<"set_address">> /\ waiting
    /\ (acked.stage = "set_address" \/ todo = <<>>) =>
         setup = NoSetup /\ ~setupEnd /\ cur.stage # "descriptor"
    /\ todo = <<>> => acked = NoSetup /\ ~waiting

\* The firmware serves nothing but the enumeration's requests, and EP1 is quiet.
QuietOnReset ==
  (op = "none" /\ ~dirty) =>
    /\ pc = "request" => cur.stage \in {"descriptor", "set_address"}
    /\ (pc = "tx" /\ ep0state = "TX") => cur.stage = "descriptor"
    /\ inFifo = NoPkt /\ outFifo = <<>> /\ out_buf = <<>> /\ udc_state = "IDLE"
    /\ Bulk_in_finish = Bulk_in_size

-----------------------------------------------------------------------------
(* Interrupts of EP1.                                                      *)

\* A packet in the OUT FIFO has its interrupt; one in the IN FIFO has none, and
\* there is at most one.
Interrupts ==
  /\ outFifo # <<>> => intrOut \/ (lOut /\ pc \in {"epin", "epout"})
  /\ ~dirty => /\ inFifo # NoPkt => ~Pending1
               /\ ~("EP1" \in intrIn /\ "EP1" \in lIn /\ pc \in {"out", "epin"})

-----------------------------------------------------------------------------
(* The exchange.                                                           *)

InStep == op # "none" /\ ~dirty

Numbered == ran.req <= req /\ cur.req <= req /\ setup.req <= req /\
            (op # "none" => todo \in Plans(op) /\ n > 0 /\ (op = "query" => n = HsLen))

\* The control transfer under way is the host's current one, and no interrupt of
\* EP1 is left when its SETUP packet is served.
SetupOf(st) == [stage |-> st, req |-> req, op |-> op, n |-> n]
InTransfer ==
  InStep =>
    /\ ~setupEnd /\ (waiting => Stage \in Control)
    /\ setup # NoSetup =>
         /\ setup = SetupOf(Stage) /\ waiting /\ acked = NoSetup
         /\ pc \in {"epin", "epout", "reset", "ep0"} => ~intrOut
         /\ pc \in {"out", "epin", "epout", "reset", "ep0"} => "EP1" \notin intrIn
    /\ acked # NoSetup => acked = SetupOf(Stage) /\ waiting

\* The request the firmware serves is one of this exchange.
InService ==
  InStep =>
    /\ pc = "request" =>
         \/ cur.stage = "set_address"
         \/ /\ cur = SetupOf(cur.stage) /\ ran.req # req
            /\ cur.stage = "cpuinfo" \/ Has(op, cur.stage)
    /\ ((pc = "request" /\ cur.stage = "cpuinfo") \/ (pc = "tx" /\ ep0state = "TX")) =>
         cur = SetupOf("cpuinfo") /\ Stage = "cpuinfo" /\ waiting /\ acked = NoSetup /\ setup = NoSetup

Serving(st) == pc = "request" /\ cur = SetupOf(st)
Acked(st) == Has(op, st) /\ (Rank[st] < Rank[Stage] \/ (Stage = st /\ acked # NoSetup))

\* Before the operation runs: its inputs arrive, and EP1 is quiet.
Preparing ==
  (InStep /\ ran.req # req) =>
    /\ got = <<>> /\ inFifo = NoPkt /\ udc_state = "IDLE" /\ Bulk_in_finish = Bulk_in_size
    /\ left = n /\ sent <= n /\ out_buf \o outFifo = SubSeq(Payload(req, n), 1, sent)
    /\ IF Has(op, "out") THEN Rank[Stage] > Rank["out"] => sent = n ELSE sent = 0
    /\ Acked("addr") => Serving("addr") \/ start_addr = req
    /\ Acked("len") => Serving("len") \/ ops_length = [req |-> req, n |-> n]
    /\ Acked("ram") => Serving("ram") \/ ram_addr = req
    /\ Rank[Stage] > Rank["op"] => Stage = (IF Has(op, "data") THEN "data" ELSE "hs")
    /\ Acked("op") => Serving("op")
    /\ Serving("op") => Acked("op") /\ "EP1" \notin intrIn /\ outFifo = <<>>

\* Packet k of the data, counted from 0; the first k of them were read.
Chunk(k) == DataPkt(req, k * FifoSize, Least(FifoSize, n - k * FifoSize))
DataRead(k) == \A j \in 1..k : got[j] = Chunk(j - 1) /\ (j - 1) * FifoSize < n
AllRead(k) == IF Has(op, "data") THEN k > 0 /\ DataRead(k) /\ n <= k * FifoSize ELSE k = 0

PosOps == {"mark_bad", "erase", "program", "sdram", "read", "read_oob"}
StatOps == {"read", "query", "read_to_ram", "config"}

\* After it ran, with its own inputs: the answer is on its way.
Answering ==
  (InStep /\ ran.req = req) =>
    /\ ran.op = op /\ Acked("op")
    /\ ran.out = (IF Has(op, "out") THEN Payload(req, n) ELSE <<>>)
    /\ (Has(op, "addr") => ran.addr = req) /\ (Has(op, "len") => ran.len = req)
    /\ Has(op, "ram") => ran.ram = req
    /\ out_buf = <<>> /\ outFifo = <<>>
    /\ op \in PosOps => handshake_PKT.pos = req
    /\ op \in StatOps => handshake_PKT.stat = req

\* Its data is sent packet by packet, the next one when the host has read one.
SendingData ==
  (InStep /\ ran.req = req /\ udc_state = "BULK_IN") =>
    /\ Has(op, "data") /\ in_buf = req /\ Bulk_in_size = n /\ DataRead(Len(got))
    /\ IF inFifo = NoPkt
       THEN Len(got) > 0 /\ Bulk_in_finish = Least(n, Len(got) * FifoSize)
       ELSE /\ Len(got) * FifoSize < n /\ inFifo = Chunk(Len(got))
            /\ Bulk_in_finish = Least(n, (Len(got) + 1) * FifoSize)
    /\ left = n - Least(n, Len(got) * FifoSize)
    /\ IF left = 0 THEN Stage = "hs" ELSE Stage = "data" \/ (Stage = "op" /\ got = <<>>)

\* Then the handshake, once.
SendingHandshake ==
  (InStep /\ ran.req = req /\ udc_state = "IDLE") =>
    /\ Bulk_in_finish = Bulk_in_size
    /\ IF inFifo # NoPkt
       THEN /\ inFifo = HsPkt(handshake_PKT) /\ AllRead(Len(got))
            /\ Stage = "hs" \/ (Stage = "op" /\ ~Has(op, "data"))
       ELSE /\ Stage = "idle" /\ Len(got) > 0 /\ AllRead(Len(got) - 1)
            /\ got[Len(got)] = HsPkt(handshake_PKT)

ExchangeInv ==
  /\ AnsweredOnEP0 /\ Resetting /\ Enumerated /\ QuietOnReset
  /\ Interrupts /\ NoFifoOverrun /\ Numbered /\ InTransfer /\ InService
  /\ Preparing /\ Answering /\ SendingData /\ SendingHandshake

-----------------------------------------------------------------------------
(* The scripts.                                                            *)

\* What is left of a sequence.
LEMMA Suffix ==
  ASSUME NEW T, NEW s \in Seq(T), NEW j \in 1..(Len(s) + 1)
  PROVE  /\ SubSeq(s, j, Len(s)) = <<>> <=> j = Len(s) + 1
         /\ j \in 1..Len(s) => /\ Head(SubSeq(s, j, Len(s))) = s[j]
                               /\ Tail(SubSeq(s, j, Len(s))) = SubSeq(s, j + 1, Len(s))
<1>1. Len(s) \in Nat /\ s \in [1..Len(s) -> T]
  BY LenProperties
<1>2. CASE j = Len(s) + 1
  BY <1>1, <1>2, SubSeqEmpty
<1>3. CASE j # Len(s) + 1
  <2>1. j \in 1..Len(s) /\ Len(s) \in j..Len(s)
    BY <1>1, <1>3
  <2>2. \A i \in j..Len(s) : s[i] \in T
    BY <1>1, <2>1
  <2>3. Len(SubSeq(s, j, Len(s))) = Len(s) - j + 1
    BY <1>1, <2>1, <2>2, SubSeqProperties
  <2>4. Len(SubSeq(s, j, Len(s))) # 0
    BY <1>1, <2>1, <2>3
  <2>5. ASSUME SubSeq(s, j, Len(s)) = <<>> PROVE FALSE
    BY <2>4, <2>5
  <2>6. /\ Head(SubSeq(s, j, Len(s))) = s[j]
        /\ Tail(SubSeq(s, j, Len(s))) = SubSeq(s, j + 1, Len(s))
    BY <2>1, HeadTailOfSubSeq
  <2> QED
    BY <1>3, <2>5, <2>6
<1> QED
  BY <1>2, <1>3

BodyStages == {"out", "ram", "addr", "len", "op", "data", "hs"}

\* Stage j of the script with GET_CPU_INFO in front.
StageAt(o, j) == IF j = 1 THEN "cpuinfo" ELSE IF j > Len(Body[o]) + 1 THEN "idle" ELSE Body[o][j - 1]

\* Every script goes through its stages in the order of Rank, and from the
\* operation to its data, if it has any, and the handshake.
Orderly(o) ==
  /\ Body[o] \in Seq(StageSet) /\ Body[o] # <<>>
  /\ \A j \in 1..(Len(Body[o]) + 1) :
       /\ Rank[StageAt(o, j)] < Rank[StageAt(o, j + 1)]
       /\ \A st : Has(o, st) => Rank[st] <= Rank[StageAt(o, j)] \/ Rank[StageAt(o, j + 1)] <= Rank[st]
       /\ StageAt(o, j) = "op" => StageAt(o, j + 1) = IF Has(o, "data") THEN "data" ELSE "hs"
       /\ StageAt(o, j) = "data" => StageAt(o, j + 1) = "hs"
       /\ StageAt(o, j) = "hs" => StageAt(o, j + 1) = "idle"
       /\ StageAt(o, j) = "cpuinfo" \/ Has(o, StageAt(o, j))
  /\ Has(o, "op") /\ Has(o, "hs") /\ \A st : Has(o, st) => st \in BodyStages

LEMMA QueryOrderly ==
  ASSUME NEW o, Body[o] = <<"op", "data", "hs">>
  PROVE  Orderly(o)
<1>1. Len(Body[o]) = 3 /\ Body[o] \in Seq(StageSet) /\ Body[o] # <<>>
  BY DEF StageSet, Control
<1>2. \A st : Has(o, st) <=> st \in {"op", "data", "hs"}
  BY DEF Has
<1>3. /\ StageAt(o, 1) = "cpuinfo" /\ StageAt(o, 2) = "op" /\ StageAt(o, 3) = "data"
      /\ StageAt(o, 4) = "hs" /\ StageAt(o, 5) = "idle"
  BY <1>1 DEF StageAt
<1> QED
  BY <1>1, <1>2, <1>3 DEF Orderly, Rank, BodyStages

LEMMA MarkOrderly ==
  ASSUME NEW o, Body[o] = <<"addr", "op", "hs">>
  PROVE  Orderly(o)
<1>1. Len(Body[o]) = 3 /\ Body[o] \in Seq(StageSet) /\ Body[o] # <<>>
  BY DEF StageSet, Control
<1>2. \A st : Has(o, st) <=> st \in {"addr", "op", "hs"}
  BY DEF Has
<1>3. /\ StageAt(o, 1) = "cpuinfo" /\ StageAt(o, 2) = "addr" /\ StageAt(o, 3) = "op"
      /\ StageAt(o, 4) = "hs" /\ StageAt(o, 5) = "idle"
  BY <1>1 DEF StageAt
<1> QED
  BY <1>1, <1>2, <1>3 DEF Orderly, Rank, BodyStages

LEMMA EraseOrderly ==
  ASSUME NEW o, Body[o] = <<"addr", "len", "op", "hs">>
  PROVE  Orderly(o)
<1>1. Len(Body[o]) = 4 /\ Body[o] \in Seq(StageSet) /\ Body[o] # <<>>
  BY DEF StageSet, Control
<1>2. \A st : Has(o, st) <=> st \in {"addr", "len", "op", "hs"}
  BY DEF Has
<1>3. /\ StageAt(o, 1) = "cpuinfo" /\ StageAt(o, 2) = "addr" /\ StageAt(o, 3) = "len"
      /\ StageAt(o, 4) = "op" /\ StageAt(o, 5) = "hs" /\ StageAt(o, 6) = "idle"
  BY <1>1 DEF StageAt
<1> QED
  BY <1>1, <1>2, <1>3 DEF Orderly, Rank, BodyStages

LEMMA WriteOrderly ==
  ASSUME NEW o, Body[o] = <<"out", "addr", "len", "op", "hs">>
  PROVE  Orderly(o)
<1>1. Len(Body[o]) = 5 /\ Body[o] \in Seq(StageSet) /\ Body[o] # <<>>
  BY DEF StageSet, Control
<1>2. \A st : Has(o, st) <=> st \in {"out", "addr", "len", "op", "hs"}
  BY DEF Has
<1>3. /\ StageAt(o, 1) = "cpuinfo" /\ StageAt(o, 2) = "out" /\ StageAt(o, 3) = "addr"
      /\ StageAt(o, 4) = "len" /\ StageAt(o, 5) = "op" /\ StageAt(o, 6) = "hs" /\ StageAt(o, 7) = "idle"
  BY <1>1 DEF StageAt
<1> QED
  BY <1>1, <1>2, <1>3 DEF Orderly, Rank, BodyStages

LEMMA ReadOrderly ==
  ASSUME NEW o, Body[o] = <<"addr", "len", "op", "data", "hs">>
  PROVE  Orderly(o)
<1>1. Len(Body[o]) = 5 /\ Body[o] \in Seq(StageSet) /\ Body[o] # <<>>
  BY DEF StageSet, Control
<1>2. \A st : Has(o, st) <=> st \in {"addr", "len", "op", "data", "hs"}
  BY DEF Has
<1>3. /\ StageAt(o, 1) = "cpuinfo" /\ StageAt(o, 2) = "addr" /\ StageAt(o, 3) = "len"
      /\ StageAt(o, 4) = "op" /\ StageAt(o, 5) = "data" /\ StageAt(o, 6) = "hs" /\ StageAt(o, 7) = "idle"
  BY <1>1 DEF StageAt
<1> QED
  BY <1>1, <1>2, <1>3 DEF Orderly, Rank, BodyStages

LEMMA ToRamOrderly ==
  ASSUME NEW o, Body[o] = <<"ram", "addr", "len", "op", "hs">>
  PROVE  Orderly(o)
<1>1. Len(Body[o]) = 5 /\ Body[o] \in Seq(StageSet) /\ Body[o] # <<>>
  BY DEF StageSet, Control
<1>2. \A st : Has(o, st) <=> st \in {"ram", "addr", "len", "op", "hs"}
  BY DEF Has
<1>3. /\ StageAt(o, 1) = "cpuinfo" /\ StageAt(o, 2) = "ram" /\ StageAt(o, 3) = "addr"
      /\ StageAt(o, 4) = "len" /\ StageAt(o, 5) = "op" /\ StageAt(o, 6) = "hs" /\ StageAt(o, 7) = "idle"
  BY <1>1 DEF StageAt
<1> QED
  BY <1>1, <1>2, <1>3 DEF Orderly, Rank, BodyStages

LEMMA ConfigOrderly ==
  ASSUME NEW o, Body[o] = <<"out", "op", "hs">>
  PROVE  Orderly(o)
<1>1. Len(Body[o]) = 3 /\ Body[o] \in Seq(StageSet) /\ Body[o] # <<>>
  BY DEF StageSet, Control
<1>2. \A st : Has(o, st) <=> st \in {"out", "op", "hs"}
  BY DEF Has
<1>3. /\ StageAt(o, 1) = "cpuinfo" /\ StageAt(o, 2) = "out" /\ StageAt(o, 3) = "op"
      /\ StageAt(o, 4) = "hs" /\ StageAt(o, 5) = "idle"
  BY <1>1 DEF StageAt
<1> QED
  BY <1>1, <1>2, <1>3 DEF Orderly, Rank, BodyStages

LEMMA ScriptsOrderly == \A o \in AllOps : Orderly(o)
<1>1. /\ Body["query"] = <<"op", "data", "hs">> /\ Body["mark_bad"] = <<"addr", "op", "hs">>
      /\ Body["erase"] = <<"addr", "len", "op", "hs">>
      /\ Body["program"] = <<"out", "addr", "len", "op", "hs">>
      /\ Body["sdram"] = <<"out", "addr", "len", "op", "hs">>
  BY DEF Body
<1>2. /\ Body["read"] = <<"addr", "len", "op", "data", "hs">>
      /\ Body["read_oob"] = <<"addr", "len", "op", "data", "hs">>
      /\ Body["read_raw"] = <<"addr", "len", "op", "data", "hs">>
      /\ Body["read_to_ram"] = <<"ram", "addr", "len", "op", "hs">>
      /\ Body["config"] = <<"out", "op", "hs">>
  BY DEF Body
<1>3. /\ Orderly("query") /\ Orderly("mark_bad") /\ Orderly("erase") /\ Orderly("program")
      /\ Orderly("sdram")
  BY <1>1, QueryOrderly, MarkOrderly, EraseOrderly, WriteOrderly
<1>4. /\ Orderly("read") /\ Orderly("read_oob") /\ Orderly("read_raw") /\ Orderly("read_to_ram")
      /\ Orderly("config")
  BY <1>2, ReadOrderly, ToRamOrderly, ConfigOrderly
<1> QED
  BY <1>3, <1>4, Zenon DEF AllOps

\* The script with GET_CPU_INFO in front.
LEMMA ScriptIs ==
  ASSUME NEW o \in AllOps
  PROVE  /\ Body[o] \in Seq(StageSet) /\ Len(Body[o]) \in Nat /\ Script(o, FALSE) = Body[o]
         /\ Script(o, TRUE) \in Seq(StageSet) /\ Len(Script(o, TRUE)) = Len(Body[o]) + 1
         /\ \A k \in 1..(Len(Body[o]) + 1) : Script(o, TRUE)[k] = StageAt(o, k)
<1> DEFINE b == Body[o]
           c == <<"cpuinfo">>
<1>1. b \in Seq(StageSet) /\ Len(b) \in Nat /\ c \in Seq(StageSet) /\ Len(c) = 1 /\ c[1] = "cpuinfo"
  BY BodyType, LenProperties DEF StageSet, Control
<1>2. Script(o, TRUE) = c \o b /\ Script(o, FALSE) = <<>> \o b
  BY DEF Script
<1> HIDE DEF b, c
<1>3. Script(o, FALSE) = b
  BY <1>1, <1>2, ConcatEmptySeq
<1>4. /\ c \o b \in Seq(StageSet) /\ Len(c \o b) = Len(c) + Len(b)
      /\ \A k \in 1..(Len(c) + Len(b)) : (c \o b)[k] = IF k <= Len(c) THEN c[k] ELSE b[k - Len(c)]
  BY <1>1, ConcatProperties
<1>5. ASSUME NEW k \in 1..(Len(b) + 1) PROVE (c \o b)[k] = StageAt(o, k)
  <2>1. k \in 1..(Len(c) + Len(b)) /\ ~(k > Len(b) + 1) /\ (k <= Len(c) <=> k = 1)
    BY <1>1
  <2>2. (c \o b)[k] = IF k = 1 THEN "cpuinfo" ELSE b[k - 1]
    BY <1>1, <1>4, <2>1
  <2> QED
    BY <2>1, <2>2 DEF StageAt, b
<1>6. b \in Seq(StageSet) /\ Len(b) \in Nat /\ Script(o, FALSE) = b
  BY <1>1, <1>3
<1>7. Script(o, TRUE) \in Seq(StageSet) /\ Len(Script(o, TRUE)) = Len(b) + 1
  <2>1. Script(o, TRUE) \in Seq(StageSet) /\ Len(Script(o, TRUE)) = Len(c) + Len(b)
    BY <1>2, <1>4, Zenon
  <2>2. Len(c) + Len(b) = Len(b) + 1
    BY <1>1
  <2> QED
    BY <2>1, <2>2, Zenon
<1>8. \A k \in 1..(Len(b) + 1) : Script(o, TRUE)[k] = StageAt(o, k)
  BY <1>2, <1>5
<1> QED
  BY <1>6, <1>7, <1>8 DEF b

\* What is left of an exchange is a plan, and its first stage is one of the
\* script's.
LEMMA PlanIs ==
  ASSUME NEW o \in AllOps, NEW t \in Plans(o)
  PROVE  \E j \in 1..(Len(Body[o]) + 2) :
           /\ First(t) = StageAt(o, j)
           /\ t = <<>> <=> j = Len(Body[o]) + 2
           /\ t # <<>> => /\ Tail(t) \in Plans(o) /\ First(Tail(t)) = StageAt(o, j + 1)
                          /\ Head(t) = StageAt(o, j) /\ j \in 1..(Len(Body[o]) + 1)
<1> DEFINE s == Script(o, TRUE)
           l == Len(Body[o])
<1>1. l \in Nat
  BY ScriptIs
<1>2. /\ s \in Seq(StageSet) /\ Len(s) = l + 1
      /\ \A k \in 1..(l + 1) : s[k] = StageAt(o, k)
  BY ScriptIs
<1>3. PICK j \in 1..(Len(s) + 1) : t = SubSeq(s, j, Len(s))
  BY DEF Plans
<1> HIDE DEF s
<1>4. /\ t = <<>> <=> j = Len(s) + 1
      /\ j \in 1..Len(s) => Head(t) = s[j] /\ Tail(t) = SubSeq(s, j + 1, Len(s))
  BY <1>2, <1>3, Suffix
<1>5. CASE t = <<>>
  <2>1. j = l + 2 /\ StageAt(o, j) = "idle" /\ First(t) = "idle"
    BY <1>1, <1>2, <1>4, <1>5 DEF StageAt, First
  <2> QED
    BY <1>1, <1>5, <2>1
<1>6. CASE t # <<>>
  <2>1. j \in 1..(l + 1) /\ Len(s) = l + 1
    BY <1>1, <1>2, <1>4, <1>6
  <2>2. Head(t) = StageAt(o, j) /\ Tail(t) = SubSeq(s, j + 1, Len(s)) /\ First(t) = StageAt(o, j)
    BY <1>2, <1>4, <1>6, <2>1 DEF First
  <2>3. Tail(t) \in Plans(o)
    <3>1. j + 1 \in 1..(Len(s) + 1)
      BY <1>1, <2>1
    <3> QED
      BY <2>2, <3>1 DEF Plans, s
  <2>4. First(Tail(t)) = StageAt(o, j + 1)
    <3>0. j + 1 \in 1..(Len(s) + 1)
      BY <1>1, <2>1
    <3>1. /\ Tail(t) = <<>> <=> j + 1 = Len(s) + 1
          /\ j + 1 \in 1..Len(s) => Head(Tail(t)) = s[j + 1]
      BY <1>2, <2>2, <3>0, Suffix
    <3>2. CASE j + 1 = Len(s) + 1
      BY <1>1, <2>1, <3>1, <3>2 DEF First, StageAt
    <3>3. CASE j + 1 # Len(s) + 1
      <4>1. j + 1 \in 1..(l + 1) /\ Tail(t) # <<>> /\ j + 1 \in 1..Len(s)
        BY <1>1, <2>1, <3>0, <3>1, <3>3
      <4>2. s[j + 1] = StageAt(o, j + 1)
        BY <1>2, <4>1
      <4> QED
        BY <3>1, <4>1, <4>2 DEF First
    <3> QED
      BY <3>2, <3>3
  <2>5. j \in 1..(l + 2) /\ j # l + 2
    BY <1>1, <2>1
  <2> QED
    BY <1>6, <2>1, <2>2, <2>3, <2>4, <2>5
<1> QED
  BY <1>5, <1>6

\* One stage further on.
LEMMA PlanStep ==
  ASSUME NEW o \in AllOps, NEW t \in Plans(o), t # <<>>
  PROVE  /\ Tail(t) \in Plans(o) /\ First(t) = Head(t)
         /\ Rank[Head(t)] < Rank[First(Tail(t))]
         /\ \A st : Has(o, st) => Rank[st] <= Rank[Head(t)] \/ Rank[First(Tail(t))] <= Rank[st]
         /\ Head(t) = "op" => First(Tail(t)) = IF Has(o, "data") THEN "data" ELSE "hs"
         /\ Head(t) = "data" => First(Tail(t)) = "hs"
         /\ Head(t) = "hs" => First(Tail(t)) = "idle"
         /\ Head(t) = "cpuinfo" \/ Has(o, Head(t))
<1>1. PICK j \in 1..(Len(Body[o]) + 1) :
        /\ First(t) = StageAt(o, j) /\ Tail(t) \in Plans(o)
        /\ First(Tail(t)) = StageAt(o, j + 1) /\ Head(t) = StageAt(o, j)
  BY PlanIs
<1> QED
  BY <1>1, ScriptsOrderly DEF Orderly

\* The stages of an exchange.
LEMMA PlanStage ==
  ASSUME NEW o \in AllOps, NEW t \in Plans(o)
  PROVE  /\ First(t) \in {"idle", "cpuinfo"} \/ Has(o, First(t))
         /\ First(t) \in {"idle", "cpuinfo"} \cup BodyStages
         /\ t = <<>> <=> First(t) = "idle"
<1>1. PICK j \in 1..(Len(Body[o]) + 2) :
        /\ First(t) = StageAt(o, j) /\ (t = <<>> <=> j = Len(Body[o]) + 2)
        /\ t # <<>> => j \in 1..(Len(Body[o]) + 1)
  BY PlanIs
<1>2. CASE t = <<>>
  BY <1>2 DEF First
<1>3. CASE t # <<>>
  <2>1. StageAt(o, j) = "cpuinfo" \/ Has(o, StageAt(o, j))
    BY <1>1, <1>3, ScriptsOrderly DEF Orderly
  <2>2. \A st : Has(o, st) => st \in BodyStages
    BY ScriptsOrderly DEF Orderly
  <2> QED
    BY <1>1, <1>3, <2>1, <2>2 DEF BodyStages
<1> QED
  BY <1>2, <1>3

LEMMA Ranks ==
  /\ Rank["cpuinfo"] = 0 /\ Rank["out"] = 1 /\ Rank["ram"] = 2 /\ Rank["addr"] = 3
  /\ Rank["len"] = 4 /\ Rank["op"] = 5 /\ Rank["data"] = 6 /\ Rank["hs"] = 7
  /\ Rank["idle"] = 8
  BY DEF Rank

\* The whole script is a plan, with or without GET_CPU_INFO.
LEMMA PlanStart ==
  ASSUME NEW o \in AllOps, NEW probe \in BOOLEAN
  PROVE  /\ Script(o, probe) \in Plans(o) /\ Script(o, probe) # <<>>
         /\ \A st : Has(o, st) => Rank[First(Script(o, probe))] <= Rank[st]
<1> DEFINE s == Script(o, TRUE)
<1>1. /\ s \in Seq(StageSet) /\ Len(s) = Len(Body[o]) + 1 /\ Len(Body[o]) \in Nat
      /\ s[1] = StageAt(o, 1) /\ StageAt(o, 1) = "cpuinfo" /\ Script(o, FALSE) = Body[o]
      /\ Body[o] # <<>>
  <2>1. /\ s \in Seq(StageSet) /\ Len(s) = Len(Body[o]) + 1 /\ Len(Body[o]) \in Nat
        /\ \A k \in 1..(Len(Body[o]) + 1) : s[k] = StageAt(o, k)
    BY ScriptIs
  <2>2. 1 \in 1..(Len(Body[o]) + 1) /\ StageAt(o, 1) = "cpuinfo"
    BY <2>1 DEF StageAt
  <2>3. Script(o, FALSE) = Body[o] /\ Body[o] # <<>>
    BY ScriptIs, ScriptsOrderly DEF Orderly
  <2> QED
    BY <2>1, <2>2, <2>3
<1> HIDE DEF s
<1>2. SubSeq(s, 1, Len(s)) = s
  BY <1>1, SubSeqFull
<1>3. Len(s) \in Nat /\ 1 \in 1..(Len(s) + 1) /\ 1 \in 1..Len(s) /\ 1 # Len(s) + 1
  BY <1>1
<1>4. s # <<>> /\ Head(s) = "cpuinfo"
  BY <1>1, <1>2, <1>3, Suffix
<1>5. s \in Plans(o)
  BY <1>2, <1>3 DEF Plans, s
<1>6. Tail(s) = Body[o]
  <2>1. s = <<"cpuinfo">> \o Body[o] /\ Body[o] \in Seq(StageSet)
    BY ScriptIs DEF s, Script
  <2> QED
    BY <2>1
<1>7. First(s) = "cpuinfo"
  BY <1>4 DEF First
<1>8. Body[o] \in Plans(o) /\ \A st : Has(o, st) => Rank[st] <= 0 \/ Rank[First(Body[o])] <= Rank[st]
  BY <1>4, <1>5, <1>6, PlanStep, Ranks
<1>9. \A st : Has(o, st) => st \in BodyStages
  BY ScriptsOrderly DEF Orderly
<1>10. \A st : Has(o, st) => Rank[st] \in 1..7
  BY <1>9, Ranks DEF BodyStages
<1>11. CASE probe = TRUE
  <2>1. \A st : Has(o, st) => Rank[First(s)] <= Rank[st]
    BY <1>7, <1>10, Ranks
  <2>2. Script(o, probe) = s
    BY <1>11 DEF s
  <2> QED
    BY <1>4, <1>5, <2>1, <2>2
<1>12. CASE probe = FALSE
  <2>1. \A st : Has(o, st) => Rank[First(Body[o])] <= Rank[st]
    BY <1>8, <1>10
  <2>2. Script(o, probe) = Body[o]
    BY <1>1, <1>12
  <2> QED
    BY <1>1, <1>8, <2>1, <2>2
<1> QED
  BY <1>11, <1>12

-----------------------------------------------------------------------------
(* What each step leaves alone.                                            *)

\* The host and the controller never touch the firmware's variables.
LEMMA DeviceKept ==
  ASSUME Host \/ Timeout \/ BusReset \/ RetryEnumeration
  PROVE  /\ UNCHANGED <<pc, lUsb, lIn, lOut, cur, ep0state, udc_state, Bulk_in_size, Bulk_in_finish>>
         /\ UNCHANGED <<in_buf, out_buf, handshake_PKT, start_addr, ops_length, ram_addr>>
         /\ UNCHANGED <<overrun, ran>>
<1>1. CASE StartExchange \/ SendBulk \/ SendSetup
  <2>1. DeviceFrame
    BY <1>1 DEF StartExchange, SendBulk, SendSetup
  <2> QED
    BY <2>1 DEF DeviceFrame, pollVars, ep0Vars, bulkVars, parVars
<1>2. CASE EndOldSetup \/ ControlDone \/ ReadBulk
  <2>1. DeviceFrame
    BY <1>2 DEF EndOldSetup, ControlDone, ReadBulk
  <2> QED
    BY <2>1 DEF DeviceFrame, pollVars, ep0Vars, bulkVars, parVars
<1>3. CASE Timeout \/ BusReset \/ RetryEnumeration
  <2>1. DeviceFrame
    BY <1>3 DEF Timeout, BusReset, RetryEnumeration
  <2> QED
    BY <2>1 DEF DeviceFrame, pollVars, ep0Vars, bulkVars, parVars
<1> QED
  BY <1>1, <1>2, <1>3 DEF Host

\* Reading the registers, and the end of a poll.
LEMMA PollKept ==
  ASSUME ReadIntrUsb \/ ReadIntrIn \/ ReadIntrOut \/ PollTail
  PROVE  /\ UNCHANGED <<req, op, n, todo, sent, left, waiting, got, acked, dirty, overrun, ran>>
         /\ UNCHANGED <<inFifo, outFifo, setup, setupEnd, cur, ep0state, udc_state, Bulk_in_size>>
         /\ UNCHANGED <<Bulk_in_finish, in_buf, out_buf, handshake_PKT, start_addr, ops_length, ram_addr>>
         /\ intrIn' \in {intrIn, {}}
         /\ pc \in {"usb", "in", "out", "tail"} /\ pc' \in {"in", "out", "usb", "epin"}
<1>1. UNCHANGED <<inFifo, outFifo, setup, setupEnd, ep0Vars, bulkVars, parVars, hostVars, ghosts>>
  BY DEF ReadIntrUsb, ReadIntrIn, ReadIntrOut, PollTail
<1>2. /\ intrIn' \in {intrIn, {}}
      /\ pc \in {"usb", "in", "out", "tail"} /\ pc' \in {"in", "out", "usb", "epin"}
  BY DEF ReadIntrUsb, ReadIntrIn, ReadIntrOut, PollTail, At
<1> QED
  BY <1>1, <1>2 DEF ep0Vars, bulkVars, parVars, hostVars, xferVars, ghosts

\* EPIN_Handler without an interrupt of EP1, or with nothing to send.
LEMMA EPIN_HandlerKept ==
  ASSUME EPIN_Handler
  PROVE  /\ UNCHANGED <<req, op, n, todo, sent, left, waiting, got, acked, dirty, ran>>
         /\ UNCHANGED <<intrUsb, intrIn, intrOut, outFifo, setup, setupEnd, lUsb, lIn, lOut, cur, ep0state>>
         /\ UNCHANGED <<in_buf, out_buf, handshake_PKT, start_addr, ops_length, ram_addr>>
         /\ pc = "epin" /\ pc' = "epout"
         /\ ("EP1" \notin lIn \/ (Bulk_in_size = Bulk_in_finish /\ udc_state = "IDLE")) =>
              UNCHANGED <<udc_state, Bulk_in_size, Bulk_in_finish, inFifo, overrun>>
<1>1. /\ pc = "epin" /\ pc' = "epout"
      /\ UNCHANGED <<intrUsb, intrIn, intrOut, outFifo, setup, setupEnd, lUsb, lIn, lOut, ep0Vars,
                     out_buf, start_addr, ops_length, ram_addr, hostVars, dirty, ran>>
  BY DEF EPIN_Handler, At
<1>2. UNCHANGED <<in_buf, handshake_PKT>>
  BY DEF EPIN_Handler, Handshake_PKT, SendHandshake, NextPacket
<1>3. ("EP1" \notin lIn \/ (Bulk_in_size = Bulk_in_finish /\ udc_state = "IDLE")) =>
        UNCHANGED <<udc_state, Bulk_in_size, Bulk_in_finish, inFifo, overrun>>
  BY DEF EPIN_Handler, Handshake_PKT
<1> QED
  BY <1>1, <1>2, <1>3 DEF ep0Vars, hostVars, xferVars

LEMMA EPOUT_HandlerKept ==
  ASSUME EPOUT_Handler
  PROVE  /\ UNCHANGED <<req, op, n, todo, sent, left, waiting, got, acked, dirty, overrun, ran>>
         /\ UNCHANGED <<intrUsb, intrIn, intrOut, inFifo, setup, setupEnd, lUsb, lIn, lOut, cur, ep0state>>
         /\ UNCHANGED <<udc_state, Bulk_in_size, Bulk_in_finish, in_buf, handshake_PKT>>
         /\ UNCHANGED <<start_addr, ops_length, ram_addr>>
         /\ pc = "epout" /\ pc' = "reset"
         /\ \/ lOut /\ out_buf' = out_buf \o outFifo /\ outFifo' = <<>>
            \/ ~lOut /\ UNCHANGED <<out_buf, outFifo>>
<1>1. /\ UNCHANGED <<intrUsb, intrIn, intrOut, inFifo, setup, setupEnd, lUsb, lIn, lOut, ep0Vars,
                     udc_state, Bulk_in_size, Bulk_in_finish, in_buf, parVars, hostVars, ghosts>>
      /\ pc = "epout" /\ pc' = "reset"
  BY DEF EPOUT_Handler, At
<1>2. \/ lOut /\ out_buf' = out_buf \o outFifo /\ outFifo' = <<>>
      \/ ~lOut /\ UNCHANGED <<out_buf, outFifo>>
  BY DEF EPOUT_Handler
<1> QED
  BY <1>1, <1>2 DEF ep0Vars, parVars, hostVars, xferVars, ghosts

\* udc_reset, with a bus reset seen in this poll and without.
LEMMA udc_resetKept ==
  ASSUME udc_reset
  PROVE  /\ UNCHANGED <<req, op, n, todo, sent, left, waiting, got, acked, ran>>
         /\ UNCHANGED <<intrUsb, intrIn, intrOut, lUsb, lIn, lOut, cur, in_buf, handshake_PKT>>
         /\ UNCHANGED <<start_addr, ops_length, ram_addr>>
         /\ pc = "reset" /\ pc' = "ep0"
         /\ lUsb => /\ ep0state' = "IDLE" /\ Bulk_in_size' = 0 /\ Bulk_in_finish' = 0 /\ out_buf' = <<>>
                    /\ udc_state' = "IDLE" /\ inFifo' = NoPkt /\ outFifo' = <<>> /\ setup' = NoSetup
                    /\ setupEnd' = FALSE /\ dirty' = FALSE /\ overrun' = FALSE
         /\ ~lUsb => /\ UNCHANGED <<ep0state, Bulk_in_size, Bulk_in_finish, out_buf, udc_state>>
                     /\ UNCHANGED <<inFifo, outFifo, setup, setupEnd, dirty, overrun>>
<1>1. /\ UNCHANGED <<intrUsb, intrIn, intrOut, lUsb, lIn, lOut, cur, in_buf, parVars, hostVars, ran>>
      /\ pc = "reset" /\ pc' = "ep0"
  BY DEF udc_reset, At
<1>2. lUsb => /\ ep0state' = "IDLE" /\ Bulk_in_size' = 0 /\ Bulk_in_finish' = 0 /\ out_buf' = <<>>
              /\ udc_state' = "IDLE" /\ inFifo' = NoPkt /\ outFifo' = <<>> /\ setup' = NoSetup
              /\ setupEnd' = FALSE /\ dirty' = FALSE /\ overrun' = FALSE
  BY DEF udc_reset
<1>3. ~lUsb => /\ UNCHANGED <<ep0state, Bulk_in_size, Bulk_in_finish, out_buf, udc_state>>
               /\ UNCHANGED <<inFifo, outFifo, setup, setupEnd, dirty, overrun>>
  BY DEF udc_reset
<1> QED
  BY <1>1, <1>2, <1>3 DEF parVars, hostVars, xferVars

\* EP0_Handler looks for a SETUP packet: it is read, or nothing but an aborted
\* transfer is noted.
LEMMA EP0_SetupKept ==
  ASSUME IndInv, EP0_Setup
  PROVE  /\ UNCHANGED <<req, op, n, todo, sent, left, waiting, got, dirty, overrun, ran>>
         /\ UNCHANGED <<intrUsb, intrIn, intrOut, inFifo, outFifo, lUsb, lIn, lOut>>
         /\ UNCHANGED <<udc_state, Bulk_in_size, Bulk_in_finish, in_buf, out_buf, handshake_PKT>>
         /\ UNCHANGED <<start_addr, ops_length, ram_addr>>
         /\ pc = "ep0" /\ ep0state = "IDLE" /\ ep0state' = "IDLE"
         /\ \/ /\ pc' \in {"tail", "tx"} /\ UNCHANGED <<setup, cur, acked>>
               /\ setupEnd' = setupEnd \/ setupEnd' = FALSE
            \/ /\ pc' = "request" /\ setup # NoSetup /\ "EP0" \in lIn /\ ~setupEnd /\ setupEnd' = setupEnd
               /\ cur' = setup /\ setup' = NoSetup
               /\ acked' = (IF setup.stage \in {"cpuinfo", "descriptor"} THEN acked ELSE setup)
<1>1. /\ UNCHANGED <<intrUsb, intrIn, intrOut, inFifo, outFifo, lUsb, lIn, lOut, bulkVars, parVars,
                     xferVars, ghosts>>
      /\ pc = "ep0"
  BY DEF EP0_Setup
<1>2. ep0state = "IDLE"
  BY <1>1 DEF IndInv, EP0ReadyForSetup
<1>3. /\ ep0state' = "IDLE"
      /\ \/ /\ pc' \in {"tail", "tx"} /\ UNCHANGED <<setup, cur, acked>>
            /\ setupEnd' = setupEnd \/ setupEnd' = FALSE
         \/ /\ pc' = "request" /\ setup # NoSetup /\ "EP0" \in lIn /\ ~setupEnd /\ setupEnd' = setupEnd
            /\ cur' = setup /\ setup' = NoSetup
            /\ acked' = (IF setup.stage \in {"cpuinfo", "descriptor"} THEN acked ELSE setup)
  BY <1>2 DEF EP0_Setup
<1> QED
  BY <1>1, <1>2, <1>3 DEF bulkVars, parVars, xferVars, ghosts

LEMMA EP0_TxKept ==
  ASSUME IndInv, EP0_Tx
  PROVE  /\ UNCHANGED <<req, op, n, todo, sent, left, waiting, got, dirty, overrun, ran>>
         /\ UNCHANGED <<intrUsb, intrIn, intrOut, inFifo, outFifo, setup, setupEnd, lUsb, lIn, lOut, cur>>
         /\ UNCHANGED <<udc_state, Bulk_in_size, Bulk_in_finish, in_buf, out_buf, handshake_PKT>>
         /\ UNCHANGED <<start_addr, ops_length, ram_addr>>
         /\ pc = "tx" /\ pc' = "tail"
         /\ acked' = acked \/ (ep0state = "TX" /\ acked' = cur)
<1>1. /\ UNCHANGED <<hwVars, lUsb, lIn, lOut, cur, bulkVars, parVars, xferVars, ghosts>>
      /\ pc = "tx" /\ pc' = "tail"
  BY DEF EP0_Tx, At
<1>2. acked' = acked \/ (ep0state = "TX" /\ acked' = cur)
  BY DEF EP0_Tx
<1> QED
  BY <1>1, <1>2 DEF hwVars, bulkVars, parVars, xferVars, ghosts

\* The requests, and what each kind of them does.
LEMMA RequestKept ==
  ASSUME IndInv, usbHandleDevReq
  PROVE  /\ UNCHANGED <<req, op, n, todo, sent, left, waiting, got, acked, dirty>>
         /\ UNCHANGED <<intrUsb, intrIn, intrOut, outFifo, setup, setupEnd, lUsb, lIn, lOut, cur>>
         /\ pc = "request" /\ pc' = "tx"
         /\ ep0state' = (IF cur.stage \in {"cpuinfo", "descriptor"} THEN "TX" ELSE "IDLE")
         /\ cur.stage # "op" =>
              /\ UNCHANGED <<ran, overrun, inFifo, out_buf, in_buf, Bulk_in_size, Bulk_in_finish>>
              /\ handshake_PKT' = handshake_PKT
              /\ udc_state' = udc_state \/ (cur.stage = "cpuinfo" /\ udc_state' = "IDLE")
         /\ start_addr' = IF cur.stage = "addr" THEN cur.req ELSE start_addr
         /\ ops_length' = IF cur.stage = "len" THEN [req |-> cur.req, n |-> cur.n] ELSE ops_length
         /\ ram_addr' = IF cur.stage = "ram" THEN cur.req ELSE ram_addr
<1>1. CASE GET_CPU_INFO_Handle
  <2>1. /\ ReqFrame /\ NoBulk /\ pc = "request" /\ pc' = "tx" /\ cur.stage = "cpuinfo"
        /\ ep0state' = "TX" /\ udc_state' = "IDLE" /\ UNCHANGED <<in_buf, out_buf, parVars, ran>>
    BY <1>1 DEF GET_CPU_INFO_Handle, Requested, At, SendEP0
  <2> QED
    BY <2>1 DEF ReqFrame, NoBulk, hostVars, xferVars, parVars
<1>2. CASE usbHandleStandDevReq
  <2>1. /\ ReqFrame /\ NoBulk /\ pc = "request" /\ pc' = "tx" /\ cur.stage \in {"descriptor", "set_address"}
        /\ UNCHANGED <<udc_state, in_buf, out_buf, parVars, ran>>
    BY <1>2 DEF usbHandleStandDevReq, Requested, At
  <2>2. ep0state' = IF cur.stage = "descriptor" THEN "TX" ELSE "IDLE"
    BY <1>2, <2>1 DEF usbHandleStandDevReq, SendEP0, NoEP0, IndInv, RequestFromIdle
  <2> QED
    BY <2>1, <2>2 DEF ReqFrame, NoBulk, hostVars, xferVars, parVars
<1>3. CASE SetParameter
  <2>1. /\ ReqFrame /\ NoBulk /\ NoEP0 /\ pc = "request" /\ pc' = "tx" /\ cur.stage \in {"addr", "len", "ram"}
        /\ UNCHANGED <<udc_state, in_buf, out_buf, handshake_PKT, ran>>
        /\ start_addr' = (IF cur.stage = "addr" THEN cur.req ELSE start_addr)
        /\ ops_length' = (IF cur.stage = "len" THEN [req |-> cur.req, n |-> cur.n] ELSE ops_length)
        /\ ram_addr' = (IF cur.stage = "ram" THEN cur.req ELSE ram_addr)
    BY <1>3 DEF SetParameter, Requested, At
  <2>2. ep0state' = "IDLE"
    BY <2>1 DEF NoEP0, IndInv, RequestFromIdle
  <2> QED
    BY <2>1, <2>2 DEF ReqFrame, NoBulk, hostVars, xferVars
<1>4. ASSUME NEW ops, Operation(ops)
      PROVE  /\ ReqFrame /\ NoEP0 /\ pc = "request" /\ pc' = "tx" /\ cur.stage = "op"
             /\ UNCHANGED <<start_addr, ops_length, ram_addr>>
  BY <1>4 DEF Operation, Requested, At
<1>5. CASE PositionOps \/ NAND_READ_TO_RAM \/ NAND_READ \/ NAND_READ_RAW \/ NAND_QUERY \/ CONFIGRATION_Handle
  <2>1. /\ ReqFrame /\ NoEP0 /\ pc = "request" /\ pc' = "tx" /\ cur.stage = "op"
        /\ UNCHANGED <<start_addr, ops_length, ram_addr>>
    BY <1>4, <1>5 DEF PositionOps, NAND_READ_TO_RAM, NAND_READ, NAND_READ_RAW, NAND_QUERY, CONFIGRATION_Handle
  <2>2. ep0state' = "IDLE"
    BY <2>1 DEF NoEP0, IndInv, RequestFromIdle
  <2> QED
    BY <2>1, <2>2 DEF ReqFrame, hostVars, xferVars
<1> QED
  BY <1>1, <1>2, <1>3, <1>5 DEF usbHandleDevReq

\* The control transfers of the host, seen from outside EP0.
LEMMA ControlKept ==
  ASSUME SendSetup \/ EndOldSetup \/ ControlDone \/ RetryEnumeration
  PROVE  /\ UNCHANGED <<intrUsb, intrOut, inFifo, outFifo, req, op, n, sent, left, got, dirty>>
         /\ intrIn' = intrIn \/ intrIn' = intrIn \cup {"EP0"}
         /\ ~ControlDone => UNCHANGED <<todo, acked>>
<1>1. CASE SendSetup
  BY <1>1 DEF SendSetup
<1>2. CASE EndOldSetup
  BY <1>2 DEF EndOldSetup, hostVars, xferVars
<1>3. CASE ControlDone
  BY <1>3 DEF ControlDone
<1>4. CASE RetryEnumeration
  BY <1>4 DEF RetryEnumeration, hwVars
<1> QED
  BY <1>1, <1>2, <1>3, <1>4

LEMMA Enumerations ==
  /\ Enumeration # <<>> /\ <<"set_address">> # <<>> /\ Enumeration # <<"set_address">>
  /\ Head(Enumeration) = "descriptor" /\ Tail(Enumeration) = <<"set_address">>
  /\ Head(<<"set_address">>) = "set_address" /\ Tail(<<"set_address">>) = <<>>
<1>1. Len(Enumeration) = 2 /\ Len(<<"set_address">>) = 1
  BY DEF Enumeration
<1> QED
  BY <1>1 DEF Enumeration

\* The stages of the enumeration.
LEMMA EnumerationStage ==
  ASSUME Enumerated, op = "none"
  PROVE  /\ Stage \in {"descriptor", "set_address", "idle"}
         /\ Stage = "descriptor" <=> todo = Enumeration
         /\ Stage = "set_address" <=> todo = <<"set_address">>
         /\ Stage = "idle" <=> todo = <<>>
  BY Enumerations DEF Enumerated, Stage

LEMMA StageIs == Stage = First(todo) /\ Stage' = First(todo')
  BY DEF Stage, First

-----------------------------------------------------------------------------
(* The bus reset.                                                          *)

LEMMA AnsweredOnEP0Next ==
  ASSUME IndInv, AnsweredOnEP0, Next
  PROVE  AnsweredOnEP0'
<1>1. CASE usbHandleDevReq
  BY <1>1, RequestKept DEF AnsweredOnEP0
<1>2. CASE EP0_Setup
  BY <1>2, EP0_SetupKept DEF AnsweredOnEP0
<1>3. CASE ReadIntrUsb \/ ReadIntrIn \/ ReadIntrOut \/ PollTail
  BY <1>3, PollKept DEF AnsweredOnEP0
<1>4. CASE EPIN_Handler \/ EPOUT_Handler \/ udc_reset \/ EP0_Tx
  BY <1>4, EPIN_HandlerKept, EPOUT_HandlerKept, udc_resetKept, EP0_TxKept DEF AnsweredOnEP0
<1>5. CASE Host \/ Timeout \/ BusReset \/ RetryEnumeration
  BY <1>5, DeviceKept DEF AnsweredOnEP0
<1> QED
  BY <1>1, <1>2, <1>3, <1>4, <1>5 DEF Next, udc4740Proc

LEMMA ResettingNext ==
  ASSUME IndInv, AnsweredOnEP0, Resetting, Enumerated, Next
  PROVE  Resetting'
<1>0. NoSetup.stage = "none"
  BY DEF NoSetup
<1>1. CASE ReadIntrUsb \/ ReadIntrIn \/ ReadIntrOut \/ PollTail
  <2>1. UNCHANGED <<op, todo, acked, dirty>>
    BY <1>1, PollKept
  <2>2. CASE ReadIntrUsb
    BY <2>1, <2>2 DEF ReadIntrUsb, At, Resetting, ResetAhead
  <2>3. CASE ReadIntrIn
    BY <2>1, <2>3 DEF ReadIntrIn, At, Resetting, ResetAhead
  <2>4. CASE ReadIntrOut
    BY <2>1, <2>4 DEF ReadIntrOut, At, Resetting, ResetAhead
  <2>5. CASE PollTail
    BY <2>1, <2>5 DEF PollTail, At, Resetting, ResetAhead
  <2> QED
    BY <1>1, <2>2, <2>3, <2>4, <2>5
<1>2. CASE EPIN_Handler
  BY <1>2, EPIN_HandlerKept DEF Resetting, ResetAhead
<1>3. CASE EPOUT_Handler
  BY <1>3, EPOUT_HandlerKept DEF Resetting, ResetAhead
<1>4. CASE udc_reset
  <2>1. UNCHANGED <<op, todo, acked, intrUsb, lUsb>> /\ pc = "reset" /\ pc' = "ep0"
    BY <1>4, udc_resetKept
  <2>2. lUsb => ~dirty'
    BY <1>4, udc_resetKept
  <2>3. ~lUsb => dirty' = dirty
    BY <1>4, udc_resetKept
  <2>4. CASE lUsb
    BY <2>1, <2>2, <2>4 DEF Resetting, ResetAhead
  <2>5. CASE ~lUsb
    BY <2>1, <2>3, <2>5 DEF Resetting, ResetAhead
  <2> QED
    BY <2>4, <2>5
<1>5. CASE EP0_Setup
  <2>1. UNCHANGED <<op, todo, intrUsb, lUsb, dirty>> /\ pc = "ep0" /\ pc' \in {"tail", "request", "tx"}
    BY <1>5, EP0_SetupKept
  <2>2. acked' = acked \/ (acked' = setup /\ setup.stage \notin {"cpuinfo", "descriptor"} /\ setup # NoSetup)
    BY <1>5, EP0_SetupKept
  <2>3. ASSUME intrUsb PROVE acked' = acked
    <3>1. todo = Enumeration /\ op = "none"
      BY <2>1, <2>3 DEF Resetting, ResetAhead
    <3> QED
      BY <2>2, <3>1, Enumerations DEF Enumerated
  <2> QED
    BY <2>1, <2>3 DEF Resetting, ResetAhead
<1>6. CASE usbHandleDevReq
  BY <1>6, RequestKept DEF Resetting, ResetAhead
<1>7. CASE EP0_Tx
  <2>1. UNCHANGED <<op, todo, intrUsb, lUsb, dirty>> /\ pc = "tx" /\ pc' = "tail"
    BY <1>7, EP0_TxKept
  <2>2. acked' = acked \/ acked'.stage # "set_address"
    BY <1>7, EP0_TxKept DEF AnsweredOnEP0
  <2> QED
    BY <2>1, <2>2 DEF Resetting, ResetAhead
<1>8. CASE StartExchange
  <2>1. todo = <<>> /\ intrUsb' = intrUsb
    BY <1>8 DEF StartExchange, hwVars
  <2>2. op' # "none"
    <3>1. op' \in AllOps
      BY <1>8, OpsAssumption DEF StartExchange
    <3> QED
      BY <3>1 DEF AllOps
  <2>3. UNCHANGED <<lUsb, pc>>
    BY <1>8, DeviceKept DEF Host
  <2> QED
    BY <2>1, <2>2, <2>3 DEF Resetting, ResetAhead
<1>9. CASE SendBulk \/ ReadBulk
  <2>1. UNCHANGED <<intrUsb, op>> /\ Stage \in {"out", "data", "hs"}
    BY <1>9 DEF SendBulk, ReadBulk
  <2>2. op # "none"
    BY <2>1, EnumerationStage
  <2>3. UNCHANGED <<lUsb, pc>>
    BY <1>9, DeviceKept DEF Host
  <2> QED
    BY <2>1, <2>2, <2>3 DEF Resetting, ResetAhead
<1>10. CASE (SendSetup \/ EndOldSetup \/ RetryEnumeration) /\ ~ControlDone
  <2>1. UNCHANGED <<intrUsb, op, todo, acked, dirty>>
    BY <1>10, ControlKept
  <2>2. UNCHANGED <<lUsb, pc>>
    BY <1>10, DeviceKept DEF Host
  <2> QED
    BY <2>1, <2>2 DEF Resetting, ResetAhead
<1>11. CASE ControlDone
  <2>1. UNCHANGED <<intrUsb, op, dirty>> /\ acked = ThisSetup /\ acked' = NoSetup /\ todo' = Tail(todo)
    BY <1>11 DEF ControlDone
  <2>2. UNCHANGED <<lUsb, pc>>
    BY <1>11, DeviceKept DEF Host
  <2>3. acked.stage = Stage
    BY <2>1 DEF ThisSetup
  <2>4. ASSUME ResetAhead PROVE todo = Enumeration
    BY <2>3, <2>4, EnumerationStage DEF Resetting
  <2>5. ASSUME ResetAhead PROVE todo' # <<>> /\ acked # NoSetup
    BY <1>0, <2>1, <2>3, <2>4, <2>5, Enumerations DEF Stage
  <2> QED
    BY <1>0, <2>1, <2>2, <2>5 DEF Resetting, ResetAhead
<1>12. CASE Timeout
  <2>1. op # "none" /\ UNCHANGED <<intrUsb, op>>
    BY <1>12 DEF Timeout, hwVars
  <2>2. UNCHANGED <<lUsb, pc>>
    BY <1>12, DeviceKept
  <2> QED
    BY <2>1, <2>2 DEF Resetting, ResetAhead
<1>13. CASE BusReset
  <2>1. intrUsb' = TRUE /\ op' = "none" /\ todo' = Enumeration /\ acked' = NoSetup
    BY <1>13 DEF BusReset
  <2> QED
    BY <1>0, <2>1, Enumerations DEF Resetting, ResetAhead
<1> QED
  BY <1>1, <1>2, <1>3, <1>4, <1>5, <1>6, <1>7, <1>8, <1>9, <1>10, <1>11, <1>12, <1>13
     DEF Next, udc4740Proc, Host

LEMMA EnumeratedNext ==
  ASSUME IndInv, AnsweredOnEP0, Resetting, Enumerated, QuietOnReset, Next
  PROVE  Enumerated'
<1>0. NoSetup.stage = "none"
  BY DEF NoSetup
<1>1. CASE ReadIntrUsb \/ ReadIntrIn \/ ReadIntrOut \/ PollTail
  <2>1. UNCHANGED <<req, op, n, todo, waiting, setup, setupEnd, acked, cur>>
    BY <1>1, PollKept
  <2>2. ThisSetup' = ThisSetup
    BY <2>1 DEF ThisSetup, Stage
  <2>3. Pending0' => Pending0
    <3>1. CASE ReadIntrUsb
      BY <3>1 DEF ReadIntrUsb, At, Pending0
    <3>2. CASE ReadIntrIn
      BY <3>2 DEF ReadIntrIn, At, Pending0
    <3>3. CASE ReadIntrOut
      BY <3>3 DEF ReadIntrOut, At, Pending0
    <3>4. CASE PollTail
      BY <3>4 DEF PollTail, At, Pending0
    <3> QED
      BY <1>1, <3>1, <3>2, <3>3, <3>4
  <2> QED
    BY <2>1, <2>2, <2>3 DEF Enumerated
<1>2. CASE EPIN_Handler \/ EPOUT_Handler
  <2>1. UNCHANGED <<req, op, n, todo, waiting, setup, setupEnd, acked, cur, intrIn, lIn>>
    BY <1>2, EPIN_HandlerKept, EPOUT_HandlerKept
  <2>2. pc \in {"epin", "epout"} /\ pc' \in {"epout", "reset"}
    BY <1>2, EPIN_HandlerKept, EPOUT_HandlerKept
  <2>3. ThisSetup' = ThisSetup /\ (Pending0' <=> Pending0)
    BY <2>1, <2>2 DEF ThisSetup, Stage, Pending0
  <2> QED
    BY <2>1, <2>3 DEF Enumerated
<1>3. CASE udc_reset
  <2>1. UNCHANGED <<req, op, n, todo, waiting, acked, cur, intrIn, lIn>> /\ pc = "reset" /\ pc' = "ep0"
    BY <1>3, udc_resetKept
  <2>2. ThisSetup' = ThisSetup /\ (Pending0' <=> Pending0)
    BY <2>1 DEF ThisSetup, Stage, Pending0
  <2>3. CASE lUsb
    <3>1. setup' = NoSetup /\ setupEnd' = FALSE
      BY <1>3, <2>3, udc_resetKept
    <3>2. todo # <<>> /\ acked.stage # "set_address"
      BY <2>1, <2>3 DEF Resetting, ResetAhead
    <3> QED
      BY <1>0, <2>1, <2>2, <3>1, <3>2 DEF Enumerated
  <2>4. CASE ~lUsb
    <3>1. UNCHANGED <<setup, setupEnd>>
      BY <1>3, <2>4, udc_resetKept
    <3> QED
      BY <2>1, <2>2, <3>1 DEF Enumerated
  <2> QED
    BY <2>3, <2>4
<1>4. CASE EP0_Setup
  <2>1. UNCHANGED <<req, op, n, todo, waiting, intrIn, lIn>> /\ pc = "ep0"
    BY <1>4, EP0_SetupKept
  <2>2. ThisSetup' = ThisSetup
    BY <2>1 DEF ThisSetup, Stage
  <2>3. CASE pc' \in {"tail", "tx"} /\ UNCHANGED <<setup, cur, acked>> /\ (setupEnd' = setupEnd \/ setupEnd' = FALSE)
    <3>1. Pending0' <=> Pending0
      BY <2>1, <2>3 DEF Pending0
    <3> QED
      BY <2>1, <2>2, <2>3, <3>1 DEF Enumerated
  <2>4. CASE /\ pc' = "request" /\ setup # NoSetup /\ "EP0" \in lIn /\ ~setupEnd /\ setupEnd' = setupEnd
             /\ cur' = setup /\ setup' = NoSetup
             /\ acked' = (IF setup.stage \in {"cpuinfo", "descriptor"} THEN acked ELSE setup)
    <3> SUFFICES ASSUME op = "none" PROVE Enumerated'
      BY <2>1 DEF Enumerated
    <3>1. setup.stage \in {"descriptor", "set_address"} /\ acked.stage # "set_address" /\ todo # <<>>
      BY <2>4 DEF Enumerated
    <3>2. setup.stage = "set_address" => setup = ThisSetup /\ todo = <<"set_address">> /\ waiting
      BY <2>1, <2>4 DEF Enumerated, Pending0
    <3>3. CASE setup.stage = "descriptor"
      BY <1>0, <2>1, <2>2, <2>4, <3>1, <3>3 DEF Enumerated
    <3>4. CASE setup.stage = "set_address"
      BY <1>0, <2>1, <2>2, <2>4, <3>1, <3>2, <3>4 DEF Enumerated
    <3> QED
      BY <3>1, <3>3, <3>4
  <2> QED
    BY <1>4, <2>3, <2>4, EP0_SetupKept
<1>5. CASE usbHandleDevReq
  <2>1. /\ UNCHANGED <<req, op, n, todo, waiting, setup, setupEnd, acked, cur, intrIn, lIn>>
        /\ pc = "request" /\ pc' = "tx"
    BY <1>5, RequestKept
  <2>2. ThisSetup' = ThisSetup /\ (Pending0' <=> Pending0)
    BY <2>1 DEF ThisSetup, Stage, Pending0
  <2> QED
    BY <2>1, <2>2 DEF Enumerated
<1>6. CASE EP0_Tx
  <2>1. /\ UNCHANGED <<req, op, n, todo, waiting, setup, setupEnd, cur, intrIn, lIn>>
        /\ pc = "tx" /\ pc' = "tail" /\ (acked' = acked \/ (ep0state = "TX" /\ acked' = cur))
    BY <1>6, EP0_TxKept
  <2>2. ThisSetup' = ThisSetup /\ (Pending0' <=> Pending0)
    BY <2>1 DEF ThisSetup, Stage, Pending0
  <2>3. CASE acked' = acked
    BY <2>1, <2>2, <2>3 DEF Enumerated
  <2>4. CASE ep0state = "TX" /\ acked' = cur
    <3> SUFFICES ASSUME op = "none" PROVE Enumerated'
      BY <2>1 DEF Enumerated
    <3>1. cur.stage \in {"cpuinfo", "descriptor"}
      BY <2>1, <2>4 DEF AnsweredOnEP0
    <3>2. ASSUME todo = <<>> PROVE FALSE
      <4>1. ~dirty
        BY <3>2 DEF Resetting
      <4>2. cur.stage = "descriptor"
        BY <2>1, <2>4, <4>1 DEF QuietOnReset
      <4> QED
        BY <3>2, <4>2 DEF Enumerated
    <3> QED
      BY <2>1, <2>2, <2>4, <3>1, <3>2 DEF Enumerated
  <2> QED
    BY <2>1, <2>3, <2>4
<1>7. CASE StartExchange \/ Timeout
  <2>1. op' # "none"
    <3>1. CASE StartExchange
      <4>1. op' \in AllOps
        BY <3>1, OpsAssumption DEF StartExchange
      <4> QED
        BY <4>1 DEF AllOps
    <3>2. CASE Timeout
      BY <3>2 DEF Timeout
    <3> QED
      BY <1>7, <3>1, <3>2
  <2> QED
    BY <2>1 DEF Enumerated
<1>8. CASE SendBulk \/ ReadBulk
  <2>1. op' = op /\ Stage \in {"out", "data", "hs"}
    BY <1>8 DEF SendBulk, ReadBulk
  <2> QED
    BY <2>1, EnumerationStage DEF Enumerated
<1>9. CASE SendSetup
  <2>1. /\ UNCHANGED <<req, op, n, todo, acked, setupEnd>> /\ setup = NoSetup /\ ~waiting
        /\ setup' = ThisSetup /\ waiting' = TRUE /\ Stage \in Control
    BY <1>9 DEF SendSetup
  <2>2. cur' = cur
    BY <1>9, DeviceKept DEF Host
  <2>3. ThisSetup' = ThisSetup /\ ThisSetup.stage = Stage
    BY <2>1 DEF ThisSetup, Stage
  <2>4. "idle" \notin Control
    BY DEF Control
  <2> SUFFICES ASSUME op = "none" PROVE Enumerated'
    BY <2>1 DEF Enumerated
  <2>5. Stage \in {"descriptor", "set_address"} /\ (Stage = "set_address" => todo = <<"set_address">>) /\ todo # <<>>
    BY <2>1, <2>4, EnumerationStage
  <2>6. acked.stage # "set_address"
    BY <2>1 DEF Enumerated
  <2> QED
    BY <2>1, <2>2, <2>3, <2>5, <2>6 DEF Enumerated
<1>10. CASE EndOldSetup
  <2>1. /\ UNCHANGED <<req, op, n, todo, acked, waiting>> /\ setup # NoSetup /\ ~waiting /\ setup' = NoSetup
        /\ Stage \in Control
    BY <1>10 DEF EndOldSetup, hostVars, xferVars
  <2>2. cur' = cur
    BY <1>10, DeviceKept DEF Host
  <2>3. Stage # "idle"
    BY <2>1 DEF Control
  <2> SUFFICES ASSUME op = "none" PROVE Enumerated'
    BY <2>1 DEF Enumerated
  <2>4. acked.stage # "set_address" /\ todo # <<>>
    BY <2>1, <2>3, EnumerationStage DEF Enumerated
  <2> QED
    BY <1>0, <2>1, <2>2, <2>4 DEF Enumerated
<1>11. CASE ControlDone
  <2>1. /\ UNCHANGED <<op, setup, setupEnd>> /\ waiting /\ acked = ThisSetup /\ waiting' = FALSE
        /\ todo' = Tail(todo) /\ acked' = NoSetup
    BY <1>11 DEF ControlDone
  <2>2. cur' = cur
    BY <1>11, DeviceKept DEF Host
  <2>3. acked.stage = Stage
    BY <2>1 DEF ThisSetup
  <2> SUFFICES ASSUME op = "none" PROVE Enumerated'
    BY <2>1 DEF Enumerated
  <2>4. todo # <<>>
    BY <2>1 DEF Enumerated
  <2>5. CASE todo = Enumeration
    <3>1. todo' = <<"set_address">> /\ todo' # <<>> /\ setup.stage # "set_address"
      BY <2>1, <2>5, Enumerations DEF Enumerated
    <3> QED
      BY <1>0, <2>1, <2>2, <3>1 DEF Enumerated
  <2>6. CASE todo = <<"set_address">>
    <3>1. todo' = <<>> /\ acked.stage = "set_address"
      BY <2>1, <2>3, <2>6, Enumerations DEF Stage
    <3>2. setup = NoSetup /\ ~setupEnd /\ cur.stage # "descriptor"
      BY <3>1 DEF Enumerated
    <3> QED
      BY <1>0, <2>1, <2>2, <3>1, <3>2 DEF Enumerated
  <2> QED
    BY <2>4, <2>5, <2>6 DEF Enumerated
<1>12. CASE RetryEnumeration
  <2>1. /\ UNCHANGED <<req, op, n, todo, acked, setup, setupEnd, intrIn>> /\ waiting /\ acked # ThisSetup
        /\ ~Pending0 /\ waiting' = FALSE
    BY <1>12 DEF RetryEnumeration, hwVars, Pending0
  <2>2. UNCHANGED <<cur, pc, lIn>>
    BY <1>12, DeviceKept
  <2>3. ThisSetup' = ThisSetup /\ (Pending0' <=> Pending0)
    BY <2>1, <2>2 DEF ThisSetup, Stage, Pending0
  <2> QED
    BY <2>1, <2>2, <2>3 DEF Enumerated
<1>13. CASE BusReset
  <2>1. setup' = NoSetup /\ todo' = Enumeration /\ acked' = NoSetup
    BY <1>13 DEF BusReset
  <2> QED
    BY <1>0, <2>1, Enumerations DEF Enumerated
<1> QED
  BY <1>1, <1>2, <1>3, <1>4, <1>5, <1>6, <1>7, <1>8, <1>9, <1>10, <1>11, <1>12, <1>13
     DEF Next, udc4740Proc, Host

\* Nothing of an exchange survives a bus reset.
LEMMA QuietOnResetNext ==
  ASSUME IndInv, AnsweredOnEP0, Resetting, Enumerated, QuietOnReset, Next
  PROVE  QuietOnReset'
<1>1. CASE ReadIntrUsb \/ ReadIntrIn \/ ReadIntrOut \/ PollTail
  BY <1>1, PollKept DEF QuietOnReset
<1>2. CASE EPIN_Handler
  BY <1>2, EPIN_HandlerKept DEF QuietOnReset
<1>3. CASE EPOUT_Handler
  <2>1. <<>> \o <<>> = <<>>
    OBVIOUS
  <2> QED
    BY <1>3, <2>1, EPOUT_HandlerKept DEF QuietOnReset
<1>4. CASE udc_reset
  <2>1. CASE lUsb
    BY <1>4, <2>1, udc_resetKept DEF QuietOnReset
  <2>2. CASE ~lUsb
    BY <1>4, <2>2, udc_resetKept DEF QuietOnReset
  <2> QED
    BY <2>1, <2>2
<1>5. CASE EP0_Setup
  <2>1. /\ UNCHANGED <<op, dirty, inFifo, outFifo, out_buf, udc_state, Bulk_in_size, Bulk_in_finish>>
        /\ ep0state' = "IDLE"
    BY <1>5, EP0_SetupKept
  <2>2. pc' = "request" => cur' = setup /\ setup # NoSetup
    BY <1>5, EP0_SetupKept
  <2> QED
    BY <2>1, <2>2 DEF QuietOnReset, Enumerated
<1>6. CASE usbHandleDevReq
  <2> SUFFICES ASSUME op' = "none", ~dirty' PROVE QuietOnReset'
    BY DEF QuietOnReset
  <2>1. op = "none" /\ ~dirty /\ pc = "request"
    BY <1>6, RequestKept
  <2>2. cur.stage \in {"descriptor", "set_address"}
    BY <2>1 DEF QuietOnReset
  <2>3. /\ UNCHANGED <<inFifo, outFifo, out_buf, udc_state, Bulk_in_size, Bulk_in_finish>>
        /\ pc' = "tx" /\ cur' = cur /\ (ep0state' = "TX" => cur.stage = "descriptor")
    BY <1>6, <2>2, RequestKept
  <2> QED
    BY <2>1, <2>3 DEF QuietOnReset
<1>7. CASE EP0_Tx
  BY <1>7, EP0_TxKept DEF QuietOnReset
<1>8. CASE StartExchange \/ Timeout
  <2>1. op' # "none"
    <3>1. CASE StartExchange
      <4>1. op' \in AllOps
        BY <3>1, OpsAssumption DEF StartExchange
      <4> QED
        BY <4>1 DEF AllOps
    <3>2. CASE Timeout
      BY <3>2 DEF Timeout
    <3> QED
      BY <1>8, <3>1, <3>2
  <2> QED
    BY <2>1 DEF QuietOnReset
<1>9. CASE SendBulk \/ ReadBulk
  <2>1. op' = op /\ Stage \in {"out", "data", "hs"}
    BY <1>9 DEF SendBulk, ReadBulk
  <2> QED
    BY <2>1, EnumerationStage DEF QuietOnReset
<1>10. CASE SendSetup \/ EndOldSetup \/ ControlDone \/ RetryEnumeration
  <2>1. UNCHANGED <<op, dirty, inFifo, outFifo>>
    BY <1>10, ControlKept
  <2>2. UNCHANGED <<pc, cur, ep0state, out_buf, udc_state, Bulk_in_size, Bulk_in_finish>>
    BY <1>10, DeviceKept DEF Host
  <2> QED
    BY <2>1, <2>2 DEF QuietOnReset
<1>11. CASE BusReset
  BY <1>11 DEF BusReset, QuietOnReset
<1> QED
  BY <1>1, <1>2, <1>3, <1>4, <1>5, <1>6, <1>7, <1>8, <1>9, <1>10, <1>11
     DEF Next, udc4740Proc, Host

-----------------------------------------------------------------------------
(* Where an operation is served.                                           *)

\* Without a timeout since the last reset, the operation the firmware executes
\* is the host's current one and runs for the first time.
LEMMA OperationInStep ==
  ASSUME QuietOnReset, InService, ~dirty, pc = "request", cur.stage \notin {"descriptor", "set_address"}
  PROVE  op # "none" /\ cur = SetupOf(cur.stage) /\ ran.req # req /\ InStep
<1>1. op # "none"
  BY DEF QuietOnReset
<1>2. InStep
  BY <1>1 DEF InStep
<1> QED
  BY <1>1, <1>2 DEF InService

LEMMA OperationReady ==
  ASSUME QuietOnReset, InService, Preparing, ~dirty, pc = "request", cur.stage = "op"
  PROVE  /\ InStep /\ ran.req # req /\ cur = SetupOf("op")
         /\ inFifo = NoPkt /\ "EP1" \notin intrIn /\ outFifo = <<>>
         /\ Serving("op") /\ Acked("op")
<1>1. InStep /\ ran.req # req /\ cur = SetupOf("op")
  BY OperationInStep
<1>2. Serving("op")
  BY <1>1 DEF Serving
<1> QED
  BY <1>1, <1>2 DEF Preparing

\* What the controller holds after a packet was written into an empty FIFO.
LEMMA WriteEmptyFifo ==
  ASSUME NEW p, WriteFifo(p), inFifo = NoPkt
  PROVE  inFifo' = p /\ (overrun' <=> overrun)
  BY DEF WriteFifo

\* An operation writes one packet.
LEMMA OperationWrites ==
  ASSUME usbHandleDevReq, cur.stage = "op"
  PROVE  \E p : WriteFifo(p)
<1>1. CASE PositionOps
  BY <1>1, Zenon DEF PositionOps, SendHandshake
<1>2. CASE NAND_READ_TO_RAM
  BY <1>2, Zenon DEF NAND_READ_TO_RAM, SendHandshake
<1>3. CASE NAND_READ
  BY <1>3, Zenon DEF NAND_READ, SendData
<1>4. CASE NAND_READ_RAW
  BY <1>4, Zenon DEF NAND_READ_RAW, SendData
<1>5. CASE NAND_QUERY
  BY <1>5, Zenon DEF NAND_QUERY, SendData
<1>6. CASE CONFIGRATION_Handle
  BY <1>6, Zenon DEF CONFIGRATION_Handle, SendHandshake
<1>7. CASE GET_CPU_INFO_Handle \/ usbHandleStandDevReq \/ SetParameter
  BY <1>7 DEF GET_CPU_INFO_Handle, usbHandleStandDevReq, SetParameter, Requested
<1> QED
  BY <1>1, <1>2, <1>3, <1>4, <1>5, <1>6, <1>7 DEF usbHandleDevReq

\* So does EPIN_Handler, when there is something to send.
LEMMA EPIN_HandlerWrites ==
  ASSUME EPIN_Handler, "EP1" \in lIn
  PROVE  (\E p : WriteFifo(p)) \/ UNCHANGED <<inFifo, overrun>>
<1>1. CASE Bulk_in_size = Bulk_in_finish /\ udc_state # "IDLE"
  BY <1>1, Zenon DEF EPIN_Handler, Handshake_PKT, SendHandshake
<1>2. CASE Bulk_in_size = Bulk_in_finish /\ udc_state = "IDLE"
  BY <1>2, EPIN_HandlerKept
<1>3. CASE Bulk_in_size # Bulk_in_finish
  BY <1>3, Zenon DEF EPIN_Handler, NextPacket
<1> QED
  BY <1>1, <1>2, <1>3

-----------------------------------------------------------------------------
(* The interrupts of EP1.                                                  *)

LEMMA InterruptsNext ==
  ASSUME IndInv, QuietOnReset, Interrupts, InService, Preparing, Next
  PROVE  Interrupts'
<1>1. CASE ReadIntrUsb \/ ReadIntrIn \/ ReadIntrOut \/ PollTail
  <2>1. UNCHANGED <<outFifo, inFifo, dirty>>
    BY <1>1, PollKept
  <2>2. CASE ReadIntrUsb
    BY <2>1, <2>2 DEF ReadIntrUsb, At, Interrupts, Pending1
  <2>3. CASE ReadIntrIn
    BY <2>1, <2>3 DEF ReadIntrIn, At, Interrupts, Pending1
  <2>4. CASE ReadIntrOut
    BY <2>1, <2>4 DEF ReadIntrOut, At, Interrupts, Pending1
  <2>5. CASE PollTail
    BY <2>1, <2>5 DEF PollTail, At, Interrupts, Pending1
  <2> QED
    BY <1>1, <2>2, <2>3, <2>4, <2>5
<1>2. CASE EPIN_Handler
  <2>1. /\ UNCHANGED <<outFifo, intrOut, lOut, intrIn, lIn, dirty>> /\ pc = "epin" /\ pc' = "epout"
        /\ "EP1" \notin lIn => inFifo' = inFifo
    BY <1>2, EPIN_HandlerKept
  <2> QED
    BY <2>1 DEF Interrupts, Pending1
<1>3. CASE EPOUT_Handler
  BY <1>3, EPOUT_HandlerKept DEF Interrupts, Pending1
<1>4. CASE udc_reset
  <2>1. CASE lUsb
    BY <1>4, <2>1, udc_resetKept DEF Interrupts
  <2>2. CASE ~lUsb
    BY <1>4, <2>2, udc_resetKept DEF Interrupts, Pending1
  <2> QED
    BY <2>1, <2>2
<1>5. CASE EP0_Setup
  <2>1. /\ UNCHANGED <<outFifo, inFifo, intrOut, lOut, intrIn, lIn, dirty>> /\ pc = "ep0"
        /\ pc' \in {"tail", "tx", "request"}
    BY <1>5, EP0_SetupKept
  <2> QED
    BY <2>1 DEF Interrupts, Pending1
<1>6. CASE usbHandleDevReq
  <2>1. /\ UNCHANGED <<outFifo, intrOut, lOut, intrIn, lIn, dirty>> /\ pc = "request" /\ pc' = "tx"
        /\ cur.stage # "op" => inFifo' = inFifo
    BY <1>6, RequestKept
  <2>2. ~dirty /\ cur.stage = "op" => "EP1" \notin intrIn
    BY <2>1, OperationReady
  <2> QED
    BY <2>1, <2>2 DEF Interrupts, Pending1
<1>7. CASE EP0_Tx
  <2>1. /\ UNCHANGED <<outFifo, inFifo, intrOut, lOut, intrIn, lIn, dirty>> /\ pc = "tx" /\ pc' = "tail"
    BY <1>7, EP0_TxKept
  <2> QED
    BY <2>1 DEF Interrupts, Pending1
<1>8. CASE StartExchange \/ Timeout
  <2>1. /\ UNCHANGED <<outFifo, inFifo, intrOut, intrIn>> /\ (dirty' = dirty \/ dirty')
    BY <1>8 DEF StartExchange, Timeout, hwVars
  <2>2. UNCHANGED <<pc, lOut, lIn>>
    BY <1>8, DeviceKept DEF Host
  <2> QED
    BY <2>1, <2>2 DEF Interrupts, Pending1
<1>9. CASE SendBulk
  <2>1. UNCHANGED <<inFifo, intrIn, dirty>> /\ intrOut'
    BY <1>9 DEF SendBulk
  <2>2. UNCHANGED <<pc, lOut, lIn>>
    BY <1>9, DeviceKept DEF Host
  <2> QED
    BY <2>1, <2>2 DEF Interrupts, Pending1
<1>10. CASE ReadBulk
  <2>1. UNCHANGED <<outFifo, intrOut, dirty>> /\ inFifo # NoPkt /\ inFifo' = NoPkt
    BY <1>10 DEF ReadBulk
  <2>2. UNCHANGED <<pc, lOut, lIn>>
    BY <1>10, DeviceKept DEF Host
  <2> QED
    BY <2>1, <2>2 DEF Interrupts, Pending1
<1>11. CASE SendSetup \/ EndOldSetup \/ ControlDone \/ RetryEnumeration
  <2>1. UNCHANGED <<outFifo, inFifo, intrOut, dirty>> /\ ("EP1" \in intrIn' <=> "EP1" \in intrIn)
    BY <1>11, ControlKept
  <2>2. UNCHANGED <<pc, lOut, lIn>>
    BY <1>11, DeviceKept DEF Host
  <2> QED
    BY <2>1, <2>2 DEF Interrupts, Pending1
<1>12. CASE BusReset
  BY <1>12 DEF BusReset, Interrupts
<1> QED
  BY <1>1, <1>2, <1>3, <1>4, <1>5, <1>6, <1>7, <1>8, <1>9, <1>10, <1>11, <1>12
     DEF Next, udc4740Proc, Host

\* A packet is written only after the interrupt that says the last one was read,
\* or by an operation, which finds the FIFO empty.
LEMMA NoFifoOverrunNext ==
  ASSUME IndInv, QuietOnReset, Interrupts, NoFifoOverrun, InService, Preparing, Next
  PROVE  NoFifoOverrun'
<1>1. CASE ReadIntrUsb \/ ReadIntrIn \/ ReadIntrOut \/ PollTail
  BY <1>1, PollKept DEF NoFifoOverrun
<1>2. CASE EPIN_Handler
  <2> SUFFICES ASSUME ~dirty' PROVE ~overrun'
    BY DEF NoFifoOverrun
  <2>1. ~dirty /\ pc = "epin" /\ ~overrun
    BY <1>2, EPIN_HandlerKept DEF NoFifoOverrun
  <2>2. CASE "EP1" \in lIn
    <3>1. inFifo = NoPkt
      BY <2>1, <2>2 DEF Interrupts, Pending1
    <3> QED
      BY <1>2, <2>1, <2>2, <3>1, EPIN_HandlerWrites, WriteEmptyFifo
  <2>3. CASE "EP1" \notin lIn
    BY <1>2, <2>1, <2>3, EPIN_HandlerKept
  <2> QED
    BY <2>2, <2>3
<1>3. CASE EPOUT_Handler \/ EP0_Setup \/ EP0_Tx
  BY <1>3, EPOUT_HandlerKept, EP0_SetupKept, EP0_TxKept DEF NoFifoOverrun
<1>4. CASE udc_reset
  <2>1. CASE lUsb
    BY <1>4, <2>1, udc_resetKept DEF NoFifoOverrun
  <2>2. CASE ~lUsb
    BY <1>4, <2>2, udc_resetKept DEF NoFifoOverrun
  <2> QED
    BY <2>1, <2>2
<1>5. CASE usbHandleDevReq
  <2> SUFFICES ASSUME ~dirty' PROVE ~overrun'
    BY DEF NoFifoOverrun
  <2>1. ~dirty /\ pc = "request" /\ ~overrun /\ (cur.stage # "op" => overrun' = overrun)
    BY <1>5, RequestKept DEF NoFifoOverrun
  <2>2. CASE cur.stage = "op"
    <3>1. inFifo = NoPkt
      BY <2>1, <2>2, OperationReady
    <3> QED
      BY <1>5, <2>1, <2>2, <3>1, OperationWrites, WriteEmptyFifo
  <2> QED
    BY <2>1, <2>2
<1>6. CASE Host \/ Timeout \/ BusReset \/ RetryEnumeration
  <2>1. overrun' = overrun
    BY <1>6, DeviceKept
  <2>2. dirty' = dirty \/ dirty' = TRUE
    <3>1. CASE StartExchange \/ SendBulk \/ ReadBulk
      BY <3>1 DEF StartExchange, SendBulk, ReadBulk
    <3>2. CASE SendSetup \/ EndOldSetup \/ ControlDone \/ RetryEnumeration
      BY <3>2, ControlKept
    <3>3. CASE Timeout \/ BusReset
      BY <3>3 DEF Timeout, BusReset
    <3> QED
      BY <1>6, <3>1, <3>2, <3>3 DEF Host
  <2> QED
    BY <2>1, <2>2 DEF NoFifoOverrun
<1> QED
  BY <1>1, <1>2, <1>3, <1>4, <1>5, <1>6 DEF Next, udc4740Proc

-----------------------------------------------------------------------------
(* The exchange under way.                                                 *)

LEMMA PlanEmpty ==
  ASSUME NEW o \in AllOps
  PROVE  <<>> \in Plans(o)
<1> DEFINE s == Script(o, TRUE)
<1>1. s \in Seq(StageSet)
  BY ScriptIs
<1> HIDE DEF s
<1>2. Len(s) \in Nat /\ Len(s) + 1 \in 1..(Len(s) + 1)
  BY <1>1, LenProperties
<1>3. SubSeq(s, Len(s) + 1, Len(s)) = <<>>
  BY <1>1, <1>2, Suffix
<1> QED
  BY <1>2, <1>3, Zenon DEF Plans, s

\* The operations are those of the host.
LEMMA OpKnown ==
  ASSUME IndInv, op # "none"
  PROVE  op \in AllOps
  BY DEF IndInv, TypeOK, HostTypeOK

\* The stages of an exchange, and the stage after the current one.
LEMMA ExchangeStage ==
  ASSUME IndInv, Numbered, op # "none"
  PROVE  /\ Stage \in {"idle", "cpuinfo"} \/ Has(op, Stage)
         /\ Stage \in {"idle", "cpuinfo"} \cup BodyStages
         /\ todo = <<>> <=> Stage = "idle"
         /\ Has(op, "op") /\ Has(op, "hs") /\ \A st : Has(op, st) => st \in BodyStages
<1>1. op \in AllOps /\ todo \in Plans(op)
  BY OpKnown DEF Numbered
<1>2. /\ First(todo) \in {"idle", "cpuinfo"} \/ Has(op, First(todo))
      /\ First(todo) \in {"idle", "cpuinfo"} \cup BodyStages
      /\ todo = <<>> <=> First(todo) = "idle"
  BY <1>1, PlanStage
<1>3. Has(op, "op") /\ Has(op, "hs") /\ \A st : Has(op, st) => st \in BodyStages
  BY <1>1, ScriptsOrderly DEF Orderly
<1> QED
  BY <1>2, <1>3, StageIs

LEMMA ExchangeStep ==
  ASSUME IndInv, Numbered, op # "none", todo # <<>>, todo' = Tail(todo), op' = op
  PROVE  /\ todo' \in Plans(op')
         /\ Rank[Stage] < Rank[Stage']
         /\ \A st : Has(op, st) => Rank[st] <= Rank[Stage] \/ Rank[Stage'] <= Rank[st]
         /\ Stage = "op" => Stage' = IF Has(op, "data") THEN "data" ELSE "hs"
         /\ Stage = "data" => Stage' = "hs"
         /\ Stage = "hs" => Stage' = "idle"
<1>1. op \in AllOps /\ todo \in Plans(op)
  BY OpKnown DEF Numbered
<1>2. Stage = Head(todo) /\ Stage' = First(Tail(todo))
  BY StageIs DEF Stage
<1> QED
  BY <1>1, <1>2, PlanStep

LEMMA NumberedNext ==
  ASSUME IndInv, Numbered, Next
  PROVE  Numbered'
<1>0. NoSetup.req = 0 /\ req \in Nat
  BY DEF NoSetup, IndInv, TypeOK, HostTypeOK, BoundAssumption
<1>1. CASE udc4740Proc
  <2>1. UNCHANGED <<req, op, n, todo>>
    BY <1>1, PollKept, EPIN_HandlerKept, EPOUT_HandlerKept, udc_resetKept, EP0_SetupKept, EP0_TxKept,
       RequestKept DEF udc4740Proc
  <2>2. setup' = setup \/ setup' = NoSetup
    BY <1>1, PollKept, EPIN_HandlerKept, EPOUT_HandlerKept, udc_resetKept, EP0_SetupKept, EP0_TxKept,
       RequestKept DEF udc4740Proc
  <2>3. cur' = cur \/ cur' = setup
    BY <1>1, PollKept, EPIN_HandlerKept, EPOUT_HandlerKept, udc_resetKept, EP0_SetupKept, EP0_TxKept,
       RequestKept DEF udc4740Proc
  <2>4. ran' = ran \/ ran'.req = cur.req
    <3>1. CASE usbHandleDevReq
      <4>1. CASE cur.stage = "op"
        <5>1. \E ops : Operation(ops)
          BY <3>1, <4>1, Zenon DEF usbHandleDevReq, PositionOps, NAND_READ_TO_RAM, NAND_READ,
             NAND_READ_RAW, NAND_QUERY, CONFIGRATION_Handle, GET_CPU_INFO_Handle,
             usbHandleStandDevReq, SetParameter, Requested
        <5> QED
          BY <5>1 DEF Operation
      <4> QED
        BY <3>1, <4>1, RequestKept
    <3>2. CASE ~usbHandleDevReq
      BY <1>1, <3>2, PollKept, EPIN_HandlerKept, EPOUT_HandlerKept, udc_resetKept, EP0_SetupKept,
         EP0_TxKept DEF udc4740Proc
    <3> QED
      BY <3>1, <3>2
  <2>5. ran'.req <= req /\ cur'.req <= req /\ setup'.req <= req
    BY <1>0, <2>2, <2>3, <2>4 DEF Numbered
  <2> QED
    BY <2>1, <2>5 DEF Numbered
<1>2. CASE Host \/ Timeout \/ BusReset \/ RetryEnumeration
  <2>1. UNCHANGED <<ran, cur>>
    BY <1>2, DeviceKept
  <2>2. ran.req \in Nat /\ cur.req \in Nat /\ setup.req \in Nat
    BY DEF IndInv, TypeOK, GhostTypeOK, PollTypeOK, HwTypeOK, Setups
  <2>3. CASE StartExchange
    <3>1. PICK o \in Ops, len \in Lens, probe \in BOOLEAN :
            op' = o /\ n' = (IF o = "query" THEN HsLen ELSE len) /\ todo' = Script(o, probe)
      BY <2>3 DEF StartExchange
    <3>2. o \in AllOps /\ len \in Nat /\ len > 0
      BY OpsAssumption, LensAssumption
    <3>3. todo' \in Plans(op')
      BY <3>1, <3>2, PlanStart
    <3>4. n' > 0 /\ (op' = "query" => n' = HsLen)
      BY <3>1, <3>2 DEF HsLen
    <3>5. req' = req + 1 /\ setup' = setup
      BY <2>3 DEF StartExchange, hwVars
    <3>6. ran'.req <= req' /\ cur'.req <= req' /\ setup'.req <= req'
      BY <1>0, <2>1, <2>2, <3>5 DEF Numbered
    <3> QED
      BY <3>3, <3>4, <3>6 DEF Numbered
  <2>4. CASE BusReset
    BY <1>0, <2>1, <2>4 DEF BusReset, Numbered
  <2>5. CASE SendBulk \/ SendSetup \/ EndOldSetup \/ ControlDone \/ ReadBulk \/ Timeout \/ RetryEnumeration
    <3>1. UNCHANGED <<req, op, n>>
      BY <2>5, ControlKept DEF SendBulk, ReadBulk, Timeout
    <3>2. setup'.req <= req
      <4>1. CASE SendSetup
        BY <1>0, <4>1 DEF SendSetup, ThisSetup
      <4>2. CASE EndOldSetup
        BY <1>0, <4>2 DEF EndOldSetup
      <4>3. CASE SendBulk \/ ReadBulk \/ ControlDone
        BY <4>3 DEF SendBulk, ReadBulk, ControlDone, Numbered
      <4>4. CASE Timeout \/ RetryEnumeration
        BY <4>4 DEF Timeout, RetryEnumeration, hwVars, Numbered
      <4> QED
        BY <2>5, <4>1, <4>2, <4>3, <4>4
    <3>3. ASSUME op # "none" PROVE todo' \in Plans(op)
      <4>1. todo' = todo \/ todo' = <<>> \/ (todo # <<>> /\ todo' = Tail(todo))
        <5>1. CASE SendBulk \/ ReadBulk
          <6>1. Stage # "idle" /\ todo' \in {todo, Tail(todo)}
            BY <5>1 DEF SendBulk, ReadBulk
          <6> QED
            BY <6>1 DEF Stage
        <5>2. CASE ControlDone
          <6>1. acked = ThisSetup /\ todo' = Tail(todo) /\ acked \in Setups
            BY <5>2 DEF ControlDone, IndInv, TypeOK, HostTypeOK
          <6>2. Stage # "idle"
            BY <6>1 DEF ThisSetup, Setups, Control
          <6> QED
            BY <6>1, <6>2 DEF Stage
        <5>3. CASE (SendSetup \/ EndOldSetup \/ RetryEnumeration) /\ ~ControlDone
          BY <5>3, ControlKept
        <5>4. CASE Timeout
          BY <5>4 DEF Timeout
        <5> QED
          BY <2>5, <5>1, <5>2, <5>3, <5>4
      <4>2. op \in AllOps /\ todo \in Plans(op)
        BY <3>3, OpKnown DEF Numbered
      <4> QED
        BY <4>1, <4>2, PlanEmpty, PlanStep
    <3> QED
      BY <2>1, <3>1, <3>2, <3>3 DEF Numbered
  <2> QED
    BY <1>2, <2>3, <2>4, <2>5 DEF Host
<1> QED
  BY <1>1, <1>2 DEF Next

\* An exchange is in step only if it was, or is just starting.
LEMMA InStepBefore ==
  ASSUME IndInv, Resetting, Next, ~StartExchange, InStep'
  PROVE  InStep /\ UNCHANGED <<req, op, n>> /\ ~Timeout /\ ~BusReset
<1>1. CASE udc4740Proc
  <2>1. UNCHANGED <<req, op, n>>
    BY <1>1, PollKept, EPIN_HandlerKept, EPOUT_HandlerKept, udc_resetKept, EP0_SetupKept, EP0_TxKept,
       RequestKept DEF udc4740Proc
  <2>2. CASE udc_reset
    <3>1. lUsb => op = "none"
      BY <2>2, udc_resetKept DEF Resetting, ResetAhead
    <3> QED
      BY <2>1, <2>2, <3>1, udc_resetKept DEF InStep, Timeout, BusReset
  <2>3. CASE ~udc_reset
    <3>1. dirty' = dirty
      BY <1>1, <2>3, PollKept, EPIN_HandlerKept, EPOUT_HandlerKept, EP0_SetupKept, EP0_TxKept,
         RequestKept DEF udc4740Proc
    <3> QED
      BY <2>1, <3>1 DEF InStep, Timeout, BusReset
  <2> QED
    BY <2>2, <2>3
<1>2. CASE Timeout \/ BusReset
  BY <1>2 DEF Timeout, BusReset, InStep
<1>3. CASE SendBulk \/ ReadBulk
  BY <1>3 DEF SendBulk, ReadBulk, InStep, Timeout, BusReset
<1>4. CASE SendSetup \/ EndOldSetup \/ ControlDone \/ RetryEnumeration
  BY <1>4, ControlKept DEF InStep, Timeout, BusReset
<1> QED
  BY <1>1, <1>2, <1>3, <1>4 DEF Next, Host

\* The firmware's copy of a SETUP packet and the host's are the same.
LEMMA SetupIs ==
  ASSUME Stage # "descriptor"
  PROVE  ThisSetup = SetupOf(Stage)
  BY DEF ThisSetup, SetupOf

LEMMA SetupOfStage ==
  ASSUME NEW st
  PROVE  SetupOf(st).stage = st /\ SetupOf(st).req = req /\ SetupOf(st).op = op /\ SetupOf(st).n = n
  BY DEF SetupOf

\* The control transfers of an exchange.
LEMMA ControlStage ==
  ASSUME IndInv, Numbered, op # "none", Stage \in Control
  PROVE  /\ Stage \in {"cpuinfo", "addr", "len", "ram", "op"} /\ ThisSetup = SetupOf(Stage)
         /\ Rank[Stage] <= Rank["op"] /\ SetupOf(Stage) # NoSetup
<1>1. Stage \in {"cpuinfo", "addr", "len", "ram", "op"}
  BY ExchangeStage DEF Control, BodyStages
<1>2. SetupOf(Stage) # NoSetup
  BY <1>1, SetupOfStage DEF NoSetup
<1> QED
  BY <1>1, <1>2, SetupIs, Ranks

\* When the host starts an exchange nothing of the last one is left, unless one
\* was cut short.
LEMMA StartClean ==
  ASSUME IndInv, ExchangeInv, todo = <<>>, ~dirty
  PROVE  /\ ~setupEnd /\ ~waiting /\ setup = NoSetup /\ acked = NoSetup
         /\ inFifo = NoPkt /\ outFifo = <<>> /\ out_buf = <<>> /\ udc_state = "IDLE"
         /\ Bulk_in_finish = Bulk_in_size
         /\ pc = "request" => cur.stage = "set_address"
         /\ ~(pc = "tx" /\ ep0state = "TX")
<1>1. CASE op = "none"
  <2>1. ~setupEnd /\ ~waiting /\ setup = NoSetup /\ acked = NoSetup /\ cur.stage # "descriptor"
    BY <1>1 DEF ExchangeInv, Enumerated
  <2> QED
    BY <1>1, <2>1 DEF ExchangeInv, QuietOnReset
<1>2. CASE op # "none"
  <2>0. InStep /\ Numbered
    BY <1>2 DEF InStep, ExchangeInv
  <2>1. Stage = "idle" /\ Has(op, "op")
    BY <1>2, <2>0, ExchangeStage
  <2>2. "idle" \notin Control
    BY DEF Control
  <2>3. ~setupEnd /\ ~waiting /\ setup = NoSetup /\ acked = NoSetup
    BY <2>0, <2>1, <2>2 DEF ExchangeInv, InTransfer
  <2>4. ran.req = req
    BY <2>0, <2>1, Ranks DEF ExchangeInv, Preparing
  <2>5. udc_state = "IDLE"
    <3>1. ASSUME udc_state = "BULK_IN" PROVE FALSE
      BY <2>0, <2>1, <2>4, <3>1 DEF ExchangeInv, SendingData
    <3> QED
      BY <3>1 DEF IndInv, TypeOK, BulkTypeOK
  <2>6. inFifo = NoPkt /\ Bulk_in_finish = Bulk_in_size
    BY <2>0, <2>1, <2>4, <2>5 DEF ExchangeInv, SendingHandshake
  <2>7. outFifo = <<>> /\ out_buf = <<>>
    BY <2>0, <2>4 DEF ExchangeInv, Answering
  <2>8. pc = "request" => cur.stage = "set_address"
    BY <2>0, <2>4 DEF ExchangeInv, InService
  <2>9. ~(pc = "tx" /\ ep0state = "TX")
    BY <2>0, <2>1 DEF ExchangeInv, InService
  <2> QED
    BY <2>3, <2>5, <2>6, <2>7, <2>8, <2>9
<1> QED
  BY <1>1, <1>2

LEMMA InTransferNext ==
  ASSUME IndInv, ExchangeInv, Next
  PROVE  InTransfer'
<1> SUFFICES ASSUME InStep' PROVE InTransfer'
  BY DEF InTransfer
<1>1. CASE StartExchange
  <2>1. todo = <<>> /\ UNCHANGED <<setup, setupEnd, waiting, acked, dirty>>
    BY <1>1 DEF StartExchange, hwVars
  <2>2. ~setupEnd /\ ~waiting /\ setup = NoSetup /\ acked = NoSetup
    BY <2>1, StartClean DEF InStep
  <2> QED
    BY <2>1, <2>2 DEF InTransfer
<1>2. CASE ~StartExchange
  <2>0. InStep /\ UNCHANGED <<req, op, n>> /\ ~Timeout /\ ~BusReset /\ op # "none" /\ InTransfer
    BY <1>2, InStepBefore DEF ExchangeInv, InStep
  <2>00. \A st : SetupOf(st)' = SetupOf(st)
    BY <2>0 DEF SetupOf
  <2>1. CASE ReadIntrUsb \/ ReadIntrIn \/ ReadIntrOut \/ PollTail
    <3>1. UNCHANGED <<todo, waiting, setup, setupEnd, acked>>
      BY <2>1, PollKept
    <3>2. Stage' = Stage
      BY <3>1 DEF Stage
    <3>3. setup # NoSetup =>
            /\ pc' \in {"epin", "epout", "reset", "ep0"} => ~intrOut'
            /\ pc' \in {"out", "epin", "epout", "reset", "ep0"} => "EP1" \notin intrIn'
      <4>1. CASE ReadIntrUsb
        BY <4>1 DEF ReadIntrUsb, At
      <4>2. CASE ReadIntrIn
        BY <4>2 DEF ReadIntrIn, At
      <4>3. CASE ReadIntrOut
        BY <2>0, <4>3 DEF ReadIntrOut, At, InTransfer
      <4>4. CASE PollTail
        BY <4>4 DEF PollTail, At
      <4> QED
        BY <2>1, <4>1, <4>2, <4>3, <4>4
    <3> QED
      BY <2>0, <2>00, <3>1, <3>2, <3>3 DEF InTransfer
  <2>2. CASE EPIN_Handler \/ EPOUT_Handler
    <3>1. /\ UNCHANGED <<todo, waiting, setup, setupEnd, acked, intrOut, intrIn>>
          /\ pc \in {"epin", "epout"}
      BY <2>2, EPIN_HandlerKept, EPOUT_HandlerKept
    <3>2. Stage' = Stage
      BY <3>1 DEF Stage
    <3> QED
      BY <2>0, <2>00, <3>1, <3>2 DEF InTransfer
  <2>3. CASE udc_reset
    <3>1. /\ UNCHANGED <<todo, waiting, acked, intrOut, intrIn>> /\ pc = "reset"
          /\ (setup' = NoSetup /\ ~setupEnd') \/ UNCHANGED <<setup, setupEnd>>
      BY <2>3, udc_resetKept
    <3>2. Stage' = Stage
      BY <3>1 DEF Stage
    <3> QED
      BY <2>0, <2>00, <3>1, <3>2 DEF InTransfer
  <2>4. CASE EP0_Setup
    <3>1. UNCHANGED <<todo, waiting>> /\ pc = "ep0" /\ pc' \in {"tail", "tx", "request"}
      BY <2>4, EP0_SetupKept
    <3>2. Stage' = Stage
      BY <3>1 DEF Stage
    <3>3. CASE pc' \in {"tail", "tx"} /\ UNCHANGED <<setup, cur, acked>> /\ (setupEnd' = setupEnd \/ setupEnd' = FALSE)
      BY <2>0, <2>00, <3>1, <3>2, <3>3 DEF InTransfer
    <3>4. CASE /\ pc' = "request" /\ setup # NoSetup /\ "EP0" \in lIn /\ ~setupEnd /\ setupEnd' = setupEnd
               /\ cur' = setup /\ setup' = NoSetup
               /\ acked' = (IF setup.stage \in {"cpuinfo", "descriptor"} THEN acked ELSE setup)
      BY <2>0, <2>00, <3>1, <3>2, <3>4 DEF InTransfer
    <3> QED
      BY <2>4, <3>3, <3>4, EP0_SetupKept
  <2>5. CASE usbHandleDevReq
    <3>1. UNCHANGED <<todo, waiting, setup, setupEnd, acked, intrOut, intrIn>> /\ pc' = "tx"
      BY <2>5, RequestKept
    <3>2. Stage' = Stage
      BY <3>1 DEF Stage
    <3> QED
      BY <2>0, <2>00, <3>1, <3>2 DEF InTransfer
  <2>6. CASE EP0_Tx
    <3>1. /\ UNCHANGED <<todo, waiting, setup, setupEnd>> /\ pc' = "tail" /\ pc = "tx"
          /\ acked' = acked \/ (ep0state = "TX" /\ acked' = cur)
      BY <2>6, EP0_TxKept
    <3>2. Stage' = Stage
      BY <3>1 DEF Stage
    <3>3. ep0state = "TX" => cur = SetupOf("cpuinfo") /\ Stage = "cpuinfo" /\ waiting /\ setup = NoSetup
      BY <2>0, <3>1 DEF ExchangeInv, InService
    <3> QED
      BY <2>0, <2>00, <3>1, <3>2, <3>3 DEF InTransfer
  <2>7. CASE SendBulk \/ ReadBulk
    <3>1. UNCHANGED <<waiting, setup, setupEnd, acked>> /\ Stage \in {"out", "data", "hs"}
      BY <2>7 DEF SendBulk, ReadBulk
    <3>2. ~waiting
      BY <2>0, <3>1 DEF InTransfer, Control
    <3> QED
      BY <2>0, <3>1, <3>2 DEF InTransfer
  <2>8. CASE SendSetup
    <3>1. /\ UNCHANGED <<todo, setupEnd, acked, intrOut>> /\ ~waiting /\ setup = NoSetup /\ TransfersApart
          /\ setup' = ThisSetup /\ waiting' = TRUE /\ intrIn' = intrIn \cup {"EP0"} /\ Stage \in Control
      BY <2>8 DEF SendSetup
    <3>2. pc' = pc
      BY <2>8, DeviceKept DEF Host
    <3>3. Stage' = Stage
      BY <3>1 DEF Stage
    <3>4. setup' = SetupOf(Stage)
      BY <2>0, <3>1, ControlStage DEF ExchangeInv
    <3>5. acked = NoSetup
      BY <2>0, <3>1 DEF InTransfer
    <3>6. /\ pc' \in {"epin", "epout", "reset", "ep0"} => ~intrOut'
          /\ pc' \in {"out", "epin", "epout", "reset", "ep0"} => "EP1" \notin intrIn'
      BY <3>1, <3>2 DEF TransfersApart
    <3> QED
      BY <2>0, <2>00, <3>1, <3>3, <3>4, <3>5, <3>6 DEF InTransfer
  <2>9. CASE EndOldSetup
    BY <2>0, <2>9 DEF EndOldSetup, InTransfer
  <2>10. CASE ControlDone
    <3>1. /\ UNCHANGED <<setup, setupEnd>> /\ waiting /\ acked = ThisSetup /\ waiting' = FALSE
          /\ acked' = NoSetup
      BY <2>10 DEF ControlDone
    <3>2. acked # NoSetup
      BY <2>0, <3>1, ControlStage DEF InTransfer, ExchangeInv
    <3> QED
      BY <2>0, <3>1, <3>2 DEF InTransfer
  <2>11. CASE RetryEnumeration
    <3>1. Stage \in {"descriptor", "set_address"}
      BY <2>11 DEF RetryEnumeration
    <3> QED
      BY <2>0, <3>1, ExchangeStage DEF BodyStages, ExchangeInv
  <2> QED
    BY <1>2, <2>0, <2>1, <2>2, <2>3, <2>4, <2>5, <2>6, <2>7, <2>8, <2>9, <2>10, <2>11
       DEF Next, udc4740Proc, Host
<1> QED
  BY <1>1, <1>2

\* The SETUP packet of an exchange in step belongs to an operation that has not
\* run yet.
LEMMA SetupBeforeOperation ==
  ASSUME IndInv, ExchangeInv, InStep, setup # NoSetup
  PROVE  /\ setup = SetupOf(Stage) /\ waiting /\ acked = NoSetup /\ ran.req # req
         /\ Stage \in {"cpuinfo", "addr", "len", "ram", "op"} /\ (Stage = "cpuinfo" \/ Has(op, Stage))
         /\ ~Acked("op")
<1>1. setup = SetupOf(Stage) /\ waiting /\ acked = NoSetup /\ Stage \in Control /\ op # "none" /\ Numbered
  BY DEF ExchangeInv, InTransfer, InStep
<1>2. Stage \in {"cpuinfo", "addr", "len", "ram", "op"} /\ Rank[Stage] <= Rank["op"]
  BY <1>1, ControlStage
<1>3. Stage = "cpuinfo" \/ Has(op, Stage)
  BY <1>1, <1>2, ExchangeStage
<1>4. ~Acked("op")
  BY <1>1, <1>2, Ranks DEF Acked
<1>5. ran.req # req
  BY <1>4 DEF ExchangeInv, Answering
<1> QED
  BY <1>1, <1>2, <1>3, <1>4, <1>5

LEMMA InServiceNext ==
  ASSUME IndInv, ExchangeInv, Next
  PROVE  InService'
<1> SUFFICES ASSUME InStep' PROVE InService'
  BY DEF InService
<1>1. CASE StartExchange
  <2>1. todo = <<>> /\ dirty' = dirty
    BY <1>1 DEF StartExchange
  <2>2. UNCHANGED <<pc, cur, ep0state>>
    BY <1>1, DeviceKept DEF Host
  <2>3. (pc = "request" => cur.stage = "set_address") /\ ~(pc = "tx" /\ ep0state = "TX")
    BY <2>1, StartClean DEF InStep
  <2> QED
    BY <2>2, <2>3 DEF InService
<1>2. CASE ~StartExchange
  <2>0. InStep /\ UNCHANGED <<req, op, n>> /\ ~Timeout /\ ~BusReset /\ op # "none" /\ InService /\ Numbered
    BY <1>2, InStepBefore DEF ExchangeInv, InStep
  <2>00. \A st : SetupOf(st)' = SetupOf(st)
    BY <2>0 DEF SetupOf
  <2>1. CASE ReadIntrUsb \/ ReadIntrIn \/ ReadIntrOut \/ PollTail \/ EPIN_Handler \/ EPOUT_Handler
             \/ udc_reset \/ EP0_Tx
    <3>1. pc' \notin {"request", "tx"}
      BY <2>1, PollKept, EPIN_HandlerKept, EPOUT_HandlerKept, udc_resetKept, EP0_TxKept
    <3> QED
      BY <3>1 DEF InService
  <2>2. CASE EP0_Setup
    <3>1. UNCHANGED <<todo, waiting, ran>> /\ ep0state' = "IDLE"
      BY <2>2, EP0_SetupKept
    <3>2. Stage' = Stage
      BY <3>1 DEF Stage
    <3>3. CASE pc' # "request"
      BY <3>1, <3>3 DEF InService
    <3>4. CASE pc' = "request"
      <4>1. /\ setup # NoSetup /\ cur' = setup /\ setup' = NoSetup
            /\ acked' = (IF setup.stage \in {"cpuinfo", "descriptor"} THEN acked ELSE setup)
        BY <2>2, <3>4, EP0_SetupKept
      <4>2. /\ setup = SetupOf(Stage) /\ waiting /\ acked = NoSetup /\ ran.req # req
            /\ Stage = "cpuinfo" \/ Has(op, Stage)
        BY <2>0, <4>1, SetupBeforeOperation
      <4>3. cur'.stage = Stage
        BY <4>1, <4>2, SetupOfStage
      <4> QED
        BY <2>0, <2>00, <3>1, <3>2, <3>4, <4>1, <4>2, <4>3 DEF InService
    <3> QED
      BY <3>3, <3>4
  <2>3. CASE usbHandleDevReq
    <3>1. /\ UNCHANGED <<todo, waiting, acked, setup, cur>> /\ pc = "request" /\ pc' = "tx"
          /\ ep0state' = (IF cur.stage \in {"cpuinfo", "descriptor"} THEN "TX" ELSE "IDLE")
      BY <2>3, RequestKept
    <3>2. Stage' = Stage
      BY <3>1 DEF Stage
    <3>3. cur.stage # "descriptor"
      BY <2>0, <3>1, ExchangeStage DEF InService, BodyStages
    <3> QED
      BY <2>0, <2>00, <3>1, <3>2, <3>3 DEF InService
  <2>4. CASE SendBulk \/ SendSetup \/ EndOldSetup \/ ControlDone \/ ReadBulk
    <3>1. UNCHANGED <<pc, cur, ep0state, ran>>
      BY <2>4, DeviceKept DEF Host
    <3>2. Stage \in {"out", "data", "hs"} \/ ~waiting \/ acked = ThisSetup
      BY <2>4 DEF SendBulk, ReadBulk, SendSetup, EndOldSetup, ControlDone
    <3>3. ThisSetup = NoSetup => Stage # "cpuinfo"
      BY DEF ThisSetup, NoSetup
    <3>4. ~((pc = "request" /\ cur.stage = "cpuinfo") \/ (pc = "tx" /\ ep0state = "TX"))
      BY <2>0, <3>2, <3>3 DEF InService
    <3> QED
      BY <2>0, <2>00, <3>1, <3>4 DEF InService
  <2>5. CASE RetryEnumeration
    <3>1. Stage \in {"descriptor", "set_address"}
      BY <2>5 DEF RetryEnumeration
    <3> QED
      BY <2>0, <3>1, ExchangeStage DEF BodyStages
  <2> QED
    BY <1>2, <2>0, <2>1, <2>2, <2>3, <2>4, <2>5 DEF Next, udc4740Proc, Host
<1> QED
  BY <1>1, <1>2

-----------------------------------------------------------------------------
(* Steps that leave the exchange where it is.                              *)

Progress == Preparing /\ Answering /\ SendingData /\ SendingHandshake

\* What Progress is about.
exchangeVars == <<req, op, n, todo, sent, left, got, dirty, ran, inFifo, outFifo, out_buf, udc_state,
                  Bulk_in_size, Bulk_in_finish, in_buf, handshake_PKT, start_addr, ops_length, ram_addr>>

LEMMA AckedKept ==
  ASSUME UNCHANGED <<op, todo>>, acked' = acked \/ Stage = "cpuinfo"
  PROVE  \A st : st # "cpuinfo" => (Acked(st)' <=> Acked(st))
<1>1. Stage' = Stage
  BY DEF Stage
<1> QED
  BY <1>1 DEF Acked

LEMMA ProgressKept ==
  ASSUME Progress, UNCHANGED exchangeVars, acked' = acked \/ Stage = "cpuinfo",
         "EP1" \in intrIn' => "EP1" \in intrIn,
         (pc' = "request" /\ pc = "request" /\ cur' = cur) \/ (pc' # "request" /\ pc # "request")
  PROVE  Progress'
<1>1. /\ Acked("addr")' <=> Acked("addr")
      /\ Acked("len")' <=> Acked("len")
      /\ Acked("ram")' <=> Acked("ram")
      /\ Acked("op")' <=> Acked("op")
  BY AckedKept DEF exchangeVars
<1>2. /\ Serving("addr")' <=> Serving("addr")
      /\ Serving("len")' <=> Serving("len")
      /\ Serving("ram")' <=> Serving("ram")
      /\ Serving("op")' <=> Serving("op")
  BY DEF Serving, SetupOf, exchangeVars
<1>3. Stage' = Stage /\ (InStep' <=> InStep)
  BY DEF Stage, InStep, exchangeVars
<1>4. Preparing'
  BY <1>1, <1>2, <1>3 DEF Progress, Preparing, exchangeVars
<1>5. Answering'
  BY <1>1, <1>3 DEF Progress, Answering, exchangeVars
<1>6. SendingData'
  BY <1>3 DEF Progress, SendingData, DataRead, Chunk, exchangeVars
<1>7. SendingHandshake'
  BY <1>3 DEF Progress, SendingHandshake, AllRead, DataRead, Chunk, exchangeVars
<1> QED
  BY <1>4, <1>5, <1>6, <1>7 DEF Progress

LEMMA ProgressVacuous ==
  ASSUME ~InStep'
  PROVE  Progress'
  BY DEF Progress, Preparing, Answering, SendingData, SendingHandshake

\* The bulk data of the host, sent packet after packet.
LEMMA PayloadSent ==
  ASSUME NEW r \in Nat, NEW len \in Nat
  PROVE  /\ Payload(r, len) \in Tokens /\ Len(Payload(r, len)) = len
         /\ SubSeq(Payload(r, len), 1, 0) = <<>> /\ SubSeq(Payload(r, len), 1, len) = Payload(r, len)
         /\ \A a \in 0..len : \A b \in a..len :
              SubSeq(Payload(r, len), 1, a) \o SubSeq(Payload(r, len), a + 1, b) = SubSeq(Payload(r, len), 1, b)
<1> DEFINE p == Payload(r, len)
<1>1. p \in [1..len -> Nat \X Nat]
  BY DEF Payload
<1> HIDE DEF p
<1>2. p \in Seq(Nat \X Nat) /\ Len(p) = len
  BY <1>1, SeqDef
<1>3. SubSeq(p, 1, 0) = <<>>
  BY SubSeqEmpty
<1>4. SubSeq(p, 1, len) = p
  BY <1>2, SubSeqFull
<1>5. ASSUME NEW a \in 0..len, NEW b \in a..len
      PROVE  SubSeq(p, 1, a) \o SubSeq(p, a + 1, b) = SubSeq(p, 1, b)
  <2>1. 1 \in 1..(Len(p) + 1) /\ a \in (1 - 1)..Len(p) /\ b \in a..Len(p)
    BY <1>2
  <2> QED
    BY <1>2, <2>1, ConcatAdjacentSubSeq
<1> QED
  BY <1>2, <1>3, <1>4, <1>5 DEF p, Tokens

\* Polling the registers, udc_reset and the answers on EP0.
LEMMA FirmwareProgress ==
  ASSUME IndInv, ExchangeInv, InStep,
         ReadIntrUsb \/ ReadIntrIn \/ ReadIntrOut \/ PollTail \/ (udc_reset /\ ~lUsb) \/ EP0_Tx
  PROVE  Progress'
<1>0. Progress
  BY DEF Progress, ExchangeInv
<1>1. CASE ReadIntrUsb \/ ReadIntrIn \/ ReadIntrOut \/ PollTail
  <2>1. UNCHANGED exchangeVars /\ acked' = acked
    BY <1>1, PollKept DEF exchangeVars
  <2>2. ("EP1" \in intrIn' => "EP1" \in intrIn) /\ pc # "request" /\ pc' # "request"
    BY <1>1, PollKept
  <2> QED
    BY <1>0, <2>1, <2>2, ProgressKept
<1>2. CASE udc_reset /\ ~lUsb
  <2>1. UNCHANGED exchangeVars /\ acked' = acked
    BY <1>2, udc_resetKept DEF exchangeVars
  <2>2. intrIn' = intrIn /\ pc # "request" /\ pc' # "request"
    BY <1>2, udc_resetKept
  <2> QED
    BY <1>0, <2>1, <2>2, ProgressKept
<1>3. CASE EP0_Tx
  <2>1. UNCHANGED exchangeVars
    BY <1>3, EP0_TxKept DEF exchangeVars
  <2>2. intrIn' = intrIn /\ pc = "tx" /\ pc' # "request"
    BY <1>3, EP0_TxKept
  <2>3. acked' = acked \/ Stage = "cpuinfo"
    BY <1>3, <2>2, EP0_TxKept DEF ExchangeInv, InService
  <2> QED
    BY <1>0, <2>1, <2>2, <2>3, ProgressKept
<1> QED
  BY <1>1, <1>2, <1>3

\* The packet received moves from the FIFO to Bulk_out_buf.
LEMMA EPOUT_HandlerProgress ==
  ASSUME IndInv, ExchangeInv, InStep, EPOUT_Handler
  PROVE  Progress'
<1>0. Progress
  BY DEF Progress, ExchangeInv
<1>1. CASE ~lOut
  <2>1. UNCHANGED exchangeVars /\ acked' = acked /\ intrIn' = intrIn /\ pc # "request" /\ pc' # "request"
    BY <1>1, EPOUT_HandlerKept DEF exchangeVars
  <2> QED
    BY <1>0, <2>1, ProgressKept
<1>2. CASE lOut
  <2>1. /\ UNCHANGED <<req, op, n, todo, sent, left, got, dirty, ran, inFifo, udc_state, Bulk_in_size>>
        /\ UNCHANGED <<Bulk_in_finish, in_buf, handshake_PKT, start_addr, ops_length, ram_addr, acked>>
        /\ pc # "request" /\ pc' # "request" /\ out_buf' = out_buf \o outFifo /\ outFifo' = <<>>
    BY <1>2, EPOUT_HandlerKept
  <2>2. Stage' = Stage /\ (InStep' <=> InStep)
    BY <2>1 DEF Stage, InStep
  <2>3. \A st : st # "cpuinfo" => (Acked(st)' <=> Acked(st))
    BY <2>1, AckedKept
  <2>4. out_buf' \o outFifo' = out_buf \o outFifo
    <3>1. out_buf \o outFifo \in Seq(Nat \X Nat)
      BY ConcatProperties DEF IndInv, TypeOK, HwTypeOK, BulkTypeOK, Tokens
    <3> QED
      BY <2>1, <3>1, ConcatEmptySeq
  <2>5. \A st : ~Serving(st)' /\ ~Serving(st)
    BY <2>1 DEF Serving
  <2>6. Preparing'
    BY <1>0, <2>1, <2>2, <2>3, <2>4, <2>5 DEF Progress, Preparing
  <2>7. Answering'
    <3>1. out_buf = <<>> /\ outFifo = <<>> => out_buf' = <<>>
      BY <2>1
    <3> QED
      BY <1>0, <2>1, <2>2, <2>3, <3>1 DEF Progress, Answering
  <2>8. SendingData' /\ SendingHandshake'
    BY <1>0, <2>1, <2>2 DEF Progress, SendingData, SendingHandshake, AllRead, DataRead, Chunk
  <2> QED
    BY <2>6, <2>7, <2>8 DEF Progress
<1> QED
  BY <1>1, <1>2

\* A SETUP packet is read: the parameter or the operation it carries is served
\* next.
LEMMA EP0_SetupProgress ==
  ASSUME IndInv, ExchangeInv, InStep, EP0_Setup
  PROVE  Progress'
<1>0. Progress
  BY DEF Progress, ExchangeInv
<1>1. UNCHANGED exchangeVars /\ intrIn' = intrIn /\ pc = "ep0"
  BY EP0_SetupKept DEF exchangeVars
<1>2. CASE pc' # "request"
  <2>1. acked' = acked
    BY <1>2, EP0_SetupKept
  <2> QED
    BY <1>0, <1>1, <1>2, <2>1, ProgressKept
<1>3. CASE pc' = "request"
  <2>1. /\ setup # NoSetup /\ cur' = setup
        /\ acked' = (IF setup.stage \in {"cpuinfo", "descriptor"} THEN acked ELSE setup)
    BY <1>3, EP0_SetupKept
  <2>2. /\ setup = SetupOf(Stage) /\ acked = NoSetup /\ ran.req # req /\ ~Acked("op")
        /\ Stage \in {"cpuinfo", "addr", "len", "ram", "op"} /\ (Stage = "cpuinfo" \/ Has(op, Stage))
    BY <2>1, SetupBeforeOperation
  <2>3. Stage' = Stage /\ (InStep' <=> InStep) /\ \A st : SetupOf(st)' = SetupOf(st)
    BY <1>1 DEF Stage, InStep, SetupOf, exchangeVars
  <2>4. setup.stage = Stage
    BY <2>2, SetupOfStage
  <2>5. \A st : Serving(st)' <=> Stage = st
    <3>1. \A st : SetupOf(Stage) = SetupOf(st) <=> Stage = st
      BY DEF SetupOf
    <3> QED
      BY <1>3, <2>1, <2>2, <2>3, <3>1 DEF Serving
  <2>6. \A st : ~Serving(st)
    BY <1>1 DEF Serving
  <2>7. \A st : Acked(st)' => Acked(st) \/ Stage = st
    BY <1>1, <2>3 DEF Acked, exchangeVars
  <2>8. Stage = "op" => Acked("op")'
    BY <1>1, <2>1, <2>2, <2>3, <2>4 DEF Acked, exchangeVars
  <2>9. "EP1" \notin intrIn /\ outFifo = <<>>
    BY <1>1, <2>1 DEF ExchangeInv, InTransfer, Interrupts
  <2>10. Preparing
    BY <1>0 DEF Progress
  <2>11. Preparing'
    BY <1>1, <2>2, <2>3, <2>5, <2>6, <2>7, <2>8, <2>9, <2>10 DEF Preparing, exchangeVars
  <2>12. ran'.req # req'
    BY <1>1, <2>2 DEF exchangeVars
  <2> QED
    BY <2>11, <2>12 DEF Progress, Answering, SendingData, SendingHandshake
<1> QED
  BY <1>2, <1>3

\* The requests that carry a parameter.
LEMMA ParameterProgress ==
  ASSUME IndInv, ExchangeInv, InStep, usbHandleDevReq, cur.stage # "op"
  PROVE  Progress'
<1>0. Preparing /\ Progress
  BY DEF Progress, ExchangeInv
<1>1. /\ UNCHANGED <<req, op, n, todo, sent, left, got, acked, dirty, intrIn, outFifo, cur>>
      /\ UNCHANGED <<ran, inFifo, out_buf, in_buf, Bulk_in_size, Bulk_in_finish, handshake_PKT>>
      /\ pc = "request" /\ pc' = "tx"
  BY RequestKept
<1>2. /\ udc_state' = udc_state \/ (cur.stage = "cpuinfo" /\ udc_state' = "IDLE")
      /\ start_addr' = IF cur.stage = "addr" THEN cur.req ELSE start_addr
      /\ ops_length' = IF cur.stage = "len" THEN [req |-> cur.req, n |-> cur.n] ELSE ops_length
      /\ ram_addr' = IF cur.stage = "ram" THEN cur.req ELSE ram_addr
  BY RequestKept
<1>3. Stage' = Stage /\ (InStep' <=> InStep)
  BY <1>1 DEF Stage, InStep
<1>4. \A st : st # "cpuinfo" => (Acked(st)' <=> Acked(st))
  BY <1>1, AckedKept
<1>5. \A st : ~Serving(st)'
  BY <1>1 DEF Serving
<1>6. \A st : Serving(st) => cur.stage = st
  BY SetupOfStage DEF Serving
<1>7. ran'.req # req' => Preparing'
  <2> SUFFICES ASSUME ran.req # req PROVE Preparing'
    BY <1>1
  <2>1. cur.stage \in {"addr", "len", "ram"} => cur.req = req /\ cur.n = n
    <3>1. cur.stage \in {"addr", "len", "ram"} => cur = SetupOf(cur.stage)
      BY <1>1 DEF ExchangeInv, InService
    <3> QED
      BY <3>1, SetupOfStage
  <2>2. udc_state' = "IDLE" /\ ~Acked("op")'
    BY <1>0, <1>2, <1>4, <1>6 DEF Preparing
  <2>3. Acked("addr")' => start_addr' = req
    BY <1>0, <1>2, <1>4, <1>6, <2>1 DEF Preparing
  <2>4. Acked("len")' => ops_length' = [req |-> req, n |-> n]
    BY <1>0, <1>2, <1>4, <1>6, <2>1 DEF Preparing
  <2>5. Acked("ram")' => ram_addr' = req
    BY <1>0, <1>2, <1>4, <1>6, <2>1 DEF Preparing
  <2> QED
    BY <1>0, <1>1, <1>3, <1>5, <2>2, <2>3, <2>4, <2>5 DEF Preparing
<1>8. CASE ran.req # req
  BY <1>1, <1>7, <1>8 DEF Progress, Preparing, Answering, SendingData, SendingHandshake
<1>9. CASE ran.req = req
  <2>1. cur.stage = "set_address"
    BY <1>1, <1>9 DEF ExchangeInv, InService
  <2>2. udc_state' = udc_state
    BY <1>2, <2>1
  <2>3. Answering'
    BY <1>0, <1>1, <1>3, <1>4 DEF Progress, Answering
  <2>4. SendingData' /\ SendingHandshake'
    BY <1>0, <1>1, <1>3, <2>2 DEF Progress, SendingData, SendingHandshake, AllRead, DataRead, Chunk
  <2>5. Preparing'
    BY <1>1, <1>9 DEF Preparing
  <2> QED
    BY <2>3, <2>4, <2>5 DEF Progress
<1> QED
  BY <1>8, <1>9

\* What the operation finds: the inputs of its own exchange.
LEMMA OperationInputs ==
  ASSUME IndInv, ExchangeInv, InStep, pc = "request", cur.stage = "op"
  PROVE  /\ out_buf = (IF Has(op, "out") THEN Payload(req, n) ELSE <<>>)
         /\ Has(op, "addr") => start_addr = req
         /\ Has(op, "len") => ops_length = [req |-> req, n |-> n]
         /\ Has(op, "ram") => ram_addr = req
         /\ Stage \in {"op", IF Has(op, "data") THEN "data" ELSE "hs"}
<1>1. QuietOnReset /\ InService /\ Preparing /\ Numbered /\ ~dirty /\ op # "none"
  BY DEF ExchangeInv, InStep
<1>2. /\ ran.req # req /\ cur = SetupOf("op") /\ outFifo = <<>> /\ Serving("op") /\ Acked("op")
  BY <1>1, OperationReady
<1>3. \A st : Serving(st) => st = "op"
  BY <1>2, SetupOfStage DEF Serving
<1>0. Rank[Stage] \in Nat
  BY <1>1, ExchangeStage, Ranks DEF BodyStages
<1>4. Stage = "op" \/ Rank[Stage] > Rank["op"]
  BY <1>0, <1>2, Ranks DEF Acked
<1>5. Rank[Stage] > 4
  BY <1>0, <1>4, Ranks
<1>6. Stage \in {"op", IF Has(op, "data") THEN "data" ELSE "hs"}
  BY <1>1, <1>2, <1>4 DEF Preparing
<1>7. /\ Has(op, "addr") => Acked("addr")
      /\ Has(op, "len") => Acked("len")
      /\ Has(op, "ram") => Acked("ram")
  <2>1. Rank["addr"] < Rank[Stage] /\ Rank["len"] < Rank[Stage] /\ Rank["ram"] < Rank[Stage]
    BY <1>0, <1>5, Ranks
  <2> QED
    BY <2>1 DEF Acked
<1>8. /\ Has(op, "addr") => start_addr = req
      /\ Has(op, "len") => ops_length = [req |-> req, n |-> n]
      /\ Has(op, "ram") => ram_addr = req
  BY <1>1, <1>2, <1>3, <1>7 DEF Preparing
<1>9. out_buf = (IF Has(op, "out") THEN Payload(req, n) ELSE <<>>)
  <2>1. out_buf \o <<>> = SubSeq(Payload(req, n), 1, sent)
    BY <1>1, <1>2 DEF Preparing
  <2>2. out_buf \o <<>> = out_buf
    BY ConcatEmptySeq DEF IndInv, TypeOK, BulkTypeOK, Tokens
  <2>3. IF Has(op, "out") THEN sent = n ELSE sent = 0
    <3>1. Rank[Stage] > Rank["out"]
      BY <1>0, <1>5, Ranks
    <3> QED
      BY <1>1, <1>2, <3>1 DEF Preparing
  <2>4. req \in Nat /\ n \in Nat
    BY DEF IndInv, TypeOK, HostTypeOK, BoundAssumption
  <2>5. SubSeq(Payload(req, n), 1, 0) = <<>> /\ SubSeq(Payload(req, n), 1, n) = Payload(req, n)
    BY <2>4, PayloadSent
  <2> QED
    BY <2>1, <2>2, <2>3, <2>5
<1> QED
  BY <1>6, <1>8, <1>9

\* Which operations answer with data, and which set the position and the status.
LEMMA DataOps ==
  ASSUME NEW o \in AllOps
  PROVE  /\ Has(o, "data") <=> o \in {"query", "read", "read_oob", "read_raw"}
         /\ o \in {"read", "read_oob", "read_raw"} => Has(o, "len")
<1>1. /\ Body["query"] = <<"op", "data", "hs">> /\ Body["mark_bad"] = <<"addr", "op", "hs">>
      /\ Body["erase"] = <<"addr", "len", "op", "hs">>
      /\ Body["program"] = <<"out", "addr", "len", "op", "hs">>
      /\ Body["sdram"] = <<"out", "addr", "len", "op", "hs">>
  BY DEF Body
<1>2. /\ Body["read"] = <<"addr", "len", "op", "data", "hs">>
      /\ Body["read_oob"] = <<"addr", "len", "op", "data", "hs">>
      /\ Body["read_raw"] = <<"addr", "len", "op", "data", "hs">>
      /\ Body["read_to_ram"] = <<"ram", "addr", "len", "op", "hs">>
      /\ Body["config"] = <<"out", "op", "hs">>
  BY DEF Body
<1>3. /\ Has("query", "data") /\ ~Has("mark_bad", "data") /\ ~Has("erase", "data")
      /\ ~Has("program", "data") /\ ~Has("sdram", "data")
  BY <1>1 DEF Has
<1>4. /\ Has("read", "data") /\ Has("read_oob", "data") /\ Has("read_raw", "data")
      /\ ~Has("read_to_ram", "data") /\ ~Has("config", "data")
  BY <1>2 DEF Has
<1>5. Has("read", "len") /\ Has("read_oob", "len") /\ Has("read_raw", "len")
  BY <1>2 DEF Has
<1> QED
  BY <1>3, <1>4, <1>5, Zenon DEF AllOps

\* The operation runs, on its own inputs, and starts its answer.
LEMMA OperationProgress ==
  ASSUME IndInv, ExchangeInv, InStep, usbHandleDevReq, cur.stage = "op"
  PROVE  Progress'
<1>0. QuietOnReset /\ InService /\ Preparing /\ Numbered /\ ~dirty /\ op # "none" /\ op \in AllOps
  BY OpKnown DEF ExchangeInv, InStep
<1>1. /\ UNCHANGED <<req, op, n, todo, sent, left, got, acked, dirty, outFifo>>
      /\ pc = "request" /\ pc' = "tx"
  BY RequestKept
<1>2. /\ ran.req # req /\ cur = SetupOf("op") /\ outFifo = <<>> /\ Serving("op") /\ Acked("op")
      /\ inFifo = NoPkt
  BY <1>0, <1>1, OperationReady
<1>3. /\ got = <<>> /\ udc_state = "IDLE" /\ Bulk_in_finish = Bulk_in_size /\ left = n
  BY <1>0, <1>2 DEF Preparing
<1>4. /\ out_buf = (IF Has(op, "out") THEN Payload(req, n) ELSE <<>>)
      /\ Has(op, "addr") => start_addr = req
      /\ Has(op, "len") => ops_length = [req |-> req, n |-> n]
      /\ Has(op, "ram") => ram_addr = req
      /\ Stage \in {"op", IF Has(op, "data") THEN "data" ELSE "hs"}
  BY <1>1, OperationInputs
<1>5. cur.req = req /\ cur.op = op
  BY <1>2, SetupOfStage
<1>6. Stage' = Stage /\ (InStep' <=> InStep)
  BY <1>1 DEF Stage, InStep
<1>7. Acked("op")'
  BY <1>1, <1>2, AckedKept
<1>8. PICK ops : Operation(ops)
  BY Zenon DEF usbHandleDevReq, PositionOps, NAND_READ_TO_RAM, NAND_READ, NAND_READ_RAW, NAND_QUERY,
     CONFIGRATION_Handle, GET_CPU_INFO_Handle, usbHandleStandDevReq, SetParameter, Requested
<1>9. /\ ran' = [req |-> cur.req, op |-> cur.op, out |-> out_buf, addr |-> start_addr,
                 len |-> ops_length.req, ram |-> ram_addr]
      /\ out_buf' = <<>>
  BY <1>8 DEF Operation
<1>10. ran'.req = req /\ ran'.op = op /\ ran'.out = out_buf
  BY <1>5, <1>9
<1>11. ran'.addr = start_addr /\ ran'.len = ops_length.req /\ ran'.ram = ram_addr
  BY <1>9
<1>12. n \in Nat /\ n > 0 /\ (op = "query" => n = HsLen) /\ FifoSize \in Nat /\ req \in Nat
  <2>1. n > 0 /\ (op = "query" => n = HsLen)
    BY <1>0 DEF Numbered
  <2>2. n \in Nat /\ FifoSize \in Nat /\ req \in Nat
    BY FifoAssumption, BoundAssumption DEF IndInv, TypeOK, HostTypeOK
  <2> QED
    BY <2>1, <2>2
<1>13. /\ op \in PosOps => handshake_PKT'.pos = req
       /\ op \in StatOps => handshake_PKT'.stat = req
       /\ \/ /\ Has(op, "data") /\ SendData(req, n) /\ udc_state' = "BULK_IN"
          \/ /\ ~Has(op, "data") /\ SendHandshake(handshake_PKT') /\ udc_state' = "IDLE"
  <2>0. handshake_PKT \in [pos : Nat, stat : Nat]
    BY DEF IndInv, TypeOK, BulkTypeOK
  <2>1. CASE PositionOps
    <3>1. op \in {"mark_bad", "erase", "program", "sdram"} /\ udc_state' = "IDLE"
      BY <1>5, <2>1 DEF PositionOps, Operation
    <3>2. SendHandshake([handshake_PKT EXCEPT !.pos = cur.req])
      BY <2>1 DEF PositionOps
    <3>3. handshake_PKT' = [handshake_PKT EXCEPT !.pos = req]
      BY <1>5, <3>2 DEF SendHandshake
    <3>4. handshake_PKT'.pos = req
      BY <2>0, <3>3
    <3>5. ~Has(op, "data")
      BY <1>0, <3>1, DataOps
    <3> QED
      BY <1>5, <3>1, <3>2, <3>3, <3>4, <3>5 DEF StatOps
  <2>2. CASE NAND_READ_TO_RAM \/ CONFIGRATION_Handle
    <3>1. op \in {"read_to_ram", "config"} /\ udc_state' = "IDLE"
      BY <1>3, <1>5, <2>2 DEF NAND_READ_TO_RAM, CONFIGRATION_Handle, Operation
    <3>2. SendHandshake([handshake_PKT EXCEPT !.stat = cur.req])
      BY <2>2 DEF NAND_READ_TO_RAM, CONFIGRATION_Handle
    <3>3. handshake_PKT' = [handshake_PKT EXCEPT !.stat = req]
      BY <1>5, <3>2 DEF SendHandshake
    <3>4. handshake_PKT'.stat = req
      BY <2>0, <3>3
    <3>5. ~Has(op, "data")
      BY <1>0, <3>1, DataOps
    <3> QED
      BY <1>5, <3>1, <3>2, <3>3, <3>4, <3>5 DEF PosOps
  <2>3. CASE NAND_READ
    <3>1. /\ op \in {"read", "read_oob"} /\ udc_state' = "BULK_IN" /\ SendData(req, ops_length.n)
          /\ handshake_PKT' = [pos |-> req, stat |-> IF op = "read" THEN req ELSE handshake_PKT.stat]
      BY <1>5, <2>3 DEF NAND_READ, Operation
    <3>2. Has(op, "data") /\ ops_length.n = n
      BY <1>0, <1>4, <3>1, DataOps
    <3>3. handshake_PKT'.pos = req /\ (op = "read" => handshake_PKT'.stat = req)
      BY <3>1
    <3>4. op \in StatOps => op = "read"
      BY <3>1 DEF StatOps
    <3> QED
      BY <3>1, <3>2, <3>3, <3>4
  <2>4. CASE NAND_READ_RAW
    <3>1. op = "read_raw" /\ udc_state' = "BULK_IN" /\ SendData(req, ops_length.n)
      BY <1>5, <2>4 DEF NAND_READ_RAW, Operation
    <3>2. Has(op, "data") /\ ops_length.n = n
      BY <1>0, <1>4, <3>1, DataOps
    <3> QED
      BY <3>1, <3>2 DEF StatOps, PosOps
  <2>5. CASE NAND_QUERY
    <3>1. /\ op = "query" /\ udc_state' = "BULK_IN" /\ SendData(req, HsLen)
          /\ handshake_PKT' = [handshake_PKT EXCEPT !.stat = req]
      BY <1>5, <2>5 DEF NAND_QUERY, Operation
    <3>2. Has(op, "data") /\ HsLen = n
      BY <1>0, <1>12, <3>1, DataOps
    <3>3. handshake_PKT'.stat = req
      BY <2>0, <3>1
    <3>4. op \notin PosOps
      BY <3>1 DEF PosOps
    <3> QED
      BY <3>1, <3>2, <3>3, <3>4
  <2>6. CASE GET_CPU_INFO_Handle \/ usbHandleStandDevReq \/ SetParameter
    BY <2>6 DEF GET_CPU_INFO_Handle, usbHandleStandDevReq, SetParameter, Requested
  <2> QED
    BY <2>1, <2>2, <2>3, <2>4, <2>5, <2>6 DEF usbHandleDevReq
<1>14. Answering'
  <2>1. Has(op, "len") => ops_length.req = req
    BY <1>4
  <2> QED
    BY <1>1, <1>2, <1>4, <1>7, <1>9, <1>10, <1>11, <1>13, <2>1 DEF Answering
<1>15. Preparing'
  BY <1>1, <1>10 DEF Preparing
<1>16. Len(got) = 0
  BY <1>3
<1>17. CASE Has(op, "data") /\ SendData(req, n) /\ udc_state' = "BULK_IN"
  <2>1. /\ in_buf' = req /\ Bulk_in_size' = n /\ Bulk_in_finish' = Least(n, FifoSize)
        /\ inFifo' = DataPkt(req, 0, Least(n, FifoSize))
    BY <1>2, <1>17, WriteEmptyFifo DEF SendData
  <2>2. Len(got) * FifoSize = 0 /\ (Len(got) + 1) * FifoSize = FifoSize /\ n - 0 = n
    BY <1>12, <1>16
  <2>3. Chunk(Len(got)) = DataPkt(req, 0, Least(FifoSize, n))
    BY <2>2 DEF Chunk
  <2>4. Least(FifoSize, n) = Least(n, FifoSize) /\ Least(n, 0) = 0
    BY <1>12 DEF Least
  <2>5. inFifo' = Chunk(Len(got))' /\ inFifo' # NoPkt
    <3>1. Chunk(Len(got))' = Chunk(Len(got))
      BY <1>1 DEF Chunk
    <3>2. inFifo' # NoPkt
      BY <2>1 DEF DataPkt, NoPkt
    <3> QED
      BY <2>1, <2>3, <2>4, <3>1, <3>2
  <2>6. DataRead(Len(got))'
    BY <1>1, <1>16 DEF DataRead
  <2>7. left = n - Least(n, Len(got) * FifoSize) /\ left # 0
    BY <1>3, <1>12, <2>2, <2>4
  <2>8. Stage = "data" \/ Stage = "op"
    BY <1>4, <1>17
  <2>9. Len(got) * FifoSize < n
    BY <1>12, <2>2
  <2>10. SendingData'
    BY <1>1, <1>3, <1>6, <1>17, <2>1, <2>2, <2>5, <2>6, <2>7, <2>8, <2>9 DEF SendingData
  <2> QED
    BY <1>14, <1>15, <1>17, <2>10 DEF Progress, SendingHandshake
<1>18. CASE ~Has(op, "data") /\ SendHandshake(handshake_PKT') /\ udc_state' = "IDLE"
  <2>1. Bulk_in_finish' = Bulk_in_size' /\ WriteFifo(HsPkt(handshake_PKT'))
    BY <1>18 DEF SendHandshake
  <2>2. inFifo' = HsPkt(handshake_PKT')
    BY <1>2, <2>1, WriteEmptyFifo
  <2>3. HsPkt(handshake_PKT') # NoPkt
    BY DEF HsPkt, NoPkt
  <2>4. AllRead(Len(got))'
    BY <1>1, <1>16, <1>18 DEF AllRead
  <2>5. Stage = "hs" \/ (Stage = "op" /\ ~Has(op, "data"))
    BY <1>4, <1>18
  <2>6. SendingHandshake'
    BY <1>1, <1>6, <2>1, <2>2, <2>3, <2>4, <2>5 DEF SendingHandshake
  <2> QED
    BY <1>14, <1>15, <1>18, <2>6 DEF Progress, SendingData
<1> QED
  BY <1>13, <1>17, <1>18

\* The data is counted in packets: arithmetic of one packet more.
LEMMA OneMore ==
  ASSUME NEW k \in Nat, NEW len \in Nat, k * FifoSize < len
  PROVE  /\ Least(len, k * FifoSize) = k * FifoSize
         /\ len - k * FifoSize \in Nat
         /\ Least(len - k * FifoSize, FifoSize) = Least(FifoSize, len - k * FifoSize)
         /\ k * FifoSize + Least(FifoSize, len - k * FifoSize) = Least(len, (k + 1) * FifoSize)
         /\ Least(len - k * FifoSize, Least(FifoSize, len - k * FifoSize)) = Least(FifoSize, len - k * FifoSize)
         /\ Least(FifoSize, len - k * FifoSize) < FifoSize =>
              len - Least(len, (k + 1) * FifoSize) = 0
<1> DEFINE m == k * FifoSize
<1>1. m \in Nat /\ FifoSize \in Nat /\ FifoSize > 0 /\ (k + 1) * FifoSize = m + FifoSize
  BY FifoAssumption
<1> HIDE DEF m
<1>2. /\ Least(len, m) = m /\ len - m \in Nat
      /\ Least(len - m, FifoSize) = Least(FifoSize, len - m)
      /\ m + Least(FifoSize, len - m) = Least(len, m + FifoSize)
      /\ Least(len - m, Least(FifoSize, len - m)) = Least(FifoSize, len - m)
      /\ Least(FifoSize, len - m) < FifoSize => len - Least(len, m + FifoSize) = 0
  <2>1. m < len
    BY DEF m
  <2> QED
    BY <1>1, <2>1 DEF Least
<1> QED
  BY <1>1, <1>2 DEF m

\* EPIN_Handler goes on with the answer when the last packet was read.
LEMMA EPIN_HandlerProgress ==
  ASSUME IndInv, ExchangeInv, InStep, EPIN_Handler
  PROVE  Progress'
<1>0. Progress /\ Preparing /\ Answering /\ SendingData /\ SendingHandshake /\ Interrupts /\ ~dirty
  BY DEF Progress, ExchangeInv, InStep
<1>1. /\ UNCHANGED <<req, op, n, todo, sent, left, got, dirty, ran, outFifo, out_buf, in_buf, handshake_PKT>>
      /\ UNCHANGED <<start_addr, ops_length, ram_addr, acked, intrIn, cur>>
      /\ pc = "epin" /\ pc' = "epout"
  BY EPIN_HandlerKept
<1>2. CASE "EP1" \notin lIn \/ (Bulk_in_size = Bulk_in_finish /\ udc_state = "IDLE")
  <2>1. UNCHANGED <<udc_state, Bulk_in_size, Bulk_in_finish, inFifo>>
    BY <1>2, EPIN_HandlerKept
  <2>2. UNCHANGED exchangeVars
    BY <1>1, <2>1 DEF exchangeVars
  <2> QED
    BY <1>0, <1>1, <2>2, ProgressKept
<1>3. CASE "EP1" \in lIn /\ ~(Bulk_in_size = Bulk_in_finish /\ udc_state = "IDLE")
  <2>1. ran.req = req /\ udc_state = "BULK_IN"
    <3>1. ran.req = req
      BY <1>0, <1>3 DEF Preparing
    <3>2. udc_state # "IDLE"
      BY <1>0, <1>3, <3>1 DEF SendingHandshake
    <3> QED
      BY <3>1, <3>2 DEF IndInv, TypeOK, BulkTypeOK
  <2>2. inFifo = NoPkt
    BY <1>0, <1>1, <1>3 DEF Interrupts, Pending1
  <2> DEFINE k == Len(got)
  <2>3. /\ Has(op, "data") /\ in_buf = req /\ Bulk_in_size = n /\ DataRead(k)
        /\ k > 0 /\ Bulk_in_finish = Least(n, k * FifoSize)
        /\ left = n - Least(n, k * FifoSize)
        /\ IF left = 0 THEN Stage = "hs" ELSE Stage = "data" \/ (Stage = "op" /\ got = <<>>)
    BY <1>0, <2>1, <2>2 DEF SendingData
  <2>4. k \in Nat /\ n \in Nat /\ FifoSize \in Nat /\ k * FifoSize \in Nat
    <3>1. k \in Nat /\ n \in Nat /\ FifoSize \in Nat
      BY LenProperties, FifoAssumption DEF IndInv, TypeOK, HostTypeOK
    <3> HIDE DEF k
    <3> QED
      BY <3>1
  <2>5. Stage' = Stage /\ (InStep' <=> InStep) /\ DataRead(k)'
    BY <1>1, <2>3 DEF Stage, InStep, DataRead, Chunk
  <2>6. Acked("op")' <=> Acked("op")
    BY <1>1, AckedKept
  <2>7. Answering' /\ Preparing'
    <3>1. ran'.req = req'
      BY <1>1, <2>1
    <3> QED
      BY <1>0, <1>1, <2>1, <2>5, <2>6, <3>1 DEF Answering, Preparing
  <2>8. CASE Bulk_in_size = Bulk_in_finish
    <3>1. Handshake_PKT
      BY <1>3, <2>8 DEF EPIN_Handler
    <3>2. SendHandshake(handshake_PKT) /\ udc_state' = "IDLE"
      BY <2>1, <3>1 DEF Handshake_PKT
    <3>3. Bulk_in_finish' = Bulk_in_size' /\ inFifo' = HsPkt(handshake_PKT)
      BY <2>2, <3>2, WriteEmptyFifo DEF SendHandshake
    <3>4. inFifo' # NoPkt
      BY <3>3 DEF HsPkt, NoPkt
    <3>5. n <= k * FifoSize /\ left = 0
      BY <2>3, <2>4, <2>8 DEF Least
    <3>6. AllRead(k)'
      BY <1>1, <2>3, <2>5, <3>5 DEF AllRead
    <3>7. SendingHandshake'
      BY <1>1, <2>3, <2>5, <3>3, <3>4, <3>5, <3>6 DEF SendingHandshake
    <3> QED
      BY <2>7, <3>2, <3>7 DEF Progress, SendingData
  <2>9. CASE Bulk_in_size # Bulk_in_finish
    <3> DEFINE len == Least(Bulk_in_size - Bulk_in_finish, FifoSize)
    <3>1. NextPacket
      BY <1>3, <2>9 DEF EPIN_Handler
    <3>2. /\ WriteFifo(DataPkt(in_buf, Bulk_in_finish, len)) /\ Bulk_in_finish' = Bulk_in_finish + len
          /\ UNCHANGED <<udc_state, Bulk_in_size>>
      BY <3>1 DEF NextPacket
    <3>3. k * FifoSize < n
      BY <2>3, <2>4, <2>9 DEF Least
    <3>4. /\ Least(n, k * FifoSize) = k * FifoSize
          /\ Least(n - k * FifoSize, FifoSize) = Least(FifoSize, n - k * FifoSize)
          /\ k * FifoSize + Least(FifoSize, n - k * FifoSize) = Least(n, (k + 1) * FifoSize)
      BY <2>4, <3>3, OneMore
    <3>5. len = Least(FifoSize, n - k * FifoSize) /\ Bulk_in_finish = k * FifoSize
      BY <2>3, <3>4
    <3>6. inFifo' = DataPkt(in_buf, Bulk_in_finish, len)
      BY <2>2, <3>2, WriteEmptyFifo
    <3>7. inFifo' = Chunk(k)' /\ inFifo' # NoPkt
      <4>1. inFifo' = Chunk(k)
        BY <2>3, <3>5, <3>6 DEF Chunk
      <4>2. Chunk(k)' = Chunk(k)
        BY <1>1 DEF Chunk
      <4>3. Chunk(k) # NoPkt
        BY DEF Chunk, DataPkt, NoPkt
      <4> QED
        BY <4>1, <4>2, <4>3
    <3>8. Bulk_in_finish' = Least(n, (k + 1) * FifoSize)
      BY <3>2, <3>4, <3>5
    <3>9. SendingData'
      BY <1>1, <2>1, <2>3, <2>5, <3>2, <3>3, <3>7, <3>8 DEF SendingData
    <3> QED
      BY <2>1, <2>7, <3>2, <3>9 DEF Progress, SendingHandshake
  <2> QED
    BY <2>8, <2>9
<1> QED
  BY <1>2, <1>3

\* A stage that is over has been answered.
LEMMA AckedStep ==
  ASSUME IndInv, Numbered, op # "none", todo # <<>>, todo' = Tail(todo), op' = op, acked' = NoSetup,
         Stage \in {"addr", "len", "ram", "op"} => acked # NoSetup
  PROVE  /\ \A st \in {"addr", "len", "ram", "op"} : Acked(st)' <=> Acked(st)
         /\ Rank[Stage'] > Rank["op"] => Rank[Stage] >= Rank["op"]
         /\ Has(op, "out") => (Rank[Stage'] > Rank["out"] => Rank[Stage] >= Rank["out"])
<1>1. /\ Rank[Stage] < Rank[Stage']
      /\ \A st : Has(op, st) => Rank[st] <= Rank[Stage] \/ Rank[Stage'] <= Rank[st]
  BY ExchangeStep
<1>2. Stage \in {"idle", "cpuinfo"} \cup BodyStages /\ Has(op, "op")
  BY ExchangeStage
<1>3. Rank[Stage] \in Nat
  BY <1>2, Ranks DEF BodyStages
<1>4. Rank[Stage'] \in Nat
  <2>1. todo' \in Plans(op) /\ op \in AllOps
    BY ExchangeStep, OpKnown
  <2>2. First(todo') \in {"idle", "cpuinfo"} \cup BodyStages
    BY <2>1, PlanStage
  <2> QED
    BY <2>2, StageIs, Ranks DEF BodyStages
<1>5. ASSUME NEW st \in {"addr", "len", "ram", "op"} PROVE Acked(st)' <=> Acked(st)
  <2>1. Acked(st)' <=> Has(op, st) /\ Rank[st] < Rank[Stage']
    BY DEF Acked
  <2>2. Rank[st] \in Nat
    BY <1>5, Ranks
  <2>3. Rank[st] = Rank[Stage] => Stage = st
    BY <1>2, <1>5, Ranks DEF BodyStages
  <2>4. ASSUME Has(op, st) PROVE Rank[st] < Rank[Stage'] <=> Rank[st] < Rank[Stage] \/ Stage = st
    BY <1>1, <1>3, <1>4, <2>2, <2>3, <2>4
  <2>5. Stage = st => acked # NoSetup
    OBVIOUS
  <2> QED
    BY <2>1, <2>4, <2>5 DEF Acked
<1>6. Rank[Stage'] > Rank["op"] => Rank[Stage] >= Rank["op"]
  BY <1>1, <1>2, <1>3, <1>4, Ranks
<1>7. Has(op, "out") => (Rank[Stage'] > Rank["out"] => Rank[Stage] >= Rank["out"])
  BY <1>1, <1>3, <1>4, Ranks
<1> QED
  BY <1>5, <1>6, <1>7

\* A new exchange starts from a quiet link.
LEMMA StartExchangeProgress ==
  ASSUME IndInv, ExchangeInv, StartExchange, InStep'
  PROVE  Progress'
<1>1. PICK o \in Ops, len \in Lens, probe \in BOOLEAN :
        op' = o /\ left' = n' /\ todo' = Script(o, probe)
  BY DEF StartExchange
<1>2. /\ todo = <<>> /\ req' = req + 1 /\ sent' = 0 /\ got' = <<>>
      /\ UNCHANGED <<inFifo, outFifo, acked, dirty, intrIn>>
  BY DEF StartExchange, hwVars
<1>3. /\ UNCHANGED <<pc, cur, udc_state, Bulk_in_size, Bulk_in_finish, out_buf, ran>>
  BY DeviceKept DEF Host
<1>4. /\ acked = NoSetup /\ inFifo = NoPkt /\ outFifo = <<>> /\ out_buf = <<>> /\ udc_state = "IDLE"
      /\ Bulk_in_finish = Bulk_in_size /\ (pc = "request" => cur.stage = "set_address")
  BY <1>2, StartClean DEF InStep
<1>5. /\ o \in AllOps /\ \A st : Has(o, st) => Rank[First(Script(o, probe))] <= Rank[st]
  BY OpsAssumption, PlanStart
<1>6. \A st : Has(op', st) => Rank[Stage'] <= Rank[st]
  BY <1>1, <1>5, StageIs
<1>7. Has(op', "op") /\ Stage' \in {"idle", "cpuinfo"} \cup BodyStages
  BY <1>1, <1>5, PlanStart, PlanStage, StageIs, ScriptsOrderly DEF Orderly
<1>8. Rank[Stage'] \in Nat
  BY <1>7, Ranks DEF BodyStages
<1>9. \A st \in {"addr", "len", "ram", "op"} : ~Acked(st)'
  <2>1. \A st \in {"addr", "len", "ram", "op"} : Rank[st] \in Nat
    BY Ranks
  <2> QED
    BY <1>2, <1>4, <1>6, <1>8, <2>1 DEF Acked
<1>10. ran'.req # req'
  <2>1. ran.req <= req /\ ran.req \in Nat /\ req \in Nat
    BY DEF ExchangeInv, Numbered, IndInv, TypeOK, GhostTypeOK, HostTypeOK
  <2> QED
    BY <1>2, <1>3, <2>1
<1>11. ~Serving("op")'
  <2>1. ASSUME Serving("op")' PROVE FALSE
    <3>1. cur'.stage = "op" /\ pc' = "request"
      BY <2>1 DEF Serving, SetupOf
    <3> QED
      BY <1>3, <1>4, <3>1
  <2> QED
    BY <2>1
<1>12. out_buf' \o outFifo' = SubSeq(Payload(req', n'), 1, sent')
  <2>1. <<>> \o <<>> = <<>> /\ SubSeq(Payload(req', n'), 1, 0) = <<>>
    BY SubSeqEmpty
  <2> QED
    BY <1>2, <1>3, <1>4, <2>1
<1>13. sent' <= n'
  <2>1. n' \in Nat
    BY <1>1, LensAssumption DEF StartExchange, HsLen
  <2> QED
    BY <1>2, <2>1
<1>14. IF Has(op', "out") THEN Rank[Stage'] > Rank["out"] => sent' = n' ELSE sent' = 0
  BY <1>2, <1>6, <1>8, Ranks
<1>15. ~(Rank[Stage'] > Rank["op"])
  BY <1>6, <1>7, <1>8, Ranks
<1>16. Preparing'
  BY <1>1, <1>2, <1>3, <1>4, <1>9, <1>11, <1>12, <1>13, <1>14, <1>15 DEF Preparing
<1> QED
  BY <1>10, <1>16 DEF Progress, Answering, SendingData, SendingHandshake

\* The host sends the next packet of its bulk data.
LEMMA SendBulkProgress ==
  ASSUME IndInv, ExchangeInv, InStep, SendBulk
  PROVE  Progress'
<1> DEFINE to == Least(sent + FifoSize, n)
<1>0. Preparing /\ InTransfer /\ Numbered /\ ~dirty /\ op # "none"
  BY DEF ExchangeInv, InStep
<1>1. /\ Stage = "out" /\ outFifo = <<>> /\ outFifo' = SubSeq(Payload(req, n), sent + 1, to)
      /\ sent' = to /\ todo' = (IF to = n THEN Tail(todo) ELSE todo)
      /\ UNCHANGED <<intrIn, inFifo, req, op, n, left, acked, got, dirty>>
  BY DEF SendBulk
<1>2. /\ UNCHANGED <<pc, cur, udc_state, Bulk_in_size, Bulk_in_finish, out_buf, ran>>
      /\ UNCHANGED <<start_addr, ops_length, ram_addr>>
  BY DeviceKept DEF Host
<1>3. todo # <<>>
  BY <1>1 DEF Stage
<1>4. acked = NoSetup
  BY <1>0, <1>1 DEF InTransfer, InStep, Control
<1>5. ~Acked("op")
  BY <1>1, Ranks DEF Acked
<1>6. ran.req # req
  BY <1>5 DEF ExchangeInv, Answering
<1>7. ran'.req # req'
  BY <1>1, <1>2, <1>6
<1>8. sent \in Nat /\ n \in Nat /\ req \in Nat /\ FifoSize \in Nat
  BY FifoAssumption, BoundAssumption DEF IndInv, TypeOK, HostTypeOK
<1>9. to \in Nat /\ to <= n /\ (sent <= n => sent <= to)
  BY <1>8 DEF Least
<1>10. sent <= n
  BY <1>0, <1>6 DEF Preparing
<1>11. out_buf' \o outFifo' = SubSeq(Payload(req', n'), 1, sent')
  <2>1. out_buf \o <<>> = SubSeq(Payload(req, n), 1, sent)
    BY <1>0, <1>1, <1>6 DEF Preparing
  <2>2. out_buf \o <<>> = out_buf
    BY ConcatEmptySeq DEF IndInv, TypeOK, BulkTypeOK, Tokens
  <2>3. sent \in 0..n /\ to \in sent..n
    BY <1>8, <1>9, <1>10
  <2>4. SubSeq(Payload(req, n), 1, sent) \o SubSeq(Payload(req, n), sent + 1, to) = SubSeq(Payload(req, n), 1, to)
    BY <1>8, <2>3, PayloadSent
  <2> HIDE DEF to
  <2> QED
    BY <1>1, <1>2, <2>1, <2>2, <2>4
<1>12. /\ Acked("addr")' <=> Acked("addr")
       /\ Acked("len")' <=> Acked("len")
       /\ Acked("ram")' <=> Acked("ram")
       /\ Acked("op")' <=> Acked("op")
       /\ ~(Rank[Stage'] > Rank["op"])
  <2>1. CASE to = n
    <3>1. todo' = Tail(todo)
      BY <1>1, <2>1
    <3>2. /\ \A st \in {"addr", "len", "ram", "op"} : Acked(st)' <=> Acked(st)
          /\ Rank[Stage'] > Rank["op"] => Rank[Stage] >= Rank["op"]
      BY <1>0, <1>1, <1>3, <1>4, <3>1, AckedStep
    <3>3. ~(Rank[Stage] >= Rank["op"])
      BY <1>1, Ranks
    <3> QED
      BY <3>2, <3>3
  <2>2. CASE to # n
    <3>1. todo' = todo
      BY <1>1, <2>2
    <3>2. Stage' = Stage
      BY <3>1 DEF Stage
    <3>3. \A st : st # "cpuinfo" => (Acked(st)' <=> Acked(st))
      BY <1>1, <3>1, AckedKept
    <3> QED
      BY <1>1, <3>2, <3>3, Ranks
  <2> QED
    BY <2>1, <2>2
<1>13. Has(op, "out") /\ (Rank[Stage'] > Rank["out"] => sent' = n)
  <2>1. Has(op, "out")
    BY <1>0, <1>1, ExchangeStage
  <2>2. CASE to = n
    BY <1>1, <2>1, <2>2
  <2>3. CASE to # n
    <3>1. Stage' = Stage
      BY <1>1, <2>3 DEF Stage
    <3> QED
      BY <1>1, <2>1, <3>1, Ranks
  <2> QED
    BY <2>2, <2>3
<1>14. \A st : Serving(st)' <=> Serving(st)
  BY <1>1, <1>2 DEF Serving, SetupOf
<1>15. InStep'
  BY <1>0, <1>1 DEF InStep
<1>16. ~Serving("op")
  BY <1>0, <1>5, <1>6 DEF Preparing
<1> HIDE DEF to
<1>17. Preparing'
  BY <1>0, <1>1, <1>2, <1>5, <1>6, <1>9, <1>11, <1>12, <1>13, <1>14, <1>16 DEF Preparing
<1> QED
  BY <1>7, <1>17 DEF Progress, Answering, SendingData, SendingHandshake

\* A control transfer is over for the host.
LEMMA ControlProgress ==
  ASSUME IndInv, ExchangeInv, InStep, SendSetup \/ EndOldSetup \/ ControlDone \/ RetryEnumeration
  PROVE  Progress'
<1>0. Progress /\ Preparing /\ Answering /\ SendingData /\ SendingHandshake /\ InTransfer /\ Numbered
      /\ ~dirty /\ op # "none"
  BY DEF Progress, ExchangeInv, InStep
<1>1. /\ UNCHANGED <<inFifo, outFifo, req, op, n, sent, left, got, dirty>>
      /\ "EP1" \in intrIn' <=> "EP1" \in intrIn
  BY ControlKept
<1>2. /\ UNCHANGED <<pc, cur, udc_state, Bulk_in_size, Bulk_in_finish, in_buf, out_buf, handshake_PKT>>
      /\ UNCHANGED <<start_addr, ops_length, ram_addr, ran>>
  BY DeviceKept DEF Host
<1>3. CASE ~ControlDone
  <2>1. UNCHANGED <<todo, acked>>
    BY <1>3, ControlKept
  <2>2. UNCHANGED exchangeVars
    BY <1>1, <1>2, <2>1 DEF exchangeVars
  <2> QED
    BY <1>0, <1>1, <1>2, <2>1, <2>2, ProgressKept
<1>4. CASE ControlDone
  <2>1. waiting /\ acked = ThisSetup /\ todo' = Tail(todo) /\ acked' = NoSetup
    BY <1>4 DEF ControlDone
  <2>2. Stage \in {"cpuinfo", "addr", "len", "ram", "op"} /\ acked # NoSetup
    <3>1. Stage \in Control
      BY <1>0, <2>1 DEF InTransfer
    <3> QED
      BY <1>0, <2>1, <3>1, ControlStage
  <2>3. todo # <<>>
    BY <2>2 DEF Stage
  <2>4. /\ \A st \in {"addr", "len", "ram", "op"} : Acked(st)' <=> Acked(st)
        /\ Rank[Stage'] > Rank["op"] => Rank[Stage] >= Rank["op"]
        /\ Has(op, "out") => (Rank[Stage'] > Rank["out"] => Rank[Stage] >= Rank["out"])
    BY <1>0, <1>1, <2>1, <2>2, <2>3, AckedStep
  <2>5. Stage = "op" => Stage' = IF Has(op, "data") THEN "data" ELSE "hs"
    BY <1>0, <1>1, <2>1, <2>3, ExchangeStep
  <2>6. Rank[Stage'] > Rank["op"] => Stage' = IF Has(op, "data") THEN "data" ELSE "hs"
    BY <2>2, <2>4, <2>5, Ranks
  <2>7. Has(op, "out") => (Rank[Stage'] > Rank["out"] => Rank[Stage] > Rank["out"])
    BY <2>2, <2>4, Ranks
  <2>8. \A st : Serving(st)' <=> Serving(st)
    BY <1>1, <1>2 DEF Serving, SetupOf
  <2>9. InStep' <=> InStep
    BY <1>1 DEF InStep
  <2>10. Preparing'
    BY <1>0, <1>1, <1>2, <2>4, <2>6, <2>7, <2>8, <2>9 DEF Preparing
  <2>11. Answering'
    BY <1>0, <1>1, <1>2, <2>4, <2>9 DEF Answering
  <2>12. ran.req = req => Stage = "op"
    <3>1. ran.req = req => Acked("op")
      BY <1>0 DEF Answering
    <3> QED
      BY <2>2, <3>1, Ranks DEF Acked
  <2>13. SendingData'
    <3> SUFFICES ASSUME ran.req = req, udc_state = "BULK_IN" PROVE SendingData'
      BY <1>1, <1>2 DEF SendingData
    <3>1. /\ Has(op, "data") /\ in_buf = req /\ Bulk_in_size = n /\ DataRead(Len(got))
          /\ IF inFifo = NoPkt
             THEN Len(got) > 0 /\ Bulk_in_finish = Least(n, Len(got) * FifoSize)
             ELSE /\ Len(got) * FifoSize < n /\ inFifo = Chunk(Len(got))
                  /\ Bulk_in_finish = Least(n, (Len(got) + 1) * FifoSize)
          /\ left = n - Least(n, Len(got) * FifoSize)
          /\ left # 0
      BY <1>0, <2>12 DEF SendingData
    <3>2. Stage' = "data"
      BY <2>5, <2>12, <3>1
    <3> QED
      BY <1>1, <1>2, <3>1, <3>2 DEF SendingData, DataRead, Chunk
  <2>14. SendingHandshake'
    <3> SUFFICES ASSUME ran.req = req, udc_state = "IDLE" PROVE SendingHandshake'
      BY <1>1, <1>2 DEF SendingHandshake
    <3>1. /\ Bulk_in_finish = Bulk_in_size /\ inFifo # NoPkt /\ inFifo = HsPkt(handshake_PKT)
          /\ AllRead(Len(got)) /\ ~Has(op, "data")
      BY <1>0, <2>12 DEF SendingHandshake
    <3>2. Stage' = "hs"
      BY <2>5, <2>12, <3>1
    <3> QED
      BY <1>1, <1>2, <3>1, <3>2 DEF SendingHandshake, AllRead
  <2> QED
    BY <2>10, <2>11, <2>13, <2>14 DEF Progress
<1> QED
  BY <1>3, <1>4

\* The host reads a packet: one of the data, or the handshake that ends the
\* exchange.
LEMMA ReadBulkProgress ==
  ASSUME IndInv, ExchangeInv, InStep, ReadBulk
  PROVE  Progress'
<1>0. Preparing /\ Answering /\ SendingData /\ SendingHandshake /\ Numbered /\ InTransfer /\ ~dirty /\ op # "none"
  BY DEF ExchangeInv, InStep
<1>1. /\ Stage \in {"data", "hs"} /\ inFifo # NoPkt /\ got' = Append(got, inFifo) /\ inFifo' = NoPkt
      /\ left' = (IF Stage = "data" THEN left - Least(left, inFifo.len) ELSE left)
      /\ todo' = (IF Stage = "hs" \/ left' = 0 \/ inFifo.len < FifoSize THEN Tail(todo) ELSE todo)
      /\ UNCHANGED <<outFifo, req, op, n, sent, acked, dirty>>
  BY DEF ReadBulk
<1>2. /\ UNCHANGED <<pc, cur, udc_state, Bulk_in_size, Bulk_in_finish, in_buf, out_buf, handshake_PKT>>
      /\ UNCHANGED <<start_addr, ops_length, ram_addr, ran>>
  BY DeviceKept DEF Host
<1>3. ran.req = req
  BY <1>0, <1>1 DEF Preparing
<1>4. todo # <<>> /\ acked = NoSetup
  BY <1>0, <1>1 DEF Stage, InTransfer, Control
<1>k. PICK k \in Nat : k = Len(got)
  BY LenProperties DEF IndInv, TypeOK, HostTypeOK
<1>5. k \in Nat /\ n \in Nat /\ req \in Nat /\ FifoSize \in Nat /\ FifoSize > 0
  BY FifoAssumption, BoundAssumption DEF IndInv, TypeOK, HostTypeOK
<1>6. Len(got') = k + 1 /\ (\A i \in 1..k : got'[i] = got[i]) /\ got'[k + 1] = inFifo
  <2>1. got \in Seq(Packets) /\ inFifo \in Packets
    BY DEF IndInv, TypeOK, HostTypeOK, HwTypeOK
  <2> QED
    BY <1>1, <1>k, <2>1, AppendProperties
<1>7. ASSUME DataRead(k) PROVE DataRead(k)'
  BY <1>1, <1>6, <1>7 DEF DataRead, Chunk
<1>8. Preparing'
  BY <1>1, <1>2, <1>3 DEF Preparing
<1>9. Answering'
  <2>1. Acked("op")'
    <3>1. CASE todo' = todo
      <4>1. Acked("op")' <=> Acked("op")
        BY <1>1, <3>1, AckedKept
      <4> QED
        BY <1>0, <1>3, <4>1 DEF Answering
    <3>2. CASE todo' = Tail(todo)
      <4>1. Acked("op")' <=> Acked("op")
        BY <1>0, <1>1, <1>4, <3>2, AckedStep
      <4> QED
        BY <1>0, <1>3, <4>1 DEF Answering
    <3> QED
      BY <1>1, <3>1, <3>2
  <2> QED
    BY <1>0, <1>1, <1>2, <2>1 DEF Answering, InStep
<1>10. CASE udc_state = "BULK_IN"
  <2>1. /\ Has(op, "data") /\ in_buf = req /\ Bulk_in_size = n /\ DataRead(k)
        /\ k * FifoSize < n /\ inFifo = Chunk(k)
        /\ Bulk_in_finish = Least(n, (k + 1) * FifoSize)
        /\ left = n - Least(n, k * FifoSize)
        /\ IF left = 0 THEN Stage = "hs" ELSE Stage = "data" \/ (Stage = "op" /\ got = <<>>)
    BY <1>0, <1>1, <1>3, <1>10, <1>k DEF SendingData
  <2> DEFINE len == Least(FifoSize, n - k * FifoSize)
             m == k * FifoSize
  <2>2. /\ Least(n, m) = m /\ n - m \in Nat /\ m + len = Least(n, (k + 1) * FifoSize)
        /\ Least(n - m, len) = len
        /\ len < FifoSize => n - Least(n, (k + 1) * FifoSize) = 0
    BY <1>5, <2>1, OneMore
  <2>3. inFifo.len = len
    BY <2>1 DEF Chunk, DataPkt
  <2>4. m \in Nat /\ m < n
    BY <1>5, <2>1
  <2>5. len \in Nat
    BY <1>5, <2>2 DEF Least
  <2> HIDE DEF m, len
  <2>6. left = n - m /\ left # 0 /\ Stage = "data"
    BY <1>1, <1>5, <2>1, <2>2, <2>4 DEF m
  <2>7. left' = n - Least(n, (k + 1) * FifoSize)
    <3>1. left' = (n - m) - len
      BY <1>1, <2>2, <2>3, <2>6
    <3> QED
      BY <1>5, <2>2, <2>4, <2>5, <3>1
  <2>8. todo' = IF left' = 0 THEN Tail(todo) ELSE todo
    BY <1>1, <2>2, <2>3, <2>6, <2>7
  <2>9. IF left' = 0 THEN Stage' = "hs" ELSE Stage' = "data"
    <3>1. CASE left' = 0
      <4>1. todo' = Tail(todo)
        BY <2>8, <3>1
      <4> QED
        BY <1>0, <1>1, <1>4, <2>6, <3>1, <4>1, ExchangeStep
    <3>2. CASE left' # 0
      BY <2>6, <2>8, <3>2 DEF Stage
    <3> QED
      BY <3>1, <3>2
  <2>10. DataRead(Len(got))'
    <3>1. ASSUME NEW j \in 1..(k + 1) PROVE got'[j] = Chunk(j - 1)' /\ (j - 1) * FifoSize < n
      <4>1. Chunk(j - 1)' = Chunk(j - 1)
        BY <1>1 DEF Chunk
      <4>2. CASE j \in 1..k
        BY <1>6, <2>1, <4>1, <4>2 DEF DataRead
      <4>3. CASE j = k + 1
        <5>1. j - 1 = k
          BY <1>5, <4>3
        <5> QED
          BY <1>6, <2>1, <2>4, <4>1, <4>3, <5>1 DEF m
      <4> QED
        BY <1>5, <4>2, <4>3
    <3> QED
      BY <1>1, <1>6, <3>1 DEF DataRead
  <2>11. SendingData'
    <3>1. Len(got') > 0 /\ Len(got') = k + 1
      BY <1>5, <1>6
    <3> QED
      BY <1>1, <1>2, <2>1, <2>7, <2>9, <2>10, <3>1 DEF SendingData
  <2> QED
    BY <1>2, <1>8, <1>9, <1>10, <2>11 DEF Progress, SendingHandshake
<1>11. CASE udc_state = "IDLE"
  <2>1. /\ Bulk_in_finish = Bulk_in_size /\ inFifo = HsPkt(handshake_PKT) /\ AllRead(k) /\ Stage = "hs"
    BY <1>0, <1>1, <1>3, <1>11, <1>k DEF SendingHandshake
  <2>2. Stage' = "idle"
    <3>1. todo' = Tail(todo)
      BY <1>1, <2>1
    <3> QED
      BY <1>0, <1>1, <1>4, <2>1, <3>1, ExchangeStep
  <2>3. AllRead(k)'
    BY <1>1, <1>5, <1>7, <2>1 DEF AllRead
  <2>4. Len(got') - 1 = k /\ Len(got') > 0 /\ got'[Len(got')] = HsPkt(handshake_PKT')
    BY <1>2, <1>5, <1>6, <2>1
  <2>5. AllRead(Len(got) - 1)'
    BY <1>1, <2>3, <2>4 DEF AllRead, DataRead, Chunk
  <2>6. SendingHandshake'
    BY <1>1, <1>2, <2>1, <2>2, <2>4, <2>5 DEF SendingHandshake
  <2> QED
    BY <1>2, <1>8, <1>9, <1>11, <2>6 DEF Progress, SendingData
<1> QED
  BY <1>10, <1>11 DEF IndInv, TypeOK, BulkTypeOK

-----------------------------------------------------------------------------
(* Every step, and the theorems.                                           *)

LEMMA ProgressNext ==
  ASSUME IndInv, ExchangeInv, Next
  PROVE  Progress'
<1>1. CASE ~InStep'
  BY <1>1, ProgressVacuous
<1>2. CASE InStep' /\ StartExchange
  BY <1>2, StartExchangeProgress
<1>3. CASE InStep' /\ ~StartExchange
  <2>1. InStep /\ ~Timeout /\ ~BusReset
    BY <1>3, InStepBefore DEF ExchangeInv
  <2>2. CASE udc4740Proc
    <3>1. CASE udc_reset
      <4>1. lUsb => op = "none"
        BY <3>1, udc_resetKept DEF ExchangeInv, Resetting, ResetAhead
      <4> QED
        BY <2>1, <3>1, <4>1, FirmwareProgress DEF InStep
    <3>2. CASE ReadIntrUsb \/ ReadIntrIn \/ ReadIntrOut \/ PollTail \/ EP0_Tx
      BY <2>1, <3>2, FirmwareProgress
    <3>3. CASE EPIN_Handler
      BY <2>1, <3>3, EPIN_HandlerProgress
    <3>4. CASE EPOUT_Handler
      BY <2>1, <3>4, EPOUT_HandlerProgress
    <3>5. CASE EP0_Setup
      BY <2>1, <3>5, EP0_SetupProgress
    <3>6. CASE usbHandleDevReq
      BY <2>1, <3>6, ParameterProgress, OperationProgress
    <3> QED
      BY <2>2, <3>1, <3>2, <3>3, <3>4, <3>5, <3>6 DEF udc4740Proc
  <2>3. CASE SendBulk
    BY <2>1, <2>3, SendBulkProgress
  <2>4. CASE ReadBulk
    BY <2>1, <2>4, ReadBulkProgress
  <2>5. CASE SendSetup \/ EndOldSetup \/ ControlDone \/ RetryEnumeration
    BY <2>1, <2>5, ControlProgress
  <2> QED
    BY <1>3, <2>1, <2>2, <2>3, <2>4, <2>5 DEF Next, Host
<1> QED
  BY <1>1, <1>2, <1>3

LEMMA ExchangeInit == Init => ExchangeInv
<1> SUFFICES ASSUME Init PROVE ExchangeInv
  OBVIOUS
<1>1. AnsweredOnEP0 /\ Interrupts /\ NoFifoOverrun
  BY DEF Init, AnsweredOnEP0, Interrupts, NoFifoOverrun
<1>2. Resetting
  BY DEF Init, Resetting, ResetAhead
<1>3. Enumerated
  BY DEF Init, Enumerated, NoSetup
<1>4. QuietOnReset /\ Numbered
  BY DEF Init, QuietOnReset, Numbered, NoSetup
<1>5. ~InStep
  BY DEF Init, InStep
<1>6. InTransfer /\ InService
  BY <1>5 DEF InTransfer, InService
<1>7. Preparing /\ Answering /\ SendingData /\ SendingHandshake
  BY <1>5 DEF Preparing, Answering, SendingData, SendingHandshake
<1> QED
  BY <1>1, <1>2, <1>3, <1>4, <1>6, <1>7 DEF ExchangeInv

LEMMA ExchangeStutter ==
  ASSUME ExchangeInv, UNCHANGED vars
  PROVE  ExchangeInv'
<1>1. UNCHANGED <<intrUsb, intrIn, intrOut, inFifo, outFifo, setup, setupEnd, pc, lUsb, lIn, lOut, cur,
                  ep0state>>
  BY DEF vars, hwVars, pollVars, ep0Vars
<1>2. UNCHANGED <<udc_state, Bulk_in_size, Bulk_in_finish, in_buf, out_buf, handshake_PKT, start_addr,
                  ops_length, ram_addr>>
  BY DEF vars, bulkVars, parVars
<1>3. UNCHANGED <<req, op, n, todo, sent, left, waiting, got, acked, dirty, overrun, ran>>
  BY DEF vars, hostVars, xferVars, ghosts
<1>4. Stage' = Stage /\ (InStep' <=> InStep)
  BY <1>3 DEF Stage, InStep
<1>5. AnsweredOnEP0' /\ NoFifoOverrun'
  BY <1>1, <1>3 DEF ExchangeInv, AnsweredOnEP0, NoFifoOverrun
<1>6. Resetting'
  BY <1>1, <1>3 DEF ExchangeInv, Resetting, ResetAhead
<1>7. Enumerated'
  BY <1>1, <1>3, <1>4 DEF ExchangeInv, Enumerated, ThisSetup, Pending0
<1>8. QuietOnReset'
  BY <1>1, <1>2, <1>3 DEF ExchangeInv, QuietOnReset
<1>9. Interrupts'
  BY <1>1, <1>3 DEF ExchangeInv, Interrupts, Pending1
<1>10. Numbered'
  BY <1>1, <1>3 DEF ExchangeInv, Numbered
<1>11. InTransfer'
  BY <1>1, <1>3, <1>4 DEF ExchangeInv, InTransfer, SetupOf
<1>12. InService'
  BY <1>1, <1>3, <1>4 DEF ExchangeInv, InService, SetupOf
<1>13. Progress'
  BY <1>1, <1>2, <1>3, ProgressKept DEF ExchangeInv, Progress, exchangeVars
<1> QED
  BY <1>5, <1>6, <1>7, <1>8, <1>9, <1>10, <1>11, <1>12, <1>13 DEF ExchangeInv, Progress

LEMMA ExchangeNext == IndInv /\ ExchangeInv /\ [Next]_vars => ExchangeInv'
<1>1. ASSUME IndInv, ExchangeInv, Next PROVE ExchangeInv'
  <2>1. AnsweredOnEP0' /\ Resetting' /\ Enumerated' /\ QuietOnReset'
    BY <1>1, AnsweredOnEP0Next, ResettingNext, EnumeratedNext, QuietOnResetNext DEF ExchangeInv
  <2>2. Interrupts' /\ NoFifoOverrun' /\ Numbered'
    BY <1>1, InterruptsNext, NoFifoOverrunNext, NumberedNext DEF ExchangeInv
  <2>3. InTransfer' /\ InService' /\ Progress'
    BY <1>1, InTransferNext, InServiceNext, ProgressNext
  <2> QED
    BY <2>1, <2>2, <2>3 DEF ExchangeInv, Progress
<1> QED
  BY <1>1, ExchangeStutter

\* The exchanges stay in step: the host's stage, the transfer on EP0, the interrupts of EP1 and
\* the state of udc.c fit each other in every reachable state (ExchangeInv).
THEOREM ExchangeInvariance == Spec => [](IndInv /\ ExchangeInv)
<1>1. Init => IndInv /\ ExchangeInv
  BY InitInv, ExchangeInit
<1>2. (IndInv /\ ExchangeInv) /\ [Next]_vars => (IndInv /\ ExchangeInv)'
  BY NextInv, ExchangeNext
<1> QED
  BY <1>1, <1>2, PTL DEF Spec

\* HW_SendPKT and EPIN_Handler never write a packet over one the host has not read, unless an
\* exchange was cut short by a timeout since the last udc_reset: for every packet size, every
\* operation and every interleaving of the polling loop with the host.
THEOREM FifoNotOverrun == Spec => []NoFifoOverrun
<1>1. IndInv /\ ExchangeInv => NoFifoOverrun
  BY DEF ExchangeInv
<1> QED
  BY <1>1, ExchangeInvariance, PTL

-----------------------------------------------------------------------------
(* What the host has read.                                                 *)

LEMMA Times ==
  ASSUME NEW a \in Nat, NEW b \in Nat, NEW c \in Nat, a <= b
  PROVE  a * c <= b * c
<1>1. PICK d \in Nat : b = a + d
  BY b - a \in Nat
<1>2. b * c = a * c + d * c
  BY <1>1
<1>3. d * c \in Nat /\ a * c \in Nat
  OBVIOUS
<1> QED
  BY <1>2, <1>3

LEMMA Quotient ==
  ASSUME NEW a \in Nat, NEW b \in Nat \ {0}
  PROVE  a \div b \in Nat /\ (a \div b) * b <= a /\ a < (a \div b) * b + b
OBVIOUS

\* Packet i of the data begins before the end of the data if and only if there are that many.
LEMMA PacketCount ==
  ASSUME NEW len \in Nat, NEW i \in Nat \ {0}
  PROVE  /\ (len + FifoSize - 1) \div FifoSize \in Nat
         /\ i <= (len + FifoSize - 1) \div FifoSize <=> (i - 1) * FifoSize < len
<1>1. len + FifoSize - 1 \in Nat /\ FifoSize \in Nat /\ FifoSize > 0
  BY FifoAssumption
<1>2. PICK q : q = (len + FifoSize - 1) \div FifoSize
  OBVIOUS
<1>3. PICK m : m = q * FifoSize
  OBVIOUS
<1>4. q \in Nat /\ m \in Nat /\ m <= len + FifoSize - 1 /\ len + FifoSize - 1 < m + FifoSize
  <2>1. q \in Nat /\ q * FifoSize <= len + FifoSize - 1 /\ len + FifoSize - 1 < q * FifoSize + FifoSize
    BY <1>1, <1>2, Quotient
  <2> QED
    BY <1>1, <1>3, <2>1
<1>5. PICK d : d = (i - 1) * FifoSize
  OBVIOUS
<1>6. i - 1 \in Nat /\ d \in Nat /\ i * FifoSize = d + FifoSize
  BY <1>1, <1>5
<1>7. ASSUME i <= q PROVE d < len
  <2>1. i * FifoSize <= q * FifoSize
    BY <1>1, <1>4, <1>7, Times
  <2>2. d + FifoSize <= m
    BY <1>3, <1>6, <2>1
  <2> QED
    BY <1>1, <1>4, <1>6, <2>2
<1>8. ASSUME ~(i <= q) PROVE ~(d < len)
  <2>1. q <= i - 1
    BY <1>4, <1>8
  <2>2. q * FifoSize <= (i - 1) * FifoSize
    BY <1>1, <1>4, <1>6, <2>1, Times
  <2>3. m <= d
    BY <1>3, <1>5, <2>2
  <2> QED
    BY <1>1, <1>4, <1>6, <2>3
<1> QED
  BY <1>2, <1>4, <1>5, <1>7, <1>8

\* Data that was read is what AnswerMatchesRequest asks of it.
LEMMA DataReadMatches ==
  ASSUME NEW k \in Nat, DataRead(k), Has(op, "data"), n \in Nat
  PROVE  \A i \in 1..k :
           /\ i <= DataPackets
           /\ got[i] = DataPkt(req, (i - 1) * FifoSize, Least(FifoSize, n - (i - 1) * FifoSize))
<1> TAKE i \in 1..k
<1>1. got[i] = Chunk(i - 1) /\ (i - 1) * FifoSize < n
  BY DEF DataRead
<1>2. i <= DataPackets
  <2>1. i \in Nat \ {0}
    OBVIOUS
  <2> QED
    BY <1>1, <2>1, PacketCount DEF DataPackets
<1> QED
  BY <1>1, <1>2 DEF Chunk

\* When all of it was read there are as many packets as the host expects.
LEMMA AllReadCount ==
  ASSUME NEW k \in Nat, AllRead(k), n \in Nat
  PROVE  DataPackets = k
<1>1. CASE Has(op, "data")
  <2>1. k > 0 /\ DataRead(k) /\ n <= k * FifoSize
    BY <1>1 DEF AllRead
  <2>2. DataPackets = (n + FifoSize - 1) \div FifoSize
    BY <1>1 DEF DataPackets
  <2>3. k <= DataPackets
    BY <1>1, <2>1, DataReadMatches
  <2>4. DataPackets \in Nat
    BY <2>2, PacketCount, 1 \in Nat \ {0}
  <2>5. ~(k + 1 <= DataPackets)
    <3>1. k + 1 \in Nat \ {0} /\ (k + 1) - 1 = k
      OBVIOUS
    <3>2. k * FifoSize \in Nat
      BY FifoAssumption
    <3>3. ~(k * FifoSize < n)
      BY <2>1, <3>2
    <3> QED
      BY <2>2, <3>1, <3>3, PacketCount
  <2> QED
    BY <2>3, <2>4, <2>5
<1>2. CASE ~Has(op, "data")
  BY <1>2 DEF AllRead, DataPackets
<1> QED
  BY <1>1, <1>2

\* With what was read of the data, and perhaps the handshake after it.
LEMMA DataMatches ==
  ASSUME NEW k \in Nat, AllRead(k), n \in Nat
  PROVE  \A i \in 1..k :
           /\ i <= DataPackets
           /\ got[i] = DataPkt(req, (i - 1) * FifoSize, Least(FifoSize, n - (i - 1) * FifoSize))
<1>1. CASE Has(op, "data")
  BY <1>1, DataReadMatches DEF AllRead
<1>2. CASE ~Has(op, "data")
  BY <1>2 DEF AllRead
<1> QED
  BY <1>1, <1>2

LEMMA AnswerMatches ==
  ASSUME IndInv, ExchangeInv
  PROVE  AnswerMatchesRequest
<1> SUFFICES ASSUME ~dirty, op # "none"
             PROVE  /\ \A i \in DOMAIN got :
                         IF i <= DataPackets
                         THEN got[i] = DataPkt(req, (i - 1) * FifoSize,
                                               Least(FifoSize, n - (i - 1) * FifoSize))
                         ELSE /\ i = DataPackets + 1
                              /\ got[i].kind = "hs"
                              /\ op \in PosOps => got[i].req = req
                              /\ op \in StatOps => got[i].stat = req
                    /\ todo = <<>> => Len(got) = DataPackets + 1
  BY DEF AnswerMatchesRequest, PosOps, StatOps
<1>0. InStep /\ Numbered /\ n \in Nat /\ got \in Seq(Packets)
  BY DEF InStep, ExchangeInv, IndInv, TypeOK, HostTypeOK
<1>1. DOMAIN got = 1..Len(got) /\ Len(got) \in Nat
  BY <1>0, LenProperties
<1>2. todo = <<>> <=> Stage = "idle"
  BY <1>0, ExchangeStage
<1>3. CASE ran.req # req
  <2>1. got = <<>>
    BY <1>0, <1>3 DEF ExchangeInv, Preparing
  <2>2. Stage # "idle"
    BY <1>0, <1>3, Ranks DEF ExchangeInv, Preparing
  <2> QED
    BY <1>1, <1>2, <2>1, <2>2
<1>4. CASE ran.req = req /\ udc_state = "BULK_IN"
  <2>1. Has(op, "data") /\ DataRead(Len(got)) /\ Stage # "idle"
    BY <1>0, <1>4 DEF ExchangeInv, SendingData
  <2> QED
    BY <1>0, <1>1, <1>2, <2>1, DataReadMatches
<1>5. CASE ran.req = req /\ udc_state = "IDLE" /\ inFifo # NoPkt
  <2>1. AllRead(Len(got)) /\ Stage # "idle"
    BY <1>0, <1>5 DEF ExchangeInv, SendingHandshake
  <2> QED
    BY <1>0, <1>1, <1>2, <2>1, DataMatches
<1>6. CASE ran.req = req /\ udc_state = "IDLE" /\ inFifo = NoPkt
  <2>1. PICK k : k = Len(got) - 1
    OBVIOUS
  <2>2. AllRead(k) /\ Len(got) > 0 /\ got[Len(got)] = HsPkt(handshake_PKT)
    BY <1>0, <1>6, <2>1 DEF ExchangeInv, SendingHandshake
  <2>3. k \in Nat /\ Len(got) = k + 1
    BY <1>1, <2>1, <2>2
  <2>4. DataPackets = k
    BY <1>0, <2>2, <2>3, AllReadCount
  <2>5. \A i \in 1..k :
          /\ i <= DataPackets
          /\ got[i] = DataPkt(req, (i - 1) * FifoSize, Least(FifoSize, n - (i - 1) * FifoSize))
    BY <1>0, <2>2, <2>3, DataMatches
  <2>6. /\ got[k + 1].kind = "hs"
        /\ op \in PosOps => got[k + 1].req = req
        /\ op \in StatOps => got[k + 1].stat = req
    <3>1. got[k + 1] = HsPkt(handshake_PKT)
      BY <2>2, <2>3
    <3>2. /\ op \in PosOps => handshake_PKT.pos = req
          /\ op \in StatOps => handshake_PKT.stat = req
      BY <1>0, <1>6 DEF ExchangeInv, Answering
    <3> QED
      BY <3>1, <3>2 DEF HsPkt
  <2>7. \A i \in 1..(k + 1) : i \in 1..k \/ i = k + 1
    BY <2>3
  <2>8. ~(k + 1 <= DataPackets)
    BY <2>3, <2>4
  <2> QED
    BY <1>1, <2>3, <2>4, <2>5, <2>6, <2>7, <2>8
<1> QED
  BY <1>3, <1>4, <1>5, <1>6 DEF IndInv, TypeOK, BulkTypeOK

\* Every operation works on the data, address, length and RAM address of its own exchange, the host
\* reads exactly its own answer, in order and with one handshake, and nothing of an exchange is left
\* on EP1 when the next begins: for every packet size, all data sizes, every sequence of operations
\* and every interleaving of the polling loop with the host, unless a timeout cut an exchange short.
THEOREM InStepAlways == Spec => []ExchangesInStep
<1>1. IndInv /\ ExchangeInv => ExchangesInStep
  <2> SUFFICES ASSUME IndInv, ExchangeInv PROVE ExchangesInStep
    OBVIOUS
  <2>1. OperationUsesItsInputs
    BY DEF OperationUsesItsInputs, ExchangeInv, Answering, InStep
  <2>2. LinkQuiet
    BY StartClean DEF LinkQuiet
  <2>3. AnswerMatchesRequest
    BY AnswerMatches
  <2> QED
    BY <2>1, <2>2, <2>3 DEF ExchangesInStep
<1> QED
  BY <1>1, ExchangeInvariance, PTL

=============================================================================
