--------------------------- MODULE DebugLinkProofs ---------------------------
(***************************************************************************)
(* Proofs about DebugLink, for every set of calls, words and addresses,    *)
(* every time of a byte and every limit of a wait: no byte of the host is  *)
(* dropped, and the link does what DebugService promises.                  *)
(*                                                                         *)
(* The invariant follows a call from the host to the memory and back.  On  *)
(* the way in, what the host still has to send, the byte on the line and   *)
(* what the controller holds in rdata are together the request of the      *)
(* call, cut where the state of the controller says; on the way back, what *)
(* the host has received, the byte on the line and wdata are the reply.    *)
(* Between them at most one access is under way, the one of the addr of    *)
(* the controller, and while it is a write the next byte is further away   *)
(* than the end of the access.                                             *)
(***************************************************************************)
EXTENDS DebugLink, SequenceTheorems, TLAPS

-----------------------------------------------------------------------------
(* Types.                                                                  *)

Byte    == 0 .. 255
Word    == [1 .. 4 -> Byte]
AnyWord == Words \cup {Zero}
States  == ST_IDLE .. ST_PING

HostType == [call : Calls \cup {NoCall}, out : Seq(Byte), got : Seq(Byte),
             coreEn : SUBSET (0 .. 3), ok : BOOLEAN, data : Seq(AnyWord)]
UartType == [rx_valid : BOOLEAN, rx_data : Byte, rx_left : Nat, rx_byte : Byte,
             tx_left : Nat, tx_byte : Byte]
CtlType  == [state : Nat, cmd : Byte, addr : Nat, len : Nat,
             rdata : Word, rstate : 0 .. 4, wdata : Word, wstate : 0 .. 4,
             core_en : SUBSET (0 .. 3), core_reset_n : SUBSET (0 .. 3)]
BusType  == [busy : BOOLEAN, we : BOOLEAN, adr : Nat, dat : Word, waited : 0 .. MaxWait]
ServedType == [count : Nat, words : Seq(AnyWord)]

Types ==
  /\ host \in HostType
  /\ uart \in UartType
  /\ inbox \in Seq(Byte)
  /\ ctl \in CtlType
  /\ mst \in MasterRegs(Nat, Word) /\ mst.dout \in AnyWord
  /\ bus \in BusType
  /\ mem \in [Adrs -> AnyWord]
  /\ served \in ServedType

-----------------------------------------------------------------------------
(* The request of a call and its reply, byte by byte.                      *)

Transfers(c) == c.op \in {"read", "write"}

RequestLen(c) == IF c.op = "write" THEN 7 + 4 * Len(c.data)
                 ELSE IF c.op = "read" THEN 7
                 ELSE IF c.op = "ping" THEN 1 ELSE 3

CoreByte(c, en, i)  == IF i = 3 THEN Mask(en) ELSE IF c.op = "reset" THEN Mask(c.mask) ELSE 0
TransferByte(c, i)  == IF i <= 5 THEN NumberBytes(c.addr)[i - 1]
                       ELSE IF i <= 7 THEN HalfBytes(Size(c))[i - 5]
                       ELSE Buffer(c.data)[i - 7]
RequestByte(c, en, i) == IF i = 1 THEN CmdOf(c)
                         ELSE IF Transfers(c) THEN TransferByte(c, i) ELSE CoreByte(c, en, i)

ReplyByte(ws, c, i) == IF i <= 4 * Len(ws) THEN ws[(i + 3) \div 4][((i + 3) % 4) + 1] ELSE CmdOf(c)

\* What a call does to the memory and the cores, as counted in served.
AccessesOf(c) == IF Transfers(c) THEN Size(c) ELSE IF c.op = "ping" THEN 0 ELSE 1

-----------------------------------------------------------------------------
(* The way in.                                                             *)

Flight == IF uart.rx_left # 0 \/ uart.rx_valid THEN 1 ELSE 0
OnItsWay == Len(host.out) + Flight

\* The byte i of the request of the call under way.
Req(i) == RequestByte(host.call, host.coreEn, i)

\* The last byte that has left the host.
LastSent == RequestLen(host.call) - Len(host.out)

Sending ==
  /\ OnItsWay <= RequestLen(host.call)
  /\ \A i \in 1 .. Len(host.out) : host.out[i] = Req(LastSent + i)
  /\ uart.rx_left # 0 => uart.rx_byte = Req(LastSent)
  /\ uart.rx_valid => uart.rx_data = Req(LastSent) /\ uart.rx_left = 0

\* The bytes of the request that the controller has used up.
Used == IF ctl.state = ST_IDLE THEN 0
        ELSE IF ctl.state = ST_ADDR THEN 1
        ELSE IF ctl.state = ST_LEN THEN 5
        ELSE IF ctl.state = ST_WRITE THEN 7 + 4 * (Size(host.call) - ctl.len)
        ELSE IF ctl.state = ST_ACK THEN RequestLen(host.call)
        ELSE IF Transfers(host.call) THEN 7 ELSE 1

Receiving ==
  /\ Used + ctl.rstate + OnItsWay = RequestLen(host.call)
  /\ \A i \in 1 .. ctl.rstate : ctl.rdata[4 - ctl.rstate + i] = Req(Used + i)

\* What rdata holds is used in the next cycle: no byte comes before that.
Full == \/ ctl.state = ST_IDLE /\ ctl.rstate >= 1
        \/ ctl.state = ST_ADDR /\ ctl.rstate = 4
        \/ ctl.state \in {ST_LEN, ST_CORE} /\ ctl.rstate >= 2

UsedInTime == Full => ~uart.rx_valid /\ (ctl.state = ST_IDLE => uart.rx_data = ctl.rdata[4])

\* The cycles until a write has used what rdata holds, and the next byte.
ToGo == IF mst.complete THEN 1
        ELSE IF bus.busy THEN MaxWait - bus.waited + 2
        ELSE IF mst.stb THEN MaxWait - bus.waited + 3
        ELSE MaxWait + 4

WrittenInTime ==
  ctl.state = ST_WRITE /\ ctl.rstate = 4
    => ~uart.rx_valid /\ (uart.rx_left = 0 \/ uart.rx_left >= ToGo)

-----------------------------------------------------------------------------
(* The controller.                                                         *)

Commanded ==
  LET c == host.call IN
    /\ ctl.state \in States
    /\ ctl.state = ST_IDLE \/ ctl.cmd = CmdOf(c)
    /\ ctl.state = ST_IDLE => ctl.rstate <= 1
    /\ ctl.state \in {ST_ADDR, ST_LEN} => Transfers(c)
    /\ ctl.state \in {ST_LEN, ST_CORE} => ctl.rstate <= 2
    /\ ctl.state = ST_LEN => ctl.addr = c.addr
    /\ ctl.state \in {ST_DISPATCH, ST_READ, ST_PING, ST_ACK} => ctl.rstate = 0
    /\ ctl.state = ST_DISPATCH /\ Transfers(c) => ctl.addr = c.addr /\ ctl.len = Size(c)
    /\ ctl.state = ST_READ => c.op = "read"
    /\ ctl.state = ST_WRITE => c.op = "write"
    /\ ctl.state \in {ST_READ, ST_WRITE} => ctl.len \in 1 .. Size(c) /\ ctl.addr = c.addr + (Size(c) - ctl.len)
    /\ ctl.state = ST_CORE => c.op \in CoreOps
    /\ ctl.state = ST_PING => c.op = "ping"
    /\ ctl.state = ST_ACK /\ Transfers(c) => ctl.len = 0

-----------------------------------------------------------------------------
(* The access under way.                                                   *)

NoAccess == mst.state = "ST_IDLE" /\ ~mst.stb /\ ~mst.complete /\ ~bus.busy /\ bus.waited = 0

OneWord == mst.count = 0 /\ mst.count_ack = 0 /\ mst.mask = 0

Asked == /\ mst.state = "ST_PENDING" /\ mst.stb /\ ~mst.complete /\ ~bus.busy /\ OneWord
         /\ mst.adr = ctl.addr /\ mst.we = wb_we(ctl)
         /\ wb_we(ctl) => mst.dat = ctl.rdata

Accepted == /\ mst.state = "ST_PENDING" /\ ~mst.stb /\ ~mst.complete /\ bus.busy /\ OneWord
            /\ bus.adr = ctl.addr /\ bus.we = wb_we(ctl)
            /\ wb_we(ctl) => bus.dat = ctl.rdata

Answered == /\ mst.state = "ST_IDLE" /\ ~mst.stb /\ mst.complete /\ ~bus.busy /\ bus.waited = 0
            /\ wb_re(ctl) => served.words # <<>> /\ mst.dout = served.words[Len(served.words)]

Accessing == NoAccess \/ ((wb_re(ctl) \/ wb_we(ctl)) /\ (Asked \/ Accepted \/ Answered))

\* served counts an access that is answered, the controller one that is used.
AlreadyServed == IF mst.complete THEN 1 ELSE 0

Serving ==
  LET c == host.call IN
    /\ served.count = IF ctl.state \in {ST_READ, ST_WRITE} THEN Size(c) - ctl.len + AlreadyServed
                      ELSE IF ctl.state = ST_ACK THEN AccessesOf(c) ELSE 0
    /\ Len(served.words) = IF c.op = "read" THEN served.count ELSE 0

-----------------------------------------------------------------------------
(* The way back.                                                           *)

Sent == Len(host.got) + Len(inbox) + (IF uart.tx_left # 0 THEN 1 ELSE 0)
Reply(i) == ReplyByte(served.words, host.call, i)

Replying ==
  /\ \A i \in 1 .. Len(host.got) : host.got[i] = Reply(i)
  /\ \A i \in 1 .. Len(inbox) : inbox[i] = Reply(Len(host.got) + i)
  /\ uart.tx_left # 0 => uart.tx_byte = Reply(Sent)
  /\ \A i \in 1 .. ctl.wstate : ctl.wdata[i] = Reply(Sent + i)

\* The bytes that the controller has handed to the UART or still holds.
Produced == IF host.call.op = "read" /\ ctl.state \in {ST_READ, ST_ACK}
              THEN 4 * (Size(host.call) - ctl.len) ELSE 0

-----------------------------------------------------------------------------
(* The cores.                                                              *)

After(en, c) == IF c.op = "enable" THEN en \cup c.mask
                ELSE IF c.op = "select" THEN c.mask
                ELSE IF c.op \in {"disable", "reset"} THEN en \ c.mask ELSE en

CoresFollow == host.coreEn = IF ctl.state = ST_ACK THEN ctl.core_en ELSE After(ctl.core_en, host.call)

-----------------------------------------------------------------------------
(* The invariant: no call; a call that is not acknowledged; one that is.   *)

LinkIdle == /\ host.out = <<>> /\ Flight = 0
            /\ ctl.state = ST_IDLE /\ ctl.rstate = 0
            /\ NoAccess
            /\ host.coreEn = ctl.core_en

AtRest == host.call = NoCall /\ LinkIdle /\ host.got = <<>> /\ inbox = <<>> /\ uart.tx_left = 0 /\ ctl.wstate = 0

UnderWay == /\ host.call \in Calls
            /\ Sending /\ Receiving /\ UsedInTime /\ WrittenInTime
            /\ Commanded /\ Accessing /\ Serving
            /\ Replying /\ Sent + ctl.wstate = Produced
            /\ CoresFollow

Acknowledged == /\ host.call \in Calls /\ LinkIdle
                /\ served.count = AccessesOf(host.call)
                /\ Len(served.words) = (IF host.call.op = "read" THEN served.count ELSE 0)
                /\ Replying /\ Sent + ctl.wstate = Awaited(host.call)

LinkInv == Types /\ (AtRest \/ UnderWay \/ Acknowledged)

-----------------------------------------------------------------------------
(* Calls and words.                                                        *)

\* A word is four bytes.
LEMMA ZeroIsWord == Zero \in Word /\ AnyWord \subseteq Word
  BY DebugLinkAssumption DEF Zero, Word, Byte, AnyWord

\* 65536 is written as HalfValues and expanded only where it is calculated with.
LEMMA HalfValuesIsNat == HalfValues \in Nat /\ HalfValues > 256
BY SMT DEF HalfValues

LEMMA FirstAddressFits ==
  ASSUME NEW a \in Nat, NEW n \in Nat, n >= 1, (a + n - 1) \div HalfValues < HalfValues
  PROVE  a \div HalfValues < HalfValues
<1>1. a + n - 1 \in Nat /\ a <= a + n - 1  OBVIOUS
<1>2. \A i, j \in Nat : i <= j => i \div HalfValues <= j \div HalfValues
  BY SMT DEF HalfValues
<1>3. a \div HalfValues \in Nat /\ (a + n - 1) \div HalfValues \in Nat
  BY <1>1, SMT DEF HalfValues
<1>. QED BY <1>1, <1>2, <1>3, HalfValuesIsNat

\* Every call is a read, a write, a ping or a call about the cores.
LEMMA ReadCall ==
  ASSUME NEW c \in Calls, c.op = "read"
  PROVE  c.addr \in Nat /\ c.size \in 1 .. HalfValues - 1 /\ Size(c) = c.size /\ c.addr \div HalfValues < HalfValues
<1>1. c \in ReadCalls  BY DebugLinkAssumption DEF WriteCalls, CoreCalls, CoreOps, PingCall
<1>2. c.addr \in Nat /\ Size(c) = c.size  BY <1>1 DEF ReadCalls, Size
<1>3. Size(c) \in 1 .. HalfValues - 1 /\ (c.addr + Size(c) - 1) \div HalfValues < HalfValues  BY DebugLinkAssumption
<1>4. Size(c) \in Nat /\ Size(c) >= 1  BY <1>3, HalfValuesIsNat
<1>5. c.addr \div HalfValues < HalfValues  BY <1>2, <1>3, <1>4, FirstAddressFits
<1>. QED BY <1>2, <1>3, <1>5

LEMMA WriteCall ==
  ASSUME NEW c \in Calls, c.op = "write"
  PROVE  /\ c.addr \in Nat /\ c.data \in Seq(Words) /\ Len(c.data) \in 1 .. HalfValues - 1
         /\ Size(c) = Len(c.data) /\ c.addr \div HalfValues < HalfValues
<1>1. c \in WriteCalls  BY DebugLinkAssumption DEF ReadCalls, CoreCalls, CoreOps, PingCall
<1>2. c.addr \in Nat /\ c.data \in Seq(Words) /\ Size(c) = Len(c.data)  BY <1>1 DEF WriteCalls, Size
<1>3. Size(c) \in 1 .. HalfValues - 1 /\ (c.addr + Size(c) - 1) \div HalfValues < HalfValues  BY DebugLinkAssumption
<1>4. Size(c) \in Nat /\ Size(c) >= 1  BY <1>3, HalfValuesIsNat
<1>5. c.addr \div HalfValues < HalfValues  BY <1>2, <1>3, <1>4, FirstAddressFits
<1>. QED BY <1>2, <1>3, <1>5

LEMMA CoreCall ==
  ASSUME NEW c \in Calls, c.op \in CoreOps
  PROVE  c.mask \in SUBSET (0 .. 3)
BY DebugLinkAssumption DEF ReadCalls, WriteCalls, CoreCalls, CoreOps, PingCall

LEMMA CallKinds ==
  ASSUME NEW c \in Calls
  PROVE  /\ c.op \in {"read", "write", "ping"} \cup CoreOps
         /\ c # NoCall
BY DebugLinkAssumption DEF ReadCalls, WriteCalls, CoreCalls, PingCall, NoCall, CoreOps

\* Both kinds of transfer have an address that fits into 32 bits and a length of 16.
LEMMA TransferCall ==
  ASSUME NEW c \in Calls, Transfers(c)
  PROVE  c.addr \in Nat /\ Size(c) \in 1 .. HalfValues - 1 /\ c.addr \div HalfValues < HalfValues
BY ReadCall, WriteCall DEF Transfers

\* Numbers of 16 and 32 bits survive being sent as bytes.
LEMMA HalfBytesAreBytes ==
  ASSUME NEW n \in Nat
  PROVE  /\ HalfBytes(n) \in Seq(Byte) /\ Len(HalfBytes(n)) = 2
         /\ HalfBytes(n)[1] = (n \div 256) % 256 /\ HalfBytes(n)[2] = n % 256
<1>1. (n \div 256) % 256 \in Byte /\ n % 256 \in Byte  BY DEF Byte
<1>. QED BY <1>1 DEF HalfBytes

\* The elements of a concatenation.
LEMMA Concatenated ==
  ASSUME NEW S, NEW h \in Seq(S), NEW l \in Seq(S)
  PROVE  /\ h \o l \in Seq(S) /\ Len(h \o l) = Len(h) + Len(l)
         /\ \A i \in 1 .. Len(h) : (h \o l)[i] = h[i]
         /\ \A i \in 1 .. Len(l) : (h \o l)[i + Len(h)] = l[i]
<1>1. h \o l \in Seq(S) /\ Len(h \o l) = Len(h) + Len(l)  OBVIOUS
<1>2. \A i \in 1 .. Len(h) : (h \o l)[i] = h[i]  OBVIOUS
<1>3. \A i \in 1 .. Len(l) : (h \o l)[i + Len(h)] = l[i]  OBVIOUS
<1>. QED BY <1>1, <1>2, <1>3

\* A number of 32 bits is sent as four bytes,
LEMMA NumberBytesAreBytes ==
  ASSUME NEW n \in Nat
  PROVE  /\ NumberBytes(n) \in Seq(Byte) /\ Len(NumberBytes(n)) = 4
         /\ NumberBytes(n)[1] = ((n \div HalfValues) \div 256) % 256
         /\ NumberBytes(n)[2] = (n \div HalfValues) % 256
         /\ NumberBytes(n)[3] = (n \div 256) % 256
         /\ NumberBytes(n)[4] = n % 256
<1>1. n \div HalfValues \in Nat  BY SMT DEF HalfValues
<1> DEFINE h == HalfBytes(n \div HalfValues)  l == HalfBytes(n)
<1>2. /\ h \in Seq(Byte) /\ Len(h) = 2
      /\ h[1] = ((n \div HalfValues) \div 256) % 256 /\ h[2] = (n \div HalfValues) % 256
  BY <1>1, HalfBytesAreBytes
<1>3. l \in Seq(Byte) /\ Len(l) = 2 /\ l[1] = (n \div 256) % 256 /\ l[2] = n % 256
  BY HalfBytesAreBytes
<1>4. NumberBytes(n) = h \o l  BY DEF NumberBytes
<1> HIDE DEF h, l
<1>5. /\ h \o l \in Seq(Byte) /\ Len(h \o l) = Len(h) + Len(l)
      /\ \A i \in 1 .. Len(h) : (h \o l)[i] = h[i]
      /\ \A i \in 1 .. Len(l) : (h \o l)[i + Len(h)] = l[i]
  <2>1. h \in Seq(Byte) /\ l \in Seq(Byte)  BY <1>2, <1>3
  <2>2. \A a, b \in Seq(Byte) : /\ a \o b \in Seq(Byte) /\ Len(a \o b) = Len(a) + Len(b)
                                /\ \A i \in 1 .. Len(a) : (a \o b)[i] = a[i]
                                /\ \A i \in 1 .. Len(b) : (a \o b)[i + Len(a)] = b[i]
    BY Concatenated
  <2>. QED BY <2>1, <2>2, Zenon
<1> DEFINE b == h \o l
<1> HIDE DEF b
<1>6. /\ b \in Seq(Byte) /\ Len(b) = Len(h) + Len(l)
      /\ \A i \in 1 .. Len(h) : b[i] = h[i]
      /\ \A i \in 1 .. Len(l) : b[i + Len(h)] = l[i]
  BY <1>5 DEF b
<1>7. Len(b) = 4  BY <1>2, <1>3, <1>6
<1>8. b[1] = h[1] /\ b[2] = h[2] /\ b[3] = l[1] /\ b[4] = l[2]  BY <1>2, <1>3, <1>6
<1>9. NumberBytes(n) = b  BY <1>4 DEF b
<1>. QED BY <1>2, <1>3, <1>6, <1>7, <1>8, <1>9

\* A number is put together from its quotient and its rest.
LEMMA DivMod ==
  \A n, q, r \in Nat : q = n \div 256 /\ r = n % 256 => n = q * 256 + r
OBVIOUS

\* from which the controller gets back a length of 16 bits
LEMMA HalfArrives ==
  ASSUME NEW n \in Nat, n < HalfValues, NEW a, NEW b, a = (n \div 256) % 256, b = n % 256
  PROVE  a \in Nat /\ b \in Nat /\ a * 256 + b = n
<1>1. \A i \in Nat : i < HalfValues => (i \div 256) < 256  BY SMT DEF HalfValues
<1>2. \A i \in Nat : i < 256 => i % 256 = i  OBVIOUS
<1>3. n \div 256 < 256 /\ n \div 256 \in Nat  BY <1>1
<1>4. a = n \div 256  BY <1>2, <1>3
<1>5. n % 256 \in Nat  OBVIOUS
<1>. QED BY <1>3, <1>4, <1>5, DivMod

\* and an address of 32.
LEMMA NumberArrives ==
  ASSUME NEW n \in Nat, n \div HalfValues < HalfValues,
         NEW w, \A i \in 1 .. 4 : w[i] = NumberBytes(n)[i]
  PROVE  Number(w) = n
<1> DEFINE h == n \div HalfValues
           m == n \div 256
<1>1. h \in Nat /\ h < HalfValues  BY SMT DEF HalfValues
<1>2. m \in Nat /\ m \div 256 = h
  <2>1. \A i \in Nat : (i \div 256) \div 256 = i \div HalfValues  BY SMT DEF HalfValues
  <2>. QED BY <2>1
<1>3. w[1] = (h \div 256) % 256 /\ w[2] = h % 256 /\ w[3] = m % 256 /\ w[4] = n % 256
  BY NumberBytesAreBytes
<1>4. m = n \div 256  OBVIOUS
<1> HIDE DEF h, m
<1>5. w[4] \in Nat /\ n = m * 256 + w[4]
  <2>1. w[4] = n % 256 /\ n % 256 \in Nat  BY <1>3
  <2>. QED BY <2>1, <1>2, <1>4, DivMod
<1>6. w[1] \in Nat /\ w[2] \in Nat /\ w[1] * 256 + w[2] = h  BY <1>1, <1>3, HalfArrives
<1>7. w[3] \in Nat /\ m = h * 256 + w[3]
  <2>1. w[3] = m % 256 /\ h = m \div 256 /\ m % 256 \in Nat  BY <1>2, <1>3
  <2>. QED BY <2>1, <1>1, <1>2, DivMod
<1>8. \A a, b, c, d \in Nat : a * 256 + b = h /\ m = h * 256 + c /\ n = m * 256 + d
        => ((a * 256 + b) * 256 + c) * 256 + d = n
  BY <1>1, <1>2
<1>9. Number(w) = ((w[1] * 256 + w[2]) * 256 + w[3]) * 256 + w[4]  BY DEF Number
<1>. QED BY <1>5, <1>6, <1>7, <1>8, <1>9

\* The mask of a set of cores.
LEMMA MaskOfCores ==
  ASSUME NEW S \in SUBSET (0 .. 3)
  PROVE  Mask(S) \in 0 .. 15 /\ CoresOf(Mask(S)) = S
<1> DEFINE b0 == IF 0 \in S THEN 1 ELSE 0
           b1 == IF 1 \in S THEN 2 ELSE 0
           b2 == IF 2 \in S THEN 4 ELSE 0
           b3 == IF 3 \in S THEN 8 ELSE 0
           m  == b0 + b1 + b2 + b3
<1>1. Mask(S) = m  BY DEF Mask
<1>2. m \in 0 .. 15  OBVIOUS
<1>3. 2 ^ 0 = 1 /\ 2 ^ 1 = 2 /\ 2 ^ 2 = 4 /\ 2 ^ 3 = 8  OBVIOUS
<1>4. (m \div 1) % 2 = 1 <=> 0 \in S  OBVIOUS
<1>5. (m \div 2) % 2 = 1 <=> 1 \in S  OBVIOUS
<1>6. (m \div 4) % 2 = 1 <=> 2 \in S  OBVIOUS
<1>7. (m \div 8) % 2 = 1 <=> 3 \in S  OBVIOUS
<1> HIDE DEF m
<1>8. \A i \in 0 .. 3 : i \in CoresOf(m) <=> i \in S
  <2> SUFFICES ASSUME NEW i \in 0 .. 3 PROVE i \in CoresOf(m) <=> i \in S  OBVIOUS
  <2>1. i \in CoresOf(m) <=> (m \div 2 ^ i) % 2 = 1  BY DEF CoresOf
  <2>2. CASE i = 0  BY <2>1, <2>2, <1>3, <1>4
  <2>3. CASE i = 1  BY <2>1, <2>3, <1>3, <1>5
  <2>4. CASE i = 2  BY <2>1, <2>4, <1>3, <1>6
  <2>5. CASE i = 3  BY <2>1, <2>5, <1>3, <1>7
  <2>. QED BY <2>2, <2>3, <2>4, <2>5
<1>9. CoresOf(m) \subseteq 0 .. 3  BY DEF CoresOf
<1>. QED BY <1>1, <1>2, <1>8, <1>9

\* The byte of no cores.
LEMMA NoCores == CoresOf(0) = {}
<1>1. Mask({}) = 0  BY DEF Mask
<1>. QED BY <1>1, MaskOfCores

-----------------------------------------------------------------------------
(* The request of a call.                                                  *)

\* Byte k of word d + 1 of a buffer, and the word a byte of a buffer belongs to.
LEMMA InWord == \A d \in Nat, k \in 1 .. 4 : (4 * d + k + 3) \div 4 = d + 1 /\ (4 * d + k + 3) % 4 = k - 1
BY SMT

LEMMA WordAt == \A i \in Nat, n \in Nat : i >= 1 /\ i <= 4 * n => (i + 3) \div 4 \in 1 .. n /\ (i + 3) % 4 \in 0 .. 3
BY SMT

\* The words of a call are sent byte by byte.
LEMMA BufferBytes ==
  ASSUME NEW data \in Seq(Words)
  PROVE  /\ Buffer(data) \in Seq(Byte) /\ Len(Buffer(data)) = 4 * Len(data)
         /\ \A i \in 1 .. 4 * Len(data) : Buffer(data)[i] = data[(i + 3) \div 4][((i + 3) % 4) + 1]
<1>1. Words \subseteq Word  BY ZeroIsWord DEF AnyWord
<1>2. Len(data) \in Nat  OBVIOUS
<1>3. \A i \in 1 .. 4 * Len(data) : data[(i + 3) \div 4][((i + 3) % 4) + 1] \in Byte
  <2> SUFFICES ASSUME NEW i \in 1 .. 4 * Len(data)
               PROVE  data[(i + 3) \div 4][((i + 3) % 4) + 1] \in Byte
    OBVIOUS
  <2>1. (i + 3) \div 4 \in 1 .. Len(data) /\ (i + 3) % 4 \in 0 .. 3  BY <1>2, WordAt
  <2>2. \A j \in 1 .. Len(data) : data[j] \in Words  OBVIOUS
  <2>3. \A w \in Word : \A k \in 0 .. 3 : w[k + 1] \in Byte  BY DEF Word
  <2>. QED BY <2>1, <2>2, <2>3, <1>1
<1>4. 4 * Len(data) \in Nat  BY <1>2
<1> DEFINE n == 4 * Len(data)
<1>5. Buffer(data) = [i \in 1 .. n |-> data[(i + 3) \div 4][((i + 3) % 4) + 1]]  BY DEF Buffer
<1> HIDE DEF n
<1>6. Buffer(data) \in Seq(Byte) /\ Len(Buffer(data)) = n  BY <1>3, <1>4, <1>5 DEF n
<1>. QED BY <1>5, <1>6 DEF n

\* Word d + 1 of a buffer is its bytes 4d + 1 .. 4d + 4.
LEMMA BufferWord ==
  ASSUME NEW data \in Seq(Words), NEW d \in Nat, d < Len(data), NEW k \in 1 .. 4
  PROVE  Buffer(data)[4 * d + k] = data[d + 1][k]
<1>1. 4 * d + k \in 1 .. 4 * Len(data)  OBVIOUS
<1>2. (4 * d + k + 3) \div 4 = d + 1 /\ (4 * d + k + 3) % 4 = k - 1  BY InWord
<1> DEFINE i == 4 * d + k
<1>3. Buffer(data)[i] = data[(i + 3) \div 4][((i + 3) % 4) + 1]  BY <1>1, BufferBytes
<1>4. (i + 3) \div 4 = d + 1 /\ ((i + 3) % 4) + 1 = k  BY <1>2
<1>. QED BY <1>3, <1>4

\* The six bytes of an address and a length.
LEMMA HeaderBytes ==
  ASSUME NEW c \in Calls, Transfers(c)
  PROVE  /\ Header(c) \in Seq(Byte) /\ Len(Header(c)) = 6
         /\ \A i \in 1 .. 4 : Header(c)[i] = NumberBytes(c.addr)[i]
         /\ \A i \in 1 .. 2 : Header(c)[i + 4] = HalfBytes(Size(c))[i]
<1>1. NumberBytes(c.addr) \in Seq(Byte) /\ Len(NumberBytes(c.addr)) = 4
  BY TransferCall, NumberBytesAreBytes
<1>2. HalfBytes(Size(c)) \in Seq(Byte) /\ Len(HalfBytes(Size(c))) = 2
  <2>1. Size(c) \in Nat  BY TransferCall, HalfValuesIsNat
  <2>. QED BY <2>1, HalfBytesAreBytes
<1> DEFINE h == NumberBytes(c.addr)  l == HalfBytes(Size(c))  b == h \o l
<1>3. Header(c) = b  BY DEF Header
<1> HIDE DEF h, l
<1>4. h \in Seq(Byte) /\ l \in Seq(Byte) /\ Len(h) = 4 /\ Len(l) = 2  BY <1>1, <1>2 DEF h, l
<1>5. \A x, y \in Seq(Byte) : /\ x \o y \in Seq(Byte) /\ Len(x \o y) = Len(x) + Len(y)
                              /\ \A i \in 1 .. Len(x) : (x \o y)[i] = x[i]
                              /\ \A i \in 1 .. Len(y) : (x \o y)[i + Len(x)] = y[i]
  BY Concatenated
<1>6. /\ b \in Seq(Byte) /\ Len(b) = Len(h) + Len(l)
      /\ \A i \in 1 .. Len(h) : b[i] = h[i]
      /\ \A i \in 1 .. Len(l) : b[i + Len(h)] = l[i]
  BY <1>4, <1>5, Zenon
<1> HIDE DEF b
<1>7. Len(b) = 6  BY <1>4, <1>6
<1>8. \A i \in 1 .. 4 : b[i] = h[i]  BY <1>4, <1>6
<1>9. \A i \in 1 .. 2 : b[i + 4] = l[i]  BY <1>4, <1>6
<1>. QED BY <1>3, <1>6, <1>7, <1>8, <1>9 DEF h, l

\* A command byte in front of the rest of a request.
LEMMA CommandInFront ==
  ASSUME NEW x \in Byte, NEW t \in Seq(Byte)
  PROVE  /\ <<x>> \o t \in Seq(Byte) /\ Len(<<x>> \o t) = Len(t) + 1
         /\ (<<x>> \o t)[1] = x
         /\ \A i \in 1 .. Len(t) : (<<x>> \o t)[i + 1] = t[i]
<1>1. <<x>> \in Seq(Byte) /\ Len(<<x>>) = 1 /\ <<x>>[1] = x  OBVIOUS
<1> DEFINE h == <<x>>
<1>2. h \in Seq(Byte) /\ Len(h) = 1 /\ h[1] = x  BY <1>1
<1> HIDE DEF h
<1>3. /\ h \o t \in Seq(Byte) /\ Len(h \o t) = Len(h) + Len(t)
      /\ \A i \in 1 .. Len(h) : (h \o t)[i] = h[i]
      /\ \A i \in 1 .. Len(t) : (h \o t)[i + Len(h)] = t[i]
  <2>1. \A a, b \in Seq(Byte) : /\ a \o b \in Seq(Byte) /\ Len(a \o b) = Len(a) + Len(b)
                                /\ \A i \in 1 .. Len(a) : (a \o b)[i] = a[i]
                                /\ \A i \in 1 .. Len(b) : (a \o b)[i + Len(a)] = b[i]
    BY Concatenated
  <2>. QED BY <1>2, <2>1, Zenon
<1> DEFINE b == h \o t
<1> HIDE DEF b
<1>4. /\ b \in Seq(Byte) /\ Len(b) = Len(h) + Len(t)
      /\ \A i \in 1 .. Len(h) : b[i] = h[i]
      /\ \A i \in 1 .. Len(t) : b[i + Len(h)] = t[i]
  BY <1>3 DEF b
<1>5. Len(b) = Len(t) + 1 /\ b[1] = x /\ \A i \in 1 .. Len(t) : b[i + 1] = t[i]  BY <1>2, <1>4
<1>6. b = <<x>> \o t  BY DEF b, h
<1>. QED BY <1>4, <1>5, <1>6, Zenon

\* The first byte of a request has its highest bit set for a transfer, and selects
\* the state.
LEMMA CommandOf ==
  ASSUME NEW c \in Calls
  PROVE  /\ CmdOf(c) \in Byte
         /\ CmdOf(c) >= 128 <=> Transfers(c)
         /\ c.op = "read" => CmdOf(c) % 128 = 1
         /\ c.op = "write" => CmdOf(c) % 128 = 2
         /\ c.op \in CoreOps => CmdOf(c) % 128 = 3
         /\ c.op = "ping" => CmdOf(c) % 128 = 4
<1>1. CASE c.op = "read"
  <2>1. CmdOf(c) = 129  BY <1>1 DEF CmdOf, CMD_READ, CoreOps
  <2>. QED BY <1>1, <2>1 DEF Byte, Transfers, CoreOps
<1>2. CASE c.op = "write"
  <2>1. CmdOf(c) = 130  BY <1>2 DEF CmdOf, CMD_WRITE, CoreOps
  <2>. QED BY <1>2, <2>1 DEF Byte, Transfers, CoreOps
<1>3. CASE c.op \in CoreOps
  <2>1. CmdOf(c) = 3  BY <1>3 DEF CmdOf, CMD_CORE, CoreOps
  <2>. QED BY <1>3, <2>1 DEF Byte, Transfers, CoreOps
<1>4. CASE c.op = "ping"
  <2>1. CmdOf(c) = 4  BY <1>4 DEF CmdOf, CMD_PING, CoreOps
  <2>. QED BY <1>4, <2>1 DEF Byte, Transfers, CoreOps
<1>. QED BY <1>1, <1>2, <1>3, <1>4, CallKinds

\* What the host sends for a call is the request described above, for every call.
LEMMA RequestIs ==
  ASSUME NEW c \in Calls, NEW en \in SUBSET (0 .. 3), en = CoreEn(c)
  PROVE  /\ Request(c) \in Seq(Byte) /\ Len(Request(c)) = RequestLen(c)
         /\ \A i \in 1 .. RequestLen(c) : Request(c)[i] = RequestByte(c, en, i)
<1>0. CmdOf(c) \in Byte  BY CommandOf
<1>1. CASE c.op = "read"
  <2>1. Transfers(c) /\ RequestLen(c) = 7  BY <1>1 DEF Transfers, RequestLen
  <2> DEFINE t == Header(c)
  <2>2. /\ t \in Seq(Byte) /\ Len(t) = 6
        /\ \A i \in 1 .. 4 : t[i] = NumberBytes(c.addr)[i]
        /\ \A i \in 1 .. 2 : t[i + 4] = HalfBytes(Size(c))[i]
    BY <2>1, HeaderBytes
  <2>3. Request(c) = <<CmdOf(c)>> \o t  BY <1>1 DEF Request, CoreOps
  <2> HIDE DEF t
  <2>4. /\ Request(c) \in Seq(Byte) /\ Len(Request(c)) = Len(t) + 1
        /\ Request(c)[1] = CmdOf(c)
        /\ \A i \in 1 .. Len(t) : Request(c)[i + 1] = t[i]
    BY <1>0, <2>2, <2>3, CommandInFront
  <2>5. Len(Request(c)) = 7  BY <2>2, <2>4
  <2>6. \A i \in 1 .. 7 : Request(c)[i] = RequestByte(c, en, i)
    <3> SUFFICES ASSUME NEW i \in 1 .. 7 PROVE Request(c)[i] = RequestByte(c, en, i)  OBVIOUS
    <3>1. CASE i = 1  BY <2>4, <3>1 DEF RequestByte
    <3>2. CASE i \in 2 .. 5
      <4>1. RequestByte(c, en, i) = NumberBytes(c.addr)[i - 1]  BY <2>1, <3>2 DEF RequestByte, TransferByte
      <4>2. Request(c)[i] = t[i - 1]  BY <2>2, <2>4, <3>2
      <4>. QED BY <2>2, <3>2, <4>1, <4>2
    <3>3. CASE i \in 6 .. 7
      <4>1. RequestByte(c, en, i) = HalfBytes(Size(c))[i - 5]  BY <2>1, <3>3 DEF RequestByte, TransferByte
      <4>2. Request(c)[i] = t[i - 1]  BY <2>2, <2>4, <3>3
      <4>3. i - 5 \in 1 .. 2 /\ (i - 5) + 4 = i - 1  BY <3>3
      <4>. QED BY <2>2, <4>1, <4>2, <4>3
    <3>. QED BY <3>1, <3>2, <3>3
  <2>. QED BY <2>1, <2>4, <2>5, <2>6
<1>2. CASE c.op = "write"
  <2>1. Transfers(c) /\ RequestLen(c) = 7 + 4 * Len(c.data)  BY <1>2 DEF Transfers, RequestLen
  <2> DEFINE h == Header(c)  b == Buffer(c.data)  t == h \o b
  <2>2. /\ h \in Seq(Byte) /\ Len(h) = 6
        /\ \A i \in 1 .. 4 : h[i] = NumberBytes(c.addr)[i]
        /\ \A i \in 1 .. 2 : h[i + 4] = HalfBytes(Size(c))[i]
    BY <2>1, HeaderBytes
  <2>3. b \in Seq(Byte) /\ Len(b) = 4 * Len(c.data) /\ Len(c.data) \in Nat
    BY <1>2, WriteCall, BufferBytes
  <2>4. Request(c) = <<CmdOf(c)>> \o t  BY <1>2 DEF Request, CoreOps
  <2> DEFINE n == 4 * Len(c.data)
  <2>4a. n \in Nat /\ Len(b) = n /\ RequestLen(c) = 7 + n  BY <2>1, <2>3
  <2> HIDE DEF h, b, n
  <2>5. /\ t \in Seq(Byte) /\ Len(t) = Len(h) + Len(b)
        /\ \A i \in 1 .. Len(h) : t[i] = h[i]
        /\ \A i \in 1 .. Len(b) : t[i + Len(h)] = b[i]
    <3>1. \A x, y \in Seq(Byte) : /\ x \o y \in Seq(Byte) /\ Len(x \o y) = Len(x) + Len(y)
                                  /\ \A i \in 1 .. Len(x) : (x \o y)[i] = x[i]
                                  /\ \A i \in 1 .. Len(y) : (x \o y)[i + Len(x)] = y[i]
      BY Concatenated
    <3>. QED BY <2>2, <2>3, <3>1, Zenon
  <2> HIDE DEF t
  <2>6. Len(t) = 6 + n /\ (\A i \in 1 .. 6 : t[i] = h[i]) /\ (\A i \in 1 .. n : t[i + 6] = b[i])
    BY <2>2, <2>4a, <2>5
  <2>7. /\ Request(c) \in Seq(Byte) /\ Len(Request(c)) = Len(t) + 1
        /\ Request(c)[1] = CmdOf(c)
        /\ \A i \in 1 .. Len(t) : Request(c)[i + 1] = t[i]
    BY <1>0, <2>4, <2>5, CommandInFront
  <2>8. Len(Request(c)) = 7 + n  BY <2>4a, <2>6, <2>7
  <2>9. \A i \in 1 .. 7 + n : Request(c)[i] = RequestByte(c, en, i)
    <3> SUFFICES ASSUME NEW i \in 1 .. 7 + n PROVE Request(c)[i] = RequestByte(c, en, i)  OBVIOUS
    <3>0. i \in Nat /\ n \in Nat  BY <2>4a
    <3>1. CASE i = 1  BY <2>7, <3>1 DEF RequestByte
    <3>2. CASE i \in 2 .. 5
      <4>1. RequestByte(c, en, i) = NumberBytes(c.addr)[i - 1]  BY <2>1, <3>2 DEF RequestByte, TransferByte
      <4>2. Request(c)[i] = t[i - 1]  BY <2>6, <2>7, <2>4a, <3>2
      <4>3. i - 1 \in 1 .. 6 /\ i - 1 \in 1 .. 4  BY <3>2
      <4>. QED BY <2>2, <2>6, <4>1, <4>2, <4>3
    <3>3. CASE i \in 6 .. 7
      <4>1. RequestByte(c, en, i) = HalfBytes(Size(c))[i - 5]  BY <2>1, <3>3 DEF RequestByte, TransferByte
      <4>2. Request(c)[i] = t[i - 1]  BY <2>6, <2>7, <2>4a, <3>3
      <4>3. i - 5 \in 1 .. 2 /\ (i - 5) + 4 = i - 1 /\ i - 1 \in 1 .. 6  BY <3>3
      <4>. QED BY <2>2, <2>6, <4>1, <4>2, <4>3
    <3>4. CASE i > 7
      <4>1. RequestByte(c, en, i) = b[i - 7]  BY <2>1, <3>0, <3>4 DEF RequestByte, TransferByte, b
      <4>2. i - 1 \in 1 .. 6 + n /\ (i - 1) + 1 = i /\ i - 7 \in 1 .. n /\ (i - 7) + 6 = i - 1
        BY <3>0, <3>4
      <4>3. Request(c)[i] = t[i - 1]  BY <2>6, <2>7, <4>2
      <4>. QED BY <2>6, <4>1, <4>2, <4>3
    <3>. QED BY <3>0, <3>1, <3>2, <3>3, <3>4
  <2>. QED BY <2>4a, <2>7, <2>8, <2>9
<1>3. CASE c.op \in CoreOps
  <2>1. ~Transfers(c) /\ RequestLen(c) = 3  BY <1>3 DEF Transfers, RequestLen, CoreOps
  <2> DEFINE x == IF c.op = "reset" THEN Mask(c.mask) ELSE 0
             t == <<x, Mask(en)>>
  <2>2. x \in Byte /\ Mask(en) \in Byte  BY <1>3, CoreCall, MaskOfCores DEF Byte
  <2>3. Request(c) = <<CmdOf(c)>> \o t  BY <1>3 DEF Request, CoreOps
  <2> HIDE DEF x
  <2>4. t \in Seq(Byte) /\ Len(t) = 2 /\ t[1] = x /\ t[2] = Mask(en)  BY <2>2
  <2> HIDE DEF t
  <2>5. /\ Request(c) \in Seq(Byte) /\ Len(Request(c)) = Len(t) + 1
        /\ Request(c)[1] = CmdOf(c)
        /\ \A i \in 1 .. Len(t) : Request(c)[i + 1] = t[i]
    BY <1>0, <2>3, <2>4, CommandInFront
  <2>6. Len(Request(c)) = 3 /\ Request(c)[2] = x /\ Request(c)[3] = Mask(en)  BY <2>4, <2>5
  <2>7. RequestByte(c, en, 1) = CmdOf(c) /\ RequestByte(c, en, 2) = x /\ RequestByte(c, en, 3) = Mask(en)
    BY <2>1 DEF RequestByte, CoreByte, x
  <2>8. \A i \in 1 .. 3 : Request(c)[i] = RequestByte(c, en, i)
    <3>1. \A i \in 1 .. 3 : i = 1 \/ i = 2 \/ i = 3  OBVIOUS
    <3>. QED BY <2>5, <2>6, <2>7, <3>1
  <2>. QED BY <2>1, <2>5, <2>6, <2>8, Zenon
<1>4. CASE c.op = "ping"
  <2>1. RequestLen(c) = 1  BY <1>4 DEF RequestLen
  <2>2. Request(c) = <<CmdOf(c)>> \o << >>  BY <1>4 DEF Request, CoreOps
  <2>3. Request(c) = <<CmdOf(c)>>  BY <1>0, <2>2
  <2>4. RequestByte(c, en, 1) = CmdOf(c)  BY DEF RequestByte
  <2>. QED BY <1>0, <2>1, <2>3, <2>4
<1>. QED BY <1>1, <1>2, <1>3, <1>4, CallKinds

-----------------------------------------------------------------------------
(* One edge of the controller.                                             *)

\* Sequences: the rest and the head, one element more, and functions on 1 .. n.
LEMMA TailIs ==
  ASSUME NEW S, NEW q \in Seq(S), Len(q) > 0
  PROVE  /\ Tail(q) \in Seq(S) /\ Len(Tail(q)) = Len(q) - 1
         /\ \A i \in 1 .. Len(q) - 1 : Tail(q)[i] = q[i + 1]
         /\ Head(q) \in S /\ Head(q) = q[1]
<1>0. q # << >>  OBVIOUS
<1>1. Tail(q) \in Seq(S) /\ Len(Tail(q)) = Len(q) - 1  BY <1>0
<1>2. \A i \in 1 .. Len(q) - 1 : Tail(q)[i] = q[i + 1]  BY <1>0
<1>3. Head(q) \in S /\ Head(q) = q[1]  BY <1>0
<1>. QED BY <1>1, <1>2, <1>3

LEMMA AppendIs ==
  ASSUME NEW S, NEW q \in Seq(S), NEW x \in S
  PROVE  /\ Append(q, x) \in Seq(S) /\ Len(Append(q, x)) = Len(q) + 1
         /\ \A i \in 1 .. Len(q) : Append(q, x)[i] = q[i]
         /\ Append(q, x)[Len(q) + 1] = x
<1>1. Append(q, x) \in Seq(S) /\ Len(Append(q, x)) = Len(q) + 1  OBVIOUS
<1>2. \A i \in 1 .. Len(q) : Append(q, x)[i] = q[i]  OBVIOUS
<1>3. Append(q, x)[Len(q) + 1] = x  OBVIOUS
<1>. QED BY <1>1, <1>2, <1>3

LEMMA FunctionIsSeq ==
  ASSUME NEW S, NEW n \in Nat, NEW f \in [1 .. n -> S]
  PROVE  f \in Seq(S) /\ Len(f) = n
OBVIOUS

LEMMA SeqIsFunction ==
  ASSUME NEW S, NEW f \in Seq(S)
  PROVE  f \in [1 .. Len(f) -> S]
OBVIOUS

\* A byte is shifted into a word from the right.
LEMMA ShiftInIs ==
  ASSUME NEW w \in Word, NEW x \in Byte
  PROVE  /\ ShiftIn(w, x) \in Word
         /\ \A i \in 1 .. 3 : ShiftIn(w, x)[i] = w[i + 1]
         /\ ShiftIn(w, x)[4] = x
<1> DEFINE N == 4
<1>n. N \in Nat /\ N = 4  OBVIOUS
<1>w. w \in [1 .. N -> Byte]  BY DEF Word
<1> HIDE DEF N
<1>1. w \in Seq(Byte) /\ Len(w) = N  BY <1>n, <1>w, FunctionIsSeq
<1> DEFINE t == Tail(w)
<1>0. Len(w) > 0  BY <1>n, <1>1
<1>2. t \in Seq(Byte) /\ Len(t) = N - 1 /\ \A i \in 1 .. N - 1 : t[i] = w[i + 1]
  BY <1>0, <1>1, TailIs
<1> HIDE DEF t
<1> DEFINE n == Append(t, x)
<1>3. /\ n \in Seq(Byte) /\ Len(n) = Len(t) + 1
      /\ (\A i \in 1 .. Len(t) : n[i] = t[i]) /\ n[Len(t) + 1] = x
  BY <1>2, AppendIs
<1>4. ShiftIn(w, x) = n  BY DEF ShiftIn, t
<1> HIDE DEF n
<1>5. Len(n) = N  BY <1>n, <1>2, <1>3
<1>6. n \in [1 .. N -> Byte]  BY <1>3, <1>5, SeqIsFunction
<1>7. n \in Word  BY <1>6 DEF Word, N
<1>8. \A i \in 1 .. 3 : n[i] = w[i + 1]  BY <1>n, <1>2, <1>3
<1>9. n[4] = x  BY <1>n, <1>2, <1>3
<1>. QED BY <1>4, <1>7, <1>8, <1>9

\* The state of the FSM is done with what rdata holds; a byte is shifted in; an
\* access of the master is complete.
Uses(r) == \/ r.state = ST_IDLE /\ r.rstate # 0
           \/ r.state = ST_ADDR /\ r.rstate = 4
           \/ r.state \in {ST_LEN, ST_CORE} /\ r.rstate >= 2
TakesByte(r, rx) == rx.valid /\ r.rstate # 4
GivesByte(r, busy) == ~busy /\ r.wstate # 0
Completes(r, m) == (wb_re(r) \/ wb_we(r)) /\ m.complete
Acks(r) == r.state = ST_ACK /\ r.wstate = 0

\* The registers after the two shifts at the start of the process,
LEMMA ShiftedFields ==
  ASSUME NEW r \in CtlType, NEW rx, rx.data \in Byte, NEW busy
  PROVE  LET s == Shifted(r, rx, busy) IN
         /\ s \in CtlType
         /\ s.rdata = IF TakesByte(r, rx) THEN ShiftIn(r.rdata, rx.data) ELSE r.rdata
         /\ s.rstate = IF TakesByte(r, rx) THEN r.rstate + 1 ELSE r.rstate
         /\ s.wdata = IF GivesByte(r, busy) THEN ShiftIn(r.wdata, 0) ELSE r.wdata
         /\ s.wstate = IF GivesByte(r, busy) THEN r.wstate - 1 ELSE r.wstate
         /\ s.state = r.state /\ s.cmd = r.cmd /\ s.addr = r.addr /\ s.len = r.len
         /\ s.core_en = r.core_en /\ s.core_reset_n = r.core_reset_n
<1> DEFINE s == Shifted(r, rx, busy)
           rd == IF TakesByte(r, rx) THEN ShiftIn(r.rdata, rx.data) ELSE r.rdata
           rs == IF TakesByte(r, rx) THEN r.rstate + 1 ELSE r.rstate
           wd == IF GivesByte(r, busy) THEN ShiftIn(r.wdata, 0) ELSE r.wdata
           ws == IF GivesByte(r, busy) THEN r.wstate - 1 ELSE r.wstate
<1>0. r.rdata \in Word /\ r.wdata \in Word /\ r.rstate \in 0 .. 4 /\ r.wstate \in 0 .. 4  BY DEF CtlType
<1>1. rd \in Word
  <2>1. ShiftIn(r.rdata, rx.data) \in Word  BY <1>0, ShiftInIs
  <2>. QED BY <1>0, <2>1
<1>2. wd \in Word
  <2>1. 0 \in Byte  BY DEF Byte
  <2>2. ShiftIn(r.wdata, 0) \in Word  BY <1>0, <2>1, ShiftInIs
  <2>. QED BY <1>0, <2>2
<1>3. rs \in 0 .. 4  BY <1>0 DEF TakesByte
<1>4. ws \in 0 .. 4  BY <1>0 DEF GivesByte
<1>5. s = [r EXCEPT !.rdata = rd, !.rstate = rs, !.wdata = wd, !.wstate = ws]
  BY DEF Shifted, TakesByte, GivesByte, tx_en
<1> HIDE DEF rd, rs, wd, ws, s
<1>6. /\ s \in CtlType /\ s.rdata = rd /\ s.rstate = rs /\ s.wdata = wd /\ s.wstate = ws
      /\ s.state = r.state /\ s.cmd = r.cmd /\ s.addr = r.addr /\ s.len = r.len
      /\ s.core_en = r.core_en /\ s.core_reset_n = r.core_reset_n
  BY <1>1, <1>2, <1>3, <1>4, <1>5 DEF CtlType
<1>. QED BY <1>6 DEF rd, rs, wd, ws, s

StateValues ==
  /\ ST_IDLE = 0 /\ ST_ADDR = 1 /\ ST_LEN = 2 /\ ST_ACK = 3 /\ ST_DISPATCH = 4
  /\ ST_READ = 5 /\ ST_WRITE = 6 /\ ST_CORE = 7 /\ ST_PING = 8

\* The states are numbers, and different ones.
LEMMA StatesDiffer == StateValues
  BY DEF StateValues, ST_IDLE, ST_ADDR, ST_LEN, ST_ACK, ST_DISPATCH, ST_READ, ST_WRITE, ST_CORE, ST_PING

LEMMA NumbersAreNat ==
  ASSUME NEW w \in Word
  PROVE  Number(w) \in Nat /\ Half(w) \in Nat /\ w[4] \in Byte
<1>1. w[1] \in Nat /\ w[2] \in Nat /\ w[3] \in Nat /\ w[4] \in Nat /\ w[4] \in Byte  BY DEF Word, Byte
<1>. QED BY <1>1 DEF Number, Half

LEMMA CoresOfIsSet == \A b : CoresOf(b) \in SUBSET (0 .. 3)
  BY DEF CoresOf

\* What the FSM makes of the registers after the shifts.
FsmResult(n, r, s, rx) ==
  /\ n \in CtlType
  /\ n.rdata = s.rdata
  /\ n.rstate = IF Uses(r) THEN 0 ELSE s.rstate
  /\ n.wdata = IF Acks(r) THEN [s.wdata EXCEPT ![1] = r.cmd] ELSE s.wdata
  /\ n.wstate = IF Acks(r) THEN 1 ELSE s.wstate
  /\ n.cmd = IF r.state = ST_IDLE /\ Uses(r) THEN r.rdata[4] ELSE r.cmd
  /\ n.addr = IF r.state = ST_ADDR /\ Uses(r) THEN Number(r.rdata) ELSE r.addr
  /\ n.len = IF r.state = ST_LEN /\ Uses(r) THEN Half(r.rdata) ELSE r.len
  /\ n.core_en = IF r.state = ST_CORE /\ Uses(r)
                   THEN CoresOf(r.rdata[4]) \ CoresOf(r.rdata[3]) ELSE r.core_en
  /\ n.core_reset_n = IF r.state = ST_CORE /\ Uses(r)
                        THEN (0 .. 3) \ CoresOf(r.rdata[3]) ELSE r.core_reset_n
  /\ n.state = IF r.state = ST_IDLE /\ Uses(r)
                 THEN (IF rx.data >= 128 THEN ST_ADDR ELSE ST_DISPATCH)
               ELSE IF r.state = ST_ADDR /\ Uses(r) THEN ST_LEN
               ELSE IF r.state = ST_LEN /\ Uses(r) THEN ST_DISPATCH
               ELSE IF r.state = ST_DISPATCH THEN ST_DISPATCH + (r.cmd % 128)
               ELSE IF (r.state = ST_CORE /\ Uses(r)) \/ r.state = ST_PING THEN ST_ACK
               ELSE IF Acks(r) THEN ST_IDLE ELSE r.state

\* after the case statement,
LEMMA FsmFields ==
  ASSUME NEW r \in CtlType, NEW s \in CtlType, NEW rx, NEW n, n = FsmStep(r, s, rx),
         s.state = r.state /\ s.cmd = r.cmd /\ s.addr = r.addr /\ s.len = r.len,
         s.core_en = r.core_en /\ s.core_reset_n = r.core_reset_n
  PROVE  FsmResult(n, r, s, rx)
<1> USE DEF FsmResult
<1>0. r.rdata \in Word /\ r.rstate \in 0 .. 4 /\ r.wstate \in 0 .. 4 /\ r.cmd \in Byte /\ r.state \in Nat
      /\ s.wdata \in Word
  BY DEF CtlType
<1>v. StateValues  BY StatesDiffer
<1>t. Number(r.rdata) \in Nat /\ Half(r.rdata) \in Nat /\ r.rdata[4] \in Byte  BY <1>0, NumbersAreNat
<1>1. CASE r.state = ST_IDLE /\ Uses(r)
  <2>1. Uses(r) /\ r.state = ST_IDLE /\ ~Acks(r) /\ r.state \notin {ST_ADDR, ST_LEN, ST_DISPATCH, ST_CORE, ST_PING}
    BY <1>1, <1>v DEF Acks, StateValues
  <2>2. r.rstate # 0  BY <1>1, <1>v DEF Uses, StateValues
  <2>3. n = [s EXCEPT !.cmd = r.rdata[4], !.rstate = 0,
                      !.state = IF rx.data >= 128 THEN ST_ADDR ELSE ST_DISPATCH]
    BY <2>1, <2>2, <1>v DEF FsmStep, StateValues
  <2>4. (IF rx.data >= 128 THEN ST_ADDR ELSE ST_DISPATCH) \in Nat  BY <1>v DEF StateValues
  <2>5a. n \in CtlType
    <3> DEFINE z == 0
    <3>1. z \in 0 .. 4  OBVIOUS
    <3>2. n = [s EXCEPT !.cmd = r.rdata[4], !.rstate = z, !.state = IF rx.data >= 128 THEN ST_ADDR ELSE ST_DISPATCH]  BY <2>3
    <3> HIDE DEF z
    <3>. QED BY <3>1, <3>2, <2>4, <1>t DEF CtlType
  <2>6. /\ n.rdata = s.rdata /\ n.rstate = 0 /\ n.wdata = s.wdata /\ n.wstate = s.wstate /\ n.cmd = r.rdata[4]
        /\ n.addr = s.addr /\ n.len = s.len /\ n.core_en = s.core_en /\ n.core_reset_n = s.core_reset_n
        /\ n.state = IF rx.data >= 128 THEN ST_ADDR ELSE ST_DISPATCH
    BY <2>3, <2>4, <1>t DEF CtlType
  <2>. QED BY <2>1, <2>5a, <2>6
<1>2. CASE r.state = ST_ADDR /\ Uses(r)
  <2>1. Uses(r) /\ r.state = ST_ADDR /\ ~Acks(r) /\ r.state \notin {ST_IDLE, ST_LEN, ST_DISPATCH, ST_CORE, ST_PING}
    BY <1>2, <1>v DEF Acks, StateValues
  <2>2. r.rstate = 4  BY <1>2, <1>v DEF Uses, StateValues
  <2>3. n = [s EXCEPT !.addr = Number(r.rdata), !.rstate = 0, !.state = ST_LEN]
    BY <2>1, <2>2, <1>v DEF FsmStep, StateValues
  <2>4. ST_LEN \in Nat  BY <1>v DEF StateValues
  <2>5a. n \in CtlType
    <3> DEFINE z == 0
    <3>1. z \in 0 .. 4  OBVIOUS
    <3>2. n = [s EXCEPT !.addr = Number(r.rdata), !.rstate = z, !.state = ST_LEN]  BY <2>3
    <3> HIDE DEF z
    <3>. QED BY <3>1, <3>2, <2>4, <1>t DEF CtlType
  <2>6. /\ n.rdata = s.rdata /\ n.rstate = 0 /\ n.wdata = s.wdata /\ n.wstate = s.wstate /\ n.cmd = s.cmd
        /\ n.addr = Number(r.rdata) /\ n.len = s.len /\ n.core_en = s.core_en /\ n.core_reset_n = s.core_reset_n
        /\ n.state = ST_LEN
    BY <2>3, <2>4, <1>t DEF CtlType
  <2>. QED BY <2>1, <2>5a, <2>6
<1>3. CASE r.state = ST_LEN /\ Uses(r)
  <2>1. Uses(r) /\ r.state = ST_LEN /\ ~Acks(r) /\ r.state \notin {ST_IDLE, ST_ADDR, ST_DISPATCH, ST_CORE, ST_PING}
    BY <1>3, <1>v DEF Acks, StateValues
  <2>2. r.rstate >= 2  BY <1>3, <1>v DEF Uses, StateValues
  <2>3. n = [s EXCEPT !.len = Half(r.rdata), !.rstate = 0, !.state = ST_DISPATCH]
    BY <2>1, <2>2, <1>v DEF FsmStep, StateValues
  <2>4. ST_DISPATCH \in Nat  BY <1>v DEF StateValues
  <2>5a. n \in CtlType
    <3> DEFINE z == 0
    <3>1. z \in 0 .. 4  OBVIOUS
    <3>2. n = [s EXCEPT !.len = Half(r.rdata), !.rstate = z, !.state = ST_DISPATCH]  BY <2>3
    <3> HIDE DEF z
    <3>. QED BY <3>1, <3>2, <2>4, <1>t DEF CtlType
  <2>6. /\ n.rdata = s.rdata /\ n.rstate = 0 /\ n.wdata = s.wdata /\ n.wstate = s.wstate /\ n.cmd = s.cmd
        /\ n.addr = s.addr /\ n.len = Half(r.rdata) /\ n.core_en = s.core_en /\ n.core_reset_n = s.core_reset_n
        /\ n.state = ST_DISPATCH
    BY <2>3, <2>4, <1>t DEF CtlType
  <2>. QED BY <2>1, <2>5a, <2>6
<1>4. CASE r.state = ST_DISPATCH
  <2>1. ~Uses(r) /\ ~Acks(r) /\ r.state \notin {ST_IDLE, ST_ADDR, ST_LEN, ST_CORE, ST_PING}
    BY <1>4, <1>v DEF Acks, Uses, StateValues
  <2>3. n = [s EXCEPT !.state = ST_DISPATCH + (r.cmd % 128)]
    BY <1>4, <2>1, <1>v DEF FsmStep, StateValues
  <2>4. ST_DISPATCH + (r.cmd % 128) \in Nat  BY <1>0, <1>v DEF Byte, StateValues
  <2>. QED BY <1>4, <2>1, <2>3, <2>4 DEF CtlType
<1>5. CASE r.state = ST_CORE /\ Uses(r)
  <2>1. Uses(r) /\ r.state = ST_CORE /\ ~Acks(r) /\ r.state \notin {ST_IDLE, ST_ADDR, ST_LEN, ST_DISPATCH, ST_PING}
    BY <1>5, <1>v DEF Acks, StateValues
  <2>2. r.rstate >= 2  BY <1>5, <1>v DEF Uses, StateValues
  <2>3. n = [s EXCEPT !.core_en = CoresOf(r.rdata[4]) \ CoresOf(r.rdata[3]),
                      !.core_reset_n = (0 .. 3) \ CoresOf(r.rdata[3]),
                      !.rstate = 0, !.state = ST_ACK]
    BY <2>1, <2>2, <1>v DEF FsmStep, StateValues
  <2>4. ST_ACK \in Nat /\ CoresOf(r.rdata[4]) \ CoresOf(r.rdata[3]) \in SUBSET (0 .. 3)
        /\ (0 .. 3) \ CoresOf(r.rdata[3]) \in SUBSET (0 .. 3)
    BY <1>v, CoresOfIsSet DEF StateValues
  <2>5a. n \in CtlType
    <3> DEFINE z == 0
    <3>1. z \in 0 .. 4  OBVIOUS
    <3>2. n = [s EXCEPT !.core_en = CoresOf(r.rdata[4]) \ CoresOf(r.rdata[3]),
                      !.core_reset_n = (0 .. 3) \ CoresOf(r.rdata[3]),
                      !.rstate = z, !.state = ST_ACK]  BY <2>3
    <3> HIDE DEF z
    <3>. QED BY <3>1, <3>2, <2>4 DEF CtlType
  <2>6. /\ n.rdata = s.rdata /\ n.rstate = 0 /\ n.wdata = s.wdata /\ n.wstate = s.wstate /\ n.cmd = s.cmd
        /\ n.addr = s.addr /\ n.len = s.len /\ n.core_en = CoresOf(r.rdata[4]) \ CoresOf(r.rdata[3]) /\ n.core_reset_n = (0 .. 3) \ CoresOf(r.rdata[3])
        /\ n.state = ST_ACK
    BY <2>3, <2>4 DEF CtlType
  <2>. QED BY <2>1, <2>5a, <2>6
<1>6. CASE r.state = ST_PING
  <2>1. ~Uses(r) /\ ~Acks(r) /\ r.state \notin {ST_IDLE, ST_ADDR, ST_LEN, ST_CORE, ST_DISPATCH}
    BY <1>6, <1>v DEF Acks, Uses, StateValues
  <2>3. n = [s EXCEPT !.state = ST_ACK]
    BY <1>6, <2>1, <1>v DEF FsmStep, StateValues
  <2>4. ST_ACK \in Nat  BY <1>v DEF StateValues
  <2>. QED BY <1>6, <2>1, <2>3, <2>4 DEF CtlType
<1>7. CASE Acks(r)
  <2>1. r.state = ST_ACK /\ r.wstate = 0  BY <1>7 DEF Acks
  <2>2. ~Uses(r) /\ r.state \notin {ST_IDLE, ST_ADDR, ST_LEN, ST_CORE, ST_DISPATCH, ST_PING}
    BY <2>1, <1>v DEF Uses, StateValues
  <2>3. n = [s EXCEPT !.state = ST_IDLE, !.wstate = 1, !.wdata[1] = r.cmd]
    BY <2>1, <2>2, <1>v DEF FsmStep, StateValues
  <2> DEFINE w == [s.wdata EXCEPT ![1] = r.cmd]
  <2>4. w \in Word /\ ST_IDLE \in Nat  BY <1>0, <1>v DEF Word, StateValues
  <2>5. n = [s EXCEPT !.state = ST_IDLE, !.wstate = 1, !.wdata = w]  BY <2>3
  <2> HIDE DEF w
  <2>5a. n \in CtlType
    <3> DEFINE z == 1
    <3>1. z \in 0 .. 4  OBVIOUS
    <3>2. n = [s EXCEPT !.state = ST_IDLE, !.wstate = z, !.wdata = w]  BY <2>5
    <3> HIDE DEF z
    <3>. QED BY <3>1, <3>2, <2>4 DEF CtlType
  <2>6. /\ n.rdata = s.rdata /\ n.rstate = s.rstate /\ n.wdata = w /\ n.wstate = 1 /\ n.cmd = s.cmd
        /\ n.addr = s.addr /\ n.len = s.len /\ n.core_en = s.core_en /\ n.core_reset_n = s.core_reset_n
        /\ n.state = ST_IDLE
    BY <2>4, <2>5 DEF CtlType
  <2>. QED BY <1>7, <2>2, <2>5a, <2>6 DEF w
<1>8. CASE ~Uses(r) /\ r.state # ST_DISPATCH /\ r.state # ST_PING /\ ~Acks(r)
  <2>1. /\ ~(r.state = ST_IDLE /\ r.rstate # 0) /\ ~(r.state = ST_ADDR /\ r.rstate = 4)
        /\ ~(r.state = ST_LEN /\ r.rstate >= 2) /\ ~(r.state = ST_CORE /\ r.rstate >= 2)
        /\ ~(r.state = ST_ACK /\ r.wstate = 0)
    BY <1>8 DEF Uses, Acks
  <2>2. n = s  BY <1>8, <2>1, <1>v DEF FsmStep, StateValues
  <2>. QED BY <1>8, <2>2
<1>9. Uses(r) => r.state \in {ST_IDLE, ST_ADDR, ST_LEN, ST_CORE}  BY DEF Uses
<1>. QED BY <1>1, <1>2, <1>3, <1>4, <1>5, <1>6, <1>7, <1>8, <1>9

\* The registers after an edge.
CtrlResult(n, r, rx, busy, m) ==
  /\ n \in CtlType
  /\ n.rdata = IF TakesByte(r, rx) THEN ShiftIn(r.rdata, rx.data) ELSE r.rdata
  /\ n.rstate = IF Uses(r) \/ (Completes(r, m) /\ wb_we(r)) THEN 0
                ELSE IF TakesByte(r, rx) THEN r.rstate + 1 ELSE r.rstate
  /\ n.wdata = IF Completes(r, m) /\ wb_re(r) THEN m.dout
               ELSE IF Acks(r) THEN [r.wdata EXCEPT ![1] = r.cmd]
               ELSE IF GivesByte(r, busy) THEN ShiftIn(r.wdata, 0) ELSE r.wdata
  /\ n.wstate = IF Completes(r, m) /\ wb_re(r) THEN 4
                ELSE IF Acks(r) THEN 1
                ELSE IF GivesByte(r, busy) THEN r.wstate - 1 ELSE r.wstate
  /\ n.cmd = IF r.state = ST_IDLE /\ Uses(r) THEN r.rdata[4] ELSE r.cmd
  /\ n.addr = IF r.state = ST_ADDR /\ Uses(r) THEN Number(r.rdata)
              ELSE IF Completes(r, m) THEN r.addr + 1 ELSE r.addr
  /\ n.len = IF r.state = ST_LEN /\ Uses(r) THEN Half(r.rdata)
             ELSE IF Completes(r, m) THEN (r.len + HalfValues - 1) % HalfValues ELSE r.len
  /\ n.core_en = IF r.state = ST_CORE /\ Uses(r)
                   THEN CoresOf(r.rdata[4]) \ CoresOf(r.rdata[3]) ELSE r.core_en
  /\ n.core_reset_n = IF r.state = ST_CORE /\ Uses(r)
                        THEN (0 .. 3) \ CoresOf(r.rdata[3]) ELSE r.core_reset_n
  /\ n.state = IF r.state = ST_IDLE /\ Uses(r)
                 THEN (IF rx.data >= 128 THEN ST_ADDR ELSE ST_DISPATCH)
               ELSE IF r.state = ST_ADDR /\ Uses(r) THEN ST_LEN
               ELSE IF r.state = ST_LEN /\ Uses(r) THEN ST_DISPATCH
               ELSE IF r.state = ST_DISPATCH THEN ST_DISPATCH + (r.cmd % 128)
               ELSE IF (r.state = ST_CORE /\ Uses(r)) \/ r.state = ST_PING THEN ST_ACK
               ELSE IF Acks(r) THEN ST_IDLE
               ELSE IF Completes(r, m) /\ r.len = 1 THEN ST_ACK ELSE r.state

\* and after the edge: each register with the conditions under which it changes.
LEMMA CtrlFields ==
  ASSUME NEW r \in CtlType, NEW rx, rx.data \in Byte, NEW busy, NEW m, m.dout \in Word
  PROVE  CtrlResult(CtrlEdge(r, rx, busy, m), r, rx, busy, m)
<1> DEFINE u == Shifted(r, rx, busy)
           s == FsmStep(r, u, rx)
           n == CtrlEdge(r, rx, busy, m)
<1>v. StateValues  BY StatesDiffer
<1>1. /\ u \in CtlType
      /\ u.rdata = IF TakesByte(r, rx) THEN ShiftIn(r.rdata, rx.data) ELSE r.rdata
      /\ u.rstate = IF TakesByte(r, rx) THEN r.rstate + 1 ELSE r.rstate
      /\ u.wdata = IF GivesByte(r, busy) THEN ShiftIn(r.wdata, 0) ELSE r.wdata
      /\ u.wstate = IF GivesByte(r, busy) THEN r.wstate - 1 ELSE r.wstate
      /\ u.state = r.state /\ u.cmd = r.cmd /\ u.addr = r.addr /\ u.len = r.len
      /\ u.core_en = r.core_en /\ u.core_reset_n = r.core_reset_n
  BY ShiftedFields
<1> HIDE DEF u
<1>s. s = FsmStep(r, u, rx)  OBVIOUS
<1> HIDE DEF s
<1>2. FsmResult(s, r, u, rx)
  <2>1. /\ u \in CtlType /\ u.state = r.state /\ u.cmd = r.cmd /\ u.addr = r.addr /\ u.len = r.len
        /\ u.core_en = r.core_en /\ u.core_reset_n = r.core_reset_n
    BY <1>1
  <2>. QED BY <2>1, <1>s, FsmFields
<1>3. n = IF Completes(r, m) THEN WordDone(r, s, m) ELSE s  BY <1>s DEF CtrlEdge, Completes, u
<1> HIDE DEF n
<1> SUFFICES CtrlResult(n, r, rx, busy, m)  BY DEF n
<1> USE DEF CtrlResult, FsmResult
<1>4. Acks(r) => ~GivesByte(r, busy)  BY DEF Acks, GivesByte
<1>5. CASE ~Completes(r, m)
  <2>1. n = s  BY <1>3, <1>5
  <2>2. n.rdata = IF TakesByte(r, rx) THEN ShiftIn(r.rdata, rx.data) ELSE r.rdata  BY <1>1, <1>2, <2>1
  <2>3. n.rstate = IF Uses(r) THEN 0 ELSE IF TakesByte(r, rx) THEN r.rstate + 1 ELSE r.rstate
    BY <1>1, <1>2, <2>1
  <2>4. u.wdata = IF GivesByte(r, busy) THEN ShiftIn(r.wdata, 0) ELSE r.wdata  BY <1>1
  <2>5. n.wdata = IF Acks(r) THEN [u.wdata EXCEPT ![1] = r.cmd] ELSE u.wdata  BY <1>2, <2>1
  <2>6. n.wdata = IF Acks(r) THEN [r.wdata EXCEPT ![1] = r.cmd]
                  ELSE IF GivesByte(r, busy) THEN ShiftIn(r.wdata, 0) ELSE r.wdata
    BY <1>4, <2>4, <2>5, Zenon
  <2>7. n.wstate = IF Acks(r) THEN 1 ELSE IF GivesByte(r, busy) THEN r.wstate - 1 ELSE r.wstate
    BY <1>1, <1>2, <2>1
  <2>8. n \in CtlType  BY <1>2, <2>1
  <2>9. n.cmd = IF r.state = ST_IDLE /\ Uses(r) THEN r.rdata[4] ELSE r.cmd  BY <1>2, <2>1
  <2>10. n.addr = IF r.state = ST_ADDR /\ Uses(r) THEN Number(r.rdata) ELSE r.addr  BY <1>2, <2>1
  <2>11. n.len = IF r.state = ST_LEN /\ Uses(r) THEN Half(r.rdata) ELSE r.len  BY <1>2, <2>1
  <2>12. n.core_en = IF r.state = ST_CORE /\ Uses(r)
                       THEN CoresOf(r.rdata[4]) \ CoresOf(r.rdata[3]) ELSE r.core_en
    BY <1>2, <2>1, Zenon
  <2>13. n.core_reset_n = IF r.state = ST_CORE /\ Uses(r)
                            THEN (0 .. 3) \ CoresOf(r.rdata[3]) ELSE r.core_reset_n
    BY <1>2, <2>1, Zenon
  <2>14. n.state = IF r.state = ST_IDLE /\ Uses(r)
                     THEN (IF rx.data >= 128 THEN ST_ADDR ELSE ST_DISPATCH)
                   ELSE IF r.state = ST_ADDR /\ Uses(r) THEN ST_LEN
                   ELSE IF r.state = ST_LEN /\ Uses(r) THEN ST_DISPATCH
                   ELSE IF r.state = ST_DISPATCH THEN ST_DISPATCH + (r.cmd % 128)
                   ELSE IF (r.state = ST_CORE /\ Uses(r)) \/ r.state = ST_PING THEN ST_ACK
                   ELSE IF Acks(r) THEN ST_IDLE ELSE r.state
    BY <1>2, <2>1, Zenon
  <2>15. n.rstate = IF Uses(r) \/ (Completes(r, m) /\ wb_we(r)) THEN 0
                    ELSE IF TakesByte(r, rx) THEN r.rstate + 1 ELSE r.rstate
    <3>1. ~(Completes(r, m) /\ wb_we(r))  BY <1>5
    <3>2. CASE Uses(r)
      <4>1. n.rstate = 0  BY <2>3, <3>2
      <4>. QED BY <3>2, <4>1, Zenon
    <3>3. CASE ~Uses(r)  BY <2>3, <3>1, <3>3, Zenon
    <3>. QED BY <3>2, <3>3
  <2>16. n.wdata = IF Completes(r, m) /\ wb_re(r) THEN m.dout
                   ELSE IF Acks(r) THEN [r.wdata EXCEPT ![1] = r.cmd]
                   ELSE IF GivesByte(r, busy) THEN ShiftIn(r.wdata, 0) ELSE r.wdata
    BY <1>5, <2>6, Zenon
  <2>17. n.wstate = IF Completes(r, m) /\ wb_re(r) THEN 4
                    ELSE IF Acks(r) THEN 1
                    ELSE IF GivesByte(r, busy) THEN r.wstate - 1 ELSE r.wstate
    BY <1>5, <2>7
  <2>18. n.addr = IF r.state = ST_ADDR /\ Uses(r) THEN Number(r.rdata)
                  ELSE IF Completes(r, m) THEN r.addr + 1 ELSE r.addr
    BY <1>5, <2>10, Zenon
  <2>19. n.len = IF r.state = ST_LEN /\ Uses(r) THEN Half(r.rdata)
                 ELSE IF Completes(r, m) THEN (r.len + HalfValues - 1) % HalfValues ELSE r.len
    BY <1>5, <2>11, Zenon
  <2>20. n.state = IF r.state = ST_IDLE /\ Uses(r)
                     THEN (IF rx.data >= 128 THEN ST_ADDR ELSE ST_DISPATCH)
                   ELSE IF r.state = ST_ADDR /\ Uses(r) THEN ST_LEN
                   ELSE IF r.state = ST_LEN /\ Uses(r) THEN ST_DISPATCH
                   ELSE IF r.state = ST_DISPATCH THEN ST_DISPATCH + (r.cmd % 128)
                   ELSE IF (r.state = ST_CORE /\ Uses(r)) \/ r.state = ST_PING THEN ST_ACK
                   ELSE IF Acks(r) THEN ST_IDLE
                   ELSE IF Completes(r, m) /\ r.len = 1 THEN ST_ACK ELSE r.state
    BY <1>5, <2>14
  <2>. QED BY <2>2, <2>8, <2>9, <2>12, <2>13, <2>15, <2>16, <2>17, <2>18, <2>19, <2>20, Zenon DEF n
<1>6. CASE Completes(r, m)
  <2>1. r.state \in {ST_READ, ST_WRITE}  BY <1>6 DEF Completes, wb_re, wb_we
  <2>2. /\ ~Uses(r) /\ ~Acks(r) /\ r.state # ST_DISPATCH /\ r.state # ST_PING /\ r.state # ST_IDLE
        /\ r.state # ST_ADDR /\ r.state # ST_LEN /\ r.state # ST_CORE
    BY <2>1, <1>v DEF Uses, Acks, StateValues
  <2>3. wb_we(r) <=> ~wb_re(r)  BY <1>6, <1>v DEF Completes, wb_we, wb_re, StateValues
  <2>4. wb_re(r) => ~GivesByte(r, busy)  BY DEF wb_re, GivesByte
  <2>5. /\ s.addr = r.addr /\ s.len = r.len /\ s.state = r.state /\ s.cmd = r.cmd
        /\ s.core_en = r.core_en /\ s.core_reset_n = r.core_reset_n
        /\ s.rdata = u.rdata /\ s.rstate = u.rstate /\ s.wdata = u.wdata /\ s.wstate = u.wstate
    BY <1>2, <2>2
  <2> DEFINE L  == (s.len + HalfValues - 1) % HalfValues
             st == IF r.len = 1 THEN ST_ACK ELSE s.state
             z  == 0
             rs == IF wb_we(r) THEN z ELSE s.rstate
             wd == IF wb_re(r) THEN m.dout ELSE s.wdata
             f  == 4
             ws == IF wb_re(r) THEN f ELSE s.wstate
  <2>6. n = [s EXCEPT !.addr = s.addr + 1, !.len = L, !.state = st, !.rstate = rs, !.wdata = wd, !.wstate = ws]
    BY <1>3, <1>6 DEF WordDone
  <2>7. L \in Nat /\ s.addr + 1 \in Nat
    <3>1. s.len \in Nat /\ s.addr \in Nat  BY <1>2 DEF CtlType
    <3>2. \A i \in Nat : (i + HalfValues - 1) % HalfValues \in Nat  BY SMT DEF HalfValues
    <3>. QED BY <3>1, <3>2
  <2>8. st \in Nat /\ z \in 0 .. 4 /\ f \in 0 .. 4  BY <1>2, <1>v DEF CtlType, StateValues
  <2> HIDE DEF L, st, z, f
  <2>9. rs \in 0 .. 4 /\ wd \in Word /\ ws \in 0 .. 4  BY <1>2, <2>8 DEF CtlType
  <2> HIDE DEF rs, wd, ws
  <2>10. n \in CtlType  BY <1>2, <2>6, <2>7, <2>8, <2>9 DEF CtlType
  <2>11. /\ n.addr = s.addr + 1 /\ n.len = L /\ n.state = st /\ n.rstate = rs /\ n.wdata = wd /\ n.wstate = ws
         /\ n.rdata = s.rdata /\ n.cmd = s.cmd /\ n.core_en = s.core_en /\ n.core_reset_n = s.core_reset_n
    BY <1>2, <2>6 DEF CtlType
  <2>12. n.addr = r.addr + 1 /\ n.len = (r.len + HalfValues - 1) % HalfValues
    BY <2>5, <2>11 DEF L
  <2>13. n.state = IF r.len = 1 THEN ST_ACK ELSE r.state  BY <2>5, <2>11 DEF st
  <2>14. n.rstate = IF wb_we(r) THEN 0 ELSE u.rstate  BY <2>5, <2>11 DEF rs, z
  <2>15. n.wdata = IF wb_re(r) THEN m.dout ELSE u.wdata  BY <2>5, <2>11 DEF wd
  <2>16. n.wstate = IF wb_re(r) THEN 4 ELSE u.wstate  BY <2>5, <2>11 DEF ws, f
  <2>17. n.rdata = u.rdata /\ n.cmd = r.cmd /\ n.core_en = r.core_en /\ n.core_reset_n = r.core_reset_n
    BY <2>5, <2>11
  <2>18. n.rstate = IF Uses(r) \/ (Completes(r, m) /\ wb_we(r)) THEN 0
                    ELSE IF TakesByte(r, rx) THEN r.rstate + 1 ELSE r.rstate
    BY <1>1, <1>6, <2>2, <2>14
  <2>19. n.wdata = IF Completes(r, m) /\ wb_re(r) THEN m.dout
                   ELSE IF Acks(r) THEN [r.wdata EXCEPT ![1] = r.cmd]
                   ELSE IF GivesByte(r, busy) THEN ShiftIn(r.wdata, 0) ELSE r.wdata
    BY <1>1, <1>6, <2>2, <2>15
  <2>20. n.wstate = IF Completes(r, m) /\ wb_re(r) THEN 4
                    ELSE IF Acks(r) THEN 1
                    ELSE IF GivesByte(r, busy) THEN r.wstate - 1 ELSE r.wstate
    BY <1>1, <1>6, <2>2, <2>16
  <2>21. n.rdata = IF TakesByte(r, rx) THEN ShiftIn(r.rdata, rx.data) ELSE r.rdata  BY <1>1, <2>17
  <2>. QED BY <1>6, <2>2, <2>10, <2>12, <2>13, <2>17, <2>18, <2>19, <2>20, <2>21, Zenon DEF n
<1>. QED BY <1>5, <1>6

-----------------------------------------------------------------------------
(* One edge of the clock: the lines and the controller.                    *)

\* The assumption on the times.
LEMMA Times == MaxWait \in Nat /\ ByteTime \in Nat /\ ByteTime >= MaxWait + 4
  BY DebugLinkAssumption

Rx == [valid |-> uart.rx_valid, data |-> uart.rx_data]

\* What an edge does to the host, the lines and the controller.
HostEdge(starts) ==
  /\ starts => uart.rx_left = 0 /\ host.out # <<>>
  /\ host'.call = host.call /\ host'.got = host.got /\ host'.coreEn = host.coreEn
  /\ host'.ok = host.ok /\ host'.data = host.data
  /\ host'.out = IF starts THEN Tail(host.out) ELSE host.out

LinesEdge(starts) ==
  /\ uart'.rx_valid = (uart.rx_left = 1)
  /\ uart'.rx_data = IF uart.rx_left = 1 THEN uart.rx_byte ELSE uart.rx_data
  /\ uart'.rx_left = IF starts THEN ByteTime ELSE IF uart.rx_left = 0 THEN 0 ELSE uart.rx_left - 1
  /\ uart'.rx_byte = IF starts THEN Head(host.out) ELSE uart.rx_byte
  /\ uart'.tx_left = IF GivesByte(ctl, Busy) THEN ByteTime
                     ELSE IF uart.tx_left = 0 THEN 0 ELSE uart.tx_left - 1
  /\ uart'.tx_byte = IF GivesByte(ctl, Busy) THEN ctl.wdata[1] ELSE uart.tx_byte
  /\ inbox' = IF uart.tx_left = 1 THEN Append(inbox, uart.tx_byte) ELSE inbox

EdgeOf(starts) == /\ HostEdge(starts) /\ LinesEdge(starts)
                  /\ CtrlResult(ctl', ctl, Rx, Busy, mst)

\* A step of the clock, register by register, keeps the types of host, lines and
\* controller.
LEMMA ClockEdge ==
  ASSUME Types, NEW starts \in BOOLEAN, Clock(starts)
  PROVE  /\ EdgeOf(starts)
         /\ host' \in HostType /\ uart' \in UartType /\ inbox' \in Seq(Byte) /\ ctl' \in CtlType
<1>1. HostEdge(starts) /\ host' \in HostType
  <2>1. host' = IF starts THEN [host EXCEPT !.out = Tail(host.out)] ELSE host  BY DEF Clock
  <2>2. starts => uart.rx_left = 0 /\ host.out # <<>>  BY DEF Clock
  <2>3. host \in HostType  BY DEF Types
  <2>4. host.out \in Seq(Byte)  BY <2>3 DEF HostType
  <2>5. starts => Tail(host.out) \in Seq(Byte)
    <3>1. host.out # <<>> => Len(host.out) > 0  BY <2>4
    <3>. QED BY <2>2, <2>4, <3>1, TailIs
  <2> DEFINE o == IF starts THEN Tail(host.out) ELSE host.out
  <2>6. o \in Seq(Byte)  BY <2>4, <2>5
  <2>7. host' = [host EXCEPT !.out = o]
    <3>1. CASE starts  BY <2>1, <3>1
    <3>2. CASE ~starts
      <4>1. [host EXCEPT !.out = host.out] = host  BY <2>3 DEF HostType
      <4>. QED BY <2>1, <3>2, <4>1
    <3>. QED BY <3>1, <3>2
  <2> HIDE DEF o
  <2>8. host' \in HostType  BY <2>3, <2>6, <2>7 DEF HostType
  <2>9. /\ host'.call = host.call /\ host'.got = host.got /\ host'.coreEn = host.coreEn
        /\ host'.ok = host.ok /\ host'.data = host.data /\ host'.out = o
    BY <2>3, <2>7 DEF HostType
  <2>. QED BY <2>2, <2>8, <2>9 DEF HostEdge, o
<1>2. LinesEdge(starts) /\ uart' \in UartType /\ inbox' \in Seq(Byte)
  <2>1. uart \in UartType /\ inbox \in Seq(Byte) /\ ctl \in CtlType /\ host \in HostType  BY DEF Types
  <2>2. uart' = UartEdge(starts) /\ inbox' = IF uart.tx_left = 1 THEN Append(inbox, uart.tx_byte) ELSE inbox
    BY DEF Clock
  <2>3. LinesEdge(starts)  BY <2>2 DEF UartEdge, LinesEdge, tx_en, tx_data, GivesByte
  <2>4. ctl.wdata[1] \in Byte
    <3>1. ctl.wdata \in Word  BY <2>1 DEF CtlType
    <3>. QED BY <3>1 DEF Word
  <2>5. starts => Head(host.out) \in Byte
    <3>1. host.out \in Seq(Byte)  BY <2>1 DEF HostType
    <3>2. starts => host.out # <<>>  BY DEF Clock
    <3>. QED BY <3>1, <3>2
  <2>6. uart'.rx_valid \in BOOLEAN /\ uart'.rx_data \in Byte /\ uart'.rx_byte \in Byte /\ uart'.tx_byte \in Byte
    BY <2>1, <2>3, <2>4, <2>5 DEF LinesEdge, UartType
  <2>7. uart'.rx_left \in Nat /\ uart'.tx_left \in Nat  BY <2>1, <2>3, Times DEF LinesEdge, UartType
  <2>8. uart' = [rx_valid |-> uart'.rx_valid, rx_data |-> uart'.rx_data, rx_left |-> uart'.rx_left,
                 rx_byte |-> uart'.rx_byte, tx_left |-> uart'.tx_left, tx_byte |-> uart'.tx_byte]
    BY <2>2 DEF UartEdge
  <2>9. uart' \in UartType  BY <2>6, <2>7, <2>8 DEF UartType
  <2>10. inbox' \in Seq(Byte)  BY <2>1, <2>2 DEF UartType
  <2>. QED BY <2>3, <2>9, <2>10
<1>3. CtrlResult(ctl', ctl, Rx, Busy, mst)
  <2>1. ctl' = CtrlEdge(ctl, Rx, Busy, mst)  BY DEF Clock, Rx
  <2>2. Rx.data \in Byte  BY DEF Types, UartType, Rx
  <2>3. mst.dout \in Word  BY DEF Types, MasterRegs
  <2>4. ctl \in CtlType  BY DEF Types
  <2>. QED BY <2>1, <2>2, <2>3, <2>4, CtrlFields
<1>4. ctl' \in CtlType  BY <1>3 DEF CtrlResult
<1>. QED BY <1>1, <1>2, <1>3, <1>4 DEF EdgeOf

\* Every request has a byte.
LEMMA RequestLenIsNat ==
  ASSUME NEW c \in Calls
  PROVE  RequestLen(c) \in Nat /\ RequestLen(c) >= 1
<1>1. CASE c.op = "write"
  <2>1. Len(c.data) \in Nat  BY <1>1, WriteCall
  <2>. QED BY <1>1, <2>1 DEF RequestLen
<1>2. CASE c.op # "write"  BY <1>2 DEF RequestLen
<1>. QED BY <1>1, <1>2

\* What the host still has to send and the byte on the line go on being the
\* rest of the request; a byte that is handed to the controller is the next one.
LEMMA SendingStep ==
  ASSUME Types, NEW starts \in BOOLEAN, EdgeOf(starts), host' \in HostType, uart' \in UartType,
         host.call \in Calls, Sending
  PROVE  /\ Sending'
         /\ OnItsWay \in Nat /\ OnItsWay' \in Nat
         /\ OnItsWay' = OnItsWay - (IF uart.rx_valid THEN 1 ELSE 0)
         /\ uart.rx_valid => OnItsWay >= 1 /\ uart.rx_data = Req(RequestLen(host.call) - OnItsWay + 1)
<1> DEFINE L == RequestLen(host.call)
<1>1. L \in Nat /\ RequestLen(host.call)' = L  BY RequestLenIsNat DEF EdgeOf, HostEdge
<1>2. host.out \in Seq(Byte) /\ host'.out \in Seq(Byte) /\ uart.rx_left \in Nat /\ uart.rx_valid \in BOOLEAN
      /\ uart'.rx_left \in Nat /\ uart'.rx_valid \in BOOLEAN
  BY DEF Types, HostType, UartType
<1>3. \A i : Req(i)' = Req(i)  BY DEF EdgeOf, HostEdge, Req
<1>4. /\ OnItsWay <= L
      /\ \A i \in 1 .. Len(host.out) : host.out[i] = Req(L - Len(host.out) + i)
      /\ uart.rx_left # 0 => uart.rx_byte = Req(L - Len(host.out))
      /\ uart.rx_valid => uart.rx_data = Req(L - Len(host.out)) /\ uart.rx_left = 0
  BY DEF Sending, LastSent
<1> HIDE DEF L
<1>5. /\ Len(host.out) \in Nat /\ Len(host'.out) \in Nat
      /\ uart.rx_left # 0 => OnItsWay = Len(host.out) + 1
      /\ uart.rx_valid => OnItsWay = Len(host.out) + 1
      /\ uart.rx_left = 0 /\ ~uart.rx_valid => OnItsWay = Len(host.out)
  <2>1. Len(host.out) \in Nat /\ Len(host'.out) \in Nat  BY <1>2
  <2>2. uart.rx_left # 0 \/ uart.rx_valid => Flight = 1  BY Zenon DEF Flight
  <2>3. uart.rx_left = 0 /\ ~uart.rx_valid => Flight = 0  BY DEF Flight
  <2>4. OnItsWay = Len(host.out) + Flight  BY DEF OnItsWay
  <2>. QED BY <2>1, <2>2, <2>3, <2>4
<1>6. /\ uart'.rx_left # 0 => OnItsWay' = Len(host'.out) + 1
      /\ uart'.rx_valid => OnItsWay' = Len(host'.out) + 1
      /\ uart'.rx_left = 0 /\ ~uart'.rx_valid => OnItsWay' = Len(host'.out)
  <2>1. Len(host'.out) \in Nat  BY <1>2
  <2>2. uart'.rx_left # 0 \/ uart'.rx_valid => Flight' = 1  BY Zenon DEF Flight
  <2>3. uart'.rx_left = 0 /\ ~uart'.rx_valid => Flight' = 0  BY DEF Flight
  <2>4. OnItsWay' = Len(host'.out) + Flight'  BY DEF OnItsWay
  <2>. QED BY <2>1, <2>2, <2>3, <2>4
<1>7. /\ uart'.rx_valid = (uart.rx_left = 1)
      /\ uart'.rx_data = IF uart.rx_left = 1 THEN uart.rx_byte ELSE uart.rx_data
      /\ uart'.rx_left = IF starts THEN ByteTime ELSE IF uart.rx_left = 0 THEN 0 ELSE uart.rx_left - 1
      /\ uart'.rx_byte = IF starts THEN Head(host.out) ELSE uart.rx_byte
      /\ starts => uart.rx_left = 0 /\ host.out # <<>>
      /\ host'.out = IF starts THEN Tail(host.out) ELSE host.out
  BY DEF EdgeOf, HostEdge, LinesEdge
<1>7a. uart'.rx_valid <=> uart.rx_left = 1  BY <1>7, Zenon
<1>7b. ByteTime \in Nat /\ ByteTime # 0  BY Times
<1>8. /\ OnItsWay \in Nat
      /\ uart.rx_valid => OnItsWay >= 1 /\ uart.rx_data = Req(L - OnItsWay + 1)
  <2>1. CASE uart.rx_valid
    <3>1. OnItsWay = Len(host.out) + 1  BY <1>4, <1>5, <2>1
    <3>2. L - OnItsWay + 1 = L - Len(host.out)  BY <1>1, <1>5, <3>1
    <3>. QED BY <1>4, <1>5, <2>1, <3>1, <3>2
  <2>2. CASE ~uart.rx_valid  BY <1>5, <2>2
  <2>. QED BY <1>2, <2>1, <2>2
<1>9. CASE starts
  <2>1. Len(host.out) > 0  BY <1>2, <1>7, <1>9
  <2>2. /\ Len(host'.out) = Len(host.out) - 1
        /\ \A i \in 1 .. Len(host.out) - 1 : host'.out[i] = host.out[i + 1]
        /\ Head(host.out) = host.out[1]
    BY <1>2, <1>7, <1>9, <2>1, TailIs
  <2>3. uart.rx_left = 0 /\ ~uart'.rx_valid /\ uart'.rx_left = ByteTime /\ ByteTime # 0
        /\ uart'.rx_byte = host.out[1]
    <3>1. uart.rx_left = 0  BY <1>7, <1>9, Zenon
    <3>2. ~uart'.rx_valid  BY <3>1, <1>7a
    <3>3. uart'.rx_left = ByteTime /\ uart'.rx_byte = Head(host.out)  BY <1>7, <1>9, Zenon
    <3>. QED BY <1>7b, <2>2, <3>1, <3>2, <3>3
  <2>4. OnItsWay' = Len(host.out)  BY <1>5, <1>6, <2>2, <2>3
  <2>5. \A i \in 1 .. Len(host'.out) : host'.out[i] = Req(L - Len(host'.out) + i)
    <3> SUFFICES ASSUME NEW i \in 1 .. Len(host'.out) PROVE host'.out[i] = Req(L - Len(host'.out) + i)
      OBVIOUS
    <3>1. i + 1 \in 1 .. Len(host.out) /\ L - Len(host.out) + (i + 1) = L - Len(host'.out) + i
      BY <1>1, <1>5, <2>2
    <3>2. host.out[i + 1] = Req(L - Len(host.out) + (i + 1))  BY <1>4, <3>1
    <3>. QED BY <1>5, <2>2, <3>1, <3>2
  <2>6. uart'.rx_byte = Req(L - Len(host'.out))
    <3>1. host.out[1] = Req(L - Len(host.out) + 1)  BY <1>4, <1>5, <2>1
    <3>2. L - Len(host.out) + 1 = L - Len(host'.out)  BY <1>1, <1>5, <2>2
    <3>. QED BY <2>3, <3>1, <3>2
  <2>7. OnItsWay' = OnItsWay - (IF uart.rx_valid THEN 1 ELSE 0)  BY <1>2, <1>5, <2>3, <2>4
  <2>8. OnItsWay' <= L /\ OnItsWay' \in Nat
    <3>1. Len(host.out) <= L  BY <1>1, <1>2, <1>4, <1>5
    <3>. QED BY <1>5, <2>4, <3>1
  <2>9. Sending'  BY <1>1, <1>3, <2>3, <2>5, <2>6, <2>8 DEF Sending, LastSent, L
  <2>. QED BY <1>8, <2>7, <2>8, <2>9 DEF L
<1>10. CASE ~starts
  <2>1. host'.out = host.out /\ uart'.rx_byte = uart.rx_byte
        /\ uart'.rx_left = IF uart.rx_left = 0 THEN 0 ELSE uart.rx_left - 1
    BY <1>7, <1>10
  <2>2. OnItsWay' = OnItsWay - (IF uart.rx_valid THEN 1 ELSE 0)
    <3>1. CASE uart.rx_valid
      <4>1. uart.rx_left = 0  BY <1>4, <3>1, Zenon
      <4>2. ~uart'.rx_valid /\ uart'.rx_left = 0  BY <1>7a, <2>1, <4>1
      <4>3. OnItsWay = Len(host.out) + 1 /\ OnItsWay' = Len(host.out)  BY <1>5, <1>6, <2>1, <3>1, <4>2
      <4>. QED BY <1>5, <3>1, <4>3
    <3>2. CASE ~uart.rx_valid /\ uart.rx_left = 0
      <4>1. ~uart'.rx_valid /\ uart'.rx_left = 0  BY <1>7a, <2>1, <3>2
      <4>2. OnItsWay = Len(host.out) /\ OnItsWay' = Len(host.out)  BY <1>5, <1>6, <2>1, <3>2, <4>1
      <4>. QED BY <1>5, <3>2, <4>2
    <3>3. CASE ~uart.rx_valid /\ uart.rx_left # 0
      <4>1. uart'.rx_valid \/ uart'.rx_left # 0  BY <1>2, <1>7a, <2>1, <3>3
      <4>2. OnItsWay = Len(host.out) + 1 /\ OnItsWay' = Len(host.out) + 1  BY <1>5, <1>6, <2>1, <3>3, <4>1
      <4>. QED BY <1>5, <3>3, <4>2
    <3>. QED BY <3>1, <3>2, <3>3
  <2>3. OnItsWay' <= L /\ OnItsWay' \in Nat  BY <1>1, <1>2, <1>4, <1>8, <2>2
  <2>4. uart'.rx_left # 0 => uart'.rx_byte = Req(L - Len(host'.out))  BY <1>2, <1>4, <2>1
  <2>5. uart'.rx_valid => uart'.rx_data = Req(L - Len(host'.out)) /\ uart'.rx_left = 0
    <3>1. uart'.rx_valid => uart.rx_left = 1  BY <1>7a
    <3>2. uart.rx_left = 1 => uart'.rx_data = uart.rx_byte  BY <1>7
    <3>3. uart.rx_left = 1 => uart'.rx_left = 0 /\ uart.rx_byte = Req(L - Len(host.out))  BY <1>4, <2>1
    <3>. QED BY <2>1, <3>1, <3>2, <3>3
  <2>6. \A i \in 1 .. Len(host'.out) : host'.out[i] = Req(L - Len(host'.out) + i)  BY <1>4, <2>1
  <2>7. Sending'  BY <1>1, <1>3, <2>3, <2>4, <2>5, <2>6 DEF Sending, LastSent, L
  <2>. QED BY <1>8, <2>2, <2>3, <2>7 DEF L
<1>. QED BY <1>9, <1>10

\* rdata goes on holding the bytes after those used up: when it takes a byte,
LEMMA ReceivingKeeps ==
  ASSUME Types, NEW starts \in BOOLEAN, EdgeOf(starts), host' \in HostType, uart' \in UartType,
         host.call \in Calls, Sending, Receiving, Used \in Nat, Used' = Used,
         ~Uses(ctl), ~(Completes(ctl, mst) /\ wb_we(ctl)), uart.rx_valid => ctl.rstate # 4
  PROVE  /\ Receiving'
         /\ ctl'.rstate = ctl.rstate + (IF uart.rx_valid THEN 1 ELSE 0)
<1> DEFINE L == RequestLen(host.call)
           U == Used
<1>1. L \in Nat /\ RequestLen(host.call)' = L  BY RequestLenIsNat DEF EdgeOf, HostEdge
<1>2. \A i : Req(i)' = Req(i)  BY DEF EdgeOf, HostEdge, Req
<1>3. /\ OnItsWay \in Nat /\ OnItsWay' \in Nat
      /\ OnItsWay' = OnItsWay - (IF uart.rx_valid THEN 1 ELSE 0)
      /\ uart.rx_valid => OnItsWay >= 1 /\ uart.rx_data = Req(L - OnItsWay + 1)
  BY SendingStep
<1>4. U + ctl.rstate + OnItsWay = L /\ \A i \in 1 .. ctl.rstate : ctl.rdata[4 - ctl.rstate + i] = Req(U + i)
  BY DEF Receiving
<1>5. U \in Nat /\ Used' = U  OBVIOUS
<1> HIDE DEF L, U
<1>6. ctl.rstate \in 0 .. 4 /\ ctl.rdata \in Word /\ uart.rx_data \in Byte /\ uart.rx_valid \in BOOLEAN
  BY DEF Types, CtlType, UartType
<1>7. TakesByte(ctl, Rx) <=> uart.rx_valid  BY DEF TakesByte, Rx
<1>8. /\ ctl'.rdata = IF TakesByte(ctl, Rx) THEN ShiftIn(ctl.rdata, Rx.data) ELSE ctl.rdata
      /\ ctl'.rstate = IF Uses(ctl) \/ (Completes(ctl, mst) /\ wb_we(ctl)) THEN 0
                       ELSE IF TakesByte(ctl, Rx) THEN ctl.rstate + 1 ELSE ctl.rstate
  BY DEF EdgeOf, CtrlResult
<1>9. CASE uart.rx_valid
  <2>1. ctl'.rdata = ShiftIn(ctl.rdata, uart.rx_data)  BY <1>7, <1>8, <1>9 DEF Rx
  <2>2. ctl'.rstate = ctl.rstate + 1  BY <1>7, <1>8, <1>9
  <2>3. ctl.rstate # 4 /\ OnItsWay' = OnItsWay - 1  BY <1>3, <1>9
  <2>4. (\A i \in 1 .. 3 : ctl'.rdata[i] = ctl.rdata[i + 1]) /\ ctl'.rdata[4] = uart.rx_data
    BY <1>6, <2>1, ShiftInIs
  <2>5. uart.rx_data = Req(U + (ctl.rstate + 1))
    <3>1. L - OnItsWay + 1 = U + (ctl.rstate + 1)  BY <1>1, <1>3, <1>4, <1>5, <1>6
    <3>. QED BY <1>3, <1>9, <3>1
  <2>6. \A i \in 1 .. ctl'.rstate : ctl'.rdata[4 - ctl'.rstate + i] = Req(U + i)
    <3> SUFFICES ASSUME NEW i \in 1 .. ctl'.rstate
                 PROVE  ctl'.rdata[4 - ctl'.rstate + i] = Req(U + i)
      OBVIOUS
    <3>1. CASE i = ctl.rstate + 1
      <4>1. 4 - ctl'.rstate + i = 4  BY <1>6, <2>2, <3>1
      <4>. QED BY <2>4, <2>5, <3>1, <4>1
    <3>2. CASE i \in 1 .. ctl.rstate
      <4>1. /\ 4 - ctl'.rstate + i \in 1 .. 3
            /\ (4 - ctl'.rstate + i) + 1 = 4 - ctl.rstate + i
        BY <1>6, <2>2, <2>3, <3>2
      <4>2. ctl'.rdata[4 - ctl'.rstate + i] = ctl.rdata[4 - ctl.rstate + i]  BY <2>4, <4>1
      <4>. QED BY <1>4, <3>2, <4>2
    <3>. QED BY <1>6, <2>2, <3>1, <3>2
  <2>7. U + ctl'.rstate + OnItsWay' = L  BY <1>3, <1>4, <1>5, <1>6, <2>2, <2>3
  <2>8. Receiving'  BY <1>1, <1>2, <1>5, <2>6, <2>7 DEF Receiving, L
  <2>. QED BY <1>9, <2>2, <2>8
<1>10. CASE ~uart.rx_valid
  <2>1. ctl'.rdata = ctl.rdata /\ ctl'.rstate = ctl.rstate  BY <1>7, <1>8, <1>10
  <2>2. OnItsWay' = OnItsWay  BY <1>3, <1>10
  <2>3. Receiving'  BY <1>1, <1>2, <1>4, <1>5, <2>1, <2>2 DEF Receiving, L
  <2>. QED BY <1>6, <1>10, <2>1, <2>3
<1>. QED BY <1>6, <1>9, <1>10

\* and when the state, or a write, has used what it held.
LEMMA ReceivingRestarts ==
  ASSUME Types, NEW starts \in BOOLEAN, EdgeOf(starts), host' \in HostType, uart' \in UartType,
         host.call \in Calls, Sending, Receiving, Used \in Nat, Used' = Used + ctl.rstate,
         ctl'.rstate = 0, ~uart.rx_valid
  PROVE  Receiving'
<1>1. RequestLen(host.call)' = RequestLen(host.call)  BY DEF EdgeOf, HostEdge
<1>2. OnItsWay \in Nat /\ OnItsWay' = OnItsWay - (IF uart.rx_valid THEN 1 ELSE 0)  BY SendingStep
<1>3. OnItsWay' = OnItsWay  BY <1>2
<1>4. Used + ctl.rstate + OnItsWay = RequestLen(host.call)  BY DEF Receiving
<1>5. ctl.rstate \in 0 .. 4  BY DEF Types, CtlType
<1>6. Used' + ctl'.rstate + OnItsWay' = RequestLen(host.call)'
  <2> DEFINE U == Used  V == Used'  L == RequestLen(host.call)  N == RequestLen(host.call)'
  <2>1. U \in Nat /\ V = U + ctl.rstate /\ U + ctl.rstate + OnItsWay = L /\ N = L  BY <1>1, <1>4
  <2> HIDE DEF U, V, L, N
  <2>2. V + ctl'.rstate + OnItsWay' = N  BY <1>2, <1>3, <1>5, <2>1
  <2>. QED BY <2>2 DEF U, V, N
<1>7. \A i \in 1 .. ctl'.rstate : (ctl.rdata[4 - ctl.rstate + i] = Req(Used + i))'
  <2>1. 1 .. ctl'.rstate = {}  OBVIOUS
  <2>. QED BY <2>1
<1>. QED BY <1>6, <1>7 DEF Receiving

-----------------------------------------------------------------------------
(* One edge of the clock: the access under way.                            *)

Regs == MasterRegs(Nat, Word)
IsInput(in) == in.ack \in BOOLEAN /\ in.err \in BOOLEAN /\ in.stall \in BOOLEAN /\ in.dat \in Word
IsCommand(u) == /\ u.en \in BOOLEAN /\ u.we \in BOOLEAN /\ u.addr \in Nat /\ u.din \in Word
                /\ u.burst = 0 /\ u.hold = FALSE
OneWordLeft(r) == r.count = 0 /\ r.count_ack = 0 /\ r.mask = 0

\* The master without a command,
LEMMA MasterIdles ==
  ASSUME NEW r \in Regs, NEW u, NEW in, IsInput(in), IsCommand(u),
         r.state = "ST_IDLE", ~u.en, NEW n, n = MasterEdge(r, u, in)
  PROVE  /\ n \in Regs /\ n.state = "ST_IDLE" /\ n.stb = r.stb /\ ~n.complete /\ n.dout = r.dout
<1>1. n = Idle(r, u, in)  BY DEF MasterEdge
<1> DEFINE c == r.cyc /\ u.hold
           e == in.err
<1>2. c \in BOOLEAN /\ e \in BOOLEAN  BY DEF IsInput
<1>3. n = [r EXCEPT !.cyc = c, !.dready_rd = FALSE, !.complete = FALSE, !.err = e]  BY <1>1 DEF Idle
<1> HIDE DEF c, e
<1>4. n \in Regs  BY <1>2, <1>3 DEF Regs, MasterRegs
<1>5. n.state = r.state /\ n.stb = r.stb /\ n.complete = FALSE /\ n.dout = r.dout
  BY <1>3 DEF Regs, MasterRegs
<1>. QED BY <1>4, <1>5

\* when it takes one,
LEMMA MasterStarts ==
  ASSUME NEW r \in Regs, NEW u, NEW in, IsInput(in), IsCommand(u),
         r.state = "ST_IDLE", u.en, NEW n, n = MasterEdge(r, u, in)
  PROVE  /\ n \in Regs /\ n.state = "ST_PENDING" /\ n.stb /\ ~n.complete /\ n.dout = r.dout
         /\ OneWordLeft(n) /\ n.adr = u.addr /\ n.we = u.we /\ n.dat = u.din
<1>1. n = Start(r, u, in)  BY DEF MasterEdge
<1> DEFINE z == 0  e == in.err
<1>2. z \in 0 .. CountValues - 1 /\ e \in BOOLEAN  BY DEF IsInput, CountValues
<1>3. n = [r EXCEPT !.state = "ST_PENDING", !.adr = u.addr, !.dat = u.din, !.we = u.we,
            !.stb = TRUE, !.cyc = TRUE,
            !.count = z, !.count_ack = z, !.mask = z,
            !.dready_rd = FALSE, !.complete = FALSE, !.err = e]
  BY <1>1 DEF Start, IsCommand
<1>4. u.addr \in Nat /\ u.din \in Word /\ u.we \in BOOLEAN  BY DEF IsCommand
<1>z. z = 0  OBVIOUS
<1> HIDE DEF z, e
<1>5. n \in Regs  BY <1>2, <1>3, <1>4 DEF Regs, MasterRegs
<1>6. /\ n.state = "ST_PENDING" /\ n.stb = TRUE /\ n.complete = FALSE /\ n.dout = r.dout
      /\ n.count = z /\ n.count_ack = z /\ n.mask = z
      /\ n.adr = u.addr /\ n.we = u.we /\ n.dat = u.din
  BY <1>3, <1>4 DEF Regs, MasterRegs
<1>. QED BY <1>5, <1>6, <1>z DEF OneWordLeft

\* and with one of a single word under way.
LEMMA MasterPends ==
  ASSUME NEW r \in Regs, NEW u, NEW in, IsInput(in), IsCommand(u),
         r.state = "ST_PENDING", OneWordLeft(r), NEW n, n = MasterEdge(r, u, in)
  PROVE  /\ n \in Regs
         /\ n.state = IF in.ack \/ in.err THEN "ST_IDLE" ELSE "ST_PENDING"
         /\ n.complete <=> in.ack \/ in.err
         /\ n.stb <=> r.stb /\ in.stall /\ ~in.ack /\ ~in.err
         /\ n.dout = IF in.ack THEN in.dat ELSE r.dout
         /\ in.stall => n.dat = r.dat /\ n.adr = r.adr
         /\ ~in.ack /\ ~in.err => OneWordLeft(n) /\ n.we = r.we
<1>1. n = Pending(r, u, in)  BY DEF MasterEdge
<1>0. /\ in.ack \in BOOLEAN /\ in.err \in BOOLEAN /\ in.stall \in BOOLEAN /\ in.dat \in Word
      /\ u.din \in Word /\ u.hold = FALSE
  BY DEF IsInput, IsCommand
<1>r. /\ r.adr \in Nat /\ r.dat \in Word /\ r.we \in BOOLEAN /\ r.stb \in BOOLEAN /\ r.cyc \in BOOLEAN
      /\ r.dout \in Word /\ r.count = 0 /\ r.count_ack = 0 /\ r.mask = 0
  BY DEF Regs, MasterRegs, OneWordLeft
<1> DEFINE ends == Ends(r, in)
<1>2. ends \in BOOLEAN /\ (ends <=> in.ack \/ in.err)  BY <1>0, <1>r DEF Ends
<1>3. NextAdr(r, in) \in Nat /\ (in.stall => NextAdr(r, in) = r.adr)
  <2>1. \A a \in Nat : ((a \div (0 + 1)) * (0 + 1)) + ((a + 1) % (0 + 1)) \in Nat  OBVIOUS
  <2>2. WrapNext(r.adr, r.mask) \in Nat  BY <1>r, <2>1 DEF WrapNext
  <2>. QED BY <1>r, <2>2 DEF NextAdr
<1>4. NextCount(r, in) = 0  BY <1>r DEF NextCount
<1>5. /\ NextCountAck(r, in) \in 0 .. CountValues - 1
      /\ ~in.ack => NextCountAck(r, in) = 0
  BY <1>0, <1>r DEF NextCountAck, CountValues
<1>6. LastRequest(r, in) <=> ~in.stall  BY <1>r DEF LastRequest
<1> DEFINE st == IF ends THEN "ST_IDLE" ELSE "ST_PENDING"
           ad == NextAdr(r, in)
           da == IF in.stall THEN r.dat ELSE u.din
           we == r.we /\ ~ends
           sb == r.stb /\ ~LastRequest(r, in) /\ ~ends
           cy == IF ends THEN u.hold ELSE r.cyc
           co == NextCount(r, in)
           ca == NextCountAck(r, in)
           dr == ~r.we /\ (in.ack \/ ends)
           do == IF in.ack THEN in.dat ELSE r.dout
<1>7. n = [state |-> st, adr |-> ad, dat |-> da, we |-> we, stb |-> sb, cyc |-> cy, count |-> co,
           count_ack |-> ca, mask |-> r.mask, dready_rd |-> dr, dout |-> do, complete |-> ends,
           err |-> in.err]
  BY <1>1 DEF Pending
<1>8. /\ st \in {"ST_IDLE", "ST_PENDING"} /\ da \in Word /\ we \in BOOLEAN /\ sb \in BOOLEAN
      /\ cy \in BOOLEAN /\ dr \in BOOLEAN /\ do \in Word
  BY <1>0, <1>r
<1>9. co \in 0 .. CountValues - 1 /\ r.mask \in 0 .. CountValues - 1  BY <1>4, <1>r DEF CountValues
<1>10. /\ st = IF in.ack \/ in.err THEN "ST_IDLE" ELSE "ST_PENDING"
       /\ (sb <=> r.stb /\ in.stall /\ ~in.ack /\ ~in.err)
       /\ do = IF in.ack THEN in.dat ELSE r.dout
       /\ (in.stall => da = r.dat)
       /\ (~in.ack /\ ~in.err => we = r.we)
  BY <1>0, <1>r, <1>2, <1>6
<1> HIDE DEF ends, st, ad, da, we, sb, cy, co, ca, dr, do
<1>11. n \in Regs  BY <1>0, <1>2, <1>3, <1>5, <1>7, <1>8, <1>9 DEF Regs, MasterRegs, ad, ca
<1>12. /\ n.state = st /\ n.complete = ends /\ n.stb = sb /\ n.dout = do /\ n.dat = da /\ n.adr = ad
       /\ n.count = co /\ n.count_ack = ca /\ n.mask = r.mask /\ n.we = we
  BY <1>7
<1>13. ~in.ack /\ ~in.err => OneWordLeft(n)  BY <1>4, <1>5, <1>r, <1>12 DEF OneWordLeft, co, ca
<1>14. n.complete <=> in.ack \/ in.err  BY <1>2, <1>12
<1>15. n.stb <=> r.stb /\ in.stall /\ ~in.ack /\ ~in.err  BY <1>10, <1>12, Zenon
<1>16. ~in.ack /\ ~in.err => n.we = r.we  BY <1>10, <1>12, Zenon
<1>17. in.stall => n.dat = r.dat /\ n.adr = r.adr  BY <1>3, <1>10, <1>12, Zenon DEF ad
<1>18. n.state = IF in.ack \/ in.err THEN "ST_IDLE" ELSE "ST_PENDING"  BY <1>10, <1>12, Zenon
<1>19. n.dout = IF in.ack THEN in.dat ELSE r.dout  BY <1>10, <1>12, Zenon
<1>. QED BY <1>11, <1>13, <1>14, <1>15, <1>16, <1>17, <1>18, <1>19, Zenon

\* What an edge does to the access: the answers are those of the interconnect.
Answers == {Quiet, [Quiet EXCEPT !.stall = TRUE], Answer}
AccessEdge(in) ==
  /\ mst' = MasterEdge(mst, Ask(ctl, mst), in)
  /\ Waits(in) \/ Takes(in) \/ Serves(in) \/ Idles(in)

Active == wb_re(ctl) \/ wb_we(ctl)

\* What the interconnect may answer.
LEMMA AnswersAre ==
  ASSUME Types
  PROVE  /\ ~Quiet.ack /\ ~Quiet.err /\ ~Quiet.stall
         /\ \A b \in BOOLEAN : LET in == [Quiet EXCEPT !.stall = b] IN ~in.ack /\ ~in.err /\ in.stall = b
         /\ bus.adr \in Adrs => Answer.ack /\ ~Answer.err /\ ~Answer.stall /\ Answer.dat = mem[bus.adr]
         /\ bus.adr \notin Adrs => ~Answer.ack /\ Answer.err /\ ~Answer.stall
         /\ \A in \in Answers : IsInput(in) /\ in.dat \in AnyWord
<1> DEFINE Z == Zero
<1>0. Z \in AnyWord /\ AnyWord \subseteq Word  BY ZeroIsWord DEF AnyWord
<1>q. Quiet = [ack |-> FALSE, err |-> FALSE, stall |-> FALSE, dat |-> Z]  BY DEF Quiet
<1> HIDE DEF Quiet, Z
<1>1. Quiet.ack = FALSE /\ Quiet.err = FALSE /\ Quiet.stall = FALSE /\ Quiet.dat = Z
      /\ Quiet \in [ack : BOOLEAN, err : BOOLEAN, stall : BOOLEAN, dat : AnyWord]
  BY <1>0, <1>q
<1>2. \A b \in BOOLEAN : /\ [Quiet EXCEPT !.stall = b].ack = FALSE /\ [Quiet EXCEPT !.stall = b].err = FALSE
                         /\ [Quiet EXCEPT !.stall = b].stall = b /\ [Quiet EXCEPT !.stall = b].dat = Z
  BY <1>1
<1>3. ASSUME bus.adr \in Adrs
      PROVE  Answer.ack = TRUE /\ Answer.err = FALSE /\ Answer.stall = FALSE /\ Answer.dat = mem[bus.adr]
  BY <1>1, <1>3 DEF Answer
<1>4. ASSUME bus.adr \notin Adrs
      PROVE  Answer.ack = FALSE /\ Answer.err = TRUE /\ Answer.stall = FALSE /\ Answer.dat = Z
  BY <1>1, <1>4 DEF Answer
<1>7. bus.adr \in Adrs => mem[bus.adr] \in AnyWord  BY DEF Types
<1>8. Answer.dat \in AnyWord /\ IsInput(Answer)
  BY <1>0, <1>3, <1>4, <1>7 DEF IsInput
<1>9. Quiet.dat \in AnyWord /\ IsInput(Quiet)  BY <1>0, <1>1 DEF IsInput
<1>10. [Quiet EXCEPT !.stall = TRUE].dat \in AnyWord /\ IsInput([Quiet EXCEPT !.stall = TRUE])
  BY <1>0, <1>2 DEF IsInput
<1>11. \A in \in Answers : IsInput(in) /\ in.dat \in AnyWord  BY <1>8, <1>9, <1>10, Zenon DEF Answers
<1>. QED BY <1>1, <1>2, <1>3, <1>4, <1>11, Zenon

\* The other half of a step of the clock: master, interconnect and memory.
LEMMA ClockAccess ==
  ASSUME NEW starts \in BOOLEAN, Clock(starts)
  PROVE  \E in \in Answers : AccessEdge(in)
BY DEF Clock, Answers, AccessEdge

\* The command of the controller for its master.
LEMMA AskIs ==
  ASSUME Types
  PROVE  /\ IsCommand(Ask(ctl, mst))
         /\ Ask(ctl, mst).en <=> Active /\ ~mst.complete
         /\ Ask(ctl, mst).we = wb_we(ctl) /\ Ask(ctl, mst).addr = ctl.addr /\ Ask(ctl, mst).din = ctl.rdata
<1>1. ctl.addr \in Nat /\ ctl.rdata \in Word /\ mst.complete \in BOOLEAN
  BY DEF Types, CtlType, MasterRegs
<1>2. wb_we(ctl) \in BOOLEAN /\ wb_re(ctl) \in BOOLEAN  BY DEF wb_we, wb_re
<1> DEFINE e == (wb_re(ctl) \/ wb_we(ctl)) /\ ~mst.complete
           w == wb_we(ctl)
<1>3. e \in BOOLEAN /\ w \in BOOLEAN  BY <1>1, <1>2
<1>4. Ask(ctl, mst) = [en |-> e, we |-> w, addr |-> ctl.addr, burst |-> 0, din |-> ctl.rdata, hold |-> FALSE]
  BY DEF Ask
<1>5. e <=> Active /\ ~mst.complete  BY DEF Active
<1>6. w = wb_we(ctl)  OBVIOUS
<1> HIDE DEF e, w
<1>7. IsCommand(Ask(ctl, mst))  BY <1>1, <1>3, <1>4 DEF IsCommand
<1>8. /\ Ask(ctl, mst).en = e /\ Ask(ctl, mst).we = w /\ Ask(ctl, mst).addr = ctl.addr
      /\ Ask(ctl, mst).din = ctl.rdata
  BY <1>4
<1>9. Ask(ctl, mst).en <=> Active /\ ~mst.complete  BY <1>5, <1>8, Zenon
<1>. QED BY <1>6, <1>7, <1>8, <1>9, Zenon

\* While an access is under way the controller stands still.
LEMMA ActiveHolds ==
  ASSUME Types, NEW starts \in BOOLEAN, EdgeOf(starts), Active, ~mst.complete
  PROVE  /\ ctl'.state = ctl.state /\ ctl'.addr = ctl.addr /\ ctl'.len = ctl.len
         /\ (wb_we(ctl))' <=> wb_we(ctl)
         /\ (wb_re(ctl))' <=> wb_re(ctl)
         /\ wb_we(ctl) => ctl'.rdata = ctl.rdata
         /\ Active'
<1>v. StateValues  BY StatesDiffer
<1>r. CtrlResult(ctl', ctl, Rx, Busy, mst)  BY DEF EdgeOf
<1>1. ctl.state \in {ST_READ, ST_WRITE} /\ (wb_re(ctl) => ctl.wstate = 0) /\ (wb_we(ctl) => ctl.rstate = 4)
  BY DEF Active, wb_re, wb_we
<1>2. /\ ~Uses(ctl) /\ ~Acks(ctl) /\ ~Completes(ctl, mst)
      /\ ctl.state \notin {ST_IDLE, ST_ADDR, ST_LEN, ST_DISPATCH, ST_CORE, ST_PING}
  BY <1>1, <1>v DEF Uses, Acks, Completes, StateValues
<1>3. ctl'.state = ctl.state /\ ctl'.addr = ctl.addr /\ ctl'.len = ctl.len
  BY <1>2, <1>r DEF CtrlResult
<1>4. wb_we(ctl) => ctl'.rstate = ctl.rstate /\ ctl'.rdata = ctl.rdata
  <2>1. wb_we(ctl) => ~TakesByte(ctl, Rx)  BY <1>1 DEF TakesByte
  <2>. QED BY <1>2, <2>1, <1>r DEF CtrlResult
<1>5. wb_re(ctl) => ctl'.wstate = ctl.wstate
  <2>1. wb_re(ctl) => ~GivesByte(ctl, Busy)  BY <1>1 DEF GivesByte
  <2>. QED BY <1>2, <2>1, <1>r DEF CtrlResult
<1>6. (wb_we(ctl))' <=> wb_we(ctl)
  <2>1. (wb_we(ctl))' <=> (ctl'.rstate = 4 /\ ctl'.state = ST_WRITE)  BY DEF wb_we
  <2>2. wb_we(ctl) <=> (ctl.rstate = 4 /\ ctl.state = ST_WRITE)  BY DEF wb_we
  <2>3. wb_we(ctl) \/ (wb_re(ctl) /\ ctl.state = ST_READ)  BY DEF Active, wb_re
  <2>. QED BY <1>3, <1>4, <1>v, <2>1, <2>2, <2>3 DEF StateValues
<1>7. (wb_re(ctl))' <=> wb_re(ctl)
  <2>1. (wb_re(ctl))' <=> (ctl'.wstate = 0 /\ ctl'.state = ST_READ)  BY DEF wb_re
  <2>2. wb_re(ctl) <=> (ctl.wstate = 0 /\ ctl.state = ST_READ)  BY DEF wb_re
  <2>3. wb_re(ctl) \/ (wb_we(ctl) /\ ctl.state = ST_WRITE)  BY DEF Active, wb_we
  <2>. QED BY <1>3, <1>5, <1>v, <2>1, <2>2, <2>3 DEF StateValues
<1>8. Active'  BY <1>6, <1>7 DEF Active
<1>. QED BY <1>3, <1>4, <1>6, <1>7, <1>8

\* Nothing happens to the memory, and what an access does to it.
Unserved == mem' = mem /\ served' = served
ServedNow ==
  /\ mem' = IF bus.we /\ bus.adr \in Adrs THEN [mem EXCEPT ![bus.adr] = bus.dat] ELSE mem
  /\ served'.count = served.count + 1
  /\ bus.we => served'.words = <<>>
  /\ ~bus.we => \E w \in AnyWord : /\ bus.adr \in Adrs => w = mem[bus.adr]
                                   /\ served'.words = Append(served.words, w)
                                   /\ mst'.dout = w

AccessTypes == /\ mst' \in Regs /\ mst'.dout \in AnyWord /\ bus' \in BusType
               /\ mem' \in [Adrs -> AnyWord] /\ served' \in ServedType

LEMMA ActiveSetsNoCores == Active => ~SetsCores
<1>1. Active => ctl.state \in {ST_READ, ST_WRITE}  BY DEF Active, wb_re, wb_we
<1>. QED BY <1>1, StatesDiffer DEF SetsCores, StateValues

\* With no request and no answer due the memory is not touched.
LEMMA IdleServes ==
  ASSUME Types, NEW in \in Answers, AccessEdge(in), ~mst.stb, ~bus.busy
  PROVE  /\ in = Quiet /\ bus' = bus /\ mem' = mem
         /\ SetsCores => served'.count = served.count + 1 /\ served'.words = served.words
         /\ ~SetsCores => served' = served
         /\ served' \in ServedType /\ mem' \in [Adrs -> AnyWord] /\ bus' \in BusType
<1>1. Idles(in)  BY DEF AccessEdge, Waits, Takes, Serves
<1>2. in = Quiet /\ bus' = bus /\ mem' = mem  BY <1>1 DEF Idles
<1>3. /\ SetsCores => served' = [served EXCEPT !.count = served.count + 1]
      /\ ~SetsCores => served' = served
  BY <1>1 DEF Idles
<1>4. served \in ServedType /\ mem \in [Adrs -> AnyWord] /\ bus \in BusType  BY DEF Types
<1>5. SetsCores => served'.count = served.count + 1 /\ served'.words = served.words /\ served' \in ServedType
  BY <1>3, <1>4 DEF ServedType
<1>. QED BY <1>2, <1>3, <1>4, <1>5

LEMMA SameTruth == \A a, b \in BOOLEAN : (a <=> b) => a = b
  OBVIOUS

\* No access: the controller asks for one, or not.
LEMMA NoAccessStep ==
  ASSUME Types, NEW starts \in BOOLEAN, EdgeOf(starts), NEW in \in Answers, AccessEdge(in), NoAccess
  PROVE  /\ AccessTypes /\ mem' = mem
         /\ SetsCores => served'.count = served.count + 1 /\ served'.words = served.words
         /\ ~SetsCores => served' = served
         /\ Active => Active' /\ Asked' /\ bus'.waited = 0
         /\ ~Active => NoAccess'
<1>1. mst.state = "ST_IDLE" /\ ~mst.stb /\ ~mst.complete /\ ~bus.busy /\ bus.waited = 0  BY DEF NoAccess
<1>2. /\ in = Quiet /\ bus' = bus /\ mem' = mem
      /\ SetsCores => served'.count = served.count + 1 /\ served'.words = served.words
      /\ ~SetsCores => served' = served
      /\ served' \in ServedType /\ mem' \in [Adrs -> AnyWord] /\ bus' \in BusType
  BY <1>1, IdleServes
<1>3. IsInput(in)  BY AnswersAre
<1>4. mst \in Regs /\ mst.dout \in AnyWord  BY DEF Types, Regs
<1>5. mst' = MasterEdge(mst, Ask(ctl, mst), in)  BY DEF AccessEdge
<1>6. /\ IsCommand(Ask(ctl, mst)) /\ (Ask(ctl, mst).en <=> Active /\ ~mst.complete)
      /\ Ask(ctl, mst).we = wb_we(ctl) /\ Ask(ctl, mst).addr = ctl.addr /\ Ask(ctl, mst).din = ctl.rdata
  BY AskIs
<1> DEFINE u == Ask(ctl, mst)
<1> HIDE DEF u
<1>7. CASE Active
  <2>1. u.en  BY <1>1, <1>6, <1>7 DEF u
  <2>2. /\ mst' \in Regs /\ mst'.state = "ST_PENDING" /\ mst'.stb /\ ~mst'.complete /\ mst'.dout = mst.dout
        /\ OneWordLeft(mst') /\ mst'.adr = u.addr /\ mst'.we = u.we /\ mst'.dat = u.din
    BY <1>1, <1>3, <1>4, <1>5, <1>6, <2>1, MasterStarts DEF u
  <2>3. /\ ctl'.addr = ctl.addr /\ ((wb_we(ctl))' <=> wb_we(ctl)) /\ (wb_we(ctl) => ctl'.rdata = ctl.rdata)
        /\ Active'
    BY <1>1, <1>7, ActiveHolds
  <2>4. wb_we(ctl)' = wb_we(ctl)
    <3>1. wb_we(ctl)' \in BOOLEAN /\ wb_we(ctl) \in BOOLEAN  BY DEF wb_we
    <3>. QED BY <2>3, <3>1, SameTruth, Zenon
  <2>5. mst'.adr = ctl'.addr /\ mst'.we = wb_we(ctl)' /\ (wb_we(ctl)' => mst'.dat = ctl'.rdata)
    BY <1>6, <2>2, <2>3, <2>4, Zenon DEF u
  <2>6. Asked'  BY <1>1, <1>2, <2>2, <2>5 DEF Asked, OneWord, OneWordLeft
  <2>. QED BY <1>1, <1>2, <1>4, <1>7, <2>2, <2>3, <2>6 DEF AccessTypes
<1>8. CASE ~Active
  <2>1. ~u.en  BY <1>6, <1>8 DEF u
  <2>2. mst' \in Regs /\ mst'.state = "ST_IDLE" /\ mst'.stb = mst.stb /\ ~mst'.complete /\ mst'.dout = mst.dout
    BY <1>1, <1>3, <1>4, <1>5, <1>6, <2>1, MasterIdles DEF u
  <2>3. NoAccess'  BY <1>1, <1>2, <2>2 DEF NoAccess
  <2>. QED BY <1>2, <1>4, <1>8, <2>2, <2>3 DEF AccessTypes
<1>. QED BY <1>7, <1>8

\* The access has been answered: the controller uses the answer.
LEMMA AnsweredStep ==
  ASSUME Types, NEW starts \in BOOLEAN, EdgeOf(starts), NEW in \in Answers, AccessEdge(in),
         Active, Answered
  PROVE  AccessTypes /\ Unserved /\ NoAccess'
<1>1. mst.state = "ST_IDLE" /\ ~mst.stb /\ mst.complete /\ ~bus.busy /\ bus.waited = 0  BY DEF Answered
<1>2. /\ in = Quiet /\ bus' = bus /\ mem' = mem /\ (~SetsCores => served' = served)
      /\ served' \in ServedType /\ mem' \in [Adrs -> AnyWord] /\ bus' \in BusType
  BY <1>1, IdleServes
<1>3. IsInput(in)  BY AnswersAre
<1>4. mst \in Regs /\ mst.dout \in AnyWord  BY DEF Types, Regs
<1>5. mst' = MasterEdge(mst, Ask(ctl, mst), in)  BY DEF AccessEdge
<1>6. IsCommand(Ask(ctl, mst)) /\ ~Ask(ctl, mst).en  BY <1>1, AskIs
<1>7. mst' \in Regs /\ mst'.state = "ST_IDLE" /\ mst'.stb = mst.stb /\ ~mst'.complete /\ mst'.dout = mst.dout
  BY <1>1, <1>3, <1>4, <1>5, <1>6, MasterIdles
<1>8. NoAccess'  BY <1>1, <1>2, <1>7 DEF NoAccess
<1>9. Unserved  BY <1>2, ActiveSetsNoCores DEF Unserved
<1>. QED BY <1>2, <1>4, <1>7, <1>8, <1>9 DEF AccessTypes

\* A request waits or is taken,
LEMMA AskedStep ==
  ASSUME Types, NEW starts \in BOOLEAN, EdgeOf(starts), NEW in \in Answers, AccessEdge(in),
         Active, Asked
  PROVE  /\ AccessTypes /\ Unserved /\ Active'
         /\ \/ Asked' /\ bus'.waited = bus.waited + 1
            \/ Accepted' /\ bus'.waited = bus.waited
<1>1. mst.state = "ST_PENDING" /\ mst.stb /\ ~mst.complete /\ ~bus.busy /\ OneWordLeft(mst)
  BY DEF Asked, OneWord, OneWordLeft
<1>2. mst.adr = ctl.addr /\ mst.we = wb_we(ctl) /\ (wb_we(ctl) => mst.dat = ctl.rdata)  BY DEF Asked
<1>3. IsInput(in)  BY AnswersAre
<1>4. mst \in Regs /\ mst.dout \in AnyWord /\ mst.stb \in BOOLEAN /\ mst.we \in BOOLEAN /\ mst.adr \in Nat
      /\ mst.dat \in Word
  BY DEF Types, Regs, MasterRegs
<1>5. mst' = MasterEdge(mst, Ask(ctl, mst), in)  BY DEF AccessEdge
<1>6. IsCommand(Ask(ctl, mst))  BY AskIs
<1>7. /\ ctl'.addr = ctl.addr /\ ((wb_we(ctl))' <=> wb_we(ctl)) /\ (wb_we(ctl) => ctl'.rdata = ctl.rdata)
      /\ Active'
  BY <1>1, ActiveHolds
<1>8. wb_we(ctl)' = wb_we(ctl)
  <2>1. wb_we(ctl)' \in BOOLEAN /\ wb_we(ctl) \in BOOLEAN  BY DEF wb_we
  <2>. QED BY <1>7, <2>1, SameTruth, Zenon
<1>9. /\ mst' \in Regs
      /\ mst'.state = IF in.ack \/ in.err THEN "ST_IDLE" ELSE "ST_PENDING"
      /\ mst'.complete <=> in.ack \/ in.err
      /\ mst'.stb <=> mst.stb /\ in.stall /\ ~in.ack /\ ~in.err
      /\ mst'.dout = IF in.ack THEN in.dat ELSE mst.dout
      /\ in.stall => mst'.dat = mst.dat /\ mst'.adr = mst.adr
      /\ ~in.ack /\ ~in.err => OneWordLeft(mst') /\ mst'.we = mst.we
  BY <1>1, <1>3, <1>4, <1>5, <1>6, MasterPends
<1>10. mem \in [Adrs -> AnyWord] /\ served \in ServedType /\ bus \in BusType /\ bus.waited \in 0 .. MaxWait
  BY DEF Types, BusType
<1>11. Waits(in) \/ Takes(in)  BY <1>1 DEF AccessEdge, Serves, Idles
<1>12. CASE Waits(in)
  <2>1. /\ in = [Quiet EXCEPT !.stall = mst.stb] /\ bus' = [bus EXCEPT !.waited = bus.waited + 1]
        /\ bus.waited < MaxWait /\ mem' = mem /\ served' = served
    BY <1>12 DEF Waits, MayWait
  <2>2. ~in.ack /\ ~in.err /\ in.stall = mst.stb  BY <1>4, <2>1, AnswersAre
  <2>3. bus.waited + 1 \in 0 .. MaxWait  BY <1>10, <2>1, Times
  <2>4. bus' \in BusType /\ bus'.waited = bus.waited + 1 /\ bus'.busy = bus.busy  BY <1>10, <2>1, <2>3 DEF BusType
  <2>5. mst'.state = "ST_PENDING" /\ ~mst'.complete /\ mst'.stb /\ mst'.dout = mst.dout /\ mst'.dat = mst.dat
        /\ mst'.adr = mst.adr /\ OneWordLeft(mst') /\ mst'.we = mst.we
    BY <1>1, <1>9, <2>2
  <2>6. mst'.adr = ctl'.addr /\ mst'.we = wb_we(ctl)' /\ (wb_we(ctl)' => mst'.dat = ctl'.rdata)
    BY <1>2, <1>7, <1>8, <2>5, Zenon
  <2>7. Asked'  BY <1>1, <2>4, <2>5, <2>6 DEF Asked, OneWord, OneWordLeft
  <2>8. AccessTypes  BY <1>4, <1>9, <1>10, <2>1, <2>4, <2>5 DEF AccessTypes
  <2>. QED BY <1>7, <2>1, <2>4, <2>7, <2>8 DEF Unserved
<1>13. CASE Takes(in)
  <2>1. /\ in = Quiet
        /\ bus' = [bus EXCEPT !.busy = TRUE, !.we = mst.we, !.adr = mst.adr, !.dat = mst.dat]
        /\ mem' = mem /\ served' = served
    BY <1>13 DEF Takes
  <2>2. ~in.ack /\ ~in.err /\ ~in.stall  BY <2>1, AnswersAre
  <2>3. /\ bus' \in BusType /\ bus'.waited = bus.waited /\ bus'.busy = TRUE /\ bus'.we = mst.we
        /\ bus'.adr = mst.adr /\ bus'.dat = mst.dat
    BY <1>4, <1>10, <2>1 DEF BusType
  <2>4. mst'.state = "ST_PENDING" /\ ~mst'.complete /\ ~mst'.stb /\ mst'.dout = mst.dout /\ OneWordLeft(mst')
    BY <1>1, <1>9, <2>2
  <2>5. bus'.adr = ctl'.addr /\ bus'.we = wb_we(ctl)' /\ (wb_we(ctl)' => bus'.dat = ctl'.rdata)
    BY <1>2, <1>7, <1>8, <2>3, Zenon
  <2>6. Accepted'  BY <2>3, <2>4, <2>5 DEF Accepted, OneWord, OneWordLeft
  <2>7. AccessTypes  BY <1>4, <1>9, <1>10, <2>1, <2>3, <2>4 DEF AccessTypes
  <2>. QED BY <1>7, <2>1, <2>3, <2>6, <2>7 DEF Unserved
<1>. QED BY <1>11, <1>12, <1>13

\* and once taken it waits or is answered.
LEMMA AcceptedStep ==
  ASSUME Types, NEW starts \in BOOLEAN, EdgeOf(starts), NEW in \in Answers, AccessEdge(in),
         Active, Accepted, wb_we(ctl) => ctl.rdata \in AnyWord
  PROVE  /\ AccessTypes /\ Active'
         /\ \/ Unserved /\ Accepted' /\ bus'.waited = bus.waited + 1
            \/ ServedNow /\ Answered'
<1>1. mst.state = "ST_PENDING" /\ ~mst.stb /\ ~mst.complete /\ bus.busy /\ OneWordLeft(mst)
  BY DEF Accepted, OneWord, OneWordLeft
<1>2. bus.adr = ctl.addr /\ bus.we = wb_we(ctl) /\ (wb_we(ctl) => bus.dat = ctl.rdata)  BY DEF Accepted
<1>3. IsInput(in) /\ in.dat \in AnyWord  BY AnswersAre
<1>4. mst \in Regs /\ mst.dout \in AnyWord /\ mst.stb \in BOOLEAN  BY DEF Types, Regs, MasterRegs
<1>5. mst' = MasterEdge(mst, Ask(ctl, mst), in)  BY DEF AccessEdge
<1>6. IsCommand(Ask(ctl, mst))  BY AskIs
<1>7. /\ ctl'.addr = ctl.addr /\ ((wb_we(ctl))' <=> wb_we(ctl)) /\ ((wb_re(ctl))' <=> wb_re(ctl))
      /\ (wb_we(ctl) => ctl'.rdata = ctl.rdata) /\ Active'
  BY <1>1, ActiveHolds
<1>8. wb_we(ctl)' = wb_we(ctl)
  <2>1. wb_we(ctl)' \in BOOLEAN /\ wb_we(ctl) \in BOOLEAN  BY DEF wb_we
  <2>. QED BY <1>7, <2>1, SameTruth, Zenon
<1>9. /\ mst' \in Regs
      /\ mst'.state = IF in.ack \/ in.err THEN "ST_IDLE" ELSE "ST_PENDING"
      /\ mst'.complete <=> in.ack \/ in.err
      /\ mst'.stb <=> mst.stb /\ in.stall /\ ~in.ack /\ ~in.err
      /\ mst'.dout = IF in.ack THEN in.dat ELSE mst.dout
      /\ ~in.ack /\ ~in.err => OneWordLeft(mst') /\ mst'.we = mst.we
  BY <1>1, <1>3, <1>4, <1>5, <1>6, MasterPends
<1>10. mem \in [Adrs -> AnyWord] /\ served \in ServedType /\ bus \in BusType /\ bus.waited \in 0 .. MaxWait
  BY DEF Types, BusType
<1>11. Waits(in) \/ Serves(in)  BY <1>1 DEF AccessEdge, Takes, Idles
<1>12. CASE Waits(in)
  <2>1. /\ in = [Quiet EXCEPT !.stall = mst.stb] /\ bus' = [bus EXCEPT !.waited = bus.waited + 1]
        /\ bus.waited < MaxWait /\ mem' = mem /\ served' = served
    BY <1>12 DEF Waits, MayWait
  <2>2. ~in.ack /\ ~in.err  BY <1>4, <2>1, AnswersAre
  <2>3. bus.waited + 1 \in 0 .. MaxWait  BY <1>10, <2>1, Times
  <2>4. /\ bus' \in BusType /\ bus'.waited = bus.waited + 1 /\ bus'.busy = bus.busy /\ bus'.adr = bus.adr
        /\ bus'.we = bus.we /\ bus'.dat = bus.dat
    BY <1>10, <2>1, <2>3 DEF BusType
  <2>5. mst'.state = "ST_PENDING" /\ ~mst'.complete /\ ~mst'.stb /\ mst'.dout = mst.dout /\ OneWordLeft(mst')
    BY <1>1, <1>9, <2>2
  <2>6. bus'.adr = ctl'.addr /\ bus'.we = wb_we(ctl)' /\ (wb_we(ctl)' => bus'.dat = ctl'.rdata)
    BY <1>2, <1>7, <1>8, <2>4, Zenon
  <2>7. Accepted'  BY <1>1, <2>4, <2>5, <2>6 DEF Accepted, OneWord, OneWordLeft
  <2>8. AccessTypes  BY <1>4, <1>9, <1>10, <2>1, <2>4, <2>5 DEF AccessTypes
  <2>. QED BY <1>7, <2>1, <2>4, <2>7, <2>8 DEF Unserved
<1>13. CASE Serves(in)
  <2> DEFINE w == IF in.ack THEN in.dat ELSE mst.dout
             q == IF bus.we THEN <<>> ELSE Append(served.words, w)
  <2>1. /\ in = Answer /\ bus' = [bus EXCEPT !.busy = FALSE, !.waited = 0]
        /\ mem' = IF bus.we /\ bus.adr \in Adrs THEN [mem EXCEPT ![bus.adr] = bus.dat] ELSE mem
        /\ served' = [count |-> served.count + 1, words |-> q]
    BY <1>13 DEF Serves
  <2>2. /\ in.ack \/ in.err
        /\ bus.adr \in Adrs => in.ack /\ in.dat = mem[bus.adr]
    BY <2>1, AnswersAre
  <2>3. w \in AnyWord /\ mst'.dout = w /\ (bus.adr \in Adrs => w = mem[bus.adr])
    BY <1>3, <1>4, <1>9, <2>2
  <2> HIDE DEF w
  <2>4. served.words \in Seq(AnyWord) /\ served.count \in Nat  BY <1>10 DEF ServedType
  <2> DEFINE a == Append(served.words, w)
  <2>5. a \in Seq(AnyWord) /\ a # <<>> /\ a[Len(a)] = w
    <3>1. a \in Seq(AnyWord) /\ Len(a) = Len(served.words) + 1 /\ a[Len(served.words) + 1] = w
      BY <2>3, <2>4, AppendIs
    <3>2. Len(served.words) \in Nat  BY <2>4
    <3> HIDE DEF a
    <3>3. a # <<>>  BY <3>1, <3>2
    <3>. QED BY <3>1, <3>3
  <2>6. q \in Seq(AnyWord)
    <3>1. <<>> \in Seq(AnyWord)  OBVIOUS
    <3>. QED BY <2>5, <3>1, Zenon
  <2>7. served'.count = served.count + 1 /\ served'.words = q  BY <2>1
  <2>8. served' \in ServedType  BY <2>1, <2>4, <2>6 DEF ServedType
  <2>9. mem' \in [Adrs -> AnyWord]
    <3>1. bus.we => bus.dat \in AnyWord  BY <1>2, Zenon
    <3>. QED BY <1>10, <2>1, <3>1
  <2>10. bus' \in BusType /\ ~bus'.busy /\ bus'.waited = 0
    <3>1. 0 \in 0 .. MaxWait  BY Times
    <3>. QED BY <1>10, <2>1, <3>1 DEF BusType
  <2>11. mst'.state = "ST_IDLE" /\ mst'.complete /\ ~mst'.stb  BY <1>1, <1>9, <2>2
  <2>12. wb_re(ctl)' => served'.words # <<>> /\ mst'.dout = served'.words[Len(served'.words)]
    <3>1. wb_re(ctl)' => ~bus.we
      <4>1. wb_re(ctl) => ~wb_we(ctl)
        BY StatesDiffer DEF wb_re, wb_we, StateValues
      <4>. QED BY <1>2, <1>7, <4>1, Zenon
    <3>. QED BY <2>3, <2>5, <2>7, <3>1
  <2>13. Answered'  BY <2>10, <2>11, <2>12 DEF Answered
  <2>14. AccessTypes  BY <1>9, <2>3, <2>8, <2>9, <2>10 DEF AccessTypes
  <2>15. ServedNow
    <3>1. bus.we => served'.words = <<>>  BY <2>7
    <3>2. ~bus.we => served'.words = Append(served.words, w)  BY <2>7
    <3>. QED BY <2>1, <2>3, <2>7, <3>1, <3>2, Zenon DEF ServedNow
  <2>. QED BY <1>7, <2>13, <2>14, <2>15
<1>. QED BY <1>11, <1>12, <1>13

\* How far an access is.
LEMMA ToGoIs ==
  ASSUME Types
  PROVE  /\ ToGo \in Nat /\ 1 <= ToGo /\ ToGo <= MaxWait + 4
         /\ NoAccess => ToGo = MaxWait + 4
         /\ Asked => ToGo = MaxWait - bus.waited + 3
         /\ Accepted => ToGo = MaxWait - bus.waited + 2
         /\ Answered => ToGo = 1
<1>1. bus.waited \in 0 .. MaxWait /\ MaxWait \in Nat  BY Times DEF Types, BusType
<1>. QED BY <1>1 DEF ToGo, NoAccess, Asked, Accepted, Answered

\* One edge of the access under way.
NotAsked == /\ ~Active /\ NoAccess /\ NoAccess' /\ mem' = mem
            /\ SetsCores => served'.count = served.count + 1 /\ served'.words = served.words
            /\ ~SetsCores => served' = served
OnTheWay == /\ Active /\ Active' /\ ~mst.complete
            /\ ToGo' <= ToGo - 1
            /\ \/ Unserved /\ ~mst'.complete
               \/ ServedNow /\ Accepted /\ mst'.complete /\ Answered'
InUse == Active /\ Answered /\ mst.complete /\ Unserved /\ NoAccess'

\* The three phases of an access come one after the other; each edge brings its end
\* nearer.
LEMMA AccessStep ==
  ASSUME Types, NEW starts \in BOOLEAN, EdgeOf(starts), NEW in \in Answers, AccessEdge(in),
         Accessing, wb_we(ctl) => ctl.rdata \in AnyWord, Types'
  PROVE  NotAsked \/ (OnTheWay /\ Accessing') \/ InUse
<1>w. bus.waited \in 0 .. MaxWait /\ bus'.waited \in 0 .. MaxWait /\ MaxWait \in Nat
  BY Times DEF Types, BusType
<1>g. /\ NoAccess => ToGo = MaxWait + 4
      /\ Asked => ToGo = MaxWait - bus.waited + 3
      /\ Accepted => ToGo = MaxWait - bus.waited + 2
  BY ToGoIs
<1>h. /\ Asked' => ToGo' = MaxWait - bus'.waited + 3
      /\ Accepted' => ToGo' = MaxWait - bus'.waited + 2
      /\ Answered' => ToGo' = 1
  <2>1. bus'.waited \in 0 .. MaxWait /\ MaxWait \in Nat  BY <1>w
  <2>. QED BY <2>1 DEF ToGo, Asked, Accepted, Answered
<1>t. ToGo \in Nat /\ ToGo' \in Nat
  BY <1>w DEF ToGo
<1>1. CASE NoAccess
  <2>1. /\ mem' = mem
        /\ SetsCores => served'.count = served.count + 1 /\ served'.words = served.words
        /\ ~SetsCores => served' = served
        /\ Active => Active' /\ Asked' /\ bus'.waited = 0
        /\ ~Active => NoAccess'
    BY <1>1, NoAccessStep
  <2>2. CASE ~Active  BY <1>1, <2>1, <2>2 DEF NotAsked
  <2>3. CASE Active
    <3>1. Unserved  BY <2>1, <2>3, ActiveSetsNoCores DEF Unserved
    <3>2. ToGo' <= ToGo - 1
      <4>1. ToGo = MaxWait + 4  BY <1>1, <1>g
      <4>2. ToGo' = MaxWait - 0 + 3  BY <2>1, <2>3, <1>h
      <4>. QED BY <4>1, <4>2, <1>w
    <3>3. ~mst.complete /\ ~mst'.complete  BY <1>1, <2>1, <2>3 DEF NoAccess, Asked
    <3>4. Accessing'  BY <2>1, <2>3 DEF Accessing, Active
    <3>. QED BY <2>1, <2>3, <3>1, <3>2, <3>3, <3>4 DEF OnTheWay
  <2>. QED BY <2>2, <2>3
<1>2. CASE Active /\ Asked
  <2>1. /\ Unserved /\ Active'
        /\ \/ Asked' /\ bus'.waited = bus.waited + 1
           \/ Accepted' /\ bus'.waited = bus.waited
    BY <1>2, AskedStep
  <2>2. ~mst.complete /\ ~mst'.complete  BY <1>2, <2>1 DEF Asked, Accepted
  <2>3. ToGo' <= ToGo - 1
    <3>1. ToGo = MaxWait - bus.waited + 3  BY <1>2, <1>g
    <3>2. CASE Asked' /\ bus'.waited = bus.waited + 1
      <4>1. ToGo' = MaxWait - bus'.waited + 3  BY <3>2, <1>h
      <4>. QED BY <3>1, <3>2, <4>1, <1>w
    <3>3. CASE Accepted' /\ bus'.waited = bus.waited
      <4>1. ToGo' = MaxWait - bus'.waited + 2  BY <3>3, <1>h
      <4>. QED BY <3>1, <3>3, <4>1, <1>w
    <3>. QED BY <2>1, <3>2, <3>3
  <2>4. Accessing'  BY <2>1 DEF Accessing, Active
  <2>. QED BY <1>2, <2>1, <2>2, <2>3, <2>4 DEF OnTheWay
<1>3. CASE Active /\ Accepted
  <2>1. /\ Active'
        /\ \/ Unserved /\ Accepted' /\ bus'.waited = bus.waited + 1
           \/ ServedNow /\ Answered'
    BY <1>3, AcceptedStep
  <2>2. ~mst.complete /\ (Accepted' => ~mst'.complete) /\ (Answered' => mst'.complete)
    BY <1>3 DEF Answered, Accepted
  <2>3. ToGo' <= ToGo - 1
    <3>1. ToGo = MaxWait - bus.waited + 2  BY <1>3, <1>g
    <3>2. CASE Accepted' /\ bus'.waited = bus.waited + 1
      <4>1. ToGo' = MaxWait - bus'.waited + 2  BY <3>2, <1>h
      <4>. QED BY <3>1, <3>2, <4>1, <1>w
    <3>3. CASE Answered'
      <4>1. ToGo' = 1  BY <3>3, <1>h
      <4>. QED BY <3>1, <4>1, <1>w
    <3>. QED BY <2>1, <3>2, <3>3
  <2>4. Accessing'  BY <2>1 DEF Accessing, Active
  <2>. QED BY <1>3, <2>1, <2>2, <2>3, <2>4 DEF OnTheWay
<1>4. CASE Active /\ Answered
  <2>1. Unserved /\ NoAccess'  BY <1>4, AnsweredStep
  <2>. QED BY <1>4, <2>1 DEF InUse, Answered
<1>. QED BY <1>1, <1>2, <1>3, <1>4 DEF Accessing, Active

\* Master, interconnect and memory keep their types.
LEMMA AccessTypesStep ==
  ASSUME Types, NEW starts \in BOOLEAN, EdgeOf(starts), NEW in \in Answers, AccessEdge(in),
         Accessing, wb_we(ctl) => ctl.rdata \in AnyWord
  PROVE  AccessTypes
BY NoAccessStep, AskedStep, AcceptedStep, AnsweredStep DEF Accessing, Active

-----------------------------------------------------------------------------
(* One edge of the clock: the way back.                                    *)

Given == IF GivesByte(ctl, Busy) THEN 1 ELSE 0

\* The byte i of the reply as the words after the edge have it.
NextReply(i) == ReplyByte(served'.words, host'.call, i)

\* What the lines hold of the reply goes on being its beginning.
LEMMA ReplyLines ==
  ASSUME Types, NEW starts \in BOOLEAN, EdgeOf(starts), Types', Replying,
         \A i \in 1 .. Sent + ctl.wstate : NextReply(i) = Reply(i)
  PROVE  /\ Sent \in Nat /\ Given \in 0 .. 1 /\ Given <= ctl.wstate /\ Sent' = Sent + Given
         /\ \A i \in 1 .. Len(host'.got) : host'.got[i] = NextReply(i)
         /\ \A i \in 1 .. Len(inbox') : inbox'[i] = NextReply(Len(host.got) + i)
         /\ uart'.tx_left # 0 => uart'.tx_byte = NextReply(Sent + Given)
<1> DEFINE G == Len(host.got)  I == Len(inbox)  J == Len(inbox')
           R(i) == Reply(i)
           S(i) == NextReply(i)
<1>1. /\ host.got \in Seq(Byte) /\ inbox \in Seq(Byte) /\ inbox' \in Seq(Byte)
      /\ uart.tx_left \in Nat /\ uart.tx_byte \in Byte /\ uart'.tx_left \in Nat /\ ctl.wstate \in 0 .. 4
  BY DEF Types, HostType, UartType, CtlType
<1>2. G \in Nat /\ I \in Nat /\ J \in Nat  BY <1>1
<1>3. host'.got = host.got  BY DEF EdgeOf, HostEdge
<1>4. /\ uart'.tx_left = IF GivesByte(ctl, Busy) THEN ByteTime
                         ELSE IF uart.tx_left = 0 THEN 0 ELSE uart.tx_left - 1
      /\ uart'.tx_byte = IF GivesByte(ctl, Busy) THEN ctl.wdata[1] ELSE uart.tx_byte
      /\ inbox' = IF uart.tx_left = 1 THEN Append(inbox, uart.tx_byte) ELSE inbox
  BY DEF EdgeOf, LinesEdge
<1>5. GivesByte(ctl, Busy) <=> uart.tx_left = 0 /\ ctl.wstate # 0  BY DEF GivesByte, Busy
<1>6. /\ Sent = G + I + (IF uart.tx_left # 0 THEN 1 ELSE 0)
      /\ Sent' = G + J + (IF uart'.tx_left # 0 THEN 1 ELSE 0)
  BY <1>3 DEF Sent
<1>7. /\ \A i \in 1 .. G : host.got[i] = R(i)
      /\ \A i \in 1 .. I : inbox[i] = R(G + i)
      /\ uart.tx_left # 0 => uart.tx_byte = R(Sent)
      /\ \A i \in 1 .. ctl.wstate : ctl.wdata[i] = R(Sent + i)
  BY DEF Replying
<1>8. \A i \in 1 .. Sent + ctl.wstate : S(i) = R(i)  OBVIOUS
<1> HIDE DEF G, I, J, R, S
<1>9. Sent \in Nat /\ G <= Sent /\ G + I <= Sent  BY <1>2, <1>6
<1>10. Given \in 0 .. 1 /\ Given <= ctl.wstate  BY <1>1, <1>5 DEF Given
<1>a. /\ uart.tx_left = 1 => /\ J = I + 1 /\ inbox'[I + 1] = uart.tx_byte
                             /\ \A i \in 1 .. I : inbox'[i] = inbox[i]
      /\ uart.tx_left # 1 => inbox' = inbox /\ J = I
  <2>1. /\ Len(Append(inbox, uart.tx_byte)) = I + 1
        /\ \A i \in 1 .. I : Append(inbox, uart.tx_byte)[i] = inbox[i]
        /\ Append(inbox, uart.tx_byte)[I + 1] = uart.tx_byte
    BY <1>1, AppendIs DEF I
  <2>. QED BY <1>4, <2>1 DEF I, J
<1>11. Sent' = Sent + Given
  <2>1. CASE GivesByte(ctl, Busy)
    <3>1. uart.tx_left = 0 /\ uart'.tx_left = ByteTime /\ ByteTime # 0  BY <1>4, <1>5, <2>1, Times
    <3>2. Given = 1  BY <2>1 DEF Given
    <3>. QED BY <1>2, <1>6, <1>a, <3>1, <3>2
  <2>2. CASE ~GivesByte(ctl, Busy)
    <3>1. uart'.tx_left = IF uart.tx_left = 0 THEN 0 ELSE uart.tx_left - 1  BY <1>4, <2>2
    <3>2. Given = 0  BY <2>2 DEF Given
    <3>3. CASE uart.tx_left = 0  BY <1>2, <1>6, <1>a, <3>1, <3>2, <3>3
    <3>4. CASE uart.tx_left = 1  BY <1>2, <1>6, <1>a, <3>1, <3>2, <3>4
    <3>5. CASE uart.tx_left > 1  BY <1>1, <1>2, <1>6, <1>a, <3>1, <3>2, <3>5
    <3>. QED BY <1>1, <3>3, <3>4, <3>5
  <2>. QED BY <2>1, <2>2
<1>12. \A i \in 1 .. G : host.got[i] = S(i)
  <2>1. \A i \in 1 .. G : i \in 1 .. Sent + ctl.wstate  BY <1>1, <1>2, <1>9
  <2>. QED BY <1>7, <1>8, <2>1
<1>13. \A i \in 1 .. J : inbox'[i] = S(G + i)
  <2> SUFFICES ASSUME NEW i \in 1 .. J PROVE inbox'[i] = S(G + i)  OBVIOUS
  <2>1. CASE i \in 1 .. I
    <3>1. G + i \in 1 .. Sent + ctl.wstate  BY <1>1, <1>2, <1>9, <2>1
    <3>2. inbox'[i] = inbox[i]  BY <1>a, <2>1
    <3>. QED BY <1>7, <1>8, <2>1, <3>1, <3>2
  <2>2. CASE i \notin 1 .. I
    <3>1. uart.tx_left = 1 /\ i = I + 1  BY <1>2, <1>a, <2>2
    <3>2. Sent = G + i  BY <1>2, <1>6, <3>1
    <3>3. inbox'[i] = R(Sent)  BY <1>7, <1>a, <3>1
    <3>4. Sent \in 1 .. Sent + ctl.wstate  BY <1>1, <1>2, <1>9, <3>1, <3>2
    <3>. QED BY <1>8, <3>2, <3>3, <3>4
  <2>. QED BY <2>1, <2>2
<1>14. uart'.tx_left # 0 => uart'.tx_byte = S(Sent + Given)
  <2>1. CASE GivesByte(ctl, Busy)
    <3>1. Given = 1 /\ uart'.tx_byte = ctl.wdata[1] /\ 1 \in 1 .. ctl.wstate  BY <1>1, <1>4, <1>5, <2>1 DEF Given
    <3>2. Sent + 1 \in 1 .. Sent + ctl.wstate  BY <1>1, <1>9, <3>1
    <3>. QED BY <1>7, <1>8, <3>1, <3>2
  <2>2. CASE ~GivesByte(ctl, Busy)
    <3>1. Given = 0 /\ uart'.tx_byte = uart.tx_byte  BY <1>4, <2>2 DEF Given
    <3>2. uart'.tx_left # 0 => uart.tx_left # 0  BY <1>4, <2>2
    <3>3. uart.tx_left # 0 => Sent \in 1 .. Sent + ctl.wstate  BY <1>1, <1>2, <1>6
    <3>4. Sent + Given = Sent  BY <1>9, <3>1
    <3>. QED BY <1>7, <1>8, <3>1, <3>2, <3>3, <3>4
  <2>. QED BY <2>1, <2>2
<1>. QED BY <1>3, <1>9, <1>10, <1>11, <1>12, <1>13, <1>14 DEF G, I, J, S

\* The rest of the reply: what the controller holds in wdata.
LEMMA ReplyingFrom ==
  ASSUME Types, NEW starts \in BOOLEAN, EdgeOf(starts), Types', Replying,
         \A i \in 1 .. Sent + ctl.wstate : NextReply(i) = Reply(i),
         \A i \in 1 .. ctl'.wstate : ctl'.wdata[i] = NextReply(Sent + Given + i)
  PROVE  Replying'
<1>1. /\ Sent' = Sent + Given
      /\ \A i \in 1 .. Len(host'.got) : host'.got[i] = NextReply(i)
      /\ \A i \in 1 .. Len(inbox') : inbox'[i] = NextReply(Len(host.got) + i)
      /\ uart'.tx_left # 0 => uart'.tx_byte = NextReply(Sent + Given)
  BY ReplyLines
<1>2. host'.got = host.got  BY DEF EdgeOf, HostEdge
<1> DEFINE T == Sent + Given
<1>3. Sent' = T  BY <1>1
<1>4. \A i \in 1 .. ctl'.wstate : ctl'.wdata[i] = NextReply(T + i)  OBVIOUS
<1>5. uart'.tx_left # 0 => uart'.tx_byte = NextReply(T)  BY <1>1
<1> HIDE DEF T
<1>6. \A i \in 1 .. Len(inbox') : inbox'[i] = NextReply(Len(host'.got) + i)  BY <1>1, <1>2
<1>7. uart'.tx_left # 0 => uart'.tx_byte = NextReply(Sent')  BY <1>3, <1>5, Zenon
<1>8. \A i \in 1 .. ctl'.wstate : ctl'.wdata[i] = NextReply(Sent' + i)  BY <1>3, <1>4, Zenon
<1>. QED BY <1>1, <1>6, <1>7, <1>8 DEF Replying, Reply, NextReply

\* The reply stays what it is while no word is read, and a word that is read comes
\* behind those read before.
LEMMA ReplySteady ==
  ASSUME NEW starts \in BOOLEAN, EdgeOf(starts), served'.words = served.words
  PROVE  \A i : NextReply(i) = Reply(i)
BY DEF EdgeOf, HostEdge, NextReply, Reply

LEMMA ReplyGrows ==
  ASSUME Types, NEW starts \in BOOLEAN, EdgeOf(starts), NEW w \in AnyWord,
         served'.words = Append(served.words, w)
  PROVE  \A i \in 1 .. 4 * Len(served.words) : NextReply(i) = Reply(i)
<1> SUFFICES ASSUME NEW i \in 1 .. 4 * Len(served.words) PROVE NextReply(i) = Reply(i)
  OBVIOUS
<1> DEFINE q == served.words  a == served'.words
<1>1. q \in Seq(AnyWord) /\ host'.call = host.call  BY DEF Types, ServedType, EdgeOf, HostEdge
<1>2. Len(a) = Len(q) + 1 /\ \A j \in 1 .. Len(q) : a[j] = q[j]  BY <1>1, AppendIs
<1>3. Len(q) \in Nat  BY <1>1
<1>4. NextReply(i) = ReplyByte(a, host.call, i) /\ Reply(i) = ReplyByte(q, host.call, i)
  BY <1>1 DEF NextReply, Reply
<1>5. i \in 1 .. 4 * Len(q)  OBVIOUS
<1> HIDE DEF q, a
<1>6. i <= 4 * Len(a) /\ i <= 4 * Len(q)  BY <1>2, <1>3, <1>5
<1>7. (i + 3) \div 4 \in 1 .. Len(q)  BY <1>3, <1>5, WordAt
<1> DEFINE d == (i + 3) \div 4  k == ((i + 3) % 4) + 1
<1>8. ReplyByte(a, host.call, i) = a[d][k] /\ ReplyByte(q, host.call, i) = q[d][k]
  BY <1>6 DEF ReplyByte
<1>9. d \in 1 .. Len(q)  BY <1>7
<1> HIDE DEF d, k
<1>. QED BY <1>2, <1>4, <1>8, <1>9

\* wdata is given out byte by byte,
LEMMA ReplyingShifts ==
  ASSUME Types, NEW starts \in BOOLEAN, EdgeOf(starts), Types', Replying,
         \A i \in 1 .. Sent + ctl.wstate : NextReply(i) = Reply(i),
         ~(Completes(ctl, mst) /\ wb_re(ctl)), ~Acks(ctl)
  PROVE  Replying' /\ Sent' + ctl'.wstate = Sent + ctl.wstate
<1>1. /\ ctl'.wdata = IF GivesByte(ctl, Busy) THEN ShiftIn(ctl.wdata, 0) ELSE ctl.wdata
      /\ ctl'.wstate = IF GivesByte(ctl, Busy) THEN ctl.wstate - 1 ELSE ctl.wstate
  BY DEF EdgeOf, CtrlResult
<1>2. ctl.wstate \in 0 .. 4 /\ ctl.wdata \in Word  BY DEF Types, CtlType
<1>3. Sent \in Nat /\ Given \in 0 .. 1 /\ Given <= ctl.wstate /\ Sent' = Sent + Given  BY ReplyLines
<1>4. ctl'.wstate = ctl.wstate - Given  BY <1>1, <1>2 DEF Given
<1>5. \A i \in 1 .. ctl'.wstate : ctl'.wdata[i] = ctl.wdata[Given + i]
  <2>1. CASE GivesByte(ctl, Busy)
    <3>1. 0 \in Byte  BY DEF Byte
    <3>2. \A i \in 1 .. 3 : ctl'.wdata[i] = ctl.wdata[i + 1]  BY <1>1, <1>2, <2>1, <3>1, ShiftInIs
    <3>3. Given = 1  BY <2>1 DEF Given
    <3>4. \A i \in 1 .. ctl'.wstate : i \in 1 .. 3 /\ Given + i = i + 1  BY <1>2, <1>4, <3>3
    <3>. QED BY <3>2, <3>4
  <2>2. CASE ~GivesByte(ctl, Busy)
    <3>1. Given = 0 /\ ctl'.wdata = ctl.wdata  BY <1>1, <2>2 DEF Given
    <3>2. \A i \in 1 .. ctl'.wstate : Given + i = i  BY <1>2, <1>4, <3>1
    <3>. QED BY <3>1, <3>2
  <2>. QED BY <2>1, <2>2
<1>6. \A i \in 1 .. ctl.wstate : ctl.wdata[i] = Reply(Sent + i)  BY DEF Replying
<1>7. \A i \in 1 .. ctl'.wstate : ctl'.wdata[i] = NextReply(Sent + Given + i)
  <2> SUFFICES ASSUME NEW i \in 1 .. ctl'.wstate PROVE ctl'.wdata[i] = NextReply(Sent + Given + i)
    OBVIOUS
  <2>1. Given + i \in 1 .. ctl.wstate /\ Sent + (Given + i) = Sent + Given + i
        /\ Sent + Given + i \in 1 .. Sent + ctl.wstate
    BY <1>2, <1>3, <1>4
  <2>2. ctl'.wdata[i] = Reply(Sent + (Given + i))  BY <1>5, <1>6, <2>1
  <2>. QED BY <2>1, <2>2
<1>8. Replying'  BY <1>7, ReplyingFrom
<1>. QED BY <1>2, <1>3, <1>4, <1>8

\* a word that has been read is loaded,
LEMMA ReplyingLoads ==
  ASSUME Types, NEW starts \in BOOLEAN, EdgeOf(starts), Types', Replying,
         served' = served, Completes(ctl, mst), wb_re(ctl),
         served.words # <<>>, mst.dout = served.words[Len(served.words)],
         Sent = 4 * (Len(served.words) - 1)
  PROVE  Replying' /\ Sent' + ctl'.wstate = 4 * Len(served.words)
<1>1. ctl.wstate = 0  BY DEF wb_re
<1>2. ctl'.wdata = mst.dout /\ ctl'.wstate = 4  BY DEF EdgeOf, CtrlResult
<1>3. \A i : NextReply(i) = Reply(i)  BY ReplySteady
<1>4. Sent \in Nat /\ Given \in 0 .. 1 /\ Given <= ctl.wstate /\ Sent' = Sent + Given  BY <1>3, ReplyLines
<1>5. Given = 0 /\ Sent' = Sent  BY <1>1, <1>4
<1> DEFINE q == served.words  n == Len(q)  d == n - 1
<1>6. n \in Nat /\ n # 0
  <2>1. q \in Seq(AnyWord) /\ q # <<>>  BY DEF Types, ServedType
  <2>. QED BY <2>1
<1>7. mst.dout = q[n] /\ Sent = 4 * d  OBVIOUS
<1>8. \A i : Reply(i) = ReplyByte(q, host.call, i)  BY DEF Reply
<1> HIDE DEF q, n
<1>9. d \in Nat /\ d + 1 = n  BY <1>6
<1> HIDE DEF d
<1>10. \A i \in 1 .. 4 : ctl'.wdata[i] = NextReply(Sent + Given + i)
  <2> SUFFICES ASSUME NEW i \in 1 .. 4 PROVE ctl'.wdata[i] = NextReply(Sent + Given + i)
    OBVIOUS
  <2>1. (4 * d + i + 3) \div 4 = d + 1 /\ (4 * d + i + 3) % 4 = i - 1  BY <1>9, InWord
  <2>2. 4 * d + i <= 4 * n  BY <1>6, <1>9
  <2> DEFINE j == 4 * d + i
  <2>3. (j + 3) \div 4 = n /\ ((j + 3) % 4) + 1 = i /\ j <= 4 * n  BY <1>9, <2>1, <2>2
  <2>4. Sent + Given + i = j  BY <1>4, <1>5, <1>7
  <2> HIDE DEF j
  <2>5. Len(q) = n  BY DEF n
  <2>6. ReplyByte(q, host.call, j) = q[(j + 3) \div 4][((j + 3) % 4) + 1]  BY <2>3, <2>5 DEF ReplyByte
  <2>7. NextReply(j) = q[n][i]  BY <1>3, <1>8, <2>3, <2>6
  <2>. QED BY <1>2, <1>7, <2>4, <2>7
<1>11. \A i \in 1 .. ctl'.wstate : ctl'.wdata[i] = NextReply(Sent + Given + i)  BY <1>2, <1>10
<1>12. Replying'  BY <1>3, <1>11, ReplyingFrom
<1>13. Sent' + ctl'.wstate = 4 * n  BY <1>2, <1>4, <1>5, <1>6, <1>7, <1>9
<1>. QED BY <1>12, <1>13 DEF n, q

\* and the acknowledge comes behind the words.
LEMMA ReplyingAcks ==
  ASSUME Types, NEW starts \in BOOLEAN, EdgeOf(starts), Types', Replying,
         served' = served, Acks(ctl), ctl.cmd = CmdOf(host.call),
         Sent = 4 * Len(served.words)
  PROVE  Replying' /\ Sent' + ctl'.wstate = Sent + 1
<1>1. ctl.wstate = 0 /\ ctl.state = ST_ACK  BY DEF Acks
<1>2. ~Completes(ctl, mst)  BY <1>1, StatesDiffer DEF Completes, wb_re, wb_we, StateValues
<1>3. ctl'.wdata = [ctl.wdata EXCEPT ![1] = ctl.cmd] /\ ctl'.wstate = 1  BY <1>2 DEF EdgeOf, CtrlResult
<1>4. ctl'.wdata[1] = CmdOf(host.call)
  <2>1. ctl.wdata \in [1 .. 4 -> Byte]  BY DEF Types, CtlType, Word
  <2>. QED BY <1>3, <2>1
<1>5. \A i : NextReply(i) = Reply(i)  BY ReplySteady
<1>6. Sent \in Nat /\ Given \in 0 .. 1 /\ Given <= ctl.wstate /\ Sent' = Sent + Given  BY <1>5, ReplyLines
<1>7. Given = 0 /\ Sent' = Sent  BY <1>1, <1>6
<1>8. NextReply(Sent + 1) = CmdOf(host.call)
  <2>1. ~(Sent + 1 <= 4 * Len(served.words))  BY <1>6
  <2>2. Reply(Sent + 1) = CmdOf(host.call)  BY <2>1 DEF Reply, ReplyByte
  <2>. QED BY <1>5, <2>2
<1>9. \A i \in 1 .. ctl'.wstate : ctl'.wdata[i] = NextReply(Sent + Given + i)
  <2> SUFFICES ASSUME NEW i \in 1 .. ctl'.wstate PROVE ctl'.wdata[i] = NextReply(Sent + Given + i)
    OBVIOUS
  <2>1. i = 1 /\ Sent + Given + i = Sent + 1  BY <1>3, <1>6, <1>7
  <2>. QED BY <1>4, <1>8, <2>1
<1>10. Replying'  BY <1>5, <1>9, ReplyingFrom
<1>. QED BY <1>3, <1>6, <1>7, <1>10

-----------------------------------------------------------------------------
(* One edge of the clock: the time that is left.                           *)

\* The states use what they have as soon as they have it.
LEMMA FullIsUsed == Types => (Full <=> Uses(ctl))
<1>1. Types => ctl.rstate \in 0 .. 4  BY DEF Types, CtlType
<1>. QED BY <1>1 DEF Full, Uses

\* A byte that arrives finds room.
LEMMA ByteHasRoom ==
  ASSUME Types, Sending, UsedInTime, WrittenInTime, Commanded, uart.rx_valid
  PROVE  ~Uses(ctl) /\ ctl.rstate # 4 /\ uart.rx_left = 0
<1>1. ~Full /\ uart.rx_left = 0  BY DEF UsedInTime, Sending
<1>2. ~Uses(ctl)  BY <1>1, FullIsUsed
<1>3. ctl.state = ST_WRITE => ctl.rstate # 4  BY DEF WrittenInTime
<1>4. ctl.state = ST_ADDR => ctl.rstate # 4  BY <1>1 DEF Full
<1>5. ctl.state \in {ST_IDLE, ST_LEN, ST_CORE, ST_DISPATCH, ST_READ, ST_PING, ST_ACK} => ctl.rstate # 4
  BY StatesDiffer DEF Commanded, StateValues
<1>6. ctl.state \in 0 .. 8  BY StatesDiffer DEF Commanded, States, StateValues
<1>7. /\ ST_IDLE = 0 /\ ST_ADDR = 1 /\ ST_LEN = 2 /\ ST_ACK = 3 /\ ST_DISPATCH = 4
      /\ ST_READ = 5 /\ ST_WRITE = 6 /\ ST_CORE = 7 /\ ST_PING = 8
  BY StatesDiffer DEF StateValues
<1>. QED BY <1>1, <1>2, <1>3, <1>4, <1>5, <1>6, <1>7

\* The byte on the line after an edge.
LEMMA LineStep ==
  ASSUME Types, NEW starts \in BOOLEAN, EdgeOf(starts)
  PROVE  /\ uart'.rx_valid <=> uart.rx_left = 1
         /\ uart.rx_left # 1 => uart'.rx_data = uart.rx_data
         /\ uart'.rx_left \in {0, ByteTime, uart.rx_left - 1}
         /\ uart'.rx_left = 0 \/ uart'.rx_left = ByteTime \/ uart.rx_left # 0
<1>1. /\ uart'.rx_valid = (uart.rx_left = 1)
      /\ uart'.rx_data = IF uart.rx_left = 1 THEN uart.rx_byte ELSE uart.rx_data
      /\ uart'.rx_left = IF starts THEN ByteTime ELSE IF uart.rx_left = 0 THEN 0 ELSE uart.rx_left - 1
  BY DEF EdgeOf, LinesEdge
<1>2. uart'.rx_valid <=> uart.rx_left = 1  BY <1>1, Zenon
<1>. QED BY <1>1, <1>2

\* A state that has got its last byte uses what it has in the next cycle.
LEMMA UsedInTimeStep ==
  ASSUME Types, NEW starts \in BOOLEAN, EdgeOf(starts), Types', Sending, UsedInTime, WrittenInTime, Commanded
  PROVE  UsedInTime'
<1>v. StateValues  BY StatesDiffer
<1>0. /\ ctl.rstate \in 0 .. 4 /\ ctl'.rstate \in 0 .. 4 /\ ctl.state \in Nat /\ ctl.rdata \in Word
      /\ uart.rx_data \in Byte /\ uart.rx_valid \in BOOLEAN
  BY DEF Types, CtlType, UartType
<1>1. /\ Full' <=> \/ ctl'.state = ST_IDLE /\ ctl'.rstate >= 1
                   \/ ctl'.state = ST_ADDR /\ ctl'.rstate = 4
                   \/ ctl'.state \in {ST_LEN, ST_CORE} /\ ctl'.rstate >= 2
      /\ Full <=> \/ ctl.state = ST_IDLE /\ ctl.rstate >= 1
                  \/ ctl.state = ST_ADDR /\ ctl.rstate = 4
                  \/ ctl.state \in {ST_LEN, ST_CORE} /\ ctl.rstate >= 2
      /\ Full <=> Uses(ctl)
  BY FullIsUsed DEF Full
<1>2. CtrlResult(ctl', ctl, Rx, Busy, mst)  BY DEF EdgeOf
<1>3. TakesByte(ctl, Rx) <=> uart.rx_valid /\ ctl.rstate # 4  BY DEF TakesByte, Rx
<1>4. uart.rx_valid => ~Uses(ctl) /\ ctl.rstate # 4 /\ uart.rx_left = 0  BY ByteHasRoom
<1>5. CASE uart.rx_valid
  <2>1. ~uart'.rx_valid /\ uart'.rx_data = uart.rx_data  BY <1>4, <1>5, LineStep
  <2>2. ctl'.rdata = ShiftIn(ctl.rdata, uart.rx_data)  BY <1>2, <1>3, <1>4, <1>5 DEF CtrlResult, Rx
  <2>3. ctl'.rdata[4] = uart.rx_data  BY <1>0, <2>2, ShiftInIs
  <2>. QED BY <2>1, <2>3 DEF UsedInTime
<1>6. CASE Uses(ctl)
  <2>1. ctl'.rstate = 0  BY <1>2, <1>6 DEF CtrlResult
  <2>2. ~Full'  BY <1>1, <2>1
  <2>. QED BY <2>2 DEF UsedInTime
<1>7. CASE ~uart.rx_valid /\ ~Uses(ctl)
  <2>1. ctl'.rstate = 0 \/ ctl'.rstate = ctl.rstate  BY <1>2, <1>3, <1>7 DEF CtrlResult
  <2>2. ~Full'
    <3>1. CASE ctl.state = ST_DISPATCH
      <4>1. ctl.rstate = 0  BY <3>1 DEF Commanded
      <4>. QED BY <1>1, <2>1, <4>1
    <3>2. CASE ctl.state = ST_PING
      <4>1. ctl.rstate = 0  BY <3>2 DEF Commanded
      <4>. QED BY <1>1, <2>1, <4>1
    <3>3. CASE Acks(ctl)
      <4>1. ctl.rstate = 0  BY <3>3 DEF Commanded, Acks
      <4>. QED BY <1>1, <2>1, <4>1
    <3>4. CASE ctl.state # ST_DISPATCH /\ ctl.state # ST_PING /\ ~Acks(ctl)
      <4>1. ctl'.state = ST_ACK \/ ctl'.state = ctl.state
        BY <1>2, <1>7, <3>4 DEF CtrlResult
      <4>2. CASE ctl'.state = ST_ACK  BY <1>1, <1>v, <4>2 DEF StateValues
      <4>3. CASE ctl'.state = ctl.state  BY <1>0, <1>1, <1>7, <2>1, <4>3
      <4>. QED BY <4>1, <4>2, <4>3
    <3>. QED BY <3>1, <3>2, <3>3, <3>4
  <2>. QED BY <2>2 DEF UsedInTime
<1>. QED BY <1>5, <1>6, <1>7

\* A write is over before the next byte comes.
LEMMA WrittenInTimeStep ==
  ASSUME Types, NEW starts \in BOOLEAN, EdgeOf(starts), Types',
         Sending, UsedInTime, WrittenInTime, Commanded,
         NotAsked \/ OnTheWay \/ InUse
  PROVE  WrittenInTime'
<1>v. StateValues  BY StatesDiffer
<1> SUFFICES ASSUME ctl'.state = ST_WRITE, ctl'.rstate = 4
             PROVE  ~uart'.rx_valid /\ (uart'.rx_left = 0 \/ uart'.rx_left >= ToGo')
  BY DEF WrittenInTime
<1>0. /\ ctl.rstate \in 0 .. 4 /\ ctl.state \in Nat /\ uart.rx_left \in Nat /\ uart.rx_valid \in BOOLEAN
      /\ ByteTime \in Nat /\ MaxWait \in Nat /\ ByteTime >= MaxWait + 4
  BY Times DEF Types, CtlType, UartType
<1>g. ToGo \in Nat /\ 1 <= ToGo /\ ToGo <= MaxWait + 4 /\ (NoAccess => ToGo = MaxWait + 4)  BY ToGoIs
<1>h. ToGo' \in Nat /\ ToGo' <= MaxWait + 4
  <2>1. bus'.waited \in 0 .. MaxWait  BY DEF Types, BusType
  <2>. QED BY <1>0, <2>1 DEF ToGo
<1>2. CtrlResult(ctl', ctl, Rx, Busy, mst)  BY DEF EdgeOf
<1>3. TakesByte(ctl, Rx) <=> uart.rx_valid /\ ctl.rstate # 4  BY DEF TakesByte, Rx
<1>4. ~Uses(ctl) /\ ~(Completes(ctl, mst) /\ wb_we(ctl))  BY <1>2 DEF CtrlResult
<1>l. /\ uart'.rx_valid <=> uart.rx_left = 1
      /\ uart'.rx_left \in {0, ByteTime, uart.rx_left - 1}
      /\ uart'.rx_left = 0 \/ uart'.rx_left = ByteTime \/ uart.rx_left # 0
  BY LineStep
<1>5. CASE uart.rx_valid
  <2>1. uart.rx_left = 0  BY <1>5, ByteHasRoom
  <2>2. uart'.rx_left = 0 \/ uart'.rx_left = ByteTime  BY <1>l, <2>1
  <2>. QED BY <1>0, <1>h, <1>l, <2>1, <2>2
<1>6. CASE ~uart.rx_valid
  <2>1. ctl.rstate = 4  BY <1>2, <1>3, <1>4, <1>6 DEF CtrlResult
  <2>2. ctl.state = ST_WRITE
    <3>1. ctl.state # ST_DISPATCH /\ ctl.state # ST_PING /\ ~Acks(ctl)
      BY <2>1 DEF Commanded, Acks
    <3>2. ctl'.state = ST_ACK \/ ctl'.state = ctl.state  BY <1>2, <1>4, <3>1 DEF CtrlResult
    <3>. QED BY <1>v, <3>2 DEF StateValues
  <2>3. wb_we(ctl) /\ Active  BY <2>1, <2>2 DEF wb_we, Active
  <2>4. ~mst.complete  BY <1>4, <2>3 DEF Completes
  <2>5. OnTheWay  BY <2>3, <2>4 DEF NotAsked, InUse
  <2>6. ToGo' <= ToGo - 1  BY <2>5 DEF OnTheWay
  <2>7. uart.rx_left = 0 \/ uart.rx_left >= ToGo  BY <2>1, <2>2 DEF WrittenInTime
  <2>8. ToGo >= 2
    <3>1. bus.waited \in 0 .. MaxWait  BY DEF Types, BusType
    <3>. QED BY <1>0, <2>4, <3>1 DEF ToGo
  <2>9. ~uart'.rx_valid  BY <1>0, <1>g, <1>l, <2>7, <2>8
  <2>10. uart'.rx_left = 0 \/ uart'.rx_left >= ToGo'
    <3>1. CASE uart'.rx_left = 0  BY <3>1
    <3>2. CASE uart'.rx_left = ByteTime  BY <1>0, <1>h, <3>2
    <3>3. CASE uart'.rx_left = uart.rx_left - 1 /\ uart.rx_left # 0
      BY <1>0, <1>g, <1>h, <2>6, <2>7, <3>3
    <3>. QED BY <1>l, <3>1, <3>2, <3>3
  <2>. QED BY <2>9, <2>10
<1>. QED BY <1>0, <1>5, <1>6

-----------------------------------------------------------------------------
(* One edge of the clock while a call is under way, state by state.        *)

\* The length of a transfer.
LEMMA TransferSize ==
  ASSUME NEW c \in Calls, Transfers(c)
  PROVE  Size(c) \in Nat /\ Size(c) >= 1 /\ Size(c) < HalfValues
<1>1. Size(c) \in 1 .. HalfValues - 1  BY TransferCall
<1>. QED BY <1>1, HalfValuesIsNat

\* The number of bytes used up is one.
LEMMA UsedIsNat ==
  ASSUME Types, host.call \in Calls, Commanded
  PROVE  Used \in Nat
<1>1. RequestLen(host.call) \in Nat  BY RequestLenIsNat
<1>2. CASE ctl.state = ST_WRITE
  <2>1. host.call.op = "write" /\ ctl.len \in 1 .. Size(host.call)  BY <1>2 DEF Commanded
  <2>2. Size(host.call) \in Nat  BY <2>1, TransferSize DEF Transfers
  <2>3. Size(host.call) - ctl.len \in Nat  BY <2>1, <2>2
  <2> DEFINE d == Size(host.call) - ctl.len
  <2>4. Used = 7 + 4 * d  BY <1>2, StatesDiffer DEF Used, StateValues
  <2> HIDE DEF d
  <2>. QED BY <2>3, <2>4 DEF d
<1>3. CASE ctl.state # ST_WRITE
  <2>1. Used \in {0, 1, 5, RequestLen(host.call), 7}  BY <1>3 DEF Used
  <2>. QED BY <1>1, <2>1
<1>. QED BY <1>2, <1>3

\* The edge, with what it does to the access.
Edge(starts) == /\ starts \in BOOLEAN /\ EdgeOf(starts) /\ Types'
                /\ NotAsked \/ (OnTheWay /\ Accessing') \/ InUse

\* What holds in every state.
EveryState == /\ host' \in HostType /\ uart' \in UartType
              /\ host'.call = host.call /\ host'.coreEn = host.coreEn
              /\ Sending' /\ UsedInTime' /\ WrittenInTime'
              /\ uart.rx_valid => ~Uses(ctl) /\ ctl.rstate # 4
              /\ Used \in Nat /\ OnItsWay \in Nat /\ ctl.rstate \in 0 .. 4 /\ RequestLen(host.call) \in Nat
              /\ OnItsWay' \in Nat

\* The two directions of the line, and the time left, in whatever state.
LEMMA InEveryState ==
  ASSUME Types, UnderWay, NEW starts, Edge(starts)
  PROVE  EveryState
<1>1. /\ host.call \in Calls /\ Sending /\ Receiving /\ UsedInTime /\ WrittenInTime /\ Commanded
  BY DEF UnderWay
<1>2. starts \in BOOLEAN /\ EdgeOf(starts) /\ Types' /\ (NotAsked \/ OnTheWay \/ InUse)  BY DEF Edge
<1>3. host' \in HostType /\ uart' \in UartType /\ ctl.rstate \in 0 .. 4  BY <1>2 DEF Types, CtlType
<1>4. host'.call = host.call /\ host'.coreEn = host.coreEn  BY <1>2 DEF EdgeOf, HostEdge
<1>5. Sending' /\ OnItsWay \in Nat /\ OnItsWay' \in Nat  BY <1>1, <1>2, <1>3, SendingStep
<1>6. UsedInTime'  BY <1>1, <1>2, UsedInTimeStep
<1>7. WrittenInTime'  BY <1>1, <1>2, WrittenInTimeStep
<1>8. uart.rx_valid => ~Uses(ctl) /\ ctl.rstate # 4  BY <1>1, ByteHasRoom
<1>9. Used \in Nat /\ RequestLen(host.call) \in Nat  BY <1>1, UsedIsNat, RequestLenIsNat
<1>. QED BY <1>3, <1>4, <1>5, <1>6, <1>7, <1>8, <1>9 DEF EveryState

\* The states without an access.
LEMMA WithoutAccess ==
  ASSUME Types, UnderWay, NEW starts, Edge(starts), ctl.state \notin {ST_READ, ST_WRITE}
  PROVE  /\ ~Completes(ctl, mst) /\ Accessing' /\ NoAccess' /\ mem' = mem /\ served'.words = served.words
         /\ SetsCores => served'.count = served.count + 1
         /\ ~SetsCores => served' = served
         /\ ~Acks(ctl) => Replying' /\ Sent' + ctl'.wstate = Sent + ctl.wstate
<1>1. ~Active  BY DEF Active, wb_re, wb_we
<1>2. starts \in BOOLEAN /\ EdgeOf(starts) /\ Types'  BY DEF Edge
<1>3. /\ NoAccess' /\ mem' = mem
      /\ SetsCores => served'.count = served.count + 1 /\ served'.words = served.words
      /\ ~SetsCores => served' = served
  BY <1>1 DEF Edge, NotAsked, OnTheWay, InUse
<1>4. served'.words = served.words  BY <1>3
<1>5. ~Completes(ctl, mst)  BY <1>1 DEF Completes, Active
<1>6. ~Acks(ctl) => Replying' /\ Sent' + ctl'.wstate = Sent + ctl.wstate
  <2>1. Replying  BY DEF UnderWay
  <2>2. \A i : NextReply(i) = Reply(i)  BY <1>2, <1>4, ReplySteady
  <2>. QED BY <1>2, <1>5, <2>1, <2>2, ReplyingShifts
<1>7. Accessing'  BY <1>3 DEF Accessing
<1>. QED BY <1>3, <1>4, <1>5, <1>6, <1>7

\* The states that use no byte in this cycle.
LEMMA NothingUsed ==
  ASSUME Types, UnderWay, NEW starts, Edge(starts),
         Used' = Used, ~Uses(ctl), ~(Completes(ctl, mst) /\ wb_we(ctl))
  PROVE  Receiving' /\ ctl'.rstate = ctl.rstate + (IF uart.rx_valid THEN 1 ELSE 0)
<1>1. EveryState  BY InEveryState
<1>2. host.call \in Calls /\ Sending /\ Receiving  BY DEF UnderWay
<1>3. starts \in BOOLEAN /\ EdgeOf(starts)  BY DEF Edge
<1>. QED BY <1>1, <1>2, <1>3, ReceivingKeeps DEF EveryState

\* and those that use all of rdata.
LEMMA AllUsed ==
  ASSUME Types, UnderWay, NEW starts, Edge(starts),
         Used' = Used + ctl.rstate, ctl'.rstate = 0, ~uart.rx_valid
  PROVE  Receiving'
<1>1. EveryState  BY InEveryState
<1>2. host.call \in Calls /\ Sending /\ Receiving  BY DEF UnderWay
<1>3. starts \in BOOLEAN /\ EdgeOf(starts)  BY DEF Edge
<1>. QED BY <1>1, <1>2, <1>3, ReceivingRestarts DEF EveryState

\* The bytes used up, by state.
LEMMA UsedOf ==
  /\ ctl.state = ST_IDLE => Used = 0
  /\ ctl.state = ST_ADDR => Used = 1
  /\ ctl.state = ST_LEN => Used = 5
  /\ ctl.state = ST_WRITE => Used = 7 + 4 * (Size(host.call) - ctl.len)
  /\ ctl.state = ST_ACK => Used = RequestLen(host.call)
  /\ ctl.state \in {ST_DISPATCH, ST_READ, ST_CORE, ST_PING} =>
       Used = IF Transfers(host.call) THEN 7 ELSE 1
BY StatesDiffer DEF Used, StateValues

LEMMA UsedNext ==
  /\ ctl'.state = ST_IDLE => Used' = 0
  /\ ctl'.state = ST_ADDR => Used' = 1
  /\ ctl'.state = ST_LEN => Used' = 5
  /\ ctl'.state = ST_WRITE => Used' = 7 + 4 * (Size(host'.call) - ctl'.len)
  /\ ctl'.state = ST_ACK => Used' = RequestLen(host'.call)
  /\ ctl'.state \in {ST_DISPATCH, ST_READ, ST_CORE, ST_PING} =>
       Used' = IF Transfers(host'.call) THEN 7 ELSE 1
BY StatesDiffer DEF Used, StateValues

\* What is left to show in each state.
LEMMA Together ==
  ASSUME UnderWay, EveryState, Receiving', Commanded', Accessing', Serving', CoresFollow',
         Replying', Sent' + ctl'.wstate = Produced'
  PROVE  UnderWay'
<1>1. host'.call \in Calls  BY DEF UnderWay, EveryState
<1>. QED BY <1>1 DEF UnderWay, EveryState

\* Before the first access there is nothing to reply.
LEMMA Beginning ==
  ASSUME UnderWay, ctl.state \in {ST_IDLE, ST_ADDR, ST_LEN, ST_DISPATCH, ST_CORE, ST_PING}
  PROVE  served.count = 0 /\ Len(served.words) = 0 /\ Sent + ctl.wstate = 0
<1>v. StateValues  BY StatesDiffer
<1>1. ctl.state \notin {ST_READ, ST_WRITE, ST_ACK}  BY <1>v DEF StateValues
<1>2. served.count = 0 /\ Len(served.words) = 0  BY <1>1 DEF UnderWay, Serving
<1>3. Produced = 0  BY <1>1 DEF Produced
<1>. QED BY <1>2, <1>3 DEF UnderWay

\* and it stays so up to the first access.
LEMMA StillBeginning ==
  ASSUME EveryState, served'.count = 0, Len(served'.words) = 0,
         ctl'.state \in {ST_IDLE, ST_ADDR, ST_LEN, ST_DISPATCH, ST_CORE, ST_PING}
  PROVE  Serving' /\ Produced' = 0
<1>v. StateValues  BY StatesDiffer
<1>1. ctl'.state \notin {ST_READ, ST_WRITE, ST_ACK}  BY <1>v DEF StateValues
<1>2. Serving'  BY <1>1 DEF Serving
<1>3. Produced' = 0  BY <1>1 DEF Produced
<1>. QED BY <1>2, <1>3

\* The cores are set only on the way to ST_ACK.
LEMMA CoresStay ==
  ASSUME UnderWay, EveryState, ctl'.core_en = ctl.core_en, (ctl'.state = ST_ACK <=> ctl.state = ST_ACK)
  PROVE  CoresFollow'
<1>1. CoresFollow  BY DEF UnderWay
<1>. QED BY <1>1 DEF CoresFollow, EveryState

\* ST_IDLE: the command arrives.
LEMMA StepIdle ==
  ASSUME Types, UnderWay, NEW starts, Edge(starts), ctl.state = ST_IDLE
  PROVE  UnderWay' /\ mem' = mem /\ served' = served
<1> DEFINE c == host.call
<1>v. StateValues  BY StatesDiffer
<1>e. EveryState  BY InEveryState
<1>r. CtrlResult(ctl', ctl, Rx, Busy, mst)  BY DEF Edge, EdgeOf
<1>n. ~Acks(ctl) /\ ~SetsCores /\ ctl.state \notin {ST_READ, ST_WRITE}  BY <1>v DEF Acks, SetsCores, StateValues
<1>a. /\ ~Completes(ctl, mst) /\ Accessing' /\ mem' = mem /\ served' = served
      /\ Replying' /\ Sent' + ctl'.wstate = Sent + ctl.wstate
  BY <1>n, WithoutAccess
<1>b. served.count = 0 /\ Len(served.words) = 0 /\ Sent + ctl.wstate = 0  BY Beginning
<1>c. c \in Calls /\ host'.call = c  BY <1>e DEF UnderWay, EveryState
<1>1. CASE ~Uses(ctl)
  <2>1. ctl.rstate = 0
    <3>1. ctl.rstate \in 0 .. 4  BY <1>e DEF EveryState
    <3>. QED BY <1>1, <3>1 DEF Uses
  <2>2. ctl'.state = ST_IDLE /\ ctl'.core_en = ctl.core_en
    BY <1>1, <1>a, <1>n, <1>r, <1>v DEF CtrlResult, StateValues
  <2>3. Used' = Used  BY <2>2, UsedOf, UsedNext
  <2>4. Receiving' /\ ctl'.rstate = ctl.rstate + (IF uart.rx_valid THEN 1 ELSE 0)
    BY <1>1, <1>a, <2>3, NothingUsed
  <2>5. ctl'.rstate <= 1  BY <2>1, <2>4
  <2>6. Commanded'  BY <2>2, <2>5, <1>v DEF Commanded, States, StateValues
  <2>7. Serving' /\ Produced' = 0  BY <1>a, <1>b, <1>e, <2>2, StillBeginning
  <2>8. CoresFollow'  BY <1>e, <2>2, CoresStay
  <2>. QED BY <1>a, <1>b, <1>e, <2>4, <2>6, <2>7, <2>8, Together
<1>2. CASE Uses(ctl)
  <2>1. ctl.rstate = 1
    <3>1. ctl.rstate \in 0 .. 4 /\ ctl.rstate <= 1  BY <1>e DEF EveryState, UnderWay, Commanded
    <3>2. ctl.rstate # 0  BY <1>2, <1>v DEF Uses, StateValues
    <3>. QED BY <3>1, <3>2
  <2>2. ctl.rdata[4] = CmdOf(c) /\ uart.rx_data = CmdOf(c) /\ ~uart.rx_valid
    <3>1. ctl.rdata[4 - ctl.rstate + 1] = Req(Used + 1)  BY <2>1 DEF UnderWay, Receiving
    <3>2. 4 - ctl.rstate + 1 = 4 /\ Used + 1 = 1  BY <2>1, UsedOf
    <3>3. Req(1) = CmdOf(c)  BY DEF Req, RequestByte
    <3>4. Full => ~uart.rx_valid /\ uart.rx_data = ctl.rdata[4]  BY DEF UnderWay, UsedInTime
    <3>5. Full  BY <1>2, FullIsUsed
    <3>. QED BY <3>1, <3>2, <3>3, <3>4, <3>5
  <2>3. /\ ctl'.state = (IF uart.rx_data >= 128 THEN ST_ADDR ELSE ST_DISPATCH)
        /\ ctl'.rstate = 0 /\ ctl'.cmd = ctl.rdata[4] /\ ctl'.core_en = ctl.core_en
    BY <1>2, <1>r, <1>v DEF CtrlResult, StateValues, Rx
  <2>4. CmdOf(c) >= 128 <=> Transfers(c)  BY <1>c, CommandOf
  <2>5. /\ Transfers(c) => ctl'.state = ST_ADDR
        /\ ~Transfers(c) => ctl'.state = ST_DISPATCH
    BY <2>2, <2>3, <2>4
  <2>6. Used = 0 /\ Used' = 1  BY <1>c, <2>5, UsedOf, UsedNext
  <2>7. Receiving'
    <3>1. Used' = Used + ctl.rstate  BY <2>1, <2>6
    <3>. QED BY <2>2, <2>3, <3>1, AllUsed
  <2>8. Commanded'
    <3>1. ctl'.cmd = CmdOf(c)  BY <2>2, <2>3
    <3>2. CASE Transfers(c)  BY <1>c, <1>v, <2>3, <2>5, <3>1, <3>2 DEF Commanded, States, StateValues
    <3>3. CASE ~Transfers(c)  BY <1>c, <1>v, <2>3, <2>5, <3>1, <3>3 DEF Commanded, States, StateValues
    <3>. QED BY <3>2, <3>3
  <2>9. ctl'.state \in {ST_ADDR, ST_DISPATCH}  BY <2>5
  <2>10. Serving' /\ Produced' = 0  BY <1>a, <1>b, <1>e, <2>9, StillBeginning
  <2>11. CoresFollow'  BY <1>e, <1>v, <2>3, <2>9, CoresStay DEF StateValues
  <2>. QED BY <1>a, <1>b, <1>e, <2>7, <2>8, <2>10, <2>11, Together
<1>. QED BY <1>1, <1>2, <1>a

\* ST_ADDR: four bytes of the address.
LEMMA StepAddr ==
  ASSUME Types, UnderWay, NEW starts, Edge(starts), ctl.state = ST_ADDR
  PROVE  UnderWay' /\ mem' = mem /\ served' = served
<1> DEFINE c == host.call
<1>v. StateValues  BY StatesDiffer
<1>e. EveryState  BY InEveryState
<1>r. CtrlResult(ctl', ctl, Rx, Busy, mst)  BY DEF Edge, EdgeOf
<1>n. ~Acks(ctl) /\ ~SetsCores /\ ctl.state \notin {ST_READ, ST_WRITE, ST_IDLE}
  BY <1>v DEF Acks, SetsCores, StateValues
<1>a. /\ ~Completes(ctl, mst) /\ Accessing' /\ mem' = mem /\ served' = served
      /\ Replying' /\ Sent' + ctl'.wstate = Sent + ctl.wstate
  BY <1>n, WithoutAccess
<1>b. served.count = 0 /\ Len(served.words) = 0 /\ Sent + ctl.wstate = 0  BY Beginning
<1>c. c \in Calls /\ host'.call = c  BY <1>e DEF UnderWay, EveryState
<1>d. ctl.cmd = CmdOf(c) /\ Transfers(c)  BY <1>n DEF UnderWay, Commanded
<1>1. CASE ~Uses(ctl)
  <2>2. ctl'.state = ST_ADDR /\ ctl'.core_en = ctl.core_en /\ ctl'.cmd = ctl.cmd
    BY <1>1, <1>a, <1>n, <1>r, <1>v DEF CtrlResult, StateValues
  <2>3. Used' = Used  BY <2>2, UsedOf, UsedNext
  <2>4. Receiving'  BY <1>1, <1>a, <2>3, NothingUsed
  <2>6. Commanded'  BY <1>c, <1>d, <2>2, <1>v DEF Commanded, States, StateValues
  <2>7. Serving' /\ Produced' = 0  BY <1>a, <1>b, <1>e, <2>2, StillBeginning
  <2>8. CoresFollow'  BY <1>e, <1>v, <2>2, CoresStay DEF StateValues
  <2>. QED BY <1>a, <1>b, <1>e, <2>4, <2>6, <2>7, <2>8, Together
<1>2. CASE Uses(ctl)
  <2>1. ctl.rstate = 4  BY <1>2, <1>v DEF Uses, StateValues
  <2>2. ~uart.rx_valid  BY <1>2, <1>e DEF EveryState
  <2>3. ctl'.state = ST_LEN /\ ctl'.rstate = 0 /\ ctl'.cmd = ctl.cmd /\ ctl'.core_en = ctl.core_en
        /\ ctl'.addr = Number(ctl.rdata)
    BY <1>2, <1>n, <1>r, <1>v DEF CtrlResult, StateValues
  <2>4. Number(ctl.rdata) = c.addr
    <3>1. \A i \in 1 .. 4 : ctl.rdata[i] = NumberBytes(c.addr)[i]
      <4> SUFFICES ASSUME NEW i \in 1 .. 4 PROVE ctl.rdata[i] = NumberBytes(c.addr)[i]
        OBVIOUS
      <4>1. ctl.rdata[4 - ctl.rstate + i] = Req(Used + i)  BY <2>1 DEF UnderWay, Receiving
      <4>2. 4 - ctl.rstate + i = i /\ Used + i = 1 + i  BY <2>1, UsedOf
      <4>3. Req(1 + i) = NumberBytes(c.addr)[i]
        <5>1. 1 + i # 1 /\ 1 + i <= 5 /\ (1 + i) - 1 = i  OBVIOUS
        <5>. QED BY <1>d, <5>1 DEF Req, RequestByte, TransferByte
      <4>. QED BY <4>1, <4>2, <4>3
    <3>2. c.addr \in Nat /\ c.addr \div HalfValues < HalfValues  BY <1>c, <1>d, TransferCall
    <3>. QED BY <3>1, <3>2, NumberArrives
  <2>6. Used = 1 /\ Used' = 5  BY <2>3, UsedOf, UsedNext
  <2>7. Receiving'
    <3>1. Used' = Used + ctl.rstate  BY <2>1, <2>6
    <3>. QED BY <2>2, <2>3, <3>1, AllUsed
  <2>8. Commanded'  BY <1>c, <1>d, <1>v, <2>3, <2>4 DEF Commanded, States, StateValues
  <2>10. Serving' /\ Produced' = 0  BY <1>a, <1>b, <1>e, <2>3, StillBeginning
  <2>11. CoresFollow'  BY <1>e, <1>v, <2>3, CoresStay DEF StateValues
  <2>. QED BY <1>a, <1>b, <1>e, <2>7, <2>8, <2>10, <2>11, Together
<1>. QED BY <1>1, <1>2, <1>a

\* ST_LEN: two bytes of the length.
LEMMA StepLen ==
  ASSUME Types, UnderWay, NEW starts, Edge(starts), ctl.state = ST_LEN
  PROVE  UnderWay' /\ mem' = mem /\ served' = served
<1> DEFINE c == host.call
<1>v. StateValues  BY StatesDiffer
<1>e. EveryState  BY InEveryState
<1>r. CtrlResult(ctl', ctl, Rx, Busy, mst)  BY DEF Edge, EdgeOf
<1>n. ~Acks(ctl) /\ ~SetsCores /\ ctl.state \notin {ST_READ, ST_WRITE, ST_IDLE}
  BY <1>v DEF Acks, SetsCores, StateValues
<1>a. /\ ~Completes(ctl, mst) /\ Accessing' /\ mem' = mem /\ served' = served
      /\ Replying' /\ Sent' + ctl'.wstate = Sent + ctl.wstate
  BY <1>n, WithoutAccess
<1>b. served.count = 0 /\ Len(served.words) = 0 /\ Sent + ctl.wstate = 0  BY Beginning
<1>c. c \in Calls /\ host'.call = c  BY <1>e DEF UnderWay, EveryState
<1>d. ctl.cmd = CmdOf(c) /\ Transfers(c) /\ ctl.addr = c.addr /\ ctl.rstate <= 2
  BY <1>n DEF UnderWay, Commanded
<1>f. ctl.rstate \in 0 .. 4  BY <1>e DEF EveryState
<1>1. CASE ~Uses(ctl)
  <2>1. ctl.rstate <= 1  BY <1>1, <1>f DEF Uses
  <2>2. ctl'.state = ST_LEN /\ ctl'.core_en = ctl.core_en /\ ctl'.cmd = ctl.cmd /\ ctl'.addr = ctl.addr
    BY <1>1, <1>a, <1>n, <1>r, <1>v DEF CtrlResult, StateValues
  <2>3. Used' = Used  BY <2>2, UsedOf, UsedNext
  <2>4. Receiving' /\ ctl'.rstate = ctl.rstate + (IF uart.rx_valid THEN 1 ELSE 0)
    BY <1>1, <1>a, <2>3, NothingUsed
  <2>5. ctl'.rstate <= 2  BY <1>f, <2>1, <2>4
  <2>6. Commanded'  BY <1>c, <1>d, <2>2, <2>5, <1>v DEF Commanded, States, StateValues
  <2>7. Serving' /\ Produced' = 0  BY <1>a, <1>b, <1>e, <2>2, StillBeginning
  <2>8. CoresFollow'  BY <1>e, <1>v, <2>2, CoresStay DEF StateValues
  <2>. QED BY <1>a, <1>b, <1>e, <2>4, <2>6, <2>7, <2>8, Together
<1>2. CASE Uses(ctl)
  <2>1. ctl.rstate = 2
    <3>1. ctl.rstate >= 2  BY <1>2, <1>v DEF Uses, StateValues
    <3>. QED BY <1>d, <1>f, <3>1
  <2>2. ~uart.rx_valid  BY <1>2, <1>e DEF EveryState
  <2>3. ctl'.state = ST_DISPATCH /\ ctl'.rstate = 0 /\ ctl'.cmd = ctl.cmd /\ ctl'.core_en = ctl.core_en
        /\ ctl'.addr = ctl.addr /\ ctl'.len = Half(ctl.rdata)
    BY <1>2, <1>a, <1>n, <1>r, <1>v DEF CtrlResult, StateValues
  <2>4. Half(ctl.rdata) = Size(c)
    <3>1. \A i \in 1 .. 2 : ctl.rdata[2 + i] = HalfBytes(Size(c))[i]
      <4> SUFFICES ASSUME NEW i \in 1 .. 2 PROVE ctl.rdata[2 + i] = HalfBytes(Size(c))[i]
        OBVIOUS
      <4>1. ctl.rdata[4 - ctl.rstate + i] = Req(Used + i)  BY <2>1 DEF UnderWay, Receiving
      <4>2. 4 - ctl.rstate + i = 2 + i /\ Used + i = 5 + i  BY <2>1, UsedOf
      <4>3. Req(5 + i) = HalfBytes(Size(c))[i]
        <5>1. 5 + i # 1 /\ ~(5 + i <= 5) /\ 5 + i <= 7 /\ (5 + i) - 5 = i  OBVIOUS
        <5>. QED BY <1>d, <5>1 DEF Req, RequestByte, TransferByte
      <4>. QED BY <4>1, <4>2, <4>3
    <3>2. Size(c) \in Nat /\ Size(c) < HalfValues  BY <1>c, <1>d, TransferSize
    <3>3. ctl.rdata[3] = (Size(c) \div 256) % 256 /\ ctl.rdata[4] = Size(c) % 256
      <4>1. HalfBytes(Size(c))[1] = (Size(c) \div 256) % 256 /\ HalfBytes(Size(c))[2] = Size(c) % 256
        BY <3>2, HalfBytesAreBytes
      <4>2. ctl.rdata[2 + 1] = HalfBytes(Size(c))[1] /\ ctl.rdata[2 + 2] = HalfBytes(Size(c))[2]
        BY <3>1
      <4>. QED BY <4>1, <4>2
    <3>. QED BY <3>2, <3>3, HalfArrives DEF Half
  <2>6. Used = 5 /\ Used' = 7  BY <1>c, <1>d, <2>3, UsedOf, UsedNext
  <2>7. Receiving'
    <3>1. Used' = Used + ctl.rstate  BY <2>1, <2>6
    <3>. QED BY <2>2, <2>3, <3>1, AllUsed
  <2>8. Commanded'  BY <1>c, <1>d, <1>v, <2>3, <2>4 DEF Commanded, States, StateValues
  <2>10. Serving' /\ Produced' = 0  BY <1>a, <1>b, <1>e, <2>3, StillBeginning
  <2>11. CoresFollow'  BY <1>e, <1>v, <2>3, CoresStay DEF StateValues
  <2>. QED BY <1>a, <1>b, <1>e, <2>7, <2>8, <2>10, <2>11, Together
<1>. QED BY <1>1, <1>2, <1>a

\* ST_DISPATCH: the command selects the state.
LEMMA StepDispatch ==
  ASSUME Types, UnderWay, NEW starts, Edge(starts), ctl.state = ST_DISPATCH
  PROVE  UnderWay' /\ mem' = mem /\ served' = served
<1> DEFINE c == host.call
<1>v. StateValues  BY StatesDiffer
<1>e. EveryState  BY InEveryState
<1>r. CtrlResult(ctl', ctl, Rx, Busy, mst)  BY DEF Edge, EdgeOf
<1>n. ~Uses(ctl) /\ ~Acks(ctl) /\ ~SetsCores /\ ctl.state \notin {ST_READ, ST_WRITE, ST_IDLE, ST_ADDR, ST_LEN}
  BY <1>v DEF Uses, Acks, SetsCores, StateValues
<1>a. /\ ~Completes(ctl, mst) /\ Accessing' /\ NoAccess' /\ mem' = mem /\ served' = served
      /\ Replying' /\ Sent' + ctl'.wstate = Sent + ctl.wstate
  BY <1>n, WithoutAccess
<1>b. served.count = 0 /\ Len(served.words) = 0 /\ Sent + ctl.wstate = 0  BY Beginning
<1>c. c \in Calls /\ host'.call = c  BY <1>e DEF UnderWay, EveryState
<1>d. /\ ctl.cmd = CmdOf(c) /\ ctl.rstate = 0
      /\ Transfers(c) => ctl.addr = c.addr /\ ctl.len = Size(c)
  BY <1>n DEF UnderWay, Commanded
<1>f. /\ ctl'.state = ST_DISPATCH + (ctl.cmd % 128) /\ ctl'.cmd = ctl.cmd /\ ctl'.addr = ctl.addr
      /\ ctl'.len = ctl.len /\ ctl'.core_en = ctl.core_en
  BY <1>a, <1>n, <1>r DEF CtrlResult
<1>g. /\ c.op = "read" => Transfers(c) /\ ctl'.state = ST_READ
      /\ c.op = "write" => Transfers(c) /\ ctl'.state = ST_WRITE
      /\ c.op \in CoreOps => ~Transfers(c) /\ ctl'.state = ST_CORE
      /\ c.op = "ping" => ~Transfers(c) /\ ctl'.state = ST_PING
  <2>1. /\ c.op = "read" => CmdOf(c) % 128 = 1
        /\ c.op = "write" => CmdOf(c) % 128 = 2
        /\ c.op \in CoreOps => CmdOf(c) % 128 = 3
        /\ c.op = "ping" => CmdOf(c) % 128 = 4
    BY <1>c, CommandOf
  <2>2. /\ c.op = "read" => Transfers(c)
        /\ c.op = "write" => Transfers(c)
        /\ c.op \in CoreOps => ~Transfers(c)
        /\ c.op = "ping" => ~Transfers(c)
    BY DEF Transfers, CoreOps
  <2>3. /\ CmdOf(c) % 128 = 1 => ctl'.state = ST_READ
        /\ CmdOf(c) % 128 = 2 => ctl'.state = ST_WRITE
        /\ CmdOf(c) % 128 = 3 => ctl'.state = ST_CORE
        /\ CmdOf(c) % 128 = 4 => ctl'.state = ST_PING
    BY <1>d, <1>f, <1>v DEF StateValues
  <2>. QED BY <2>1, <2>2, <2>3
<1>h. c.op \in {"read", "write", "ping"} \cup CoreOps  BY <1>c, CallKinds
<1>i. Transfers(c) => Size(c) \in Nat /\ Size(c) >= 1  BY <1>c, TransferSize
<1>1. Used' = Used
  <2>1. Used = IF Transfers(c) THEN 7 ELSE 1  BY UsedOf
  <2>2. CASE c.op = "write"
    <3>1. Used' = 7 + 4 * (Size(c) - Size(c))  BY <1>c, <1>d, <1>f, <1>g, <2>2, UsedNext
    <3>. QED BY <1>g, <1>i, <2>1, <2>2, <3>1
  <2>3. CASE c.op # "write"
    <3>1. ctl'.state \in {ST_DISPATCH, ST_READ, ST_CORE, ST_PING}  BY <1>g, <1>h, <2>3
    <3>2. Used' = IF Transfers(c) THEN 7 ELSE 1  BY <1>c, <3>1, UsedNext
    <3>. QED BY <2>1, <3>2
  <2>. QED BY <2>2, <2>3
<1>2. Receiving' /\ ctl'.rstate = ctl.rstate + (IF uart.rx_valid THEN 1 ELSE 0)
  BY <1>1, <1>a, <1>n, NothingUsed
<1>3. ctl'.rstate \in 0 .. 1  BY <1>2, <1>d
<1>4. Used' + ctl'.rstate + OnItsWay' = RequestLen(c) /\ OnItsWay' \in Nat
  BY <1>2, <1>c, <1>e DEF Receiving, EveryState
<1>5. ~mst'.complete  BY <1>a DEF NoAccess
<1>6. CASE c.op = "read"
  <2>1. ctl'.rstate = 0
    <3>1. RequestLen(c) = 7 /\ Used' = 7  BY <1>1, <1>6, <1>g, UsedOf DEF RequestLen
    <3>. QED BY <1>3, <1>4, <3>1
  <2>2. Size(c) - ctl'.len = 0 /\ ctl'.len \in 1 .. Size(c) /\ ctl'.addr = c.addr + (Size(c) - ctl'.len)
    <3>1. Transfers(c) /\ ctl'.len = Size(c) /\ ctl'.addr = c.addr /\ c.addr \in Nat
      BY <1>6, <1>c, <1>d, <1>f, <1>g, TransferCall
    <3>. QED BY <1>i, <3>1
  <2>3. Commanded'
    <3>1. ctl'.cmd = CmdOf(c) /\ ctl'.state = ST_READ  BY <1>6, <1>d, <1>f, <1>g
    <3>. QED BY <1>6, <1>c, <1>v, <2>1, <2>2, <3>1 DEF Commanded, States, StateValues
  <2>4. Serving' /\ Produced' = 0
    <3>1. AlreadyServed' = 0  BY <1>5 DEF AlreadyServed
    <3>2. ctl'.state = ST_READ  BY <1>6, <1>g
    <3>3. Serving'  BY <1>a, <1>b, <1>c, <2>2, <3>1, <3>2 DEF Serving
    <3>4. Produced' = 0  BY <1>6, <1>c, <2>2, <3>2 DEF Produced
    <3>. QED BY <3>3, <3>4
  <2>5. CoresFollow'  BY <1>6, <1>e, <1>f, <1>g, <1>n, <1>v, CoresStay DEF StateValues
  <2>. QED BY <1>2, <1>a, <1>b, <1>e, <2>3, <2>4, <2>5, Together
<1>7. CASE c.op = "write"
  <2>2. Size(c) - ctl'.len = 0 /\ ctl'.len \in 1 .. Size(c) /\ ctl'.addr = c.addr + (Size(c) - ctl'.len)
    <3>1. Transfers(c) /\ ctl'.len = Size(c) /\ ctl'.addr = c.addr /\ c.addr \in Nat
      BY <1>7, <1>c, <1>d, <1>f, <1>g, TransferCall
    <3>. QED BY <1>i, <3>1
  <2>3. Commanded'
    <3>1. ctl'.cmd = CmdOf(c) /\ ctl'.state = ST_WRITE  BY <1>7, <1>d, <1>f, <1>g
    <3>. QED BY <1>7, <1>c, <1>v, <2>2, <3>1 DEF Commanded, States, StateValues
  <2>4. Serving' /\ Produced' = 0
    <3>1. AlreadyServed' = 0  BY <1>5 DEF AlreadyServed
    <3>2. ctl'.state = ST_WRITE  BY <1>7, <1>g
    <3>3. Serving'  BY <1>7, <1>a, <1>b, <1>c, <2>2, <3>1, <3>2 DEF Serving
    <3>4. Produced' = 0  BY <1>7, <1>c, <3>2 DEF Produced
    <3>. QED BY <3>3, <3>4
  <2>5. CoresFollow'  BY <1>7, <1>e, <1>f, <1>g, <1>n, <1>v, CoresStay DEF StateValues
  <2>. QED BY <1>2, <1>a, <1>b, <1>e, <2>3, <2>4, <2>5, Together
<1>8. CASE c.op \in CoreOps
  <2>1. ctl'.state = ST_CORE /\ ctl'.cmd = CmdOf(c) /\ ctl'.rstate <= 2  BY <1>3, <1>8, <1>d, <1>f, <1>g
  <2>3. Commanded'
    BY <1>8, <1>c, <1>v, <2>1 DEF Commanded, States, StateValues
  <2>4. Serving' /\ Produced' = 0  BY <1>a, <1>b, <1>e, <2>1, StillBeginning
  <2>5. CoresFollow'  BY <1>e, <1>f, <1>n, <1>v, <2>1, CoresStay DEF StateValues
  <2>. QED BY <1>2, <1>a, <1>b, <1>e, <2>3, <2>4, <2>5, Together
<1>9. CASE c.op = "ping"
  <2>1. ctl'.state = ST_PING /\ ctl'.cmd = CmdOf(c) /\ ~Transfers(c)  BY <1>9, <1>d, <1>f, <1>g
  <2>2. ctl'.rstate = 0
    <3>1. RequestLen(c) = 1 /\ Used' = 1  BY <1>1, <1>9, <2>1, UsedOf DEF RequestLen
    <3>. QED BY <1>3, <1>4, <3>1
  <2>3. Commanded'
    BY <1>9, <1>c, <1>v, <2>1, <2>2 DEF Commanded, States, StateValues
  <2>4. Serving' /\ Produced' = 0  BY <1>a, <1>b, <1>e, <2>1, StillBeginning
  <2>5. CoresFollow'  BY <1>e, <1>f, <1>n, <1>v, <2>1, CoresStay DEF StateValues
  <2>. QED BY <1>2, <1>a, <1>b, <1>e, <2>3, <2>4, <2>5, Together
<1>. QED BY <1>6, <1>7, <1>8, <1>9, <1>a, <1>h

\* What a call about the cores does to their lines.
CoresSet ==
  LET c == host.call IN
    /\ c.op \in CoreOps /\ served.count = 0
    /\ ctl'.core_en = After(ctl.core_en, c)
    /\ ctl'.core_reset_n = (0 .. 3) \ (IF c.op = "reset" THEN c.mask ELSE {})
    /\ served'.count = 1 /\ served'.words = served.words
CoresUnset == ctl'.core_en = ctl.core_en /\ ctl'.core_reset_n = ctl.core_reset_n

\* The masks of a call about the cores arrive as they were sent.
LEMMA CoresArrive ==
  ASSUME Types, UnderWay, ctl.state = ST_CORE, ctl.rstate = 2
  PROVE  LET c == host.call
             out == CoresOf(ctl.rdata[3])
         IN  /\ c.op \in CoreOps
             /\ out = IF c.op = "reset" THEN c.mask ELSE {}
             /\ CoresOf(ctl.rdata[4]) \ out = After(ctl.core_en, c)
             /\ host.coreEn = After(ctl.core_en, c)
<1> DEFINE c == host.call
           out == CoresOf(ctl.rdata[3])
<1>v. StateValues  BY StatesDiffer
<1>0. c.op \in CoreOps /\ c \in Calls  BY <1>v DEF UnderWay, Commanded, StateValues
<1>1. ~Transfers(c)  BY <1>0 DEF Transfers, CoreOps
<1>2. ctl.rdata[4 - ctl.rstate + 1] = Req(Used + 1) /\ ctl.rdata[4 - ctl.rstate + 2] = Req(Used + 2)
  BY DEF UnderWay, Receiving
<1>3. Used = 1  BY <1>1, UsedOf
<1>4. ctl.rdata[3] = Req(2) /\ ctl.rdata[4] = Req(3)
  <2>1. 4 - ctl.rstate + 1 = 3 /\ 4 - ctl.rstate + 2 = 4 /\ Used + 1 = 2 /\ Used + 2 = 3  BY <1>3
  <2>. QED BY <1>2, <2>1
<1>5. Req(2) = (IF c.op = "reset" THEN Mask(c.mask) ELSE 0) /\ Req(3) = Mask(host.coreEn)
  BY <1>1 DEF Req, RequestByte, CoreByte
<1>6. host.coreEn \in SUBSET (0 .. 3) /\ c.mask \in SUBSET (0 .. 3)
  BY <1>0, CoreCall DEF Types, HostType
<1>7. out = IF c.op = "reset" THEN c.mask ELSE {}
  <2>1. CoresOf(Mask(c.mask)) = c.mask  BY <1>6, MaskOfCores
  <2>. QED BY <1>4, <1>5, <2>1, NoCores
<1>8. CoresOf(ctl.rdata[4]) = host.coreEn
  <2>1. CoresOf(Mask(host.coreEn)) = host.coreEn  BY <1>6, MaskOfCores
  <2>. QED BY <1>4, <1>5, <2>1
<1>9. host.coreEn = After(ctl.core_en, c)  BY <1>v DEF UnderWay, CoresFollow, StateValues
<1>10. host.coreEn \ out = host.coreEn
  <2>1. CASE c.op = "reset"
    <3>1. host.coreEn = ctl.core_en \ c.mask /\ out = c.mask  BY <1>7, <1>9, <2>1 DEF After
    <3>. QED BY <3>1
  <2>2. CASE c.op # "reset"
    <3>1. out = {}  BY <1>7, <2>2
    <3>. QED BY <3>1
  <2>. QED BY <2>1, <2>2
<1>. QED BY <1>0, <1>7, <1>8, <1>9, <1>10

\* ST_CORE: two masks arrive, and the lines of the cores are set.
LEMMA StepCore ==
  ASSUME Types, UnderWay, NEW starts, Edge(starts), ctl.state = ST_CORE
  PROVE  UnderWay' /\ mem' = mem /\ ((served' = served /\ CoresUnset) \/ CoresSet)
<1> DEFINE c == host.call
<1>v. StateValues  BY StatesDiffer
<1>e. EveryState  BY InEveryState
<1>r. CtrlResult(ctl', ctl, Rx, Busy, mst)  BY DEF Edge, EdgeOf
<1>n. ~Acks(ctl) /\ ctl.state \notin {ST_READ, ST_WRITE, ST_IDLE, ST_ADDR, ST_LEN, ST_DISPATCH, ST_PING, ST_ACK}
  BY <1>v DEF Acks, StateValues
<1>a. /\ ~Completes(ctl, mst) /\ Accessing' /\ mem' = mem /\ served'.words = served.words
      /\ SetsCores => served'.count = served.count + 1
      /\ ~SetsCores => served' = served
      /\ Replying' /\ Sent' + ctl'.wstate = Sent + ctl.wstate
  BY <1>n, WithoutAccess
<1>b. served.count = 0 /\ Len(served.words) = 0 /\ Sent + ctl.wstate = 0  BY Beginning
<1>c. c \in Calls /\ host'.call = c  BY <1>e DEF UnderWay, EveryState
<1>d. ctl.cmd = CmdOf(c) /\ c.op \in CoreOps /\ ctl.rstate <= 2
  BY <1>n DEF UnderWay, Commanded
<1>f. ctl.rstate \in 0 .. 4 /\ ~Transfers(c) /\ c.op # "read"
  BY <1>d, <1>e DEF EveryState, Transfers, CoreOps
<1>1. CASE ~Uses(ctl)
  <2>1. ctl.rstate <= 1  BY <1>1, <1>f DEF Uses
  <2>2. ctl'.state = ST_CORE /\ ctl'.cmd = ctl.cmd /\ CoresUnset
    BY <1>1, <1>a, <1>n, <1>r, <1>v DEF CtrlResult, StateValues, CoresUnset
  <2>3. Used' = Used  BY <1>c, <2>2, UsedOf, UsedNext
  <2>4. Receiving' /\ ctl'.rstate = ctl.rstate + (IF uart.rx_valid THEN 1 ELSE 0)
    BY <1>1, <1>a, <2>3, NothingUsed
  <2>5. ctl'.rstate <= 2  BY <1>f, <2>1, <2>4
  <2>6. Commanded'  BY <1>c, <1>d, <2>2, <2>5, <1>v DEF Commanded, States, StateValues
  <2>9. served' = served
    <3>1. ~SetsCores  BY <1>f, <2>1 DEF SetsCores
    <3>. QED BY <1>a, <3>1
  <2>7. Serving' /\ Produced' = 0  BY <1>b, <1>e, <2>2, <2>9, StillBeginning
  <2>8. CoresFollow'  BY <1>e, <1>v, <2>2, CoresStay DEF StateValues, CoresUnset
  <2>. QED BY <1>a, <1>b, <1>e, <2>2, <2>4, <2>6, <2>7, <2>8, <2>9, Together
<1>2. CASE Uses(ctl)
  <2>1. ctl.rstate = 2
    <3>1. ctl.rstate >= 2  BY <1>2, <1>v DEF Uses, StateValues
    <3>. QED BY <1>d, <1>f, <3>1
  <2>2. ~uart.rx_valid  BY <1>2, <1>e DEF EveryState
  <2>3. /\ ctl'.state = ST_ACK /\ ctl'.rstate = 0 /\ ctl'.cmd = ctl.cmd
        /\ ctl'.core_en = CoresOf(ctl.rdata[4]) \ CoresOf(ctl.rdata[3])
        /\ ctl'.core_reset_n = (0 .. 3) \ CoresOf(ctl.rdata[3])
    BY <1>2, <1>n, <1>r, <1>v DEF CtrlResult, StateValues
  <2>4. /\ CoresOf(ctl.rdata[3]) = IF c.op = "reset" THEN c.mask ELSE {}
        /\ CoresOf(ctl.rdata[4]) \ CoresOf(ctl.rdata[3]) = After(ctl.core_en, c)
        /\ host.coreEn = After(ctl.core_en, c)
    BY <2>1, CoresArrive
  <2>5. SetsCores  BY <2>1 DEF SetsCores
  <2>6. Used = 1 /\ Used' = 3
    <3>1. RequestLen(c) = 3  BY <1>d DEF RequestLen, CoreOps
    <3>. QED BY <1>c, <1>f, <2>3, <3>1, UsedOf, UsedNext
  <2>7. Receiving'
    <3>1. Used' = Used + ctl.rstate  BY <2>1, <2>6
    <3>. QED BY <2>2, <2>3, <3>1, AllUsed
  <2>8. Commanded'  BY <1>c, <1>d, <1>f, <1>v, <2>3 DEF Commanded, States, StateValues
  <2>9. served'.count = 1  BY <1>a, <1>b, <2>5
  <2>10. Serving' /\ Produced' = 0
    <3>1. ctl'.state = ST_ACK /\ ctl'.state \notin {ST_READ, ST_WRITE}  BY <2>3, <1>v DEF StateValues
    <3>2. AccessesOf(c) = 1  BY <1>d, <1>f DEF AccessesOf, CoreOps
    <3>3. Serving'  BY <1>a, <1>b, <1>c, <1>f, <2>9, <3>1, <3>2 DEF Serving
    <3>4. Produced' = 0  BY <1>c, <1>f DEF Produced
    <3>. QED BY <3>3, <3>4
  <2>11. CoresFollow'  BY <1>e, <2>3, <2>4 DEF CoresFollow, EveryState
  <2>12. CoresSet  BY <1>a, <1>b, <1>d, <2>3, <2>4, <2>9 DEF CoresSet
  <2>. QED BY <1>a, <1>b, <1>e, <2>7, <2>8, <2>10, <2>11, <2>12, Together
<1>. QED BY <1>1, <1>2, <1>a

\* ST_PING: nothing to do.
LEMMA StepPing ==
  ASSUME Types, UnderWay, NEW starts, Edge(starts), ctl.state = ST_PING
  PROVE  UnderWay' /\ mem' = mem /\ served' = served
<1> DEFINE c == host.call
<1>v. StateValues  BY StatesDiffer
<1>e. EveryState  BY InEveryState
<1>r. CtrlResult(ctl', ctl, Rx, Busy, mst)  BY DEF Edge, EdgeOf
<1>n. ~Uses(ctl) /\ ~Acks(ctl) /\ ~SetsCores
      /\ ctl.state \notin {ST_READ, ST_WRITE, ST_IDLE, ST_ADDR, ST_LEN, ST_DISPATCH, ST_CORE, ST_ACK}
  BY <1>v DEF Uses, Acks, SetsCores, StateValues
<1>a. /\ ~Completes(ctl, mst) /\ Accessing' /\ mem' = mem /\ served' = served
      /\ Replying' /\ Sent' + ctl'.wstate = Sent + ctl.wstate
  BY <1>n, WithoutAccess
<1>b. served.count = 0 /\ Len(served.words) = 0 /\ Sent + ctl.wstate = 0  BY Beginning
<1>c. c \in Calls /\ host'.call = c  BY <1>e DEF UnderWay, EveryState
<1>d. ctl.cmd = CmdOf(c) /\ c.op = "ping" /\ ctl.rstate = 0  BY <1>n DEF UnderWay, Commanded
<1>f. ~Transfers(c) /\ c.op # "read" /\ RequestLen(c) = 1 /\ AccessesOf(c) = 0
  BY <1>d DEF Transfers, RequestLen, AccessesOf
<1>1. ctl'.state = ST_ACK /\ ctl'.cmd = ctl.cmd /\ ctl'.core_en = ctl.core_en
  BY <1>a, <1>n, <1>r, <1>v DEF CtrlResult, StateValues
<1>2. Used = 1 /\ Used' = 1  BY <1>c, <1>f, <1>1, UsedOf, UsedNext
<1>3. Receiving' /\ ctl'.rstate = ctl.rstate + (IF uart.rx_valid THEN 1 ELSE 0)
  BY <1>2, <1>a, <1>n, NothingUsed
<1>4. Used' + ctl'.rstate + OnItsWay' = 1 /\ OnItsWay' \in Nat /\ ctl'.rstate \in Nat
  BY <1>3, <1>c, <1>d, <1>e, <1>f DEF Receiving, EveryState
<1>5. ctl'.rstate = 0  BY <1>2, <1>4
<1>6. Commanded'  BY <1>c, <1>d, <1>f, <1>v, <1>1, <1>5 DEF Commanded, States, StateValues
<1>7. Serving' /\ Produced' = 0
  <2>1. ctl'.state = ST_ACK /\ ctl'.state \notin {ST_READ, ST_WRITE}  BY <1>1, <1>v DEF StateValues
  <2>2. Serving'  BY <1>a, <1>b, <1>c, <1>f, <2>1 DEF Serving
  <2>3. Produced' = 0  BY <1>c, <1>f DEF Produced
  <2>. QED BY <2>2, <2>3
<1>8. CoresFollow'
  <2>1. After(ctl.core_en, c) = ctl.core_en  BY <1>d DEF After
  <2>2. host.coreEn = After(ctl.core_en, c)  BY <1>n DEF UnderWay, CoresFollow
  <2>. QED BY <1>e, <1>1, <2>1, <2>2 DEF CoresFollow, EveryState
<1>. QED BY <1>a, <1>b, <1>e, <1>3, <1>6, <1>7, <1>8, Together

\* What has left the controller.
LEMMA SentIsNat == Types => Sent \in Nat /\ Len(host.got) <= Sent
<1> SUFFICES ASSUME Types PROVE Sent \in Nat /\ Len(host.got) <= Sent
  OBVIOUS
<1> DEFINE g == Len(host.got)  i == Len(inbox)  t == IF uart.tx_left # 0 THEN 1 ELSE 0
<1>1. g \in Nat /\ i \in Nat
  <2>1. host.got \in Seq(Byte) /\ inbox \in Seq(Byte)  BY DEF Types, HostType
  <2>. QED BY <2>1
<1>2. t \in Nat /\ Sent = g + i + t  BY DEF Sent
<1> HIDE DEF g, i, t
<1>. QED BY <1>1, <1>2 DEF g

\* ST_ACK: the acknowledge waits for wdata to be sent.
LEMMA StepAck ==
  ASSUME Types, UnderWay, NEW starts, Edge(starts), ctl.state = ST_ACK
  PROVE  (UnderWay' \/ Acknowledged') /\ mem' = mem /\ served' = served
<1> DEFINE c == host.call
<1>v. StateValues  BY StatesDiffer
<1>e. EveryState  BY InEveryState
<1>r. CtrlResult(ctl', ctl, Rx, Busy, mst)  BY DEF Edge, EdgeOf
<1>n. ~Uses(ctl) /\ ~SetsCores
      /\ ctl.state \notin {ST_READ, ST_WRITE, ST_IDLE, ST_ADDR, ST_LEN, ST_DISPATCH, ST_CORE, ST_PING}
  BY <1>v DEF Uses, SetsCores, StateValues
<1>a. /\ ~Completes(ctl, mst) /\ Accessing' /\ NoAccess' /\ mem' = mem /\ served' = served
      /\ ~Acks(ctl) => Replying' /\ Sent' + ctl'.wstate = Sent + ctl.wstate
  BY <1>n, WithoutAccess
<1>c. c \in Calls /\ host'.call = c  BY <1>e DEF UnderWay, EveryState
<1>d. ctl.cmd = CmdOf(c) /\ ctl.rstate = 0 /\ (Transfers(c) => ctl.len = 0)
  BY <1>n DEF UnderWay, Commanded
<1>f. /\ served.count = AccessesOf(c)
      /\ Len(served.words) = IF c.op = "read" THEN served.count ELSE 0
  BY <1>n DEF UnderWay, Serving
<1>g. host.coreEn = ctl.core_en /\ ctl'.core_en = ctl.core_en /\ host'.coreEn = host.coreEn
  BY <1>n, <1>r, <1>e DEF UnderWay, CoresFollow, CtrlResult, EveryState
<1>h. Used = RequestLen(c) /\ Used \in Nat  BY <1>e, UsedOf DEF EveryState
<1>i. OnItsWay = 0
  <2>1. Used + ctl.rstate + OnItsWay = RequestLen(c) /\ OnItsWay \in Nat
    BY <1>e DEF UnderWay, Receiving, EveryState
  <2>. QED BY <1>d, <1>h, <2>1
<1>j. ~uart.rx_valid /\ OnItsWay' = 0
  <2>1. host.call \in Calls /\ Sending /\ starts \in BOOLEAN /\ EdgeOf(starts)  BY DEF UnderWay, Edge
  <2>2. /\ OnItsWay' \in Nat
        /\ OnItsWay' = OnItsWay - (IF uart.rx_valid THEN 1 ELSE 0)
        /\ uart.rx_valid => OnItsWay >= 1
    BY <1>e, <2>1, SendingStep DEF EveryState
  <2>3. ~uart.rx_valid  BY <1>i, <2>2
  <2>4. OnItsWay' = OnItsWay - 0  BY <2>2, <2>3, Zenon
  <2>. QED BY <1>i, <2>3, <2>4
<1>1. CASE ~Acks(ctl)
  <2>1. ctl'.state = ST_ACK /\ ctl'.cmd = ctl.cmd /\ ctl'.len = ctl.len
    BY <1>1, <1>a, <1>n, <1>r, <1>v DEF CtrlResult, StateValues
  <2>2. Used' = Used  BY <1>c, <2>1, UsedOf, UsedNext
  <2>3. Receiving' /\ ctl'.rstate = 0  BY <1>a, <1>d, <1>j, <1>n, <2>2, NothingUsed
  <2>4. Commanded'  BY <1>c, <1>d, <1>v, <2>1, <2>3 DEF Commanded, States, StateValues
  <2>5. Serving'
    <3>1. ctl'.state = ST_ACK /\ ctl'.state \notin {ST_READ, ST_WRITE}  BY <2>1, <1>v DEF StateValues
    <3>. QED BY <1>a, <1>c, <1>f, <3>1 DEF Serving
  <2>6. Produced' = Produced  BY <1>c, <2>1 DEF Produced
  <2>7. CoresFollow'  BY <1>g, <2>1 DEF CoresFollow
  <2>8. Replying' /\ Sent' + ctl'.wstate = Produced'
    BY <1>1, <1>a, <2>6 DEF UnderWay
  <2>. QED BY <1>a, <1>e, <2>3, <2>4, <2>5, <2>7, <2>8, Together
<1>2. CASE Acks(ctl)
  <2>1. ctl'.state = ST_IDLE /\ ctl'.rstate = 0
    <3>1. ~TakesByte(ctl, Rx)  BY <1>j DEF TakesByte, Rx
    <3>. QED BY <1>2, <1>a, <1>d, <1>n, <1>r, <3>1 DEF CtrlResult
  <2>2. Sent = 4 * Len(served.words) /\ Sent + 1 = Awaited(c)
    <3>1. Sent + ctl.wstate = Produced /\ ctl.wstate = 0  BY <1>2 DEF UnderWay, Acks
    <3>2. Sent \in Nat  BY SentIsNat
    <3>3. CASE c.op = "read"
      <4>1. Transfers(c)  BY <3>3 DEF Transfers
      <4>2. Size(c) \in Nat /\ c.size = Size(c)  BY <1>c, <3>3, <4>1, TransferSize, ReadCall
      <4>3. Produced = 4 * (Size(c) - 0)
        <5>1. ctl.len = 0  BY <1>d, <4>1
        <5>. QED BY <3>3, <5>1 DEF Produced
      <4>4. Len(served.words) = Size(c)  BY <1>f, <3>3, <4>1 DEF AccessesOf
      <4>5. Awaited(c) = 4 * Size(c) + 1  BY <3>3, <4>2 DEF Awaited
      <4>. QED BY <3>1, <3>2, <4>2, <4>3, <4>4, <4>5
    <3>4. CASE c.op # "read"
      <4>1. Produced = 0 /\ Awaited(c) = 1 /\ Len(served.words) = 0  BY <1>f, <3>4 DEF Produced, Awaited
      <4>. QED BY <3>1, <3>2, <4>1
    <3>. QED BY <3>3, <3>4
  <2>3. Replying' /\ Sent' + ctl'.wstate = Sent + 1
    <3>1. Replying  BY DEF UnderWay
    <3>2. starts \in BOOLEAN /\ EdgeOf(starts) /\ Types'  BY DEF Edge
    <3>. QED BY <1>2, <1>a, <1>d, <2>2, <3>1, <3>2, ReplyingAcks
  <2>4. host'.out = <<>> /\ Flight' = 0
    <3>1. host'.out \in Seq(Byte)  BY <1>e DEF EveryState, HostType
    <3>2. Len(host'.out) \in Nat  BY <3>1
    <3>3. Flight' \in 0 .. 1  BY DEF Flight
    <3>4. OnItsWay' = Len(host'.out) + Flight'  BY DEF OnItsWay
    <3>5. Len(host'.out) = 0 /\ Flight' = 0  BY <1>j, <3>2, <3>3, <3>4
    <3>. QED BY <3>1, <3>5
  <2>5. LinkIdle'  BY <1>a, <1>g, <2>1, <2>4 DEF LinkIdle
  <2>6. Acknowledged'  BY <1>a, <1>c, <1>f, <2>2, <2>3, <2>5 DEF Acknowledged
  <2>. QED BY <1>a, <2>6
<1>. QED BY <1>1, <1>2, <1>a

\* A length that is not 0 is counted down without a borrow.
LEMMA LengthCountsDown ==
  ASSUME NEW n \in Nat, n >= 1, n < HalfValues
  PROVE  (n + HalfValues - 1) % HalfValues = n - 1
<1>1. \A i \in Nat : i >= 1 /\ i < HalfValues => (i + HalfValues - 1) % HalfValues = i - 1
  BY SMT DEF HalfValues
<1>. QED BY <1>1

\* The registers of a transfer whose access is not complete, and of one whose is.
LEMMA TransferRegs ==
  ASSUME Types, NEW starts \in BOOLEAN, EdgeOf(starts), ctl.state \in {ST_READ, ST_WRITE},
         host.call \in Calls, Transfers(host.call), ctl.len \in 1 .. Size(host.call)
  PROVE  /\ ~Uses(ctl) /\ ~Acks(ctl) /\ ~SetsCores
         /\ ctl'.cmd = ctl.cmd /\ ctl'.core_en = ctl.core_en
         /\ ctl.len \in Nat /\ Size(host.call) \in Nat /\ ctl.addr \in Nat
         /\ ~Completes(ctl, mst) => ctl'.state = ctl.state /\ ctl'.len = ctl.len /\ ctl'.addr = ctl.addr
         /\ Completes(ctl, mst) => /\ ctl'.len = ctl.len - 1 /\ ctl'.addr = ctl.addr + 1
                                   /\ ctl'.state = IF ctl.len = 1 THEN ST_ACK ELSE ctl.state
<1>v. StateValues  BY StatesDiffer
<1>r. CtrlResult(ctl', ctl, Rx, Busy, mst)  BY DEF EdgeOf
<1>n. ~Uses(ctl) /\ ~Acks(ctl) /\ ~SetsCores
      /\ ctl.state \notin {ST_IDLE, ST_ADDR, ST_LEN, ST_DISPATCH, ST_CORE, ST_PING}
  BY <1>v DEF Uses, Acks, SetsCores, StateValues
<1>1. Size(host.call) \in Nat /\ Size(host.call) < HalfValues  BY TransferSize
<1>2. ctl.len \in Nat /\ ctl.len >= 1 /\ ctl.len < HalfValues  BY <1>1, HalfValuesIsNat
<1>3. (ctl.len + HalfValues - 1) % HalfValues = ctl.len - 1  BY <1>2, LengthCountsDown
<1>4. ctl'.cmd = ctl.cmd /\ ctl'.core_en = ctl.core_en  BY <1>n, <1>r DEF CtrlResult
<1>5. ~Completes(ctl, mst) => ctl'.state = ctl.state /\ ctl'.len = ctl.len /\ ctl'.addr = ctl.addr
  BY <1>n, <1>r DEF CtrlResult
<1>6. Completes(ctl, mst) => /\ ctl'.len = ctl.len - 1 /\ ctl'.addr = ctl.addr + 1
                             /\ ctl'.state = IF ctl.len = 1 THEN ST_ACK ELSE ctl.state
  BY <1>n, <1>r, <1>3 DEF CtrlResult
<1>7. ctl.addr \in Nat  BY DEF Types, CtlType
<1>. QED BY <1>n, <1>1, <1>2, <1>4, <1>5, <1>6, <1>7

\* The next word of a read is read, the next word of a write written.
WordRead ==
  LET c == host.call
      a == c.addr + served.count
  IN  /\ c.op = "read" /\ served.count < Size(c) /\ mem' = mem
      /\ served'.count = served.count + 1
      /\ \E w \in AnyWord : /\ a \in Adrs => w = mem[a]
                            /\ served'.words = Append(served.words, w)
WordWritten ==
  LET c == host.call
      a == c.addr + served.count
  IN  /\ c.op = "write" /\ served.count < Size(c)
      /\ mem' = IF a \in Adrs THEN [mem EXCEPT ![a] = c.data[served.count + 1]] ELSE mem
      /\ served'.count = served.count + 1 /\ served'.words = served.words

\* ST_READ: a word is read when wdata is empty, and loaded into it.
LEMMA StepRead ==
  ASSUME Types, UnderWay, NEW starts, Edge(starts), ctl.state = ST_READ
  PROVE  UnderWay' /\ (Unserved \/ WordRead)
<1> DEFINE c == host.call
           n == Size(c)
<1>v. StateValues  BY StatesDiffer
<1>e. EveryState  BY InEveryState
<1>s. starts \in BOOLEAN /\ EdgeOf(starts) /\ Types' /\ Replying  BY DEF Edge, UnderWay
<1>r. CtrlResult(ctl', ctl, Rx, Busy, mst)  BY DEF Edge, EdgeOf
<1>c. c \in Calls /\ host'.call = c  BY <1>e DEF UnderWay, EveryState
<1>m. ctl.state \notin {ST_IDLE, ST_ADDR, ST_LEN, ST_DISPATCH, ST_WRITE, ST_CORE, ST_PING, ST_ACK}
  BY <1>v DEF StateValues
<1>d. /\ ctl.cmd = CmdOf(c) /\ c.op = "read" /\ ctl.rstate = 0
      /\ ctl.len \in 1 .. n /\ ctl.addr = c.addr + (n - ctl.len)
  BY <1>m DEF UnderWay, Commanded
<1>f. Transfers(c) /\ RequestLen(c) = 7 /\ AccessesOf(c) = n
  BY <1>d DEF Transfers, RequestLen, AccessesOf
<1>t. /\ ~Uses(ctl) /\ ~Acks(ctl) /\ ~SetsCores
      /\ ctl'.cmd = ctl.cmd /\ ctl'.core_en = ctl.core_en
      /\ ctl.len \in Nat /\ n \in Nat /\ ctl.addr \in Nat
      /\ ~Completes(ctl, mst) => ctl'.state = ctl.state /\ ctl'.len = ctl.len /\ ctl'.addr = ctl.addr
      /\ Completes(ctl, mst) => /\ ctl'.len = ctl.len - 1 /\ ctl'.addr = ctl.addr + 1
                                /\ ctl'.state = IF ctl.len = 1 THEN ST_ACK ELSE ctl.state
  BY <1>s, <1>c, <1>d, <1>f, TransferRegs
<1>g. ctl'.state \in {ST_READ, ST_ACK}  BY <1>t
<1>h. served.count = n - ctl.len + AlreadyServed /\ Len(served.words) = served.count
  BY <1>d DEF UnderWay, Serving
<1>i. Sent + ctl.wstate = 4 * (n - ctl.len)  BY <1>d DEF UnderWay, Produced
<1>j. served.words \in Seq(AnyWord) /\ c.addr \in Nat  BY <1>c, <1>f, TransferCall DEF Types, ServedType
<1>w. ~wb_we(ctl)  BY <1>m DEF wb_we
<1>1. Receiving' /\ ctl'.rstate = 0
  <2>1. Used = 7 /\ Used' = 7  BY <1>c, <1>f, <1>g, UsedOf, UsedNext
  <2>2. Receiving' /\ ctl'.rstate = ctl.rstate + (IF uart.rx_valid THEN 1 ELSE 0)
    BY <1>t, <1>w, <2>1, NothingUsed
  <2>3. Used' + ctl'.rstate + OnItsWay' = 7 /\ OnItsWay' \in Nat /\ ctl'.rstate \in Nat
    BY <1>c, <1>d, <1>e, <1>f, <2>2 DEF Receiving, EveryState
  <2>. QED BY <2>1, <2>2, <2>3
<1>2. CoresFollow'
  <2>1. c.op # "enable" /\ c.op # "select" /\ c.op \notin {"disable", "reset"}  BY <1>d
  <2>2. After(ctl.core_en, c) = ctl.core_en  BY <2>1 DEF After
  <2>3. host.coreEn = ctl.core_en  BY <1>m, <2>2 DEF UnderWay, CoresFollow
  <2>4. After(ctl'.core_en, host'.call) = ctl'.core_en  BY <1>c, <1>t, <2>2
  <2>. QED BY <1>e, <1>t, <2>3, <2>4 DEF CoresFollow, EveryState
<1>3. CASE ~Completes(ctl, mst)
  <2>1. ctl'.state = ST_READ /\ ctl'.len = ctl.len /\ ctl'.addr = ctl.addr  BY <1>3, <1>t
  <2>2. Commanded'  BY <1>1, <1>c, <1>d, <1>t, <1>v, <2>1 DEF Commanded, States, StateValues
  <2>3. Produced' = 4 * (n - ctl.len)  BY <1>c, <1>d, <2>1 DEF Produced
  <2>4. ASSUME \A i \in 1 .. Sent + ctl.wstate : NextReply(i) = Reply(i)
        PROVE  Replying' /\ Sent' + ctl'.wstate = Produced'
    <3>1. Replying' /\ Sent' + ctl'.wstate = Sent + ctl.wstate
      BY <1>3, <1>s, <1>t, <2>4, ReplyingShifts
    <3>. QED BY <1>i, <2>3, <3>1
  <2>5. ASSUME Unserved, ~mst.complete, ~mst'.complete, Accessing'
        PROVE  UnderWay'
    <3>1. served' = served /\ AlreadyServed = 0 /\ AlreadyServed' = 0  BY <2>5 DEF Unserved, AlreadyServed
    <3>2. Serving'  BY <1>c, <1>d, <1>h, <2>1, <3>1 DEF Serving
    <3>3. \A i : NextReply(i) = Reply(i)  BY <1>s, <3>1, ReplySteady
    <3>4. Replying' /\ Sent' + ctl'.wstate = Produced'  BY <2>4, <3>3
    <3>. QED BY <1>1, <1>2, <1>e, <2>2, <2>5, <3>2, <3>4, Together
  <2>6. CASE NotAsked
    <3>1. Unserved /\ NoAccess /\ NoAccess'  BY <1>t, <2>6 DEF NotAsked, Unserved
    <3>2. ~mst.complete /\ ~mst'.complete /\ Accessing'  BY <3>1 DEF NoAccess, Accessing
    <3>. QED BY <2>5, <3>1, <3>2
  <2>7. CASE OnTheWay /\ Accessing' /\ Unserved /\ ~mst'.complete
    <3>1. ~mst.complete  BY <2>7 DEF OnTheWay
    <3>. QED BY <2>5, <2>7, <3>1
  <2>8. CASE OnTheWay /\ Accessing' /\ ServedNow /\ Accepted /\ mst'.complete
    <3>1. ~bus.we /\ bus.adr = ctl.addr  BY <1>w, <2>8 DEF Accepted
    <3>2. AlreadyServed = 0 /\ AlreadyServed' = 1  BY <2>8 DEF OnTheWay, AlreadyServed
    <3>3. served.count = n - ctl.len /\ served.count < n /\ c.addr + served.count = bus.adr
      BY <1>d, <1>h, <1>j, <1>t, <3>1, <3>2
    <3>4. PICK w \in AnyWord : /\ bus.adr \in Adrs => w = mem[bus.adr]
                               /\ served'.words = Append(served.words, w)
      BY <2>8, <3>1 DEF ServedNow
    <3>5. served'.count = served.count + 1 /\ mem' = mem  BY <2>8, <3>1 DEF ServedNow
    <3>6. Len(served'.words) = Len(served.words) + 1  BY <1>j, <3>4, AppendIs
    <3>7. Serving'
      <4>1. served'.count = n - ctl'.len + AlreadyServed'  BY <1>t, <2>1, <3>2, <3>3, <3>5
      <4>2. Len(served'.words) = served'.count  BY <1>h, <3>5, <3>6
      <4>. QED BY <1>c, <1>d, <2>1, <4>1, <4>2 DEF Serving
    <3>8. \A i \in 1 .. Sent + ctl.wstate : NextReply(i) = Reply(i)
      <4>1. Sent + ctl.wstate = 4 * Len(served.words)  BY <1>h, <1>i, <3>3
      <4>2. \A i \in 1 .. 4 * Len(served.words) : NextReply(i) = Reply(i)  BY <1>s, <3>4, ReplyGrows
      <4>. QED BY <4>1, <4>2
    <3>9. Replying' /\ Sent' + ctl'.wstate = Produced'  BY <2>4, <3>8
    <3>10. UnderWay'  BY <1>1, <1>2, <1>e, <2>2, <2>8, <3>7, <3>9, Together
    <3>11. WordRead  BY <1>d, <3>3, <3>4, <3>5 DEF WordRead
    <3>. QED BY <3>10, <3>11
  <2>9. ~InUse  BY <1>3 DEF InUse, Completes, Active
  <2>10. Unserved \/ WordRead
    <3>1. NotAsked => Unserved  BY <1>t DEF NotAsked, Unserved
    <3>. QED BY <2>8, <2>9, <3>1 DEF Edge, OnTheWay
  <2>. QED BY <2>6, <2>7, <2>8, <2>9, <2>10 DEF Edge, OnTheWay
<1>4. CASE Completes(ctl, mst)
  <2>1. InUse
    <3>1. Active /\ mst.complete  BY <1>4 DEF Completes, Active
    <3>. QED BY <3>1 DEF Edge, NotAsked, OnTheWay
  <2>2. Answered /\ Unserved /\ NoAccess' /\ wb_re(ctl) /\ mst.complete  BY <1>w, <2>1 DEF InUse, Active
  <2>3. /\ served.words # <<>> /\ mst.dout = served.words[Len(served.words)]
        /\ served' = served /\ AlreadyServed = 1 /\ AlreadyServed' = 0
    BY <2>2 DEF Answered, Unserved, AlreadyServed, NoAccess
  <2>4. ctl'.len = ctl.len - 1 /\ ctl'.addr = ctl.addr + 1
        /\ ctl'.state = IF ctl.len = 1 THEN ST_ACK ELSE ST_READ
    BY <1>4, <1>t
  <2>5. Len(served.words) = n - ctl'.len /\ served.count = n - ctl'.len
    BY <1>h, <1>t, <2>3, <2>4
  <2>6. Sent = 4 * (Len(served.words) - 1)
    <3>1. ctl.wstate = 0  BY <2>2 DEF wb_re
    <3>2. Sent \in Nat  BY SentIsNat
    <3>. QED BY <1>i, <1>t, <2>4, <2>5, <3>1, <3>2
  <2>7. Replying' /\ Sent' + ctl'.wstate = 4 * Len(served.words)
    BY <1>4, <1>s, <2>2, <2>3, <2>6, ReplyingLoads
  <2>8. Produced' = 4 * (n - ctl'.len)  BY <1>c, <1>d, <1>g DEF Produced
  <2>9. Commanded'
    <3>1. ctl'.cmd = CmdOf(c) /\ (ctl'.state = ST_ACK => ctl'.len = 0)  BY <1>d, <1>t, <1>v, <2>4 DEF StateValues
    <3>2. ctl'.state = ST_READ => ctl'.len \in 1 .. n /\ ctl'.addr = c.addr + (n - ctl'.len)
      BY <1>d, <1>j, <1>t, <1>v, <2>4 DEF StateValues
    <3>. QED BY <1>1, <1>c, <1>d, <1>g, <1>v, <3>1, <3>2 DEF Commanded, States, StateValues
  <2>10. Serving'
    <3>1. CASE ctl'.state = ST_READ
      <4>1. n - ctl'.len + AlreadyServed' = n - ctl'.len  BY <1>t, <2>3, <2>4
      <4>. QED BY <1>c, <1>d, <2>3, <2>5, <3>1, <4>1 DEF Serving
    <3>2. CASE ctl'.state = ST_ACK
      <4>1. ctl'.len = 0  BY <1>t, <1>v, <2>4, <3>2 DEF StateValues
      <4>2. served.count = AccessesOf(c)  BY <1>f, <1>t, <2>5, <4>1
      <4>3. ctl'.state \notin {ST_READ, ST_WRITE}  BY <1>v, <3>2 DEF StateValues
      <4>4. Len(served.words) = served.count  BY <2>5
      <4>. QED BY <1>c, <1>d, <2>3, <3>2, <4>2, <4>3, <4>4 DEF Serving
    <3>. QED BY <1>g, <3>1, <3>2
  <2>11. Accessing'  BY <2>2 DEF Accessing
  <2>12. Sent' + ctl'.wstate = Produced'  BY <2>5, <2>7, <2>8
  <2>13. UnderWay'  BY <1>1, <1>2, <1>e, <2>7, <2>9, <2>10, <2>11, <2>12, Together
  <2>. QED BY <2>2, <2>13
<1>. QED BY <1>3, <1>4

\* What a write puts on the bus is the next word of the call.
LEMMA WordIsWritten ==
  ASSUME Types, UnderWay, wb_we(ctl)
  PROVE  LET c == host.call
             d == Size(c) - ctl.len
         IN  d \in Nat /\ d < Len(c.data) /\ ctl.rdata = c.data[d + 1] /\ ctl.rdata \in AnyWord
<1> DEFINE c == host.call
           d == Size(c) - ctl.len
<1>v. StateValues  BY StatesDiffer
<1>1. ctl.rstate = 4 /\ ctl.state = ST_WRITE  BY DEF wb_we
<1>2. c \in Calls /\ c.op = "write" /\ ctl.len \in 1 .. Size(c)  BY <1>1 DEF UnderWay, Commanded
<1>3. c.data \in Seq(Words) /\ Size(c) = Len(c.data) /\ Transfers(c) /\ Size(c) \in Nat
  <2>1. c.data \in Seq(Words) /\ Size(c) = Len(c.data)  BY <1>2, WriteCall
  <2>. QED BY <1>2, <2>1 DEF Transfers
<1>4. d \in Nat /\ d < Len(c.data) /\ d + 1 \in 1 .. Len(c.data)  BY <1>2, <1>3
<1>5. Used = 7 + 4 * d  BY <1>1, UsedOf
<1>6. \A i \in 1 .. 4 : ctl.rdata[i] = Req(Used + i)
  <2>1. \A i \in 1 .. ctl.rstate : ctl.rdata[4 - ctl.rstate + i] = Req(Used + i)  BY DEF UnderWay, Receiving
  <2>2. \A i \in 1 .. 4 : 4 - ctl.rstate + i = i  BY <1>1
  <2>. QED BY <1>1, <2>1, <2>2
<1> HIDE DEF d
<1>7. \A i \in 1 .. 4 : Req(Used + i) = c.data[d + 1][i]
  <2> SUFFICES ASSUME NEW i \in 1 .. 4 PROVE Req(Used + i) = c.data[d + 1][i]
    OBVIOUS
  <2> DEFINE j == Used + i
  <2>1. j \in Nat /\ j > 7 /\ j - 7 = 4 * d + i  BY <1>4, <1>5
  <2>2. RequestByte(c, host.coreEn, j) = Buffer(c.data)[j - 7]
    <3>1. j # 1 /\ ~(j <= 5) /\ ~(j <= 7)  BY <2>1
    <3> HIDE DEF j
    <3>. QED BY <1>3, <3>1 DEF RequestByte, TransferByte
  <2>3. Buffer(c.data)[4 * d + i] = c.data[d + 1][i]  BY <1>3, <1>4, BufferWord
  <2>. QED BY <2>1, <2>2, <2>3 DEF Req
<1>8. c.data[d + 1] \in Words  BY <1>3, <1>4
<1>9. ctl.rdata \in Word /\ c.data[d + 1] \in Word  BY <1>8, ZeroIsWord DEF Types, CtlType, AnyWord
<1>10. \A i \in 1 .. 4 : ctl.rdata[i] = c.data[d + 1][i]  BY <1>6, <1>7
<1>11. ctl.rdata = c.data[d + 1]  BY <1>9, <1>10 DEF Word
<1>. QED BY <1>4, <1>8, <1>11 DEF AnyWord, d

\* ST_WRITE: a word is written when rdata is full, and rdata is emptied.
LEMMA StepWrite ==
  ASSUME Types, UnderWay, NEW starts, Edge(starts), ctl.state = ST_WRITE
  PROVE  UnderWay' /\ (Unserved \/ WordWritten)
<1> DEFINE c == host.call
           n == Size(c)
<1>v. StateValues  BY StatesDiffer
<1>e. EveryState  BY InEveryState
<1>s. starts \in BOOLEAN /\ EdgeOf(starts) /\ Types' /\ Replying  BY DEF Edge, UnderWay
<1>r. CtrlResult(ctl', ctl, Rx, Busy, mst)  BY DEF Edge, EdgeOf
<1>c. c \in Calls /\ host'.call = c  BY <1>e DEF UnderWay, EveryState
<1>m. ctl.state \notin {ST_IDLE, ST_ADDR, ST_LEN, ST_DISPATCH, ST_READ, ST_CORE, ST_PING, ST_ACK}
  BY <1>v DEF StateValues
<1>d. /\ ctl.cmd = CmdOf(c) /\ c.op = "write"
      /\ ctl.len \in 1 .. n /\ ctl.addr = c.addr + (n - ctl.len)
  BY <1>m DEF UnderWay, Commanded
<1>f. Transfers(c) /\ AccessesOf(c) = n  BY <1>d DEF Transfers, AccessesOf
<1>t. /\ ~Uses(ctl) /\ ~Acks(ctl) /\ ~SetsCores
      /\ ctl'.cmd = ctl.cmd /\ ctl'.core_en = ctl.core_en
      /\ ctl.len \in Nat /\ n \in Nat /\ ctl.addr \in Nat
      /\ ~Completes(ctl, mst) => ctl'.state = ctl.state /\ ctl'.len = ctl.len /\ ctl'.addr = ctl.addr
      /\ Completes(ctl, mst) => /\ ctl'.len = ctl.len - 1 /\ ctl'.addr = ctl.addr + 1
                                /\ ctl'.state = IF ctl.len = 1 THEN ST_ACK ELSE ctl.state
  BY <1>s, <1>c, <1>d, <1>f, TransferRegs
<1>g. ctl'.state \in {ST_WRITE, ST_ACK}  BY <1>t
<1>h. served.count = n - ctl.len + AlreadyServed /\ served.words = <<>>
  <2>1. served.count = n - ctl.len + AlreadyServed /\ Len(served.words) = 0  BY <1>d DEF UnderWay, Serving
  <2>2. served.words \in Seq(AnyWord)  BY DEF Types, ServedType
  <2>. QED BY <2>1, <2>2
<1>i. Sent + ctl.wstate = 0 /\ Produced' = 0  BY <1>c, <1>d DEF UnderWay, Produced
<1>j. c.addr \in Nat /\ c.data \in Seq(Words) /\ n = Len(c.data)  BY <1>c, <1>d, WriteCall
<1>w. ~wb_re(ctl)  BY <1>m DEF wb_re
<1>2. CoresFollow'
  <2>1. c.op # "enable" /\ c.op # "select" /\ c.op \notin {"disable", "reset"}  BY <1>d
  <2>2. After(ctl.core_en, c) = ctl.core_en  BY <2>1 DEF After
  <2>3. host.coreEn = ctl.core_en  BY <1>m, <2>2 DEF UnderWay, CoresFollow
  <2>4. After(ctl'.core_en, host'.call) = ctl'.core_en  BY <1>c, <1>t, <2>2
  <2>. QED BY <1>e, <1>t, <2>3, <2>4 DEF CoresFollow, EveryState
<1>k. ASSUME served'.words = served.words
      PROVE  Replying' /\ Sent' + ctl'.wstate = Produced'
  <2>1. \A i : NextReply(i) = Reply(i)  BY <1>s, <1>k, ReplySteady
  <2>2. Replying' /\ Sent' + ctl'.wstate = Sent + ctl.wstate
    BY <1>s, <1>t, <1>w, <2>1, ReplyingShifts
  <2>. QED BY <1>i, <2>2
<1>3. CASE ~Completes(ctl, mst)
  <2>1. ctl'.state = ST_WRITE /\ ctl'.len = ctl.len /\ ctl'.addr = ctl.addr  BY <1>3, <1>t
  <2>2. Receiving'
    <3>1. Used' = Used  BY <1>c, <2>1, UsedOf, UsedNext
    <3>. QED BY <1>3, <1>t, <3>1, NothingUsed
  <2>3. Commanded'  BY <1>c, <1>d, <1>t, <1>v, <2>1 DEF Commanded, States, StateValues
  <2>4. ASSUME Accessing', served'.words = served.words, served'.count = n - ctl.len + AlreadyServed'
        PROVE  UnderWay'
    <3>1. Serving'
      <4>1. Len(served'.words) = 0  BY <1>h, <2>4
      <4>. QED BY <1>c, <1>d, <2>1, <2>4, <4>1 DEF Serving
    <3>2. Replying' /\ Sent' + ctl'.wstate = Produced'  BY <1>k, <2>4
    <3>. QED BY <1>2, <1>e, <2>2, <2>3, <2>4, <3>1, <3>2, Together
  <2>5. ASSUME Unserved, ~mst.complete, ~mst'.complete, Accessing'
        PROVE  UnderWay'
    <3>1. served' = served /\ AlreadyServed' = AlreadyServed  BY <2>5 DEF Unserved, AlreadyServed
    <3>. QED BY <1>h, <2>4, <2>5, <3>1
  <2>6. CASE NotAsked
    <3>1. Unserved /\ NoAccess /\ NoAccess'  BY <1>t, <2>6 DEF NotAsked, Unserved
    <3>2. ~mst.complete /\ ~mst'.complete /\ Accessing'  BY <3>1 DEF NoAccess, Accessing
    <3>. QED BY <2>5, <3>1, <3>2
  <2>7. CASE OnTheWay /\ Accessing' /\ Unserved /\ ~mst'.complete
    <3>1. ~mst.complete  BY <2>7 DEF OnTheWay
    <3>. QED BY <2>5, <2>7, <3>1
  <2>8. CASE OnTheWay /\ Accessing' /\ ServedNow /\ Accepted /\ mst'.complete
    <3>0. wb_we(ctl)  BY <1>w, <2>8 DEF OnTheWay, Active
    <3>1. bus.we /\ bus.adr = ctl.addr /\ bus.dat = ctl.rdata  BY <2>8, <3>0 DEF Accepted
    <3>2. AlreadyServed = 0 /\ AlreadyServed' = 1  BY <2>8 DEF OnTheWay, AlreadyServed
    <3>3. served.count = n - ctl.len /\ served.count < n /\ c.addr + served.count = bus.adr
      BY <1>d, <1>h, <1>j, <1>t, <3>1, <3>2
    <3>4. bus.dat = c.data[served.count + 1]
      <4>1. ctl.rdata = c.data[n - ctl.len + 1]  BY <3>0, WordIsWritten
      <4>. QED BY <3>1, <3>3, <4>1
    <3>5. /\ mem' = IF bus.we /\ bus.adr \in Adrs THEN [mem EXCEPT ![bus.adr] = bus.dat] ELSE mem
          /\ served'.count = served.count + 1 /\ served'.words = served.words
      BY <1>h, <2>8, <3>1 DEF ServedNow
    <3>6. UnderWay'
      <4>1. served'.count = n - ctl.len + AlreadyServed'  BY <3>2, <3>3, <3>5
      <4>. QED BY <2>4, <2>8, <3>5, <4>1
    <3>7. mem' = IF c.addr + served.count \in Adrs
                   THEN [mem EXCEPT ![c.addr + served.count] = c.data[served.count + 1]] ELSE mem
      BY <3>1, <3>3, <3>4, <3>5, Zenon
    <3>8. WordWritten  BY <1>d, <3>3, <3>5, <3>7, Zenon DEF WordWritten
    <3>. QED BY <3>6, <3>8
  <2>9. ~InUse  BY <1>3 DEF InUse, Completes, Active
  <2>10. Unserved \/ WordWritten
    <3>1. NotAsked => Unserved  BY <1>t DEF NotAsked, Unserved
    <3>. QED BY <2>8, <2>9, <3>1 DEF Edge, OnTheWay
  <2>. QED BY <2>6, <2>7, <2>8, <2>9, <2>10 DEF Edge, OnTheWay
<1>4. CASE Completes(ctl, mst)
  <2>1. InUse
    <3>1. Active /\ mst.complete  BY <1>4 DEF Completes, Active
    <3>. QED BY <3>1 DEF Edge, NotAsked, OnTheWay
  <2>2. Unserved /\ NoAccess' /\ wb_we(ctl) /\ mst.complete /\ ctl.rstate = 4
    BY <1>w, <2>1 DEF InUse, Active, wb_we
  <2>3. served' = served /\ AlreadyServed = 1 /\ AlreadyServed' = 0
    BY <2>2 DEF Unserved, AlreadyServed, NoAccess
  <2>4. ctl'.len = ctl.len - 1 /\ ctl'.addr = ctl.addr + 1
        /\ ctl'.state = IF ctl.len = 1 THEN ST_ACK ELSE ST_WRITE
    BY <1>4, <1>t
  <2>5. ctl'.rstate = 0 /\ ~uart.rx_valid
    <3>1. ctl'.rstate = 0  BY <1>4, <1>r, <2>2 DEF CtrlResult
    <3>. QED BY <2>2, <3>1 DEF UnderWay, WrittenInTime
  <2>6. Receiving'
    <3>1. Used = 7 + 4 * (n - ctl.len)  BY UsedOf
    <3>2. CASE ctl'.state = ST_WRITE
      <4>1. Used' = 7 + 4 * (n - ctl'.len)  BY <1>c, <3>2, UsedNext
      <4>2. Used' = Used + ctl.rstate  BY <1>t, <2>2, <2>4, <3>1, <4>1
      <4>. QED BY <2>5, <4>2, AllUsed
    <3>3. CASE ctl'.state = ST_ACK
      <4>1. Used' = RequestLen(c)  BY <1>c, <3>3, UsedNext
      <4>2. RequestLen(c) = 7 + 4 * n  BY <1>d, <1>j DEF RequestLen
      <4>3. ctl.len = 1  BY <1>v, <2>4, <3>3 DEF StateValues
      <4>4. Used' = Used + ctl.rstate  BY <1>t, <2>2, <3>1, <4>1, <4>2, <4>3
      <4>. QED BY <2>5, <4>4, AllUsed
    <3>. QED BY <1>g, <3>2, <3>3
  <2>7. Commanded'
    <3>1. ctl'.cmd = CmdOf(c) /\ (ctl'.state = ST_ACK => ctl'.len = 0)  BY <1>d, <1>t, <1>v, <2>4 DEF StateValues
    <3>2. ctl'.state = ST_WRITE => ctl'.len \in 1 .. n /\ ctl'.addr = c.addr + (n - ctl'.len)
      <4>1. ctl'.state = ST_WRITE => ctl.len # 1  BY <1>v, <2>4 DEF StateValues
      <4> DEFINE l == ctl.len  m == ctl'.len  a == c.addr
      <4>2. l \in Nat /\ n \in Nat /\ l >= 1 /\ l <= n /\ m = l - 1  BY <1>d, <1>t, <2>4
      <4>3. a \in Nat /\ ctl'.addr = a + (n - l) + 1  BY <1>d, <1>j, <2>4
      <4> HIDE DEF l, m, n, a
      <4>4. l # 1 => m \in 1 .. n  BY <4>2
      <4>5. ctl'.addr = a + (n - m)  BY <4>2, <4>3
      <4>. QED BY <4>1, <4>4, <4>5 DEF l, m, a
    <3>3. CASE ctl'.state = ST_WRITE
      BY <1>c, <1>d, <1>v, <3>1, <3>2, <3>3 DEF Commanded, States, StateValues
    <3>4. CASE ctl'.state = ST_ACK
      BY <1>c, <1>d, <1>v, <2>5, <3>1, <3>4 DEF Commanded, States, StateValues
    <3>. QED BY <1>g, <3>3, <3>4
  <2>8. served.count = n - ctl'.len  BY <1>h, <1>t, <2>3, <2>4
  <2>9. Serving'
    <3>0. Len(served'.words) = 0  BY <1>h, <2>3
    <3>1. CASE ctl'.state = ST_WRITE
      <4>1. n - ctl'.len + AlreadyServed' = n - ctl'.len  BY <1>t, <2>3, <2>4
      <4>. QED BY <1>c, <1>d, <2>3, <2>8, <3>0, <3>1, <4>1 DEF Serving
    <3>2. CASE ctl'.state = ST_ACK
      <4>1. ctl'.len = 0  BY <1>t, <1>v, <2>4, <3>2 DEF StateValues
      <4>2. served.count = AccessesOf(c)  BY <1>f, <1>t, <2>8, <4>1
      <4>3. ctl'.state \notin {ST_READ, ST_WRITE}  BY <1>v, <3>2 DEF StateValues
      <4>. QED BY <1>c, <1>d, <2>3, <3>0, <3>2, <4>2, <4>3 DEF Serving
    <3>. QED BY <1>g, <3>1, <3>2
  <2>10. Accessing'  BY <2>2 DEF Accessing
  <2>11. Replying' /\ Sent' + ctl'.wstate = Produced'  BY <1>k, <2>3
  <2>12. UnderWay'  BY <1>2, <1>e, <2>6, <2>7, <2>9, <2>10, <2>11, Together
  <2>. QED BY <2>2, <2>12
<1>. QED BY <1>3, <1>4

\* A step of the clock in all its parts.
LEMMA ClockIsEdge ==
  ASSUME Types, NEW starts \in BOOLEAN, Clock(starts), Accessing, wb_we(ctl) => ctl.rdata \in AnyWord
  PROVE  Edge(starts)
<1>1. EdgeOf(starts) /\ host' \in HostType /\ uart' \in UartType /\ inbox' \in Seq(Byte) /\ ctl' \in CtlType
  BY ClockEdge
<1>2. PICK in \in Answers : AccessEdge(in)  BY ClockAccess
<1>3. AccessTypes  BY <1>1, <1>2, AccessTypesStep
<1>4. Types'  BY <1>1, <1>3 DEF Types, AccessTypes, Regs
<1>5. NotAsked \/ (OnTheWay /\ Accessing') \/ InUse  BY <1>1, <1>2, <1>4, AccessStep
<1>. QED BY <1>1, <1>4, <1>5 DEF Edge

\* The lines of the cores change in ST_CORE only.
LEMMA OnlyCoreSetsCores ==
  ASSUME NEW starts, Edge(starts), ctl.state # ST_CORE
  PROVE  CoresUnset
BY DEF Edge, EdgeOf, CtrlResult, CoresUnset

\* What an edge does to a call: nothing, a word, or the cores.
Progress == \/ Unserved /\ CoresUnset
            \/ WordRead /\ CoresUnset
            \/ WordWritten /\ CoresUnset
            \/ mem' = mem /\ CoresSet

\* Whatever the state, a call that is not acknowledged makes progress or stays as it is.
LEMMA UnderWayEdge ==
  ASSUME Types, UnderWay, NEW starts, Edge(starts)
  PROVE  (UnderWay' \/ Acknowledged') /\ Progress
<1>v. StateValues  BY StatesDiffer
<1>1. ctl.state \in {ST_IDLE, ST_ADDR, ST_LEN, ST_DISPATCH, ST_READ, ST_WRITE, ST_CORE, ST_PING, ST_ACK}
  <2>1. ctl.state \in 0 .. 8  BY <1>v DEF UnderWay, Commanded, States, StateValues
  <2>. QED BY <1>v, <2>1 DEF StateValues
<1>2. ctl.state # ST_CORE => CoresUnset  BY OnlyCoreSetsCores
<1>3. CASE ctl.state \in {ST_IDLE, ST_ADDR, ST_LEN, ST_DISPATCH, ST_PING, ST_ACK}
  <2>1. (UnderWay' \/ Acknowledged') /\ mem' = mem /\ served' = served
    BY <1>3, StepIdle, StepAddr, StepLen, StepDispatch, StepPing, StepAck
  <2>2. ctl.state # ST_CORE  BY <1>3, <1>v DEF StateValues
  <2>. QED BY <1>2, <2>1, <2>2 DEF Progress, Unserved
<1>4. CASE ctl.state = ST_READ
  <2>1. ctl.state # ST_CORE  BY <1>4, <1>v DEF StateValues
  <2>. QED BY <1>2, <1>4, <2>1, StepRead DEF Progress
<1>5. CASE ctl.state = ST_WRITE
  <2>1. ctl.state # ST_CORE  BY <1>5, <1>v DEF StateValues
  <2>. QED BY <1>2, <1>5, <2>1, StepWrite DEF Progress
<1>6. CASE ctl.state = ST_CORE
  <2>1. UnderWay' /\ mem' = mem /\ ((served' = served /\ CoresUnset) \/ CoresSet)  BY <1>6, StepCore
  <2>. QED BY <2>1 DEF Progress, Unserved
<1>. QED BY <1>1, <1>3, <1>4, <1>5, <1>6

LEMMA UnderWayStep ==
  ASSUME Types, UnderWay, NEW starts \in BOOLEAN, Clock(starts)
  PROVE  Edge(starts) /\ (UnderWay' \/ Acknowledged') /\ Progress
<1>1. Accessing  BY DEF UnderWay
<1>2. wb_we(ctl) => ctl.rdata \in AnyWord  BY WordIsWritten
<1>3. Edge(starts)  BY <1>1, <1>2, ClockIsEdge
<1>. QED BY <1>3, UnderWayEdge

-----------------------------------------------------------------------------
(* One edge of the clock while nothing is to be done.                      *)

\* A controller without a command stands still, but for sending what is in wdata.
LEMMA IdleStep ==
  ASSUME Types, LinkIdle, NEW starts \in BOOLEAN, Clock(starts)
  PROVE  /\ Edge(starts) /\ ~starts /\ LinkIdle' /\ Unserved /\ CoresUnset
         /\ ~uart.rx_valid /\ ~Acks(ctl) /\ ~Completes(ctl, mst)
         /\ host'.call = host.call /\ host'.got = host.got
<1>v. StateValues  BY StatesDiffer
<1>1. ctl.state = ST_IDLE /\ ctl.rstate = 0 /\ NoAccess /\ host.out = <<>> /\ host.coreEn = ctl.core_en
  BY DEF LinkIdle
<1>2. uart.rx_left = 0 /\ ~uart.rx_valid
  <2>1. Flight = 0  BY DEF LinkIdle
  <2>. QED BY <2>1 DEF Flight
<1>3. ~wb_we(ctl) /\ ~wb_re(ctl)  BY <1>1, <1>v DEF wb_we, wb_re, StateValues
<1>4. Edge(starts)  BY <1>1, <1>3, ClockIsEdge DEF Accessing
<1>5. ~starts  BY <1>1 DEF Clock
<1>6. /\ ~Uses(ctl) /\ ~Acks(ctl) /\ ~Completes(ctl, mst) /\ ~SetsCores /\ ~Active
      /\ ctl.state \notin {ST_ADDR, ST_LEN, ST_DISPATCH, ST_CORE, ST_PING}
  BY <1>1, <1>3, <1>v DEF Uses, Acks, Completes, SetsCores, Active, StateValues
<1>7. NotAsked  BY <1>4, <1>6 DEF Edge, OnTheWay, InUse
<1>8. Unserved /\ NoAccess'  BY <1>6, <1>7 DEF NotAsked, Unserved
<1>r. CtrlResult(ctl', ctl, Rx, Busy, mst)  BY <1>4 DEF Edge, EdgeOf
<1>9. ctl'.state = ST_IDLE /\ ctl'.rstate = 0
  <2>1. ~TakesByte(ctl, Rx)  BY <1>2 DEF TakesByte, Rx
  <2>. QED BY <1>1, <1>6, <1>r, <2>1 DEF CtrlResult
<1>10. CoresUnset  BY <1>4, <1>6, OnlyCoreSetsCores
<1>11. host'.out = <<>> /\ host'.coreEn = host.coreEn /\ host'.call = host.call /\ host'.got = host.got
  BY <1>1, <1>4, <1>5 DEF Edge, EdgeOf, HostEdge
<1>12. Flight' = 0
  <2>1. uart'.rx_valid = (uart.rx_left = 1)
        /\ uart'.rx_left = IF starts THEN ByteTime ELSE IF uart.rx_left = 0 THEN 0 ELSE uart.rx_left - 1
    BY <1>4 DEF Edge, EdgeOf, LinesEdge
  <2>2. ~uart'.rx_valid /\ uart'.rx_left = 0  BY <1>2, <1>5, <2>1
  <2>. QED BY <2>2 DEF Flight
<1>13. LinkIdle'  BY <1>1, <1>8, <1>9, <1>10, <1>11, <1>12 DEF LinkIdle, CoresUnset
<1>. QED BY <1>2, <1>4, <1>5, <1>6, <1>8, <1>10, <1>11, <1>13

\* Nothing happens between calls,
LEMMA AtRestStep ==
  ASSUME Types, AtRest, NEW starts \in BOOLEAN, Clock(starts)
  PROVE  Edge(starts) /\ AtRest' /\ Unserved /\ CoresUnset /\ ~uart.rx_valid
<1>1. /\ Edge(starts) /\ LinkIdle' /\ Unserved /\ CoresUnset /\ ~uart.rx_valid /\ ~Acks(ctl) /\ ~Completes(ctl, mst)
      /\ host'.call = host.call /\ host'.got = host.got
  BY IdleStep DEF AtRest
<1>2. uart.tx_left = 0 /\ ctl.wstate = 0 /\ inbox = <<>>  BY DEF AtRest
<1>3. ~GivesByte(ctl, Busy)  BY <1>2 DEF GivesByte
<1>4. ctl'.wstate = 0  BY <1>1, <1>2, <1>3 DEF Edge, EdgeOf, CtrlResult
<1>5. uart'.tx_left = 0 /\ inbox' = <<>>  BY <1>1, <1>2, <1>3 DEF Edge, EdgeOf, LinesEdge
<1>. QED BY <1>1, <1>4, <1>5 DEF AtRest

\* and behind the acknowledge only the rest of the reply is sent.
LEMMA AcknowledgedStep ==
  ASSUME Types, Acknowledged, NEW starts \in BOOLEAN, Clock(starts)
  PROVE  Edge(starts) /\ Acknowledged' /\ Unserved /\ CoresUnset /\ ~uart.rx_valid
<1>1. /\ Edge(starts) /\ LinkIdle' /\ Unserved /\ CoresUnset /\ ~uart.rx_valid /\ ~Acks(ctl) /\ ~Completes(ctl, mst)
      /\ host'.call = host.call
  BY IdleStep DEF Acknowledged
<1>2. starts \in BOOLEAN /\ EdgeOf(starts) /\ Types' /\ Replying /\ served' = served
  BY <1>1 DEF Edge, Acknowledged, Unserved
<1>3. \A i : NextReply(i) = Reply(i)  BY <1>2, ReplySteady
<1>4. Replying' /\ Sent' + ctl'.wstate = Sent + ctl.wstate  BY <1>1, <1>2, <1>3, ReplyingShifts
<1>5. Awaited(host'.call) = Awaited(host.call) /\ AccessesOf(host'.call) = AccessesOf(host.call)  BY <1>1
<1>. QED BY <1>1, <1>2, <1>4, <1>5 DEF Acknowledged

-----------------------------------------------------------------------------
(* The steps of the host.                                                  *)

\* Four bytes of a reply that are a word.
LEMMA WordOf ==
  ASSUME NEW q \in Seq(Byte), NEW i \in Nat, i >= 1, 4 * i <= Len(q), NEW w \in Word,
         \A k \in 1 .. 4 : q[4 * i - 4 + k] = w[k]
  PROVE  SubSeq(q, 4 * i - 3, 4 * i) = w
<1> DEFINE a == 4 * i - 3  b == 4 * i
<1>1. Len(q) \in Nat  OBVIOUS
<1>2. a \in Nat /\ b \in Nat /\ a <= b /\ b - a + 1 = 4 /\ \A j \in a .. b : j \in 1 .. Len(q)  BY <1>1
<1>3. \A k \in 1 .. 4 : a + k - 1 = 4 * i - 4 + k  OBVIOUS
<1>4. \A j \in a .. b : q[j] \in Byte
  <2>1. \A j \in 1 .. Len(q) : q[j] \in Byte  OBVIOUS
  <2>. QED BY <1>2, <2>1
<1> HIDE DEF a, b
<1>5. a \in Int /\ b \in Int  BY <1>2
<1>6. /\ SubSeq(q, a, b) \in Seq(Byte)
      /\ Len(SubSeq(q, a, b)) = IF a <= b THEN b - a + 1 ELSE 0
      /\ \A k \in 1 .. b - a + 1 : SubSeq(q, a, b)[k] = q[a + k - 1]
  BY <1>4, <1>5, SubSeqProperties, SMTT(60)
<1> DEFINE s == SubSeq(q, a, b)
<1>7. s \in Seq(Byte) /\ Len(s) = 4 /\ \A k \in 1 .. 4 : s[k] = q[a + k - 1]  BY <1>2, <1>6
<1> HIDE DEF s
<1>8. s \in [1 .. 4 -> Byte]
  <2>1. s \in [1 .. Len(s) -> Byte]  BY <1>7, SeqIsFunction
  <2>. QED BY <1>7, <2>1
<1>9. \A k \in 1 .. 4 : s[k] = w[k]  BY <1>3, <1>7
<1>10. s = w  BY <1>8, <1>9 DEF Word
<1>. QED BY <1>10 DEF s, a, b

\* The bytes of a reply that has arrived are the words and the command.
LEMMA ReplyArrives ==
  ASSUME Types, Acknowledged, Len(host.got) = Awaited(host.call)
  PROVE  /\ host.got[Len(host.got)] = CmdOf(host.call)
         /\ [i \in 1 .. Len(host.got) \div 4 |-> SubSeq(host.got, 4 * i - 3, 4 * i)] = served.words
         /\ inbox = <<>> /\ uart.tx_left = 0 /\ ctl.wstate = 0
<1> DEFINE c == host.call
           W == served.words
           n == Len(W)
           q == host.got
<1>1. c \in Calls /\ Replying /\ Sent + ctl.wstate = Awaited(c)  BY DEF Acknowledged
<1>2. q \in Seq(Byte) /\ W \in Seq(AnyWord) /\ inbox \in Seq(Byte) /\ ctl.wstate \in 0 .. 4
  BY DEF Types, HostType, ServedType, CtlType
<1>3. n \in Nat /\ Len(inbox) \in Nat  BY <1>2
<1>4. Awaited(c) = 4 * n + 1
  <2>1. n = IF c.op = "read" THEN AccessesOf(c) ELSE 0  BY DEF Acknowledged
  <2>2. CASE c.op = "read"
    <3>1. Transfers(c)  BY <2>2 DEF Transfers
    <3>2. AccessesOf(c) = Size(c)  BY <3>1 DEF AccessesOf
    <3>3. Size(c) = c.size  BY <1>1, <2>2, ReadCall
    <3>. QED BY <2>1, <2>2, <3>2, <3>3 DEF Awaited
  <2>3. CASE c.op # "read"  BY <2>1, <2>3 DEF Awaited
  <2>. QED BY <2>2, <2>3
<1>5. Len(q) = 4 * n + 1 /\ \A i \in 1 .. Len(q) : q[i] = ReplyByte(W, c, i)
  BY <1>1, <1>4 DEF Replying, Reply
<1>6. inbox = <<>> /\ uart.tx_left = 0 /\ ctl.wstate = 0
  <2>1. Sent = Len(q) + Len(inbox) + (IF uart.tx_left # 0 THEN 1 ELSE 0)  BY DEF Sent
  <2> DEFINE t == IF uart.tx_left # 0 THEN 1 ELSE 0
             l == Len(inbox)
             a == Len(q)
  <2>2. t \in 0 .. 1 /\ l \in Nat /\ a \in Nat /\ Sent = a + l + t /\ Sent + ctl.wstate = a
    BY <1>1, <1>2, <1>3, <2>1
  <2>3. a + l + t + ctl.wstate = a  BY <2>2, Zenon
  <2> HIDE DEF t, l, a
  <2>4. l = 0 /\ t = 0 /\ ctl.wstate = 0  BY <1>2, <2>2, <2>3
  <2>. QED BY <1>2, <2>4 DEF l, t
<1> HIDE DEF n, W, q
<1>7. q[Len(q)] = CmdOf(c)
  <2>1. Len(q) \in 1 .. Len(q) /\ ~(4 * n + 1 <= 4 * n)  BY <1>3, <1>5
  <2>2. ReplyByte(W, c, 4 * n + 1) = CmdOf(c)  BY <2>1 DEF ReplyByte, n
  <2>. QED BY <1>5, <2>1, <2>2
<1>8. (4 * n + 1) \div 4 = n
  <2>1. \A k \in Nat : (4 * k + 1) \div 4 = k  BY SMT
  <2>. QED BY <1>3, <2>1
<1>9. \A i \in 1 .. n : SubSeq(q, 4 * i - 3, 4 * i) = W[i]
  <2> SUFFICES ASSUME NEW i \in 1 .. n PROVE SubSeq(q, 4 * i - 3, 4 * i) = W[i]
    OBVIOUS
  <2>1. W[i] \in Word
    <3>1. \A j \in 1 .. Len(W) : W[j] \in AnyWord  BY <1>2 DEF W
    <3>. QED BY <3>1, ZeroIsWord DEF n
  <2>2. \A k \in 1 .. 4 : q[4 * i - 4 + k] = W[i][k]
    <3> SUFFICES ASSUME NEW k \in 1 .. 4 PROVE q[4 * i - 4 + k] = W[i][k]
      OBVIOUS
    <3> DEFINE d == i - 1  j == 4 * d + k
    <3>1. d \in Nat /\ 4 * i - 4 + k = j /\ j \in 1 .. Len(q) /\ j <= 4 * n /\ d + 1 = i  BY <1>3, <1>5
    <3>2. (j + 3) \div 4 = i /\ ((j + 3) % 4) + 1 = k
      <4>1. (4 * d + k + 3) \div 4 = d + 1 /\ (4 * d + k + 3) % 4 = k - 1  BY <3>1, InWord
      <4>. QED BY <3>1, <4>1
    <3> HIDE DEF j
    <3>3. ReplyByte(W, c, j) = W[(j + 3) \div 4][((j + 3) % 4) + 1]  BY <3>1 DEF ReplyByte, n
    <3>. QED BY <1>5, <3>1, <3>2, <3>3
  <2>3. i \in Nat /\ i >= 1 /\ 4 * i <= Len(q)  BY <1>3, <1>5
  <2>4. q \in Seq(Byte)  BY <1>2 DEF q
  <2>. QED BY <2>1, <2>2, <2>3, <2>4, WordOf
<1>10. [i \in 1 .. Len(q) \div 4 |-> SubSeq(q, 4 * i - 3, 4 * i)] = W
  <2>1. W = [i \in 1 .. n |-> W[i]]
    <3>1. W \in [1 .. Len(W) -> AnyWord]  BY <1>2, SeqIsFunction DEF W
    <3>. QED BY <3>1 DEF n
  <2>2. [i \in 1 .. n |-> SubSeq(q, 4 * i - 3, 4 * i)] = [i \in 1 .. n |-> W[i]]  BY <1>9
  <2>3. Len(q) \div 4 = n  BY <1>5, <1>8
  <2>. QED BY <2>1, <2>2, <2>3
<1>. QED BY <1>6, <1>7, <1>10 DEF q, W

\* While a call is under way the reply is not complete.
LEMMA ReplyIsMissing ==
  ASSUME Types, UnderWay
  PROVE  Len(host.got) < Awaited(host.call)
<1> DEFINE c == host.call
<1>1. c \in Calls /\ Sent + ctl.wstate = Produced /\ Commanded  BY DEF UnderWay
<1>2. Sent \in Nat /\ Len(host.got) <= Sent /\ ctl.wstate \in 0 .. 4  BY SentIsNat DEF Types, CtlType
<1>3. Len(host.got) \in Nat
  <2>1. host.got \in Seq(Byte)  BY DEF Types, HostType
  <2>. QED BY <2>1
<1>4. CASE c.op = "read" /\ ctl.state \in {ST_READ, ST_ACK}
  <2>1. Transfers(c) /\ Size(c) = c.size  BY <1>1, <1>4, ReadCall DEF Transfers
  <2>2. Size(c) \in Nat  BY <1>1, <2>1, TransferSize
  <2>3. ctl.len \in Nat /\ ctl.len <= Size(c)  BY <1>1, <1>4, <2>1, <2>2 DEF Commanded
  <2>4. Produced = 4 * (Size(c) - ctl.len) /\ Awaited(c) = 4 * Size(c) + 1  BY <1>4, <2>1 DEF Produced, Awaited
  <2>5. Produced < Awaited(c) /\ Produced \in Nat /\ Awaited(c) \in Nat  BY <2>2, <2>3, <2>4
  <2>. QED BY <1>1, <1>2, <1>3, <2>5
<1>5. CASE ~(c.op = "read" /\ ctl.state \in {ST_READ, ST_ACK})
  <2>1. Produced = 0  BY <1>5 DEF Produced
  <2>2. Awaited(c) \in Nat /\ Awaited(c) >= 1
    <3>1. CASE c.op = "read"
      <4>1. Transfers(c) /\ Size(c) = c.size  BY <1>1, <3>1, ReadCall DEF Transfers
      <4>2. Size(c) \in Nat  BY <1>1, <4>1, TransferSize
      <4>. QED BY <3>1, <4>1, <4>2 DEF Awaited
    <3>2. CASE c.op # "read"  BY <3>2 DEF Awaited
    <3>. QED BY <3>1, <3>2
  <2>3. Len(host.got) = 0  BY <1>1, <1>2, <1>3, <2>1
  <2>. QED BY <2>2, <2>3
<1>. QED BY <1>4, <1>5

\* coreEn_ after a call.
LEMMA CoreEnIsAfter ==
  ASSUME Types, NEW c \in Calls
  PROVE  CoreEn(c) = After(host.coreEn, c) /\ CoreEn(c) \in SUBSET (0 .. 3)
<1>1. host.coreEn \in SUBSET (0 .. 3)  BY DEF Types, HostType
<1>2. c.op \in CoreOps => c.mask \in SUBSET (0 .. 3)  BY CoreCall
<1>3. CASE c.op = "enable"  BY <1>1, <1>2, <1>3 DEF CoreEn, After, CoreOps
<1>4. CASE c.op = "select"  BY <1>1, <1>2, <1>4 DEF CoreEn, After, CoreOps
<1>5. CASE c.op \in {"disable", "reset"}  BY <1>1, <1>2, <1>5 DEF CoreEn, After, CoreOps
<1>6. CASE c.op \notin CoreOps
  <2>1. c.op # "enable" /\ c.op # "select" /\ c.op \notin {"disable", "reset"}  BY <1>6 DEF CoreOps
  <2>. QED BY <1>1, <2>1 DEF CoreEn, After
<1>. QED BY <1>3, <1>4, <1>5, <1>6 DEF CoreOps

\* A call begins on an idle link.
LEMMA BeginStep ==
  ASSUME Types, AtRest, HostBegin
  PROVE  /\ Types' /\ UnderWay'
         /\ served'.count = 0 /\ served'.words = <<>> /\ host'.call \in Calls /\ host'.ok = host.ok
<1>0. /\ uart' = uart /\ inbox' = inbox /\ ctl' = ctl /\ mst' = mst /\ bus' = bus /\ mem' = mem
      /\ served' = [count |-> 0, words |-> <<>>]
  BY DEF HostBegin
<1>1. PICK c \in Calls :
        host' = [host EXCEPT !.call = c, !.out = Request(c), !.got = <<>>, !.coreEn = CoreEn(c)]
  BY DEF HostBegin
<1> DEFINE en == CoreEn(c)
           R == Request(c)
<1>2. en = After(host.coreEn, c) /\ en \in SUBSET (0 .. 3)  BY CoreEnIsAfter
<1>3. /\ R \in Seq(Byte) /\ Len(R) = RequestLen(c)
      /\ \A i \in 1 .. RequestLen(c) : R[i] = RequestByte(c, en, i)
  BY <1>2, RequestIs
<1> HIDE DEF en, R
<1>4. host \in HostType  BY DEF Types
<1>5. /\ host'.call = c /\ host'.out = R /\ host'.got = <<>> /\ host'.coreEn = en /\ host'.ok = host.ok
      /\ host' \in HostType
  <2> DEFINE none == <<>>
  <2>1. host' = [host EXCEPT !.call = c, !.out = R, !.got = none, !.coreEn = en]  BY <1>1 DEF en, R
  <2>2. none \in Seq(Byte)  OBVIOUS
  <2> HIDE DEF none
  <2>3. /\ host'.call = c /\ host'.out = R /\ host'.got = none /\ host'.coreEn = en /\ host'.ok = host.ok
        /\ host' \in HostType
    BY <1>2, <1>3, <1>4, <2>1, <2>2 DEF HostType
  <2>. QED BY <2>3 DEF none
<1>6. served' \in ServedType /\ served'.count = 0 /\ served'.words = <<>>  BY <1>0 DEF ServedType
<1>7. Types'  BY <1>0, <1>5, <1>6 DEF Types
<1>8. LinkIdle /\ host.got = <<>> /\ inbox = <<>> /\ uart.tx_left = 0 /\ ctl.wstate = 0  BY DEF AtRest
<1>9. ctl.state = ST_IDLE /\ ctl.rstate = 0 /\ NoAccess /\ host.coreEn = ctl.core_en
  BY <1>8 DEF LinkIdle
<1>10. uart.rx_left = 0 /\ ~uart.rx_valid
  <2>1. Flight = 0  BY <1>8 DEF LinkIdle
  <2>. QED BY <2>1 DEF Flight
<1>v. StateValues  BY StatesDiffer
<1>n. ctl.state \notin {ST_ADDR, ST_LEN, ST_DISPATCH, ST_READ, ST_WRITE, ST_CORE, ST_PING, ST_ACK}
  BY <1>9, <1>v DEF StateValues
<1>11. RequestLen(c) \in Nat  BY RequestLenIsNat
<1>12. OnItsWay' = RequestLen(c) /\ LastSent' = 0
  <2>1. Flight' = 0  BY <1>0, <1>10 DEF Flight
  <2>. QED BY <1>3, <1>5, <1>11, <2>1 DEF OnItsWay, LastSent
<1>13. Sending'
  <2>1. \A i \in 1 .. Len(host'.out) : host'.out[i] = RequestByte(host'.call, host'.coreEn, LastSent' + i)
    <3> SUFFICES ASSUME NEW i \in 1 .. RequestLen(c)
                 PROVE  R[i] = RequestByte(c, en, LastSent' + i)
      BY <1>3, <1>5
    <3>1. LastSent' + i = i  BY <1>11, <1>12
    <3>. QED BY <1>3, <3>1
  <2>2. OnItsWay' <= RequestLen(host'.call)  BY <1>5, <1>11, <1>12
  <2>. QED BY <1>0, <1>10, <2>1, <2>2 DEF Sending, Req
<1>14. Receiving'
  <2>1. Used' = 0  BY <1>0, <1>9, UsedNext
  <2>2. Used' + ctl'.rstate + OnItsWay' = RequestLen(host'.call)  BY <1>0, <1>5, <1>9, <1>11, <1>12, <2>1
  <2>3. 1 .. ctl'.rstate = {}  BY <1>0, <1>9
  <2>. QED BY <2>2, <2>3 DEF Receiving
<1>15. UsedInTime' /\ WrittenInTime'
  <2>1. ~Full'  BY <1>0, <1>9, <1>n DEF Full
  <2>. QED BY <1>0, <1>n, <2>1 DEF UsedInTime, WrittenInTime
<1>16. Commanded'  BY <1>0, <1>9, <1>v DEF Commanded, States, StateValues
<1>17. Accessing'
  <2>1. NoAccess'  BY <1>0, <1>9 DEF NoAccess
  <2>. QED BY <2>1 DEF Accessing
<1>18. Serving'
  <2>1. Len(served'.words) = 0  BY <1>6
  <2>. QED BY <1>0, <1>6, <1>n, <2>1 DEF Serving
<1>19. Sent' = 0 /\ Produced' = 0 /\ ctl'.wstate = 0  BY <1>0, <1>5, <1>8, <1>n DEF Sent, Produced
<1>20. Replying'
  <2>1. Len(host'.got) = 0 /\ Len(inbox') = 0 /\ ctl'.wstate = 0 /\ uart'.tx_left = 0  BY <1>0, <1>5, <1>8
  <2>. QED BY <2>1 DEF Replying
<1>21. CoresFollow'  BY <1>0, <1>2, <1>5, <1>9, <1>n DEF CoresFollow
<1>22. UnderWay'
  BY <1>5, <1>13, <1>14, <1>15, <1>16, <1>17, <1>18, <1>19, <1>20, <1>21 DEF UnderWay
<1>. QED BY <1>5, <1>6, <1>7, <1>22

\* What the host reads is only moved.
LEMMA ReadsMoves ==
  ASSUME Types, Replying, HostReads
  PROVE  /\ Types' /\ Replying' /\ Sent' = Sent
         /\ uart' = uart /\ ctl' = ctl /\ mst' = mst /\ bus' = bus /\ mem' = mem /\ served' = served
         /\ host'.call = host.call /\ host'.out = host.out /\ host'.coreEn = host.coreEn
         /\ host'.ok = host.ok /\ host'.data = host.data
<1>0. /\ uart' = uart /\ ctl' = ctl /\ mst' = mst /\ bus' = bus /\ mem' = mem /\ served' = served
      /\ inbox # <<>> /\ inbox' = Tail(inbox) /\ host' = [host EXCEPT !.got = Append(host.got, Head(inbox))]
  BY DEF HostReads
<1>1. host \in HostType /\ host.got \in Seq(Byte) /\ inbox \in Seq(Byte)  BY DEF Types, HostType
<1> DEFINE g == Append(host.got, Head(inbox))
           G == Len(host.got)
           I == Len(inbox)
<1>2. I \in Nat /\ I > 0 /\ G \in Nat  BY <1>0, <1>1
<1>3. /\ inbox' \in Seq(Byte) /\ Len(inbox') = I - 1
      /\ \A i \in 1 .. I - 1 : inbox'[i] = inbox[i + 1]
      /\ Head(inbox) \in Byte /\ Head(inbox) = inbox[1]
  BY <1>0, <1>1, <1>2, TailIs
<1>4. /\ g \in Seq(Byte) /\ Len(g) = G + 1
      /\ \A i \in 1 .. G : g[i] = host.got[i]
      /\ g[G + 1] = inbox[1]
  BY <1>1, <1>3, AppendIs
<1> HIDE DEF g
<1>5. /\ host'.call = host.call /\ host'.out = host.out /\ host'.coreEn = host.coreEn
      /\ host'.ok = host.ok /\ host'.data = host.data /\ host'.got = g /\ host' \in HostType
  <2>1. host' = [host EXCEPT !.got = g]  BY <1>0 DEF g
  <2>. QED BY <1>1, <1>4, <2>1 DEF HostType
<1>6. Types'  BY <1>0, <1>3, <1>5 DEF Types
<1>7. /\ \A i \in 1 .. G : host.got[i] = Reply(i)
      /\ \A i \in 1 .. I : inbox[i] = Reply(G + i)
      /\ uart.tx_left # 0 => uart.tx_byte = Reply(Sent)
      /\ \A i \in 1 .. ctl.wstate : ctl.wdata[i] = Reply(Sent + i)
  BY DEF Replying
<1>8. \A i : NextReply(i) = Reply(i)  BY <1>0, <1>5 DEF NextReply, Reply
<1>9. Sent' = Sent
  <2> DEFINE t == IF uart.tx_left # 0 THEN 1 ELSE 0
  <2>1. t \in Nat /\ Sent = G + I + t  BY DEF Sent
  <2>2. Sent' = Len(g) + Len(inbox') + t  BY <1>0, <1>5 DEF Sent
  <2> HIDE DEF t, G, I
  <2>. QED BY <1>2, <1>3, <1>4, <2>1, <2>2
<1> HIDE DEF G, I
<1>10. \A i \in 1 .. Len(g) : g[i] = Reply(i)
  <2> SUFFICES ASSUME NEW i \in 1 .. G + 1 PROVE g[i] = Reply(i)  BY <1>4
  <2>1. CASE i \in 1 .. G  BY <1>4, <1>7, <2>1
  <2>2. CASE i = G + 1
    <3>1. 1 \in 1 .. I  BY <1>2
    <3>. QED BY <1>4, <1>7, <2>2, <3>1
  <2>. QED BY <1>2, <2>1, <2>2
<1>11. \A i \in 1 .. Len(inbox') : inbox'[i] = Reply(Len(g) + i)
  <2> SUFFICES ASSUME NEW i \in 1 .. I - 1 PROVE inbox'[i] = Reply(Len(g) + i)  BY <1>3
  <2>1. i + 1 \in 1 .. I /\ G + (i + 1) = Len(g) + i  BY <1>2, <1>4
  <2>2. inbox[i + 1] = Reply(G + (i + 1))  BY <1>7, <2>1
  <2>. QED BY <1>3, <2>1, <2>2
<1>12. Replying'
  <2>1. \A i \in 1 .. Len(host'.got) : host'.got[i] = NextReply(i)  BY <1>5, <1>8, <1>10
  <2>2. \A i \in 1 .. Len(inbox') : inbox'[i] = NextReply(Len(host'.got) + i)  BY <1>5, <1>8, <1>11
  <2>3. uart'.tx_left # 0 => uart'.tx_byte = NextReply(Sent')  BY <1>0, <1>7, <1>8, <1>9
  <2>4. \A i \in 1 .. ctl'.wstate : ctl'.wdata[i] = NextReply(Sent' + i)  BY <1>0, <1>7, <1>8, <1>9
  <2>. QED BY <2>1, <2>2, <2>3, <2>4 DEF Replying, Reply, NextReply
<1>. QED BY <1>0, <1>5, <1>6, <1>9, <1>12

\* The host may read at any time.
LEMMA UnderWayReads ==
  ASSUME Types, UnderWay, HostReads
  PROVE  Types' /\ UnderWay'
<1>1. /\ Types' /\ Replying' /\ Sent' = Sent
      /\ uart' = uart /\ ctl' = ctl /\ mst' = mst /\ bus' = bus /\ mem' = mem /\ served' = served
      /\ host'.call = host.call /\ host'.out = host.out /\ host'.coreEn = host.coreEn
  BY ReadsMoves DEF UnderWay
<1>2. Sending'  BY <1>1 DEF UnderWay, Sending, OnItsWay, Flight, LastSent, Req
<1>3. OnItsWay' = OnItsWay /\ Used' = Used  BY <1>1 DEF OnItsWay, Flight, Used
<1>4. Receiving'  BY <1>1, <1>3 DEF UnderWay, Receiving, Req
<1>5. UsedInTime' /\ WrittenInTime'  BY <1>1 DEF UnderWay, UsedInTime, WrittenInTime, Full, ToGo
<1>6. Commanded'  BY <1>1 DEF UnderWay, Commanded
<1>7. Accessing'
  <2>1. NoAccess' <=> NoAccess  BY <1>1 DEF NoAccess
  <2>2. (wb_re(ctl))' <=> wb_re(ctl)  BY <1>1 DEF wb_re
  <2>3. (wb_we(ctl))' <=> wb_we(ctl)  BY <1>1 DEF wb_we
  <2>4. Asked' <=> Asked  BY <1>1 DEF Asked, OneWord, wb_we
  <2>5. Accepted' <=> Accepted  BY <1>1 DEF Accepted, OneWord, wb_we
  <2>6. Answered' <=> Answered  BY <1>1 DEF Answered, wb_re
  <2>. QED BY <2>1, <2>2, <2>3, <2>4, <2>5, <2>6 DEF UnderWay, Accessing
<1>8. Serving'  BY <1>1 DEF UnderWay, Serving, AlreadyServed
<1>9. Sent' + ctl'.wstate = Produced'  BY <1>1 DEF UnderWay, Produced
<1>10. CoresFollow'  BY <1>1 DEF UnderWay, CoresFollow
<1>11. host'.call \in Calls  BY <1>1 DEF UnderWay
<1>. QED BY <1>1, <1>2, <1>4, <1>5, <1>6, <1>7, <1>8, <1>9, <1>10, <1>11 DEF UnderWay

LEMMA AcknowledgedReads ==
  ASSUME Types, Acknowledged, HostReads
  PROVE  Types' /\ Acknowledged'
<1>1. /\ Types' /\ Replying' /\ Sent' = Sent
      /\ uart' = uart /\ ctl' = ctl /\ mst' = mst /\ bus' = bus /\ mem' = mem /\ served' = served
      /\ host'.call = host.call /\ host'.out = host.out /\ host'.coreEn = host.coreEn
  BY ReadsMoves DEF Acknowledged
<1>2. LinkIdle'  BY <1>1 DEF Acknowledged, LinkIdle, Flight, NoAccess
<1>3. host'.call \in Calls /\ served'.count = AccessesOf(host'.call)
      /\ Len(served'.words) = (IF host'.call.op = "read" THEN served'.count ELSE 0)
      /\ Sent' + ctl'.wstate = Awaited(host'.call)
  BY <1>1 DEF Acknowledged
<1>. QED BY <1>1, <1>2, <1>3 DEF Acknowledged

\* When the host has all bytes of the reply it reports success, has the words that were
\* read, and the link is idle.
LEMMA ReturnStep ==
  ASSUME Types, Acknowledged, HostReturns
  PROVE  /\ Types' /\ AtRest'
         /\ host'.ok = TRUE /\ host'.data = served.words
<1>0. /\ uart' = uart /\ inbox' = inbox /\ ctl' = ctl /\ mst' = mst /\ bus' = bus /\ mem' = mem
      /\ served' = served /\ Len(host.got) = Awaited(host.call)
  BY DEF HostReturns
<1>1. /\ host.got[Len(host.got)] = CmdOf(host.call)
      /\ [i \in 1 .. Len(host.got) \div 4 |-> SubSeq(host.got, 4 * i - 3, 4 * i)] = served.words
      /\ inbox = <<>> /\ uart.tx_left = 0 /\ ctl.wstate = 0
  BY <1>0, ReplyArrives
<1> DEFINE none == <<>>
           good == host.got[Len(host.got)] = CmdOf(host.call)
<1>2. none \in Seq(Byte) /\ good = TRUE  BY <1>1
<1>3. host' = [host EXCEPT !.call = NoCall, !.got = none, !.ok = good, !.data = served.words]
  BY <1>1 DEF HostReturns
<1> HIDE DEF none, good
<1>4. host \in HostType /\ served.words \in Seq(AnyWord)  BY DEF Types, ServedType
<1>5. /\ host'.call = NoCall /\ host'.got = none /\ host'.ok = TRUE /\ host'.data = served.words
      /\ host'.out = host.out /\ host'.coreEn = host.coreEn /\ host' \in HostType
  BY <1>2, <1>3, <1>4 DEF HostType
<1>6. Types'  BY <1>0, <1>5 DEF Types
<1>7. LinkIdle'  BY <1>0, <1>5 DEF Acknowledged, LinkIdle, Flight, NoAccess
<1>8. AtRest'  BY <1>0, <1>1, <1>5, <1>7 DEF AtRest, none
<1>. QED BY <1>5, <1>6, <1>8

-----------------------------------------------------------------------------
(* The invariant.                                                          *)

\* The invariant holds at first,
LEMMA InitHolds == Init => LinkInv
<1> SUFFICES ASSUME Init PROVE LinkInv
  OBVIOUS
<1> DEFINE none == <<>>  zero == 0  blank == Zero
<1>1. /\ host = [call |-> NoCall, out |-> none, got |-> none, coreEn |-> {}, ok |-> FALSE, data |-> none]
      /\ uart = [rx_valid |-> FALSE, rx_data |-> zero, rx_left |-> zero, rx_byte |-> zero,
                 tx_left |-> zero, tx_byte |-> zero]
      /\ inbox = none /\ ctl = CtrlReset /\ mst = MasterReset(blank)
      /\ bus = [busy |-> FALSE, we |-> FALSE, adr |-> zero, dat |-> blank, waited |-> zero]
      /\ mem = [a \in Adrs |-> blank]
      /\ served = [count |-> zero, words |-> none]
  BY DEF Init
<1>2. /\ none \in Seq(Byte) /\ none \in Seq(AnyWord) /\ zero \in Byte /\ zero \in Nat /\ zero \in 0 .. MaxWait
      /\ zero \in 0 .. 4
  BY Times DEF Byte
<1>3. blank \in Word /\ blank \in AnyWord  BY ZeroIsWord DEF AnyWord
<1>4. ctl = [state |-> ST_IDLE, cmd |-> zero, addr |-> zero, len |-> zero,
             rdata |-> blank, rstate |-> zero, wdata |-> blank, wstate |-> zero,
             core_en |-> {}, core_reset_n |-> {}]
  BY <1>1 DEF CtrlReset
<1>5. mst = [state |-> "ST_IDLE", adr |-> zero, dat |-> blank, we |-> FALSE, stb |-> FALSE,
             cyc |-> FALSE, count |-> zero, count_ack |-> zero, mask |-> zero,
             dready_rd |-> FALSE, dout |-> blank, complete |-> FALSE, err |-> FALSE]
  BY <1>1 DEF MasterReset
<1>6. ST_IDLE \in Nat /\ zero \in 0 .. CountValues - 1  BY StatesDiffer DEF StateValues, CountValues
<1> HIDE DEF none, zero, blank
<1>7. host \in HostType  BY <1>1, <1>2 DEF HostType
<1>8. uart \in UartType  BY <1>1, <1>2 DEF UartType
<1>9. ctl \in CtlType  BY <1>2, <1>3, <1>4, <1>6 DEF CtlType
<1>10. mst \in MasterRegs(Nat, Word) /\ mst.dout \in AnyWord  BY <1>2, <1>3, <1>5, <1>6 DEF MasterRegs
<1>11. bus \in BusType  BY <1>1, <1>2, <1>3 DEF BusType
<1>12. mem \in [Adrs -> AnyWord] /\ served \in ServedType /\ inbox \in Seq(Byte)
  BY <1>1, <1>2, <1>3 DEF ServedType
<1>13. Types  BY <1>7, <1>8, <1>9, <1>10, <1>11, <1>12 DEF Types
<1>14. host.call = NoCall /\ host.out = none /\ host.got = none /\ host.coreEn = {} /\ inbox = none  BY <1>1
<1>15. uart.rx_left = zero /\ uart.rx_valid = FALSE /\ uart.tx_left = zero  BY <1>1
<1>16. ctl.state = ST_IDLE /\ ctl.rstate = zero /\ ctl.wstate = zero /\ ctl.core_en = {}  BY <1>4
<1>17. mst.state = "ST_IDLE" /\ mst.stb = FALSE /\ mst.complete = FALSE  BY <1>5
<1>18. bus.busy = FALSE /\ bus.waited = zero  BY <1>1
<1>19. NoAccess  BY <1>17, <1>18 DEF NoAccess, zero
<1>20. LinkIdle  BY <1>14, <1>15, <1>16, <1>19 DEF LinkIdle, Flight, zero, none
<1>21. AtRest  BY <1>14, <1>15, <1>16, <1>20 DEF AtRest, zero, none
<1>. QED BY <1>13, <1>21 DEF LinkInv

\* The three parts of the invariant and the call.
LEMMA CallOrNone == (AtRest => host.call = NoCall) /\ (UnderWay \/ Acknowledged => host.call # NoCall)
BY CallKinds DEF AtRest, UnderWay, Acknowledged

\* Nothing changes.
LEMMA StutterKeeps ==
  ASSUME LinkInv, UNCHANGED vars
  PROVE  LinkInv'
<1>0. /\ host' = host /\ uart' = uart /\ inbox' = inbox /\ ctl' = ctl /\ mst' = mst /\ bus' = bus
      /\ mem' = mem /\ served' = served
  BY DEF vars
<1>1. Types'  BY <1>0 DEF LinkInv, Types
<1>2. LinkIdle => LinkIdle'  BY <1>0 DEF LinkIdle, Flight, NoAccess
<1>3. Sent' = Sent /\ Produced' = Produced  BY <1>0 DEF Sent, Produced
<1>4. Replying => Replying'  BY <1>0, <1>3 DEF Replying, Reply
<1>5. AtRest => AtRest'  BY <1>0, <1>2 DEF AtRest
<1>6. Acknowledged => Acknowledged'  BY <1>0, <1>2, <1>3, <1>4 DEF Acknowledged
<1>7. ASSUME UnderWay PROVE UnderWay'
  <2>1. Sending'  BY <1>0, <1>7 DEF UnderWay, Sending, OnItsWay, Flight, LastSent, Req
  <2>2. OnItsWay' = OnItsWay /\ Used' = Used  BY <1>0 DEF OnItsWay, Flight, Used
  <2>3. Receiving'  BY <1>0, <1>7, <2>2 DEF UnderWay, Receiving, Req
  <2>4. UsedInTime' /\ WrittenInTime'  BY <1>0, <1>7 DEF UnderWay, UsedInTime, WrittenInTime, Full, ToGo
  <2>5. Commanded' /\ Serving' /\ CoresFollow'
    BY <1>0, <1>7 DEF UnderWay, Commanded, Serving, AlreadyServed, CoresFollow
  <2>6. Accessing'
    BY <1>0, <1>7 DEF UnderWay, Accessing, NoAccess, Asked, Accepted, Answered, OneWord, wb_re, wb_we
  <2>. QED BY <1>0, <1>3, <1>4, <1>7, <2>1, <2>3, <2>4, <2>5, <2>6 DEF UnderWay
<1>. QED BY <1>1, <1>5, <1>6, <1>7 DEF LinkInv

\* A call returns only when it is acknowledged.
LEMMA ReturnsAcknowledged ==
  ASSUME Types, AtRest \/ UnderWay \/ Acknowledged, HostReturns
  PROVE  Acknowledged
<1>1. ~AtRest  BY CallOrNone DEF HostReturns
<1>2. ASSUME UnderWay PROVE FALSE
  <2>1. Len(host.got) < Awaited(host.call)  BY <1>2, ReplyIsMissing
  <2>2. Len(host.got) = Awaited(host.call)  BY DEF HostReturns
  <2>3. Len(host.got) \in Nat
    <3>1. host.got \in Seq(Byte)  BY DEF Types, HostType
    <3>. QED BY <3>1
  <2> DEFINE g == Len(host.got)
  <2>4. g \in Nat /\ g < g  BY <2>1, <2>2, <2>3
  <2> HIDE DEF g
  <2>. QED BY <2>4
<1>. QED BY <1>1, <1>2

\* and every step keeps it.
LEMMA Inductive == Spec => []LinkInv
<1>1. LinkInv /\ [Next]_vars => LinkInv'
  <2> SUFFICES ASSUME LinkInv, [Next]_vars PROVE LinkInv'
    OBVIOUS
  <2>0. Types /\ (AtRest \/ UnderWay \/ Acknowledged)  BY DEF LinkInv
  <2>1. CASE HostBegin
    <3>1. AtRest  BY <2>0, <2>1, CallOrNone DEF HostBegin
    <3>. QED BY <2>0, <2>1, <3>1, BeginStep DEF LinkInv
  <2>2. CASE HostReads
    <3>1. UnderWay \/ Acknowledged  BY <2>0, <2>2, CallOrNone DEF HostReads
    <3>. QED BY <2>0, <2>2, <3>1, UnderWayReads, AcknowledgedReads DEF LinkInv
  <2>3. CASE HostReturns
    <3>1. Acknowledged  BY <2>0, <2>3, ReturnsAcknowledged
    <3>. QED BY <2>0, <2>3, <3>1, ReturnStep DEF LinkInv
  <2>4. ASSUME NEW starts \in BOOLEAN, Clock(starts)
        PROVE  LinkInv'
    <3>1. ASSUME Edge(starts) PROVE Types'  BY <3>1 DEF Edge
    <3>2. AtRest => LinkInv'  BY <2>0, <2>4, <3>1, AtRestStep DEF LinkInv
    <3>3. Acknowledged => LinkInv'  BY <2>0, <2>4, <3>1, AcknowledgedStep DEF LinkInv
    <3>4. UnderWay => LinkInv'  BY <2>0, <2>4, <3>1, UnderWayStep DEF LinkInv
    <3>. QED BY <2>0, <3>2, <3>3, <3>4
  <2>5. CASE UNCHANGED vars  BY <2>5, StutterKeeps
  <2>. QED BY <2>1, <2>2, <2>3, <2>4, <2>5 DEF Next
<1>. QED BY InitHolds, <1>1, PTL DEF Spec

\* No byte arrives while the controller cannot take it: whenever the receiver
\* has a byte, rdata has room for it, for every speed of the line that is slower
\* than the longest access of the bus.
THEOREM BytesTaken == Spec => NoByteIsDropped
<1>1. LinkInv /\ [Next]_vars
        => [uart.rx_valid /\ uart' # uart => ctl'.rstate = ctl.rstate + 1 /\ ctl'.rdata[4] = uart.rx_data]_vars
  <2> SUFFICES ASSUME LinkInv, Next, uart.rx_valid, uart' # uart
               PROVE  ctl'.rstate = ctl.rstate + 1 /\ ctl'.rdata[4] = uart.rx_data
    OBVIOUS
  <2>0. Types /\ (AtRest \/ UnderWay \/ Acknowledged)  BY DEF LinkInv
  <2>1. PICK starts \in BOOLEAN : Clock(starts)  BY DEF Next, HostBegin, HostReads, HostReturns
  <2>2. UnderWay  BY <2>0, <2>1, AtRestStep, AcknowledgedStep
  <2>3. Edge(starts)  BY <2>0, <2>1, <2>2, UnderWayStep
  <2>4. ~Uses(ctl) /\ ctl.rstate # 4  BY <2>0, <2>2, ByteHasRoom DEF UnderWay
  <2>5. TakesByte(ctl, Rx) /\ ~wb_we(ctl)  BY <2>4 DEF TakesByte, Rx, wb_we
  <2>6. ctl'.rstate = ctl.rstate + 1 /\ ctl'.rdata = ShiftIn(ctl.rdata, uart.rx_data)
    BY <2>3, <2>4, <2>5 DEF Edge, EdgeOf, CtrlResult, Rx
  <2>7. ctl.rdata \in Word /\ uart.rx_data \in Byte  BY <2>0 DEF Types, CtlType, UartType
  <2>8. ctl'.rdata[4] = uart.rx_data  BY <2>6, <2>7, ShiftInIs
  <2>. QED BY <2>6, <2>8
<1>. QED BY <1>1, Inductive, PTL DEF Spec, NoByteIsDropped

-----------------------------------------------------------------------------
(* The abstract steps.                                                     *)

TheWords == IF host.call = NoCall THEN host.data ELSE served.words
TheCores == [en |-> ctl.core_en, reset_n |-> ctl.core_reset_n]

\* An edge while a call is under way is a step of the service, or none.
LEMMA EdgeRefines ==
  ASSUME Types, UnderWay, NEW starts, Edge(starts), Progress
  PROVE  Service!Next \/ UNCHANGED Service!vars
<1> DEFINE c == host.call
<1>1. host'.call = c /\ host'.ok = host.ok /\ host'.data = host.data  BY DEF Edge, EdgeOf, HostEdge
<1>2. c \in Calls /\ c # NoCall  BY CallOrNone DEF UnderWay
<1>3. TheWords = served.words /\ TheWords' = served'.words  BY <1>1, <1>2 DEF TheWords
<1>4. CoresUnset => TheCores' = TheCores  BY DEF CoresUnset, TheCores
<1>5. DOMAIN mem = Adrs  BY DEF Types
<1>6. CASE Unserved /\ CoresUnset
  <2>1. TheWords' = TheWords /\ TheCores' = TheCores /\ mem' = mem /\ served'.count = served.count
    BY <1>3, <1>4, <1>6 DEF Unserved
  <2>2. UNCHANGED Service!vars  BY <1>1, <2>1 DEF Service!vars, TheWords, TheCores
  <2>. QED BY <2>2
<1>7. CASE WordRead /\ CoresUnset
  <2>1. TheCores' = TheCores  BY <1>4, <1>7
  <2>2. PICK w \in AnyWord : /\ c.addr + served.count \in Adrs => w = mem[c.addr + served.count]
                             /\ served'.words = Append(served.words, w)
    BY <1>7 DEF WordRead
  <2>3. c.op = "read" /\ served.count < c.size /\ mem' = mem /\ served'.count = served.count + 1
    <3>1. c.op = "read" /\ served.count < Size(c) /\ mem' = mem /\ served'.count = served.count + 1
      BY <1>7 DEF WordRead
    <3>. QED BY <1>2, <3>1, ReadCall
  <2>4. TheWords' = Append(TheWords, w)  BY <1>3, <2>2
  <2>5. w \in IF Service!Here \in DOMAIN mem THEN {mem[Service!Here]} ELSE Words \cup {Zero}
    BY <1>5, <2>2 DEF Service!Here, AnyWord
  <2>6. Service!ReadWord  BY <1>1, <2>1, <2>3, <2>4, <2>5 DEF Service!ReadWord, TheWords, TheCores
  <2>. QED BY <2>6 DEF Service!Next
<1>8. CASE WordWritten /\ CoresUnset
  <2>1. TheCores' = TheCores /\ TheWords' = TheWords  BY <1>3, <1>4, <1>8 DEF WordWritten
  <2>2. c.op = "write" /\ served.count < Len(c.data) /\ served'.count = served.count + 1
    <3>1. c.op = "write" /\ served.count < Size(c) /\ served'.count = served.count + 1
      BY <1>8 DEF WordWritten
    <3>. QED BY <1>2, <3>1, WriteCall
  <2>3. mem' = IF Service!Here \in DOMAIN mem
                 THEN [mem EXCEPT ![Service!Here] = c.data[served.count + 1]] ELSE mem
    BY <1>5, <1>8 DEF WordWritten, Service!Here
  <2>4. Service!WriteWord  BY <1>1, <2>1, <2>2, <2>3 DEF Service!WriteWord, TheWords, TheCores
  <2>. QED BY <2>4 DEF Service!Next
<1>9. CASE mem' = mem /\ CoresSet
  <2>1. /\ c.op \in CoreOps /\ served.count = 0 /\ served'.count = 1 /\ served'.words = served.words
        /\ TheCores' = [en |-> After(ctl.core_en, c),
                        reset_n |-> (0 .. 3) \ (IF c.op = "reset" THEN c.mask ELSE {})]
    BY <1>9 DEF CoresSet, TheCores
  <2>2. Service!Enabled = After(ctl.core_en, c)
    <3>1. CASE c.op = "enable"  BY <3>1 DEF Service!Enabled, After
    <3>2. CASE c.op = "select"  BY <3>2 DEF Service!Enabled, After
    <3>3. CASE c.op \in {"disable", "reset"}  BY <3>3 DEF Service!Enabled, After
    <3>. QED BY <2>1, <3>1, <3>2, <3>3 DEF CoreOps
  <2>3. c.op \in Service!CoreOps  BY <2>1 DEF CoreOps, Service!CoreOps
  <2>4. Service!SetCores
    BY <1>1, <1>3, <1>9, <2>1, <2>2, <2>3 DEF Service!SetCores, TheWords, TheCores
  <2>. QED BY <2>4 DEF Service!Next
<1>. QED BY <1>6, <1>7, <1>8, <1>9 DEF Progress

\* The service counts the accesses of a call in the same way.
LEMMA AccessesAgree ==
  ASSUME NEW c \in Calls, host.call = c
  PROVE  Service!Accesses = AccessesOf(c)
<1>1. CASE c.op = "write"
  <2>1. Size(c) = Len(c.data)  BY <1>1, WriteCall
  <2>. QED BY <1>1, <2>1 DEF Service!Accesses, AccessesOf, Transfers, Service!CoreOps
<1>2. CASE c.op = "read"
  <2>1. Size(c) = c.size  BY <1>2, ReadCall
  <2>. QED BY <1>2, <2>1 DEF Service!Accesses, AccessesOf, Transfers, Service!CoreOps
<1>3. CASE c.op \in CoreOps
  BY <1>3 DEF Service!Accesses, AccessesOf, Transfers, CoreOps, Service!CoreOps
<1>4. CASE c.op = "ping"
  BY <1>4 DEF Service!Accesses, AccessesOf, Transfers, Service!CoreOps
<1>. QED BY <1>1, <1>2, <1>3, <1>4, CallKinds

\* The calls of SystemControl do what DebugService says: over the UART, the
\* controller and the bus, exactly the accesses of a call happen, in order, and
\* when it returns it reports success and hands over the words that were read.
THEOREM Refinement == Spec => ImplementsService
<1>1. Init => Service!Init
  <2> SUFFICES ASSUME Init PROVE Service!Init
    OBVIOUS
  <2>1. host.call = NoCall /\ host.ok = FALSE /\ host.data = <<>>  BY DEF Init
  <2>2. served.count = 0  BY DEF Init
  <2>3. ctl.core_en = {} /\ ctl.core_reset_n = {}  BY DEF Init, CtrlReset
  <2>4. mem = [a \in DOMAIN mem |-> Zero]  BY DEF Init
  <2>. QED BY <2>1, <2>2, <2>3, <2>4 DEF Service!Init, Service!NoCall, NoCall
<1>2. LinkInv /\ [Next]_vars => [Service!Next]_(Service!vars)
  <2> SUFFICES ASSUME LinkInv, [Next]_vars PROVE Service!Next \/ UNCHANGED Service!vars
    OBVIOUS
  <2>0. Types /\ (AtRest \/ UnderWay \/ Acknowledged)  BY DEF LinkInv
  <2>n. Service!NoCall = NoCall  BY DEF Service!NoCall, NoCall
  <2>1. CASE HostBegin
    <3>1. AtRest  BY <2>0, <2>1, CallOrNone DEF HostBegin
    <3>2. /\ host.call = NoCall /\ host'.call \in Calls /\ host'.call # NoCall
          /\ served'.count = 0 /\ served'.words = <<>> /\ host'.ok = host.ok
      BY <2>0, <2>1, <3>1, BeginStep, CallKinds DEF AtRest
    <3>3. ctl' = ctl /\ mem' = mem  BY <2>1 DEF HostBegin
    <3>4. Service!Begin  BY <2>n, <3>2, <3>3 DEF Service!Begin
    <3>. QED BY <3>4 DEF Service!Next
  <2>2. CASE HostReads
    <3>1. UnderWay \/ Acknowledged  BY <2>0, <2>2, CallOrNone DEF HostReads
    <3>2. Replying  BY <3>1 DEF UnderWay, Acknowledged
    <3>3. /\ ctl' = ctl /\ mem' = mem /\ served' = served
          /\ host'.call = host.call /\ host'.ok = host.ok /\ host'.data = host.data
      BY <2>0, <2>2, <3>2, ReadsMoves
    <3>4. UNCHANGED Service!vars  BY <3>3 DEF Service!vars
    <3>. QED BY <3>4
  <2>3. CASE HostReturns
    <3>1. Acknowledged  BY <2>0, <2>3, ReturnsAcknowledged
    <3>2. host'.ok = TRUE /\ host'.data = served.words /\ host'.call = NoCall
      BY <2>0, <2>3, <3>1, ReturnStep DEF AtRest
    <3>3. host.call \in Calls /\ host.call # NoCall /\ served.count = AccessesOf(host.call)
      BY <3>1, CallOrNone DEF Acknowledged
    <3>4. ctl' = ctl /\ mem' = mem /\ served' = served  BY <2>3 DEF HostReturns
    <3>5. Service!Return  BY <2>n, <3>2, <3>3, <3>4, AccessesAgree DEF Service!Return
    <3>. QED BY <3>5 DEF Service!Next
  <2>4. ASSUME NEW starts \in BOOLEAN, Clock(starts)
        PROVE  Service!Next \/ UNCHANGED Service!vars
    <3>1. CASE UnderWay  BY <2>0, <2>4, <3>1, UnderWayStep, EdgeRefines
    <3>2. CASE AtRest \/ Acknowledged
      <4>1. Edge(starts) /\ Unserved /\ CoresUnset  BY <2>0, <2>4, <3>2, AtRestStep, AcknowledgedStep
      <4>2. host'.call = host.call /\ host'.ok = host.ok /\ host'.data = host.data
        BY <4>1 DEF Edge, EdgeOf, HostEdge
      <4>3. UNCHANGED Service!vars  BY <4>1, <4>2 DEF Service!vars, Unserved, CoresUnset
      <4>. QED BY <4>3
    <3>. QED BY <2>0, <3>1, <3>2
  <2>5. CASE UNCHANGED vars
    <3>1. host' = host /\ ctl' = ctl /\ mem' = mem /\ served' = served  BY <2>5 DEF vars
    <3>2. UNCHANGED Service!vars  BY <3>1 DEF Service!vars
    <3>. QED BY <3>2
  <2>. QED BY <2>1, <2>2, <2>3, <2>4, <2>5 DEF Next
<1>. QED BY <1>1, <1>2, Inductive, PTL DEF Spec, ImplementsService, Service!Spec

=============================================================================
