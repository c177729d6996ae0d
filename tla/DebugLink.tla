----------------------------- MODULE DebugLink -----------------------------
(***************************************************************************)
(* The debug link: the calls of SystemControl (Debugger/SystemControl.h)   *)
(* on the host, the two directions of the UART, the debug controller, its  *)
(* wb_master and a memory behind it.  The host runs beside the hardware;   *)
(* one Clock step is one rising edge of clk_i.                             *)
(*                                                                         *)
(* A byte takes ByteTime cycles on a line (VHDL/top/uart.vhd: ten bits);   *)
(* the host may leave gaps of any length.  The interconnect may keep an    *)
(* access waiting, for MaxWait cycles at most, and answers an address that *)
(* no slave has with err.                                                  *)
(***************************************************************************)
EXTENDS WbMaster, DebugCtrl

CONSTANTS
  ByteTime,  \* cycles of a byte on a line
  MaxWait,   \* cycles an access may wait for the bus
  Adrs,      \* addresses that have a slave
  Words,     \* the words written
  Calls      \* the calls the debugger makes, as in DebugService

NoCall  == [op |-> "none"]
CoreOps == {"enable", "select", "disable", "reset"}
PingCall == [op |-> "ping"]
ReadCalls  == [op : {"read"}, addr : Nat, size : Nat]
WriteCalls == [op : {"write"}, addr : Nat, data : Seq(Words)]
CoreCalls  == [op : CoreOps, mask : SUBSET (0 .. 3)]

\* The words of a call.
Size(call) == IF call.op = "write" THEN Len(call.data) ELSE call.size

\* The bus is faster than the line: at 115200 baud a byte takes 4340 cycles.
\* A transfer has at least one word, and its length and its addresses fit into
\* the 16 and the 32 bits that are sent.
ASSUME DebugLinkAssumption ==
  /\ MaxWait \in Nat /\ ByteTime \in Nat /\ ByteTime >= MaxWait + 4
  /\ Adrs \subseteq Nat
  /\ Words \subseteq [1 .. 4 -> 0 .. 255]
  /\ Calls \subseteq ReadCalls \cup WriteCalls \cup CoreCalls \cup {PingCall}
  /\ \A call \in Calls : call.op \in {"read", "write"} =>
       /\ Size(call) \in 1 .. HalfValues - 1
       /\ (call.addr + Size(call) - 1) \div HalfValues < HalfValues

VARIABLES
  host,    \* SystemControl: call, bytes to send, bytes received, coreEn_, results
  uart,    \* the byte on each line and the receiver's outputs
  inbox,   \* bytes that have arrived at the host and are not read
  ctl,     \* registers of the controller
  mst,     \* registers of its wb_master
  bus,     \* the access the interconnect has accepted, and its waiting time
  mem,     \* the memory
  served   \* accesses of the call and the words they read (history)

vars == <<host, uart, inbox, ctl, mst, bus, mem, served>>

-----------------------------------------------------------------------------
(* The host.                                                               *)

CMD_READ == 129
CMD_WRITE == 130
CMD_CORE == 3
CMD_PING == 4

CmdOf(call) == CASE call.op = "read"       -> CMD_READ
                 [] call.op = "write"      -> CMD_WRITE
                 [] call.op \in CoreOps    -> CMD_CORE
                 [] call.op = "ping"       -> CMD_PING

\* Numbers of 16 and of 32 bits as bytes, the most significant one first; the
\* bytes of a buffer of words; and the mask with the bits of a set.
HalfBytes(n)   == <<(n \div 256) % 256, n % 256>>
NumberBytes(n) == HalfBytes(n \div HalfValues) \o HalfBytes(n)
Buffer(data)   == [i \in 1 .. 4 * Len(data) |-> data[(i + 3) \div 4][((i + 3) % 4) + 1]]
Mask(set)      == LET bit(i) == IF i \in set THEN 2 ^ i ELSE 0
                  IN  bit(0) + bit(1) + bit(2) + bit(3)

\* coreEn_ after the call.
CoreEn(call) ==
  CASE call.op = "enable" -> host.coreEn \cup call.mask
    [] call.op = "select" -> call.mask
    [] call.op \in {"disable", "reset"} -> host.coreEn \ call.mask
    [] OTHER -> host.coreEn

\* Where a transfer begins and how long it is.
Header(call) == NumberBytes(call.addr) \o HalfBytes(Size(call))

\* The bytes a call writes.
Request(call) ==
  <<CmdOf(call)>> \o
  CASE call.op = "write" -> Header(call) \o Buffer(call.data)
    [] call.op = "read"  -> Header(call)
    [] call.op \in CoreOps -> <<IF call.op = "reset" THEN Mask(call.mask) ELSE 0, Mask(CoreEn(call))>>
    [] call.op = "ping"  -> <<>>

\* The bytes a call waits for: the words of a read and the acknowledge.
Awaited(call) == IF call.op = "read" THEN 4 * call.size + 1 ELSE 1

HostBegin ==
  /\ host.call = NoCall
  /\ \E call \in Calls :
       host' = [host EXCEPT !.call = call, !.out = Request(call), !.got = <<>>,
                            !.coreEn = CoreEn(call)]
  /\ served' = [count |-> 0, words |-> <<>>]
  /\ UNCHANGED <<uart, inbox, ctl, mst, bus, mem>>

\* read() of the UART hands over a byte that has arrived.
HostReads ==
  /\ host.call # NoCall /\ Len(host.got) < Awaited(host.call)
  /\ inbox # <<>>
  /\ host' = [host EXCEPT !.got = Append(@, Head(inbox))]
  /\ inbox' = Tail(inbox)
  /\ UNCHANGED <<uart, ctl, mst, bus, mem, served>>

HostReturns ==
  /\ host.call # NoCall /\ Len(host.got) = Awaited(host.call)
  /\ host' = [host EXCEPT !.call = NoCall, !.got = <<>>,
                          !.ok   = host.got[Len(host.got)] = CmdOf(host.call),
                          !.data = [i \in 1 .. Len(host.got) \div 4 |->
                                      SubSeq(host.got, 4 * i - 3, 4 * i)]]
  /\ UNCHANGED <<uart, inbox, ctl, mst, bus, mem, served>>

-----------------------------------------------------------------------------
(* The UART.                                                               *)

\* The transmitter has a byte on the line.
Busy == uart.tx_left # 0

\* One edge of both processes; the host puts its next byte on the line if it
\* starts one.
UartEdge(starts) ==
  [rx_valid |-> uart.rx_left = 1,
   rx_data  |-> IF uart.rx_left = 1 THEN uart.rx_byte ELSE uart.rx_data,
   rx_left  |-> IF starts THEN ByteTime ELSE IF uart.rx_left = 0 THEN 0 ELSE uart.rx_left - 1,
   rx_byte  |-> IF starts THEN Head(host.out) ELSE uart.rx_byte,
   tx_left  |-> IF tx_en(ctl, Busy) THEN ByteTime ELSE IF uart.tx_left = 0 THEN 0 ELSE uart.tx_left - 1,
   tx_byte  |-> IF tx_en(ctl, Busy) THEN tx_data(ctl) ELSE uart.tx_byte]

-----------------------------------------------------------------------------
(* The interconnect: it stalls a request, takes it, and answers it later.  *)

Quiet == [ack |-> FALSE, err |-> FALSE, stall |-> FALSE, dat |-> Zero]
MayWait == bus.waited < MaxWait

Answer == IF bus.adr \in Adrs THEN [Quiet EXCEPT !.ack = TRUE, !.dat = mem[bus.adr]]
          ELSE [Quiet EXCEPT !.err = TRUE]

Waits(in)  == /\ mst.stb \/ bus.busy
              /\ MayWait
              /\ in = [Quiet EXCEPT !.stall = mst.stb]
              /\ bus' = [bus EXCEPT !.waited = @ + 1]
              /\ UNCHANGED <<mem, served>>

Takes(in)  == /\ mst.stb /\ ~bus.busy
              /\ in = Quiet
              /\ bus' = [bus EXCEPT !.busy = TRUE, !.we = mst.we, !.adr = mst.adr, !.dat = mst.dat]
              /\ UNCHANGED <<mem, served>>

Serves(in) == /\ bus.busy
              /\ in = Answer
              /\ bus' = [bus EXCEPT !.busy = FALSE, !.waited = 0]
              /\ mem' = IF bus.we /\ bus.adr \in Adrs THEN [mem EXCEPT ![bus.adr] = bus.dat] ELSE mem
              /\ served' = [count |-> served.count + 1,
                            words |-> IF bus.we THEN <<>>
                                      ELSE Append(served.words, IF in.ack THEN in.dat ELSE mst.dout)]

SetsCores == ctl.state = ST_CORE /\ ctl.rstate >= 2

Idles(in)  == /\ ~mst.stb /\ ~bus.busy
              /\ in = Quiet
              /\ served' = IF SetsCores THEN [served EXCEPT !.count = @ + 1] ELSE served
              /\ UNCHANGED <<bus, mem>>

Clock(starts) ==
  /\ starts => uart.rx_left = 0 /\ host.out # <<>>
  /\ ctl' = CtrlEdge(ctl, [valid |-> uart.rx_valid, data |-> uart.rx_data], Busy, mst)
  /\ uart' = UartEdge(starts)
  /\ inbox' = IF uart.tx_left = 1 THEN Append(inbox, uart.tx_byte) ELSE inbox
  /\ host' = IF starts THEN [host EXCEPT !.out = Tail(@)] ELSE host
  /\ \E in \in {Quiet, [Quiet EXCEPT !.stall = TRUE], Answer} :
       /\ mst' = MasterEdge(mst, Ask(ctl, mst), in)
       /\ Waits(in) \/ Takes(in) \/ Serves(in) \/ Idles(in)

Init ==
  /\ host = [call |-> NoCall, out |-> <<>>, got |-> <<>>, coreEn |-> {}, ok |-> FALSE, data |-> <<>>]
  /\ uart = [rx_valid |-> FALSE, rx_data |-> 0, rx_left |-> 0, rx_byte |-> 0,
             tx_left |-> 0, tx_byte |-> 0]
  /\ inbox = <<>>
  /\ ctl = CtrlReset
  /\ mst = MasterReset(Zero)
  /\ bus = [busy |-> FALSE, we |-> FALSE, adr |-> 0, dat |-> Zero, waited |-> 0]
  /\ mem = [a \in Adrs |-> Zero]
  /\ served = [count |-> 0, words |-> <<>>]

Next == HostBegin \/ HostReads \/ HostReturns \/ \E starts \in BOOLEAN : Clock(starts)

Spec == Init /\ [][Next]_vars

\* The clock runs, the host's UART sends what it is given, and the debugger
\* goes on with a call as soon as it can.
Fairness == /\ WF_vars(\E starts \in BOOLEAN : Clock(starts)) /\ WF_vars(Clock(TRUE))
            /\ WF_vars(HostReads) /\ WF_vars(HostReturns)

FairSpec == Spec /\ Fairness

-----------------------------------------------------------------------------
(* Properties.                                                             *)

Service == INSTANCE DebugService WITH
  call     <- host.call,
  done     <- served.count,
  words    <- IF host.call = NoCall THEN host.data ELSE served.words,
  ok       <- host.ok,
  cores    <- [en |-> ctl.core_en, reset_n |-> ctl.core_reset_n],
  AnyWords <- Words \cup {Zero},
  Blank    <- Zero

\* The calls of SystemControl do what they say (DebugService): from the bytes a
\* call sends, cut into words by the controller and put on the bus while the
\* next ones arrive, exactly the accesses of the call result, in order; when
\* it returns they are done, it reports success, a read hands over the words
\* read, and the enabled cores are those of coreEn_.
ImplementsService == Service!Spec

\* No byte arrives while the controller cannot take it: four bytes are on their
\* way to the memory, or a state has just used what was received.
NoByteIsDropped ==
  [][uart.rx_valid /\ uart' # uart
       => ctl'.rstate = ctl.rstate + 1 /\ ctl'.rdata[4] = uart.rx_data]_vars

\* Every call returns: host and controller agree on who sends next, so neither
\* waits for a byte the other one does not owe.
CallsReturn == host.call # NoCall ~> host.call = NoCall

=============================================================================
