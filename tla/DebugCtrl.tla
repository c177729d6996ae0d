----------------------------- MODULE DebugCtrl -----------------------------
(***************************************************************************)
(* The debug controller (VHDL/top/wb_debug_ctrl.vhd): commands that arrive *)
(* as bytes become accesses of a wb_master and the enable and reset lines  *)
(* of the cores, and are acknowledged with their own byte.  The registers  *)
(* are a record and the clocked process is an operator, as in WbMaster.    *)
(*                                                                         *)
(* A word is a sequence of four bytes, the most significant one first.     *)
(* rstate and wstate, masks of ones in the code, are their number of ones: *)
(* the bytes that rdata has received and that wdata still has to send.     *)
(***************************************************************************)
EXTENDS Naturals, Sequences

ST_IDLE == 0
ST_ADDR == 1
ST_LEN == 2
ST_ACK == 3
ST_DISPATCH == 4
ST_READ == 5
ST_WRITE == 6
ST_CORE == 7
ST_PING == 8

Zero == <<0, 0, 0, 0>>

\* A length has 16 bits.
HalfValues == 65536

\* The registers after reset_n_i.
CtrlReset ==
  [state |-> ST_IDLE, cmd |-> 0, addr |-> 0, len |-> 0,
   rdata |-> Zero, rstate |-> 0, wdata |-> Zero, wstate |-> 0,
   core_en |-> {}, core_reset_n |-> {}]

\* The cores of the bits of a byte, and the number in a word.
CoresOf(byte) == {i \in 0 .. 3 : (byte \div 2 ^ i) % 2 = 1}
Number(w)     == ((w[1] * 256 + w[2]) * 256 + w[3]) * 256 + w[4]
Half(w)       == w[3] * 256 + w[4]

ShiftIn(w, byte) == Append(Tail(w), byte)

\* What the controller asks of its master, and of the UART.
wb_re(r) == r.wstate = 0 /\ r.state = ST_READ
wb_we(r) == r.rstate = 4 /\ r.state = ST_WRITE
tx_en(r, busy) == ~busy /\ r.wstate # 0
tx_data(r) == r.wdata[1]

-----------------------------------------------------------------------------

\* The fourth byte of a word is taken for one too many.
BugShifted(r, rx, busy) ==
  LET taken == rx.valid /\ r.rstate < 3
      sent  == tx_en(r, busy)
  IN  [r EXCEPT !.rdata  = IF taken THEN ShiftIn(@, rx.data) ELSE @,
                !.rstate = IF taken THEN @ + 1 ELSE @,
                !.wdata  = IF sent THEN ShiftIn(@, 0) ELSE @,
                !.wstate = IF sent THEN @ - 1 ELSE @]

\* Bytes in and out, in every state: a byte that finds rdata full is dropped.
Shifted(r, rx, busy) ==
  LET taken == rx.valid /\ r.rstate # 4
      sent  == tx_en(r, busy)
  IN  [r EXCEPT !.rdata  = IF taken THEN ShiftIn(@, rx.data) ELSE @,
                !.rstate = IF taken THEN @ + 1 ELSE @,
                !.wdata  = IF sent THEN ShiftIn(@, 0) ELSE @,
                !.wstate = IF sent THEN @ - 1 ELSE @]

\* One state of the FSM after the shifts, s: r is the state before the edge.
FsmStep(r, s, rx) ==
  CASE r.state = ST_IDLE /\ r.rstate # 0 ->
         [s EXCEPT !.cmd = r.rdata[4], !.rstate = 0,
                   !.state = IF rx.data >= 128 THEN ST_ADDR ELSE ST_DISPATCH]
    [] r.state = ST_ADDR /\ r.rstate = 4 ->
         [s EXCEPT !.addr = Number(r.rdata), !.rstate = 0, !.state = ST_LEN]
    [] r.state = ST_LEN /\ r.rstate >= 2 ->
         [s EXCEPT !.len = Half(r.rdata), !.rstate = 0, !.state = ST_DISPATCH]
    [] r.state = ST_DISPATCH -> [s EXCEPT !.state = ST_DISPATCH + (r.cmd % 128)]
    [] r.state = ST_CORE /\ r.rstate >= 2 ->
         [s EXCEPT !.core_en = CoresOf(r.rdata[4]) \ CoresOf(r.rdata[3]),
                   !.core_reset_n = (0 .. 3) \ CoresOf(r.rdata[3]),
                   !.rstate = 0, !.state = ST_ACK]
    [] r.state = ST_PING -> [s EXCEPT !.state = ST_ACK]
    [] r.state = ST_ACK /\ r.wstate = 0 ->
         [s EXCEPT !.state = ST_IDLE, !.wstate = 1, !.wdata[1] = r.cmd]
    [] OTHER -> s

\* An access of the master m is complete, with an error or without: err_o is
\* left open.
WordDone(r, s, m) ==
  [s EXCEPT !.addr = @ + 1, !.len = (@ + HalfValues - 1) % HalfValues,
            !.state  = IF r.len = 1 THEN ST_ACK ELSE @,
            !.rstate = IF wb_we(r) THEN 0 ELSE @,
            !.wdata  = IF wb_re(r) THEN m.dout ELSE @,
            !.wstate = IF wb_re(r) THEN 4 ELSE @]

\* The clocked process; rx = [valid, data] and busy come from the UART, m from
\* the master.
CtrlEdge(r, rx, busy, m) ==
  LET s == FsmStep(r, Shifted(r, rx, busy), rx)
  IN  IF (wb_re(r) \/ wb_we(r)) /\ m.complete THEN WordDone(r, s, m) ELSE s

\* The command stays up in the cycle in which the access is complete.
BugAsk(r, m) ==
  [en |-> wb_re(r) \/ wb_we(r), we |-> wb_we(r), addr |-> r.addr,
   burst |-> 0, din |-> r.rdata, hold |-> FALSE]

\* The command for the master (burst_i and hold_i keep their defaults).
Ask(r, m) ==
  [en |-> (wb_re(r) \/ wb_we(r)) /\ ~m.complete, we |-> wb_we(r), addr |-> r.addr,
   burst |-> 0, din |-> r.rdata, hold |-> FALSE]

=============================================================================
