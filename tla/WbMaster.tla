------------------------------ MODULE WbMaster ------------------------------
(***************************************************************************)
(* The Wishbone master (VHDL/wishbone/wb_master.vhd): it turns one command *)
(* of its user (debug controller, cache) into a pipelined, possibly        *)
(* wrapping burst of bus requests and counts the acknowledges.  As for     *)
(* WbArbiter, the registers are a record and the clocked process is an     *)
(* operator; the modules that compose masters hold the registers.          *)
(*                                                                         *)
(* burst_i is the number of words less one, a power of two less one.  The  *)
(* user drives                                                             *)
(*   u.en, u.we, u.addr, u.burst   the command (en_i with its operands)    *)
(*   u.din, u.hold                 din_i and hold_i                        *)
(* and the fabric answers with the record in = [ack, err, stall, dat].     *)
(***************************************************************************)
EXTENDS Naturals

\* burst_i, count, count_ack and mask are 6 bits wide.
CountValues == 64

\* Register values after reset_n_i.
MasterReset(value) ==
  [state |-> "ST_IDLE", adr |-> 0, dat |-> value, we |-> FALSE, stb |-> FALSE,
   cyc |-> FALSE, count |-> 0, count_ack |-> 0, mask |-> 0,
   dready_rd |-> FALSE, dout |-> value, complete |-> FALSE, err |-> FALSE]

MasterRegs(Adr, Value) ==
  [state : {"ST_IDLE", "ST_PENDING"}, adr : Adr, dat : Value, we : BOOLEAN,
   stb : BOOLEAN, cyc : BOOLEAN, count : 0 .. CountValues - 1,
   count_ack : 0 .. CountValues - 1, mask : 0 .. CountValues - 1,
   dready_rd : BOOLEAN, dout : Value, complete : BOOLEAN, err : BOOLEAN]

\* (adr and not mask) or ((adr + 1) and mask), mask + 1 being a power of two:
\* the next word of the line, wrapping inside it.
WrapNext(adr, mask) ==
  ((adr \div (mask + 1)) * (mask + 1)) + ((adr + 1) % (mask + 1))

-----------------------------------------------------------------------------

\* A word is reported taken although the slave stalls.
BugDReadyInStall(r, u, in) ==
  IF u.we /\ r.state = "ST_IDLE"
    THEN u.en
    ELSE IF r.we /\ r.state = "ST_PENDING" /\ r.count # 0 THEN TRUE ELSE r.dready_rd

\* dready_o: the user's next word is taken (write) or dout_o holds one (read).
DReady(r, u, in) ==
  IF u.we /\ r.state = "ST_IDLE"
    THEN u.en
    ELSE IF r.we /\ r.state = "ST_PENDING" /\ r.count # 0
           THEN ~in.stall
           ELSE r.dready_rd

\* A command is taken in ST_IDLE: the first request is on the bus.
Start(r, u, in) ==
  [r EXCEPT !.state = "ST_PENDING", !.adr = u.addr, !.dat = u.din, !.we = u.we,
            !.stb = TRUE, !.cyc = TRUE,
            !.count = u.burst, !.count_ack = u.burst, !.mask = u.burst,
            !.dready_rd = FALSE, !.complete = FALSE, !.err = in.err]

\* The address moves on although the slave stalls; the request counter does;
\* the request counter runs below zero.
BugAdrInStall(r, in)    == WrapNext(r.adr, r.mask)
BugCountInStall(r, in)  == IF r.count = 0 THEN r.count ELSE r.count - 1
BugCountBelow0(r, in)   == IF in.stall THEN r.count ELSE r.count - 1

\* A request that is not stalled is followed by the next one of the burst.
NextAdr(r, in)   == IF in.stall THEN r.adr ELSE WrapNext(r.adr, r.mask)
NextCount(r, in) == IF in.stall \/ r.count = 0 THEN r.count ELSE r.count - 1
LastRequest(r, in) == ~in.stall /\ r.count = 0

\* The first acknowledge ends a burst; an error ends nothing.
BugEndsEarly(r, in)     == in.ack \/ in.err
BugErrIsIgnored(r, in)  == in.ack /\ r.count_ack = 0

\* Acknowledges are counted on their own; the last one, or an error, ends the
\* command.
NextCountAck(r, in) ==
  IF in.ack THEN (r.count_ack + CountValues - 1) % CountValues ELSE r.count_ack
Ends(r, in) == (in.ack /\ r.count_ack = 0) \/ in.err

\* ST_PENDING; the end of the command overrides what a request or an
\* acknowledge of the same cycle assigns.
Pending(r, u, in) ==
  LET ends == Ends(r, in)
  IN  [state     |-> IF ends THEN "ST_IDLE" ELSE "ST_PENDING",
       adr       |-> NextAdr(r, in),
       dat       |-> IF in.stall THEN r.dat ELSE u.din,
       we        |-> r.we /\ ~ends,
       stb       |-> r.stb /\ ~LastRequest(r, in) /\ ~ends,
       cyc       |-> IF ends THEN u.hold ELSE r.cyc,
       count     |-> NextCount(r, in),
       count_ack |-> NextCountAck(r, in),
       mask      |-> r.mask,
       dready_rd |-> ~r.we /\ (in.ack \/ ends),
       dout      |-> IF in.ack THEN in.dat ELSE r.dout,
       complete  |-> ends,
       err       |-> in.err]

\* ST_IDLE without a command: cyc stays only while the user holds it.
Idle(r, u, in) ==
  [r EXCEPT !.cyc = r.cyc /\ u.hold,
            !.dready_rd = FALSE, !.complete = FALSE, !.err = in.err]

MasterEdge(r, u, in) ==
  CASE r.state = "ST_PENDING"        -> Pending(r, u, in)
    [] r.state = "ST_IDLE" /\ u.en   -> Start(r, u, in)
    [] r.state = "ST_IDLE" /\ ~u.en  -> Idle(r, u, in)

=============================================================================
