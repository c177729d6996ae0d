------------------------------ MODULE WbSdram ------------------------------
(***************************************************************************)
(* The SDRAM controller behind the level-two cache                         *)
(* (VHDL/wishbone/wb_sdram.vhd) with the SDRAM device it drives and the    *)
(* pipelined Wishbone master in front of it.  One step is one rising edge  *)
(* of clk_i.  The controller keeps a row open, issues column commands back *)
(* to back and takes requests while earlier reads are under way, so its    *)
(* timing rests on a few counters that have to outlive a state of the FSM. *)
(*                                                                         *)
(* A word is two columns of the device; both halves carry the value of the *)
(* word.  Times are in clock cycles.                                       *)
(***************************************************************************)
EXTENDS Naturals, Sequences, FiniteSets, FiniteSetsExt

CONSTANTS
  InitCycles, RcdCycles, RpCycles, RasCycles, RfcCycles, WrCycles,
  T_MRD_Cycles, CasLatency, RefreshCycles, InitRefreshCount,
  Adrs,        \* the word addresses modelled, [bank, row, col]
  Values,      \* the values written
  Blank,       \* what the device holds at first
  NoData       \* nobody drives the data lines

ASSUME SdramAssumption ==
  /\ \A n \in {InitCycles, RcdCycles, RpCycles, RasCycles, RfcCycles, WrCycles,
               T_MRD_Cycles, RefreshCycles, InitRefreshCount} : n \in Nat \ {0}
  /\ CasLatency \in 2 .. 3
  /\ Adrs # {}

VARIABLES
  c,        \* registers of the controller
  slave_i,  \* the request of the master: [cyc, stb, we, adr, dat]
  chip,     \* the device: open rows, cells, read pipeline, command history
  owed,     \* accepted and unacknowledged requests, oldest first (history)
  quiet,    \* cycles since the master last saw progress (history)
  amem      \* the memory as the accepted requests define it (history)

vars == <<c, slave_i, chip, owed, quiet, amem>>

Banks == {a.bank : a \in Adrs}
NoRow == "none"

Init0 == {"ST_INIT_WAIT", "ST_INIT_PRECHARGE", "ST_INIT_PRECHARGE_WAIT",
          "ST_INIT_REFRESH", "ST_INIT_REFRESH_WAIT", "ST_INIT_MODE", "ST_INIT_MODE_WAIT"}
States == Init0 \cup
  {"ST_IDLE", "ST_DRAIN", "ST_PRECHARGE", "ST_PRECHARGE_WAIT", "ST_ACTIVATE",
   "ST_ACTIVATE_WAIT", "ST_CAS0", "ST_CAS1", "ST_REFRESH", "ST_REFRESH_WAIT"}

-----------------------------------------------------------------------------
(* Constants and wires of the controller.                                  *)

sub_clip(a, b) == IF a > b THEN a - b ELSE 0

RcdWait == sub_clip(RcdCycles, 2)
RpWait  == sub_clip(RpCycles, 2)
RfcWait == sub_clip(RfcCycles, 2)

row_hit == c.row_open /\ slave_i.adr.bank = c.open.bank /\ slave_i.adr.row = c.open.row
rd_idle == \A i \in 0 .. CasLatency : ~c.rd_pipe[i]
\* Requests are still taken when a refresh is due.
BugReady == c.state \in {"ST_IDLE", "ST_CAS1"} /\ ~c.refresh_pending

ready   == c.state \in {"ST_IDLE", "ST_CAS1"} /\ ~c.refresh_due /\ ~c.refresh_pending
accept  == ready /\ slave_i.cyc /\ slave_i.stb

\* The command on the pins, decoded from the state and the latched request.
Command ==
  CASE c.state \in {"ST_INIT_PRECHARGE", "ST_PRECHARGE"} -> [op |-> "PRECHARGE"]
    [] c.state \in {"ST_INIT_REFRESH", "ST_REFRESH"}     -> [op |-> "REFRESH"]
    [] c.state = "ST_INIT_MODE" -> [op |-> "MODE"]
    [] c.state = "ST_ACTIVATE"  -> [op |-> "ACTIVATE", adr |-> c.req.adr]
    [] c.state \in {"ST_CAS0", "ST_CAS1"} ->
         [op   |-> IF c.req.we THEN "WRITE" ELSE "READ", adr |-> c.req.adr,
          half |-> IF c.state = "ST_CAS0" THEN "lo" ELSE "hi"]
    [] OTHER -> [op |-> "NOP"]

\* dq_oe: the controller drives the data lines.
dq_oe == Command.op = "WRITE"

-----------------------------------------------------------------------------
(* The clocked process of the controller.                                  *)

\* Drained: the data bus is free and the open row may be closed.
MayClose == rd_idle /\ c.wr_timer = 0 /\ c.ras_timer = 0

\* A write goes ahead while reads are still in the pipeline.
BugAfterAccept == IF row_hit THEN "ST_CAS0" ELSE "ST_DRAIN"

AfterAccept ==
  IF row_hit /\ (~slave_i.we \/ rd_idle) THEN "ST_CAS0" ELSE "ST_DRAIN"

AfterPrecharge == IF c.refresh_pending THEN "ST_REFRESH" ELSE "ST_ACTIVATE"

\* The row change does not wait for the write recovery time.
BugAfterDrain ==
  IF c.refresh_pending
    THEN IF ~(rd_idle /\ c.ras_timer = 0) THEN "ST_DRAIN"
         ELSE IF c.row_open THEN "ST_PRECHARGE" ELSE "ST_REFRESH"
    ELSE IF c.req_row_hit
           THEN IF ~c.req.we \/ rd_idle THEN "ST_CAS0" ELSE "ST_DRAIN"
           ELSE IF ~(rd_idle /\ c.ras_timer = 0) THEN "ST_DRAIN"
                ELSE IF c.row_open THEN "ST_PRECHARGE" ELSE "ST_ACTIVATE"

AfterDrain ==
  IF c.refresh_pending
    THEN IF ~MayClose THEN "ST_DRAIN"
         ELSE IF c.row_open THEN "ST_PRECHARGE" ELSE "ST_REFRESH"
    ELSE IF c.req_row_hit
           THEN IF ~c.req.we \/ rd_idle THEN "ST_CAS0" ELSE "ST_DRAIN"
           ELSE IF ~MayClose THEN "ST_DRAIN"
                ELSE IF c.row_open THEN "ST_PRECHARGE" ELSE "ST_ACTIVATE"

\* Where a state that waits goes when wait_count is zero.
AfterWait ==
  CASE c.state = "ST_INIT_WAIT"           -> "ST_INIT_PRECHARGE"
    [] c.state = "ST_INIT_PRECHARGE_WAIT" -> "ST_INIT_REFRESH"
    [] c.state = "ST_INIT_REFRESH_WAIT"   ->
         IF c.init_refresh_left = 0 THEN "ST_INIT_MODE" ELSE "ST_INIT_REFRESH"
    [] c.state = "ST_INIT_MODE_WAIT"      -> "ST_IDLE"
    [] c.state = "ST_PRECHARGE_WAIT"      -> AfterPrecharge
    [] c.state = "ST_ACTIVATE_WAIT"       -> "ST_CAS0"
    [] c.state = "ST_REFRESH_WAIT"        -> "ST_IDLE"

Waits == {"ST_INIT_WAIT", "ST_INIT_PRECHARGE_WAIT", "ST_INIT_REFRESH_WAIT",
          "ST_INIT_MODE_WAIT", "ST_PRECHARGE_WAIT", "ST_ACTIVATE_WAIT", "ST_REFRESH_WAIT"}

NextState ==
  CASE c.state \in Waits -> IF c.wait_count = 0 THEN AfterWait ELSE c.state
    [] c.state = "ST_INIT_PRECHARGE" -> "ST_INIT_PRECHARGE_WAIT"
    [] c.state = "ST_INIT_REFRESH"   -> "ST_INIT_REFRESH_WAIT"
    [] c.state = "ST_INIT_MODE"      -> "ST_INIT_MODE_WAIT"
    [] c.state = "ST_IDLE" ->
         IF c.refresh_due THEN "ST_DRAIN" ELSE IF accept THEN AfterAccept ELSE "ST_IDLE"
    [] c.state = "ST_DRAIN"     -> AfterDrain
    [] c.state = "ST_PRECHARGE" -> IF RpCycles > 1 THEN "ST_PRECHARGE_WAIT" ELSE AfterPrecharge
    [] c.state = "ST_ACTIVATE"  -> IF RcdCycles > 1 THEN "ST_ACTIVATE_WAIT" ELSE "ST_CAS0"
    [] c.state = "ST_CAS0"      -> "ST_CAS1"
    [] c.state = "ST_CAS1"      -> IF accept THEN AfterAccept ELSE "ST_IDLE"
    [] c.state = "ST_REFRESH"   -> "ST_REFRESH_WAIT"

NextWait ==
  CASE c.state \in Waits -> IF c.wait_count = 0 THEN 0 ELSE c.wait_count - 1
    [] c.state = "ST_INIT_PRECHARGE" -> RpCycles - 1
    [] c.state = "ST_INIT_REFRESH"   -> RfcCycles - 1
    [] c.state = "ST_INIT_MODE"      -> T_MRD_Cycles - 1
    [] c.state = "ST_PRECHARGE"      -> IF RpCycles > 1 THEN RpWait ELSE c.wait_count
    [] c.state = "ST_ACTIVATE"       -> IF RcdCycles > 1 THEN RcdWait ELSE c.wait_count
    [] c.state = "ST_REFRESH"        -> RfcWait
    [] OTHER -> c.wait_count

Tick(timer) == IF timer # 0 THEN timer - 1 ELSE 0

\* The markers of the column reads under way; dq is what is on the data lines.
NextPipe(p, mark) == [i \in 0 .. CasLatency |-> IF i = 0 THEN mark ELSE p[i - 1]]
Reads    == c.state \in {"ST_CAS0", "ST_CAS1"} /\ ~c.req.we

\* The data is taken a cycle late.
BugCaptures == c.rd_pipe[CasLatency]

Captures == c.rd_pipe[CasLatency - 1]
CapturesHigh == Captures /\ c.rd_half[CasLatency - 1]

\* The end of the interval is missed while the controller is busy.
BugRefreshTick == c.refresh_timer = RefreshCycles - 1 /\ c.state = "ST_IDLE"

RefreshTick == c.refresh_timer = RefreshCycles - 1

ControllerEdge(dq) ==
  [state             |-> NextState,
   wait_count        |-> NextWait,
   init_refresh_left |-> IF c.state = "ST_INIT_REFRESH_WAIT" /\ c.wait_count = 0
                         THEN Tick(c.init_refresh_left) ELSE c.init_refresh_left,
   refresh_timer     |-> IF RefreshTick THEN 0 ELSE c.refresh_timer + 1,
   refresh_due       |-> ~(c.state = "ST_IDLE" /\ c.refresh_due) /\ (RefreshTick \/ c.refresh_due),
   refresh_pending   |-> \/ c.state = "ST_IDLE" /\ c.refresh_due
                         \/ c.refresh_pending /\ ~(c.state = "ST_REFRESH_WAIT" /\ c.wait_count = 0),
   req               |-> IF accept THEN [we |-> slave_i.we, adr |-> slave_i.adr, dat |-> slave_i.dat]
                         ELSE c.req,
   req_row_hit       |-> IF c.state = "ST_ACTIVATE" THEN TRUE
                         ELSE IF accept THEN row_hit ELSE c.req_row_hit,
   row_open          |-> (c.row_open \/ c.state = "ST_ACTIVATE") /\ c.state # "ST_PRECHARGE",
   open              |-> IF c.state = "ST_ACTIVATE"
                         THEN [bank |-> c.req.adr.bank, row |-> c.req.adr.row] ELSE c.open,
   ras_timer         |-> IF c.state = "ST_ACTIVATE" THEN sub_clip(RasCycles, 1) ELSE Tick(c.ras_timer),
   wr_timer          |-> IF dq_oe THEN sub_clip(WrCycles, 1) ELSE Tick(c.wr_timer),
   rd_pipe           |-> NextPipe(c.rd_pipe, Reads),
   rd_half           |-> NextPipe(c.rd_half, Reads /\ c.state = "ST_CAS1"),
   read_low          |-> IF Captures /\ ~CapturesHigh THEN dq ELSE c.read_low,
   read_data         |-> IF CapturesHigh THEN [lo |-> c.read_low, hi |-> dq] ELSE c.read_data,
   ack               |-> CapturesHigh \/ (c.state = "ST_CAS1" /\ c.req.we)]

ControllerReset ==
  [state |-> "ST_INIT_WAIT", wait_count |-> InitCycles - 1,
   init_refresh_left |-> InitRefreshCount - 1,
   refresh_timer |-> 0, refresh_due |-> FALSE, refresh_pending |-> FALSE,
   req |-> [we |-> FALSE, adr |-> CHOOSE a \in Adrs : TRUE, dat |-> Blank],
   req_row_hit |-> FALSE, row_open |-> FALSE,
   open |-> [bank |-> (CHOOSE a \in Adrs : TRUE).bank, row |-> (CHOOSE a \in Adrs : TRUE).row],
   ras_timer |-> 0, wr_timer |-> 0,
   rd_pipe |-> [i \in 0 .. CasLatency |-> FALSE],
   rd_half |-> [i \in 0 .. CasLatency |-> FALSE],
   read_low |-> Blank, read_data |-> [lo |-> Blank, hi |-> Blank], ack |-> FALSE]

-----------------------------------------------------------------------------
(* The device.  Its counters say how many cycles ago a command was given,  *)
(* up to the longest time that matters.                                    *)

LongAgo == Max({RcdCycles, RpCycles, RasCycles, WrCycles})

\* The longest time after a column until rd_idle and both timers let the row
\* be closed.
DrainCycles == Max({CasLatency + 1, sub_clip(WrCycles, 1), sub_clip(RasCycles, RcdCycles + 2)})

\* The longest way from the end of the interval to the refresh command: a read
\* just accepted closes the open row, opens its own, takes two columns and runs
\* through the pipeline, and its row is closed too.  The way takes five cycles
\* more, and the previous refresh was two or three behind the interval.
RefreshLatency == 2 * RpCycles + RcdCycles + 2 * DrainCycles + 3

\* The longest time without an accept or an acknowledge for a master that
\* waits: a read of another row, or two refreshes one behind the other.
ProgressLatency == Max({DrainCycles + RpCycles + RcdCycles + CasLatency + 3,
                        DrainCycles + RpCycles + 2 * RfcWait + 7})

\* An interval is longer than two refreshes, and than the last refresh of the
\* initialisation with what follows it (some 390 cycles at 50 MHz, where a
\* refresh takes three).
ASSUME RefreshAssumption ==
  /\ RefreshCycles > DrainCycles + RpCycles + 2 * RfcWait + 6
  /\ RefreshCycles >= RfcCycles + T_MRD_Cycles

NoRefresh == RefreshCycles + RefreshLatency + RfcCycles

ChipReset ==
  [row  |-> [b \in Banks |-> NoRow],
   cell |-> [a \in Adrs |-> [lo |-> Blank, hi |-> Blank]],
   out  |-> [i \in 1 .. CasLatency |-> NoData],
   act |-> LongAgo, pre |-> LongAgo, ref |-> NoRefresh, wrt |-> LongAgo]

Since(count, now) == IF now THEN 1 ELSE IF count < LongAgo THEN count + 1 ELSE count

ChipEdge(cmd) ==
  [row  |-> CASE cmd.op = "PRECHARGE" -> [b \in Banks |-> NoRow]
              [] cmd.op = "ACTIVATE"  -> [chip.row EXCEPT ![cmd.adr.bank] = cmd.adr.row]
              [] OTHER -> chip.row,
   cell |-> IF cmd.op = "WRITE" THEN [chip.cell EXCEPT ![cmd.adr][cmd.half] = c.req.dat]
            ELSE chip.cell,
   out  |-> [i \in 1 .. CasLatency |->
               IF i > 1 THEN chip.out[i - 1]
               ELSE IF cmd.op = "READ" THEN chip.cell[cmd.adr][cmd.half] ELSE NoData],
   act  |-> Since(chip.act, cmd.op = "ACTIVATE"),
   pre  |-> Since(chip.pre, cmd.op = "PRECHARGE"),
   ref  |-> IF cmd.op = "REFRESH" THEN 1 ELSE IF chip.ref < NoRefresh THEN chip.ref + 1 ELSE chip.ref,
   wrt  |-> Since(chip.wrt, cmd.op = "WRITE")]

\* What the device drives in this cycle.
ChipOut == chip.out[CasLatency]

-----------------------------------------------------------------------------
(* The master: a stalled request stays, otherwise a new one or none.       *)

Requests == [cyc : {TRUE}, stb : {TRUE}, we : {TRUE}, adr : Adrs, dat : Values]
              \cup [cyc : {TRUE}, stb : {TRUE}, we : {FALSE}, adr : Adrs, dat : {Blank}]
NoRequest == [cyc |-> FALSE, stb |-> FALSE, we |-> FALSE,
              adr |-> CHOOSE a \in Adrs : TRUE, dat |-> Blank]

MasterNext == IF slave_i.stb /\ ~ready THEN {slave_i} ELSE Requests \cup {NoRequest}

Init ==
  /\ c = ControllerReset
  /\ slave_i = NoRequest
  /\ chip = ChipReset
  /\ owed = <<>>
  /\ quiet = 0
  /\ amem = [a \in Adrs |-> Blank]

\* What an accepted request is owed: its acknowledge and, for a read, the
\* value that the requests accepted before it have left.
Owed == [we |-> slave_i.we, dat |-> IF slave_i.we THEN Blank ELSE amem[slave_i.adr]]

Clock ==
  /\ c' = ControllerEdge(IF dq_oe THEN c.req.dat ELSE ChipOut)
  /\ chip' = ChipEdge(Command)
  /\ owed' = (IF c.ack /\ owed # <<>> THEN Tail(owed) ELSE owed)
               \o (IF accept THEN <<Owed>> ELSE <<>>)
  /\ amem' = IF accept /\ slave_i.we THEN [amem EXCEPT ![slave_i.adr] = slave_i.dat] ELSE amem
  /\ quiet' = IF accept \/ c.ack \/ c.state \in Init0 \/ (~slave_i.stb /\ owed = <<>>)
              THEN 0 ELSE quiet + 1
  /\ slave_i' \in MasterNext

Spec == Init /\ [][Clock]_vars

-----------------------------------------------------------------------------
(* Properties.                                                             *)

\* The device gets every command at a time at which it may: no row is opened
\* over an open one, columns are read and written in the row that is open, a
\* row is closed only after tRAS and tWR, and tRCD, tRP and tRFC are kept.
\* The controller has no timer for the last three: it counts states.
TimingIsKept ==
  CASE Command.op = "ACTIVATE" ->
         (\A b \in Banks : chip.row[b] = NoRow) /\ chip.pre >= RpCycles /\ chip.ref >= RfcCycles
    [] Command.op \in {"READ", "WRITE"} ->
         chip.row[Command.adr.bank] = Command.adr.row /\ chip.act >= RcdCycles
    [] Command.op = "PRECHARGE" -> chip.act >= RasCycles /\ chip.wrt >= WrCycles
    [] Command.op = "REFRESH" ->
         (\A b \in Banks : chip.row[b] = NoRow) /\ chip.pre >= RpCycles /\ chip.ref >= RfcCycles
    [] OTHER -> TRUE

\* Controller and device never drive the data lines in the same cycle.
BusIsSingleDriven == ~(dq_oe /\ ChipOut # NoData)

\* Acknowledges come in the order of the requests, one for each, and the data
\* of a read is what the requests accepted before it have left in memory,
\* although reads come out of a pipeline and writes are acknowledged at once.
AcksAreInOrder ==
  c.ack => /\ owed # <<>>
           /\ ~Head(owed).we => c.read_data = [lo |-> Head(owed).dat, hi |-> Head(owed).dat]

\* Refreshes do not fall behind, whatever the master does: once initialised,
\* the device is never left longer than the interval and one latency.
RefreshIsInTime == c.state \notin Init0 => chip.ref <= RefreshCycles + RefreshLatency

\* The master is never left waiting: as long as it has a request that is not
\* accepted or not acknowledged, the next one is accepted or acknowledged
\* within the time of a row change or of two refreshes.
ProgressIsInTime == quiet <= ProgressLatency

=============================================================================
