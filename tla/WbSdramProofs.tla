--------------------------- MODULE WbSdramProofs ---------------------------
(***************************************************************************)
(* Proofs about the SDRAM controller for every value of its generics: the  *)
(* device's timing is kept, the data lines have one driver, acknowledges   *)
(* come in the order of the requests, and a read returns what the requests *)
(* before it have left in memory.                                          *)
(*                                                                         *)
(* The second half is about its deadlines: the device gets its refreshes   *)
(* in time whatever the master does, and the master gets on whatever the   *)
(* refreshes do.  Both follow from the way that is left, from each state   *)
(* of the controller, to the next refresh and to the next acknowledge.     *)
(***************************************************************************)
EXTENDS WbSdram, SequenceTheorems, TLAPS

-----------------------------------------------------------------------------
(* The inductive invariant, in parts.                                      *)

CtlType ==
  /\ c.state \in States
  /\ c.wait_count \in Nat /\ c.ras_timer \in Nat /\ c.wr_timer \in Nat
  /\ c.row_open \in BOOLEAN /\ c.req_row_hit \in BOOLEAN
  /\ c.refresh_pending \in BOOLEAN /\ c.refresh_due \in BOOLEAN
  /\ c.req.adr \in Adrs /\ c.req.we \in BOOLEAN /\ c.open.bank \in Banks
  /\ c.rd_pipe \in [0 .. CasLatency -> BOOLEAN]

MasterType ==
  /\ slave_i.adr \in Adrs
  /\ slave_i.cyc \in BOOLEAN /\ slave_i.stb \in BOOLEAN /\ slave_i.we \in BOOLEAN

ChipType ==
  /\ DOMAIN chip.row = Banks
  /\ chip.act \in Nat /\ chip.pre \in Nat /\ chip.ref \in Nat /\ chip.wrt \in Nat
  /\ DOMAIN chip.out = 1 .. CasLatency

\* The row registers of the controller say what is open in the device.
RowsAgree ==
  IF c.row_open THEN chip.row[c.open.bank] = c.open.row
  ELSE \A b \in Banks : chip.row[b] = NoRow

OpenForReq == /\ c.row_open /\ c.open.bank = c.req.adr.bank /\ c.open.row = c.req.adr.row

\* States in which all rows are closed, and states in which the row of the
\* request is open.
ClosedStates == Init0 \cup {"ST_PRECHARGE_WAIT", "ST_ACTIVATE", "ST_REFRESH", "ST_REFRESH_WAIT"}
OpenStates   == {"ST_ACTIVATE_WAIT", "ST_CAS0", "ST_CAS1"}

RowsFit ==
  /\ RowsAgree
  /\ c.state \in ClosedStates => ~c.row_open
  /\ c.state \in OpenStates => OpenForReq
  /\ c.state = "ST_DRAIN" /\ ~c.refresh_pending /\ c.req_row_hit => OpenForReq

\* The cycles wait_count has left for tRCD, tRP and tRFC.
RcdLeft == IF c.state = "ST_ACTIVATE_WAIT" THEN c.wait_count + 1 ELSE 0
RpLeft  == IF c.state \in {"ST_PRECHARGE_WAIT", "ST_INIT_PRECHARGE_WAIT"} THEN c.wait_count + 1 ELSE 0
RfcLeft == IF c.state \in {"ST_REFRESH_WAIT", "ST_INIT_REFRESH_WAIT"} THEN c.wait_count + 1 ELSE 0

\* The timers and the counted states make up for what is missing of each time.
ActTime == /\ chip.act + c.ras_timer >= RasCycles
           /\ c.row_open => chip.act + RcdLeft >= RcdCycles
WrtTime == chip.wrt + c.wr_timer >= WrCycles
PreTime == ~c.row_open => chip.pre + RpLeft >= RpCycles
RefTime == chip.ref + RfcLeft >= RfcCycles

\* A row is closed only with both timers at zero; nothing ran before the first.
TimersRest == c.state \in Init0 \cup {"ST_PRECHARGE"} => c.ras_timer = 0 /\ c.wr_timer = 0

Times == ActTime /\ WrtTime /\ PreTime /\ RefTime /\ TimersRest

\* Where no read is under way.
DrainedStates == Init0 \cup {"ST_PRECHARGE", "ST_PRECHARGE_WAIT", "ST_ACTIVATE",
                             "ST_ACTIVATE_WAIT", "ST_REFRESH", "ST_REFRESH_WAIT"}
Columns == {"ST_CAS0", "ST_CAS1"}

\* The read pipeline of the controller covers the one of the device, and is
\* empty while a row changes or a write is under way.
PipesAgree ==
  /\ \A i \in 1 .. CasLatency : chip.out[i] # NoData => c.rd_pipe[i - 1]
  /\ c.state \in DrainedStates => rd_idle
  /\ c.state \in Columns /\ c.req.we => rd_idle
  /\ c.state = "ST_CAS1" /\ ~c.req.we => c.rd_pipe[0]

SdramInv == CtlType /\ MasterType /\ ChipType /\ RowsFit /\ Times /\ PipesAgree

-----------------------------------------------------------------------------
(* The generics and the history counters.                                  *)

LEMMA Generics ==
  /\ RcdCycles \in Nat /\ RcdCycles > 0 /\ RpCycles \in Nat /\ RpCycles > 0
  /\ RasCycles \in Nat /\ RasCycles > 0 /\ RfcCycles \in Nat /\ RfcCycles > 0
  /\ WrCycles \in Nat /\ WrCycles > 0 /\ InitCycles \in Nat /\ InitCycles > 0
  /\ T_MRD_Cycles \in Nat /\ T_MRD_Cycles > 0 /\ RefreshCycles \in Nat
  /\ CasLatency \in 2 .. 3
<1>1. \A n \in {InitCycles, RcdCycles, RpCycles, RasCycles, RfcCycles, WrCycles,
                T_MRD_Cycles, RefreshCycles, InitRefreshCount} : n \in Nat /\ n > 0
  <2>1. \A n \in Nat \ {0} : n > 0
    OBVIOUS
  <2> QED
    BY <2>1, SdramAssumption, Zenon DEF SdramAssumption
<1>2. CasLatency \in 2 .. 3
  BY SdramAssumption DEF SdramAssumption
<1> QED
  BY <1>1, <1>2

LEMMA LongAgoCovers ==
  /\ LongAgo \in Nat
  /\ LongAgo >= RcdCycles /\ LongAgo >= RpCycles /\ LongAgo >= RasCycles /\ LongAgo >= WrCycles
<1> DEFINE S == {RcdCycles, RpCycles, RasCycles, WrCycles}
<1>1. \E x \in S : \A y \in S : x >= y
  BY Generics
<1>2. LongAgo \in S /\ \A y \in S : LongAgo >= y
  BY <1>1 DEF LongAgo, Max
<1> QED
  BY <1>2, Generics

\* What the longest time to drain covers.
LEMMA DrainBounds ==
  /\ DrainCycles \in Nat /\ DrainCycles >= CasLatency + 1
  /\ DrainCycles + 1 >= WrCycles /\ DrainCycles + RcdCycles + 2 >= RasCycles
<1> DEFINE S == {CasLatency + 1, sub_clip(WrCycles, 1), sub_clip(RasCycles, RcdCycles + 2)}
<1>1. CasLatency + 1 \in Nat /\ sub_clip(WrCycles, 1) \in Nat
      /\ sub_clip(RasCycles, RcdCycles + 2) \in Nat
  BY Generics DEF sub_clip
<1>2. \E x \in S : \A y \in S : x >= y
  BY <1>1
<1>3. DrainCycles \in S /\ \A y \in S : DrainCycles >= y
  BY <1>2 DEF DrainCycles, Max
<1>4. DrainCycles \in Nat
  BY <1>1, <1>3
<1>5. sub_clip(WrCycles, 1) + 1 >= WrCycles
      /\ sub_clip(RasCycles, RcdCycles + 2) + RcdCycles + 2 >= RasCycles
  BY Generics DEF sub_clip
<1>6. /\ DrainCycles >= CasLatency + 1 /\ DrainCycles >= sub_clip(WrCycles, 1)
      /\ DrainCycles >= sub_clip(RasCycles, RcdCycles + 2)
  BY <1>3
<1> QED
  BY <1>1, <1>4, <1>5, <1>6, Generics

LEMMA NoRefreshCovers == NoRefresh \in Nat /\ NoRefresh >= RfcCycles
BY Generics, DrainBounds DEF NoRefresh, RefreshLatency

\* A counter of the device does not forget a time it has reached.
LEMMA SinceGrows ==
  ASSUME NEW count \in Nat, NEW now \in BOOLEAN
  PROVE  /\ Since(count, now) \in Nat
         /\ now => Since(count, now) = 1
         /\ ~now => \/ Since(count, now) = count + 1
                    \/ Since(count, now) = count /\ count >= LongAgo
BY LongAgoCovers DEF Since

-----------------------------------------------------------------------------
(* The commands on the pins, and what one edge does to each register.      *)

LEMMA Commands ==
  ASSUME CtlType
  PROVE  /\ Command.op = "ACTIVATE"  <=> c.state = "ST_ACTIVATE"
         /\ Command.op = "PRECHARGE" <=> c.state \in {"ST_INIT_PRECHARGE", "ST_PRECHARGE"}
         /\ Command.op = "REFRESH"   <=> c.state \in {"ST_INIT_REFRESH", "ST_REFRESH"}
         /\ Command.op = "WRITE"     <=> c.state \in Columns /\ c.req.we
         /\ Command.op = "READ"      <=> c.state \in Columns /\ ~c.req.we
         /\ Command.op \in {"ACTIVATE", "READ", "WRITE"} => Command.adr = c.req.adr
<1>1. CASE c.state \in {"ST_INIT_PRECHARGE", "ST_PRECHARGE"}
  BY <1>1 DEF Command, Columns
<1>2. CASE c.state \in {"ST_INIT_REFRESH", "ST_REFRESH"}
  BY <1>2 DEF Command, Columns
<1>3. CASE c.state = "ST_ACTIVATE"
  BY <1>3 DEF Command, Columns
<1>4. CASE c.state \in Columns
  BY <1>4 DEF Command, Columns, CtlType
<1>5. CASE c.state \in States \ ({"ST_INIT_PRECHARGE", "ST_PRECHARGE", "ST_INIT_REFRESH",
                                  "ST_REFRESH", "ST_ACTIVATE"} \cup Columns)
  BY <1>5 DEF Command, Columns
<1> QED
  BY <1>1, <1>2, <1>3, <1>4, <1>5 DEF CtlType

LEMMA ControllerStep ==
  ASSUME Clock
  PROVE  /\ c'.state = NextState
         /\ c'.wait_count = NextWait
         /\ c'.refresh_due = (~(c.state = "ST_IDLE" /\ c.refresh_due) /\ (RefreshTick \/ c.refresh_due))
         /\ c'.refresh_pending = (\/ c.state = "ST_IDLE" /\ c.refresh_due
                                  \/ c.refresh_pending
                                       /\ ~(c.state = "ST_REFRESH_WAIT" /\ c.wait_count = 0))
         /\ c'.req = IF accept THEN [we |-> slave_i.we, adr |-> slave_i.adr, dat |-> slave_i.dat]
                     ELSE c.req
         /\ c'.req_row_hit = (IF c.state = "ST_ACTIVATE" THEN TRUE
                              ELSE IF accept THEN row_hit ELSE c.req_row_hit)
         /\ c'.row_open = ((c.row_open \/ c.state = "ST_ACTIVATE") /\ c.state # "ST_PRECHARGE")
         /\ c'.open = IF c.state = "ST_ACTIVATE"
                      THEN [bank |-> c.req.adr.bank, row |-> c.req.adr.row] ELSE c.open
         /\ c'.ras_timer = IF c.state = "ST_ACTIVATE" THEN sub_clip(RasCycles, 1) ELSE Tick(c.ras_timer)
         /\ c'.wr_timer = IF dq_oe THEN sub_clip(WrCycles, 1) ELSE Tick(c.wr_timer)
         /\ c'.rd_pipe = NextPipe(c.rd_pipe, Reads)
BY DEF Clock, ControllerEdge

LEMMA DeviceStep ==
  ASSUME Clock
  PROVE  /\ chip'.row = CASE Command.op = "PRECHARGE" -> [b \in Banks |-> NoRow]
                          [] Command.op = "ACTIVATE"  ->
                               [chip.row EXCEPT ![Command.adr.bank] = Command.adr.row]
                          [] OTHER -> chip.row
         /\ chip'.act = Since(chip.act, Command.op = "ACTIVATE")
         /\ chip'.pre = Since(chip.pre, Command.op = "PRECHARGE")
         /\ chip'.wrt = Since(chip.wrt, Command.op = "WRITE")
         /\ chip'.ref = IF Command.op = "REFRESH" THEN 1
                        ELSE IF chip.ref < NoRefresh THEN chip.ref + 1 ELSE chip.ref
         /\ chip'.out = [i \in 1 .. CasLatency |->
                           IF i > 1 THEN chip.out[i - 1]
                           ELSE IF Command.op = "READ" THEN chip.cell[Command.adr][Command.half] ELSE NoData]
BY DEF Clock, ChipEdge

-----------------------------------------------------------------------------
(* Types.                                                                  *)

LEMMA SomeAdr == (CHOOSE a \in Adrs : TRUE) \in Adrs
BY SdramAssumption DEF SdramAssumption

LEMMA RequestType ==
  ASSUME NEW r \in Requests \cup {NoRequest}
  PROVE  r.adr \in Adrs /\ r.cyc \in BOOLEAN /\ r.stb \in BOOLEAN /\ r.we \in BOOLEAN
<1>1. CASE r \in [cyc : {TRUE}, stb : {TRUE}, we : {TRUE}, adr : Adrs, dat : Values]
  BY <1>1
<1>2. CASE r \in [cyc : {TRUE}, stb : {TRUE}, we : {FALSE}, adr : Adrs, dat : {Blank}]
  BY <1>2
<1>3. CASE r = NoRequest
  BY <1>3, SomeAdr DEF NoRequest
<1> QED
  BY <1>1, <1>2, <1>3 DEF Requests

LEMMA InitTypes == Init => CtlType /\ MasterType /\ ChipType
<1> SUFFICES ASSUME Init
             PROVE  CtlType /\ MasterType /\ ChipType
  OBVIOUS
<1>1. CtlType
  <2>1. /\ c.state = "ST_INIT_WAIT" /\ c.wait_count = InitCycles - 1
        /\ c.ras_timer = 0 /\ c.wr_timer = 0
        /\ ~c.row_open /\ ~c.req_row_hit /\ ~c.refresh_pending /\ ~c.refresh_due
    BY DEF Init, ControllerReset
  <2>2. c.row_open \in BOOLEAN /\ c.req_row_hit \in BOOLEAN
        /\ c.refresh_pending \in BOOLEAN /\ c.refresh_due \in BOOLEAN
    BY DEF Init, ControllerReset
  <2>3. c.req.adr \in Adrs /\ c.req.we \in BOOLEAN /\ c.open.bank \in Banks
    BY SomeAdr DEF Init, ControllerReset, Banks
  <2>4. c.rd_pipe = [i \in 0 .. CasLatency |-> FALSE]
    BY DEF Init, ControllerReset
  <2> QED
    BY <2>1, <2>2, <2>3, <2>4, Generics DEF CtlType, States, Init0
<1>2. MasterType
  BY RequestType DEF Init, MasterType
<1>3. ChipType
  BY LongAgoCovers, NoRefreshCovers DEF Init, ChipReset, ChipType
<1> QED
  BY <1>1, <1>2, <1>3

LEMMA NextStateType ==
  ASSUME CtlType
  PROVE  NextState \in States /\ NextWait \in Nat
<1>1. NextState \in States
  BY DEF CtlType, NextState, AfterWait, AfterAccept, AfterDrain, AfterPrecharge, States, Init0, Waits
<1>2. NextWait \in Nat
  <2>1. RcdWait \in Nat /\ RpWait \in Nat /\ RfcWait \in Nat
    BY Generics DEF RcdWait, RpWait, RfcWait, sub_clip
  <2>2. RpCycles - 1 \in Nat /\ RfcCycles - 1 \in Nat /\ T_MRD_Cycles - 1 \in Nat
    BY Generics
  <2>3. c.wait_count \in Nat /\ (c.wait_count # 0 => c.wait_count - 1 \in Nat)
    BY DEF CtlType
  <2>4. CASE c.state \in Waits
    BY <2>3, <2>4 DEF NextWait, Waits
  <2>5. CASE c.state \notin Waits
    BY <2>1, <2>2, <2>3, <2>5 DEF NextWait, Waits
  <2> QED
    BY <2>4, <2>5
<1> QED
  BY <1>1, <1>2

LEMMA TypesStep ==
  ASSUME CtlType, MasterType, ChipType, Clock
  PROVE  CtlType' /\ MasterType' /\ ChipType'
<1>1. CtlType'
  <2>1. c'.state \in States /\ c'.wait_count \in Nat
    BY ControllerStep, NextStateType
  <2>2. c'.ras_timer \in Nat /\ c'.wr_timer \in Nat
    BY ControllerStep, Generics DEF CtlType, Tick, sub_clip
  <2>3. /\ c'.row_open \in BOOLEAN /\ c'.req_row_hit \in BOOLEAN
        /\ c'.refresh_pending \in BOOLEAN /\ c'.refresh_due \in BOOLEAN
    BY ControllerStep, Zenon DEF CtlType, row_hit
  <2>4. c'.req.adr \in Adrs /\ c'.req.we \in BOOLEAN
    BY ControllerStep DEF CtlType, MasterType
  <2>5. c'.open.bank \in Banks
    BY ControllerStep DEF CtlType, Banks
  <2>6. c'.rd_pipe \in [0 .. CasLatency -> BOOLEAN]
    <3>1. Reads \in BOOLEAN
      BY DEF Reads
    <3>2. \A i \in 0 .. CasLatency : i # 0 => i - 1 \in 0 .. CasLatency
      BY Generics
    <3> QED
      BY <3>1, <3>2, ControllerStep DEF CtlType, NextPipe
  <2> QED
    BY <2>1, <2>2, <2>3, <2>4, <2>5, <2>6 DEF CtlType
<1>2. MasterType'
  <2>1. slave_i' \in {slave_i} \cup (Requests \cup {NoRequest})
    BY DEF Clock, MasterNext
  <2> QED
    BY <2>1, RequestType DEF MasterType
<1>3. ChipType'
  <2>1. DOMAIN chip'.row = Banks
    <3>1. CASE Command.op = "PRECHARGE"
      BY <3>1, DeviceStep
    <3>2. CASE Command.op = "ACTIVATE"
      BY <3>2, DeviceStep DEF ChipType
    <3>3. CASE Command.op # "PRECHARGE" /\ Command.op # "ACTIVATE"
      BY <3>3, DeviceStep DEF ChipType
    <3> QED
      BY <3>1, <3>2, <3>3
  <2>2. chip'.act \in Nat /\ chip'.pre \in Nat /\ chip'.wrt \in Nat
    BY DeviceStep, SinceGrows DEF ChipType
  <2>3. chip'.ref \in Nat
    BY DeviceStep DEF ChipType
  <2>4. DOMAIN chip'.out = 1 .. CasLatency
    BY DeviceStep
  <2> QED
    BY <2>1, <2>2, <2>3, <2>4 DEF ChipType
<1> QED
  BY <1>1, <1>2, <1>3

-----------------------------------------------------------------------------
(* The rows.                                                               *)

\* A request that is taken with a row hit finds its row open after the edge.
LEMMA AcceptedHit ==
  ASSUME CtlType, Clock, accept, row_hit
  PROVE  OpenForReq'
<1>1. c.state \in {"ST_IDLE", "ST_CAS1"} /\ c.row_open
  BY DEF accept, ready, row_hit
<1>2. c'.row_open /\ c'.open = c.open
  BY <1>1, ControllerStep
<1>3. c'.req.adr = slave_i.adr
  BY ControllerStep
<1> QED
  BY <1>1, <1>2, <1>3 DEF OpenForReq, row_hit

\* What OpenForReq reads stays unless a request is taken or the row changes.
LEMMA OpenKept ==
  ASSUME Clock, ~accept, c.state \notin {"ST_ACTIVATE", "ST_PRECHARGE"}, OpenForReq
  PROVE  OpenForReq'
BY ControllerStep DEF OpenForReq

\* How the states of each kind are reached.
LEMMA ToClosed ==
  ASSUME CtlType, NextState \in ClosedStates
  PROVE  \/ c.state \in ClosedStates \ {"ST_ACTIVATE"}
         \/ c.state = "ST_PRECHARGE"
         \/ c.state = "ST_DRAIN" /\ ~c.row_open
<1>1. CASE c.state \in {"ST_IDLE", "ST_CAS1"}
  BY <1>1 DEF NextState, AfterAccept, ClosedStates, Init0, Waits
<1>2. CASE c.state \in {"ST_ACTIVATE", "ST_ACTIVATE_WAIT", "ST_CAS0"}
  BY <1>2 DEF NextState, AfterWait, ClosedStates, Init0, Waits
<1>3. CASE c.state = "ST_DRAIN"
  BY <1>3 DEF NextState, AfterDrain, ClosedStates, Init0, Waits
<1> QED
  BY <1>1, <1>2, <1>3 DEF CtlType, States, ClosedStates

LEMMA ToOpen ==
  ASSUME CtlType, NextState \in OpenStates
  PROVE  \/ c.state \in {"ST_ACTIVATE", "ST_ACTIVATE_WAIT", "ST_CAS0"}
         \/ accept /\ row_hit
         \/ c.state = "ST_DRAIN" /\ ~c.refresh_pending /\ c.req_row_hit
<1>1. CASE c.state \in {"ST_IDLE", "ST_CAS1"}
  BY <1>1 DEF NextState, AfterAccept, OpenStates, Waits
<1>2. CASE c.state = "ST_DRAIN"
  BY <1>2 DEF NextState, AfterDrain, OpenStates, Waits
<1>3. CASE c.state \in Init0 \cup {"ST_PRECHARGE", "ST_PRECHARGE_WAIT", "ST_REFRESH", "ST_REFRESH_WAIT"}
  BY <1>3 DEF NextState, AfterWait, AfterPrecharge, OpenStates, Init0, Waits
<1> QED
  BY <1>1, <1>2, <1>3 DEF CtlType, States

LEMMA ToDrain ==
  ASSUME CtlType, NextState = "ST_DRAIN"
  PROVE  \/ c.state = "ST_IDLE" /\ c.refresh_due
         \/ accept
         \/ c.state = "ST_DRAIN"
<1>1. CASE c.state \in {"ST_IDLE", "ST_CAS1"}
  BY <1>1 DEF NextState, Waits
<1>2. CASE c.state \in States \ {"ST_IDLE", "ST_CAS1", "ST_DRAIN"}
  BY <1>2 DEF NextState, AfterWait, AfterPrecharge, States, Init0, Waits
<1> QED
  BY <1>1, <1>2 DEF CtlType

LEMMA RowsStep ==
  ASSUME CtlType, MasterType, ChipType, RowsFit, Clock
  PROVE  RowsFit'
<1>1. RowsAgree'
  <2>1. CASE c.state = "ST_ACTIVATE"
    <3>1. chip'.row = [chip.row EXCEPT ![c.req.adr.bank] = c.req.adr.row]
      BY <2>1, Commands, DeviceStep
    <3>2. c'.row_open /\ c'.open = [bank |-> c.req.adr.bank, row |-> c.req.adr.row]
      BY <2>1, ControllerStep
    <3>3. c.req.adr.bank \in DOMAIN chip.row
      BY DEF CtlType, ChipType, Banks
    <3> QED
      BY <3>1, <3>2, <3>3 DEF RowsAgree
  <2>2. CASE c.state \in {"ST_PRECHARGE", "ST_INIT_PRECHARGE"}
    <3>1. chip'.row = [b \in Banks |-> NoRow]
      BY <2>2, Commands, DeviceStep
    <3>2. ~c'.row_open
      BY <2>2, ControllerStep DEF RowsFit, ClosedStates, Init0
    <3> QED
      BY <3>1, <3>2 DEF RowsAgree
  <2>3. CASE c.state \notin {"ST_ACTIVATE", "ST_PRECHARGE", "ST_INIT_PRECHARGE"}
    <3>1. chip'.row = chip.row
      BY <2>3, Commands, DeviceStep
    <3>2. c'.row_open = c.row_open /\ c'.open = c.open
      BY <2>3, ControllerStep DEF CtlType
    <3> QED
      BY <3>1, <3>2 DEF RowsAgree, RowsFit
  <2> QED
    BY <2>1, <2>2, <2>3
<1>2. c'.state \in ClosedStates => ~c'.row_open
  BY ToClosed, ControllerStep DEF RowsFit, ClosedStates
<1>3. c'.state \in OpenStates => OpenForReq'
  <2> SUFFICES ASSUME c'.state \in OpenStates
               PROVE  OpenForReq'
    OBVIOUS
  <2>1. CASE c.state = "ST_ACTIVATE"
    <3>1. ~accept
      BY <2>1 DEF accept, ready
    <3>2. c'.row_open /\ c'.open = [bank |-> c.req.adr.bank, row |-> c.req.adr.row]
      BY <2>1, ControllerStep
    <3>3. c'.req = c.req
      BY <3>1, ControllerStep
    <3> QED
      BY <3>2, <3>3 DEF OpenForReq
  <2>2. CASE c.state \in {"ST_ACTIVATE_WAIT", "ST_CAS0"}
    <3>1. ~accept
      BY <2>2 DEF accept, ready
    <3> QED
      BY <2>2, <3>1, OpenKept DEF RowsFit, OpenStates
  <2>3. CASE accept /\ row_hit
    BY <2>3, AcceptedHit
  <2>4. CASE c.state = "ST_DRAIN" /\ ~c.refresh_pending /\ c.req_row_hit
    <3>1. ~accept
      BY <2>4 DEF accept, ready
    <3> QED
      BY <2>4, <3>1, OpenKept DEF RowsFit
  <2> QED
    BY <2>1, <2>2, <2>3, <2>4, ToOpen, ControllerStep
<1>4. c'.state = "ST_DRAIN" /\ ~c'.refresh_pending /\ c'.req_row_hit => OpenForReq'
  <2> SUFFICES ASSUME c'.state = "ST_DRAIN", ~c'.refresh_pending, c'.req_row_hit
               PROVE  OpenForReq'
    OBVIOUS
  <2>1. ~(c.state = "ST_IDLE" /\ c.refresh_due)
    BY ControllerStep
  <2>2. CASE accept
    <3>1. row_hit
      BY <2>2, ControllerStep DEF accept, ready
    <3> QED
      BY <2>2, <3>1, AcceptedHit
  <2>3. CASE c.state = "ST_DRAIN"
    <3>1. ~accept
      BY <2>3 DEF accept, ready
    <3>2. ~c.refresh_pending /\ c.req_row_hit
      BY <2>3, <3>1, ControllerStep
    <3> QED
      BY <2>3, <3>1, <3>2, OpenKept DEF RowsFit
  <2> QED
    BY <2>1, <2>2, <2>3, ToDrain, ControllerStep
<1> QED
  BY <1>1, <1>2, <1>3, <1>4 DEF RowsFit

-----------------------------------------------------------------------------
(* The times.                                                              *)

\* The counter of a command and the timer the controller loads at it, minus
\* one for each cycle: their sum does not fall below the time T.
LEMMA TimerCovers ==
  ASSUME NEW T \in Nat, T > 0, T <= LongAgo,
         NEW count \in Nat, NEW timer \in Nat, NEW now \in BOOLEAN, count + timer >= T
  PROVE  Since(count, now) + (IF now THEN sub_clip(T, 1) ELSE Tick(timer)) >= T
<1>1. CASE now
  <2>1. Since(count, now) = 1
    BY <1>1, SinceGrows
  <2>2. sub_clip(T, 1) + 1 >= T /\ sub_clip(T, 1) \in Nat
    BY DEF sub_clip
  <2>3. (IF now THEN sub_clip(T, 1) ELSE Tick(timer)) = sub_clip(T, 1)
    BY <1>1
  <2> QED
    BY <2>1, <2>2, <2>3
<1>2. CASE ~now
  <2>1. Tick(timer) \in Nat /\ Tick(timer) + 1 >= timer
    BY DEF Tick
  <2>2. \/ Since(count, now) = count + 1
        \/ Since(count, now) = count /\ count >= LongAgo
    BY <1>2, SinceGrows
  <2> QED
    BY <1>2, <2>1, <2>2, LongAgoCovers
<1> QED
  BY <1>1, <1>2

\* Without its command a counter has one cycle more, or has long covered T:
\* what is left to wait may become one less.
LEMMA CountCovers ==
  ASSUME NEW T \in Nat, T <= LongAgo, NEW count \in Nat, NEW now \in BOOLEAN, ~now,
         NEW left \in Nat, NEW next \in Nat, next + 1 >= left, count + left >= T
  PROVE  Since(count, now) + next >= T
<1>1. \/ Since(count, now) = count + 1
      \/ Since(count, now) = count /\ count >= LongAgo
  BY SinceGrows
<1>2. LongAgo \in Nat
  BY LongAgoCovers
<1> QED
  BY <1>1, <1>2

\* A state that waits stays and counts down, and leaves at zero.
LEMMA WaitStep ==
  ASSUME CtlType, Clock, c.state \in Waits
  PROVE  IF c.wait_count = 0 THEN c'.state # c.state
         ELSE c'.state = c.state /\ c'.wait_count = c.wait_count - 1
<1>1. /\ c'.state = IF c.wait_count = 0 THEN AfterWait ELSE c.state
      /\ c.wait_count # 0 => c'.wait_count = c.wait_count - 1
  BY ControllerStep DEF NextState, NextWait, Waits
<1>2. AfterWait # c.state
  BY DEF AfterWait, AfterPrecharge, Waits
<1> QED
  BY <1>1, <1>2

\* What is left to wait after the command each wait is for, and that it goes
\* down by one at most.
LEMMA LeftStep ==
  ASSUME CtlType, Clock
  PROVE  /\ RcdLeft \in Nat /\ RcdLeft' \in Nat /\ RpLeft \in Nat /\ RpLeft' \in Nat
         /\ RfcLeft \in Nat /\ RfcLeft' \in Nat
         /\ IF c.state = "ST_ACTIVATE" THEN RcdLeft' + 1 >= RcdCycles ELSE RcdLeft' + 1 >= RcdLeft
         /\ IF c.state \in {"ST_PRECHARGE", "ST_INIT_PRECHARGE"}
            THEN RpLeft' + 1 >= RpCycles ELSE RpLeft' + 1 >= RpLeft
         /\ IF c.state \in {"ST_REFRESH", "ST_INIT_REFRESH"}
            THEN RfcLeft' + 1 >= RfcCycles ELSE RfcLeft' + 1 >= RfcLeft
<1>1. c.wait_count \in Nat /\ c'.wait_count \in Nat
  BY ControllerStep, NextStateType DEF CtlType
<1>2. /\ RcdLeft \in Nat /\ RcdLeft' \in Nat /\ RpLeft \in Nat /\ RpLeft' \in Nat
      /\ RfcLeft \in Nat /\ RfcLeft' \in Nat
  BY <1>1 DEF RcdLeft, RpLeft, RfcLeft
<1>3. CASE c.state \in Waits
  <2>1. RcdLeft' + 1 >= RcdLeft
    BY <1>1, <1>3, WaitStep DEF RcdLeft, Waits
  <2>2. RpLeft' + 1 >= RpLeft
    BY <1>1, <1>3, WaitStep DEF RpLeft, Waits
  <2>3. RfcLeft' + 1 >= RfcLeft
    BY <1>1, <1>3, WaitStep DEF RfcLeft, Waits
  <2> QED
    BY <1>2, <1>3, <2>1, <2>2, <2>3 DEF Waits
<1>4. CASE c.state \notin Waits
  <2>1. RcdLeft = 0 /\ RpLeft = 0 /\ RfcLeft = 0
    BY <1>4 DEF RcdLeft, RpLeft, RfcLeft, Waits
  <2>2. c.state = "ST_ACTIVATE" => RcdLeft' + 1 >= RcdCycles
    <3>1. c.state = "ST_ACTIVATE" =>
            c'.state = (IF RcdCycles > 1 THEN "ST_ACTIVATE_WAIT" ELSE "ST_CAS0")
      BY ControllerStep DEF NextState, Waits
    <3>2. c.state = "ST_ACTIVATE" =>
            c'.wait_count = (IF RcdCycles > 1 THEN RcdWait ELSE c.wait_count)
      BY ControllerStep DEF NextWait, Waits
    <3> QED
      BY <1>1, <3>1, <3>2, Generics DEF RcdLeft, RcdWait, sub_clip
  <2>3. c.state \in {"ST_PRECHARGE", "ST_INIT_PRECHARGE"} => RpLeft' + 1 >= RpCycles
    <3>1. c.state = "ST_PRECHARGE" =>
            c'.state = (IF RpCycles > 1 THEN "ST_PRECHARGE_WAIT" ELSE AfterPrecharge)
      BY ControllerStep DEF NextState, Waits
    <3>2. c.state = "ST_PRECHARGE" =>
            c'.wait_count = (IF RpCycles > 1 THEN RpWait ELSE c.wait_count)
      BY ControllerStep DEF NextWait, Waits
    <3>3. c.state = "ST_PRECHARGE" => RpLeft' + 1 >= RpCycles
      BY <1>1, <3>1, <3>2, Generics DEF RpLeft, RpWait, sub_clip
    <3>4. c.state = "ST_INIT_PRECHARGE" =>
            c'.state = "ST_INIT_PRECHARGE_WAIT" /\ c'.wait_count = RpCycles - 1
      BY ControllerStep DEF NextState, NextWait, Waits
    <3>5. c.state = "ST_INIT_PRECHARGE" => RpLeft' + 1 >= RpCycles
      BY <3>4, Generics DEF RpLeft
    <3> QED
      BY <3>3, <3>5
  <2>4. c.state \in {"ST_REFRESH", "ST_INIT_REFRESH"} => RfcLeft' + 1 >= RfcCycles
    <3>1. c.state = "ST_REFRESH" => c'.state = "ST_REFRESH_WAIT" /\ c'.wait_count = RfcWait
      BY ControllerStep DEF NextState, NextWait, Waits
    <3>2. c.state = "ST_REFRESH" => RfcLeft' + 1 >= RfcCycles
      BY <1>1, <3>1, Generics DEF RfcLeft, RfcWait, sub_clip
    <3>3. c.state = "ST_INIT_REFRESH" =>
            c'.state = "ST_INIT_REFRESH_WAIT" /\ c'.wait_count = RfcCycles - 1
      BY ControllerStep DEF NextState, NextWait, Waits
    <3>4. c.state = "ST_INIT_REFRESH" => RfcLeft' + 1 >= RfcCycles
      BY <3>3, Generics DEF RfcLeft
    <3> QED
      BY <3>2, <3>4
  <2>5. RcdLeft' + 1 >= RcdLeft /\ RpLeft' + 1 >= RpLeft /\ RfcLeft' + 1 >= RfcLeft
    <3>1. \A n \in Nat : n + 1 >= 0
      OBVIOUS
    <3> QED
      BY <1>2, <2>1, <3>1, Zenon
  <2> QED
    BY <1>2, <2>2, <2>3, <2>4, <2>5, Zenon
<1> QED
  BY <1>2, <1>3, <1>4

LEMMA ToInit ==
  ASSUME CtlType, NextState \in Init0
  PROVE  c.state \in Init0
<1>1. CASE c.state \in {"ST_IDLE", "ST_CAS1"}
  BY <1>1 DEF NextState, AfterAccept, Init0, Waits
<1>2. CASE c.state = "ST_DRAIN"
  BY <1>2 DEF NextState, AfterDrain, Init0, Waits
<1>3. CASE c.state \in States \ ({"ST_IDLE", "ST_CAS1", "ST_DRAIN"} \cup Init0)
  BY <1>3 DEF NextState, AfterWait, AfterPrecharge, States, Init0, Waits
<1> QED
  BY <1>1, <1>2, <1>3 DEF CtlType

LEMMA ToPrecharge ==
  ASSUME CtlType, NextState = "ST_PRECHARGE"
  PROVE  c.state = "ST_DRAIN" /\ MayClose /\ c.row_open
<1>1. CASE c.state \in {"ST_IDLE", "ST_CAS1"}
  BY <1>1 DEF NextState, AfterAccept, Waits
<1>2. CASE c.state = "ST_DRAIN"
  BY <1>2 DEF NextState, AfterDrain, Waits
<1>3. CASE c.state \in States \ {"ST_IDLE", "ST_CAS1", "ST_DRAIN"}
  BY <1>3 DEF NextState, AfterWait, AfterPrecharge, States, Init0, Waits
<1> QED
  BY <1>1, <1>2, <1>3 DEF CtlType

LEMMA TimesStep ==
  ASSUME CtlType, MasterType, ChipType, Times, Clock
  PROVE  Times'
<1>1. /\ chip.act \in Nat /\ chip.pre \in Nat /\ chip.wrt \in Nat /\ chip.ref \in Nat
      /\ chip'.ref \in Nat
      /\ c.ras_timer \in Nat /\ c.wr_timer \in Nat
  BY TypesStep DEF CtlType, ChipType
<1>2. ActTime'
  <2> DEFINE now == Command.op = "ACTIVATE"
  <2>1. now <=> c.state = "ST_ACTIVATE"
    BY Commands
  <2>2. chip'.act + c'.ras_timer >= RasCycles
    <3>1. c'.ras_timer = IF now THEN sub_clip(RasCycles, 1) ELSE Tick(c.ras_timer)
      BY <2>1, ControllerStep
    <3>2. chip'.act = Since(chip.act, now)
      BY DeviceStep
    <3>3. chip.act + c.ras_timer >= RasCycles /\ now \in BOOLEAN
      BY DEF Times, ActTime
    <3> HIDE DEF now
    <3> QED
      BY <1>1, <3>1, <3>2, <3>3, TimerCovers, Generics, LongAgoCovers
  <2>3. ASSUME c'.row_open
        PROVE  chip'.act + RcdLeft' >= RcdCycles
    <3>1. CASE now
      <4>1. chip'.act = 1
        BY <1>1, <3>1, DeviceStep, SinceGrows
      <4> QED
        BY <2>1, <3>1, <4>1, LeftStep, Generics
    <3>2. CASE ~now
      <4>1. c.row_open
        BY <2>1, <2>3, <3>2, ControllerStep
      <4>2. chip.act + RcdLeft >= RcdCycles
        BY <4>1 DEF Times, ActTime
      <4>3. RcdLeft' + 1 >= RcdLeft /\ RcdLeft \in Nat /\ RcdLeft' \in Nat
        BY <2>1, <3>2, LeftStep
      <4>4. chip'.act = Since(chip.act, now) /\ now \in BOOLEAN
        BY DeviceStep
      <4> HIDE DEF now
      <4> QED
        BY <1>1, <3>2, <4>2, <4>3, <4>4, CountCovers, Generics, LongAgoCovers
    <3> QED
      BY <3>1, <3>2
  <2> QED
    BY <2>2, <2>3 DEF ActTime
<1>3. WrtTime'
  <2> DEFINE now == Command.op = "WRITE"
  <2>1. c'.wr_timer = IF now THEN sub_clip(WrCycles, 1) ELSE Tick(c.wr_timer)
    BY ControllerStep DEF dq_oe
  <2>2. chip'.wrt = Since(chip.wrt, now)
    BY DeviceStep
  <2>3. chip.wrt + c.wr_timer >= WrCycles /\ now \in BOOLEAN
    BY DEF Times, WrtTime
  <2> HIDE DEF now
  <2> QED
    BY <1>1, <2>1, <2>2, <2>3, TimerCovers, Generics, LongAgoCovers DEF WrtTime
<1>4. PreTime'
  <2> SUFFICES ASSUME ~c'.row_open
               PROVE  chip'.pre + RpLeft' >= RpCycles
    BY DEF PreTime
  <2> DEFINE now == Command.op = "PRECHARGE"
  <2>1. now <=> c.state \in {"ST_INIT_PRECHARGE", "ST_PRECHARGE"}
    BY Commands
  <2>2. CASE now
    <3>1. chip'.pre = 1
      BY <1>1, <2>2, DeviceStep, SinceGrows
    <3> QED
      BY <2>1, <2>2, <3>1, LeftStep, Generics
  <2>3. CASE ~now
    <3>1. ~c.row_open
      BY <2>1, <2>3, ControllerStep
    <3>2. chip.pre + RpLeft >= RpCycles
      BY <3>1 DEF Times, PreTime
    <3>3. RpLeft' + 1 >= RpLeft /\ RpLeft \in Nat /\ RpLeft' \in Nat
      BY <2>1, <2>3, LeftStep
    <3>4. chip'.pre = Since(chip.pre, now) /\ now \in BOOLEAN
      BY DeviceStep
    <3> HIDE DEF now
    <3> QED
      BY <1>1, <2>3, <3>2, <3>3, <3>4, CountCovers, Generics, LongAgoCovers
  <2> QED
    BY <2>2, <2>3
<1>5. RefTime'
  <2> SUFFICES chip'.ref + RfcLeft' >= RfcCycles
    BY DEF RefTime
  <2>1. Command.op = "REFRESH" <=> c.state \in {"ST_INIT_REFRESH", "ST_REFRESH"}
    BY Commands
  <2>2. CASE Command.op = "REFRESH"
    <3>1. chip'.ref = 1
      BY <2>2, DeviceStep
    <3> QED
      BY <2>1, <2>2, <3>1, LeftStep, Generics
  <2>3. CASE Command.op # "REFRESH"
    <3>1. \/ chip'.ref = chip.ref + 1
          \/ chip'.ref = chip.ref /\ chip.ref >= RfcCycles
      BY <1>1, <2>3, DeviceStep, NoRefreshCovers, Generics
    <3>2. RfcLeft' + 1 >= RfcLeft /\ RfcLeft \in Nat /\ RfcLeft' \in Nat
      BY <2>1, <2>3, LeftStep
    <3>3. chip.ref + RfcLeft >= RfcCycles
      BY DEF Times, RefTime
    <3>4. \A k, n, m, T \in Nat : k + n >= T /\ m + 1 >= n => (k + 1) + m >= T
      OBVIOUS
    <3>5. \A k, m, T \in Nat : k >= T => k + m >= T
      OBVIOUS
    <3>6. RfcCycles \in Nat
      BY Generics
    <3>7. CASE chip'.ref = chip.ref + 1
      BY <1>1, <3>2, <3>3, <3>4, <3>6, <3>7, Zenon
    <3>8. CASE chip'.ref = chip.ref /\ chip.ref >= RfcCycles
      BY <1>1, <3>2, <3>5, <3>6, <3>8, Zenon
    <3> QED
      BY <3>1, <3>7, <3>8
  <2> QED
    BY <2>2, <2>3
<1>6. TimersRest'
  <2> SUFFICES ASSUME c'.state \in Init0 \cup {"ST_PRECHARGE"}
               PROVE  c'.ras_timer = 0 /\ c'.wr_timer = 0
    BY DEF TimersRest
  <2>1. c.state \in Init0 \cup {"ST_DRAIN"} /\ c.ras_timer = 0 /\ c.wr_timer = 0
    BY ToInit, ToPrecharge, ControllerStep DEF Times, TimersRest, MayClose
  <2>2. c.state # "ST_ACTIVATE" /\ ~dq_oe
    BY <2>1, Commands DEF Init0, dq_oe, Columns
  <2> QED
    BY <2>1, <2>2, ControllerStep DEF Tick
<1> QED
  BY <1>2, <1>3, <1>4, <1>5, <1>6 DEF Times

-----------------------------------------------------------------------------
(* The pipelines.                                                          *)

\* How states with an empty pipeline are reached.
LEMMA ToDrained ==
  ASSUME CtlType, NextState \in DrainedStates
  PROVE  c.state \in DrainedStates \/ (c.state = "ST_DRAIN" /\ rd_idle)
<1>1. CASE c.state \in {"ST_IDLE", "ST_CAS1"}
  BY <1>1 DEF NextState, AfterAccept, DrainedStates, Init0, Waits
<1>2. CASE c.state = "ST_DRAIN"
  BY <1>2 DEF NextState, AfterDrain, MayClose, DrainedStates, Init0, Waits
<1>3. CASE c.state = "ST_CAS0"
  BY <1>3 DEF NextState, DrainedStates, Init0, Waits
<1> QED
  BY <1>1, <1>2, <1>3 DEF CtlType, States, DrainedStates

\* A column is reached with an empty pipeline, or for a read, or in a burst.
LEMMA ToColumns ==
  ASSUME CtlType, NextState \in Columns
  PROVE  \/ accept /\ (~slave_i.we \/ rd_idle)
         \/ c.state = "ST_DRAIN" /\ (~c.req.we \/ rd_idle)
         \/ c.state \in {"ST_ACTIVATE", "ST_ACTIVATE_WAIT"}
         \/ c.state = "ST_CAS0"
<1>1. CASE c.state \in {"ST_IDLE", "ST_CAS1"}
  BY <1>1 DEF NextState, AfterAccept, Columns, Waits
<1>2. CASE c.state = "ST_DRAIN"
  BY <1>2 DEF NextState, AfterDrain, Columns, Waits
<1>3. CASE c.state \in Init0 \cup {"ST_PRECHARGE", "ST_PRECHARGE_WAIT", "ST_REFRESH", "ST_REFRESH_WAIT"}
  BY <1>3 DEF NextState, AfterWait, AfterPrecharge, Columns, Init0, Waits
<1> QED
  BY <1>1, <1>2, <1>3 DEF CtlType, States

LEMMA ToHighColumn ==
  ASSUME CtlType, NextState = "ST_CAS1"
  PROVE  c.state = "ST_CAS0"
<1>1. CASE c.state \in {"ST_IDLE", "ST_CAS1"}
  BY <1>1 DEF NextState, AfterAccept, Waits
<1>2. CASE c.state = "ST_DRAIN"
  BY <1>2 DEF NextState, AfterDrain, Waits
<1>3. CASE c.state \in States \ {"ST_IDLE", "ST_CAS0", "ST_CAS1", "ST_DRAIN"}
  BY <1>3 DEF NextState, AfterWait, AfterPrecharge, States, Init0, Waits
<1> QED
  BY <1>1, <1>2, <1>3 DEF CtlType

LEMMA IdleKept ==
  ASSUME Clock, rd_idle, ~Reads
  PROVE  rd_idle'
<1>1. c'.rd_pipe = [i \in 0 .. CasLatency |-> IF i = 0 THEN Reads ELSE c.rd_pipe[i - 1]]
  BY ControllerStep DEF NextPipe
<1>2. \A i \in 0 .. CasLatency : i # 0 => i - 1 \in 0 .. CasLatency
  BY Generics
<1> QED
  BY <1>1, <1>2 DEF rd_idle

LEMMA PipesStep ==
  ASSUME CtlType, MasterType, ChipType, PipesAgree, Clock
  PROVE  PipesAgree'
<1>1. c'.rd_pipe = [i \in 0 .. CasLatency |-> IF i = 0 THEN Reads ELSE c.rd_pipe[i - 1]]
  BY ControllerStep DEF NextPipe
<1>2. 0 \in 0 .. CasLatency /\ \A i \in 1 .. CasLatency : i - 1 \in 0 .. CasLatency
  BY Generics
<1>3. ASSUME NEW i \in 1 .. CasLatency, chip'.out[i] # NoData
      PROVE  c'.rd_pipe[i - 1]
  <2>1. CASE i = 1
    <3>0. chip'.out[i] = IF i > 1 THEN chip.out[i - 1]
                         ELSE IF Command.op = "READ" THEN chip.cell[Command.adr][Command.half]
                         ELSE NoData
      BY DeviceStep
    <3>1. Command.op = "READ"
      BY <1>3, <2>1, <3>0
    <3>2. Reads
      BY <3>1, Commands DEF Reads, Columns
    <3>3. c'.rd_pipe[0] = Reads
      BY <1>1, <1>2
    <3>4. i - 1 = 0
      BY <2>1
    <3> QED
      BY <3>2, <3>3, <3>4, Zenon
  <2>2. CASE i # 1
    <3>1. i - 1 \in 1 .. CasLatency /\ i > 1 /\ i - 1 # 0 /\ i - 1 \in 0 .. CasLatency
      BY <2>2, Generics
    <3>2. chip'.out[i] = chip.out[i - 1]
      BY <3>1, DeviceStep
    <3>3. c'.rd_pipe[i - 1] = c.rd_pipe[(i - 1) - 1]
      BY <1>1, <3>1
    <3>4. c.rd_pipe[(i - 1) - 1]
      BY <1>3, <3>1, <3>2 DEF PipesAgree
    <3> QED
      BY <3>3, <3>4
  <2> QED
    BY <2>1, <2>2
<1>4. ASSUME c'.state \in DrainedStates
      PROVE  rd_idle'
  <2>1. rd_idle /\ c.state \in DrainedStates \cup {"ST_DRAIN"}
    BY <1>4, ToDrained, ControllerStep DEF PipesAgree
  <2>2. ~Reads
    BY <2>1 DEF Reads, DrainedStates, Init0
  <2> QED
    BY <2>1, <2>2, IdleKept
<1>5. ASSUME c'.state \in Columns, c'.req.we
      PROVE  rd_idle'
  <2> SUFFICES rd_idle /\ ~Reads
    BY IdleKept
  <2>1. CASE accept
    <3>1. c.state \in {"ST_IDLE", "ST_CAS1"} /\ slave_i.we
      BY <1>5, <2>1, ControllerStep DEF accept, ready
    <3>2. rd_idle
      BY <1>5, <3>1, ToColumns, ControllerStep
    <3>3. ~c.rd_pipe[0]
      BY <1>2, <3>2 DEF rd_idle
    <3> QED
      BY <3>1, <3>2, <3>3 DEF Reads, PipesAgree
  <2>2. CASE ~accept
    <3>1. c.req.we
      BY <1>5, <2>2, ControllerStep
    <3>2. rd_idle
      BY <1>5, <2>2, <3>1, ToColumns, ControllerStep DEF PipesAgree, DrainedStates, Columns
    <3> QED
      BY <3>1, <3>2 DEF Reads
  <2> QED
    BY <2>1, <2>2
<1>6. ASSUME c'.state = "ST_CAS1", ~c'.req.we
      PROVE  c'.rd_pipe[0]
  <2>1. c.state = "ST_CAS0"
    BY <1>6, ToHighColumn, ControllerStep
  <2>2. ~accept
    BY <2>1 DEF accept, ready
  <2>3. Reads
    BY <1>6, <2>1, <2>2, ControllerStep DEF Reads
  <2> QED
    BY <1>1, <1>2, <2>3
<1> QED
  BY <1>3, <1>4, <1>5, <1>6 DEF PipesAgree

-----------------------------------------------------------------------------
(* The theorems.                                                           *)

LEMMA InitInv == Init => SdramInv
<1> SUFFICES ASSUME Init
             PROVE  SdramInv
  OBVIOUS
<1>1. /\ c.state = "ST_INIT_WAIT" /\ ~c.row_open /\ ~c.refresh_pending
      /\ c.ras_timer = 0 /\ c.wr_timer = 0
      /\ c.rd_pipe = [i \in 0 .. CasLatency |-> FALSE]
  BY DEF Init, ControllerReset
<1>2. /\ chip.row = [b \in Banks |-> NoRow]
      /\ chip.act = LongAgo /\ chip.pre = LongAgo /\ chip.wrt = LongAgo /\ chip.ref = NoRefresh
      /\ chip.out = [i \in 1 .. CasLatency |-> NoData]
  BY DEF Init, ChipReset
<1>3. RowsFit
  BY <1>1, <1>2 DEF RowsFit, RowsAgree, ClosedStates, OpenStates, Init0
<1>4. Times
  <2>1. RcdLeft = 0 /\ RpLeft = 0 /\ RfcLeft = 0
    BY <1>1 DEF RcdLeft, RpLeft, RfcLeft
  <2> QED
    BY <1>1, <1>2, <2>1, LongAgoCovers, NoRefreshCovers, Generics
       DEF Times, ActTime, WrtTime, PreTime, RefTime, TimersRest
<1>5. PipesAgree
  BY <1>1, <1>2, Generics DEF PipesAgree, rd_idle, Columns
<1> QED
  BY InitTypes, <1>3, <1>4, <1>5 DEF SdramInv

LEMMA StepInv == SdramInv /\ [Clock]_vars => SdramInv'
<1>1. ASSUME SdramInv, Clock
      PROVE  SdramInv'
  BY <1>1, TypesStep, RowsStep, TimesStep, PipesStep DEF SdramInv
<1>2. ASSUME SdramInv, UNCHANGED vars
      PROVE  SdramInv'
  BY <1>2 DEF vars, SdramInv, CtlType, MasterType, ChipType, RowsFit, RowsAgree, OpenForReq,
              Times, ActTime, WrtTime, PreTime, RefTime, TimersRest, RcdLeft, RpLeft, RfcLeft,
              PipesAgree, rd_idle
<1> QED
  BY <1>1, <1>2

LEMMA Invariance == Spec => []SdramInv
BY InitInv, StepInv, PTL DEF Spec

LEMMA InvTiming == SdramInv => TimingIsKept
<1> SUFFICES ASSUME SdramInv
             PROVE  TimingIsKept
  OBVIOUS
<1>1. /\ CtlType /\ RowsFit /\ Times
      /\ chip.act \in Nat /\ chip.pre \in Nat /\ chip.ref \in Nat /\ chip.wrt \in Nat
  BY DEF SdramInv, ChipType
<1>2. CASE c.state \in {"ST_ACTIVATE", "ST_INIT_REFRESH", "ST_REFRESH"}
  <2>1. ~c.row_open /\ RpLeft = 0 /\ RfcLeft = 0
    BY <1>1, <1>2 DEF RowsFit, ClosedStates, Init0, RpLeft, RfcLeft
  <2>2. \A b \in Banks : chip.row[b] = NoRow
    BY <1>1, <2>1 DEF RowsFit, RowsAgree
  <2>3. chip.pre >= RpCycles /\ chip.ref >= RfcCycles
    BY <1>1, <2>1, Generics DEF Times, PreTime, RefTime
  <2>4. Command.op \in {"ACTIVATE", "REFRESH"}
    BY <1>1, <1>2, Commands
  <2> QED
    BY <2>2, <2>3, <2>4 DEF TimingIsKept
<1>3. CASE c.state \in Columns
  <2>1. Command.op \in {"READ", "WRITE"} /\ Command.adr = c.req.adr
    BY <1>1, <1>3, Commands DEF CtlType
  <2>2. OpenForReq /\ RcdLeft = 0
    BY <1>1, <1>3 DEF RowsFit, OpenStates, Columns, RcdLeft
  <2>3. chip.row[c.req.adr.bank] = c.req.adr.row
    BY <1>1, <2>2 DEF RowsFit, RowsAgree, OpenForReq
  <2>4. chip.act >= RcdCycles
    BY <1>1, <2>2, Generics DEF Times, ActTime, OpenForReq
  <2> QED
    BY <2>1, <2>3, <2>4 DEF TimingIsKept
<1>4. CASE c.state \in {"ST_INIT_PRECHARGE", "ST_PRECHARGE"}
  <2>1. c.ras_timer = 0 /\ c.wr_timer = 0
    BY <1>1, <1>4 DEF Times, TimersRest, Init0
  <2>2. chip.act >= RasCycles /\ chip.wrt >= WrCycles
    BY <1>1, <2>1, Generics DEF Times, ActTime, WrtTime
  <2>3. Command.op = "PRECHARGE"
    BY <1>1, <1>4, Commands
  <2> QED
    BY <2>2, <2>3 DEF TimingIsKept
<1>5. CASE c.state \notin Columns \cup {"ST_ACTIVATE", "ST_INIT_REFRESH", "ST_REFRESH",
                                        "ST_INIT_PRECHARGE", "ST_PRECHARGE"}
  <2>1. Command.op \notin {"ACTIVATE", "READ", "WRITE", "PRECHARGE", "REFRESH"}
    BY <1>1, <1>5, Commands
  <2> QED
    BY <2>1 DEF TimingIsKept
<1> QED
  BY <1>2, <1>3, <1>4, <1>5

LEMMA InvDriver == SdramInv => BusIsSingleDriven
<1> SUFFICES ASSUME SdramInv, dq_oe
             PROVE  ChipOut = NoData
  BY DEF BusIsSingleDriven
<1>1. rd_idle
  BY Commands DEF SdramInv, PipesAgree, dq_oe
<1>2. CasLatency \in 1 .. CasLatency /\ CasLatency - 1 \in 0 .. CasLatency
  BY Generics
<1>3. ~c.rd_pipe[CasLatency - 1]
  BY <1>1, <1>2 DEF rd_idle
<1> QED
  BY <1>2, <1>3 DEF SdramInv, PipesAgree, ChipOut

\* For every value of the generics that wb_sdram.vhd declares the device gets
\* each command no earlier than tRCD, tRP, tRAS, tWR and tRFC allow, and only
\* on the row it needs: the FSM counts states for the first two and the last,
\* and ras_timer and wr_timer outlive the states that load them.
THEOREM TimingKept == Spec => []TimingIsKept
BY Invariance, InvTiming, PTL

\* For every latency of the device a write drives the data lines only when no
\* read is left in the pipeline (rd_idle in ST_IDLE, ST_DRAIN and ST_CAS1).
THEOREM SingleDriver == Spec => []BusIsSingleDriven
BY Invariance, InvDriver, PTL

-----------------------------------------------------------------------------
(* What is under way.                                                      *)

Data == Values \cup {Blank}
One(b) == IF b THEN 1 ELSE 0

DataType ==
  /\ c.req.dat \in Data /\ slave_i.dat \in Data
  /\ amem \in [Adrs -> Data]
  /\ chip.cell \in [Adrs -> [{"lo", "hi"} -> Data]]
  /\ c.ack \in BOOLEAN /\ c.rd_half \in [0 .. CasLatency -> BOOLEAN]
  /\ owed \in Seq([we : BOOLEAN, dat : Data])

\* A request is served from where it is accepted to its second column.  While a refresh
\* is pending there is none.
Serving == \/ c.state \in {"ST_ACTIVATE", "ST_ACTIVATE_WAIT", "ST_CAS0", "ST_CAS1"}
           \/ c.state \in {"ST_DRAIN", "ST_PRECHARGE", "ST_PRECHARGE_WAIT"} /\ ~c.refresh_pending

RefreshFits ==
  /\ c.refresh_pending => c.state \in {"ST_DRAIN", "ST_PRECHARGE", "ST_PRECHARGE_WAIT",
                                       "ST_REFRESH", "ST_REFRESH_WAIT"}
  /\ c.state \in {"ST_REFRESH", "ST_REFRESH_WAIT"} => c.refresh_pending

\* The markers go in pairs, the low half one place ahead of the high half, and both
\* halves on their way out of the device are the same.
LowAt(i)  == c.rd_pipe[i] /\ ~c.rd_half[i]
HighAt(i) == i < CasLatency /\ c.rd_pipe[i] /\ c.rd_half[i]
PairsFit ==
  /\ \A i \in 0 .. CasLatency - 1 : HighAt(i) => LowAt(i + 1)
  /\ \A i \in 1 .. CasLatency : LowAt(i) =>
        /\ HighAt(i - 1)
        /\ chip.out[i] = IF i < CasLatency THEN chip.out[i + 1] ELSE c.read_low
  /\ LowAt(0) => c.state = "ST_CAS1" /\ ~c.req.we /\ chip.out[1] = amem[c.req.adr]
  /\ c.state = "ST_CAS1" /\ ~c.req.we => LowAt(0)

\* The device holds what the accepted requests have written, but for the write that is
\* being served.
CellsFit ==
  /\ \A a \in Adrs : (Serving /\ c.req.we /\ a = c.req.adr)
                     \/ (chip.cell[a]["lo"] = amem[a] /\ chip.cell[a]["hi"] = amem[a])
  /\ Serving /\ c.req.we => /\ amem[c.req.adr] = c.req.dat
                            /\ c.state = "ST_CAS1" => chip.cell[c.req.adr]["lo"] = c.req.dat

\* The requests that are owed something are the one acknowledged in this cycle, the reads
\* whose second half is in the pipeline, and the one that is served, in this order.
Before(i) == One(c.ack) + One(i < 2 /\ HighAt(2)) + One(i < 1 /\ HighAt(1))
OwedFits ==
  /\ Len(owed) = Before(0) + One(HighAt(0)) + One(Serving)
  /\ \A i \in 0 .. 2 : HighAt(i) => owed[Before(i) + 1] = [we |-> FALSE, dat |-> chip.out[i + 1]]
  /\ Serving => owed[Len(owed)] = [we |-> c.req.we, dat |-> IF c.req.we THEN Blank ELSE amem[c.req.adr]]
  /\ c.ack => owed[1].we \/ c.read_data = [lo |-> owed[1].dat, hi |-> owed[1].dat]

DataInv == DataType /\ RefreshFits /\ PairsFit /\ CellsFit /\ OwedFits

-----------------------------------------------------------------------------
(* What one edge does to the registers the data goes through.              *)

LEMMA DataStep ==
  ASSUME Clock
  PROVE  LET dq == IF dq_oe THEN c.req.dat ELSE ChipOut
         IN  /\ c'.rd_half = NextPipe(c.rd_half, Reads /\ c.state = "ST_CAS1")
             /\ c'.read_low = IF Captures /\ ~CapturesHigh THEN dq ELSE c.read_low
             /\ c'.read_data = IF CapturesHigh THEN [lo |-> c.read_low, hi |-> dq] ELSE c.read_data
             /\ c'.ack = (CapturesHigh \/ (c.state = "ST_CAS1" /\ c.req.we))
             /\ chip'.cell = IF Command.op = "WRITE"
                             THEN [chip.cell EXCEPT ![Command.adr][Command.half] = c.req.dat] ELSE chip.cell
             /\ amem' = IF accept /\ slave_i.we THEN [amem EXCEPT ![slave_i.adr] = slave_i.dat] ELSE amem
BY DEF Clock, ControllerEdge, ChipEdge

\* The column of a read or a write is given by the state.
LEMMA Halves ==
  ASSUME CtlType, c.state \in Columns
  PROVE  /\ Command.half = IF c.state = "ST_CAS0" THEN "lo" ELSE "hi"
         /\ Command.adr = c.req.adr
BY DEF Command, Columns

\* Both pipelines move by one place.
LEMMA PipeShift ==
  ASSUME CtlType, DataType, Clock
  PROVE  /\ \A i \in 1 .. CasLatency : LowAt(i)' <=> LowAt(i - 1)
         /\ \A i \in 1 .. CasLatency - 1 : HighAt(i)' <=> HighAt(i - 1)
         /\ LowAt(0)' <=> Reads /\ c.state = "ST_CAS0"
         /\ HighAt(0)' <=> Reads /\ c.state = "ST_CAS1"
         /\ \A i \in 2 .. CasLatency : chip'.out[i] = chip.out[i - 1]
<1>. DEFINE high == Reads /\ c.state = "ST_CAS1"
<1>1. /\ c'.rd_pipe = [i \in 0 .. CasLatency |-> IF i = 0 THEN Reads ELSE c.rd_pipe[i - 1]]
      /\ c'.rd_half = [i \in 0 .. CasLatency |-> IF i = 0 THEN high ELSE c.rd_half[i - 1]]
  BY ControllerStep, DataStep DEF NextPipe
<1>2. /\ CasLatency \in 2 .. 3 /\ 0 \in 0 .. CasLatency /\ 0 < CasLatency
      /\ \A i \in 1 .. CasLatency : i \in 0 .. CasLatency /\ i # 0 /\ i - 1 \in 0 .. CasLatency
                                    /\ i - 1 < CasLatency
      /\ \A i \in 1 .. CasLatency - 1 : i \in 1 .. CasLatency /\ i < CasLatency
  BY Generics
<1>3. \A i \in 1 .. CasLatency : /\ c'.rd_pipe[i] = c.rd_pipe[i - 1]
                                 /\ c'.rd_half[i] = c.rd_half[i - 1]
  BY <1>1, <1>2
<1>4. c'.rd_pipe[0] = Reads /\ c'.rd_half[0] = high
  BY <1>1, <1>2
<1>5. Reads => c.state = "ST_CAS0" \/ c.state = "ST_CAS1"
  BY DEF Reads
<1>6. LowAt(0)' <=> Reads /\ c.state = "ST_CAS0"
  <2>1. LowAt(0)' <=> Reads /\ ~high  BY <1>4, Zenon DEF LowAt
  <2>. QED BY <1>5, <2>1
<1>7. HighAt(0)' <=> Reads /\ c.state = "ST_CAS1"
  <2>1. HighAt(0)' <=> Reads /\ high  BY <1>2, <1>4, Zenon DEF HighAt
  <2>. QED BY <2>1
<1>8. \A i \in 1 .. CasLatency : LowAt(i)' <=> LowAt(i - 1)
  BY <1>3, Zenon DEF LowAt
<1>9. \A i \in 1 .. CasLatency - 1 : HighAt(i)' <=> HighAt(i - 1)
  BY <1>2, <1>3, Zenon DEF HighAt
<1>10. \A i \in 2 .. CasLatency : chip'.out[i] = chip.out[i - 1]
  <2>1. chip'.out = [i \in 1 .. CasLatency |->
                       IF i > 1 THEN chip.out[i - 1]
                       ELSE IF Command.op = "READ" THEN chip.cell[Command.adr][Command.half] ELSE NoData]
    BY DeviceStep
  <2>2. \A i \in 2 .. CasLatency : i \in 1 .. CasLatency /\ i > 1  BY <1>2
  <2>. QED BY <2>1, <2>2
<1>. QED BY <1>6, <1>7, <1>8, <1>9, <1>10

\* A request is served from the edge at which it is accepted to that of its second column.
LEMMA ServingStep ==
  ASSUME CtlType, RefreshFits, Clock
  PROVE  /\ Serving' <=> accept \/ (Serving /\ c.state # "ST_CAS1")
         /\ RefreshFits'
<1>1. /\ c'.state = NextState
      /\ c'.refresh_pending <=> \/ c.state = "ST_IDLE" /\ c.refresh_due
                                \/ c.refresh_pending /\ ~(c.state = "ST_REFRESH_WAIT" /\ c.wait_count = 0)
  <2>1. c'.refresh_pending = (\/ c.state = "ST_IDLE" /\ c.refresh_due
                              \/ c.refresh_pending /\ ~(c.state = "ST_REFRESH_WAIT" /\ c.wait_count = 0))
    BY ControllerStep
  <2>2. c'.state = NextState  BY ControllerStep
  <2>. QED BY <2>1, <2>2, Zenon
<1>2. accept => c.state \in {"ST_IDLE", "ST_CAS1"} /\ ~c.refresh_due /\ ~c.refresh_pending
  BY DEF accept, ready
<1>3. CASE c.state \in {"ST_IDLE", "ST_CAS1"}
  <2>1. ~c.refresh_pending  BY <1>3 DEF RefreshFits
  <2>2. accept /\ ~(c.state = "ST_IDLE" /\ c.refresh_due) => NextState \in {"ST_CAS0", "ST_DRAIN"}
    BY <1>3 DEF NextState, AfterAccept, Waits
  <2>3. c.state = "ST_IDLE" /\ c.refresh_due => NextState = "ST_DRAIN"
    BY DEF NextState, Waits
  <2>4. ~accept /\ ~(c.state = "ST_IDLE" /\ c.refresh_due) => NextState = "ST_IDLE"
    BY <1>3 DEF NextState, Waits
  <2>. QED BY <1>1, <1>2, <1>3, <2>1, <2>2, <2>3, <2>4 DEF Serving, RefreshFits
<1>4. CASE c.state = "ST_DRAIN"
  <2>1. NextState \in IF c.refresh_pending THEN {"ST_DRAIN", "ST_PRECHARGE", "ST_REFRESH"}
                      ELSE {"ST_DRAIN", "ST_CAS0", "ST_PRECHARGE", "ST_ACTIVATE"}
    BY <1>4 DEF NextState, AfterDrain, Waits
  <2>. QED BY <1>1, <1>2, <1>4, <2>1 DEF Serving, RefreshFits
<1>5. CASE c.state \in {"ST_PRECHARGE", "ST_PRECHARGE_WAIT"}
  <2>1. NextState \in {"ST_PRECHARGE_WAIT"} \cup IF c.refresh_pending THEN {"ST_REFRESH"} ELSE {"ST_ACTIVATE"}
    BY <1>5 DEF NextState, AfterWait, AfterPrecharge, Waits
  <2>. QED BY <1>1, <1>2, <1>5, <2>1 DEF Serving, RefreshFits
<1>6. CASE c.state \in {"ST_ACTIVATE", "ST_ACTIVATE_WAIT", "ST_CAS0"}
  <2>1. NextState \in {"ST_ACTIVATE_WAIT", "ST_CAS0", "ST_CAS1"}
    BY <1>6 DEF NextState, AfterWait, Waits
  <2>. QED BY <1>1, <1>2, <1>6, <2>1 DEF Serving, RefreshFits
<1>7. CASE c.state \in {"ST_REFRESH", "ST_REFRESH_WAIT"}
  <2>1. NextState = IF c.state = "ST_REFRESH_WAIT" /\ c.wait_count = 0 THEN "ST_IDLE" ELSE "ST_REFRESH_WAIT"
    BY <1>7 DEF NextState, AfterWait, Waits
  <2>. QED BY <1>1, <1>2, <1>7, <2>1 DEF Serving, RefreshFits
<1>8. CASE c.state \in Init0
  <2>1. NextState \in Init0 \cup {"ST_IDLE"}
    BY <1>8 DEF NextState, AfterWait, Init0, Waits
  <2>. QED BY <1>1, <1>2, <1>8, <2>1 DEF Serving, RefreshFits, Init0
<1>. QED BY <1>3, <1>4, <1>5, <1>6, <1>7, <1>8 DEF CtlType, States

-----------------------------------------------------------------------------
(* The parts of the invariant.                                             *)

LEMMA DataTypeStep ==
  ASSUME CtlType, MasterType, DataType, Clock
  PROVE  DataType'
<1>1. c'.req.dat \in Data /\ slave_i'.dat \in Data
  <2>1. c'.req.dat \in Data  BY ControllerStep DEF DataType
  <2>2. slave_i' \in {slave_i} \cup (Requests \cup {NoRequest})  BY DEF Clock, MasterNext
  <2>3. \A r \in Requests \cup {NoRequest} : r.dat \in Data
    <3>1. \A r \in [cyc : {TRUE}, stb : {TRUE}, we : {TRUE}, adr : Adrs, dat : Values] : r.dat \in Data
      BY DEF Data
    <3>2. \A r \in [cyc : {TRUE}, stb : {TRUE}, we : {FALSE}, adr : Adrs, dat : {Blank}] : r.dat \in Data
      BY DEF Data
    <3>3. NoRequest.dat \in Data  BY DEF NoRequest, Data
    <3>. QED BY <3>1, <3>2, <3>3 DEF Requests
  <2>. QED BY <2>1, <2>2, <2>3 DEF DataType
<1>2. amem' \in [Adrs -> Data]
  BY DataStep DEF DataType, MasterType
<1>3. chip'.cell \in [Adrs -> [{"lo", "hi"} -> Data]]
  <2>1. CASE Command.op = "WRITE"
    <3>1. c.state \in Columns  BY <2>1, Commands
    <3>2. Command.half \in {"lo", "hi"} /\ Command.adr \in Adrs
      BY <3>1, Halves DEF CtlType
    <3>3. chip'.cell = [chip.cell EXCEPT ![Command.adr][Command.half] = c.req.dat]
      BY <2>1, DataStep
    <3>. QED BY <3>2, <3>3 DEF DataType
  <2>2. CASE Command.op # "WRITE"
    BY <2>2, DataStep DEF DataType
  <2>. QED BY <2>1, <2>2
<1>4. c'.ack \in BOOLEAN
  <2>1. CapturesHigh \in BOOLEAN  BY DEF CapturesHigh
  <2>2. c'.ack = (CapturesHigh \/ (c.state = "ST_CAS1" /\ c.req.we))  BY DataStep
  <2>. QED BY <2>2
<1>5. c'.rd_half \in [0 .. CasLatency -> BOOLEAN]
  <2>1. (Reads /\ c.state = "ST_CAS1") \in BOOLEAN  OBVIOUS
  <2>2. \A i \in 0 .. CasLatency : i # 0 => i - 1 \in 0 .. CasLatency  BY Generics
  <2>3. c'.rd_half = [i \in 0 .. CasLatency |-> IF i = 0 THEN Reads /\ c.state = "ST_CAS1" ELSE c.rd_half[i - 1]]
    BY DataStep DEF NextPipe
  <2>. QED BY <2>1, <2>2, <2>3 DEF DataType
<1>6. owed' \in Seq([we : BOOLEAN, dat : Data])
  <2>. DEFINE S == [we : BOOLEAN, dat : Data]
              left == IF c.ack /\ owed # <<>> THEN Tail(owed) ELSE owed
              more == IF accept THEN <<Owed>> ELSE <<>>
  <2>0. owed \in Seq(S)  BY DEF DataType
  <2>. HIDE DEF S
  <2>1. left \in Seq(S)
    <3>1. owed # <<>> => Tail(owed) \in Seq(S)  BY <2>0, HeadTailProperties
    <3>. QED BY <2>0, <3>1
  <2>2. Owed \in S  BY DEF Owed, DataType, MasterType, Data, S
  <2>3. more \in Seq(S)  BY <2>2
  <2>4. owed' = left \o more  BY DEF Clock
  <2>. HIDE DEF left, more, S
  <2>5. owed' \in Seq(S)  BY <2>1, <2>3, <2>4
  <2>. QED BY <2>5 DEF S
<1>. QED BY <1>1, <1>2, <1>3, <1>4, <1>5, <1>6 DEF DataType

\* A column that is read gives what the requests accepted before it have left.
LEMMA ReadValue ==
  ASSUME CtlType, DataType, CellsFit, Reads, Clock
  PROVE  chip'.out[1] = amem[c.req.adr]
<1>1. c.state \in Columns /\ ~c.req.we  BY DEF Reads, Columns
<1>2. Command.op = "READ"  BY <1>1, Commands
<1>3. chip'.out[1] = chip.cell[Command.adr][Command.half]
  <2>1. 1 \in 1 .. CasLatency /\ ~(1 > 1)  BY Generics
  <2>. QED BY <1>2, <2>1, DeviceStep
<1>4. Command.adr = c.req.adr /\ Command.half \in {"lo", "hi"} /\ c.req.adr \in Adrs
  BY <1>1, Halves DEF CtlType
<1>. QED BY <1>1, <1>3, <1>4 DEF CellsFit

LEMMA PairsStep ==
  ASSUME CtlType, DataType, PairsFit, CellsFit, BusIsSingleDriven, RefreshFits, PipesAgree, Clock
  PROVE  PairsFit'
<1>1. CasLatency \in 2 .. 3  BY Generics
<1>2. /\ \A i \in 1 .. CasLatency : LowAt(i)' <=> LowAt(i - 1)
      /\ \A i \in 1 .. CasLatency - 1 : HighAt(i)' <=> HighAt(i - 1)
      /\ LowAt(0)' <=> Reads /\ c.state = "ST_CAS0"
      /\ HighAt(0)' <=> Reads /\ c.state = "ST_CAS1"
      /\ \A i \in 2 .. CasLatency : chip'.out[i] = chip.out[i - 1]
  BY PipeShift
<1>3. Reads => chip'.out[1] = amem[c.req.adr]  BY ReadValue
<1>4. \A i \in 0 .. CasLatency - 1 : HighAt(i)' => LowAt(i + 1)'
  <2>. SUFFICES ASSUME NEW i \in 0 .. CasLatency - 1, HighAt(i)' PROVE LowAt(i + 1)'
    OBVIOUS
  <2>1. i + 1 \in 1 .. CasLatency /\ (i + 1) - 1 = i  BY <1>1
  <2>2. LowAt(i + 1)' <=> LowAt(i)  BY <1>2, <2>1
  <2>3. CASE i = 0
    <3>1. c.state = "ST_CAS1" /\ ~c.req.we  BY <1>2, <2>3 DEF Reads
    <3>. QED BY <2>2, <2>3, <3>1 DEF PairsFit
  <2>4. CASE i # 0
    <3>1. i \in 1 .. CasLatency - 1 /\ i - 1 \in 0 .. CasLatency - 1 /\ (i - 1) + 1 = i  BY <1>1, <2>4
    <3>2. HighAt(i - 1)  BY <1>2, <3>1
    <3>. QED BY <2>2, <3>1, <3>2 DEF PairsFit
  <2>. QED BY <2>3, <2>4
<1>5. ASSUME NEW i \in 1 .. CasLatency, LowAt(i)'
      PROVE  /\ HighAt(i - 1)'
             /\ chip'.out[i] = IF i < CasLatency THEN chip'.out[i + 1] ELSE c'.read_low
  <2>1. LowAt(i - 1)  BY <1>2, <1>5
  <2>2. CASE i = 1
    <3>1. c.state = "ST_CAS1" /\ ~c.req.we /\ chip.out[1] = amem[c.req.adr]
      BY <2>1, <2>2 DEF PairsFit
    <3>2. Reads  BY <3>1 DEF Reads
    <3>3. 2 \in 2 .. CasLatency /\ 1 < CasLatency  BY <1>1
    <3>4. chip'.out[2] = chip.out[1]  BY <1>2, <3>3
    <3>. QED BY <1>2, <1>3, <2>2, <3>1, <3>2, <3>3, <3>4
  <2>3. CASE i # 1
    <3>1. i \in 2 .. CasLatency /\ i - 1 \in 1 .. CasLatency /\ i - 1 \in 1 .. CasLatency - 1
          /\ i - 1 < CasLatency /\ (i - 1) + 1 = i
      BY <1>1, <2>3
    <3>2. HighAt((i - 1) - 1) /\ chip.out[i - 1] = chip.out[i]
      BY <2>1, <3>1 DEF PairsFit
    <3>3. HighAt(i - 1)'  BY <1>2, <3>1, <3>2
    <3>4. chip'.out[i] = chip.out[i - 1]  BY <1>2, <3>1
    <3>5. CASE i < CasLatency
      <4>1. i + 1 \in 2 .. CasLatency /\ (i + 1) - 1 = i  BY <1>1, <3>5
      <4>2. chip'.out[i + 1] = chip.out[i]  BY <1>2, <4>1
      <4>. QED BY <3>2, <3>3, <3>4, <3>5, <4>2
    <3>6. CASE i = CasLatency
      <4>1. c.rd_pipe[CasLatency - 1] /\ ~c.rd_half[CasLatency - 1]  BY <2>1, <3>6 DEF LowAt
      <4>2. Captures /\ ~CapturesHigh  BY <4>1 DEF Captures, CapturesHigh
      <4>3. ~dq_oe
        <5>1. CasLatency - 1 \in 0 .. CasLatency  BY <1>1
        <5>2. ~rd_idle  BY <4>1, <5>1 DEF rd_idle
        <5>. QED BY <5>2, Commands DEF dq_oe, PipesAgree
      <4>4. c'.read_low = chip.out[CasLatency]  BY <4>2, <4>3, DataStep DEF ChipOut
      <4>. QED BY <3>2, <3>3, <3>4, <3>6, <4>4
    <3>. QED BY <1>1, <3>5, <3>6
  <2>. QED BY <2>2, <2>3
<1>6. ASSUME LowAt(0)' PROVE c'.state = "ST_CAS1" /\ ~c'.req.we /\ chip'.out[1] = amem'[c'.req.adr]
  <2>1. Reads /\ c.state = "ST_CAS0"  BY <1>2, <1>6
  <2>2. ~accept  BY <2>1 DEF accept, ready
  <2>3. c'.state = "ST_CAS1" /\ c'.req = c.req /\ amem' = amem
    BY <2>1, <2>2, ControllerStep, DataStep DEF NextState, Waits
  <2>. QED BY <1>3, <2>1, <2>3 DEF Reads
<1>7. ASSUME c'.state = "ST_CAS1", ~c'.req.we PROVE LowAt(0)'
  <2>1. c.state = "ST_CAS0"  BY <1>7, ToHighColumn, ControllerStep
  <2>2. ~accept  BY <2>1 DEF accept, ready
  <2>3. Reads  BY <1>7, <2>1, <2>2, ControllerStep DEF Reads
  <2>. QED BY <1>2, <2>1, <2>3
<1>. QED BY <1>4, <1>5, <1>6, <1>7 DEF PairsFit

LEMMA CellsStep ==
  ASSUME CtlType, MasterType, DataType, RefreshFits, CellsFit, Clock
  PROVE  CellsFit'
<1>1. Serving' <=> accept \/ (Serving /\ c.state # "ST_CAS1")  BY ServingStep
<1>2. accept => c.state = "ST_IDLE" \/ c.state = "ST_CAS1"  BY DEF accept, ready
<1>3. c.state \in Columns => Serving  BY DEF Serving, Columns
<1>. DEFINE writes == c.state \in Columns /\ c.req.we
            half == IF c.state = "ST_CAS0" THEN "lo" ELSE "hi"
<1>4. chip'.cell = IF writes THEN [chip.cell EXCEPT ![c.req.adr][half] = c.req.dat] ELSE chip.cell
  <2>1. Command.op = "WRITE" <=> writes  BY Commands
  <2>. QED BY <2>1, DataStep, Halves
<1>5. c.req.adr \in Adrs /\ c.req.adr \in DOMAIN chip.cell /\ DOMAIN chip.cell[c.req.adr] = {"lo", "hi"}
      /\ "lo" # "hi"
  BY DEF CtlType, DataType
\* The cells after the edge, but for a write that goes on being served.
<1>6. ASSUME NEW a \in Adrs, ~(Serving /\ c.req.we /\ a = c.req.adr /\ c.state # "ST_CAS1")
      PROVE  chip'.cell[a]["lo"] = amem[a] /\ chip'.cell[a]["hi"] = amem[a]
  <2>1. CASE writes /\ a = c.req.adr
    <3>1. c.state = "ST_CAS1" /\ Serving /\ half = "hi"  BY <1>3, <1>6, <2>1 DEF Columns
    <3>2. chip.cell[a]["lo"] = c.req.dat /\ amem[a] = c.req.dat  BY <2>1, <3>1 DEF CellsFit
    <3>. QED BY <1>4, <1>5, <2>1, <3>1, <3>2
  <2>2. CASE ~(writes /\ a = c.req.adr)
    <3>1. chip'.cell[a] = chip.cell[a]  BY <1>4, <1>5, <2>2
    <3>2. ~(Serving /\ c.req.we /\ a = c.req.adr)
      BY <1>6, <2>2 DEF Columns
    <3>. QED BY <3>1, <3>2 DEF CellsFit
  <2>. QED BY <2>1, <2>2
<1>7. CASE accept
  <2>1. c'.req = [we |-> slave_i.we, adr |-> slave_i.adr, dat |-> slave_i.dat] /\ Serving'
    BY <1>1, <1>7, ControllerStep
  <2>2. c.state = "ST_IDLE" => ~Serving  BY DEF Serving
  <2>3. \A a \in Adrs : chip'.cell[a]["lo"] = amem[a] /\ chip'.cell[a]["hi"] = amem[a]
    BY <1>2, <1>6, <1>7, <2>2
  <2>4. amem' = IF slave_i.we THEN [amem EXCEPT ![slave_i.adr] = slave_i.dat] ELSE amem
    BY <1>7, DataStep
  <2>5. c'.state # "ST_CAS1"
    <3>1. c'.state = "ST_CAS1" => c.state = "ST_CAS0"  BY ToHighColumn, ControllerStep
    <3>. QED BY <1>2, <1>7, <3>1
  <2>. QED BY <2>1, <2>3, <2>4, <2>5 DEF CellsFit, DataType, MasterType
<1>8. CASE ~accept
  <2>1. c'.req = c.req /\ amem' = amem  BY <1>8, ControllerStep, DataStep
  <2>2. Serving' <=> Serving /\ c.state # "ST_CAS1"  BY <1>1, <1>8
  <2>3. ASSUME c'.state = "ST_CAS1", c.req.we
        PROVE  chip'.cell[c.req.adr]["lo"] = c.req.dat
    <3>1. c.state = "ST_CAS0"  BY <2>3, ToHighColumn, ControllerStep
    <3>2. writes /\ half = "lo"  BY <2>3, <3>1 DEF Columns
    <3>. QED BY <1>4, <1>5, <3>2
  <2>4. \A a \in Adrs : (Serving' /\ c'.req.we /\ a = c'.req.adr)
                        \/ (chip'.cell[a]["lo"] = amem'[a] /\ chip'.cell[a]["hi"] = amem'[a])
    BY <1>6, <2>1, <2>2
  <2>5. Serving' /\ c'.req.we => /\ amem'[c'.req.adr] = c'.req.dat
                                 /\ c'.state = "ST_CAS1" => chip'.cell[c'.req.adr]["lo"] = c'.req.dat
    BY <2>1, <2>2, <2>3 DEF CellsFit
  <2>. QED BY <2>4, <2>5 DEF CellsFit
<1>. QED BY <1>7, <1>8

\* The queue loses its head with an acknowledge and gains an end with a request.
LEMMA QueueStep ==
  ASSUME MasterType, DataType, Clock, c.ack => Len(owed) > 0
  PROVE  /\ Len(owed) \in Nat
         /\ Len(owed') = Len(owed) - One(c.ack) + One(accept)
         /\ \A k \in 1 .. Len(owed) - One(c.ack) : owed'[k] = owed[k + One(c.ack)]
         /\ accept => owed'[Len(owed) - One(c.ack) + 1] = Owed
<1>. DEFINE S == [we : BOOLEAN, dat : Data]
            left == IF c.ack /\ owed # <<>> THEN Tail(owed) ELSE owed
            more == IF accept THEN <<Owed>> ELSE <<>>
<1>1. owed \in Seq(S)  BY DEF DataType
<1>2. Owed \in S  BY DEF Owed, DataType, MasterType, Data
<1>3. owed' = left \o more  BY DEF Clock
<1>4. c.ack \in BOOLEAN  BY DEF DataType
<1>. HIDE DEF S
<1>5. Len(owed) \in Nat /\ (owed = <<>> => Len(owed) = 0)  BY <1>1
<1>6. /\ left \in Seq(S) /\ Len(left) = Len(owed) - One(c.ack)
      /\ \A k \in 1 .. Len(left) : left[k] = owed[k + One(c.ack)]
  <2>1. CASE c.ack
    <3>1. owed # <<>>  BY <1>5, <2>1
    <3>2. /\ Tail(owed) \in Seq(S) /\ Len(Tail(owed)) = Len(owed) - 1
          /\ \A k \in 1 .. Len(Tail(owed)) : Tail(owed)[k] = owed[k + 1]
      BY <1>1, <3>1, HeadTailProperties
    <3>. QED BY <2>1, <3>1, <3>2 DEF One
  <2>2. CASE ~c.ack
    <3>1. \A k \in 1 .. Len(owed) : k + 0 = k  BY <1>5
    <3>. QED BY <1>1, <1>5, <2>2, <3>1 DEF One
  <2>. QED BY <2>1, <2>2
<1>7. more \in Seq(S) /\ Len(more) = One(accept) /\ (accept => more[1] = Owed)
  <2>1. CASE accept
    <3>1. more = <<Owed>>  BY <2>1
    <3>2. One(accept) = 1  BY <2>1 DEF One
    <3>. HIDE DEF more
    <3>. QED BY <1>2, <3>1, <3>2
  <2>2. CASE ~accept
    <3>1. more = <<>>  BY <2>2
    <3>2. One(accept) = 0  BY <2>2 DEF One
    <3>. HIDE DEF more
    <3>. QED BY <2>2, <3>1, <3>2
  <2>. QED BY <2>1, <2>2
<1>. HIDE DEF left, more
<1>8. /\ Len(owed') = Len(left) + Len(more)
      /\ \A k \in 1 .. Len(left) + Len(more) : owed'[k] = IF k <= Len(left) THEN left[k] ELSE more[k - Len(left)]
  BY <1>3, <1>6, <1>7, ConcatProperties
<1>9. Len(left) \in Nat  BY <1>6
<1>10. accept => owed'[Len(left) + 1] = Owed
  <2>1. accept => Len(more) = 1  BY <1>7 DEF One
  <2>2. ~(Len(left) + 1 <= Len(left)) /\ (Len(left) + 1) - Len(left) = 1  BY <1>9
  <2>3. accept => Len(left) + 1 \in 1 .. Len(left) + Len(more)  BY <1>9, <2>1
  <2>. QED BY <1>7, <1>8, <2>2, <2>3
<1>11. \A k \in 1 .. Len(left) : owed'[k] = left[k]
  <2>1. Len(more) \in Nat  BY <1>7
  <2>. QED BY <1>8, <1>9, <2>1
<1>. QED BY <1>5, <1>6, <1>7, <1>8, <1>10, <1>11

\* What is acknowledged after the edge was first in the pipeline, or is the write in its
\* second column, behind which the pipeline is empty.
LEMMA AckStep ==
  ASSUME CtlType, DataType, PipesAgree, Clock
  PROVE  /\ c'.ack <=> HighAt(CasLatency - 1) \/ (c.state = "ST_CAS1" /\ c.req.we)
         /\ c.state = "ST_CAS1" /\ c.req.we => \A i \in 0 .. 2 : ~HighAt(i)
         /\ HighAt(CasLatency - 1) => c'.read_data = [lo |-> c.read_low, hi |-> chip.out[CasLatency]]
<1>1. CasLatency \in 2 .. 3 /\ CasLatency - 1 < CasLatency /\ CasLatency - 1 \in 0 .. CasLatency
  BY Generics
<1>2. CapturesHigh <=> HighAt(CasLatency - 1)
  BY <1>1 DEF CapturesHigh, Captures, HighAt
<1>3. c.state \in Columns /\ c.req.we => \A i \in 0 .. CasLatency : ~c.rd_pipe[i]
  BY DEF PipesAgree, rd_idle
<1>4. c'.ack <=> CapturesHigh \/ (c.state = "ST_CAS1" /\ c.req.we)
  <2>1. c'.ack = (CapturesHigh \/ (c.state = "ST_CAS1" /\ c.req.we))  BY DataStep
  <2>. QED BY <2>1, Zenon
<1>5. c.state = "ST_CAS1" /\ c.req.we => \A i \in 0 .. 2 : ~HighAt(i)
  <2>1. \A i \in 0 .. 2 : HighAt(i) => i \in 0 .. CasLatency /\ c.rd_pipe[i]  BY <1>1 DEF HighAt
  <2>. QED BY <1>3, <2>1 DEF Columns
<1>6. HighAt(CasLatency - 1) => ~dq_oe
  <2>1. dq_oe => c.state \in Columns /\ c.req.we  BY Commands DEF dq_oe
  <2>2. HighAt(CasLatency - 1) => c.rd_pipe[CasLatency - 1]  BY DEF HighAt
  <2>. QED BY <1>1, <1>3, <2>1, <2>2
<1>7. HighAt(CasLatency - 1) => c'.read_data = [lo |-> c.read_low, hi |-> chip.out[CasLatency]]
  BY <1>2, <1>6, DataStep DEF ChipOut
<1>. QED BY <1>2, <1>4, <1>5, <1>7

LEMMA OwedStep ==
  ASSUME CtlType, MasterType, PipesAgree, DataInv, Clock
  PROVE  OwedFits'
<1>. USE DEF DataInv
<1>. DEFINE a == One(c.ack)
            h(i) == One(HighAt(i))
            s == One(Serving)
            old == One(c.state # "ST_CAS1" /\ Serving)
            last == CasLatency - 1
            readDone == c.state = "ST_CAS1" /\ ~c.req.we
            writeDone == c.state = "ST_CAS1" /\ c.req.we
<1>1. CasLatency = 2 \/ CasLatency = 3  BY Generics
<1>2. /\ Len(owed) = Before(0) + h(0) + s
      /\ \A i \in 0 .. 2 : HighAt(i) => owed[Before(i) + 1] = [we |-> FALSE, dat |-> chip.out[i + 1]]
      /\ Serving => owed[Len(owed)] = [we |-> c.req.we, dat |-> IF c.req.we THEN Blank ELSE amem[c.req.adr]]
  BY DEF OwedFits
<1>3. /\ Before(0) = a + h(2) + h(1) /\ Before(1) = a + h(2) /\ Before(2) = a
      /\ HighAt(2) => CasLatency = 3
  BY <1>1 DEF Before, One, HighAt
<1>4. /\ a \in {0, 1} /\ h(0) \in {0, 1} /\ h(1) \in {0, 1} /\ h(2) \in {0, 1}
      /\ s \in {0, 1} /\ One(accept) \in {0, 1}
      /\ (c.ack => a = 1) /\ (HighAt(0) => h(0) = 1) /\ (HighAt(1) => h(1) = 1)
      /\ (~HighAt(0) => h(0) = 0) /\ (~HighAt(1) => h(1) = 0) /\ (~HighAt(2) => h(2) = 0)
      /\ (~c.ack => a = 0) /\ (HighAt(2) => h(2) = 1) /\ (Serving => s = 1)
  BY DEF One
<1>. HIDE DEF a, h, s, old
<1>5. c.ack => Len(owed) > 0
  <2>1. Len(owed) = a + h(2) + h(1) + h(0) + s  BY <1>2, <1>3
  <2>. QED BY <1>4, <2>1
<1>6. /\ Len(owed) \in Nat
      /\ Len(owed') = Len(owed) - a + One(accept)
      /\ \A k \in 1 .. Len(owed) - a : owed'[k] = owed[k + a]
      /\ accept => owed'[Len(owed) - a + 1] = Owed
  BY <1>5, QueueStep DEF a
<1>7. /\ Serving' <=> accept \/ (Serving /\ c.state # "ST_CAS1")
      /\ c.state = "ST_CAS1" => Serving
      /\ accept => c.state = "ST_CAS1" \/ ~Serving
  <2>1. accept => c.state \in {"ST_IDLE", "ST_CAS1"}  BY DEF accept, ready
  <2>2. c.state = "ST_IDLE" => ~Serving  BY DEF Serving
  <2>. QED BY <2>1, <2>2, ServingStep DEF Serving
<1>8. /\ c'.ack <=> HighAt(last) \/ writeDone
      /\ writeDone => ~HighAt(0) /\ ~HighAt(1) /\ ~HighAt(2)
      /\ HighAt(last) => c'.read_data = [lo |-> c.read_low, hi |-> chip.out[CasLatency]]
  BY AckStep
\* Each marker moves by one place, and the one in the last place becomes the acknowledge.
<1>9. /\ HighAt(0)' <=> readDone
      /\ HighAt(1)' <=> HighAt(0)
      /\ HighAt(2)' <=> CasLatency = 3 /\ HighAt(1)
      /\ chip'.out[2] = chip.out[1]
      /\ CasLatency = 3 => chip'.out[3] = chip.out[2]
  <2>1. Reads /\ c.state = "ST_CAS1" <=> readDone  BY DEF Reads
  <2>2. ~(2 < 2)  OBVIOUS
  <2>3. CasLatency = 2 => ~HighAt(2)'  BY <2>2 DEF HighAt
  <2>4. 1 \in 1 .. CasLatency - 1 /\ 2 \in 2 .. CasLatency /\ 1 - 1 = 0 /\ 2 - 1 = 1
        /\ (CasLatency = 3 => 2 \in 1 .. CasLatency - 1 /\ 3 \in 2 .. CasLatency /\ 3 - 1 = 2)
    BY <1>1
  <2>. QED BY <1>1, <2>1, <2>3, <2>4, PipeShift
<1>10. /\ readDone => c.state = "ST_CAS1" /\ Serving /\ ~writeDone
       /\ writeDone => c.state = "ST_CAS1" /\ Serving
       /\ c.state = "ST_CAS1" => readDone \/ writeDone
  BY <1>7 DEF CtlType
\* The places after the edge.
<1>11. /\ old \in {0, 1} /\ (c.state = "ST_CAS1" => old = 0)
       /\ (c.state # "ST_CAS1" => old = s)
       /\ One(HighAt(0)') = (IF readDone THEN 1 ELSE 0)
       /\ One(HighAt(1)') = h(0)
       /\ One(HighAt(2)') = (IF CasLatency = 3 THEN h(1) ELSE 0)
       /\ One(c'.ack) = (IF writeDone THEN 1 ELSE IF CasLatency = 3 THEN h(2) ELSE h(1))
  <2>1. One(HighAt(0)') = (IF readDone THEN 1 ELSE 0)  BY <1>9, Zenon DEF One
  <2>2. One(HighAt(1)') = h(0)  BY <1>9, Zenon DEF One, h
  <2>3. One(HighAt(2)') = (IF CasLatency = 3 THEN h(1) ELSE 0)  BY <1>9, Zenon DEF One, h
  <2>4. One(c'.ack) = (IF writeDone THEN 1 ELSE IF CasLatency = 3 THEN h(2) ELSE h(1))
    <3>1. last = IF CasLatency = 3 THEN 2 ELSE 1  BY <1>1
    <3>2. c'.ack <=> writeDone \/ IF CasLatency = 3 THEN HighAt(2) ELSE HighAt(1)
      BY <1>8, <3>1
    <3>. QED BY <3>2, Zenon DEF One, h
  <2>5. old \in {0, 1} /\ (c.state = "ST_CAS1" => old = 0) /\ (c.state # "ST_CAS1" => old = s)
    BY DEF One, old, s
  <2>. QED BY <2>1, <2>2, <2>3, <2>4, <2>5
<1>12. /\ Before(0)' = One(c'.ack) + One(HighAt(2)') + One(HighAt(1)')
       /\ Before(1)' = One(c'.ack) + One(HighAt(2)')
       /\ Before(2)' = One(c'.ack)
  BY DEF Before, One
<1>13. Len(owed) = a + h(2) + h(1) + h(0) + s  BY <1>2, <1>3
\* Nothing but the new request is added and the acknowledged one is gone.
<1>14. Before(0)' + One(HighAt(0)') + old = Len(owed) - a
  <2>1. CASE writeDone
    <3>1. h(0) = 0 /\ h(1) = 0 /\ h(2) = 0 /\ s = 1 /\ old = 0 /\ ~readDone
      BY <1>4, <1>8, <1>10, <1>11, <2>1
    <3>. QED BY <1>4, <1>11, <1>12, <1>13, <2>1, <3>1
  <2>2. CASE ~writeDone
    <3>1. One(HighAt(0)') + old = s
      BY <1>4, <1>10, <1>11, <2>2
    <3>2. One(c'.ack) + One(HighAt(2)') = h(1) + h(2)
      <4>1. CasLatency = 2 => h(2) = 0  BY <1>3, <1>4
      <4>. QED BY <1>1, <1>4, <1>11, <2>2, <4>1
    <3>. QED BY <1>4, <1>11, <1>12, <1>13, <3>1, <3>2
  <2>. QED BY <2>1, <2>2
\* Single facts that the rest takes from the above.
<1>len. Len(owed) \in Nat  BY <1>6
<1>shift. \A k \in 1 .. Len(owed) - a : owed'[k] = owed[k + a]  BY <1>6
<1>item. \A i \in 0 .. 2 : HighAt(i) => owed[Before(i) + 1] = [we |-> FALSE, dat |-> chip.out[i + 1]]
  BY <1>2
<1>end. Serving => owed[Len(owed)] = [we |-> c.req.we, dat |-> IF c.req.we THEN Blank ELSE amem[c.req.adr]]
  BY <1>2
<1>num. Before(0)' \in Nat /\ Before(1)' \in Nat /\ Before(2)' \in Nat
  BY DEF Before, One
<1>15. Len(owed') = Before(0)' + One(HighAt(0)') + One(Serving)'
  <2>1. accept => old = 0
    <3>1. CASE c.state = "ST_CAS1"  BY <1>11, <3>1
    <3>2. CASE c.state # "ST_CAS1"  BY <1>4, <1>7, <1>11, <3>2 DEF s, One
    <3>. QED BY <3>1, <3>2
  <2>2. One(Serving)' = IF accept THEN 1 ELSE old
    <3>1. One(Serving)' = IF Serving' THEN 1 ELSE 0  BY DEF One
    <3>2. old = IF c.state # "ST_CAS1" /\ Serving THEN 1 ELSE 0  BY DEF One, old
    <3>. QED BY <1>7, <3>1, <3>2
  <2>3. One(accept) = IF accept THEN 1 ELSE 0  BY DEF One
  <2>4. Len(owed') = Len(owed) - a + One(accept)  BY <1>6
  <2>5. CASE accept
    <3>1. old = 0 /\ One(accept) = 1 /\ One(Serving)' = 1  BY <2>1, <2>2, <2>3, <2>5
    <3>2. One(HighAt(0)') \in Nat  BY <1>11
    <3>. QED BY <1>14, <1>num, <2>4, <3>1, <3>2
  <2>6. CASE ~accept
    <3>1. One(accept) = 0 /\ One(Serving)' = old  BY <2>2, <2>3, <2>6
    <3>2. Len(owed) - a \in Int  BY <1>4, <1>len
    <3>. QED BY <1>14, <2>4, <3>1, <3>2
  <2>. QED BY <2>5, <2>6
\* The read whose second half the device has just been asked for was served last.
<1>17. HighAt(0)' => owed'[Before(0)' + 1] = [we |-> FALSE, dat |-> chip'.out[1]]
  <2>. SUFFICES ASSUME HighAt(0)' PROVE owed'[Before(0)' + 1] = [we |-> FALSE, dat |-> chip'.out[1]]
    OBVIOUS
  <2>1. readDone /\ Serving /\ Reads  BY <1>9, <1>10 DEF Reads
  <2>2. chip'.out[1] = amem[c.req.adr]  BY <2>1, ReadValue
  <2>3. Before(0)' + 1 = Len(owed) - a  BY <1>11, <1>14, <1>num, <2>1
  <2>4. owed'[Before(0)' + 1] = owed[Len(owed)]
    <3>1. Before(0)' + 1 \in 1 .. Len(owed) - a /\ Before(0)' + 1 + a = Len(owed)
      BY <1>4, <1>len, <1>num, <2>3
    <3>. QED BY <1>shift, <3>1
  <2>5. owed[Len(owed)] = [we |-> FALSE, dat |-> amem[c.req.adr]]
    <3>1. c.req.we = FALSE  BY <2>1 DEF CtlType
    <3>. QED BY <1>end, <2>1, <3>1
  <2>. QED BY <2>2, <2>4, <2>5
\* The others have moved by one place, in the queue and in the pipeline.
<1>18. HighAt(1)' => owed'[Before(1)' + 1] = [we |-> FALSE, dat |-> chip'.out[2]]
  <2>. SUFFICES ASSUME HighAt(1)' PROVE owed'[Before(1)' + 1] = [we |-> FALSE, dat |-> chip'.out[2]]
    OBVIOUS
  <2>1. HighAt(0) /\ h(0) = 1 /\ ~writeDone  BY <1>4, <1>8, <1>9
  <2>2. Before(1)' + a = Before(0)
    <3>1. CasLatency = 2 => h(2) = 0  BY <1>3, <1>4
    <3>. QED BY <1>1, <1>3, <1>4, <1>11, <1>12, <2>1, <3>1
  <2>3. Before(1)' + 1 \in 1 .. Len(owed) - a /\ Before(1)' + 1 + a = Before(0) + 1
    <3>1. Len(owed) = Before(0) + 1 + s  BY <1>2, <1>3, <2>1
    <3>2. Before(0) \in Nat  BY DEF Before, One
    <3>. QED BY <1>4, <1>num, <2>2, <3>1, <3>2
  <2>4. owed[Before(0) + 1] = [we |-> FALSE, dat |-> chip.out[1]]
    <3>1. 0 \in 0 .. 2 /\ 0 + 1 = 1  OBVIOUS
    <3>. QED BY <1>item, <2>1, <3>1
  <2>5. owed'[Before(1)' + 1] = owed[Before(0) + 1]  BY <1>shift, <2>3
  <2>6. chip'.out[2] = chip.out[1]  BY <1>9
  <2>. QED BY <2>4, <2>5, <2>6
<1>19. HighAt(2)' => owed'[Before(2)' + 1] = [we |-> FALSE, dat |-> chip'.out[3]]
  <2>. SUFFICES ASSUME HighAt(2)' PROVE owed'[Before(2)' + 1] = [we |-> FALSE, dat |-> chip'.out[3]]
    OBVIOUS
  <2>1. HighAt(1) /\ h(1) = 1 /\ ~writeDone /\ CasLatency = 3  BY <1>4, <1>8, <1>9
  <2>2. Before(2)' + a = Before(1)
    BY <1>3, <1>4, <1>11, <1>12, <2>1
  <2>3. Before(2)' + 1 \in 1 .. Len(owed) - a /\ Before(2)' + 1 + a = Before(1) + 1
    <3>1. Len(owed) = Before(1) + 1 + h(0) + s  BY <1>3, <1>4, <1>13, <2>1
    <3>2. Before(1) \in Nat  BY DEF Before, One
    <3>. QED BY <1>4, <1>num, <2>2, <3>1, <3>2
  <2>4. owed[Before(1) + 1] = [we |-> FALSE, dat |-> chip.out[2]]
    <3>1. 1 \in 0 .. 2 /\ 1 + 1 = 2  OBVIOUS
    <3>. QED BY <1>item, <2>1, <3>1
  <2>5. owed'[Before(2)' + 1] = owed[Before(1) + 1]  BY <1>shift, <2>3
  <2>6. chip'.out[3] = chip.out[2]  BY <1>9, <2>1
  <2>. QED BY <2>4, <2>5, <2>6
\* The request that is served is the last of the queue.
<1>20. Serving' => owed'[Len(owed')] = [we |-> c'.req.we, dat |-> IF c'.req.we THEN Blank ELSE amem'[c'.req.adr]]
  <2>1. CASE accept
    <3>1. c'.req = [we |-> slave_i.we, adr |-> slave_i.adr, dat |-> slave_i.dat]
      BY <2>1, ControllerStep
    <3>2. ~slave_i.we => amem' = amem  BY DataStep
    <3>3. Len(owed') = Len(owed) - a + 1  BY <1>6, <2>1 DEF One
    <3>4. owed'[Len(owed')] = Owed  BY <1>6, <2>1, <3>3
    <3>. QED BY <3>1, <3>2, <3>4 DEF Owed
  <2>2. CASE ~accept /\ Serving /\ c.state # "ST_CAS1"
    <3>1. c'.req = c.req /\ amem' = amem  BY <2>2, ControllerStep, DataStep
    <3>2. Len(owed') = Len(owed) - a  BY <1>4, <1>6, <2>2 DEF One
    <3>3. Len(owed) - a \in 1 .. Len(owed) - a /\ Len(owed) - a + a = Len(owed)
      <4>1. s = 1  BY <1>4, <2>2
      <4>. QED BY <1>4, <1>13, <4>1
    <3>4. owed'[Len(owed')] = owed[Len(owed)]  BY <1>shift, <3>2, <3>3
    <3>. QED BY <1>end, <2>2, <3>1, <3>4
  <2>. QED BY <1>7, <2>1, <2>2
\* The acknowledged request is the first of the queue.
<1>21. c'.ack => owed'[1].we \/ c'.read_data = [lo |-> owed'[1].dat, hi |-> owed'[1].dat]
  <2>1. CASE writeDone
    <3>1. Serving /\ h(0) = 0 /\ h(1) = 0 /\ h(2) = 0 /\ s = 1 /\ c.req.we
      BY <1>4, <1>8, <1>10, <2>1
    <3>2. 1 \in 1 .. Len(owed) - a /\ 1 + a = Len(owed)  BY <1>4, <1>13, <3>1
    <3>3. owed'[1] = owed[Len(owed)]  BY <1>shift, <3>2
    <3>. QED BY <1>end, <3>1, <3>3
  <2>2. CASE HighAt(last)
    <3>1. /\ last \in 0 .. 2 /\ last \in 0 .. CasLatency - 1 /\ last + 1 = CasLatency
          /\ CasLatency \in 1 .. CasLatency /\ ~(CasLatency < CasLatency)
      BY <1>1
    <3>2. Before(last) = a
      BY <1>1, <1>3, <1>4
    <3>3. owed[a + 1] = [we |-> FALSE, dat |-> chip.out[CasLatency]]
      <4>1. owed[Before(last) + 1] = [we |-> FALSE, dat |-> chip.out[last + 1]]  BY <1>item, <2>2, <3>1
      <4>. QED BY <3>1, <3>2, <4>1
    <3>4. owed'[1] = owed[a + 1]
      <4>1. last = 1 \/ last = 2  BY <1>1
      <4>2. h(1) = 1 \/ h(2) = 1  BY <1>4, <2>2, <4>1
      <4>3. 1 \in 1 .. Len(owed) - a /\ 1 + a = a + 1  BY <1>4, <1>13, <4>2
      <4>. QED BY <1>shift, <4>3
    <3>5. c.read_low = chip.out[CasLatency]
      <4>1. LowAt(last + 1)  BY <2>2, <3>1 DEF PairsFit
      <4>2. LowAt(CasLatency) => chip.out[CasLatency] = IF CasLatency < CasLatency THEN chip.out[CasLatency + 1]
                                                       ELSE c.read_low
        BY <3>1 DEF PairsFit
      <4>. QED BY <3>1, <4>1, <4>2
    <3>6. c'.read_data = [lo |-> c.read_low, hi |-> chip.out[CasLatency]]  BY <1>8, <2>2
    <3>. QED BY <3>3, <3>4, <3>5, <3>6
  <2>. QED BY <1>8, <2>1, <2>2
<1>22. \A i \in 0 .. 2 : HighAt(i)' => owed'[Before(i)' + 1] = [we |-> FALSE, dat |-> chip'.out[i + 1]]
  <2>1. \A i \in 0 .. 2 : i = 0 \/ i = 1 \/ i = 2  OBVIOUS
  <2>2. 0 + 1 = 1 /\ 1 + 1 = 2 /\ 2 + 1 = 3  OBVIOUS
  <2>. QED BY <1>17, <1>18, <1>19, <2>1, <2>2
<1>. QED BY <1>15, <1>20, <1>21, <1>22 DEF OwedFits

-----------------------------------------------------------------------------
(* The theorem.                                                            *)

LEMMA DataInit == Init => DataInv
<1>. SUFFICES ASSUME Init PROVE DataInv
  OBVIOUS
<1>1. /\ c.state = "ST_INIT_WAIT" /\ ~c.refresh_pending /\ ~c.ack
      /\ c.req.dat = Blank /\ slave_i.dat = Blank
      /\ c.rd_pipe = [i \in 0 .. CasLatency |-> FALSE]
      /\ c.rd_half = [i \in 0 .. CasLatency |-> FALSE]
      /\ c.ack \in BOOLEAN
  BY DEF Init, ControllerReset, NoRequest
<1>2. chip.cell = [a \in Adrs |-> [lo |-> Blank, hi |-> Blank]] /\ amem = [a \in Adrs |-> Blank] /\ owed = <<>>
  BY DEF Init, ChipReset
<1>3. DataType
  <2>1. [lo |-> Blank, hi |-> Blank] \in [{"lo", "hi"} -> Data]  BY DEF Data
  <2>2. owed \in Seq([we : BOOLEAN, dat : Data])  BY <1>2
  <2>. QED BY <1>1, <1>2, <2>1, <2>2 DEF DataType, Data
<1>4. ~Serving  BY <1>1 DEF Serving
<1>5. \A i : i \in 0 .. CasLatency => ~c.rd_pipe[i]  BY <1>1
<1>6. CasLatency = 2 \/ CasLatency = 3  BY Generics
<1>7. /\ \A i \in 0 .. CasLatency : ~LowAt(i)
      /\ \A i \in 0 .. CasLatency - 1 : ~HighAt(i)
      /\ \A i \in 0 .. 2 : ~HighAt(i)
  BY <1>5, <1>6 DEF LowAt, HighAt
<1>8. PairsFit
  <2>1. \A i \in 1 .. CasLatency : i \in 0 .. CasLatency  BY <1>6
  <2>2. 0 \in 0 .. CasLatency  BY <1>6
  <2>. QED BY <1>1, <1>7, <2>1, <2>2 DEF PairsFit
<1>9. CellsFit  BY <1>2, <1>4 DEF CellsFit
<1>10. OwedFits
  <2>1. Before(0) = 0 /\ One(HighAt(0)) = 0 /\ One(Serving) = 0  BY <1>1, <1>4, <1>7 DEF Before, One
  <2>. QED BY <1>1, <1>2, <1>4, <1>7, <2>1 DEF OwedFits
<1>11. RefreshFits  BY <1>1 DEF RefreshFits
<1>. QED BY <1>3, <1>8, <1>9, <1>10, <1>11 DEF DataInv

LEMMA DataKept ==
  ASSUME SdramInv, DataInv, [Clock]_vars
  PROVE  DataInv'
<1>1. CASE Clock
  <2>1. CtlType /\ MasterType /\ PipesAgree  BY DEF SdramInv
  <2>2. BusIsSingleDriven  BY InvDriver
  <2>3. DataType'  BY <1>1, <2>1, DataTypeStep DEF DataInv
  <2>4. RefreshFits'  BY <1>1, <2>1, ServingStep DEF DataInv
  <2>5. PairsFit'  BY <1>1, <2>1, <2>2, PairsStep DEF DataInv
  <2>6. CellsFit'  BY <1>1, <2>1, CellsStep DEF DataInv
  <2>7. OwedFits'  BY <1>1, <2>1, OwedStep
  <2>. QED BY <2>3, <2>4, <2>5, <2>6, <2>7 DEF DataInv
<1>2. CASE UNCHANGED vars
  <2>1. c' = c /\ slave_i' = slave_i /\ chip' = chip /\ owed' = owed /\ amem' = amem
    BY <1>2 DEF vars
  <2>2. DataType'  BY <2>1 DEF DataInv, DataType
  <2>3. RefreshFits'  BY <2>1 DEF DataInv, RefreshFits
  <2>4. PairsFit'  BY <2>1 DEF DataInv, PairsFit, LowAt, HighAt
  <2>5. CellsFit'  BY <2>1 DEF DataInv, CellsFit, LowAt, HighAt, Serving, Before
  <2>6. OwedFits'  BY <2>1 DEF DataInv, OwedFits, LowAt, HighAt, Serving, Before
  <2>. QED BY <2>2, <2>3, <2>4, <2>5, <2>6 DEF DataInv
<1>. QED BY <1>1, <1>2

LEMMA DataInvAcks == DataInv => AcksAreInOrder
<1>. SUFFICES ASSUME DataInv, c.ack PROVE owed # <<>> /\ (~Head(owed).we => c.read_data = [lo |-> Head(owed).dat, hi |-> Head(owed).dat])
  BY DEF AcksAreInOrder
<1>1. Len(owed) = Before(0) + One(HighAt(0)) + One(Serving)  BY DEF DataInv, OwedFits
<1>2. Before(0) \in Nat /\ Before(0) > 0  BY DEF Before, One
<1>3. One(HighAt(0)) \in Nat /\ One(Serving) \in Nat  BY DEF One
<1>4. Len(owed) > 0  BY <1>1, <1>2, <1>3
<1>5. owed # <<>>  BY <1>4
<1>6. Head(owed) = owed[1]  BY <1>5 DEF DataInv, DataType
<1>. QED BY <1>5, <1>6 DEF DataInv, OwedFits

\* Acknowledges come in the order in which the controller took the requests, and a read
\* is answered with what the requests accepted before it have left in memory, although
\* reads come out of a pipeline, writes are acknowledged at once and requests go on being
\* taken meanwhile: for every timing of the device and both latencies.
THEOREM AcksOrdered == Spec => []AcksAreInOrder
<1>1. Init => SdramInv /\ DataInv
  BY InitInv, DataInit
<1>2. SdramInv /\ DataInv /\ [Clock]_vars => (SdramInv /\ DataInv)'
  BY StepInv, DataKept
<1>3. DataInv => AcksAreInOrder
  BY DataInvAcks
<1>. QED BY <1>1, <1>2, <1>3, PTL DEF Spec

-----------------------------------------------------------------------------
(* The way to a refresh.                                                   *)

\* After n edges without a column and without an opened row the row may be closed.
DrainedIn(n) ==
  /\ \A i \in 0 .. CasLatency : c.rd_pipe[i] => CasLatency + 1 - i <= n
  /\ c.wr_timer <= n /\ c.ras_timer <= n

\* The timers are loaded early enough to be through with the pipeline, and
\* nothing runs while all rows are closed.
DrainFits ==
  /\ c.wr_timer <= DrainCycles
  /\ c.state \notin {"ST_ACTIVATE_WAIT", "ST_CAS0", "ST_CAS1"} => c.ras_timer <= DrainCycles
  /\ c.state = "ST_CAS1" => c.ras_timer <= DrainCycles + 1
  /\ c.state = "ST_CAS0" => c.ras_timer <= DrainCycles + 2
  /\ c.state = "ST_ACTIVATE_WAIT" => c.ras_timer <= DrainCycles + 3 + c.wait_count
  /\ c.state \in ClosedStates => DrainedIn(0)

\* The way to a refresh for a request that is served: its two columns, then
\* what is left of them drains and its row is closed.
ColumnsWay == DrainCycles + RpCycles + 3
OpenWay    == RcdCycles + ColumnsWay
RowWay     == RpCycles + OpenWay

\* The way from a drained row.
Closing   == IF c.row_open THEN RpCycles ELSE 0
AfterRest == IF c.refresh_pending THEN Closing ELSE RowWay

\* The refresh that is due or pending is given within n cycles.
RefreshWithin(n) ==
  /\ c.state = "ST_REFRESH" => n >= 0
  /\ c.state = "ST_REFRESH_WAIT" => n >= c.wait_count + 3
  /\ c.state = "ST_INIT_MODE_WAIT" => n >= c.wait_count + 3
  /\ c.state = "ST_INIT_MODE" => n >= T_MRD_Cycles + 3
  /\ c.state = "ST_INIT_REFRESH_WAIT" => n >= c.wait_count + T_MRD_Cycles + 4
  /\ c.state = "ST_IDLE" =>
       \E k \in Int : k >= 1 /\ DrainedIn(k) /\ n >= k + 1 + Closing
  /\ c.state = "ST_DRAIN" =>
       \E k \in Int : DrainedIn(k) /\ n >= k + 1 + AfterRest
  /\ c.state = "ST_CAS1" => n >= ColumnsWay - 1
  /\ c.state = "ST_CAS0" => n >= ColumnsWay
  /\ c.state = "ST_ACTIVATE_WAIT" => n >= ColumnsWay + 1 + c.wait_count
  /\ c.state = "ST_ACTIVATE" => n >= OpenWay
  /\ c.state = "ST_PRECHARGE" => n >= RpCycles + (IF c.refresh_pending THEN 0 ELSE OpenWay)
  /\ c.state = "ST_PRECHARGE_WAIT" =>
       n >= c.wait_count + 1 + (IF c.refresh_pending THEN 0 ELSE OpenWay)

\* The states before the device's first refresh.
BeforeRefresh == {"ST_INIT_WAIT", "ST_INIT_PRECHARGE", "ST_INIT_PRECHARGE_WAIT", "ST_INIT_REFRESH"}

\* A refresh that is due comes before the deadline.
DeadlineKept ==
  c.refresh_due \/ c.refresh_pending \/ c.state \in Init0 \ BeforeRefresh =>
    \E n \in Int : chip.ref + n <= RefreshCycles + RefreshLatency /\ RefreshWithin(n)

\* The timer is ahead of the time since the last refresh, so that the next one
\* is due in time.
TimerAhead ==
  /\ c.refresh_timer \in 0 .. RefreshCycles - 1
  /\ ~c.refresh_due /\ c.state \notin BeforeRefresh
     /\ (c.refresh_pending => c.state = "ST_REFRESH_WAIT") => chip.ref + 1 <= c.refresh_timer
  /\ ~c.refresh_due /\ (c.state \in BeforeRefresh \ {"ST_INIT_WAIT"}
                        \/ (c.refresh_pending /\ c.state # "ST_DRAIN")) => c.refresh_timer >= 1

\* A wait is not longer than it was begun with.
WaitFits ==
  /\ c.state = "ST_ACTIVATE_WAIT" => c.wait_count + 2 <= RcdCycles
  /\ c.state = "ST_PRECHARGE_WAIT" => c.wait_count + 2 <= RpCycles
  /\ c.state = "ST_REFRESH_WAIT" => c.wait_count <= RfcWait

DeadlineInv == DrainFits /\ WaitFits /\ DeadlineKept /\ TimerAhead

\* The master is about to see an acknowledge; until then nobody counts.
AckComes == c.ack \/ \E i \in 0 .. CasLatency - 1 : HighAt(i)
Wait     == IF AckComes THEN 0 ELSE quiet

\* The next acknowledge out of the pipeline comes in time.
AcksKept ==
  \A i \in 0 .. CasLatency - 1 : HighAt(i) =>
    \/ c.ack \/ \E j \in i + 1 .. CasLatency - 1 : HighAt(j)
    \/ quiet + CasLatency - i <= ProgressLatency

\* So does the one of the request that is served, whose columns are as far
\* away as they are on the way to a refresh.
ServingKept ==
  Serving => \E n \in Int : RefreshWithin(n) /\ Wait + n <= ProgressLatency + ColumnsWay - CasLatency - 2

\* From a refresh to the idle state, and from there through another refresh.
RefreshToIdle == RfcWait + 2
Round         == RfcWait + 4

RefreshPhase == c.refresh_pending \/ (c.state = "ST_IDLE" /\ c.refresh_due)
IdleWithin(n) ==
  IF c.state = "ST_REFRESH_WAIT" THEN n >= c.wait_count + 1
  ELSE \E m \in Int : RefreshWithin(m) /\ n >= m + RefreshToIdle

\* A refresh is over in time, and so is one more if the interval ends before
\* that; it does not end twice.
PhaseKept ==
  RefreshPhase => \E n \in Int :
    /\ IdleWithin(n) /\ n <= DrainCycles + RpCycles + RfcWait + 3
    /\ \/ /\ Wait + n <= ProgressLatency /\ c.refresh_timer + n < RefreshCycles
          /\ c.refresh_pending => ~c.refresh_due
       \/ /\ Wait + n + Round <= ProgressLatency
          /\ c.refresh_pending /\ c.refresh_due => c.refresh_timer + n + Round < RefreshCycles

StbInCyc == slave_i.stb => slave_i.cyc

ProgressInv ==
  /\ quiet \in Nat /\ ProgressIsInTime /\ StbInCyc
  /\ AcksKept /\ ServingKept /\ PhaseKept

-----------------------------------------------------------------------------
(* How the pipeline and the timers run empty.                              *)

\* What MayClose waits for.
LEMMA DrainedNow ==
  ASSUME CtlType
  PROVE  DrainedIn(0) <=> MayClose
<1>1. \A i \in 0 .. CasLatency : ~(CasLatency + 1 - i <= 0)
  BY Generics
<1> QED
  BY <1>1 DEF DrainedIn, MayClose, rd_idle, CtlType

\* Nothing drains in the past.
LEMMA DrainedNat ==
  ASSUME CtlType, NEW n \in Int, DrainedIn(n)
  PROVE  n >= 0
BY DEF DrainedIn, CtlType

\* Without a column and without an opened row each edge is one less to wait.
LEMMA DrainStep ==
  ASSUME CtlType, Clock, NEW n \in Int, DrainedIn(n), ~Reads, ~dq_oe, c.state # "ST_ACTIVATE"
  PROVE  /\ n > 0 => DrainedIn(n - 1)'
         /\ n = 0 => DrainedIn(0)'
<1>1. /\ c'.wr_timer = Tick(c.wr_timer) /\ c'.ras_timer = Tick(c.ras_timer)
      /\ c'.rd_pipe = [i \in 0 .. CasLatency |-> IF i = 0 THEN Reads ELSE c.rd_pipe[i - 1]]
  BY ControllerStep DEF NextPipe
<1>2. \A i \in 0 .. CasLatency : c'.rd_pipe[i] =>
        i # 0 /\ i - 1 \in 0 .. CasLatency /\ c.rd_pipe[i - 1]
  BY <1>1, Generics
<1>3. \A i \in 0 .. CasLatency : c'.rd_pipe[i] => CasLatency + 1 - i <= n - 1
  <2> SUFFICES ASSUME NEW i \in 0 .. CasLatency, c'.rd_pipe[i]
               PROVE  CasLatency + 1 - i <= n - 1
    OBVIOUS
  <2>1. CasLatency + 1 - (i - 1) <= n
    BY <1>2 DEF DrainedIn
  <2> QED
    BY <2>1, Generics
<1>4. c.wr_timer \in Nat /\ c.ras_timer \in Nat /\ c.wr_timer <= n /\ c.ras_timer <= n
  BY DEF CtlType, DrainedIn
<1>5. /\ n > 0 => Tick(c.wr_timer) <= n - 1 /\ Tick(c.ras_timer) <= n - 1
      /\ n = 0 => Tick(c.wr_timer) <= 0 /\ Tick(c.ras_timer) <= 0
  BY <1>4 DEF Tick
<1>6. n = 0 => \A i \in 0 .. CasLatency : ~c'.rd_pipe[i]
  BY <1>3, Generics
<1> QED
  BY <1>1, <1>3, <1>5, <1>6 DEF DrainedIn

\* Between two requests the row may be closed after DrainCycles.
LEMMA DrainAll ==
  ASSUME CtlType, DrainFits, c.state \notin {"ST_ACTIVATE_WAIT", "ST_CAS0", "ST_CAS1"}
  PROVE  DrainedIn(DrainCycles)
<1>1. \A i \in 0 .. CasLatency : CasLatency + 1 - i <= DrainCycles
  BY DrainBounds, Generics
<1> QED
  BY <1>1 DEF DrainFits, DrainedIn

\* How the states with an open row, of a request that is served, are reached.
LEMMA ToActivateWait ==
  ASSUME CtlType, NextState = "ST_ACTIVATE_WAIT"
  PROVE  c.state \in {"ST_ACTIVATE", "ST_ACTIVATE_WAIT"}
<1>1. CASE c.state \in {"ST_IDLE", "ST_CAS1"}
  BY <1>1 DEF NextState, AfterAccept, Waits
<1>2. CASE c.state = "ST_DRAIN"
  BY <1>2 DEF NextState, AfterDrain, Waits
<1>3. CASE c.state \in States \ {"ST_IDLE", "ST_CAS1", "ST_DRAIN", "ST_ACTIVATE", "ST_ACTIVATE_WAIT"}
  BY <1>3 DEF NextState, AfterWait, AfterPrecharge, States, Init0, Waits
<1> QED
  BY <1>1, <1>2, <1>3 DEF CtlType

\* How the states with all rows closed are reached, with MayClose.
LEMMA ToRest ==
  ASSUME CtlType, NextState \in ClosedStates
  PROVE  \/ c.state \in ClosedStates \ {"ST_ACTIVATE"}
         \/ c.state = "ST_PRECHARGE"
         \/ c.state = "ST_DRAIN" /\ MayClose
<1>1. CASE c.state = "ST_DRAIN"
  BY <1>1 DEF NextState, AfterDrain, ClosedStates, Init0, Waits
<1> QED
  BY <1>1, ToClosed

\* Each edge leaves the timers no further than the pipeline.
LEMMA DrainFitsStep ==
  ASSUME CtlType, Times, PipesAgree, DrainFits, Clock
  PROVE  DrainFits'
<1> DEFINE D == DrainCycles
<1>1. /\ c.wait_count \in Nat /\ c.ras_timer \in Nat /\ c.wr_timer \in Nat
      /\ c'.state = NextState /\ c'.wait_count = NextWait
      /\ D \in Nat /\ D + 1 >= WrCycles /\ D + RcdCycles + 2 >= RasCycles
  BY ControllerStep, DrainBounds DEF CtlType
<1>2. c'.wr_timer <= D
  BY <1>1, ControllerStep, Generics DEF DrainFits, Tick, sub_clip
<1>3. c.state # "ST_ACTIVATE" =>
        c'.ras_timer \in Nat /\ c'.ras_timer <= c.ras_timer /\ (c.ras_timer > 0 => c'.ras_timer = c.ras_timer - 1)
  BY <1>1, ControllerStep DEF Tick
<1>4. CASE c.state = "ST_ACTIVATE"
  <2>1. c'.state = IF RcdCycles > 1 THEN "ST_ACTIVATE_WAIT" ELSE "ST_CAS0"
    BY <1>1, <1>4 DEF NextState, Waits
  <2>2. RcdCycles > 1 => c'.wait_count = RcdWait
    BY <1>1, <1>4 DEF NextWait, Waits
  <2>3. c'.ras_timer = sub_clip(RasCycles, 1)
    BY <1>4, ControllerStep
  <2>4. c'.state \notin ClosedStates
    BY <2>1 DEF ClosedStates, Init0
  <2> QED
    BY <1>1, <1>2, <2>1, <2>2, <2>3, <2>4, Generics DEF DrainFits, RcdWait, sub_clip
<1>5. CASE c.state = "ST_ACTIVATE_WAIT"
  <2>1. c'.state = IF c.wait_count = 0 THEN "ST_CAS0" ELSE "ST_ACTIVATE_WAIT"
    BY <1>1, <1>5 DEF NextState, AfterWait, Waits
  <2>2. c.wait_count # 0 => c'.wait_count = c.wait_count - 1
    BY <1>1, <1>5 DEF NextWait, Waits
  <2>3. c'.state \notin ClosedStates
    BY <2>1 DEF ClosedStates, Init0
  <2> QED
    BY <1>1, <1>2, <1>3, <1>5, <2>1, <2>2, <2>3 DEF DrainFits
<1>6. CASE c.state = "ST_CAS0"
  <2>1. c'.state = "ST_CAS1"
    BY <1>1, <1>6 DEF NextState, Waits
  <2>3. c'.state \notin ClosedStates
    BY <2>1 DEF ClosedStates, Init0
  <2> QED
    BY <1>1, <1>2, <1>3, <1>6, <2>1, <2>3 DEF DrainFits
<1>7. CASE c.state = "ST_CAS1"
  <2>1. c'.state \in {"ST_CAS0", "ST_DRAIN", "ST_IDLE"}
    BY <1>1, <1>7 DEF NextState, AfterAccept, Waits
  <2>3. c'.state \notin ClosedStates
    BY <2>1 DEF ClosedStates, Init0
  <2> QED
    BY <1>1, <1>2, <1>3, <1>7, <2>1, <2>3 DEF DrainFits
<1>8. CASE c.state \notin {"ST_ACTIVATE", "ST_ACTIVATE_WAIT", "ST_CAS0", "ST_CAS1"}
  <2>1. c.ras_timer <= D
    BY <1>8 DEF DrainFits
  <2>2. c'.state \notin {"ST_ACTIVATE_WAIT", "ST_CAS1"}
    BY <1>1, <1>8, ToActivateWait, ToHighColumn
  <2>3. c'.state \in ClosedStates => DrainedIn(0)'
    <3> SUFFICES ASSUME c'.state \in ClosedStates
                 PROVE  DrainedIn(0)'
      OBVIOUS
    <3>1. DrainedIn(0)
      <4>1. CASE c.state \in ClosedStates
        BY <4>1 DEF DrainFits
      <4>2. CASE c.state = "ST_PRECHARGE"
        BY <4>2, DrainedNow DEF Times, TimersRest, PipesAgree, DrainedStates, MayClose
      <4>3. CASE c.state = "ST_DRAIN" /\ MayClose
        BY <4>3, DrainedNow
      <4> QED
        BY <1>1, <4>1, <4>2, <4>3, ToRest
    <3>2. ~Reads /\ ~dq_oe
      BY <1>8, Commands DEF Reads, dq_oe, Columns
    <3> QED
      BY <1>8, <3>1, <3>2, DrainStep
  <2> QED
    BY <1>1, <1>2, <1>3, <1>8, <2>1, <2>2, <2>3 DEF DrainFits
<1> QED
  BY <1>4, <1>5, <1>6, <1>7, <1>8

-----------------------------------------------------------------------------
(* The way to the next refresh.                                            *)

\* The lengths of the ways.
LEMMA WayBounds ==
  ASSUME CtlType
  PROVE  /\ c.wait_count \in Nat /\ c.refresh_pending \in BOOLEAN /\ c.row_open \in BOOLEAN
         /\ RpCycles \in Nat /\ RpCycles > 0 /\ RcdCycles \in Nat /\ RcdCycles > 0
         /\ T_MRD_Cycles \in Nat /\ T_MRD_Cycles > 0 /\ RfcCycles \in Nat /\ RfcCycles > 0
         /\ DrainCycles \in Nat /\ DrainCycles >= 3
         /\ ColumnsWay \in Nat /\ OpenWay \in Nat /\ RowWay \in Nat
         /\ Closing \in Nat /\ AfterRest \in Nat
BY Generics, DrainBounds DEF CtlType, Closing, AfterRest, RowWay, OpenWay, ColumnsWay

\* A row that is drained is closed, or is closed already.
LEMMA DrainLeaves ==
  ASSUME CtlType, Clock, c.state = "ST_DRAIN", NEW k \in Int, DrainedIn(k)
  PROVE  \/ c'.state = "ST_DRAIN" /\ k > 0
         \/ c.refresh_pending /\ c.row_open /\ c'.state = "ST_PRECHARGE"
         \/ c.refresh_pending /\ ~c.row_open /\ c'.state = "ST_REFRESH"
         \/ ~c.refresh_pending /\ c'.state \in {"ST_PRECHARGE", "ST_ACTIVATE", "ST_CAS0"}
<1>1. c'.state = AfterDrain
  BY ControllerStep DEF NextState, Waits
<1>2. k >= 0
  BY DrainedNat
<1>3. k = 0 => MayClose /\ rd_idle
  BY DrainedNow DEF MayClose
<1>4. CASE k = 0
  BY <1>1, <1>3, <1>4 DEF AfterDrain
<1>5. CASE k > 0
  BY <1>1, <1>5 DEF AfterDrain
<1> QED
  BY <1>2, <1>4, <1>5

\* Each edge is one cycle less on the way to the refresh, as long as no request is
\* accepted and an idle controller turns to the refresh.
LEMMA WithinStep ==
  ASSUME SdramInv, RefreshFits, DrainFits, Clock,
         ~accept, c.state = "ST_IDLE" => c.refresh_due,
         c.state \notin {"ST_REFRESH", "ST_INIT_REFRESH"},
         NEW n \in Int, RefreshWithin(n)
  PROVE  RefreshWithin(n - 1)'
<1> USE DEF SdramInv
<1>1. /\ c'.state = NextState /\ c'.wait_count = NextWait
      /\ c'.refresh_pending <=> \/ c.state = "ST_IDLE" /\ c.refresh_due
                                \/ c.refresh_pending /\ ~(c.state = "ST_REFRESH_WAIT" /\ c.wait_count = 0)
      /\ c'.row_open <=> (c.row_open \/ c.state = "ST_ACTIVATE") /\ c.state # "ST_PRECHARGE"
  <2>1. c'.refresh_pending = (\/ c.state = "ST_IDLE" /\ c.refresh_due
                              \/ c.refresh_pending /\ ~(c.state = "ST_REFRESH_WAIT" /\ c.wait_count = 0))
    BY ControllerStep
  <2>2. c'.row_open = ((c.row_open \/ c.state = "ST_ACTIVATE") /\ c.state # "ST_PRECHARGE")
    BY ControllerStep
  <2>3. c'.state = NextState /\ c'.wait_count = NextWait
    BY ControllerStep
  <2> QED
    BY <2>1, <2>2, <2>3, Zenon
<1>2. CtlType' /\ DrainFits'
  BY TypesStep, DrainFitsStep
<1>3. Closing' = IF c'.row_open THEN RpCycles ELSE 0
  BY DEF Closing
<1>4. AfterRest' = IF c'.refresh_pending THEN Closing' ELSE RowWay
  BY DEF AfterRest, RowWay, OpenWay, ColumnsWay
<1>5. CASE c.state \in {"ST_INIT_WAIT", "ST_INIT_PRECHARGE", "ST_INIT_PRECHARGE_WAIT"}
  <2>1. c'.state \in BeforeRefresh
    BY <1>1, <1>5 DEF NextState, AfterWait, Waits, BeforeRefresh
  <2> QED
    BY <2>1 DEF RefreshWithin, BeforeRefresh
<1>6. CASE c.state = "ST_INIT_REFRESH_WAIT"
  <2>1. \/ c.wait_count > 0 /\ c'.state = c.state /\ c'.wait_count = c.wait_count - 1
        \/ c.wait_count = 0 /\ c'.state \in {"ST_INIT_MODE", "ST_INIT_REFRESH"}
    BY <1>1, <1>6, WayBounds DEF NextState, NextWait, AfterWait, Waits
  <2> QED
    BY <1>6, <2>1, WayBounds DEF RefreshWithin
<1>7. CASE c.state = "ST_INIT_MODE"
  <2>1. c'.state = "ST_INIT_MODE_WAIT" /\ c'.wait_count = T_MRD_Cycles - 1
    BY <1>1, <1>7 DEF NextState, NextWait, Waits
  <2> QED
    BY <1>7, <2>1, WayBounds DEF RefreshWithin
<1>8. CASE c.state \in {"ST_INIT_MODE_WAIT", "ST_REFRESH_WAIT"}
  <2>1. \/ c.wait_count > 0 /\ c'.state = c.state /\ c'.wait_count = c.wait_count - 1
        \/ c.wait_count = 0 /\ c'.state = "ST_IDLE"
    BY <1>1, <1>8, WayBounds DEF NextState, NextWait, AfterWait, Waits
  <2>2. n >= c.wait_count + 3
    BY <1>8 DEF RefreshWithin
  <2>3. CASE c'.state = "ST_IDLE"
    <3>1. ~c'.row_open
      BY <1>1, <1>8 DEF RowsFit, ClosedStates, Init0
    <3>2. DrainedIn(0)'
      <4>1. DrainedIn(0) /\ ~Reads /\ ~dq_oe
        BY <1>8, Commands DEF DrainFits, ClosedStates, Init0, Reads, dq_oe, Columns
      <4> QED
        BY <1>8, <4>1, DrainStep
    <3>3. DrainedIn(1)'
      <4>1. \A i \in 0 .. CasLatency : c'.rd_pipe[i] => CasLatency + 1 - i <= 0
        BY <3>2 DEF DrainedIn
      <4>2. c'.wr_timer <= 0 /\ c'.ras_timer <= 0
        BY <3>2 DEF DrainedIn
      <4> QED
        BY <1>2, <4>1, <4>2, Generics DEF DrainedIn, CtlType
    <3>4. Closing' = 0 /\ n - 1 >= 1 + 1 + 0
      BY <1>3, <2>2, <3>1, WayBounds
    <3> QED
      BY <2>3, <3>3, <3>4 DEF RefreshWithin
  <2>4. CASE c'.state = c.state
    BY <1>8, <2>1, <2>2, <2>4, WayBounds DEF RefreshWithin
  <2> QED
    BY <2>1, <2>3, <2>4
<1>9. CASE c.state = "ST_IDLE"
  <2>1. c.refresh_due
    BY <1>9
  <2>2. c'.state = "ST_DRAIN" /\ c'.refresh_pending /\ (c'.row_open <=> c.row_open)
    BY <1>1, <1>9, <2>1 DEF NextState, Waits
  <2>3. PICK k \in Int : k >= 1 /\ DrainedIn(k) /\ n >= k + 1 + Closing
    BY <1>9 DEF RefreshWithin
  <2>4. ~Reads /\ ~dq_oe
    BY <1>9, Commands DEF Reads, dq_oe, Columns
  <2>5. DrainedIn(k - 1)'
    BY <1>9, <2>3, <2>4, DrainStep
  <2>6. AfterRest' = Closing
    BY <1>3, <1>4, <2>2 DEF Closing
  <2>7. n - 1 >= (k - 1) + 1 + AfterRest' /\ k - 1 \in Int
    BY <2>3, <2>6, WayBounds
  <2> QED
    BY <2>2, <2>5, <2>7 DEF RefreshWithin
<1>10. CASE c.state = "ST_DRAIN"
  <2>1. PICK k \in Int : DrainedIn(k) /\ n >= k + 1 + AfterRest
    BY <1>10 DEF RefreshWithin
  <2>2. (c'.row_open <=> c.row_open) /\ (c'.refresh_pending <=> c.refresh_pending) /\ k >= 0
    BY <1>1, <1>10, <2>1, DrainedNat
  <2>3. \/ c'.state = "ST_DRAIN" /\ k > 0
        \/ c.refresh_pending /\ c.row_open /\ c'.state = "ST_PRECHARGE"
        \/ c.refresh_pending /\ ~c.row_open /\ c'.state = "ST_REFRESH"
        \/ ~c.refresh_pending /\ c'.state \in {"ST_PRECHARGE", "ST_ACTIVATE", "ST_CAS0"}
    BY <1>10, <2>1, DrainLeaves
  <2>4. CASE c'.state = "ST_DRAIN" /\ k > 0
    <3>1. ~Reads /\ ~dq_oe
      BY <1>10, Commands DEF Reads, dq_oe, Columns
    <3>2. DrainedIn(k - 1)'
      BY <1>10, <2>1, <2>4, <3>1, DrainStep
    <3>3. AfterRest' = AfterRest
      BY <1>3, <1>4, <2>2 DEF AfterRest, Closing
    <3>4. n - 1 >= (k - 1) + 1 + AfterRest' /\ k - 1 \in Int
      BY <2>1, <3>3, WayBounds
    <3> QED
      BY <2>4, <3>2, <3>4 DEF RefreshWithin
  <2>5. CASE c.refresh_pending
    <3>1. n - 1 >= Closing
      BY <2>1, <2>2, <2>5, WayBounds DEF AfterRest
    <3> QED
      BY <2>2, <2>3, <2>4, <2>5, <3>1, WayBounds DEF RefreshWithin, Closing
  <2>6. CASE ~c.refresh_pending
    <3>1. n - 1 >= RowWay
      BY <2>1, <2>2, <2>6, WayBounds DEF AfterRest
    <3> QED
      BY <2>2, <2>3, <2>4, <2>6, <3>1, WayBounds DEF RefreshWithin, RowWay, OpenWay
  <2> QED
    BY <2>5, <2>6
<1>11. CASE c.state = "ST_CAS1"
  <2>1. c'.state = "ST_IDLE" /\ n >= ColumnsWay - 1
    BY <1>1, <1>11 DEF NextState, Waits, RefreshWithin
  <2>2. DrainedIn(DrainCycles)'
    <3>1. DrainCycles \in Nat /\ \A i \in 0 .. CasLatency : CasLatency + 1 - i <= DrainCycles
      BY DrainBounds, Generics
    <3> QED
      BY <1>2, <2>1, <3>1 DEF DrainFits, DrainedIn
  <2>3. n - 1 >= DrainCycles + 1 + Closing' /\ DrainCycles >= 1 /\ DrainCycles \in Int
    BY <1>3, <2>1, WayBounds DEF ColumnsWay
  <2> QED
    BY <2>1, <2>2, <2>3 DEF RefreshWithin
<1>12. CASE c.state = "ST_CAS0"
  <2>1. c'.state = "ST_CAS1"
    BY <1>1, <1>12 DEF NextState, Waits
  <2> QED
    BY <1>12, <2>1, WayBounds DEF RefreshWithin
<1>13. CASE c.state = "ST_ACTIVATE"
  <2>1. \/ RcdCycles > 1 /\ c'.state = "ST_ACTIVATE_WAIT" /\ c'.wait_count = RcdCycles - 2
        \/ RcdCycles = 1 /\ c'.state = "ST_CAS0"
    BY <1>1, <1>13, WayBounds DEF NextState, NextWait, Waits, RcdWait, sub_clip
  <2> QED
    BY <1>13, <2>1, WayBounds DEF RefreshWithin, OpenWay
<1>14. CASE c.state = "ST_ACTIVATE_WAIT"
  <2>1. \/ c.wait_count > 0 /\ c'.state = c.state /\ c'.wait_count = c.wait_count - 1
        \/ c.wait_count = 0 /\ c'.state = "ST_CAS0"
    BY <1>1, <1>14, WayBounds DEF NextState, NextWait, AfterWait, Waits
  <2> QED
    BY <1>14, <2>1, WayBounds DEF RefreshWithin
<1>15. CASE c.state \in {"ST_PRECHARGE", "ST_PRECHARGE_WAIT"}
  <2> DEFINE rest == IF c.refresh_pending THEN 0 ELSE OpenWay
             next == IF c.refresh_pending THEN "ST_REFRESH" ELSE "ST_ACTIVATE"
  <2>0. c'.refresh_pending <=> c.refresh_pending
    BY <1>1, <1>15
  <2>1. \/ c'.state = "ST_PRECHARGE_WAIT" /\ n - 1 >= c'.wait_count + 1 + rest
        \/ c'.state = next /\ n - 1 >= rest
    <3>1. CASE c.state = "ST_PRECHARGE"
      <4>1. \/ RpCycles > 1 /\ c'.state = "ST_PRECHARGE_WAIT" /\ c'.wait_count = RpCycles - 2
            \/ RpCycles = 1 /\ c'.state = next
        BY <1>1, <3>1, WayBounds DEF NextState, NextWait, AfterPrecharge, Waits, RpWait, sub_clip
      <4>2. n >= RpCycles + rest /\ rest \in Nat
        BY <3>1, WayBounds DEF RefreshWithin
      <4> HIDE DEF rest, next
      <4> QED
        BY <4>1, <4>2, WayBounds
    <3>2. CASE c.state = "ST_PRECHARGE_WAIT"
      <4>1. \/ c.wait_count > 0 /\ c'.state = c.state /\ c'.wait_count = c.wait_count - 1
            \/ c.wait_count = 0 /\ c'.state = next
        BY <1>1, <3>2, WayBounds DEF NextState, NextWait, AfterWait, AfterPrecharge, Waits
      <4>2. n >= c.wait_count + 1 + rest /\ rest \in Nat
        BY <3>2, WayBounds DEF RefreshWithin
      <4> HIDE DEF rest, next
      <4> QED
        BY <3>2, <4>1, <4>2, WayBounds
    <3> QED
      BY <1>15, <3>1, <3>2
  <2> QED
    BY <2>0, <2>1 DEF RefreshWithin
<1> QED
  BY <1>5, <1>6, <1>7, <1>8, <1>9, <1>10, <1>11, <1>12, <1>13, <1>14, <1>15 DEF CtlType, States, Init0

LEMMA WaitFitsStep ==
  ASSUME CtlType, RefreshFits, WaitFits, Clock
  PROVE  WaitFits'
<1>1. c'.state = NextState /\ c'.wait_count = NextWait
  BY ControllerStep
<1>2. CASE c.state \in Waits
  <2>1. CASE c.wait_count = 0
    <3>1. c'.state = AfterWait
      BY <1>1, <1>2, <2>1 DEF NextState, Waits
    <3>2. c'.state \notin {"ST_ACTIVATE_WAIT", "ST_PRECHARGE_WAIT", "ST_REFRESH_WAIT"}
      BY <1>2, <3>1 DEF AfterWait, AfterPrecharge, Waits
    <3> QED
      BY <3>2 DEF WaitFits
  <2>2. CASE c.wait_count # 0
    <3>1. c'.state = c.state /\ c'.wait_count = c.wait_count - 1
      BY <1>1, <1>2, <2>2 DEF NextState, NextWait, Waits
    <3>2. c.wait_count \in Nat /\ RfcWait \in Nat
      BY WayBounds DEF RfcWait, sub_clip
    <3> QED
      BY <3>1, <3>2, WayBounds DEF WaitFits
  <2> QED
    BY <2>1, <2>2
<1>3. CASE c.state \notin Waits
  <2>1. c.state # "ST_ACTIVATE" => c'.state # "ST_ACTIVATE_WAIT"
    BY <1>1, <1>3, ToActivateWait DEF Waits
  <2>2. c'.state = "ST_PRECHARGE_WAIT" => c.state = "ST_PRECHARGE" /\ RpCycles > 1
    BY <1>1, <1>3 DEF NextState, AfterAccept, AfterDrain, AfterPrecharge, CtlType, States, Init0, Waits
  <2>3. c'.state = "ST_REFRESH_WAIT" => c.state = "ST_REFRESH"
    BY <1>1, <1>3 DEF NextState, AfterAccept, AfterDrain, AfterPrecharge, CtlType, States, Init0, Waits
  <2>4. c'.state = "ST_ACTIVATE_WAIT" => c.state = "ST_ACTIVATE" /\ RcdCycles > 1
    BY <1>1, <2>1 DEF NextState, Waits
  <2>5. c'.state = "ST_ACTIVATE_WAIT" => c'.wait_count = RcdWait
    BY <1>1, <2>4 DEF NextWait, Waits
  <2>6. c'.state = "ST_PRECHARGE_WAIT" => c'.wait_count = RpWait
    BY <1>1, <2>2 DEF NextWait, Waits
  <2>7. c'.state = "ST_REFRESH_WAIT" => c'.wait_count = RfcWait
    BY <1>1, <2>3 DEF NextWait, Waits
  <2>8. RfcWait \in Nat /\ (RcdCycles > 1 => RcdWait + 2 <= RcdCycles) /\ (RpCycles > 1 => RpWait + 2 <= RpCycles)
    BY WayBounds DEF RfcWait, RcdWait, RpWait, sub_clip
  <2> QED
    BY <2>2, <2>4, <2>5, <2>6, <2>7, <2>8 DEF WaitFits
<1> QED
  BY <1>2, <1>3

\* A way is not shorter than nothing.
LEMMA WithinNat ==
  ASSUME CtlType, c.state \notin BeforeRefresh, NEW n \in Int, RefreshWithin(n)
  PROVE  n >= 0
<1> DEFINE rest == IF c.refresh_pending THEN 0 ELSE OpenWay
           cl == Closing
           af == AfterRest
<1>1. rest \in Nat /\ cl \in Nat /\ af \in Nat
  BY WayBounds
<1>2. /\ c.state = "ST_IDLE" => \E k \in Int : DrainedIn(k) /\ n >= k + 1 + cl
      /\ c.state = "ST_DRAIN" => \E k \in Int : DrainedIn(k) /\ n >= k + 1 + af
      /\ c.state = "ST_PRECHARGE" => n >= RpCycles + rest
      /\ c.state = "ST_PRECHARGE_WAIT" => n >= c.wait_count + 1 + rest
      /\ c.state = "ST_REFRESH" => n >= 0
      /\ c.state \in {"ST_REFRESH_WAIT", "ST_INIT_MODE_WAIT"} => n >= c.wait_count + 3
      /\ c.state = "ST_INIT_MODE" => n >= T_MRD_Cycles + 3
      /\ c.state = "ST_INIT_REFRESH_WAIT" => n >= c.wait_count + T_MRD_Cycles + 4
      /\ c.state = "ST_CAS1" => n >= ColumnsWay - 1
      /\ c.state = "ST_CAS0" => n >= ColumnsWay
      /\ c.state = "ST_ACTIVATE_WAIT" => n >= ColumnsWay + 1 + c.wait_count
      /\ c.state = "ST_ACTIVATE" => n >= OpenWay
  BY DEF RefreshWithin
<1> HIDE DEF rest, cl, af
<1>3. c.state \in {"ST_IDLE", "ST_DRAIN", "ST_PRECHARGE", "ST_PRECHARGE_WAIT"} => n >= 0
  <2>1. \A k \in Int : DrainedIn(k) => k >= 0
    BY DrainedNat
  <2> QED
    BY <1>1, <1>2, <2>1, WayBounds
<1>4. c.state \notin {"ST_IDLE", "ST_DRAIN", "ST_PRECHARGE", "ST_PRECHARGE_WAIT"} => n >= 0
  <2>1. ColumnsWay \in Nat /\ ColumnsWay >= 1
    BY WayBounds DEF ColumnsWay
  <2>2. c.state \in States
    BY DEF CtlType
  <2> QED
    BY <1>2, <2>1, <2>2, WayBounds DEF States, Init0, BeforeRefresh
<1> QED
  BY <1>3, <1>4

\* Wherever the end of the interval finds the controller, the refresh is given
\* within the latency.
LatencyCovers ==
  \A L \in Int : /\ CtlType /\ DrainFits /\ WaitFits /\ L = RefreshLatency + 1
                /\ ~c.refresh_pending /\ c.state \notin Init0 \cup {"ST_REFRESH", "ST_REFRESH_WAIT"}
                => RefreshWithin(L)

LEMMA WithinLatency == LatencyCovers
<1> SUFFICES ASSUME CtlType, DrainFits, WaitFits, c.state \notin Init0, ~c.refresh_pending,
                    c.state \notin {"ST_REFRESH", "ST_REFRESH_WAIT"}, NEW L \in Int, L = RefreshLatency + 1
             PROVE  RefreshWithin(L)
  BY DEF LatencyCovers
<1>1. L = 2 * RpCycles + RcdCycles + 2 * DrainCycles + 4
  BY WayBounds DEF RefreshLatency
<1>2. Closing <= RpCycles /\ AfterRest = RowWay
  BY Generics DEF AfterRest, Closing
<1>3. c.state = "ST_IDLE" => \E k \in Int : k >= 1 /\ DrainedIn(k) /\ L >= k + 1 + Closing
  <2>1. DrainCycles \in Int /\ DrainCycles >= 1 /\ L >= DrainCycles + 1 + Closing
    BY <1>1, <1>2, WayBounds
  <2> QED
    BY <2>1, DrainAll
<1>4. c.state = "ST_DRAIN" => \E k \in Int : DrainedIn(k) /\ L >= k + 1 + AfterRest
  <2>1. DrainCycles \in Int /\ L >= DrainCycles + 1 + AfterRest
    BY <1>1, <1>2, WayBounds DEF RowWay, OpenWay, ColumnsWay
  <2> QED
    BY <2>1, DrainAll
<1> QED
  BY <1>1, <1>3, <1>4, WayBounds DEF RefreshWithin, WaitFits, OpenWay, ColumnsWay, Init0

\* What one edge does to the registers of the refresh.
LEMMA RefreshRegs ==
  ASSUME Clock
  PROVE  /\ c'.refresh_timer = IF c.refresh_timer = RefreshCycles - 1 THEN 0 ELSE c.refresh_timer + 1
         /\ c'.refresh_due <=> /\ ~(c.state = "ST_IDLE" /\ c.refresh_due)
                               /\ c.refresh_timer = RefreshCycles - 1 \/ c.refresh_due
         /\ c'.refresh_pending <=> \/ c.state = "ST_IDLE" /\ c.refresh_due
                                   \/ c.refresh_pending /\ ~(c.state = "ST_REFRESH_WAIT" /\ c.wait_count = 0)
<1>1. /\ c'.refresh_timer = IF RefreshTick THEN 0 ELSE c.refresh_timer + 1
      /\ c'.refresh_due = (~(c.state = "ST_IDLE" /\ c.refresh_due) /\ (RefreshTick \/ c.refresh_due))
      /\ c'.refresh_pending = (\/ c.state = "ST_IDLE" /\ c.refresh_due
                               \/ c.refresh_pending /\ ~(c.state = "ST_REFRESH_WAIT" /\ c.wait_count = 0))
  BY DEF Clock, ControllerEdge
<1>2. c'.refresh_due <=> ~(c.state = "ST_IDLE" /\ c.refresh_due) /\ (RefreshTick \/ c.refresh_due)
  BY <1>1, Zenon
<1>3. c'.refresh_pending <=> (\/ c.state = "ST_IDLE" /\ c.refresh_due
                              \/ c.refresh_pending /\ ~(c.state = "ST_REFRESH_WAIT" /\ c.wait_count = 0))
  BY <1>1, Zenon
<1> QED
  BY <1>1, <1>2, <1>3 DEF RefreshTick

\* The time since the last refresh.
LEMMA RefCount ==
  ASSUME CtlType, ChipType, Clock
  PROVE  /\ chip.ref \in Nat /\ chip'.ref \in Nat
         /\ c.state \in {"ST_INIT_REFRESH", "ST_REFRESH"} => chip'.ref = 1
         /\ c.state \notin {"ST_INIT_REFRESH", "ST_REFRESH"} => chip'.ref <= chip.ref + 1
<1>1. chip'.ref = IF Command.op = "REFRESH" THEN 1
                  ELSE IF chip.ref < NoRefresh THEN chip.ref + 1 ELSE chip.ref
  BY DeviceStep
<1> QED
  BY <1>1, Commands, NoRefreshCovers DEF ChipType

\* The initialisation comes to its first refresh command before anything else.
LEMMA ToBefore ==
  ASSUME CtlType, Clock, c.state \in BeforeRefresh \ {"ST_INIT_REFRESH"}
  PROVE  c'.state \in BeforeRefresh
<1>1. c'.state = NextState
  BY ControllerStep
<1> QED
  BY <1>1 DEF NextState, AfterWait, Waits, BeforeRefresh

\* A refresh that falls due does so early enough, and each edge is on the way to it.
LEMMA DeadlineStep ==
  ASSUME SdramInv, RefreshFits, DeadlineInv, Clock
  PROVE  DeadlineKept'
<1> DEFINE RR == RefreshCycles + RefreshLatency
<1> USE DEF SdramInv, DeadlineInv
<1>1. /\ CtlType' /\ ChipType' /\ DrainFits' /\ WaitFits' /\ RefreshFits'
      /\ c'.state = NextState /\ c'.wait_count = NextWait
  BY TypesStep, DrainFitsStep, WaitFitsStep, ServingStep, ControllerStep
<1>2. /\ RR \in Int /\ RefreshCycles \in Nat /\ RefreshLatency \in Nat
      /\ RefreshLatency = 2 * RpCycles + RcdCycles + 2 * DrainCycles + 3
      /\ RefreshCycles >= RfcCycles + T_MRD_Cycles
  BY WayBounds, Generics, RefreshAssumption DEF RefreshLatency, RefreshAssumption
<1>3. SUFFICES ASSUME c'.refresh_due \/ c'.refresh_pending \/ c'.state \in Init0 \ BeforeRefresh
               PROVE  \E n \in Int : chip'.ref + n <= RR /\ RefreshWithin(n)'
  BY <1>2 DEF DeadlineKept
<1> HIDE DEF RR
<1>4. CASE c.state = "ST_REFRESH"
  <2>1. c'.state = "ST_REFRESH_WAIT" /\ c'.wait_count = RfcWait /\ chip'.ref = 1
    BY <1>1, <1>4, RefCount DEF NextState, NextWait, Waits
  <2>2. RR - 1 >= RfcWait + 3 /\ RR - 1 \in Int
    BY <1>2, WayBounds DEF RR, RfcWait, sub_clip
  <2>3. RefreshWithin(RR - 1)'
    BY <2>1, <2>2, <1>2 DEF RefreshWithin, RR
  <2> QED
    BY <1>2, <2>1, <2>2, <2>3
<1>5. CASE c.state = "ST_INIT_REFRESH"
  <2>1. c'.state = "ST_INIT_REFRESH_WAIT" /\ c'.wait_count = RfcCycles - 1 /\ chip'.ref = 1
    BY <1>1, <1>5, RefCount DEF NextState, NextWait, Waits
  <2>2. RR - 1 >= (RfcCycles - 1) + T_MRD_Cycles + 4 /\ RR - 1 \in Int
    BY <1>2, WayBounds DEF RR
  <2>3. RefreshWithin(RR - 1)'
    BY <2>1, <2>2, <1>2 DEF RefreshWithin, RR
  <2> QED
    BY <1>2, <2>1, <2>2, <2>3
<1>6. CASE c.state \in BeforeRefresh \ {"ST_INIT_REFRESH"}
  <2>1. c'.state \in BeforeRefresh
    BY <1>6, ToBefore
  <2>2. PICK m \in Int : m = RR - chip'.ref
    BY <1>1, <1>2 DEF ChipType, RR
  <2>3. RefreshWithin(m)'
    BY <2>1 DEF RefreshWithin, BeforeRefresh
  <2>4. chip'.ref + m <= RR
    BY <1>1, <1>2, <2>2 DEF ChipType, RR
  <2> QED
    BY <2>3, <2>4
<1>7. CASE /\ c.refresh_due \/ c.refresh_pending \/ c.state \in Init0 \ BeforeRefresh
           /\ c.state \notin {"ST_REFRESH", "ST_INIT_REFRESH"}
  <2>1. PICK n \in Int : chip.ref + n <= RR /\ RefreshWithin(n)
    BY <1>7 DEF DeadlineKept, RR
  <2>2. RefreshWithin(n - 1)'
    <3>1. ~accept /\ (c.state = "ST_IDLE" => c.refresh_due)
      BY <1>7 DEF accept, ready, RefreshFits, Init0
    <3> QED
      BY <1>7, <2>1, <3>1, WithinStep
  <2>3. chip'.ref + (n - 1) <= RR /\ n - 1 \in Int
    BY <1>2, <1>7, <2>1, RefCount
  <2> QED
    BY <2>2, <2>3
<1>8. CASE /\ ~c.refresh_due /\ ~c.refresh_pending /\ c.state \notin Init0
           /\ c.state \notin {"ST_REFRESH", "ST_INIT_REFRESH"}
  <2>1. c'.state \notin Init0
    BY <1>1, <1>8, ToInit
  <2>2. ~c'.refresh_pending /\ c'.refresh_due /\ c.refresh_timer = RefreshCycles - 1
    BY <1>3, <1>8, <2>1, RefreshRegs
  <2>3. chip.ref + 1 <= c.refresh_timer
    BY <1>8 DEF TimerAhead, BeforeRefresh, Init0
  <2>4. chip'.ref <= RefreshCycles - 1
    BY <1>2, <1>8, <2>2, <2>3, RefCount
  <2>5. c'.state \notin {"ST_REFRESH", "ST_REFRESH_WAIT"}
    BY <1>1, <2>2 DEF RefreshFits
  <2>6. LatencyCovers'
    BY WithinLatency, PTL
  <2>7. PICK L \in Int : L = RefreshLatency + 1 /\ RefreshWithin(L)'
    BY <1>1, <1>2, <2>1, <2>2, <2>5, <2>6 DEF LatencyCovers
  <2>8. chip'.ref + L <= RR
    BY <1>2, <2>4, <2>7, RefCount DEF RR
  <2> QED
    BY <2>7, <2>8
<1> QED
  BY <1>4, <1>5, <1>6, <1>7, <1>8 DEF BeforeRefresh, Init0

\* The timer stays ahead: it wraps only with the refresh due, which clears no sooner than
\* with a command that starts the count of the device again.
LEMMA TimerStep ==
  ASSUME SdramInv, RefreshFits, DeadlineInv, Clock
  PROVE  TimerAhead'
<1> USE DEF SdramInv, DeadlineInv
<1>1. c'.state = NextState
  BY ControllerStep
<1>2. /\ c.refresh_timer \in 0 .. RefreshCycles - 1 /\ RefreshCycles \in Nat /\ RefreshCycles > 0
  BY Generics, RefreshAssumption, WayBounds DEF TimerAhead, RefreshAssumption
<1>3. c'.refresh_timer \in 0 .. RefreshCycles - 1
  BY <1>2, RefreshRegs
<1>4. c.state = "ST_IDLE" /\ c.refresh_due => c'.state = "ST_DRAIN" /\ c'.refresh_pending
  BY <1>1, RefreshRegs DEF NextState, Waits
<1>5. ~c'.refresh_due /\ ~(c'.state = "ST_DRAIN" /\ c'.refresh_pending) =>
        ~c.refresh_due /\ c'.refresh_timer = c.refresh_timer + 1
  BY <1>4, RefreshRegs
<1>6. ~c'.refresh_due /\ (c'.state \in BeforeRefresh \ {"ST_INIT_WAIT"}
                          \/ (c'.refresh_pending /\ c'.state # "ST_DRAIN")) => c'.refresh_timer >= 1
  BY <1>2, <1>5 DEF BeforeRefresh
<1>7. ASSUME ~c'.refresh_due, c'.state \notin BeforeRefresh, c'.refresh_pending => c'.state = "ST_REFRESH_WAIT"
      PROVE  chip'.ref + 1 <= c'.refresh_timer
  <2>1. ~c.refresh_due /\ c'.refresh_timer = c.refresh_timer + 1
    BY <1>5, <1>7
  <2>2. c.state \notin BeforeRefresh \ {"ST_INIT_REFRESH"}
    BY <1>7, ToBefore
  <2>3. CASE c.state \in {"ST_INIT_REFRESH", "ST_REFRESH"}
    <3>1. c.refresh_timer >= 1
      BY <2>1, <2>3 DEF TimerAhead, RefreshFits, BeforeRefresh
    <3> QED
      BY <1>2, <2>1, <2>3, <3>1, RefCount
  <2>4. CASE c.state \notin {"ST_INIT_REFRESH", "ST_REFRESH"}
    <3>1. c.refresh_pending => c.state = "ST_REFRESH_WAIT"
      <4> SUFFICES ASSUME c.refresh_pending, c.state # "ST_REFRESH_WAIT"
                   PROVE  FALSE
        OBVIOUS
      <4>1. c'.refresh_pending /\ c'.state = "ST_REFRESH_WAIT"
        BY <1>7, RefreshRegs
      <4>2. c.state \in {"ST_DRAIN", "ST_PRECHARGE", "ST_PRECHARGE_WAIT"}
        BY <2>4 DEF RefreshFits
      <4> QED
        BY <1>1, <4>1, <4>2 DEF NextState, AfterDrain, AfterWait, AfterPrecharge, Waits
    <3>2. chip.ref + 1 <= c.refresh_timer
      BY <2>1, <2>2, <2>4, <3>1 DEF TimerAhead
    <3> QED
      BY <1>2, <2>1, <2>4, <3>2, RefCount
  <2> QED
    BY <2>3, <2>4
<1> QED
  BY <1>3, <1>6, <1>7 DEF TimerAhead

LEMMA DeadlineInit == Init => DeadlineInv
<1> SUFFICES ASSUME Init PROVE DeadlineInv
  OBVIOUS
<1>1. /\ c.state = "ST_INIT_WAIT" /\ c.refresh_timer = 0 /\ c.refresh_due = FALSE /\ c.refresh_pending = FALSE
      /\ c.ras_timer = 0 /\ c.wr_timer = 0 /\ c.rd_pipe = [i \in 0 .. CasLatency |-> FALSE]
  BY DEF Init, ControllerReset
<1>2. RefreshCycles \in Nat /\ RefreshCycles > 0
  BY Generics, WayBounds, RefreshAssumption, DrainBounds DEF RefreshAssumption
<1>3. DrainFits
  <2>1. DrainedIn(0)
    BY <1>1 DEF DrainedIn
  <2> QED
    BY <1>1, <2>1, DrainBounds DEF DrainFits
<1>4. WaitFits
  BY <1>1 DEF WaitFits
<1>5. DeadlineKept
  BY <1>1 DEF DeadlineKept, BeforeRefresh
<1>6. TimerAhead
  BY <1>1, <1>2 DEF TimerAhead, BeforeRefresh
<1> QED
  BY <1>3, <1>4, <1>5, <1>6 DEF DeadlineInv

LEMMA DeadlineInvKept ==
  ASSUME SdramInv, RefreshFits, DeadlineInv, [Clock]_vars
  PROVE  DeadlineInv'
<1>1. CASE Clock
  BY <1>1, DrainFitsStep, WaitFitsStep, DeadlineStep, TimerStep DEF SdramInv, DeadlineInv
<1>2. CASE UNCHANGED vars
  <2>1. c' = c /\ chip' = chip
    BY <1>2 DEF vars
  <2> QED
    BY <2>1 DEF DeadlineInv, DrainFits, DrainedIn, WaitFits, DeadlineKept, TimerAhead, RefreshWithin, Closing, AfterRest
<1> QED
  BY <1>1, <1>2

\* A refresh on its way is in time, and one that is not due yet is not late.
LEMMA DeadlineInvRefresh == SdramInv /\ DeadlineInv => RefreshIsInTime
<1> SUFFICES ASSUME SdramInv, DeadlineInv, c.state \notin Init0
             PROVE  chip.ref <= RefreshCycles + RefreshLatency
  BY DEF RefreshIsInTime
<1> USE DEF SdramInv, DeadlineInv
<1>1. chip.ref \in Nat /\ RefreshCycles \in Nat /\ RefreshLatency \in Nat
  <2>1. chip.ref \in Nat
    BY DEF ChipType
  <2>2. RefreshLatency \in Nat
    BY Generics, DrainBounds DEF RefreshLatency
  <2> QED
    BY <2>1, <2>2, Generics
<1>2. CASE c.refresh_due \/ c.refresh_pending
  <2>1. PICK n \in Int : chip.ref + n <= RefreshCycles + RefreshLatency /\ RefreshWithin(n)
    BY <1>2 DEF DeadlineKept
  <2>2. n >= 0
    BY <2>1, WithinNat DEF BeforeRefresh, Init0
  <2> QED
    BY <1>1, <2>1, <2>2
<1>3. CASE ~c.refresh_due /\ ~c.refresh_pending
  <2>1. chip.ref + 1 <= c.refresh_timer /\ c.refresh_timer \in 0 .. RefreshCycles - 1
    BY <1>3 DEF TimerAhead, BeforeRefresh, Init0
  <2> QED
    BY <1>1, <2>1
<1> QED
  BY <1>2, <1>3

\* Refreshes do not fall behind: once initialised, the device is never left
\* longer than the interval and one latency, whatever the master does and for
\* all timings of the device.
THEOREM RefreshKept == Spec => []RefreshIsInTime
<1>1. Init => SdramInv /\ DataInv /\ DeadlineInv
  BY InitInv, DataInit, DeadlineInit
<1>2. SdramInv /\ DataInv /\ DeadlineInv /\ [Clock]_vars => (SdramInv /\ DataInv /\ DeadlineInv)'
  BY StepInv, DataKept, DeadlineInvKept DEF DataInv
<1>3. SdramInv /\ DeadlineInv => RefreshIsInTime
  BY DeadlineInvRefresh
<1> QED
  BY <1>1, <1>2, <1>3, PTL DEF Spec

-----------------------------------------------------------------------------
(* The next acknowledge or accept.                                         *)

\* What the bound on the progress covers.
LEMMA LatencyBounds ==
  /\ ProgressLatency \in Nat /\ RfcWait \in Nat /\ RefreshToIdle \in Nat /\ Round \in Nat
  /\ CasLatency \in Nat /\ CasLatency >= 2
  /\ RefreshToIdle = RfcWait + 2 /\ Round = RfcWait + 4
  /\ ProgressLatency >= DrainCycles + RpCycles + RcdCycles + CasLatency + 3
  /\ ProgressLatency >= DrainCycles + RpCycles + 2 * RfcWait + 7
<1> DEFINE a == DrainCycles + RpCycles + RcdCycles + CasLatency + 3
           b == DrainCycles + RpCycles + 2 * RfcWait + 7
<1>1. RfcWait \in Nat
  BY Generics DEF RfcWait, sub_clip
<1>2. a \in Nat /\ b \in Nat
  BY <1>1, Generics, DrainBounds
<1>3. ProgressLatency = Max({a, b})
  BY DEF ProgressLatency
<1> HIDE DEF a, b
<1>4. \E x \in {a, b} : \A y \in {a, b} : x >= y
  BY <1>2
<1>5. ProgressLatency \in {a, b} /\ \A y \in {a, b} : ProgressLatency >= y
  BY <1>3, <1>4 DEF Max
<1>6. ProgressLatency >= a /\ ProgressLatency >= b /\ ProgressLatency \in Nat
  BY <1>2, <1>5
<1> QED
  BY <1>1, <1>6, Generics DEF a, b, RefreshToIdle, Round

\* When the count of the waiting starts again.
LEMMA QuietStep ==
  ASSUME Clock, quiet \in Nat
  PROVE  /\ quiet' \in Nat /\ quiet' <= quiet + 1
         /\ accept \/ c.ack \/ c.state \in Init0 \/ (~slave_i.stb /\ owed = <<>>) => quiet' = 0
BY DEF Clock

\* A read in the pipeline moves on to its acknowledge.
LEMMA AckMoves ==
  ASSUME CtlType, DataType, Clock
  PROVE  /\ \A i \in 0 .. CasLatency - 2 : HighAt(i) => HighAt(i + 1)'
         /\ HighAt(CasLatency - 1) => c'.ack
         /\ Serving /\ c.state = "ST_CAS1" => AckComes'
<1>1. \A i \in 0 .. CasLatency - 2 : HighAt(i) => HighAt(i + 1)'
  <2>1. \A j \in 1 .. CasLatency - 1 : HighAt(j)' <=> HighAt(j - 1)
    BY PipeShift
  <2>2. \A i \in 0 .. CasLatency - 2 : i + 1 \in 1 .. CasLatency - 1 /\ (i + 1) - 1 = i
    BY Generics
  <2> QED
    BY <2>1, <2>2
<1>2. c'.ack <=> CapturesHigh \/ (c.state = "ST_CAS1" /\ c.req.we)
  <2>1. c'.ack = (CapturesHigh \/ (c.state = "ST_CAS1" /\ c.req.we))
    BY DataStep
  <2> QED
    BY <2>1, Zenon
<1>3. HighAt(CasLatency - 1) => c'.ack
  BY <1>2 DEF HighAt, CapturesHigh, Captures
<1>4. c.state = "ST_CAS1" => AckComes'
  <2>1. CASE c.req.we
    BY <1>2, <2>1 DEF AckComes
  <2>2. CASE c.state = "ST_CAS1" /\ ~c.req.we
    <3>1. HighAt(0)'
      BY <2>2, PipeShift DEF Reads
    <3>2. 0 \in 0 .. CasLatency - 1
      BY Generics
    <3> QED
      BY <3>1, <3>2 DEF AckComes
  <2> QED
    BY <2>1, <2>2 DEF CtlType
<1> QED
  BY <1>1, <1>3, <1>4

LEMMA WaitNat ==
  ASSUME quiet \in Nat
  PROVE  Wait \in Nat /\ Wait <= quiet
BY DEF Wait

\* Whoever waits does so one cycle longer, or is about to be answered.
LEMMA WaitMoves ==
  ASSUME CtlType, DataType, Clock, quiet \in Nat
  PROVE  /\ Wait' \in Nat /\ Wait' <= Wait + 1 /\ Wait' <= quiet'
         /\ AckComes => Wait' = 0
<1>1. quiet' \in Nat /\ quiet' <= quiet + 1 /\ (c.ack => quiet' = 0)
  BY QuietStep
<1>2. Wait' = IF AckComes' THEN 0 ELSE quiet'
  BY DEF Wait
<1>3. ASSUME NEW i \in 0 .. CasLatency - 1, HighAt(i)
      PROVE  AckComes'
  <2>1. CASE i = CasLatency - 1
    BY <1>3, <2>1, AckMoves DEF AckComes
  <2>2. CASE i # CasLatency - 1
    <3>1. i \in 0 .. CasLatency - 2 /\ i + 1 \in 0 .. CasLatency - 1
      BY <2>2, Generics
    <3>2. HighAt(i + 1)'
      BY <1>3, <3>1, AckMoves
    <3>3. PICK j \in 0 .. CasLatency - 1 : j = i + 1
      BY <3>1
    <3>4. HighAt(j)'
      BY <3>2, <3>3
    <3> QED
      BY <3>4 DEF AckComes
  <2> QED
    BY <2>1, <2>2
<1>4. AckComes => Wait' = 0
  BY <1>1, <1>2, <1>3 DEF AckComes
<1>5. ~AckComes => Wait = quiet
  BY DEF Wait
<1> HIDE DEF Wait
<1>6. Wait' \in Nat /\ Wait' <= quiet'
  BY <1>1, <1>2
<1>7. Wait' <= Wait + 1
  BY <1>1, <1>4, <1>5, <1>6, WaitNat
<1> QED
  BY <1>4, <1>6, <1>7

\* Nothing is owed beyond what is served, in the pipeline or acknowledged.
LEMMA OwedComes ==
  ASSUME DataType, OwedFits, ~AckComes, ~Serving
  PROVE  owed = <<>>
<1>1. Len(owed) = 0
  BY Generics DEF OwedFits, Before, One, AckComes, HighAt
<1> QED
  BY <1>1 DEF DataType

\* The first read in the pipeline is the next to be acknowledged.
LEMMA AcksStep ==
  ASSUME SdramInv, DataInv, ProgressInv, Clock
  PROVE  AcksKept'
<1> USE DEF SdramInv, DataInv, ProgressInv
<1> SUFFICES ASSUME NEW i \in 0 .. CasLatency - 1, HighAt(i)', ~c'.ack,
                    \A j \in i + 1 .. CasLatency - 1 : ~HighAt(j)'
             PROVE  quiet' + CasLatency - i <= ProgressLatency
  BY DEF AcksKept
<1>1. /\ CasLatency \in 2 .. 3 /\ CasLatency <= ProgressLatency /\ ProgressLatency \in Nat
      /\ quiet \in Nat /\ ColumnsWay \in Nat
  BY LatencyBounds, Generics, DrainBounds, WayBounds
<1>2. PICK q \in Nat : q = quiet' /\ q <= quiet + 1 /\ (c.ack => q = 0)
  BY <1>1, QuietStep
<1>7. q <= quiet + 1 /\ (c.ack => q = 0)
  BY <1>2
<1> SUFFICES q + CasLatency - i <= ProgressLatency
  BY <1>2
<1>6. CASE c.ack
  BY <1>1, <1>6, <1>7
<1>3. ASSUME ~c.ack, NEW j \in i .. CasLatency - 1, HighAt(j)
      PROVE  FALSE
  <2>1. CASE j = CasLatency - 1
    BY <1>3, <2>1, AckMoves
  <2>2. CASE j # CasLatency - 1
    <3>1. j \in 0 .. CasLatency - 2 /\ j + 1 \in i + 1 .. CasLatency - 1
      BY <1>1, <2>2
    <3>2. PICK k \in i + 1 .. CasLatency - 1 : k = j + 1
      BY <3>1
    <3>3. HighAt(j + 1)'
      BY <1>3, <3>1, AckMoves
    <3> QED
      BY <3>2, <3>3
  <2> QED
    BY <2>1, <2>2
<1>4. CASE ~c.ack /\ i = 0
  <2>1. Reads /\ c.state = "ST_CAS1"
    BY <1>4, PipeShift
  <2>2. ~AckComes
    BY <1>3, <1>4 DEF AckComes
  <2>3. Serving /\ Wait = quiet
    BY <2>1, <2>2 DEF Serving, Wait
  <2>4. PICK n \in Int : RefreshWithin(n) /\ quiet + n <= ProgressLatency + ColumnsWay - CasLatency - 2
    BY <2>3 DEF ServingKept
  <2>5. n >= ColumnsWay - 1
    BY <2>1, <2>4 DEF RefreshWithin
  <2>6. quiet + 1 + CasLatency <= ProgressLatency
    BY <1>1, <2>4, <2>5
  <2> QED
    BY <1>1, <1>7, <1>4, <2>6
<1>5. CASE ~c.ack /\ i # 0
  <2>1. PICK k \in 0 .. CasLatency - 1 : k = i - 1
    BY <1>1, <1>5
  <2>2. i \in 1 .. CasLatency - 1
    BY <1>5
  <2>3. HighAt(k)
    BY <2>1, <2>2, PipeShift
  <2>4. \A j \in k + 1 .. CasLatency - 1 : ~HighAt(j)
    BY <1>1, <1>3, <1>5, <2>1
  <2>5. quiet + CasLatency - k <= ProgressLatency
    BY <1>5, <2>3, <2>4 DEF AcksKept
  <2> QED
    BY <1>1, <1>7, <2>1, <2>5
<1> QED
  BY <1>4, <1>5, <1>6

\* A request just accepted.
LEMMA AcceptedWithin ==
  ASSUME CtlType, MasterType, ChipType, Times, PipesAgree, DrainFits, RefreshFits, Clock, accept
  PROVE  \E n \in Int : n = DrainCycles + 1 + RowWay /\ RefreshWithin(n)'
<1>1. CtlType' /\ DrainFits' /\ RefreshFits'
  BY TypesStep, DrainFitsStep, ServingStep
<1>2. c.state \in {"ST_IDLE", "ST_CAS1"} /\ ~c.refresh_due /\ ~c.refresh_pending
  BY DEF accept, ready
<1>3. c'.state \in {"ST_CAS0", "ST_DRAIN"} /\ ~c'.refresh_pending
  <2>1. c'.state = NextState
    BY ControllerStep
  <2> QED
    BY <1>2, <2>1, RefreshRegs DEF NextState, AfterAccept, Waits
<1>4. AfterRest' = RowWay
  BY <1>3 DEF AfterRest, RowWay, OpenWay, ColumnsWay
<1>5. c'.state = "ST_DRAIN" => DrainedIn(DrainCycles)'
  <2>1. DrainCycles \in Nat /\ \A i \in 0 .. CasLatency : CasLatency + 1 - i <= DrainCycles
    BY DrainBounds, Generics
  <2> QED
    BY <1>1, <2>1 DEF DrainFits, DrainedIn
<1>6. PICK n \in Int : n = DrainCycles + 1 + RowWay
  BY WayBounds
<1>7. n >= ColumnsWay
  BY <1>6, WayBounds DEF RowWay, OpenWay
<1>8. c'.state = "ST_DRAIN" => \E k \in Int : DrainedIn(k)' /\ n >= k + 1 + AfterRest'
  <2>1. DrainCycles \in Int /\ n >= DrainCycles + 1 + AfterRest'
    BY <1>4, <1>6, WayBounds
  <2> QED
    BY <1>5, <2>1
<1>9. RefreshWithin(n)'
  BY <1>3, <1>7, <1>8 DEF RefreshWithin
<1> QED
  BY <1>6, <1>9

\* A request is accepted with its whole way within the bound, and each edge is on it.
LEMMA ServingKeptStep ==
  ASSUME SdramInv, DataInv, DeadlineInv, ProgressInv, Clock
  PROVE  ServingKept'
<1> USE DEF SdramInv, DataInv, DeadlineInv, ProgressInv
<1> DEFINE P == ProgressLatency + ColumnsWay - CasLatency - 2
<1>1. PICK w \in Nat : w = Wait' /\ w <= Wait + 1 /\ (accept => w = 0)
  <2>1. /\ Wait \in Nat /\ Wait' \in Nat /\ Wait' <= Wait + 1 /\ Wait' <= quiet' /\ quiet' \in Nat
        /\ accept => quiet' = 0
    BY WaitNat, WaitMoves, QuietStep
  <2> QED
    BY <2>1
<1>2. Wait \in Nat /\ w <= Wait + 1 /\ (accept => w = 0)
  BY <1>1, WaitNat
<1>0. P \in Int
  BY LatencyBounds, WayBounds
<1>3. SUFFICES ASSUME Serving'
               PROVE  \E n \in Int : RefreshWithin(n)' /\ w + n <= P
  BY <1>1 DEF ServingKept, ColumnsWay
<1>4. CASE accept
  <2>1. PICK n \in Int : n = DrainCycles + 1 + RowWay /\ RefreshWithin(n)'
    BY <1>4, AcceptedWithin
  <2>2. n <= P
    BY <2>1, WayBounds, LatencyBounds DEF RowWay, OpenWay
  <2> HIDE DEF P
  <2>3. w + n <= P
    BY <1>0, <1>2, <1>4, <2>2
  <2> QED
    BY <2>1, <2>3
<1>5. CASE ~accept
  <2>1. Serving /\ c.state # "ST_CAS1"
    BY <1>3, <1>5, ServingStep
  <2>2. PICK n \in Int : RefreshWithin(n) /\ Wait + n <= P
    BY <2>1 DEF ServingKept
  <2>3. RefreshWithin(n - 1)'
    BY <1>5, <2>1, <2>2, WithinStep DEF Serving
  <2> HIDE DEF P
  <2>4. w + (n - 1) <= P /\ n - 1 \in Int
    BY <1>0, <1>2, <2>2
  <2> QED
    BY <2>3, <2>4
<1> QED
  BY <1>4, <1>5

\* The controller turns to a refresh only when nobody has waited yet.
LEMMA PhaseBegins ==
  ASSUME SdramInv, DataInv, DeadlineInv, ProgressInv, Clock, ~RefreshPhase, RefreshPhase'
  PROVE  c'.state = "ST_IDLE" /\ c'.refresh_due /\ ~c'.refresh_pending /\ Wait' = 0
<1> USE DEF SdramInv, DataInv, DeadlineInv, ProgressInv
<1>1. c'.state = NextState /\ ~c.refresh_pending /\ (c.state = "ST_IDLE" => ~c.refresh_due)
  BY ControllerStep DEF RefreshPhase
<1>2. ~c'.refresh_pending /\ c'.state = "ST_IDLE" /\ c'.refresh_due
  BY <1>1, RefreshRegs DEF RefreshPhase
<1>3. /\ Wait' \in Nat /\ Wait' <= quiet' /\ quiet' \in Nat
      /\ AckComes => Wait' = 0
      /\ accept \/ c.ack \/ c.state \in Init0 \/ (~slave_i.stb /\ owed = <<>>) => quiet' = 0
  BY WaitMoves, QuietStep
<1>4. quiet' = 0 => Wait' = 0
  BY <1>3
<1>5. c.state \in Init0 \cup {"ST_IDLE", "ST_CAS1"}
  <2>1. CASE c.state \in {"ST_DRAIN", "ST_PRECHARGE", "ST_ACTIVATE", "ST_CAS0", "ST_REFRESH"}
    BY <1>1, <1>2, <2>1 DEF NextState, AfterDrain, AfterPrecharge, Waits
  <2>2. CASE c.state \in {"ST_PRECHARGE_WAIT", "ST_ACTIVATE_WAIT"}
    BY <1>1, <1>2, <2>2 DEF NextState, AfterWait, AfterPrecharge, Waits
  <2>3. c.state # "ST_REFRESH_WAIT"
    BY <1>1 DEF RefreshFits
  <2> QED
    BY <2>1, <2>2, <2>3 DEF CtlType, States
<1>6. CASE c.state \in Init0
  BY <1>2, <1>3, <1>4, <1>6
<1>7. CASE c.state = "ST_CAS1"
  <2>1. AckComes'
    BY <1>7, AckMoves DEF Serving
  <2> QED
    BY <1>2, <2>1 DEF Wait
<1>8. CASE c.state = "ST_IDLE"
  <2>1. ~accept
    BY <1>1, <1>2, <1>8 DEF NextState, AfterAccept, Waits
  <2>2. ~slave_i.stb
    BY <1>1, <1>8, <2>1 DEF accept, ready, StbInCyc, MasterType
  <2>3. AckComes \/ owed = <<>>
    BY <1>8, OwedComes DEF Serving
  <2> QED
    BY <1>2, <1>3, <1>4, <2>2, <2>3
<1> QED
  BY <1>5, <1>6, <1>7, <1>8

\* From the idle state a refresh is over after the longest drain.
LEMMA PhaseStart ==
  ASSUME CtlType, MasterType, ChipType, Times, PipesAgree, DrainFits, Clock, c'.state = "ST_IDLE"
  PROVE  \E n \in Int : n = DrainCycles + RpCycles + RfcWait + 3 /\ IdleWithin(n)'
<1>1. CtlType' /\ DrainFits'
  BY TypesStep, DrainFitsStep
<1>2. DrainedIn(DrainCycles)'
  <2>1. DrainCycles \in Nat /\ \A i \in 0 .. CasLatency : CasLatency + 1 - i <= DrainCycles
    BY DrainBounds, Generics
  <2> QED
    BY <1>1, <2>1 DEF DrainFits, DrainedIn
<1>3. Closing' = IF c'.row_open THEN RpCycles ELSE 0
  BY DEF Closing
<1>4. PICK m \in Int : m = DrainCycles + 1 + RpCycles
  BY WayBounds
<1>5. DrainCycles >= 1 /\ DrainCycles \in Int /\ m >= DrainCycles + 1 + Closing'
  BY <1>3, <1>4, WayBounds
<1>6. RefreshWithin(m)'
  BY <1>2, <1>5 DEF RefreshWithin
<1>7. PICK n \in Int : n = DrainCycles + RpCycles + RfcWait + 3
  BY WayBounds, LatencyBounds
<1>8. n >= m + RefreshToIdle
  BY <1>4, <1>7, WayBounds, LatencyBounds
<1>9. IdleWithin(n)'
  BY <1>6, <1>8 DEF IdleWithin, RefreshToIdle, RfcWait, sub_clip
<1> QED
  BY <1>7, <1>9

\* Each edge of a refresh is one cycle less.
LEMMA PhaseGoesOn ==
  ASSUME SdramInv, RefreshFits, DrainFits, Clock, RefreshPhase, NEW n \in Int, IdleWithin(n)
  PROVE  /\ n >= 1
         /\ ~(c.state = "ST_REFRESH_WAIT" /\ c.wait_count = 0) => IdleWithin(n - 1)' /\ c'.refresh_pending
<1> USE DEF SdramInv
<1>1. c'.state = NextState /\ c'.wait_count = NextWait
  BY ControllerStep
<1>2. CASE c.state = "ST_REFRESH_WAIT"
  <2>1. n >= c.wait_count + 1 /\ c.refresh_pending
    BY <1>2 DEF IdleWithin, RefreshFits
  <2>2. ASSUME c.wait_count # 0
        PROVE  c'.refresh_pending /\ c'.state = "ST_REFRESH_WAIT" /\ c'.wait_count = c.wait_count - 1
    BY <1>1, <1>2, <2>1, <2>2, RefreshRegs DEF NextState, NextWait, Waits
  <2>3. c.wait_count # 0 => c'.wait_count = c.wait_count - 1 /\ n - 1 >= c'.wait_count + 1
    BY <2>1, <2>2, WayBounds
  <2> QED
    BY <1>2, <2>1, <2>2, <2>3, WayBounds DEF IdleWithin
<1>3. CASE c.state # "ST_REFRESH_WAIT"
  <2>1. PICK m \in Int : RefreshWithin(m) /\ n >= m + RefreshToIdle
    BY <1>3 DEF IdleWithin
  <2>2. c.state \in {"ST_IDLE", "ST_DRAIN", "ST_PRECHARGE", "ST_PRECHARGE_WAIT", "ST_REFRESH"}
        /\ (c.state # "ST_IDLE" => c.refresh_pending) /\ (c.state = "ST_IDLE" => c.refresh_due)
    BY <1>3 DEF RefreshPhase, RefreshFits
  <2>3. m >= 0
    BY <2>1, <2>2, WithinNat DEF BeforeRefresh
  <2>4. n >= 2
    BY <2>1, <2>3, LatencyBounds
  <2>5. c'.refresh_pending
    BY <2>2, RefreshRegs
  <2>6. CASE c.state = "ST_REFRESH"
    <3>1. c'.state = "ST_REFRESH_WAIT" /\ c'.wait_count = RfcWait
      BY <1>1, <2>6 DEF NextState, NextWait, Waits
    <3>2. n - 1 >= RfcWait + 1
      BY <2>1, <2>3, LatencyBounds
    <3> QED
      BY <2>4, <2>5, <3>1, <3>2 DEF IdleWithin
  <2>7. CASE c.state # "ST_REFRESH"
    <3>1. ~accept
      BY <2>2 DEF accept, ready
    <3>2. RefreshWithin(m - 1)'
      BY <2>1, <2>2, <2>7, <3>1, WithinStep DEF Init0
    <3>3. n - 1 >= (m - 1) + RefreshToIdle /\ m - 1 \in Int
      BY <2>1, LatencyBounds
    <3>4. c'.state # "ST_REFRESH_WAIT"
      BY <1>1, <2>2, <2>7 DEF NextState, AfterAccept, AfterDrain, AfterWait, AfterPrecharge, Waits
    <3> QED
      BY <2>4, <2>5, <3>2, <3>3, <3>4 DEF IdleWithin
  <2> QED
    BY <2>6, <2>7
<1> QED
  BY <1>2, <1>3

\* After a refresh all is drained, so that one more takes a round.
LEMMA PhaseTurns ==
  ASSUME SdramInv, RefreshFits, DrainFits, Clock, c.state = "ST_REFRESH_WAIT", c.wait_count = 0
  PROVE  c'.state = "ST_IDLE" /\ ~c'.refresh_pending /\ \E n \in Int : n = Round /\ IdleWithin(n)'
<1>1. c'.state = "ST_IDLE" /\ ~c'.refresh_pending
  BY ControllerStep, RefreshRegs DEF NextState, AfterWait, Waits
<1>2. PICK m \in Int : m = 3
  OBVIOUS
<1>3. RefreshWithin(m)
  BY <1>2 DEF RefreshWithin
<1>4. RefreshWithin(m - 1)'
  BY <1>3, WithinStep DEF accept, ready
<1>5. PICK n \in Int : n = Round
  BY LatencyBounds
<1>6. n >= (m - 1) + RefreshToIdle /\ m - 1 \in Int
  BY <1>2, <1>5, LatencyBounds
<1> QED
  BY <1>1, <1>4, <1>5, <1>6 DEF IdleWithin

\* A refresh that begins has room for one more; if the interval ends meanwhile it is
\* used, and it cannot end again before that.
LEMMA PhaseKeptStep ==
  ASSUME SdramInv, DataInv, DeadlineInv, ProgressInv, Clock
  PROVE  PhaseKept'
<1> USE DEF SdramInv, DataInv, DeadlineInv, ProgressInv
<1> DEFINE P  == ProgressLatency
           R  == Round
           RC == RefreshCycles
           N  == DrainCycles + RpCycles + RfcWait + 3
           t  == c.refresh_timer
<1>1. PICK w \in Nat : w = Wait' /\ w <= Wait + 1
  <2>1. Wait \in Nat /\ Wait' \in Nat /\ Wait' <= Wait + 1
    BY WaitNat, WaitMoves
  <2> QED
    BY <2>1
<1>2. Wait \in Nat /\ w <= Wait + 1
  BY <1>1, WaitNat
<1>3. /\ P \in Nat /\ R \in Nat /\ RC \in Nat /\ N \in Nat /\ t \in Nat
      /\ P >= N + R /\ N + R - 1 < RC /\ R + R <= N + R /\ R >= 1
  BY LatencyBounds, WayBounds, Generics, RefreshAssumption DEF RefreshAssumption, TimerAhead
<1>4. /\ c'.refresh_timer = IF t = RC - 1 THEN 0 ELSE t + 1
      /\ c'.refresh_due <=> ~(c.state = "ST_IDLE" /\ c.refresh_due) /\ (t = RC - 1 \/ c.refresh_due)
  BY RefreshRegs
<1>5. SUFFICES ASSUME RefreshPhase'
               PROVE  \E n \in Int :
                        /\ IdleWithin(n)' /\ n <= N
                        /\ \/ /\ w + n <= P /\ c'.refresh_timer + n < RC
                              /\ c'.refresh_pending => ~c'.refresh_due
                           \/ /\ w + n + R <= P
                              /\ c'.refresh_pending /\ c'.refresh_due => c'.refresh_timer + n + R < RC
  <2>1. RefreshPhase' => \E n \in Int :
                        /\ IdleWithin(n)' /\ n <= N
                        /\ \/ /\ Wait' + n <= P /\ c'.refresh_timer + n < RC
                              /\ c'.refresh_pending => ~c'.refresh_due
                           \/ /\ Wait' + n + R <= P
                              /\ c'.refresh_pending /\ c'.refresh_due => c'.refresh_timer + n + R < RC
    BY <1>1, <1>5
  <2> QED
    BY <2>1 DEF PhaseKept, RfcWait, sub_clip, Round, ProgressLatency
<1> HIDE DEF P, R, RC, N, t
<1>6. CASE ~RefreshPhase
  <2>1. c'.state = "ST_IDLE" /\ ~c'.refresh_pending /\ Wait' = 0
    BY <1>5, <1>6, PhaseBegins
  <2>2. w = 0
    BY <1>1, <2>1
  <2>3. PICK n \in Int : n = N /\ IdleWithin(n)'
    BY <2>1, PhaseStart DEF N
  <2>4. w + n + R <= P /\ n <= N
    BY <1>3, <2>2, <2>3
  <2> QED
    BY <2>1, <2>3, <2>4
<1>7. CASE RefreshPhase
  <2>1. PICK n \in Int :
          /\ IdleWithin(n) /\ n <= N
          /\ \/ /\ Wait + n <= P /\ t + n < RC
                /\ c.refresh_pending => ~c.refresh_due
             \/ /\ Wait + n + R <= P
                /\ c.refresh_pending /\ c.refresh_due => t + n + R < RC
    BY <1>7 DEF PhaseKept, P, R, RC, N, t
  <2>2. n >= 1
    BY <1>7, <2>1, PhaseGoesOn
  <2>3. c.state # "ST_IDLE" => c.refresh_pending
    BY <1>7 DEF RefreshPhase
  <2>4. c.state = "ST_IDLE" => c.refresh_due
    BY <1>7 DEF RefreshPhase, RefreshFits
  <2>5. /\ Wait + n <= P /\ t + n < RC /\ (c.refresh_pending => ~c.refresh_due) =>
             w + (n - 1) <= P /\ c'.refresh_timer + (n - 1) < RC /\ ~c'.refresh_due
        /\ Wait + n + R <= P /\ (c.refresh_pending /\ c.refresh_due => t + n + R < RC) =>
             /\ w + (n - 1) + R <= P
             /\ c'.refresh_due => c'.refresh_timer + (n - 1) + R < RC
    <3>1. ASSUME Wait + n <= P, t + n < RC, c.refresh_pending => ~c.refresh_due
          PROVE  w + (n - 1) <= P /\ c'.refresh_timer + (n - 1) < RC /\ ~c'.refresh_due
      <4>1. t # RC - 1 /\ w + (n - 1) <= P
        BY <1>2, <1>3, <2>2, <3>1
      <4>2. c'.refresh_timer = t + 1 /\ ~c'.refresh_due
        BY <1>4, <2>3, <2>4, <3>1, <4>1
      <4> QED
        BY <1>3, <3>1, <4>1, <4>2
    <3>2. ASSUME Wait + n + R <= P, c.refresh_pending /\ c.refresh_due => t + n + R < RC
          PROVE  /\ w + (n - 1) + R <= P
                 /\ c'.refresh_due => c'.refresh_timer + (n - 1) + R < RC
      <4>1. w + (n - 1) + R <= P
        BY <1>2, <1>3, <3>2
      <4>2. ASSUME c'.refresh_due
            PROVE  c'.refresh_timer + (n - 1) + R < RC
        <5>1. c.state # "ST_IDLE" /\ (t = RC - 1 \/ c.refresh_due)
          BY <1>4, <2>4, <4>2
        <5>2. CASE c.refresh_due
          <6>1. t + n + R < RC
            BY <2>3, <3>2, <5>1, <5>2
          <6> QED
            BY <1>3, <1>4, <2>2, <6>1
        <5>3. CASE ~c.refresh_due
          <6>1. c'.refresh_timer = 0
            BY <1>4, <5>1, <5>3
          <6> QED
            BY <1>3, <2>1, <6>1
        <5> QED
          BY <5>2, <5>3
      <4> QED
        BY <4>1, <4>2
    <3> QED
      BY <3>1, <3>2
  <2>6. CASE ~(c.state = "ST_REFRESH_WAIT" /\ c.wait_count = 0)
    <3>1. IdleWithin(n - 1)'
      BY <1>7, <2>1, <2>6, PhaseGoesOn
    <3>2. n - 1 <= N /\ n - 1 \in Int
      BY <1>3, <2>1
    <3> QED
      BY <2>1, <2>5, <3>1, <3>2
  <2>7. CASE c.state = "ST_REFRESH_WAIT" /\ c.wait_count = 0
    <3>1. c'.state = "ST_IDLE" /\ ~c'.refresh_pending
      BY <2>7, PhaseTurns
    <3>2. PICK m \in Int : m = R /\ IdleWithin(m)'
      BY <2>7, PhaseTurns DEF R
    <3>3. c'.refresh_due
      BY <1>5, <3>1 DEF RefreshPhase
    <3>4. w + (n - 1) + R <= P /\ c'.refresh_timer + (n - 1) + R < RC
      BY <2>1, <2>5, <3>3
    <3>5. c'.refresh_timer \in Nat
      BY <1>3, <1>4
    <3>6. w + m <= P /\ c'.refresh_timer + m < RC /\ m <= N
      BY <1>2, <1>3, <2>2, <3>2, <3>4, <3>5
    <3> QED
      BY <3>1, <3>2, <3>6
  <2> QED
    BY <2>6, <2>7
<1> QED
  BY <1>6, <1>7

\* While somebody waits there is a way to the next accept or acknowledge.
LEMMA ProgressStep ==
  ASSUME SdramInv, DataInv, DeadlineInv, ProgressInv, Clock
  PROVE  ProgressIsInTime'
<1> USE DEF SdramInv, DataInv, DeadlineInv, ProgressInv
<1>1. quiet \in Nat /\ quiet' \in Nat /\ quiet' <= quiet + 1 /\ ProgressLatency \in Nat
  BY QuietStep, LatencyBounds
<1>2. CASE quiet' = 0
  BY <1>1, <1>2 DEF ProgressIsInTime, ProgressLatency, RfcWait, sub_clip, DrainCycles
<1>3. CASE quiet' # 0
  <2>1. ~accept /\ ~c.ack /\ c.state \notin Init0 /\ ~(~slave_i.stb /\ owed = <<>>)
    BY <1>1, <1>3, QuietStep
  <2>2. quiet + 1 <= ProgressLatency
    <3>1. CASE AckComes
      <4> DEFINE I == {i \in 0 .. CasLatency - 1 : HighAt(i)}
      <4>1. PICK i \in I : \A j \in I : j <= i
        <5>1. I # {} /\ I \subseteq 0 .. 2
          BY <2>1, <3>1, Generics DEF AckComes
        <5>2. CASE 2 \in I
          BY <5>1, <5>2
        <5>3. CASE 2 \notin I /\ 1 \in I
          BY <5>1, <5>3
        <5>4. CASE 2 \notin I /\ 1 \notin I
          BY <5>1, <5>4
        <5> QED
          BY <5>2, <5>3, <5>4
      <4>2. \A j \in i + 1 .. CasLatency - 1 : ~HighAt(j)
        BY <4>1, Generics
      <4>3. quiet + CasLatency - i <= ProgressLatency
        BY <2>1, <4>1, <4>2 DEF AcksKept
      <4>4. i <= CasLatency - 1 /\ i \in Int /\ CasLatency \in Int
        BY <4>1, Generics
      <4> QED
        BY <1>1, <4>3, <4>4
    <3>2. CASE ~AckComes
      <4>1. Wait = quiet
        BY <3>2 DEF Wait
      <4>2. CASE Serving
        <5>1. PICK n \in Int : RefreshWithin(n) /\ quiet + n <= ProgressLatency + ColumnsWay - CasLatency - 2
          BY <4>1, <4>2 DEF ServingKept
        <5>2. n >= ColumnsWay - 1
          <6>1. c.state = "ST_DRAIN" => n >= ColumnsWay
            <7>1. c.state = "ST_DRAIN" => \E k \in Int : DrainedIn(k) /\ n >= k + 1 + AfterRest
              BY <5>1 DEF RefreshWithin
            <7>2. c.state = "ST_DRAIN" => AfterRest = RowWay
              BY <4>2 DEF Serving, AfterRest
            <7>3. \A k \in Int : DrainedIn(k) => k >= 0
              BY DrainedNat
            <7> QED
              BY <7>1, <7>2, <7>3, WayBounds DEF RowWay, OpenWay
          <6>2. c.state # "ST_DRAIN" => n >= ColumnsWay - 1
            BY <4>2, <5>1, WayBounds DEF Serving, RefreshWithin, OpenWay
          <6> QED
            BY <6>1, <6>2, WayBounds
        <5>3. ColumnsWay \in Nat /\ CasLatency \in Nat
          BY WayBounds, Generics
        <5> QED
          BY <1>1, <5>1, <5>2, <5>3
      <4>3. CASE RefreshPhase
        <5>1. PICK n \in Int : IdleWithin(n) /\ quiet + n <= ProgressLatency
          BY <1>1, <4>1, <4>3, LatencyBounds DEF PhaseKept
        <5>2. n >= 1
          BY <4>3, <5>1, PhaseGoesOn
        <5> QED
          BY <1>1, <5>1, <5>2
      <4>4. Serving \/ RefreshPhase
        <5> SUFFICES ASSUME ~Serving, ~RefreshPhase
                     PROVE  FALSE
          OBVIOUS
        <5>1. c.state = "ST_IDLE"
          BY <2>1 DEF Serving, RefreshPhase, RefreshFits, CtlType, States
        <5>2. ~slave_i.stb
          BY <2>1, <5>1 DEF RefreshPhase, accept, ready, StbInCyc, MasterType
        <5>3. owed = <<>>
          BY <3>2, OwedComes
        <5> QED
          BY <2>1, <5>2, <5>3
      <4> QED
        BY <4>2, <4>3, <4>4
    <3> QED
      BY <3>1, <3>2
  <2> QED
    BY <1>1, <2>2 DEF ProgressIsInTime, ProgressLatency, RfcWait, sub_clip, DrainCycles
<1> QED
  BY <1>2, <1>3

LEMMA StbStep ==
  ASSUME MasterType, StbInCyc, Clock
  PROVE  StbInCyc'
<1>1. slave_i' \in MasterNext
  BY DEF Clock
<1>2. \A r \in Requests : r.cyc = TRUE
  BY Zenon DEF Requests
<1>3. NoRequest.stb = FALSE
  BY DEF NoRequest
<1>4. slave_i' = slave_i \/ slave_i' \in Requests \/ slave_i' = NoRequest
  BY <1>1 DEF MasterNext
<1> QED
  BY <1>2, <1>3, <1>4 DEF StbInCyc

LEMMA ProgressInit == Init => ProgressInv
<1> SUFFICES ASSUME Init PROVE ProgressInv
  OBVIOUS
<1>1. /\ c.state = "ST_INIT_WAIT" /\ c.refresh_pending = FALSE /\ quiet = 0
      /\ c.rd_pipe = [i \in 0 .. CasLatency |-> FALSE] /\ slave_i.stb = FALSE
  BY DEF Init, ControllerReset, NoRequest
<1>2. \A i \in 0 .. CasLatency - 1 : ~HighAt(i)
  <2>1. \A i \in 0 .. CasLatency - 1 : i \in 0 .. CasLatency
    BY Generics
  <2> QED
    BY <1>1, <2>1 DEF HighAt
<1>3. quiet \in Nat /\ ProgressIsInTime
  BY <1>1, LatencyBounds DEF ProgressIsInTime
<1> QED
  BY <1>1, <1>2, <1>3 DEF ProgressInv, StbInCyc, AcksKept, ServingKept, Serving, PhaseKept, RefreshPhase

LEMMA ProgressKept ==
  ASSUME SdramInv, DataInv, DeadlineInv, ProgressInv, [Clock]_vars
  PROVE  ProgressInv'
<1>1. CASE Clock
  <2>1. quiet' \in Nat /\ StbInCyc'
    BY <1>1, QuietStep, StbStep DEF SdramInv, ProgressInv
  <2> QED
    BY <1>1, <2>1, ProgressStep, AcksStep, ServingKeptStep, PhaseKeptStep DEF ProgressInv
<1>2. CASE UNCHANGED vars
  <2>1. c' = c /\ chip' = chip /\ quiet' = quiet /\ slave_i' = slave_i
    BY <1>2 DEF vars
  <2> QED
    BY <2>1 DEF ProgressInv, ProgressIsInTime, StbInCyc, AcksKept, ServingKept, PhaseKept, HighAt, Serving,
                RefreshWithin, DrainedIn, Closing, AfterRest, Wait, AckComes, IdleWithin, RefreshPhase
<1> QED
  BY <1>1, <1>2

\* The master is never left waiting: the next accept or acknowledge comes
\* within the time of a row change or of two refreshes, whatever it asks for
\* and wherever the end of the interval finds the controller.
THEOREM ProgressInTime == Spec => []ProgressIsInTime
<1>1. Init => SdramInv /\ DataInv /\ DeadlineInv /\ ProgressInv
  BY InitInv, DataInit, DeadlineInit, ProgressInit
<1>2. SdramInv /\ DataInv /\ DeadlineInv /\ ProgressInv /\ [Clock]_vars
      => (SdramInv /\ DataInv /\ DeadlineInv /\ ProgressInv)'
  BY StepInv, DataKept, DeadlineInvKept, ProgressKept DEF DataInv
<1>3. ProgressInv => ProgressIsInTime
  BY DEF ProgressInv
<1> QED
  BY <1>1, <1>2, <1>3, PTL DEF Spec

=============================================================================
