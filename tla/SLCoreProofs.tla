---------------------------- MODULE SLCoreProofs ----------------------------
(***************************************************************************)
(* What the processor in hardware promises, proved for every program,      *)
(* every latency of the floating point unit and any number of waits.  Its  *)
(* caches are asked for one address until they answer, and a data request  *)
(* stays as it is until it is answered or given up; its stages never wait  *)
(* for each other; and the instructions do in the pipeline what they do    *)
(* one after the other (RetiresLikeIsa).  For this last promise InStep     *)
(* says where the pipeline is while the sequential machine isa stands at   *)
(* the instruction in EXEC: what FETCH and EXEC hold, which registers are  *)
(* ahead of the machine and by what, and what the unit works on.           *)
(***************************************************************************)
EXTENDS SLCore, SLDecodeProofs

(* What the two promises rest on.  The program holds instructions of its   *)
(* menu; the word fetched is a code, so that its bits are bits; and no     *)
(* instruction both jumps and writes, so that a write never flushes.       *)

ProgramFits ==
    /\ menu \in Menus /\ DOMAIN prog = DOMAIN menu
    /\ \A n \in DOMAIN prog : prog[n] = Unknown \/ prog[n] \in menu[n]

RegistersFit ==
    /\ core.fetch.data \in Nat
    /\ ~(core.decex.goto /\ core.decex.wrEn)

CoreInv == ProgramFits /\ RegistersFit /\ FetchIsSteady /\ RequestsStay

-----------------------------------------------------------------------------
(* Words.                                                                  *)

\* A bit of a word is 0 or 1.
LEMMA BitIsBit == ASSUME NEW w \in Nat PROVE Bit(w, 0) \in {0, 1} /\ Bit(w, 2) \in {0, 1}
<1>1. 2^0 = 1 /\ 2^1 = 2 /\ 2^2 = 4 BY SMT
<1>2. 2^(0 - 0 + 1) = 2 /\ 2^(2 - 2 + 1) = 2 BY SMT
<1>. QED BY <1>1, <1>2 DEF Bit, Bits

\* What is fetched is a word, whether the address has an instruction or not.
LEMMA FetchedIsWord ==
    ASSUME ProgramFits, NEW n, NEW i,
           i = InstrAt(prog, n) \/ (n \in DOMAIN prog /\ i \in menu[n])
    PROVE  Word(i) \in Nat
<1>1. CASE i \in {Nop, Unknown}
  <2>1. i[1] = "nop" \/ i[1] = "unknown"  BY <1>1 DEF Nop, Unknown
  <2>. QED BY <2>1 DEF Word, NopCode
<1>2. CASE n \in DOMAIN prog /\ i \in menu[n]
  <2>1. i \in Instructions  BY <1>2, MenuAssumption DEF ProgramFits
  <2>. DEFINE code == [data |-> Word(i), pc |-> 0]
  <2>2. code.data = Word(i) /\ code.pc \in Nat  OBVIOUS
  <2>. HIDE DEF code
  <2>. QED BY <2>1, <2>2, Decoded
<1>3. i \in {Nop, Unknown} \/ (n \in DOMAIN prog /\ i \in menu[n])
  BY DEF InstrAt, ProgramFits
<1>. QED BY <1>1, <1>2, <1>3

\* Three of the fields the decoder makes; no instruction that writes is a jump.
LEMMA DecodedFields ==
    /\ Dec.muxAD1 = Bit(core.fetch.data, 2)
    /\ ~(Dec.goto /\ Dec.enMEM)
<1>. DEFINE w == core.fetch.data
<1>1. /\ Dec.muxAD1 = Bit(w, 2) /\ (Dec.goto <=> Form(w) = 10)
      /\ Dec.enMEM <=> IsMovCell(w) \/ IsMovMem(w)
  BY DecodeIs DEF Dec
<1>2. Form(w) = 10 => ~IsMovCell(w) /\ ~IsMovMem(w)  BY DEF IsMovCell, IsMovMem
<1>. QED BY <1>1, <1>2

\* Whether the word in DECEX reads external memory depends on the word and on the
\* register that says whether its address is external.
LEMMA DecodingStays ==
    ASSUME core'.fetch = core.fetch,
           core'.addr[1 + Dec.muxAD1] = core.addr[1 + Dec.muxAD1]
    PROVE  /\ (Dec'.memEx <=> Dec.memEx) /\ (Dec'.enADr1 <=> Dec.enADr1)
           /\ (Dec'.enMEM <=> Dec.enMEM)
<1>. DEFINE w == core.fetch.data
<1>1. /\ Dec.muxAD1 = Bit(w, 2) /\ (Dec.memEx <=> ~EnIRS(w) /\ core.addr[1 + Bit(w, 2)] >= SharedAddrBase)
      /\ (Dec.enADr1 <=> EnADr1(w)) /\ (Dec.enMEM <=> IsMovCell(w) \/ IsMovMem(w))
  BY DecodeIs DEF Dec
<1>2. core'.fetch.data = w /\ Dec' = Decode(core'.fetch, core')  BY DEF Dec
<1>. HIDE DEF w
<1>3. /\ (Dec'.memEx <=> ~EnIRS(w) /\ core'.addr[1 + Bit(w, 2)] >= SharedAddrBase)
      /\ (Dec'.enADr1 <=> EnADr1(w)) /\ (Dec'.enMEM <=> IsMovCell(w) \/ IsMovMem(w))
  BY <1>2, DecodeIs
<1>. QED BY <1>1, <1>3

-----------------------------------------------------------------------------
(* The stages while a request waits.                                       *)

\* The address from which the core fetches is the same after a cycle without answer.
LEMMA FetchStep == ASSUME Next PROVE FetchIsSteady'
<1>1. PICK enI, cpStall, extMemAck \in BOOLEAN : Cycle(Dec, enI, cpStall, extMemAck)
  BY DEF Next
<1>2. SUFFICES ASSUME enI, cpStall PROVE core'.pc = core.pc
  BY <1>1 DEF Cycle, FetchIsSteady
<1>3. CASE StateEnable(enI, cpStall)
  <2>1. NextPc(TRUE) = core.pc  BY <1>2, <1>3 DEF StateEnable
  <2>2. PICK i : core' = CoreEdge(Dec, Control(Dec, Request(Dec) # NoRequest /\ ~extMemAck, ~cpStall),
                                  extMemAck, [data |-> IF cpStall THEN NopCode ELSE Word(i),
                                              pc |-> core.pc, valid |-> ~cpStall])
    BY <1>1, <1>3 DEF Cycle
  <2>. QED BY <1>2, <2>1, <2>2 DEF CoreEdge
<1>4. CASE ~StateEnable(enI, cpStall)
  BY <1>1, <1>4 DEF Cycle
<1>. QED BY <1>3, <1>4

\* What a stage keeps when DECEX is held.
LEMMA HeldRegisters ==
    ASSUME NEW ctl, ctl.stallDecEx, NEW ack, NEW fetched, core' = CoreEdge(Dec, ctl, ack, fetched)
    PROVE  /\ core'.fetch = core.fetch /\ core'.decex = core.decex /\ core'.en = ctl.en
           /\ core'.addr = <<NextAddr(0, Dec, ctl), NextAddr(1, Dec, ctl)>>
BY DEF CoreEdge, x, REG_AD0, REG_AD1

\* An address behind a register stays while its word waits.
LEMMA HeldAddress ==
    ASSUME NEW ctl, ctl.stallDecEx, NEW r \in {0, 1}, ~WritesReg(r)
    PROVE  NextAddr(r, Dec, ctl) = core.addr[1 + r]
BY DEF NextAddr

\* A write that waits holds both stages.
LEMMA WriteHolds ==
    ASSUME RegistersFit, WritesExternal, NEW fetchValid \in BOOLEAN
    PROVE  /\ Control(Dec, TRUE, fetchValid).stallDecEx
           /\ Control(Dec, TRUE, fetchValid).en = core.en
<1>1. Active /\ x.wrEn /\ x.wrExt  BY DEF WritesExternal
<1>2. ~x.goto  BY <1>1 DEF RegistersFit, x
<1>3. ExecStall(TRUE)  BY <1>1 DEF ExecStall
<1>. QED BY <1>1, <1>2, <1>3 DEF Control

\* A read that waits holds DECEX, and nothing comes into EXEC.
LEMMA ReadHolds ==
    ASSUME Dec.memEx, Dec.enADr1, S_DECEX \in core.en, NEW fetchValid \in BOOLEAN
    PROVE  /\ Control(Dec, TRUE, fetchValid).stallDecEx
           /\ S_EXEC \in Control(Dec, TRUE, fetchValid).en => S_EXEC \in core.en
<1>1. DecExStall(Dec, TRUE)  BY DEF DecExStall
<1>. QED BY <1>1 DEF Control, S_EXEC, S_FETCH, S_DECEX

\* What a request that is a read says of DECEX.
LEMMA ReadRequest ==
    ASSUME Request(Dec) # NoRequest, ~WritesExternal
    PROVE  Dec.memEx /\ Dec.enADr1 /\ ~Dec.enMEM /\ ~Request(Dec).rw
BY DEF Request

\* A request that is not answered and not given up is there again.
LEMMA RequestStep == ASSUME RegistersFit, Next PROVE RequestsStay'
<1>1. PICK enI, cpStall, extMemAck \in BOOLEAN : Cycle(Dec, enI, cpStall, extMemAck)
  BY DEF Next
<1>2. SUFFICES ASSUME Request(Dec) # NoRequest, ~extMemAck, ~GivenUp(Dec)
               PROVE  Request(Dec)' = Request(Dec)
  BY <1>1 DEF Cycle, RequestsStay
<1>3. CASE StateEnable(enI, cpStall)
  <2>. DEFINE ctl == Control(Dec, TRUE, ~cpStall)
  <2>1. PICK fetched : core' = CoreEdge(Dec, ctl, extMemAck, fetched)
    BY <1>1, <1>2, <1>3 DEF Cycle
  <2>2. CASE WritesExternal
    <3>1. core'.en = core.en /\ core'.decex = core.decex
      BY <2>1, <2>2, WriteHolds, HeldRegisters
    <3>2. x' = x /\ WritesExternal'
      BY <2>2, <3>1 DEF WritesExternal, Active, x
    <3>. QED BY <2>2, <3>2 DEF Request
  <2>3. CASE ~WritesExternal
    <3>1. Dec.memEx /\ Dec.enADr1 /\ ~Dec.enMEM /\ ~Request(Dec).rw
      BY <1>2, <2>3, ReadRequest
    <3>2. S_DECEX \in core.en /\ ~WritesReg(1) /\ ~WritesReg(Dec.muxAD1)
      BY <1>2, <3>1 DEF GivenUp, REG_AD1
    <3>3. ctl.stallDecEx /\ (S_EXEC \in ctl.en => S_EXEC \in core.en)
      BY <3>1, <3>2, ReadHolds
    <3>. HIDE DEF ctl
    <3>4. /\ core'.fetch = core.fetch /\ core'.decex = core.decex /\ core'.en = ctl.en
          /\ core'.addr = <<NextAddr(0, Dec, ctl), NextAddr(1, Dec, ctl)>>
      BY <2>1, <3>3, HeldRegisters
    <3>5. Dec.muxAD1 \in {0, 1}
      BY DecodedFields, BitIsBit DEF RegistersFit
    <3>6. core'.addr[2] = core.addr[2] /\ core'.addr[1 + Dec.muxAD1] = core.addr[1 + Dec.muxAD1]
      <4>1. NextAddr(1, Dec, ctl) = core.addr[2]  BY <3>2, <3>3, HeldAddress
      <4>2. Dec.muxAD1 = 0 => NextAddr(0, Dec, ctl) = core.addr[1]  BY <3>2, <3>3, HeldAddress
      <4>. QED BY <3>4, <3>5, <4>1, <4>2
    <3>7. Dec'.memEx /\ Dec'.enADr1 /\ ~Dec'.enMEM
      BY <3>1, <3>4, <3>6, DecodingStays
    <3>8. ~WritesExternal'
      BY <2>3, <3>3, <3>4 DEF WritesExternal, Active, x
    <3>. QED BY <2>3, <3>1, <3>6, <3>7, <3>8 DEF Request
  <2>. QED BY <2>2, <2>3
<1>4. CASE ~StateEnable(enI, cpStall)
  <2>1. core' = core  BY <1>1, <1>4 DEF Cycle
  <2>. QED BY <2>1 DEF Request, WritesExternal, Active, x, Dec
<1>. QED BY <1>3, <1>4

-----------------------------------------------------------------------------
(* The pipeline.  Without a wait from outside an instruction leaves EXEC   *)
(* when the stages before it are filled and its operation has been done.   *)

Stages == {S_FETCH, S_DECEX, S_EXEC}

\* Neither a jump nor a write is an operation of the floating point unit.
PipelineFits ==
    /\ core.en \subseteq Stages /\ quiet \in Nat /\ fpu.left \in Nat
    /\ fpu = [left |-> fpu.left, res |-> fpu.res, acc |-> fpu.acc]
    /\ core.fetch.valid \in BOOLEAN /\ core.dec.valid \in BOOLEAN /\ core.execNext \in BOOLEAN
    /\ x.goto \/ x.wrEn => x.cmd \notin MultiCycle

\* Out of reset DECEX and EXEC are enabled with nothing in them.
Starting ==
    /\ S_DECEX \in core.en /\ ~core.fetch.valid => core.fetch.data = 0 /\ Active /\ ~core.dec.valid
    /\ Active /\ ~core.dec.valid => /\ ~x.goto /\ ~x.wrEn /\ ~x.wbEn /\ ~x.cmp /\ core.execNext
                                    /\ x.cmd \notin MultiCycle

\* The floating point unit works for the instruction in EXEC, which has started it.
BusyForExec == fpu.left > 0 => Retiring /\ core.disableAlu /\ x.cmd \in MultiCycle

\* How long the pipeline may have been without a result, by how far it is filled: each
\* stage that is empty, an instruction that is to be skipped and each cycle of the
\* operation under way is a cycle still to come.
InTime ==
    /\ Retiring /\ fpu.left > 0 => \E l \in Latencies : quiet + fpu.left <= l + 4
    /\ Retiring /\ fpu.left = 0 => quiet <= 3
    /\ Active /\ ~Retiring => quiet <= Num(core.fetch.valid)
    /\ ~Active /\ S_DECEX \in core.en => quiet <= 1 + Num(core.execNext)
    /\ ~Active /\ S_DECEX \notin core.en => quiet <= Num(core.execNext \/ core.fetch.valid)

PipelineInv == PipelineFits /\ Starting /\ BusyForExec /\ InTime

\* Of the commands of a word: a jump and a write are none of the unit, and the word
\* DECEX holds out of reset asks for nothing.
LEMMA DecodedCommand ==
    ASSUME RegistersFit
    PROVE  /\ Dec.goto \/ Dec.enMEM => Dec.cmd \notin MultiCycle
           /\ core.fetch.data = 0 => /\ ~Dec.goto /\ ~Dec.enMEM /\ ~Dec.enREG /\ ~Dec.cmp /\ ~Dec.enADr1
                                     /\ Dec.cmd = CMD_MOV
<1>. DEFINE w == core.fetch.data
<1>1. /\ Dec.cmd = Command(w) /\ (Dec.goto <=> Form(w) = 10)
      /\ Dec.enMEM <=> IsMovCell(w) \/ IsMovMem(w)
  BY DecodeIs DEF Dec
<1>2. w \in Nat  BY DEF RegistersFit
<1>. HIDE DEF w
<1>3. Form(w) = (w \div 4096) % 16 /\ Bit(w, 15) = (w \div 32768) % 2
  BY <1>2, WordBits DEF WordFields
<1>4. Form(w) >= 8 => Bit(w, 15) # 0  BY <1>2, <1>3
<1>5. CMD_MOV \notin MultiCycle
  BY DEF CMD_MOV, MultiCycle, CMD_ADD, CMD_SUB, CMD_MUL, CMD_DIV, CMD_LOG2, CMD_SHFT, CMD_MAC_RES
<1>6. ASSUME Dec.goto \/ Dec.enMEM PROVE Dec.cmd \notin MultiCycle
  <2>1. Form(w) \in {9, 10} \/ (Form(w) = 15 /\ Sub(w) = 2)  BY <1>1, <1>6 DEF IsMovCell, IsMovMem
  <2>2. ~IsOpIrs(w) /\ ~IsOp(w) /\ ~IsCmp(w) /\ ~IsUnary(w)
    BY <1>4, <2>1 DEF IsOpIrs, IsOp, IsCmp, IsUnary
  <2>3. Command(w) = CMD_MOV  BY <2>2 DEF Command
  <2>. QED BY <1>1, <1>5, <2>3
<1>7. ASSUME w = 0
      PROVE  /\ ~Dec.goto /\ ~Dec.enMEM /\ ~Dec.enREG /\ ~Dec.cmp /\ ~Dec.enADr1
             /\ Dec.cmd = CMD_MOV
  BY <1>7, DecodedReset DEF Dec, w
<1>. QED BY <1>6, <1>7 DEF w

Starts == AluEn /\ x.cmd \in MultiCycle

\* The unit begins an operation, goes on with one, or has none.
LEMMA UnitStep ==
    ASSUME PipelineFits, BusyForExec, NEW latency \in Latencies
    PROVE  LET unit == FpuEdge(latency)
           IN  /\ unit = [left |-> unit.left, res |-> unit.res, acc |-> unit.acc]
               /\ Starts => unit.left = latency
               /\ ~Starts /\ fpu.left > 0 => unit.left = fpu.left - 1
               /\ ~Starts /\ fpu.left = 0 => unit.left = 0
<1>1. CMD_MAC \notin MultiCycle
  BY DEF CMD_MAC, MultiCycle, CMD_ADD, CMD_SUB, CMD_MUL, CMD_DIV, CMD_LOG2, CMD_SHFT, CMD_MAC_RES
<1>2. CMD_MAC_RES \in MultiCycle  BY DEF MultiCycle
<1>3. AluEn => fpu.left = 0
  BY DEF AluEn, BusyForExec, PipelineFits
<1>4. CASE AluEn /\ x.cmd = CMD_MAC
  <2>1. FpuEdge(latency) = [fpu EXCEPT !.acc = (@ + OpA * OpB) % Mod]  BY <1>4, Zenon DEF FpuEdge
  <2>2. ~Starts  BY <1>1, <1>4 DEF Starts
  <2>. QED BY <1>3, <1>4, <2>1, <2>2 DEF PipelineFits
<1>5. CASE AluEn /\ x.cmd = CMD_MAC_RES
  <2>1. FpuEdge(latency) = [left |-> latency, res |-> fpu.acc, acc |-> 0]
    <3>1. x.cmd # CMD_MAC  BY <1>1, <1>2, <1>5
    <3>. QED BY <1>5, <3>1, Zenon DEF FpuEdge
  <2>2. Starts  BY <1>2, <1>5 DEF Starts
  <2>. QED BY <2>1, <2>2
<1>6. CASE Starts /\ x.cmd # CMD_MAC_RES
  <2>1. FpuEdge(latency) = [fpu EXCEPT !.left = latency, !.res = Calc(x.cmd, OpA, OpB)]
    <3>1. x.cmd # CMD_MAC /\ AluEn /\ x.cmd \in MultiCycle  BY <1>1, <1>6 DEF Starts
    <3>. QED BY <1>6, <3>1, Zenon DEF FpuEdge
  <2>. QED BY <1>6, <2>1 DEF PipelineFits
<1>7. CASE ~Starts /\ ~(AluEn /\ x.cmd = CMD_MAC)
  <2>1. FpuEdge(latency) = IF fpu.left > 0 THEN [fpu EXCEPT !.left = @ - 1] ELSE fpu
    BY <1>2, <1>7 DEF FpuEdge, Starts
  <2>. QED BY <1>7, <2>1 DEF PipelineFits
<1>. QED BY <1>4, <1>5, <1>6, <1>7 DEF Starts

\* What holds EXEC: a write without its answer, or an operation that begins or is under way.
LEMMA ExecHeld ==
    ASSUME RegistersFit, PipelineFits, BusyForExec, Active, NEW stalled \in BOOLEAN
    PROVE  /\ ExecStall(stalled) => \/ stalled /\ ~Starts /\ fpu.left = 0
                                    \/ Starts /\ fpu.left = 0
                                    \/ ~Starts /\ fpu.left > 1
           /\ ~ExecStall(stalled) => ~Starts /\ fpu.left \in {0, 1}
           /\ x.goto => ~ExecStall(stalled)
<1>1. x.wrEn \/ x.goto => ~Starts /\ fpu.left = 0
  BY DEF PipelineFits, BusyForExec, Starts
<1>2. Starts => fpu.left = 0
  BY DEF AluEn, BusyForExec, PipelineFits, Starts
<1>3. Idle <=> fpu.left = 0 /\ ~Starts  BY DEF Idle, Starts
<1>4. CASE x.wrEn /\ x.wrExt
  <2>1. ExecStall(stalled) <=> stalled  BY <1>4 DEF ExecStall
  <2>2. ~x.goto  BY <1>4 DEF RegistersFit, x
  <2>. QED BY <1>1, <1>4, <2>1, <2>2
<1>5. CASE ~(x.wrEn /\ x.wrExt)
  <2>1. ExecStall(stalled) <=> ~Complete /\ ~Idle  BY <1>5 DEF ExecStall
  <2>2. Complete <=> fpu.left = 1  BY DEF Complete
  <2>3. fpu.left \in Nat  BY DEF PipelineFits
  <2>. QED BY <1>1, <1>2, <1>3, <2>1, <2>2, <2>3
<1>. QED BY <1>4, <1>5

\* The stages that are enabled after the edge.
LEMMA ControlFields ==
    ASSUME NEW stalled \in BOOLEAN, NEW fetchValid \in BOOLEAN, core.en \subseteq Stages
    PROVE  LET ctl == Control(Dec, stalled, fetchValid)
           IN  /\ ctl.stallExec <=> ExecStall(stalled) /\ Active
               /\ ctl.stallDecEx <=> (DecExStall(Dec, stalled) /\ S_DECEX \in core.en) \/ ctl.stallExec
               /\ ctl.en \subseteq Stages
               /\ x.goto /\ Active => S_DECEX \notin ctl.en /\ S_EXEC \notin ctl.en
               /\ ~(x.goto /\ Active) /\ ~ctl.stallDecEx =>
                      /\ S_DECEX \in ctl.en <=> fetchValid
                      /\ S_EXEC \in ctl.en <=> S_DECEX \in core.en /\ core.execNext /\ (Active => ExecNext)
               /\ ~(x.goto /\ Active) /\ ctl.stallDecEx /\ ~ctl.stallExec =>
                      (S_DECEX \in ctl.en <=> S_DECEX \in core.en) /\ S_EXEC \notin ctl.en
               /\ ~(x.goto /\ Active) /\ ctl.stallExec =>
                      (S_DECEX \in ctl.en <=> S_DECEX \in core.en) /\ (S_EXEC \in ctl.en <=> Active)
<1>. DEFINE ctl == Control(Dec, stalled, fetchValid)
            execStalls == ExecStall(stalled) /\ Active
            decExStalls == (DecExStall(Dec, stalled) /\ S_DECEX \in core.en) \/ execStalls
            filled == {S_FETCH} \cup (IF fetchValid THEN {S_DECEX} ELSE {})
                          \cup (IF S_DECEX \in core.en /\ core.execNext /\ (Active => ExecNext)
                                THEN {S_EXEC} ELSE {})
<1>1. ctl.stallExec = execStalls  BY DEF Control
<1>2. ctl.stallDecEx = decExStalls  BY DEF Control
<1>3. ctl.en = IF x.goto /\ Active THEN {S_FETCH}
               ELSE IF ~decExStalls THEN filled
               ELSE IF ~execStalls THEN core.en \ {S_EXEC} ELSE core.en
  BY DEF Control
<1>4. S_FETCH # S_DECEX /\ S_FETCH # S_EXEC /\ S_DECEX # S_EXEC  BY DEF S_FETCH, S_DECEX, S_EXEC
<1>5. execStalls => decExStalls  OBVIOUS
<1>6. /\ filled \subseteq Stages /\ (S_DECEX \in filled <=> fetchValid)
      /\ S_EXEC \in filled <=> S_DECEX \in core.en /\ core.execNext /\ (Active => ExecNext)
  BY <1>4 DEF Stages
<1>7. (execStalls <=> ExecStall(stalled) /\ Active)
      /\ (decExStalls <=> (DecExStall(Dec, stalled) /\ S_DECEX \in core.en) \/ execStalls)
  OBVIOUS
<1>. HIDE DEF ctl, execStalls, decExStalls, filled
<1>8. (ctl.stallExec <=> execStalls) /\ (ctl.stallDecEx <=> decExStalls)  BY <1>1, <1>2, Zenon
<1>9. ctl.en \subseteq Stages  BY <1>3, <1>6 DEF Stages
<1>10. x.goto /\ Active => S_DECEX \notin ctl.en /\ S_EXEC \notin ctl.en  BY <1>3, <1>4
<1>11. ~(x.goto /\ Active) /\ ~decExStalls => ctl.en = filled  BY <1>3
<1>12. ~(x.goto /\ Active) /\ decExStalls /\ ~execStalls =>
          (S_DECEX \in ctl.en <=> S_DECEX \in core.en) /\ S_EXEC \notin ctl.en
  BY <1>3, <1>4
<1>13. ~(x.goto /\ Active) /\ execStalls => ctl.en = core.en  BY <1>3, <1>5
<1>14. Active <=> S_EXEC \in core.en  BY DEF Active
<1>. QED BY <1>6, <1>7, <1>8, <1>9, <1>10, <1>11, <1>12, <1>13, <1>14 DEF ctl

\* Where nothing is written back DECEX is held by a read without its answer only.
LEMMA DecExHeld ==
    ASSUME NEW stalled \in BOOLEAN, ~Active \/ (~x.wbEn /\ ~x.wrEn), DecExStall(Dec, stalled)
    PROVE  stalled /\ Dec.enADr1
BY DEF DecExStall, WaitsForRegister, WritesExternal

\* The registers of the pipeline at the edge.
LEMMA PipelineEdge ==
    ASSUME NEW ctl, NEW ack, NEW fetched, core' = CoreEdge(Dec, ctl, ack, fetched)
    PROVE  /\ core'.en = ctl.en /\ core'.execNext = NextExecNext /\ core'.disableAlu = NextDisableAlu
           /\ ctl.stallDecEx => core'.fetch = core.fetch /\ core'.dec = core.dec /\ core'.decex = core.decex
           /\ ~ctl.stallDecEx => /\ core'.fetch = fetched /\ core'.dec.valid = core.fetch.valid
                                 /\ core'.decex = DecodeEx(Dec, ack)
BY DEF CoreEdge, Kept, x

\* What DECEX hands to EXEC.
LEMMA HandedOn ==
    ASSUME RegistersFit, NEW ack
    PROVE  /\ DecodeEx(Dec, ack).goto \/ DecodeEx(Dec, ack).wrEn => DecodeEx(Dec, ack).cmd \notin MultiCycle
           /\ core.fetch.data = 0 =>
                  /\ ~DecodeEx(Dec, ack).goto /\ ~DecodeEx(Dec, ack).wrEn /\ ~DecodeEx(Dec, ack).wbEn
                  /\ ~DecodeEx(Dec, ack).cmp /\ DecodeEx(Dec, ack).cmd \notin MultiCycle
<1>1. DecodeEx(Dec, ack).goto => Dec.goto  BY DEF DecodeEx
<1>2. /\ DecodeEx(Dec, ack).wrEn = Dec.enMEM /\ DecodeEx(Dec, ack).wbEn = Dec.enREG
      /\ DecodeEx(Dec, ack).cmp = Dec.cmp /\ DecodeEx(Dec, ack).cmd = Dec.cmd
  BY DEF DecodeEx
<1>3. CMD_MOV \notin MultiCycle
  BY DEF CMD_MOV, MultiCycle, CMD_ADD, CMD_SUB, CMD_MUL, CMD_DIV, CMD_LOG2, CMD_SHFT, CMD_MAC_RES
<1>. QED BY <1>1, <1>2, <1>3, DecodedCommand

\* An operation that has been started is not started again.
LEMMA StartedOnce ==
    ASSUME Active, fpu.left # 1, x.cmd \in MultiCycle
    PROVE  NextDisableAlu
<1>1. x.cmd \notin {CMD_MOV, CMD_INVALID, CMD_MAC}
  BY DEF MultiCycle, CMD_MOV, CMD_INVALID, CMD_MAC, CMD_ADD, CMD_SUB, CMD_MUL, CMD_DIV, CMD_LOG2, CMD_SHFT,
         CMD_MAC_RES
<1>. QED BY <1>1 DEF NextDisableAlu, Complete

\* One edge of a core that is enabled keeps the bounds: what becomes of the instruction
\* in EXEC decides which of them is due.
LEMMA EnabledEdge ==
    ASSUME RegistersFit, PipelineInv, NEW stalled \in BOOLEAN, NEW fetchValid \in BOOLEAN,
           NEW ack, NEW fetched, fetched.valid = fetchValid, NEW latency \in Latencies,
           NEW ctl, ctl = Control(Dec, stalled, fetchValid),
           core' = CoreEdge(Dec, ctl, ack, fetched), fpu' = FpuEdge(latency),
           quiet' = IF Retiring /\ ~ctl.stallExec THEN 0
                    ELSE IF ~fetchValid \/ stalled THEN quiet ELSE quiet + 1
    PROVE  PipelineInv'
<1>. USE DEF PipelineInv
<1>1. /\ core.en \subseteq Stages /\ quiet \in Nat /\ fpu.left \in Nat /\ latency \in Nat \ {0}
      /\ core.fetch.valid \in BOOLEAN /\ core.dec.valid \in BOOLEAN /\ core.execNext \in BOOLEAN
  BY LatencyAssumption DEF PipelineFits
<1>2. /\ ctl.stallExec <=> ExecStall(stalled) /\ Active
      /\ ctl.stallDecEx <=> (DecExStall(Dec, stalled) /\ S_DECEX \in core.en) \/ ctl.stallExec
      /\ ctl.en \subseteq Stages
      /\ x.goto /\ Active => S_DECEX \notin ctl.en /\ S_EXEC \notin ctl.en
      /\ ~(x.goto /\ Active) /\ ~ctl.stallDecEx =>
             /\ S_DECEX \in ctl.en <=> fetchValid
             /\ S_EXEC \in ctl.en <=> S_DECEX \in core.en /\ core.execNext /\ (Active => ExecNext)
      /\ ~(x.goto /\ Active) /\ ctl.stallDecEx /\ ~ctl.stallExec =>
             (S_DECEX \in ctl.en <=> S_DECEX \in core.en) /\ S_EXEC \notin ctl.en
      /\ ~(x.goto /\ Active) /\ ctl.stallExec =>
             (S_DECEX \in ctl.en <=> S_DECEX \in core.en) /\ (S_EXEC \in ctl.en <=> Active)
  BY <1>1, ControlFields
<1>3. /\ core'.en = ctl.en /\ core'.execNext = NextExecNext /\ core'.disableAlu = NextDisableAlu
      /\ ctl.stallDecEx => core'.fetch = core.fetch /\ core'.dec = core.dec /\ x' = x
      /\ ~ctl.stallDecEx => /\ core'.fetch = fetched /\ core'.dec.valid = core.fetch.valid
                            /\ x' = DecodeEx(Dec, ack)
  BY PipelineEdge DEF x
<1>4. (Active' <=> S_EXEC \in ctl.en) /\ (Retiring' <=> Active' /\ core'.dec.valid)
      /\ (Retiring <=> Active /\ core.dec.valid)
  BY <1>3 DEF Active, Retiring
<1>5. /\ fpu' = [left |-> fpu'.left, res |-> fpu'.res, acc |-> fpu'.acc]
      /\ Starts => fpu'.left = latency
      /\ ~Starts /\ fpu.left > 0 => fpu'.left = fpu.left - 1
      /\ ~Starts /\ fpu.left = 0 => fpu'.left = 0
  BY UnitStep
<1>6. Active => /\ ExecStall(stalled) => \/ stalled /\ ~Starts /\ fpu.left = 0
                                         \/ Starts /\ fpu.left = 0
                                         \/ ~Starts /\ fpu.left > 1
                /\ ~ExecStall(stalled) => ~Starts /\ fpu.left \in {0, 1}
                /\ x.goto => ~ExecStall(stalled)
  BY ExecHeld
<1>7. Starts \/ fpu.left > 0 => Active  BY DEF Starts, AluEn, BusyForExec, Retiring
<1>8. core'.execNext = (core.fetch.valid \/ (ExecNext /\ core.execNext))
  BY <1>1, <1>3 DEF NextExecNext
<1>9. PipelineFits'
  <2>1. core'.en \subseteq Stages  BY <1>2, <1>3
  <2>2. quiet' \in Nat  BY <1>1
  <2>3. fpu'.left \in Nat  BY <1>1, <1>5
  <2>4. core'.fetch.valid \in BOOLEAN /\ core'.dec.valid \in BOOLEAN
    BY <1>1, <1>3
  <2>5. core'.execNext \in BOOLEAN  BY <1>1, <1>3 DEF NextExecNext
  <2>6. x'.goto \/ x'.wrEn => x'.cmd \notin MultiCycle
    BY <1>3, HandedOn DEF PipelineFits
  <2>. QED BY <1>5, <2>1, <2>2, <2>3, <2>4, <2>5, <2>6 DEF PipelineFits
\* A word comes into DECEX only when it is valid, and the word out of reset is a nop.
<1>10. S_DECEX \in core.en /\ ~core.fetch.valid =>
           core.fetch.data = 0 /\ ~Dec.enADr1 /\ Active /\ ~Retiring
  BY <1>4, DecodedCommand DEF Starting
<1>11. CASE Retiring /\ ctl.stallExec
  <2>1. ctl.stallDecEx /\ Active /\ ExecStall(stalled)  BY <1>2, <1>4, <1>11
  <2>2. ~x.goto  BY <1>6, <2>1
  <2>3. Active' /\ Retiring' /\ (S_DECEX \in core'.en <=> S_DECEX \in core.en)
    BY <1>2, <1>3, <1>4, <1>11, <2>1, <2>2
  <2>4. core'.fetch = core.fetch /\ core'.dec = core.dec /\ x' = x  BY <1>3, <2>1
  <2>5. Starting'  BY <1>10, <1>11, <2>3, <2>4 DEF Starting, Retiring
  <2>6. quiet' <= quiet + 1 /\ (stalled => quiet' = quiet)  BY <1>1, <1>11
  <2>7. CASE stalled /\ ~Starts /\ fpu.left = 0
    <3>1. fpu'.left = 0 /\ quiet' <= 3  BY <1>5, <1>11, <2>6, <2>7 DEF InTime
    <3>2. BusyForExec'  BY <3>1 DEF BusyForExec
    <3>3. InTime'  BY <2>3, <3>1 DEF InTime
    <3>. QED BY <1>9, <2>5, <3>2, <3>3
  <2>8. CASE Starts /\ fpu.left = 0
    <3>1. fpu'.left = latency /\ quiet' + latency <= latency + 4
      <4>1. quiet <= 3  BY <1>11, <2>8 DEF InTime
      <4>. QED BY <1>1, <1>5, <2>6, <2>8, <4>1
    <3>2. x.cmd \in MultiCycle  BY <2>8 DEF Starts
    <3>3. core'.disableAlu
      BY <1>3, <2>1, <2>8, <3>2, StartedOnce
    <3>4. BusyForExec'  BY <2>3, <2>4, <3>2, <3>3 DEF BusyForExec
    <3>5. InTime'  BY <1>1, <2>3, <3>1 DEF InTime
    <3>. QED BY <1>9, <2>5, <3>4, <3>5
  <2>9. CASE ~Starts /\ fpu.left > 1
    <3>1. PICK l \in Latencies : quiet + fpu.left <= l + 4
      BY <1>1, <1>11, <2>9 DEF InTime
    <3>2. l \in Nat  BY LatencyAssumption
    <3>3. fpu'.left = fpu.left - 1 /\ fpu'.left > 0 /\ quiet' + fpu'.left <= l + 4
      BY <1>1, <1>5, <1>9, <2>6, <2>9, <3>1, <3>2 DEF PipelineFits
    <3>4. x.cmd \in MultiCycle  BY <1>1, <2>9 DEF BusyForExec
    <3>5. core'.disableAlu
      <4>1. fpu.left # 1  BY <1>1, <2>9
      <4>. QED BY <1>3, <2>1, <3>4, <4>1, StartedOnce
    <3>6. BusyForExec'  BY <2>3, <2>4, <3>4, <3>5 DEF BusyForExec
    <3>7. InTime'  BY <2>3, <3>3 DEF InTime
    <3>. QED BY <1>9, <2>5, <3>6, <3>7
  <2>. QED BY <1>6, <2>1, <2>7, <2>8, <2>9
<1>12. (fpu'.left = 0 /\ BusyForExec') \/ (Retiring /\ ctl.stallExec)
  <2>. SUFFICES ASSUME ~(Retiring /\ ctl.stallExec) PROVE fpu'.left = 0 /\ BusyForExec'
    OBVIOUS
  <2>1. CASE Retiring
    <3>1. ~ExecStall(stalled)  BY <1>2, <1>4, <2>1
    <3>2. ~Starts /\ fpu.left \in {0, 1}  BY <1>4, <1>6, <2>1, <3>1
    <3>. QED BY <1>5, <3>2 DEF BusyForExec
  <2>2. CASE ~Retiring
    <3>1. fpu.left = 0  BY <1>1, <2>2 DEF BusyForExec
    <3>2. ~Starts  BY <1>4, <1>7, <2>2 DEF Starts, Starting
    <3>. QED BY <1>5, <3>1, <3>2 DEF BusyForExec
  <2>. QED BY <2>1, <2>2
<1>13. CASE Retiring /\ ~ctl.stallExec
  <2>1. quiet' = 0  BY <1>13
  <2>2. InTime'  BY <1>12, <1>13, <2>1 DEF InTime, Num
  <2>3. Starting'
    <3>1. CASE x.goto
      BY <1>2, <1>3, <1>4, <1>13, <3>1 DEF Starting
    <3>2. CASE ~x.goto /\ ctl.stallDecEx
      BY <1>2, <1>3, <1>4, <1>10, <1>13, <3>2 DEF Starting
    <3>3. CASE ~x.goto /\ ~ctl.stallDecEx
      BY <1>2, <1>3, <1>4, <1>10, <1>13, <3>3 DEF Starting
    <3>. QED BY <3>1, <3>2, <3>3
  <2>. QED BY <1>9, <1>12, <1>13, <2>2, <2>3
<1>14. CASE Active /\ ~Retiring
  <2>1. /\ ~core.dec.valid /\ ~x.goto /\ ~x.wrEn /\ ~x.wbEn /\ ~x.cmp /\ core.execNext
        /\ x.cmd \notin MultiCycle
    BY <1>4, <1>14 DEF Starting
  <2>2. ~ctl.stallExec
    <3>1. fpu.left = 0  BY <1>1, <1>14 DEF BusyForExec
    <3>2. ~ExecStall(stalled)  BY <2>1, <3>1 DEF ExecStall, Idle
    <3>. QED BY <1>2, <3>2
  <2>3. ExecNext /\ core'.execNext  BY <1>8, <2>1 DEF ExecNext
  <2>4. quiet <= Num(core.fetch.valid)  BY <1>14 DEF InTime
  <2>5. quiet' = IF ~fetchValid \/ stalled THEN quiet ELSE quiet + 1  BY <1>14
  <2>6. CASE ctl.stallDecEx
    <3>1. stalled /\ Dec.enADr1 /\ S_DECEX \in core.en  BY <1>2, <2>1, <2>2, <2>6, DecExHeld
    <3>2. ~Active' /\ S_DECEX \in core'.en /\ core'.fetch = core.fetch /\ core.fetch.valid
      BY <1>2, <1>3, <1>4, <1>10, <2>1, <2>2, <2>6, <3>1
    <3>3. Starting'  BY <3>2 DEF Starting
    <3>4. quiet' <= 1 /\ Num(core'.execNext) = 1
      BY <1>1, <2>3, <2>4, <2>5, <3>1, <3>2 DEF Num
    <3>5. InTime'  BY <1>1, <1>4, <3>2, <3>4 DEF InTime
    <3>. QED BY <1>9, <1>12, <1>14, <3>3, <3>5
  <2>7. CASE ~ctl.stallDecEx
    <3>1. /\ core'.fetch.valid = fetchValid /\ core'.dec.valid = core.fetch.valid
          /\ x' = DecodeEx(Dec, ack) /\ (S_DECEX \in core'.en <=> fetchValid)
          /\ (Active' <=> S_DECEX \in core.en)
      BY <1>2, <1>3, <1>4, <2>1, <2>3, <2>7
    <3>2. Starting'
      <4>1. ASSUME Active', ~core'.dec.valid
            PROVE  ~x'.goto /\ ~x'.wrEn /\ ~x'.wbEn /\ ~x'.cmp /\ x'.cmd \notin MultiCycle
        BY <1>10, <3>1, <4>1, HandedOn
      <4>. QED BY <2>3, <3>1, <4>1 DEF Starting
    <3>3. InTime'
      <4>1. Retiring' => quiet' <= 3  BY <1>1, <2>4, <2>5 DEF Num
      <4>2. Active' /\ ~Retiring' => quiet' <= Num(core'.fetch.valid)
        BY <1>1, <1>4, <2>4, <2>5, <3>1 DEF Num
      <4>3. ~Active' /\ S_DECEX \in core'.en => quiet' <= 1 + Num(core'.execNext)
        BY <1>1, <2>3, <2>4, <2>5 DEF Num
      <4>4. ~Active' /\ S_DECEX \notin core'.en => quiet' <= Num(core'.execNext \/ core'.fetch.valid)
        BY <1>1, <2>3, <2>4, <2>5, <3>1 DEF Num
      <4>. QED BY <1>12, <1>14, <4>1, <4>2, <4>3, <4>4 DEF InTime
    <3>. QED BY <1>9, <1>12, <1>14, <3>2, <3>3
  <2>. QED BY <2>6, <2>7
<1>15. CASE ~Active
  <2>1. ~Retiring /\ ~ctl.stallExec /\ (ExecNext <=> core.execNext)
    BY <1>1, <1>2, <1>4, <1>15 DEF ExecNext
  <2>2. quiet' = IF ~fetchValid \/ stalled THEN quiet ELSE quiet + 1  BY <2>1
  <2>3. core'.execNext = (core.fetch.valid \/ core.execNext)  BY <1>1, <1>8, <2>1
  <2>4. S_DECEX \in core.en => core.fetch.valid /\ quiet <= 1 + Num(core.execNext)
    BY <1>10, <1>15 DEF InTime
  <2>5. S_DECEX \notin core.en => quiet <= Num(core.execNext \/ core.fetch.valid)
    BY <1>15 DEF InTime
  <2>6. CASE ctl.stallDecEx
    <3>1. stalled /\ S_DECEX \in core.en  BY <1>2, <1>15, <2>1, <2>6, DecExHeld
    <3>2. ~Active' /\ S_DECEX \in core'.en /\ core'.fetch = core.fetch
      BY <1>2, <1>3, <1>4, <1>15, <2>1, <2>6, <3>1
    <3>3. Starting'  BY <2>4, <3>1, <3>2 DEF Starting
    <3>4. quiet' <= 1 + Num(core'.execNext)
      <4>1. quiet <= 2
        <5>1. quiet <= 1 + Num(core.execNext)  BY <2>4, <3>1
        <5>. QED BY <1>1, <5>1 DEF Num
      <4>4. quiet' = quiet  BY <2>2, <3>1
      <4>2. core.fetch.valid = TRUE  BY <1>1, <2>4, <3>1
      <4>3. core'.execNext  BY <2>3, <4>2
      <4>. QED BY <4>1, <4>3, <4>4 DEF Num
    <3>5. InTime'  BY <1>4, <3>2, <3>4 DEF InTime
    <3>. QED BY <1>9, <1>12, <2>1, <3>3, <3>5
  <2>7. CASE ~ctl.stallDecEx
    <3>1. /\ core'.fetch.valid = fetchValid /\ core'.dec.valid = core.fetch.valid
          /\ (S_DECEX \in core'.en <=> fetchValid)
          /\ (Active' <=> S_DECEX \in core.en /\ core.execNext)
      BY <1>2, <1>3, <1>4, <1>15, <2>7
    <3>2. Starting'
      BY <2>4, <3>1 DEF Starting
    <3>3. InTime'
      <4>1. Retiring' => quiet' <= 3  BY <1>1, <1>4, <2>2, <2>4, <3>1 DEF Num
      <4>2. Active' => Retiring'  BY <1>4, <2>4, <3>1
      <4>3. ~Active' /\ S_DECEX \in core'.en => quiet' <= 1 + Num(core'.execNext)
        BY <1>1, <2>2, <2>3, <2>4, <2>5, <3>1 DEF Num
      <4>4. ~Active' /\ S_DECEX \notin core'.en => quiet' <= Num(core'.execNext \/ core'.fetch.valid)
        BY <1>1, <2>2, <2>3, <2>4, <2>5, <3>1 DEF Num
      <4>. QED BY <1>12, <2>1, <4>1, <4>2, <4>3, <4>4 DEF InTime
    <3>. QED BY <1>9, <1>12, <2>1, <3>2, <3>3
  <2>. QED BY <2>6, <2>7
<1>. QED BY <1>11, <1>13, <1>14, <1>15

-----------------------------------------------------------------------------
(* The invariant.                                                          *)

\* The word that is fetched comes from the menu or is that of a nop.
LEMMA ProgramStep == ASSUME ProgramFits, Next PROVE ProgramFits'
<1>1. PICK enI, cpStall, extMemAck \in BOOLEAN : Cycle(Dec, enI, cpStall, extMemAck)
  BY DEF Next
<1>2. menu' = menu  BY <1>1 DEF Cycle
<1>3. CASE prog' = prog
  BY <1>2, <1>3 DEF ProgramFits
<1>4. CASE prog' # prog
  <2>1. PICK i : /\ core.pc \in DOMAIN prog
                 /\ i \in menu[core.pc] \/ i = prog[core.pc]
                 /\ prog' = [prog EXCEPT ![core.pc] = i]
    BY <1>1, <1>4 DEF Cycle, InstrAt
  <2>. QED BY <1>2, <2>1 DEF ProgramFits
<1>. QED BY <1>3, <1>4

\* The registers of FETCH and DECEX take a word and what its decoding says, or stay.
LEMMA RegistersStep == ASSUME ProgramFits, RegistersFit, Next PROVE RegistersFit'
<1>1. PICK enI, cpStall, extMemAck \in BOOLEAN : Cycle(Dec, enI, cpStall, extMemAck)
  BY DEF Next
<1>2. CASE core' = core
  BY <1>2 DEF RegistersFit
<1>3. CASE core' # core
  <2>. DEFINE ctl == Control(Dec, Request(Dec) # NoRequest /\ ~extMemAck, ~cpStall)
              fetched(i) == [data |-> IF cpStall THEN NopCode ELSE Word(i), pc |-> core.pc,
                             valid |-> ~cpStall]
  <2>1. PICK i : /\ i = InstrAt(prog, core.pc) \/ (core.pc \in DOMAIN prog /\ i \in menu[core.pc])
                 /\ core' = CoreEdge(Dec, ctl, extMemAck, fetched(i))
    BY <1>1, <1>3 DEF Cycle
  <2>. HIDE DEF ctl, fetched
  <2>2. fetched(i).data \in Nat
    <3>1. Word(i) \in Nat  BY <2>1, FetchedIsWord
    <3>. QED BY <3>1 DEF fetched, NopCode
  <2>3. core'.fetch = core.fetch \/ core'.fetch = fetched(i)
    BY <2>1 DEF CoreEdge
  <2>4. core'.decex = core.decex \/ core'.decex = DecodeEx(Dec, extMemAck)
    BY <2>1 DEF CoreEdge, x
  <2>5. DecodeEx(Dec, extMemAck).goto => Dec.goto  BY DEF DecodeEx
  <2>6. DecodeEx(Dec, extMemAck).wrEn = Dec.enMEM  BY DEF DecodeEx
  <2>. QED BY <2>2, <2>3, <2>4, <2>5, <2>6, DecodedFields DEF RegistersFit
<1>. QED BY <1>2, <1>3

\* A core that is disabled stays as it is, and what it waits for is not counted.
LEMMA PipelineStep == ASSUME RegistersFit, PipelineInv, Next PROVE PipelineInv'
<1>1. PICK enI, cpStall, extMemAck \in BOOLEAN : Cycle(Dec, enI, cpStall, extMemAck)
  BY DEF Next
<1>. DEFINE stalled == Request(Dec) # NoRequest /\ ~extMemAck
            ctl == Control(Dec, stalled, ~cpStall)
<1>2. CASE StateEnable(enI, cpStall)
  <2>1. enI  BY <1>2 DEF StateEnable
  <2>2. PICK i : core' = CoreEdge(Dec, ctl, extMemAck, [data |-> IF cpStall THEN NopCode ELSE Word(i),
                                                        pc |-> core.pc, valid |-> ~cpStall])
    BY <1>1, <1>2 DEF Cycle
  <2>3. PICK latency \in Latencies : fpu' = FpuEdge(latency)
    BY <1>1, <2>1 DEF Cycle
  <2>4. quiet' = IF Retiring /\ ~ctl.stallExec THEN 0
                 ELSE IF cpStall \/ stalled THEN quiet ELSE quiet + 1
    BY <1>1, <1>2, <2>1 DEF Cycle
  <2>5. stalled \in BOOLEAN /\ (~cpStall) \in BOOLEAN  OBVIOUS
  <2>. DEFINE fetched == [data |-> IF cpStall THEN NopCode ELSE Word(i), pc |-> core.pc, valid |-> ~cpStall]
  <2>6. fetched.valid = ~cpStall  OBVIOUS
  <2>7. core' = CoreEdge(Dec, ctl, extMemAck, fetched)  BY <2>2
  <2>8. ctl = Control(Dec, stalled, ~cpStall)  OBVIOUS
  <2>. HIDE DEF fetched, ctl, stalled
  <2>9. quiet' = IF Retiring /\ ~ctl.stallExec THEN 0
                 ELSE IF ~(~cpStall) \/ stalled THEN quiet ELSE quiet + 1
    BY <2>4
  <2>. QED BY <2>3, <2>5, <2>6, <2>7, <2>8, <2>9, EnabledEdge
<1>3. CASE ~StateEnable(enI, cpStall)
  <2>1. core' = core  BY <1>1, <1>3 DEF Cycle
  <2>2. quiet' = quiet  BY <1>1, <1>3 DEF Cycle, StateEnable
  <2>3. CASE ~enI
    <3>1. fpu' = fpu  BY <1>1, <2>3 DEF Cycle
    <3>. QED BY <2>1, <2>2, <3>1
         DEF PipelineInv, PipelineFits, Starting, BusyForExec, InTime, Retiring, Active, x
  <2>4. CASE enI
    <3>1. Active /\ x.goto  BY <1>3, <2>4 DEF StateEnable, NextPc
    <3>2. fpu.left = 0 /\ ~Starts
      BY <3>1 DEF PipelineInv, PipelineFits, BusyForExec, Starts
    <3>3. PICK latency \in Latencies : fpu' = FpuEdge(latency)
      BY <1>1, <2>4 DEF Cycle
    <3>4. fpu'.left = 0 /\ fpu' = [left |-> fpu'.left, res |-> fpu'.res, acc |-> fpu'.acc]
      BY <3>2, <3>3, UnitStep DEF PipelineInv
    <3>. QED BY <2>1, <2>2, <3>2, <3>4
         DEF PipelineInv, PipelineFits, Starting, BusyForExec, InTime, Retiring, Active, x
  <2>. QED BY <2>3, <2>4
<1>. QED BY <1>2, <1>3

\* The invariant of the stages holds after the reset.
LEMMA PipelineInit == Init => PipelineInv
<1>. SUFFICES ASSUME Init PROVE PipelineInv  OBVIOUS
<1>1. core = Reset /\ fpu = [left |-> 0, res |-> 0, acc |-> 0] /\ quiet = 0  BY DEF Init
<1>2. /\ core.en = Stages /\ core.fetch.valid = FALSE /\ core.fetch.data = 0
      /\ core.dec.valid = FALSE /\ core.execNext = TRUE
      /\ x.goto = FALSE /\ x.wrEn = FALSE /\ x.wbEn = FALSE /\ x.cmp = FALSE /\ x.cmd = CMD_MOV
  BY <1>1 DEF Reset, Stages, x
<1>3. CMD_MOV \notin MultiCycle
  BY DEF CMD_MOV, MultiCycle, CMD_ADD, CMD_SUB, CMD_MUL, CMD_DIV, CMD_LOG2, CMD_SHFT, CMD_MAC_RES
<1>4. Active /\ ~Retiring  BY <1>2 DEF Active, Retiring, Stages
<1>5. PipelineFits  BY <1>1, <1>2 DEF PipelineFits
<1>6. Starting  BY <1>2, <1>3, <1>4 DEF Starting
<1>7. BusyForExec  BY <1>1 DEF BusyForExec
<1>8. InTime  BY <1>1, <1>2, <1>4 DEF InTime, Num
<1>. QED BY <1>5, <1>6, <1>7, <1>8 DEF PipelineInv

\* The invariant of the requests holds after the reset.
LEMMA CoreInit == Init => CoreInv
<1>. SUFFICES ASSUME Init PROVE CoreInv  OBVIOUS
<1>1. ProgramFits  BY DEF Init, ProgramFits
<1>2. RegistersFit  BY DEF Init, Reset, RegistersFit
<1>3. FetchIsSteady /\ RequestsStay  BY DEF Init, FetchIsSteady, RequestsStay
<1>. QED BY <1>1, <1>2, <1>3 DEF CoreInv

\* The invariant of the requests is inductive.
LEMMA CoreStep == CoreInv /\ [Next]_vars => CoreInv'
<1>. SUFFICES ASSUME CoreInv, [Next]_vars PROVE CoreInv'  OBVIOUS
<1>1. CASE Next
  BY <1>1, ProgramStep, RegistersStep, FetchStep, RequestStep DEF CoreInv
<1>2. CASE UNCHANGED vars
  <2>1. ProgramFits' /\ RegistersFit' /\ FetchIsSteady'
    BY <1>2 DEF vars, CoreInv, ProgramFits, RegistersFit, FetchIsSteady
  <2>2. Request(Dec)' = Request(Dec)
    BY <1>2 DEF vars, Request, WritesExternal, Active, x, Dec
  <2>. QED BY <1>2, <2>1, <2>2 DEF vars, CoreInv, RequestsStay
<1>. QED BY <1>1, <1>2

\* The code cache sees one address until it has answered, for every program: the jump
\* that is due while the fetch waits is held back by the enable of the state.
THEOREM FetchSteady == Spec => []FetchIsSteady
<1>. CoreInv => FetchIsSteady  BY DEF CoreInv
<1>. QED BY CoreInit, CoreStep, PTL DEF Spec

\* A data request that the cache has not answered is there in the next cycle, unchanged,
\* unless the core gives the read up; a write is never given up.
THEOREM RequestsKept == Spec => []RequestsStay
<1>. CoreInv => RequestsStay  BY DEF CoreInv
<1>. QED BY CoreInit, CoreStep, PTL DEF Spec

\* Without a wait from outside an instruction leaves EXEC within the time of one operation
\* and the cycles that fill the pipeline, whatever the program and the latencies.
THEOREM PipelineMoves == Spec => []NeverStuck
<1>1. Init => RegistersFit /\ ProgramFits /\ PipelineInv
  BY CoreInit, PipelineInit DEF CoreInv
<1>2. ProgramFits /\ RegistersFit /\ PipelineInv /\ [Next]_vars => (ProgramFits /\ RegistersFit /\ PipelineInv)'
  <2>. SUFFICES ASSUME ProgramFits, RegistersFit, PipelineInv, [Next]_vars
                PROVE  ProgramFits' /\ RegistersFit' /\ PipelineInv'
    OBVIOUS
  <2>1. CASE Next  BY <2>1, ProgramStep, RegistersStep, PipelineStep
  <2>2. CASE UNCHANGED vars
    BY <2>2 DEF vars, ProgramFits, RegistersFit, PipelineInv, PipelineFits, Starting, BusyForExec, InTime,
       Retiring, Active, x
  <2>. QED BY <2>1, <2>2
<1>3. PipelineInv => NeverStuck
  <2>. SUFFICES ASSUME PipelineInv PROVE NeverStuck  OBVIOUS
  <2>1. \A l \in Latencies : l \in Nat \ {0}  BY LatencyAssumption
  <2>2. quiet \in Nat /\ fpu.left \in Nat  BY DEF PipelineInv, PipelineFits
  <2>3. CASE Retiring /\ fpu.left > 0
    <3>1. PICK l \in Latencies : quiet + fpu.left <= l + 4  BY <2>3 DEF PipelineInv, InTime
    <3>2. quiet <= l + 3  BY <2>1, <2>2, <2>3, <3>1
    <3>. QED BY <3>2 DEF NeverStuck
  <2>4. CASE ~(Retiring /\ fpu.left > 0)
    <3>1. quiet <= 3
      <4>1. Retiring => Active  BY DEF Retiring
      <4>. QED BY <2>2, <2>4, <4>1 DEF PipelineInv, InTime, Num
    <3>2. PICK l \in Latencies : TRUE  BY LatencyAssumption
    <3>. QED BY <2>1, <2>2, <3>1, <3>2 DEF NeverStuck
  <2>. QED BY <2>3, <2>4
<1>. QED BY <1>1, <1>2, <1>3, PTL DEF Spec

-----------------------------------------------------------------------------
(* The sequential machine.                                                 *)

Machines ==
    [pc : Int, result : Nat, irs : Nat, addr : [1 .. 2 -> Nat], mem : [Local -> Nat], ext : [External -> Nat],
     loop : Nat, part : Nat \ {0}, acc : Nat, lock : BOOLEAN, last : Nat, fresh : BOOLEAN]

\* What every step does.
Begun(s, i) == [s EXCEPT !.pc = @ + 1, !.last = Nowhere, !.fresh = FALSE, !.part = IF i[1] = "load" THEN @ + 1 ELSE 1]

\* What every step of the machine changes, and what it leaves.
LEMMA BegunIs ==
    ASSUME NEW s \in Machines, NEW i
    PROVE  LET t == Begun(s, i)
           IN  /\ t \in Machines /\ t.pc = s.pc + 1 /\ t.last = Nowhere /\ t.fresh = FALSE
               /\ t.part = IF i[1] = "load" THEN s.part + 1 ELSE 1
               /\ t.result = s.result /\ t.irs = s.irs /\ t.addr = s.addr /\ t.mem = s.mem /\ t.ext = s.ext
               /\ t.loop = s.loop /\ t.acc = s.acc /\ t.lock = s.lock
<1>1. Nowhere \in Nat  BY MemoryAssumption, NumbersAssumption DEF Nowhere
<1>2. s.pc \in Int /\ s.part \in Nat \ {0}  BY DEF Machines
<1>3. s.pc + 1 \in Int /\ (IF i[1] = "load" THEN s.part + 1 ELSE 1) \in Nat \ {0}  BY <1>2
<1>4. Begun(s, i) \in Machines  BY <1>1, <1>2, <1>3 DEF Machines, Begun
<1>. QED BY <1>4 DEF Machines, Begun

\* An operand is a number, when the instruction may be given it.
LEMMA OperandTyped ==
    ASSUME NEW s \in Machines, NEW a \in {REG_RES, IRS, DEREF_AD0, DEREF_AD1}, NEW off \in Nat, Usable(s, a, off)
    PROVE  /\ Value(s, a, off) \in Nat
           /\ a # REG_RES => AddrOf(s, a, off) \in Nat /\ AddrOf(s, a, off) \in Local \cup External
           /\ a \in {IRS, DEREF_AD0} => AddrOf(s, a, off) \in Local
<1>. DEFINE n == AddrOf(s, a, off)
<1>1. /\ s.result \in Nat /\ s.irs \in Nat /\ s.addr \in [1 .. 2 -> Nat]
      /\ s.mem \in [Local -> Nat] /\ s.ext \in [External -> Nat]
  BY DEF Machines
<1>2. MuxAD(a) \in {0, 1}  BY DEF MuxAD, Num
<1>3. s.addr[1 + MuxAD(a)] \in Nat  BY <1>1, <1>2
<1>4. n \in Nat
  <2>1. s.irs + off \in Nat  BY <1>1
  <2>. QED BY <1>3, <2>1 DEF AddrOf
<1>5. CASE a = REG_RES
  BY <1>1, <1>5 DEF Value, REG_RES, IRS, DEREF_AD0, DEREF_AD1
<1>6. CASE a \in {IRS, DEREF_AD0}
  <2>1. n \in Local  BY <1>6 DEF Usable, IRS, DEREF_AD0, DEREF_AD1
  <2>2. s.mem[n] \in Nat  BY <1>1, <2>1
  <2>3. Value(s, a, off) = s.mem[n]
    BY <1>6, <2>1 DEF Value, Cell, REG_RES, IRS, DEREF_AD0, DEREF_AD1
  <2>. QED BY <1>4, <2>1, <2>2, <2>3
<1>7. CASE a = DEREF_AD1
  <2>1. n \in Local \cup External
    BY <1>1, <1>7 DEF Usable, REG_RES, IRS, DEREF_AD0, DEREF_AD1
  <2>2. (n \in Local => s.mem[n] \in Nat) /\ (n \in External => s.ext[n] \in Nat)  BY <1>1
  <2>3. Value(s, a, off) = IF n \in Local THEN s.mem[n] ELSE s.ext[n]
    BY <1>7 DEF Value, Cell, REG_RES, DEREF_AD1
  <2>. QED BY <1>4, <1>7, <2>1, <2>2, <2>3 DEF IRS, DEREF_AD0, DEREF_AD1
<1>. QED BY <1>5, <1>6, <1>7

\* What the machine does with an instruction, register by register.
Copies(i) == i[1] = "mov" /\ i[2] \in {REG_AD0, REG_AD1, REG_IRS, REG_RES}
Place(s, i) == AddrOf(s, i[2], i[4])
First(s, i) == Value(s, i[2], i[5])
Other(s, i) == Value(s, i[3], i[5])

StepsPc(s, i) ==
    CASE i[1] = "cmp" -> s.pc + 1 + Num(~Holds(i[2], s.result, Value(s, IRS, i[3])))
      [] i[1] = "goto" -> IF s.loop = 1 THEN s.pc + 1 ELSE s.pc + i[2]
      [] i[1] = "gotor" -> s.result
      [] OTHER -> s.pc + 1
StepsResult(s, i) ==
    CASE i[1] = "mov" /\ i[2] = REG_RES -> Value(s, i[3], i[4])
      [] i[1] = "op" -> IF i[4] = CMD_MAC THEN s.result
                        ELSE IF i[4] = CMD_MAC_RES THEN s.acc ELSE Calc(i[4], First(s, i), Other(s, i))
      [] i[1] = "load" -> (IF s.part = 1 THEN 0 ELSE s.result) + i[2] * Weight(s.part)
      [] i[1] = "unary" -> IF i[2] = UNARY_NEG THEN Negated(s.result)
                           ELSE IF i[2] = UNARY_TRUNC THEN Truncated(s.result) ELSE Calc(CMD_LOG2, s.result, 0)
      [] OTHER -> s.result
StepsSum(s, i) ==
    IF i[1] = "op" /\ i[4] = CMD_MAC THEN (s.acc + First(s, i) * Other(s, i)) % Mod
    ELSE IF i[1] = "op" /\ i[4] = CMD_MAC_RES THEN 0 ELSE s.acc
StepsLoop(s, i) ==
    CASE i[1] = "goto" -> IF s.loop > 1 THEN s.loop - 1 ELSE 0
      [] i[1] = "loop" -> IF s.result = 0 THEN 1 ELSE s.result
      [] OTHER -> s.loop
StepsAddr(s, i, r) ==
    IF i[1] = "mov" /\ i[2] = r THEN Value(s, i[3], i[4]) ELSE s.addr[1 + r] + Num(Advances(i, r))

Steps(t, s, i) ==
    /\ t \in Machines
    /\ t.pc = StepsPc(s, i) /\ t.result = StepsResult(s, i) /\ t.acc = StepsSum(s, i) /\ t.loop = StepsLoop(s, i)
    /\ t.irs = IF i[1] = "mov" /\ i[2] = REG_IRS THEN Value(s, i[3], i[4]) ELSE s.irs
    /\ t.addr[1] = StepsAddr(s, i, 0) /\ t.addr[2] = StepsAddr(s, i, 1)
    /\ t.lock <=> IF i[1] = "signal" /\ i[2] \in {BUS_LOCK, BUS_UNLOCK} THEN i[2] = BUS_LOCK ELSE s.lock
    /\ t.part = IF i[1] = "load" THEN s.part + 1 ELSE 1
    /\ t.fresh <=> i[1] = "loop"
    /\ t.mem = IF Stores(i) /\ Place(s, i) \in Local THEN [s.mem EXCEPT ![Place(s, i)] = s.result] ELSE s.mem
    /\ t.ext = IF Stores(i) /\ Place(s, i) \notin Local THEN [s.ext EXCEPT ![Place(s, i)] = s.result] ELSE s.ext
    /\ t.last = IF Stores(i) /\ Place(s, i) \in Local THEN Place(s, i) ELSE Nowhere

\* What a step does not care about of its beginning.
LEMMA BegunSame ==
    ASSUME NEW s \in Machines, NEW i, NEW a, NEW off
    PROVE  /\ AddrOf(Begun(s, i), a, off) = AddrOf(s, a, off)
           /\ Value(Begun(s, i), a, off) = Value(s, a, off)
<1>. DEFINE b == Begun(s, i)
<1>1. b.irs = s.irs /\ b.addr = s.addr /\ b.mem = s.mem /\ b.ext = s.ext /\ b.result = s.result
  BY BegunIs
<1>. HIDE DEF b
<1>2. AddrOf(b, a, off) = AddrOf(s, a, off)  BY <1>1 DEF AddrOf
<1>3. Value(b, a, off) = Value(s, a, off)  BY <1>1, <1>2 DEF Value, Cell
<1>. QED BY <1>2, <1>3 DEF b

\* No instruction increments a register but those that go through a register.
LEMMA IncrementsTyped ==
    ASSUME NEW i, NEW addr \in [1 .. 2 -> Nat]
    PROVE  /\ Incremented(addr, i) \in [1 .. 2 -> Nat]
           /\ Incremented(addr, i)[1] = addr[1] + Num(Advances(i, 0))
           /\ Incremented(addr, i)[2] = addr[2] + Num(Advances(i, 1))
<1>1. Num(Advances(i, 0)) \in Nat /\ Num(Advances(i, 1)) \in Nat  BY DEF Num
<1>. DEFINE step(r) == Num(Advances(i, r - 1))
<1>2. step(1) \in Nat /\ step(2) \in Nat /\ step(1) = Num(Advances(i, 0)) /\ step(2) = Num(Advances(i, 1))
  <2>1. 1 - 1 = 0 /\ 2 - 1 = 1  OBVIOUS
  <2>. QED BY <1>1, <2>1
<1>. HIDE DEF step
<1>3. Incremented(addr, i) = [r \in 1 .. 2 |-> addr[r] + step(r)]  BY DEF Incremented, step
<1>. QED BY <1>2, <1>3

\* A move to memory.
LEMMA StepsStore ==
    ASSUME NEW s \in Machines, NEW i, NEW t, t = IsaStep(s, i), Defined(s, i),
           IsStore(i), i[4] \in Nat
    PROVE  Steps(t, s, i)
<1>. DEFINE b == Begun(s, i)
            n == Place(s, i)
<1>1. i[1] = "mov" /\ i[2] \in {IRS, DEREF_AD0, DEREF_AD1} /\ i[3] = REG_RES  BY DEF IsStore
<1>2. Usable(s, i[2], i[4])  BY <1>1 DEF Defined
<1>3. n \in Local \cup External
  BY <1>1, <1>2, OperandTyped DEF IRS, DEREF_AD0, DEREF_AD1, REG_RES, Place
<1>4. /\ b \in Machines /\ b.pc = s.pc + 1 /\ b.last = Nowhere /\ b.fresh = FALSE /\ b.part = 1
      /\ b.result = s.result /\ b.irs = s.irs /\ b.addr = s.addr /\ b.mem = s.mem /\ b.ext = s.ext
      /\ b.loop = s.loop /\ b.acc = s.acc /\ b.lock = s.lock
  BY <1>1, BegunIs
<1>5. t = [Moved(b, i) EXCEPT !.addr = Incremented(@, i)]  BY <1>1 DEF IsaStep, Begun
<1>6. Moved(b, i) = Stored(b, i)
  BY <1>1 DEF Moved, IRS, DEREF_AD0, DEREF_AD1, REG_RES, REG_IRS, REG_AD0, REG_AD1
<1>7. AddrOf(b, i[2], i[4]) = n  BY BegunSame DEF Place
<1>. HIDE DEF b, n
<1>8. Stored(b, i) = IF n \in Local THEN [b EXCEPT !.mem[n] = b.result, !.last = n]
                     ELSE [b EXCEPT !.ext[n] = b.result]
  BY <1>7 DEF Stored
<1>9. /\ Incremented(s.addr, i) \in [1 .. 2 -> Nat]
      /\ Incremented(s.addr, i)[1] = s.addr[1] + Num(Advances(i, 0))
      /\ Incremented(s.addr, i)[2] = s.addr[2] + Num(Advances(i, 1))
  BY IncrementsTyped DEF Machines
<1>10. Stores(i) /\ i[2] \notin {REG_AD0, REG_AD1, REG_IRS, REG_RES} /\ i[2] # 0 /\ i[2] # 1
  BY <1>1 DEF Stores, IRS, DEREF_AD0, DEREF_AD1, REG_RES, REG_IRS, REG_AD0, REG_AD1
<1>11. CASE n \in Local
  <2>1. n \in Nat  BY <1>11, MemoryAssumption DEF Local
  <2>2. [b.mem EXCEPT ![n] = b.result] \in [Local -> Nat]  BY <1>4 DEF Machines
  <2>3. t = [b EXCEPT !.mem = [b.mem EXCEPT ![n] = b.result], !.last = n, !.addr = Incremented(s.addr, i)]
    <3>. DEFINE c == [b EXCEPT !.mem = [b.mem EXCEPT ![n] = b.result], !.last = n]
    <3>1. Stored(b, i) = c  BY <1>4, <1>8, <1>11 DEF Machines
    <3>2. c.addr = s.addr  BY <1>4 DEF Machines
    <3>3. t = [c EXCEPT !.addr = Incremented(c.addr, i)]  BY <1>5, <1>6, <3>1
    <3>. QED BY <1>4, <3>2, <3>3 DEF Machines
  <2>4. t \in Machines  BY <1>4, <1>9, <2>1, <2>2, <2>3 DEF Machines
  <2>5. /\ t.pc = b.pc /\ t.result = b.result /\ t.irs = b.irs /\ t.addr = Incremented(s.addr, i)
        /\ t.mem = [b.mem EXCEPT ![n] = b.result] /\ t.ext = b.ext /\ t.loop = b.loop /\ t.part = b.part
        /\ t.acc = b.acc /\ t.lock = b.lock /\ t.last = n /\ t.fresh = b.fresh
    BY <1>4, <2>3 DEF Machines
  <2>6. t.pc = StepsPc(s, i) /\ t.result = StepsResult(s, i) /\ t.acc = StepsSum(s, i) /\ t.loop = StepsLoop(s, i)
    BY <1>1, <1>4, <1>10, <2>5 DEF StepsPc, StepsResult, StepsSum, StepsLoop
  <2>7. t.addr[1] = StepsAddr(s, i, 0) /\ t.addr[2] = StepsAddr(s, i, 1)
    BY <1>9, <1>10, <2>5 DEF StepsAddr
  <2>8. (t.lock <=> s.lock) /\ ~t.fresh  BY <1>4, <2>5
  <2>. QED BY <1>1, <1>4, <1>10, <1>11, <2>4, <2>5, <2>6, <2>7, <2>8 DEF Steps, n
<1>12. CASE n \notin Local
  <2>1. [b.ext EXCEPT ![n] = b.result] \in [External -> Nat]  BY <1>4 DEF Machines
  <2>3. t = [b EXCEPT !.ext = [b.ext EXCEPT ![n] = b.result], !.addr = Incremented(s.addr, i)]
    <3>. DEFINE c == [b EXCEPT !.ext = [b.ext EXCEPT ![n] = b.result]]
    <3>1. Stored(b, i) = c  BY <1>4, <1>8, <1>12 DEF Machines
    <3>2. c.addr = s.addr  BY <1>4 DEF Machines
    <3>3. t = [c EXCEPT !.addr = Incremented(c.addr, i)]  BY <1>5, <1>6, <3>1
    <3>. QED BY <1>4, <3>2, <3>3 DEF Machines
  <2>4. t \in Machines  BY <1>4, <1>9, <2>1, <2>3 DEF Machines
  <2>5. /\ t.pc = b.pc /\ t.result = b.result /\ t.irs = b.irs /\ t.addr = Incremented(s.addr, i)
        /\ t.mem = b.mem /\ t.ext = [b.ext EXCEPT ![n] = b.result] /\ t.loop = b.loop /\ t.part = b.part
        /\ t.acc = b.acc /\ t.lock = b.lock /\ t.last = b.last /\ t.fresh = b.fresh
    BY <1>4, <2>3 DEF Machines
  <2>6. t.pc = StepsPc(s, i) /\ t.result = StepsResult(s, i) /\ t.acc = StepsSum(s, i) /\ t.loop = StepsLoop(s, i)
    BY <1>1, <1>4, <1>10, <2>5 DEF StepsPc, StepsResult, StepsSum, StepsLoop
  <2>7. t.addr[1] = StepsAddr(s, i, 0) /\ t.addr[2] = StepsAddr(s, i, 1)
    BY <1>9, <1>10, <2>5 DEF StepsAddr
  <2>8. (t.lock <=> s.lock) /\ ~t.fresh  BY <1>4, <2>5
  <2>. QED BY <1>1, <1>4, <1>10, <1>12, <2>4, <2>5, <2>6, <2>7, <2>8 DEF Steps, n
<1>. QED BY <1>11, <1>12

\* A move to a register.
LEMMA StepsWrite ==
    ASSUME NEW s \in Machines, NEW i, NEW t, t = IsaStep(s, i), Defined(s, i),
           IsWrite(i), i[4] \in Nat
    PROVE  Steps(t, s, i)
<1>. DEFINE b == Begun(s, i)
            v == Value(s, i[3], i[4])
            c == Moved(b, i)
<1>1. /\ i[1] = "mov" /\ i[2] \in {REG_AD0, REG_AD1, REG_IRS, REG_RES} /\ i[3] \in {IRS, REG_RES, DEREF_AD0, DEREF_AD1}
      /\ Deref(i[3]) => i[2] = REG_RES
  BY DEF IsWrite
<1>2. v \in Nat
  <2>1. Usable(s, i[3], i[4])  BY <1>1 DEF Defined
  <2>. QED BY <1>1, <2>1, OperandTyped
<1>3. /\ b \in Machines /\ b.pc = s.pc + 1 /\ b.last = Nowhere /\ b.fresh = FALSE /\ b.part = 1
      /\ b.result = s.result /\ b.irs = s.irs /\ b.addr = s.addr /\ b.mem = s.mem /\ b.ext = s.ext
      /\ b.loop = s.loop /\ b.acc = s.acc /\ b.lock = s.lock
  BY <1>1, BegunIs
<1>4. t = [c EXCEPT !.addr = Incremented(c.addr, i)]  BY <1>1 DEF IsaStep, Begun
<1>5. c = CASE i[2] = REG_RES -> [b EXCEPT !.result = v] [] i[2] = REG_IRS -> [b EXCEPT !.irs = v]
            [] i[2] \in {REG_AD0, REG_AD1} -> [b EXCEPT !.addr[1 + i[2]] = v] [] OTHER -> Stored(b, i)
  <2>1. Value(b, i[3], i[4]) = v  BY BegunSame
  <2>. QED BY <2>1 DEF Moved
<1>6. ~Stores(i)  BY <1>1 DEF Stores, IRS, DEREF_AD0, DEREF_AD1, REG_RES, REG_IRS, REG_AD0, REG_AD1
<1>7. i[2] \in {REG_AD0, REG_AD1, REG_IRS} => ~Advances(i, 0) /\ ~Advances(i, 1)
  BY <1>1 DEF Advances, Selects, Deref, IRS, DEREF_AD0, DEREF_AD1, REG_RES, REG_IRS, REG_AD0, REG_AD1
<1>8. /\ \A f \in [1 .. 2 -> Nat] : /\ Incremented(f, i) \in [1 .. 2 -> Nat]
                                   /\ Incremented(f, i)[1] = f[1] + Num(Advances(i, 0))
                                   /\ Incremented(f, i)[2] = f[2] + Num(Advances(i, 1))
  BY IncrementsTyped
<1>. HIDE DEF b, v, c
<1>9. CASE i[2] = REG_RES
  <2>1. c = [b EXCEPT !.result = v]  BY <1>5, <1>9 DEF REG_RES, REG_IRS, REG_AD0, REG_AD1
  <2>2. t = [b EXCEPT !.result = v, !.addr = Incremented(s.addr, i)]
    <3>1. c.addr = s.addr  BY <1>3, <2>1 DEF Machines
    <3>. QED BY <1>3, <1>4, <2>1, <3>1 DEF Machines
  <2>3. Incremented(s.addr, i) \in [1 .. 2 -> Nat]  BY <1>8 DEF Machines
  <2>4. t \in Machines  BY <1>2, <1>3, <2>2, <2>3 DEF Machines
  <2>5. /\ t.pc = b.pc /\ t.result = v /\ t.irs = b.irs /\ t.addr = Incremented(s.addr, i)
        /\ t.mem = b.mem /\ t.ext = b.ext /\ t.loop = b.loop /\ t.part = b.part
        /\ t.acc = b.acc /\ t.lock = b.lock /\ t.last = b.last /\ t.fresh = b.fresh
    BY <1>3, <2>2 DEF Machines
  <2>6. t.pc = StepsPc(s, i) /\ t.result = StepsResult(s, i) /\ t.acc = StepsSum(s, i) /\ t.loop = StepsLoop(s, i)
    BY <1>1, <1>3, <1>9, <2>5 DEF StepsPc, StepsResult, StepsSum, StepsLoop, v
  <2>7. t.addr[1] = StepsAddr(s, i, 0) /\ t.addr[2] = StepsAddr(s, i, 1)
    <3>1. s.addr \in [1 .. 2 -> Nat]  BY DEF Machines
    <3>2. i[2] # 0 /\ i[2] # 1  BY <1>9 DEF REG_RES
    <3>. QED BY <1>8, <2>5, <3>1, <3>2 DEF StepsAddr
  <2>8. (t.lock <=> s.lock) /\ ~t.fresh /\ i[2] # REG_IRS  BY <1>3, <1>9, <2>5 DEF REG_RES, REG_IRS
  <2>. QED BY <1>1, <1>3, <1>6, <2>4, <2>5, <2>6, <2>7, <2>8 DEF Steps
<1>10. CASE i[2] = REG_IRS
  <2>1. c = [b EXCEPT !.irs = v]  BY <1>5, <1>10 DEF REG_RES, REG_IRS, REG_AD0, REG_AD1
  <2>2. t = [b EXCEPT !.irs = v, !.addr = Incremented(s.addr, i)]
    <3>1. c.addr = s.addr  BY <1>3, <2>1 DEF Machines
    <3>. QED BY <1>3, <1>4, <2>1, <3>1 DEF Machines
  <2>3. Incremented(s.addr, i) \in [1 .. 2 -> Nat]  BY <1>8 DEF Machines
  <2>4. t \in Machines  BY <1>2, <1>3, <2>2, <2>3 DEF Machines
  <2>5. /\ t.pc = b.pc /\ t.result = b.result /\ t.irs = v /\ t.addr = Incremented(s.addr, i)
        /\ t.mem = b.mem /\ t.ext = b.ext /\ t.loop = b.loop /\ t.part = b.part
        /\ t.acc = b.acc /\ t.lock = b.lock /\ t.last = b.last /\ t.fresh = b.fresh
    BY <1>3, <2>2 DEF Machines
  <2>6. t.pc = StepsPc(s, i) /\ t.result = StepsResult(s, i) /\ t.acc = StepsSum(s, i) /\ t.loop = StepsLoop(s, i)
    BY <1>1, <1>3, <1>10, <2>5 DEF StepsPc, StepsResult, StepsSum, StepsLoop, REG_RES, REG_IRS
  <2>7. t.addr[1] = StepsAddr(s, i, 0) /\ t.addr[2] = StepsAddr(s, i, 1)
    <3>1. s.addr \in [1 .. 2 -> Nat]  BY DEF Machines
    <3>2. i[2] # 0 /\ i[2] # 1  BY <1>10 DEF REG_IRS
    <3>. QED BY <1>8, <2>5, <3>1, <3>2 DEF StepsAddr
  <2>8. (t.lock <=> s.lock) /\ ~t.fresh  BY <1>3, <2>5
  <2>. QED BY <1>1, <1>3, <1>6, <1>10, <2>4, <2>5, <2>6, <2>7, <2>8 DEF Steps, v
<1>11. CASE i[2] \in {REG_AD0, REG_AD1}
  <2>. DEFINE f == [s.addr EXCEPT ![1 + i[2]] = v]
  <2>1. c = [b EXCEPT !.addr = f]
    <3>1. c = [b EXCEPT !.addr[1 + i[2]] = v]  BY <1>5, <1>11 DEF REG_RES, REG_IRS, REG_AD0, REG_AD1
    <3>. QED BY <1>3, <3>1 DEF Machines
  <2>2. i[2] \in {0, 1}  BY <1>11 DEF REG_AD0, REG_AD1
  <2>3. /\ s.addr \in [1 .. 2 -> Nat] /\ f \in [1 .. 2 -> Nat]
        /\ f[1] = (IF i[2] = 0 THEN v ELSE s.addr[1]) /\ f[2] = (IF i[2] = 1 THEN v ELSE s.addr[2])
    BY <1>2, <2>2 DEF Machines
  <2>. HIDE DEF f
  <2>4. t = [b EXCEPT !.addr = Incremented(f, i)]
    <3>1. c.addr = f  BY <1>3, <2>1 DEF Machines
    <3>. QED BY <1>3, <1>4, <2>1, <3>1 DEF Machines
  <2>5. /\ Incremented(f, i) \in [1 .. 2 -> Nat]
        /\ Incremented(f, i)[1] = f[1] /\ Incremented(f, i)[2] = f[2]
    <3>1. Num(Advances(i, 0)) = 0 /\ Num(Advances(i, 1)) = 0  BY <1>7, <1>11 DEF Num
    <3>2. f[1] \in Nat /\ f[2] \in Nat  BY <2>3
    <3>. QED BY <1>8, <2>3, <3>1, <3>2
  <2>6. t \in Machines  BY <1>3, <2>4, <2>5 DEF Machines
  <2>7. /\ t.pc = b.pc /\ t.result = b.result /\ t.irs = b.irs /\ t.addr = Incremented(f, i)
        /\ t.mem = b.mem /\ t.ext = b.ext /\ t.loop = b.loop /\ t.part = b.part
        /\ t.acc = b.acc /\ t.lock = b.lock /\ t.last = b.last /\ t.fresh = b.fresh
    BY <1>3, <2>4 DEF Machines
  <2>8. i[2] # REG_RES /\ i[2] # REG_IRS  BY <1>11 DEF REG_RES, REG_IRS, REG_AD0, REG_AD1
  <2>9. t.pc = StepsPc(s, i) /\ t.result = StepsResult(s, i) /\ t.acc = StepsSum(s, i) /\ t.loop = StepsLoop(s, i)
    BY <1>1, <1>3, <2>7, <2>8 DEF StepsPc, StepsResult, StepsSum, StepsLoop
  <2>10. t.addr[1] = StepsAddr(s, i, 0) /\ t.addr[2] = StepsAddr(s, i, 1)
    <3>1. Num(Advances(i, 0)) = 0 /\ Num(Advances(i, 1)) = 0  BY <1>7, <1>11 DEF Num
    <3>. QED BY <1>1, <2>3, <2>5, <2>7, <3>1 DEF StepsAddr, v
  <2>11. (t.lock <=> s.lock) /\ ~t.fresh  BY <1>3, <2>7
  <2>. QED BY <1>1, <1>3, <1>6, <2>6, <2>7, <2>8, <2>9, <2>10, <2>11 DEF Steps
<1>. QED BY <1>1, <1>9, <1>10, <1>11

\* A remainder is a number.
LEMMA Remainder == ASSUME NEW n \in Int, NEW m \in Nat \ {0} PROVE n % m \in Nat
OBVIOUS

\* What the unit computes is a number.
LEMMA CalcTyped == ASSUME NEW cmd, NEW p \in Nat, NEW q \in Nat PROVE Calc(cmd, p, q) \in Nat
<1>1. Mod \in Nat \ {0}  BY NumbersAssumption
<1>2. /\ p + q \in Int /\ p + Mod - q \in Int /\ p * q \in Int /\ p + 2 * q + 1 \in Int
      /\ 2 * p + 1 \in Int /\ 2 * p + q \in Int
  BY <1>1
<1>3. /\ (p + q) % Mod \in Nat /\ (p + Mod - q) % Mod \in Nat /\ (p * q) % Mod \in Nat
      /\ (p + 2 * q + 1) % Mod \in Nat /\ (2 * p + 1) % Mod \in Nat /\ (2 * p + q) % Mod \in Nat
  BY <1>1, <1>2, Remainder

<1>. QED BY <1>3 DEF Calc

\* A calculation: the sum of the multiply-accumulate unit, or the result.
LEMMA StepsCalculation ==
    ASSUME NEW s \in Machines, NEW i, NEW t, t = IsaStep(s, i), Defined(s, i), IsCalculation(i)
    PROVE  Steps(t, s, i) /\ First(s, i) \in Nat /\ Other(s, i) \in Nat
<1>. DEFINE b == Begun(s, i)
            p == First(s, i)
            q == Other(s, i)
            c == [b EXCEPT !.addr = Incremented(@, i)]
<1>1. /\ i[1] = "op" /\ i[2] \in {REG_RES, DEREF_AD0} /\ i[3] \in {IRS, REG_RES, DEREF_AD0, DEREF_AD1}
      /\ i[5] \in Nat
  BY DEF IsCalculation
<1>2. p \in Nat /\ q \in Nat
  <2>1. Usable(s, i[2], i[5]) /\ Usable(s, i[3], i[5])  BY <1>1 DEF Defined
  <2>2. p \in Nat  BY <1>1, <2>1, OperandTyped DEF First
  <2>3. q \in Nat  BY <1>1, <2>1, OperandTyped DEF Other
  <2>. QED BY <2>2, <2>3
<1>3. /\ b \in Machines /\ b.pc = s.pc + 1 /\ b.last = Nowhere /\ b.fresh = FALSE /\ b.part = 1
      /\ b.result = s.result /\ b.irs = s.irs /\ b.addr = s.addr /\ b.mem = s.mem /\ b.ext = s.ext
      /\ b.loop = s.loop /\ b.acc = s.acc /\ b.lock = s.lock
  BY <1>1, BegunIs
<1>4. t = CASE i[4] = CMD_MAC -> [c EXCEPT !.acc = (@ + p * q) % Mod]
            [] i[4] = CMD_MAC_RES -> [c EXCEPT !.result = b.acc, !.acc = 0]
            [] OTHER -> [c EXCEPT !.result = Calc(i[4], p, q)]
  <2>1. Value(b, i[2], i[5]) = p /\ Value(b, i[3], i[5]) = q  BY BegunSame DEF First, Other
  <2>2. t = CASE i[4] = CMD_MAC -> [c EXCEPT !.acc = (@ + Value(b, i[2], i[5]) * Value(b, i[3], i[5])) % Mod]
              [] i[4] = CMD_MAC_RES -> [c EXCEPT !.result = b.acc, !.acc = 0]
              [] OTHER -> [c EXCEPT !.result = Calc(i[4], Value(b, i[2], i[5]), Value(b, i[3], i[5]))]
    BY <1>1 DEF IsaStep, Begun
  <2>. HIDE DEF b, p, q, c
  <2>. QED BY <2>1, <2>2
<1>5. /\ Incremented(s.addr, i) \in [1 .. 2 -> Nat]
      /\ Incremented(s.addr, i)[1] = s.addr[1] + Num(Advances(i, 0))
      /\ Incremented(s.addr, i)[2] = s.addr[2] + Num(Advances(i, 1))
  BY IncrementsTyped DEF Machines
<1>. HIDE DEF b
<1>6. /\ c = [b EXCEPT !.addr = Incremented(s.addr, i)]
      /\ c \in Machines /\ c.pc = b.pc /\ c.result = b.result /\ c.irs = b.irs
      /\ c.addr = Incremented(s.addr, i) /\ c.mem = b.mem /\ c.ext = b.ext /\ c.loop = b.loop /\ c.part = b.part
      /\ c.acc = b.acc /\ c.lock = b.lock /\ c.last = b.last /\ c.fresh = b.fresh
  BY <1>3, <1>5 DEF Machines
<1>. HIDE DEF c, p, q
<1>7. ~Stores(i) /\ i[1] # "mov"  BY <1>1 DEF Stores
<1>8. CMD_MAC # CMD_MAC_RES  BY DEF CMD_MAC, CMD_MAC_RES
<1>9. /\ t \in Machines /\ t.pc = c.pc /\ t.irs = c.irs
      /\ t.addr = c.addr /\ t.mem = c.mem /\ t.ext = c.ext /\ t.loop = c.loop /\ t.part = c.part
      /\ t.lock = c.lock /\ t.last = c.last /\ t.fresh = c.fresh
      /\ t.result = StepsResult(s, i) /\ t.acc = StepsSum(s, i)
  <2>1. CASE i[4] = CMD_MAC
    <3>1. t = [c EXCEPT !.acc = (s.acc + p * q) % Mod]
      <4>1. c.acc = s.acc  BY <1>3, <1>6
      <4>2. t = [c EXCEPT !.acc = (@ + p * q) % Mod]  BY <1>4, <1>8, <2>1
      <4>. QED BY <4>1, <4>2, Zenon
    <3>2. (s.acc + p * q) % Mod \in Nat
      <4>1. s.acc \in Nat /\ Mod \in Nat \ {0}  BY NumbersAssumption DEF Machines
      <4>2. p * q \in Nat  BY <1>2
      <4>3. s.acc + p * q \in Nat  BY <4>1, <4>2
      <4>. QED BY <4>1, <4>3
    <3>3. StepsResult(s, i) = s.result /\ StepsSum(s, i) = (s.acc + p * q) % Mod
      BY <1>1, <2>1 DEF StepsResult, StepsSum, p, q
    <3>4. t \in Machines  BY <1>6, <3>1, <3>2 DEF Machines
    <3>. QED BY <1>3, <1>6, <3>1, <3>3, <3>4 DEF Machines
  <2>2. CASE i[4] = CMD_MAC_RES
    <3>. DEFINE f == b.acc
    <3>1. t = [c EXCEPT !.result = f, !.acc = 0]  BY <1>4, <1>8, <2>2
    <3>2. f = s.acc /\ s.acc \in Nat  BY <1>3 DEF Machines
    <3>. HIDE DEF f
    <3>3. StepsResult(s, i) = s.acc /\ StepsSum(s, i) = 0
      BY <1>1, <1>8, <2>2 DEF StepsResult, StepsSum
    <3>4. /\ t.pc = c.pc /\ t.irs = c.irs /\ t.addr = c.addr /\ t.mem = c.mem /\ t.ext = c.ext
          /\ t.loop = c.loop /\ t.part = c.part /\ t.lock = c.lock /\ t.last = c.last /\ t.fresh = c.fresh
          /\ t.result = s.acc /\ t.acc = 0
      BY <1>6, <3>1, <3>2 DEF Machines
    <3>5. t \in Machines
      <4>. DEFINE u == [c EXCEPT !.result = s.acc]
      <4>1. u \in Machines  BY <1>6, <3>2 DEF Machines
      <4>2. t = [u EXCEPT !.acc = 0]  BY <3>1, <3>2
      <4>. HIDE DEF u
      <4>3. 0 \in Nat  OBVIOUS
      <4>. QED BY <4>1, <4>2, <4>3 DEF Machines
    <3>. QED BY <3>3, <3>4, <3>5
  <2>3. CASE i[4] # CMD_MAC /\ i[4] # CMD_MAC_RES
    <3>1. t = [c EXCEPT !.result = Calc(i[4], p, q)]  BY <1>4, <2>3
    <3>2. Calc(i[4], p, q) \in Nat  BY <1>2, CalcTyped
    <3>3. StepsResult(s, i) = Calc(i[4], p, q) /\ StepsSum(s, i) = s.acc
      BY <1>1, <2>3 DEF StepsResult, StepsSum, p, q
    <3>4. t \in Machines  BY <1>6, <3>1, <3>2 DEF Machines
    <3>. QED BY <1>3, <1>6, <3>1, <3>3, <3>4 DEF Machines
  <2>. QED BY <2>1, <2>2, <2>3
<1>10. t.pc = StepsPc(s, i) /\ t.loop = StepsLoop(s, i)
  BY <1>1, <1>3, <1>6, <1>9 DEF StepsPc, StepsLoop
<1>11. t.addr[1] = StepsAddr(s, i, 0) /\ t.addr[2] = StepsAddr(s, i, 1)
  BY <1>5, <1>6, <1>7, <1>9 DEF StepsAddr
<1>12. (t.lock <=> s.lock) /\ ~t.fresh  BY <1>3, <1>6, <1>9
<1>. QED BY <1>1, <1>2, <1>3, <1>6, <1>7, <1>9, <1>10, <1>11, <1>12 DEF Steps, p, q

\* What is left of a step that neither moves nor calculates.
LEMMA StepsElse ==
    ASSUME NEW s \in Machines, NEW i, i[1] \notin {"mov", "op"}, NEW t \in Machines,
           t.irs = s.irs, t.addr = s.addr, t.mem = s.mem, t.ext = s.ext, t.acc = s.acc, t.last = Nowhere,
           t.part = IF i[1] = "load" THEN s.part + 1 ELSE 1,
           t.pc = StepsPc(s, i), t.result = StepsResult(s, i), t.loop = StepsLoop(s, i),
           t.lock <=> IF i[1] = "signal" /\ i[2] \in {BUS_LOCK, BUS_UNLOCK} THEN i[2] = BUS_LOCK ELSE s.lock,
           t.fresh <=> i[1] = "loop"
    PROVE  Steps(t, s, i)
<1>1. ~Stores(i)  BY DEF Stores
<1>2. ~Advances(i, 0) /\ ~Advances(i, 1)  BY DEF Advances
<1>3. s.addr \in [1 .. 2 -> Nat]  BY DEF Machines
<1>4. t.addr[1] = StepsAddr(s, i, 0) /\ t.addr[2] = StepsAddr(s, i, 1)  BY <1>2, <1>3 DEF StepsAddr, Num
<1>5. t.acc = StepsSum(s, i)  BY DEF StepsSum
<1>. QED BY <1>1, <1>4, <1>5 DEF Steps

\* A comparison skips an instruction or does not.
LEMMA StepsCompare ==
    ASSUME NEW s \in Machines, NEW i, NEW t, t = IsaStep(s, i), Defined(s, i), i[1] = "cmp", i[3] \in Nat
    PROVE  Steps(t, s, i)
<1>. DEFINE b == Begun(s, i)
            v == Value(s, IRS, i[3])
<1>1. /\ b \in Machines /\ b.pc = s.pc + 1 /\ b.last = Nowhere /\ b.fresh = FALSE /\ b.part = 1
      /\ b.result = s.result /\ b.irs = s.irs /\ b.addr = s.addr /\ b.mem = s.mem /\ b.ext = s.ext
      /\ b.loop = s.loop /\ b.acc = s.acc /\ b.lock = s.lock
  BY BegunIs
<1>2. t = IF Holds(i[2], b.result, v) THEN b ELSE [b EXCEPT !.pc = @ + 1]
  <2>1. Value(b, IRS, i[3]) = v  BY BegunSame
  <2>2. t = IF Holds(i[2], b.result, Value(b, IRS, i[3])) THEN b ELSE [b EXCEPT !.pc = @ + 1]
    BY DEF IsaStep, Begun
  <2>. HIDE DEF b, v
  <2>. QED BY <2>1, <2>2
<1>3. StepsPc(s, i) = IF Holds(i[2], s.result, v) THEN s.pc + 1 ELSE s.pc + 1 + 1
  <2>1. s.pc \in Int  BY DEF Machines
  <2>2. StepsPc(s, i) = s.pc + 1 + Num(~Holds(i[2], s.result, v))  BY DEF StepsPc
  <2>. HIDE DEF v
  <2>. QED BY <2>1, <2>2 DEF Num
<1>4. s.pc \in Int  BY DEF Machines
<1>. HIDE DEF b, v
<1>5. /\ t \in Machines /\ t.pc = StepsPc(s, i) /\ t.irs = b.irs /\ t.addr = b.addr /\ t.mem = b.mem
      /\ t.ext = b.ext /\ t.acc = b.acc /\ t.last = b.last /\ t.part = b.part /\ t.result = b.result
      /\ t.loop = b.loop /\ t.lock = b.lock /\ t.fresh = b.fresh
  <2>1. CASE Holds(i[2], s.result, v)
    <3>1. t = b  BY <1>1, <1>2, <2>1
    <3>. QED BY <1>1, <1>3, <2>1, <3>1
  <2>2. CASE ~Holds(i[2], s.result, v)
    <3>1. t = [b EXCEPT !.pc = s.pc + 1 + 1]  BY <1>1, <1>2, <2>2
    <3>2. s.pc + 1 + 1 \in Int  BY <1>4
    <3>3. t \in Machines  BY <1>1, <3>1, <3>2 DEF Machines
    <3>. QED BY <1>1, <1>3, <2>2, <3>1, <3>3 DEF Machines
  <2>. QED BY <2>1, <2>2
<1>6. t.result = StepsResult(s, i) /\ t.loop = StepsLoop(s, i)
  BY <1>1, <1>5 DEF StepsResult, StepsLoop
<1>7. (t.lock <=> s.lock) /\ ~t.fresh  BY <1>1, <1>5
<1>. QED BY <1>1, <1>5, <1>6, <1>7, StepsElse

\* A goto goes on at its target, or closes the loop that has no more rounds.
LEMMA StepsGoto ==
    ASSUME NEW s \in Machines, NEW i, NEW t, t = IsaStep(s, i), i[1] = "goto", i[2] \in Int
    PROVE  Steps(t, s, i)
<1>. DEFINE b == Begun(s, i)
<1>1. /\ b \in Machines /\ b.pc = s.pc + 1 /\ b.last = Nowhere /\ b.fresh = FALSE /\ b.part = 1
      /\ b.result = s.result /\ b.irs = s.irs /\ b.addr = s.addr /\ b.mem = s.mem /\ b.ext = s.ext
      /\ b.loop = s.loop /\ b.acc = s.acc /\ b.lock = s.lock
  BY BegunIs
<1>2. t = CASE b.loop > 1 -> [b EXCEPT !.pc = s.pc + i[2], !.loop = @ - 1]
            [] b.loop = 1 -> [b EXCEPT !.loop = 0]
            [] OTHER      -> [b EXCEPT !.pc = s.pc + i[2]]
  BY DEF IsaStep, Begun
<1>3. s.pc \in Int /\ s.loop \in Nat /\ s.pc + i[2] \in Int  BY DEF Machines
<1>. HIDE DEF b
<1>4. /\ t \in Machines /\ t.irs = b.irs /\ t.addr = b.addr /\ t.mem = b.mem
      /\ t.ext = b.ext /\ t.acc = b.acc /\ t.last = b.last /\ t.part = b.part /\ t.result = b.result
      /\ t.lock = b.lock /\ t.fresh = b.fresh
      /\ t.pc = (IF s.loop = 1 THEN s.pc + 1 ELSE s.pc + i[2])
      /\ t.loop = IF s.loop > 1 THEN s.loop - 1 ELSE 0
  <2>1. CASE s.loop > 1
    <3>1. t = [b EXCEPT !.pc = s.pc + i[2], !.loop = s.loop - 1]  BY <1>1, <1>2, <1>3, <2>1
    <3>2. s.loop - 1 \in Nat  BY <1>3, <2>1
    <3>3. t \in Machines  BY <1>1, <1>3, <3>1, <3>2 DEF Machines
    <3>. QED BY <1>1, <1>3, <2>1, <3>1, <3>3 DEF Machines
  <2>2. CASE s.loop = 1
    <3>1. t = [b EXCEPT !.loop = 0]  BY <1>1, <1>2, <1>3, <2>2
    <3>2. 0 \in Nat  OBVIOUS
    <3>3. t \in Machines  BY <1>1, <3>1, <3>2 DEF Machines
    <3>. QED BY <1>1, <1>3, <2>2, <3>1, <3>3 DEF Machines
  <2>3. CASE s.loop = 0
    <3>1. t = [b EXCEPT !.pc = s.pc + i[2]]  BY <1>1, <1>2, <1>3, <2>3
    <3>2. t \in Machines  BY <1>1, <1>3, <3>1 DEF Machines
    <3>. QED BY <1>1, <1>3, <2>3, <3>1, <3>2 DEF Machines
  <2>. QED BY <1>3, <2>1, <2>2, <2>3
<1>5. t.pc = StepsPc(s, i) /\ t.result = StepsResult(s, i) /\ t.loop = StepsLoop(s, i)
  BY <1>1, <1>4 DEF StepsPc, StepsResult, StepsLoop
<1>6. (t.lock <=> s.lock) /\ ~t.fresh  BY <1>1, <1>4
<1>. QED BY <1>1, <1>4, <1>5, <1>6, StepsElse

\* A fragment is added to those before it.
LEMMA StepsLoad ==
    ASSUME NEW s \in Machines, NEW i, NEW t, t = IsaStep(s, i), i[1] = "load", i[2] \in Nat
    PROVE  Steps(t, s, i)
<1>. DEFINE b == Begun(s, i)
            r == (IF s.part = 1 THEN 0 ELSE s.result) + i[2] * Weight(s.part)
<1>1. /\ b \in Machines /\ b.pc = s.pc + 1 /\ b.last = Nowhere /\ b.fresh = FALSE /\ b.part = s.part + 1
      /\ b.result = s.result /\ b.irs = s.irs /\ b.addr = s.addr /\ b.mem = s.mem /\ b.ext = s.ext
      /\ b.loop = s.loop /\ b.acc = s.acc /\ b.lock = s.lock
  BY BegunIs
<1>2. t = [b EXCEPT !.result = (IF s.part = 1 THEN 0 ELSE b.result) + i[2] * Weight(s.part)]
  BY DEF IsaStep, Begun
<1>3. r \in Nat
  <2>1. Weight(s.part) \in Nat
    <3>1. LoadBase \in Nat /\ LoadBase * LoadBase \in Nat  BY MemoryAssumption, NumbersAssumption
    <3>. QED BY <3>1 DEF Weight
  <2>2. i[2] * Weight(s.part) \in Nat  BY <2>1
  <2>. HIDE DEF Weight
  <2>3. (IF s.part = 1 THEN 0 ELSE s.result) \in Nat  BY DEF Machines
  <2>. QED BY <2>2, <2>3
<1>. HIDE DEF b
<1>4. t = [b EXCEPT !.result = r]  BY <1>1, <1>2
<1>5. StepsResult(s, i) = r  BY DEF StepsResult
<1>. HIDE DEF r
<1>6. t \in Machines  BY <1>1, <1>3, <1>4 DEF Machines
<1>7. /\ t.irs = b.irs /\ t.addr = b.addr /\ t.mem = b.mem /\ t.ext = b.ext /\ t.acc = b.acc
      /\ t.last = b.last /\ t.part = b.part /\ t.pc = b.pc /\ t.result = r /\ t.loop = b.loop
      /\ t.lock = b.lock /\ t.fresh = b.fresh
  BY <1>1, <1>4 DEF Machines
<1>8. t.pc = StepsPc(s, i) /\ t.loop = StepsLoop(s, i)  BY <1>1, <1>7 DEF StepsPc, StepsLoop
<1>9. (t.lock <=> s.lock) /\ ~t.fresh  BY <1>1, <1>7
<1>. QED BY <1>1, <1>5, <1>6, <1>7, <1>8, <1>9, StepsElse

\* What is done to the result alone.
LEMMA StepsUnary ==
    ASSUME NEW s \in Machines, NEW i, NEW t, t = IsaStep(s, i), i[1] = "unary",
           i[2] \in {UNARY_NEG, UNARY_LOG2, UNARY_TRUNC}
    PROVE  Steps(t, s, i)
<1>. DEFINE b == Begun(s, i)
            r == IF i[2] = UNARY_NEG THEN Negated(s.result)
                 ELSE IF i[2] = UNARY_TRUNC THEN Truncated(s.result) ELSE Calc(CMD_LOG2, s.result, 0)
<1>1. /\ b \in Machines /\ b.pc = s.pc + 1 /\ b.last = Nowhere /\ b.fresh = FALSE /\ b.part = 1
      /\ b.result = s.result /\ b.irs = s.irs /\ b.addr = s.addr /\ b.mem = s.mem /\ b.ext = s.ext
      /\ b.loop = s.loop /\ b.acc = s.acc /\ b.lock = s.lock
  BY BegunIs
<1>2. t = [b EXCEPT !.result = CASE i[2] = UNARY_NEG -> Negated(b.result)
                                 [] i[2] = UNARY_TRUNC -> Truncated(b.result)
                                 [] OTHER -> Calc(CMD_LOG2, b.result, 0)]
  BY DEF IsaStep, Begun
<1>3. r \in Nat
  <2>1. s.result \in Nat  BY DEF Machines
  <2>2. Calc(CMD_LOG2, s.result, 0) \in Nat  BY <2>1, CalcTyped
  <2>3. Negated(s.result) \in Nat
    <3>1. Mod \in Nat \ {0} /\ Mod - s.result \in Int  BY <2>1, NumbersAssumption
    <3>. QED BY <3>1, Remainder DEF Negated
  <2>4. Truncated(s.result) \in Nat  BY <2>1 DEF Truncated
  <2>. QED BY <2>2, <2>3, <2>4
<1>. HIDE DEF b
<1>4. t = [b EXCEPT !.result = r]  BY <1>1, <1>2 DEF UNARY_NEG, UNARY_TRUNC
<1>5. StepsResult(s, i) = r  BY DEF StepsResult
<1>. HIDE DEF r
<1>6. t \in Machines  BY <1>1, <1>3, <1>4 DEF Machines
<1>7. /\ t.irs = b.irs /\ t.addr = b.addr /\ t.mem = b.mem /\ t.ext = b.ext /\ t.acc = b.acc
      /\ t.last = b.last /\ t.part = b.part /\ t.pc = b.pc /\ t.result = r /\ t.loop = b.loop
      /\ t.lock = b.lock /\ t.fresh = b.fresh
  BY <1>1, <1>4 DEF Machines
<1>8. t.pc = StepsPc(s, i) /\ t.loop = StepsLoop(s, i)  BY <1>1, <1>7 DEF StepsPc, StepsLoop
<1>9. (t.lock <=> s.lock) /\ ~t.fresh  BY <1>1, <1>7
<1>. QED BY <1>1, <1>5, <1>6, <1>7, <1>8, <1>9, StepsElse

\* A goto to the result, a new loop, a wait or a bus lock, and nothing.
LEMMA StepsOther ==
    ASSUME NEW s \in Machines, NEW i, NEW t, t = IsaStep(s, i), i[1] \in {"gotor", "loop", "nop", "signal"}
    PROVE  Steps(t, s, i)
<1>. DEFINE b == Begun(s, i)
            sets == i[1] = "signal" /\ i[2] \in {BUS_LOCK, BUS_UNLOCK}
            n == IF s.result = 0 THEN 1 ELSE s.result
<1>1. /\ b \in Machines /\ b.pc = s.pc + 1 /\ b.last = Nowhere /\ b.fresh = FALSE /\ b.part = 1
      /\ b.result = s.result /\ b.irs = s.irs /\ b.addr = s.addr /\ b.mem = s.mem /\ b.ext = s.ext
      /\ b.loop = s.loop /\ b.acc = s.acc /\ b.lock = s.lock
  BY BegunIs
<1>2. /\ i[1] = "gotor" => t = [b EXCEPT !.pc = b.result]
      /\ i[1] = "loop" => t = [b EXCEPT !.loop = IF b.result = 0 THEN 1 ELSE b.result, !.fresh = TRUE]
      /\ sets => t = [b EXCEPT !.lock = i[2] = BUS_LOCK]
      /\ i[1] \in {"nop", "signal"} /\ ~sets => t = b
  BY DEF IsaStep, Begun
<1>3. s.result \in Nat /\ n \in Nat /\ s.lock \in BOOLEAN  BY DEF Machines
<1>. HIDE DEF b
<1>4. CASE i[1] = "gotor"
  <2>1. t = [b EXCEPT !.pc = s.result]  BY <1>1, <1>2, <1>4
  <2>2. s.result \in Int  BY <1>3
  <2>3. t \in Machines  BY <1>1, <2>1, <2>2 DEF Machines
  <2>4. /\ t.irs = b.irs /\ t.addr = b.addr /\ t.mem = b.mem /\ t.ext = b.ext /\ t.acc = b.acc
        /\ t.last = b.last /\ t.part = b.part /\ t.pc = s.result /\ t.result = b.result /\ t.loop = b.loop
        /\ t.lock = b.lock /\ t.fresh = b.fresh
    BY <1>1, <2>1 DEF Machines
  <2>5. t.pc = StepsPc(s, i) /\ t.result = StepsResult(s, i) /\ t.loop = StepsLoop(s, i)
    BY <1>1, <1>4, <2>4 DEF StepsPc, StepsResult, StepsLoop
  <2>6. (t.lock <=> s.lock) /\ ~t.fresh  BY <1>1, <2>4
  <2>. QED BY <1>1, <1>4, <2>3, <2>4, <2>5, <2>6, StepsElse
<1>5. CASE i[1] = "loop"
  <2>1. t = [b EXCEPT !.loop = n, !.fresh = TRUE]  BY <1>1, <1>2, <1>5
  <2>. HIDE DEF n
  <2>2. t \in Machines
    <3>. DEFINE u == [b EXCEPT !.loop = n]
    <3>1. u \in Machines  BY <1>1, <1>3 DEF Machines
    <3>2. t = [u EXCEPT !.fresh = TRUE]  BY <2>1
    <3>. HIDE DEF u
    <3>3. TRUE \in BOOLEAN  OBVIOUS
    <3>. QED BY <3>1, <3>2, <3>3 DEF Machines
  <2>4. /\ t.irs = b.irs /\ t.addr = b.addr /\ t.mem = b.mem /\ t.ext = b.ext /\ t.acc = b.acc
        /\ t.last = b.last /\ t.part = b.part /\ t.pc = b.pc /\ t.result = b.result /\ t.loop = n
        /\ t.lock = b.lock /\ t.fresh = TRUE
    BY <1>1, <2>1 DEF Machines
  <2>5. t.pc = StepsPc(s, i) /\ t.result = StepsResult(s, i) /\ t.loop = StepsLoop(s, i)
    BY <1>1, <1>5, <2>4 DEF StepsPc, StepsResult, StepsLoop, n
  <2>6. (t.lock <=> s.lock) /\ t.fresh  BY <1>1, <2>4
  <2>. QED BY <1>1, <1>5, <2>2, <2>4, <2>5, <2>6, StepsElse
<1>6. CASE sets
  <2>1. t = [b EXCEPT !.lock = i[2] = BUS_LOCK]  BY <1>2, <1>6
  <2>2. (i[2] = BUS_LOCK) \in BOOLEAN  OBVIOUS
  <2>3. t \in Machines  BY <1>1, <2>1, <2>2 DEF Machines
  <2>4. /\ t.irs = b.irs /\ t.addr = b.addr /\ t.mem = b.mem /\ t.ext = b.ext /\ t.acc = b.acc
        /\ t.last = b.last /\ t.part = b.part /\ t.pc = b.pc /\ t.result = b.result /\ t.loop = b.loop
        /\ (t.lock <=> i[2] = BUS_LOCK) /\ t.fresh = b.fresh
    BY <1>1, <2>1 DEF Machines
  <2>5. t.pc = StepsPc(s, i) /\ t.result = StepsResult(s, i) /\ t.loop = StepsLoop(s, i)
    BY <1>1, <1>6, <2>4 DEF StepsPc, StepsResult, StepsLoop
  <2>6. ~t.fresh  BY <1>1, <2>4
  <2>. QED BY <1>1, <1>6, <2>3, <2>4, <2>5, <2>6, StepsElse
<1>7. CASE i[1] \in {"nop", "signal"} /\ ~sets
  <2>1. t = b  BY <1>2, <1>7
  <2>2. t.pc = StepsPc(s, i) /\ t.result = StepsResult(s, i) /\ t.loop = StepsLoop(s, i)
    BY <1>1, <1>7, <2>1 DEF StepsPc, StepsResult, StepsLoop
  <2>3. (t.lock <=> s.lock) /\ ~t.fresh  BY <1>1, <2>1
  <2>. QED BY <1>1, <1>7, <2>1, <2>2, <2>3, StepsElse
<1>. QED BY <1>4, <1>5, <1>6, <1>7

\* So a step does with every instruction what it says.
LEMMA StepsIs ==
    ASSUME NEW s \in Machines, NEW i \in Instructions, Defined(s, i), NEW t, t = IsaStep(s, i)
    PROVE  Steps(t, s, i)
<1>1. Kind(i)  BY Kinds
<1>. QED BY <1>1, StepsStore, StepsWrite, StepsCalculation, StepsCompare, StepsGoto, StepsLoad, StepsUnary,
   StepsOther
         DEF Kind

-----------------------------------------------------------------------------
(* The pipeline and the sequential machine.                                *)

\* EXEC has the decoding of instruction i, which stands at n; or it is empty.
Shows(i, n) ==
    /\ x.mux0 = IF FromPort0(i) THEN MUX1_MEM ELSE MUX1_RESULT
    /\ x.irsWb <=> Framed(i)
    /\ x.wrEn <=> Stores(i)
    /\ x.wbEn <=> SetsRegister(i)
    /\ SetsRegister(i) => x.wbReg = i[2]
    /\ x.load <=> i[1] = "load"
    /\ i[1] = "load" => x.loadData = i[2]
    /\ x.cmd = Commands(i)
    /\ x.cmp <=> i[1] = "cmp"
    /\ i[1] = "cmp" => x.cmpMode = i[2]
    /\ x.neg <=> i[1] = "unary" /\ i[2] = UNARY_NEG
    /\ x.trunc <=> i[1] = "unary" /\ i[2] = UNARY_TRUNC
    /\ x.goto => i[1] \in {"goto", "gotor"}
    /\ core.dec.gotoConst <=> i[1] = "goto"
    /\ i[1] = "goto" => (core.dec.jmpBack <=> i[2] < 0) /\ core.dec.jmpTarget = (n + i[2]) % 65536
    /\ core.dec.loop <=> i[1] = "loop"
    /\ core.dec.busLock <=> i[1] = "signal" /\ i[2] = BUS_LOCK
    /\ core.dec.busUnlock <=> i[1] = "signal" /\ i[2] = BUS_UNLOCK
Empty ==
    /\ ~x.wrEn /\ ~x.wbEn /\ ~x.load /\ x.cmd = CMD_MOV /\ ~x.cmp /\ ~x.neg /\ ~x.trunc /\ ~x.goto
    /\ ~core.dec.gotoConst /\ ~core.dec.loop /\ ~core.dec.busLock /\ ~core.dec.busUnlock

\* The next instruction stands in DECEX, or is still to be fetched.
InDecEx == S_DECEX \in core.en /\ core.fetch.valid
Following == IF Retiring THEN isa.pc + 1 ELSE IF core.execNext THEN isa.pc ELSE isa.pc - 1

FetchHolds ==
    core.fetch.valid => /\ InstrAt(prog, core.fetch.pc) \in Instructions
                        /\ core.fetch.data = Word(InstrAt(prog, core.fetch.pc))
ExecHolds ==
    /\ Retiring => core.dec.curPc = isa.pc /\ Current \in Instructions /\ Shows(Current, isa.pc)
    /\ Active /\ ~Retiring => Empty
SkipFits ==
    /\ Active => core.execNext
    /\ S_DECEX \notin core.en /\ core.fetch.valid => ~Active /\ core.execNext
Position ==
    isa.pc \in DOMAIN prog => /\ core.pc = Following + Num(InDecEx)
                              /\ InDecEx => core.fetch.pc = Following

\* The registers are those of the machine.  An address register is incremented one stage
\* early; a fragment that waits for its turn is counted from the first again.
LoopFits ==
    /\ core.loop = [fresh |-> core.loop.fresh, n |-> core.loop.n]
    /\ core.loop.n \in Int /\ core.loop.fresh \in BOOLEAN
    /\ isa.loop = IF core.loop.n < 0 THEN 0 ELSE IF core.loop.n = 0 /\ core.loop.fresh THEN 1 ELSE core.loop.n
AddrFits ==
    /\ core.addr = <<core.addr[1], core.addr[2]>>
    /\ \A r \in {0, 1} : core.addr[1 + r] = isa.addr[1 + r] + Num(Retiring /\ Advances(Current, r))
ValuesFit ==
    /\ isa \in Machines
    /\ core.result = isa.result /\ core.irs = isa.irs /\ core.busLock = isa.lock
    /\ core.loadState = isa.part \/ (Retiring /\ Current[1] # "load" /\ core.loadState = 1)
    /\ fpu.acc = IF Retiring /\ fpu.left > 0 /\ x.cmd = CMD_MAC_RES THEN 0 ELSE isa.acc
    /\ LoopFits /\ AddrFits

\* A write may be done before its instruction leaves EXEC, and is then done again.
Writes(i) == Retiring /\ Stores(i) /\ Defined(isa, i)
MemFits ==
    LET n == Place(isa, Current)
    IN  /\ mem = isa.mem \/ (Writes(Current) /\ n \in Local /\ mem = [isa.mem EXCEPT ![n] = isa.result])
        /\ ext = isa.ext \/ (Writes(Current) /\ n \notin Local /\ ext = [isa.ext EXCEPT ![n] = isa.result])

\* What EXEC works with: whether a goto is taken, the address of a store, the operands
\* before an operation begins and its result afterwards.
GotoFits(i) == i[1] \in {"goto", "gotor"} => (x.goto <=> ~LoopEnds)
StoreFits(i) == Stores(i) => x.wrAddr = Place(isa, i) /\ (x.wrExt <=> x.wrAddr \notin Local)
OperandsFit(i) ==
    fpu.left = 0 =>
        /\ i[1] = "op" /\ i[2] # REG_RES => OpA = First(isa, i)
        /\ i[1] = "op" /\ i[3] # REG_RES => OpB = Other(isa, i)
        /\ SetsRegister(i) /\ i[3] # REG_RES => OpB = Value(isa, i[3], i[4])
        /\ i[1] = "cmp" => OpB = Value(isa, IRS, i[3])
Outcome(i) ==
    IF i[1] = "unary" THEN Calc(CMD_LOG2, isa.result, 0)
    ELSE IF i[4] = CMD_MAC_RES THEN isa.acc ELSE Calc(i[4], First(isa, i), Other(isa, i))
OutcomeFits(i) == fpu.left > 0 => fpu.res = Outcome(i)
Working ==
    isa.pc \in DOMAIN prog /\ Retiring /\ Allowed(isa, Current) =>
        GotoFits(Current) /\ StoreFits(Current) /\ OperandsFit(Current) /\ OutcomeFits(Current)

InStep == FetchHolds /\ ExecHolds /\ SkipFits /\ Position /\ ValuesFit /\ MemFits /\ Working
InStepInv == lost = "no" => InStep

-----------------------------------------------------------------------------
(* One edge.                                                               *)

\* An edge of a core that is enabled, at which no instruction loses its effect.
Edge(ctl, stalled, ack, fetched, latency) ==
    /\ stalled \in BOOLEAN /\ ack \in BOOLEAN /\ fetched.valid \in BOOLEAN /\ latency \in Latencies
    /\ stalled <=> Request(Dec) # NoRequest /\ ~ack
    /\ fetched.pc = core.pc
    /\ ctl = Control(Dec, stalled, fetched.valid)
    /\ core' = CoreEdge(Dec, ctl, ack, fetched) /\ fpu' = FpuEdge(latency)
    /\ mem' = IF WritesLocal THEN [mem EXCEPT ![x.wrAddr % SharedAddrBase] = core.result] ELSE mem
    /\ ext' = IF WritesExternal /\ ack /\ x.wrAddr \in External THEN [ext EXCEPT ![x.wrAddr] = core.result] ELSE ext
    /\ ~HeldUp(ctl) /\ ~BehindLoop(Dec, ctl) /\ ~Unstarted

\* An instruction that is not chosen yet is none.
LEMMA UnknownIsNone == Unknown \notin Instructions /\ Nop \in Instructions
<1>1. ~Kind(Unknown)  BY DEF Unknown, Kind, IsStore, IsWrite, IsCalculation
<1>2. Nop \in Instructions  BY DEF Instructions, Nop
<1>. QED BY <1>1, <1>2, Kinds

\* The commands of the instructions.
LEMMA CommandKinds ==
    ASSUME NEW i \in Instructions
    PROVE  /\ Commands(i) \in MultiCycle <=> \/ i[1] = "op" /\ i[4] # CMD_MAC
                                             \/ i[1] = "unary" /\ i[2] = UNARY_LOG2
           /\ Commands(i) = CMD_MAC <=> i[1] = "op" /\ i[4] = CMD_MAC
           /\ Commands(i) = CMD_MAC_RES <=> i[1] = "op" /\ i[4] = CMD_MAC_RES
           /\ Commands(i) = CMD_MOV <=> i[1] \notin {"op", "cmp", "unary"}
<1>1. i[1] = "op" => i[4] \in Operations  BY Kinds DEF Kind, IsStore, IsWrite, IsCalculation
<1>2. i[1] = "unary" => i[2] \in {UNARY_NEG, UNARY_LOG2, UNARY_TRUNC}
  BY Kinds DEF Kind, IsStore, IsWrite, IsCalculation
<1>3. Commands(i) = IF i[1] = "op" THEN i[4] ELSE IF i[1] = "cmp" THEN CMD_CMP
                    ELSE IF i[1] = "unary" THEN (IF i[2] = UNARY_LOG2 THEN CMD_LOG2 ELSE CMD_INVALID)
                    ELSE CMD_MOV
  BY DEF Commands
<1>. USE DEF MultiCycle, CMD_MOV, CMD_CMP, CMD_ADD, CMD_SUB, CMD_MUL, CMD_DIV, CMD_MAC, CMD_MAC_RES,
             CMD_LOG2, CMD_SHFT,
             CMD_INVALID
<1>4. CASE i[1] = "op"  BY <1>1, <1>3, <1>4 DEF Operations
<1>5. CASE i[1] = "cmp"  BY <1>3, <1>5
<1>6. CASE i[1] = "unary"  BY <1>3, <1>6
<1>7. CASE i[1] \notin {"op", "cmp", "unary"}  BY <1>3, <1>7
<1>. QED BY <1>4, <1>5, <1>6, <1>7

\* The instruction in EXEC, as the program goes on.
LEMMA Executing ==
    ASSUME InStep, Running, Retiring, NEW i, i = Current
    PROVE  /\ i \in Instructions /\ Shows(i, isa.pc) /\ core.dec.curPc = isa.pc /\ isa.pc \in DOMAIN prog
           /\ Allowed(isa, i) /\ Defined(isa, i) /\ isa \in Machines /\ Kind(i)
           /\ GotoFits(i) /\ StoreFits(i) /\ OperandsFit(i) /\ OutcomeFits(i)
           /\ core.execNext /\ Active
<1>1. i \in Instructions /\ Shows(i, isa.pc) /\ core.dec.curPc = isa.pc  BY DEF InStep, ExecHolds
<1>2. isa.pc \in DOMAIN prog /\ Allowed(isa, i)  BY <1>1, UnknownIsNone DEF Running
<1>3. GotoFits(i) /\ StoreFits(i) /\ OperandsFit(i) /\ OutcomeFits(i)  BY <1>2 DEF InStep, Working
<1>4. core.execNext /\ Active  BY DEF InStep, SkipFits, Retiring
<1>5. isa \in Machines  BY DEF InStep, ValuesFit
<1>6. Defined(isa, i)  BY <1>2 DEF Allowed
<1>. QED BY <1>1, <1>2, <1>3, <1>4, <1>5, <1>6, Kinds

\* The unit when an instruction leaves EXEC: it has the result of its operation, or
\* there was none.
LEMMA RetiringUnit ==
    ASSUME RegistersFit, PipelineInv, InStep, Running, Retiring, NEW i, i = Current,
           NEW ctl, NEW stalled, NEW ack, NEW fetched, NEW latency, Edge(ctl, stalled, ack, fetched, latency),
           ~ctl.stallExec
    PROVE  /\ ~ExecStall(stalled) /\ fpu'.left = 0
           /\ x.cmd \in MultiCycle => fpu.left = 1
           /\ x.cmd \notin MultiCycle => fpu.left = 0
           /\ fpu'.acc = IF x.cmd = CMD_MAC THEN (fpu.acc + OpA * OpB) % Mod ELSE fpu.acc
           /\ x.cmd = CMD_MAC_RES => fpu.acc = 0
<1>1. core.en \subseteq Stages /\ fpu.left \in Nat /\ PipelineFits /\ BusyForExec
  BY DEF PipelineInv, PipelineFits
<1>2. /\ stalled \in BOOLEAN /\ fetched.valid \in BOOLEAN /\ latency \in Latencies
      /\ ctl = Control(Dec, stalled, fetched.valid)
      /\ fpu' = FpuEdge(latency) /\ ~Unstarted
  BY DEF Edge
<1>3. Active  BY DEF Retiring
<1>4. ~ExecStall(stalled)  BY <1>1, <1>2, <1>3, ControlFields
<1>5. ~Starts /\ fpu.left \in {0, 1}  BY <1>1, <1>2, <1>3, <1>4, ExecHeld
<1>6. x.cmd \in MultiCycle => fpu.left = 1
  BY <1>2, <1>3, <1>5 DEF Starts, AluEn, Unstarted
<1>7. x.cmd \notin MultiCycle => fpu.left = 0  BY <1>1, <1>5 DEF BusyForExec
<1>8. fpu'.left = 0  BY <1>1, <1>2, <1>5, UnitStep
<1>9. CMD_MAC \notin MultiCycle /\ CMD_MAC_RES \in MultiCycle
  BY DEF CMD_MAC, MultiCycle, CMD_ADD, CMD_SUB, CMD_MUL, CMD_DIV, CMD_LOG2, CMD_SHFT, CMD_MAC_RES
<1>10. x.cmd = CMD_MAC_RES => fpu.acc = 0
  BY <1>6, <1>9 DEF InStep, ValuesFit
<1>11. fpu'.acc = IF x.cmd = CMD_MAC THEN (fpu.acc + OpA * OpB) % Mod ELSE fpu.acc
  <2>1. CASE x.cmd = CMD_MAC
    <3>1. AluEn  BY <1>2, <1>3, <1>7, <1>9, <2>1 DEF AluEn, Unstarted
    <3>2. FpuEdge(latency) = [fpu EXCEPT !.acc = (@ + OpA * OpB) % Mod]  BY <2>1, <3>1, Zenon DEF FpuEdge
    <3>3. fpu = [left |-> fpu.left, res |-> fpu.res, acc |-> fpu.acc]  BY <1>1 DEF PipelineFits
    <3>. QED BY <1>2, <2>1, <3>2, <3>3
  <2>2. CASE x.cmd # CMD_MAC
    <3>1. ~(AluEn /\ x.cmd = CMD_MAC) /\ ~(AluEn /\ x.cmd = CMD_MAC_RES) /\ ~(AluEn /\ x.cmd \in MultiCycle)
      BY <1>5, <1>9, <2>2 DEF Starts
    <3>2. FpuEdge(latency) = IF fpu.left > 0 THEN [fpu EXCEPT !.left = @ - 1] ELSE fpu
      BY <3>1 DEF FpuEdge
    <3>3. fpu = [left |-> fpu.left, res |-> fpu.res, acc |-> fpu.acc]  BY <1>1 DEF PipelineFits
    <3>4. FpuEdge(latency).acc = fpu.acc  BY <3>2, <3>3
    <3>. QED BY <1>2, <2>2, <3>4
  <2>. QED BY <2>1, <2>2
<1>. QED BY <1>4, <1>6, <1>7, <1>8, <1>10, <1>11

\* The operands of an operation, and of a comparison.
LEMMA RetiringOperands ==
    ASSUME InStep, Running, Retiring, NEW i, i = Current, fpu.left = 0
    PROVE  /\ i[1] = "op" /\ i[4] # CMD_MAC_RES => OpA = First(isa, i) /\ OpB = Other(isa, i)
           /\ i[1] = "cmp" => OpA = isa.result /\ OpB = Value(isa, IRS, i[3])
           /\ i[1] \in {"unary", "gotor", "loop"} => IntResult = isa.result /\ OpA = isa.result
           /\ SetsRegister(i) => IF i[3] = REG_RES THEN IntResult = Value(isa, i[3], i[4])
                                 ELSE OpB = Value(isa, i[3], i[4]) /\ (i[3] = IRS => IntResult = OpB)
<1>1. Shows(i, isa.pc) /\ OperandsFit(i) /\ Kind(i)  BY Executing
<1>2. core.result = isa.result  BY DEF InStep, ValuesFit
<1>3. x.mux0 = (IF FromPort0(i) THEN MUX1_MEM ELSE MUX1_RESULT) /\ (x.irsWb <=> Framed(i))
  BY <1>1 DEF Shows
<1>4. ~FromPort0(i) => OpA = isa.result
  BY <1>2, <1>3 DEF OpA, OperandsOf, MUX1_MEM, MUX1_RESULT
<1>5. IntResult = IF Framed(i) THEN OpB ELSE OpA  BY <1>3 DEF IntResult
<1>6. CASE i[1] = "op"
  <2>1. IsCalculation(i)  BY <1>1, <1>6 DEF Kind, IsStore, IsWrite
  <2>2. i[2] # REG_RES => OpA = First(isa, i)  BY <1>1, <1>6 DEF OperandsFit
  <2>3. i[4] # CMD_MAC_RES => OpB = Other(isa, i)  BY <1>1, <1>6, <2>1 DEF OperandsFit, IsCalculation
  <2>4. i[2] = REG_RES => OpA = First(isa, i)
    <3>1. i[2] = REG_RES => ~FromPort0(i)
      BY <1>6 DEF FromPort0, ReadsFirst, REG_RES, DEREF_AD0
    <3>2. i[2] = REG_RES => First(isa, i) = isa.result  BY DEF First, Value
    <3>. QED BY <1>4, <3>1, <3>2
  <2>. QED BY <1>6, <2>2, <2>3, <2>4 DEF SetsRegister
<1>7. CASE i[1] = "cmp"
  <2>1. ~FromPort0(i)  BY <1>7 DEF FromPort0, ReadsFirst
  <2>. QED BY <1>1, <1>4, <1>7, <2>1 DEF OperandsFit, SetsRegister
<1>8. CASE i[1] \in {"unary", "gotor", "loop"}
  <2>1. ~FromPort0(i) /\ ~Framed(i)  BY <1>8 DEF FromPort0, ReadsFirst, Framed
  <2>. QED BY <1>4, <1>5, <1>8, <2>1 DEF SetsRegister
<1>9. CASE SetsRegister(i)
  <2>1. i[1] = "mov" /\ i[2] # IRS  BY <1>9 DEF SetsRegister, IRS, REG_AD0, REG_AD1, REG_IRS, REG_RES
  <2>2. i[3] # REG_RES => OpB = Value(isa, i[3], i[4])  BY <1>1, <1>9 DEF OperandsFit
  <2>3. i[3] = REG_RES => ~FromPort0(i) /\ ~Framed(i)
    BY <2>1 DEF FromPort0, ReadsFirst, Framed, REG_RES, IRS
  <2>4. i[3] = REG_RES => Value(isa, i[3], i[4]) = isa.result  BY DEF Value
  <2>5. i[3] = IRS => Framed(i)  BY <2>1 DEF Framed
  <2>. QED BY <1>4, <1>5, <2>1, <2>2, <2>3, <2>4, <2>5
<1>. QED BY <1>6, <1>7, <1>8, <1>9

-----------------------------------------------------------------------------
(* An instruction leaves EXEC.                                             *)

\* The result is that of the machine.
LEMMA RetiredResult ==
    ASSUME RegistersFit, PipelineInv, InStep, Running, Retiring, NEW i, i = Current,
           NEW ctl, NEW stalled, NEW ack, NEW fetched, NEW latency, Edge(ctl, stalled, ack, fetched, latency),
           ~ctl.stallExec
    PROVE  core'.result = StepsResult(isa, i)
<1>1. /\ i \in Instructions /\ Shows(i, isa.pc) /\ isa \in Machines /\ OutcomeFits(i) /\ Active /\ Kind(i)
  BY Executing
<1>2. /\ x.cmd \in MultiCycle => fpu.left = 1
      /\ x.cmd \notin MultiCycle => fpu.left = 0
  BY RetiringUnit
<1>3. core.result = isa.result  BY DEF InStep, ValuesFit
<1>4. core'.result = IF ExecComplete \/ WritesReg(WBREG_NONE) THEN ExecResult ELSE core.result
  BY DEF Edge, CoreEdge
<1>5. /\ x.wbEn <=> SetsRegister(i)
      /\ SetsRegister(i) => x.wbReg = i[2]
      /\ x.load <=> i[1] = "load"
      /\ i[1] = "load" => x.loadData = i[2]
      /\ x.cmd = Commands(i)
      /\ x.neg <=> i[1] = "unary" /\ i[2] = UNARY_NEG
      /\ x.trunc <=> i[1] = "unary" /\ i[2] = UNARY_TRUNC
  BY <1>1 DEF Shows
<1>6. /\ Commands(i) \in MultiCycle <=> \/ i[1] = "op" /\ i[4] # CMD_MAC
                                        \/ i[1] = "unary" /\ i[2] = UNARY_LOG2
      /\ Commands(i) = CMD_MOV <=> i[1] \notin {"op", "cmp", "unary"}
  BY <1>1, CommandKinds
<1>7. WritesReg(WBREG_NONE) <=> SetsRegister(i) /\ i[2] = REG_RES
  BY <1>1, <1>5 DEF WritesReg, WBREG_NONE, REG_RES
<1>8. ExecComplete <=> fpu.left = 1 \/ x.load \/ x.neg \/ x.trunc  BY <1>1 DEF ExecComplete, Complete
<1>9. ExecResult = IF x.trunc THEN Truncated(core.result) ELSE IF x.neg THEN Negated(core.result)
                   ELSE IF x.load THEN Loaded(x.loadData) ELSE IF x.cmd = CMD_MOV THEN OpB
                   ELSE IF fpu.left = 1 THEN fpu.res ELSE Garbage
  BY <1>1 DEF ExecResult, Complete
<1>10. fpu.left = 1 => fpu.res = Outcome(i)  BY <1>1 DEF OutcomeFits
<1>11. UNARY_NEG # UNARY_TRUNC /\ UNARY_NEG # UNARY_LOG2 /\ UNARY_TRUNC # UNARY_LOG2
  BY DEF UNARY_NEG, UNARY_TRUNC, UNARY_LOG2
<1>12. CASE i[1] = "mov"
  <2>1. ~ExecComplete  BY <1>2, <1>5, <1>6, <1>8, <1>12
  <2>2. CASE i[2] = REG_RES
    <3>1. SetsRegister(i)  BY <1>12, <2>2 DEF SetsRegister
    <3>2. i[3] # REG_RES
      <4>1. IsWrite(i)
        BY <1>1, <1>12, <2>2 DEF Kind, IsStore, IsCalculation, IRS, DEREF_AD0, DEREF_AD1, REG_RES
      <4>. QED BY <2>2, <4>1 DEF IsWrite, Deref, IRS, DEREF_AD0, DEREF_AD1, REG_RES
    <3>3. OpB = Value(isa, i[3], i[4])
      <4>1. fpu.left = 0  BY <1>2, <1>5, <1>6, <1>12
      <4>. QED BY <3>1, <3>2, <4>1, RetiringOperands
    <3>4. ExecResult = OpB  BY <1>5, <1>6, <1>9, <1>12
    <3>. QED BY <1>4, <1>7, <1>12, <2>2, <3>1, <3>3, <3>4 DEF StepsResult
  <2>3. CASE i[2] # REG_RES
    BY <1>3, <1>4, <1>7, <1>12, <2>1, <2>3 DEF StepsResult
  <2>. QED BY <2>2, <2>3
<1>13. CASE i[1] = "op"
  <2>1. ~SetsRegister(i)  BY <1>13 DEF SetsRegister
  <2>2. CASE i[4] = CMD_MAC
    <3>1. ~ExecComplete  BY <1>2, <1>5, <1>6, <1>8, <1>13, <2>2
    <3>. QED BY <1>3, <1>4, <1>7, <1>13, <2>1, <2>2, <3>1 DEF StepsResult
  <2>3. CASE i[4] # CMD_MAC
    <3>1. fpu.left = 1  BY <1>2, <1>5, <1>6, <1>13, <2>3
    <3>2. ExecResult = fpu.res  BY <1>5, <1>6, <1>9, <1>13, <3>1
    <3>3. Outcome(i) = StepsResult(isa, i)  BY <1>13, <2>3 DEF Outcome, StepsResult
    <3>. QED BY <1>4, <1>8, <1>10, <3>1, <3>2, <3>3
  <2>. QED BY <2>2, <2>3
<1>14. CASE i[1] = "load"
  <2>1. core.loadState = isa.part  BY <1>14 DEF InStep, ValuesFit
  <2>2. ExecResult = Loaded(i[2])  BY <1>5, <1>9, <1>14
  <2>3. Loaded(i[2]) = StepsResult(isa, i)  BY <1>3, <1>14, <2>1 DEF Loaded, StepsResult
  <2>. QED BY <1>4, <1>5, <1>8, <1>14, <2>2, <2>3
<1>15. CASE i[1] = "unary"
  <2>1. i[2] \in {UNARY_NEG, UNARY_LOG2, UNARY_TRUNC}
    BY <1>1, <1>15 DEF Kind, IsStore, IsWrite, IsCalculation
  <2>2. CASE i[2] = UNARY_NEG
    BY <1>3, <1>4, <1>5, <1>8, <1>9, <1>11, <1>15, <2>2 DEF StepsResult
  <2>3. CASE i[2] = UNARY_TRUNC
    BY <1>3, <1>4, <1>5, <1>8, <1>9, <1>11, <1>15, <2>3 DEF StepsResult
  <2>4. CASE i[2] = UNARY_LOG2
    <3>1. fpu.left = 1  BY <1>2, <1>5, <1>6, <1>15, <2>4
    <3>2. ExecResult = fpu.res  BY <1>5, <1>6, <1>9, <1>11, <1>15, <2>4, <3>1
    <3>3. Outcome(i) = StepsResult(isa, i)  BY <1>11, <1>15, <2>4 DEF Outcome, StepsResult
    <3>. QED BY <1>4, <1>8, <1>10, <3>1, <3>2, <3>3
  <2>. QED BY <2>1, <2>2, <2>3, <2>4
<1>16. CASE i[1] \notin {"mov", "op", "load", "unary"}
  <2>1. ~SetsRegister(i)  BY <1>16 DEF SetsRegister
  <2>2. ~ExecComplete  BY <1>2, <1>5, <1>6, <1>8, <1>16
  <2>. QED BY <1>3, <1>4, <1>7, <1>16, <2>1, <2>2 DEF StepsResult
<1>. QED BY <1>12, <1>13, <1>14, <1>15, <1>16

\* So is the sum of the multiply-accumulate unit.
LEMMA RetiredSum ==
    ASSUME RegistersFit, PipelineInv, InStep, Running, Retiring, NEW i, i = Current,
           NEW ctl, NEW stalled, NEW ack, NEW fetched, NEW latency, Edge(ctl, stalled, ack, fetched, latency),
           ~ctl.stallExec
    PROVE  fpu'.left = 0 /\ fpu'.acc = StepsSum(isa, i)
<1>1. i \in Instructions /\ x.cmd = Commands(i)  BY Executing DEF Shows
<1>2. /\ fpu'.left = 0
      /\ x.cmd \notin MultiCycle => fpu.left = 0
      /\ fpu'.acc = IF x.cmd = CMD_MAC THEN (fpu.acc + OpA * OpB) % Mod ELSE fpu.acc
      /\ x.cmd = CMD_MAC_RES => fpu.acc = 0
  BY RetiringUnit
<1>3. /\ Commands(i) = CMD_MAC <=> i[1] = "op" /\ i[4] = CMD_MAC
      /\ Commands(i) = CMD_MAC_RES <=> i[1] = "op" /\ i[4] = CMD_MAC_RES
  BY <1>1, CommandKinds
<1>4. x.cmd # CMD_MAC_RES => fpu.acc = isa.acc  BY DEF InStep, ValuesFit
<1>5. CMD_MAC # CMD_MAC_RES /\ CMD_MAC \notin MultiCycle
  BY DEF CMD_MAC, MultiCycle, CMD_ADD, CMD_SUB, CMD_MUL, CMD_DIV, CMD_LOG2, CMD_SHFT, CMD_MAC_RES
<1>6. CASE x.cmd = CMD_MAC
  <2>1. OpA = First(isa, i) /\ OpB = Other(isa, i)  BY <1>1, <1>2, <1>3, <1>5, <1>6, RetiringOperands
  <2>2. fpu'.acc = (isa.acc + OpA * OpB) % Mod  BY <1>2, <1>4, <1>5, <1>6
  <2>3. StepsSum(isa, i) = (isa.acc + First(isa, i) * Other(isa, i)) % Mod
    BY <1>1, <1>3, <1>6 DEF StepsSum
  <2>. QED BY <1>2, <2>1, <2>2, <2>3
<1>7. CASE x.cmd # CMD_MAC
  BY <1>1, <1>2, <1>3, <1>4, <1>5, <1>7 DEF StepsSum
<1>. QED BY <1>6, <1>7

\* The registers that an instruction writes in EXEC.
LEMMA RetiredRegisters ==
    ASSUME RegistersFit, PipelineInv, InStep, Running, Retiring, NEW i, i = Current,
           NEW ctl, NEW stalled, NEW ack, NEW fetched, NEW latency, Edge(ctl, stalled, ack, fetched, latency),
           ~ctl.stallExec, NEW t, Steps(t, isa, i)
    PROVE  /\ core'.irs = t.irs /\ core'.busLock = t.lock /\ core'.loadState = t.part
           /\ \A r \in {0, 1} : t.addr[1 + r] = IF WritesReg(r) THEN IntResult ELSE core.addr[1 + r]
<1>1. /\ i \in Instructions /\ Shows(i, isa.pc) /\ isa \in Machines /\ Active /\ Kind(i)
  BY Executing
<1>2. /\ x.wbEn <=> SetsRegister(i)
      /\ SetsRegister(i) => x.wbReg = i[2]
      /\ x.load <=> i[1] = "load"
      /\ core.dec.busLock <=> i[1] = "signal" /\ i[2] = BUS_LOCK
      /\ core.dec.busUnlock <=> i[1] = "signal" /\ i[2] = BUS_UNLOCK
  BY <1>1 DEF Shows
<1>3. x.cmd = Commands(i)  BY <1>1 DEF Shows
<1>4. SetsRegister(i) => fpu.left = 0
  <2>1. SetsRegister(i) => i[1] = "mov"  BY DEF SetsRegister
  <2>2. i[1] = "mov" => Commands(i) \notin MultiCycle  BY <1>1, CommandKinds
  <2>. QED BY <1>3, <2>1, <2>2, RetiringUnit
<1>5. SetsRegister(i) /\ i[2] # REG_RES => IntResult = Value(isa, i[3], i[4])
  <2>1. SUFFICES ASSUME SetsRegister(i), i[2] # REG_RES PROVE IntResult = Value(isa, i[3], i[4])
    OBVIOUS
  <2>2. IsWrite(i)
    BY <1>1, <2>1
       DEF SetsRegister, Kind, IsStore, IsCalculation, IRS, DEREF_AD0, DEREF_AD1, REG_AD0, REG_AD1, REG_IRS,
                      REG_RES
  <2>3. i[3] \in {IRS, REG_RES}  BY <2>1, <2>2 DEF IsWrite, Deref, REG_RES, IRS
  <2>. QED BY <1>4, <2>1, <2>3, RetiringOperands DEF REG_RES, IRS
<1>6. \A r \in {0, 1, 2} : WritesReg(r) <=> i[1] = "mov" /\ i[2] = r
  <2>. SUFFICES ASSUME NEW r \in {0, 1, 2} PROVE WritesReg(r) <=> i[1] = "mov" /\ i[2] = r
    OBVIOUS
  <2>. QED BY <1>1, <1>2 DEF WritesReg, SetsRegister, REG_AD0, REG_AD1, REG_IRS, REG_RES
<1>7. /\ core'.irs = IF WritesReg(REG_IRS) THEN IntResult ELSE core.irs
      /\ core'.busLock = IF Active /\ (core.dec.busLock \/ core.dec.busUnlock) THEN ~core.dec.busUnlock ELSE core.busLock
      /\ core'.loadState = NextLoadState
  BY DEF Edge, CoreEdge
<1>8. /\ core.irs = isa.irs /\ core.busLock = isa.lock /\ isa.lock \in BOOLEAN /\ t.lock \in BOOLEAN
      /\ core.loadState = isa.part \/ (i[1] # "load" /\ core.loadState = 1)
  BY <1>1 DEF InStep, ValuesFit, Machines, Steps
<1>9. core'.irs = t.irs
  <2>1. t.irs = IF i[1] = "mov" /\ i[2] = REG_IRS THEN Value(isa, i[3], i[4]) ELSE isa.irs  BY DEF Steps
  <2>2. WritesReg(REG_IRS) <=> i[1] = "mov" /\ i[2] = REG_IRS  BY <1>6 DEF REG_IRS
  <2>3. i[1] = "mov" /\ i[2] = REG_IRS => SetsRegister(i) /\ i[2] # REG_RES
    BY DEF SetsRegister, REG_IRS, REG_RES
  <2>. QED BY <1>5, <1>7, <1>8, <2>1, <2>2, <2>3
<1>10. core'.busLock = t.lock
  <2>1. t.lock <=> IF i[1] = "signal" /\ i[2] \in {BUS_LOCK, BUS_UNLOCK} THEN i[2] = BUS_LOCK ELSE isa.lock
    BY DEF Steps
  <2>2. (~core.dec.busUnlock) \in BOOLEAN  OBVIOUS
  <2>3. core'.busLock \in BOOLEAN  BY <1>7, <1>8, <2>2
  <2>4. BUS_LOCK # BUS_UNLOCK  BY DEF BUS_LOCK, BUS_UNLOCK
  <2>5. core'.busLock <=> IF i[1] = "signal" /\ i[2] \in {BUS_LOCK, BUS_UNLOCK} THEN i[2] = BUS_LOCK ELSE isa.lock
    BY <1>1, <1>2, <1>7, <1>8, <2>4
  <2>. QED BY <1>8, <2>1, <2>3, <2>5
<1>11. core'.loadState = t.part
  <2>1. t.part = IF i[1] = "load" THEN isa.part + 1 ELSE 1  BY DEF Steps
  <2>2. core'.loadState = IF x.load THEN core.loadState + 1 ELSE 1  BY <1>7 DEF NextLoadState, Retiring
  <2>. QED BY <1>2, <1>8, <2>1, <2>2
<1>12. ASSUME NEW r \in {0, 1}
       PROVE  t.addr[1 + r] = IF WritesReg(r) THEN IntResult ELSE core.addr[1 + r]
  <2>1. t.addr[1 + r] = StepsAddr(isa, i, r)
    <3>1. t.addr[1] = StepsAddr(isa, i, 0) /\ t.addr[2] = StepsAddr(isa, i, 1)  BY DEF Steps
    <3>. QED BY <3>1
  <2>2. core.addr[1 + r] = isa.addr[1 + r] + Num(Advances(i, r))
    <3>1. core.addr[1 + r] = isa.addr[1 + r] + Num(Retiring /\ Advances(i, r))
      BY DEF InStep, ValuesFit, AddrFits
    <3>2. Num(Retiring /\ Advances(i, r)) = Num(Advances(i, r))  BY DEF Num
    <3>. QED BY <3>1, <3>2
  <2>3. WritesReg(r) <=> i[1] = "mov" /\ i[2] = r  BY <1>6
  <2>4. i[1] = "mov" /\ i[2] = r => SetsRegister(i) /\ i[2] # REG_RES
    BY DEF SetsRegister, REG_AD0, REG_AD1, REG_RES
  <2>. QED BY <1>5, <2>1, <2>2, <2>3, <2>4 DEF StepsAddr
<1>. QED BY <1>9, <1>10, <1>11, <1>12

\* A loop ends with the goto that finds the last round begun.
LEMMA LoopEndsIs == ASSUME LoopFits PROVE LoopEnds <=> isa.loop = 1
BY DEF LoopFits, LoopEnds

\* The loop counter of a loop that begins or ends a round.
LEMMA RetiredLoop ==
    ASSUME InStep, Running, Retiring, NEW i, i = Current,
           NEW ctl, NEW stalled, NEW ack, NEW fetched, NEW latency, Edge(ctl, stalled, ack, fetched, latency),
           fpu.left = 0 \/ i[1] \notin {"goto", "gotor", "loop"}, NEW t, Steps(t, isa, i)
    PROVE  /\ core'.loop = [fresh |-> core'.loop.fresh, n |-> core'.loop.n]
           /\ core'.loop.n \in Int /\ core'.loop.fresh \in BOOLEAN
           /\ t.loop = IF core'.loop.n < 0 THEN 0 ELSE IF core'.loop.n = 0 /\ core'.loop.fresh THEN 1 ELSE core'.loop.n
           /\ core'.loop # core.loop => \/ t.fresh /\ t.loop > 0
                                        \/ core.dec.gotoConst /\ core.dec.jmpBack
<1>1. /\ i \in Instructions /\ Shows(i, isa.pc) /\ isa \in Machines /\ Active /\ Kind(i) /\ Allowed(isa, i)
  BY Executing
<1>2. /\ core.dec.gotoConst <=> i[1] = "goto"
      /\ i[1] = "goto" => (core.dec.jmpBack <=> i[2] < 0)
      /\ core.dec.loop <=> i[1] = "loop"
  BY <1>1 DEF Shows
<1>3. core'.loop = NextLoop  BY DEF Edge, CoreEdge
<1>4. /\ core.loop = [fresh |-> core.loop.fresh, n |-> core.loop.n]
      /\ core.loop.n \in Int /\ core.loop.fresh \in BOOLEAN
      /\ isa.loop = IF core.loop.n < 0 THEN 0 ELSE IF core.loop.n = 0 /\ core.loop.fresh THEN 1 ELSE core.loop.n
  BY DEF InStep, ValuesFit, LoopFits
<1>5. t.loop = StepsLoop(isa, i) /\ (t.fresh <=> i[1] = "loop")  BY DEF Steps
<1>6. isa.result \in Nat  BY <1>1 DEF Machines
<1>7. CASE i[1] = "loop"
  <2>1. IntResult = isa.result  BY <1>7, RetiringOperands
  <2>2. core'.loop = [fresh |-> TRUE, n |-> isa.result]  BY <1>1, <1>2, <1>3, <1>7, <2>1 DEF NextLoop
  <2>3. core'.loop.n = isa.result /\ core'.loop.fresh = TRUE  BY <2>2
  <2>4. t.loop = IF isa.result = 0 THEN 1 ELSE isa.result  BY <1>5, <1>7 DEF StepsLoop
  <2>. QED BY <1>5, <1>6, <1>7, <2>2, <2>3, <2>4
<1>8. CASE i[1] = "goto"
  <2>1. t.loop = IF isa.loop > 1 THEN isa.loop - 1 ELSE 0  BY <1>5, <1>8 DEF StepsLoop
  <2>2. isa.loop > 0 => i[2] < 0  BY <1>1, <1>8 DEF Allowed
  <2>3. CASE core.dec.jmpBack /\ core.loop # NoLoop
    <3>1. core'.loop = [fresh |-> FALSE, n |-> IF core.loop.n <= 0 THEN -1 ELSE core.loop.n - 1]
      BY <1>1, <1>2, <1>3, <1>8, <2>3 DEF NextLoop
    <3>2. core'.loop.n = (IF core.loop.n <= 0 THEN -1 ELSE core.loop.n - 1) /\ core'.loop.fresh = FALSE
      BY <3>1
    <3>3. core.loop.n # 0 \/ core.loop.fresh
      BY <1>4, <2>3 DEF NoLoop
    <3>4. core'.loop.n \in Int  BY <1>4, <3>2
    <3>5. t.loop = IF core'.loop.n < 0 THEN 0 ELSE core'.loop.n
      BY <1>4, <2>1, <3>2, <3>3
    <3>. QED BY <1>2, <1>8, <2>3, <3>1, <3>2, <3>4, <3>5
  <2>4. CASE ~(core.dec.jmpBack /\ core.loop # NoLoop)
    <3>1. core'.loop = core.loop  BY <1>1, <1>2, <1>3, <1>8, <2>4 DEF NextLoop
    <3>2. isa.loop = 0
      <4>1. CASE core.loop = NoLoop
        <5>1. core.loop.n = 0 /\ core.loop.fresh = FALSE  BY <4>1 DEF NoLoop
        <5>. QED BY <1>4, <5>1
      <4>2. CASE ~core.dec.jmpBack
        <5>1. isa.loop \in Nat  BY <1>1 DEF Machines
        <5>. QED BY <1>2, <1>8, <2>2, <4>2, <5>1
      <4>. QED BY <2>4, <4>1, <4>2
    <3>. QED BY <1>4, <2>1, <3>1, <3>2
  <2>. QED BY <2>3, <2>4
<1>9. CASE i[1] \notin {"loop", "goto"}
  <2>1. core'.loop = core.loop  BY <1>2, <1>3, <1>9 DEF NextLoop
  <2>2. t.loop = isa.loop  BY <1>5, <1>9 DEF StepsLoop
  <2>. QED BY <1>4, <2>1, <2>2
<1>. QED BY <1>7, <1>8, <1>9

\* The jump of the core goes where the machine goes, and a comparison skips as it does.
LEMMA RetiredPc ==
    ASSUME ProgramFits, RegistersFit, PipelineInv, InStep, Running, Retiring, NEW i, i = Current,
           NEW ctl, NEW stalled, NEW ack, NEW fetched, NEW latency, Edge(ctl, stalled, ack, fetched, latency),
           ~ctl.stallExec, NEW t, Steps(t, isa, i), NEW stall
    PROVE  /\ x.goto /\ t.pc \in DOMAIN prog => NextPc(stall) = t.pc
           /\ x.goto => ExecNext
           /\ ~x.goto => t.pc = isa.pc + 1 + Num(~ExecNext)
<1>1. /\ i \in Instructions /\ Shows(i, isa.pc) /\ isa \in Machines /\ Active /\ Allowed(isa, i) /\ core.execNext
      /\ Kind(i) /\ GotoFits(i)
  BY Executing
<1>2. /\ core.dec.gotoConst <=> i[1] = "goto"
      /\ i[1] = "goto" => core.dec.jmpTarget = (isa.pc + i[2]) % 65536
      /\ x.goto => i[1] \in {"goto", "gotor"}
      /\ x.cmp <=> i[1] = "cmp"
      /\ i[1] = "cmp" => x.cmpMode = i[2]
      /\ x.cmd = Commands(i)
  BY <1>1 DEF Shows
<1>3. x.cmd \notin MultiCycle => fpu.left = 0  BY RetiringUnit
<1>4. t.pc = StepsPc(isa, i)  BY DEF Steps
<1>5. isa.pc \in Int /\ isa.pc + 1 + 0 = isa.pc + 1  BY <1>1 DEF Machines
<1>6. i[1] # "cmp" => ExecNext  BY <1>1, <1>2 DEF ExecNext
<1>7. LoopEnds <=> isa.loop = 1  BY LoopEndsIs DEF InStep, ValuesFit
<1>8. CASE i[1] = "cmp"
  <2>1. fpu.left = 0
    <3>1. Commands(i) \notin MultiCycle  BY <1>1, <1>8, CommandKinds
    <3>. QED BY <1>2, <1>3, <3>1
  <2>2. OpA = isa.result /\ OpB = Value(isa, IRS, i[3])  BY <1>8, <2>1, RetiringOperands
  <2>3. ExecNext <=> Holds(i[2], isa.result, Value(isa, IRS, i[3]))
    BY <1>1, <1>2, <1>8, <2>2 DEF ExecNext
  <2>4. t.pc = isa.pc + 1 + Num(~Holds(i[2], isa.result, Value(isa, IRS, i[3])))
    BY <1>4, <1>8 DEF StepsPc
  <2>5. Num(~Holds(i[2], isa.result, Value(isa, IRS, i[3]))) = Num(~ExecNext)  BY <2>3 DEF Num
  <2>. QED BY <1>2, <1>8, <2>4, <2>5
<1>9. CASE i[1] = "goto"
  <2>1. x.goto <=> isa.loop # 1  BY <1>1, <1>7, <1>9 DEF GotoFits
  <2>2. t.pc = IF isa.loop = 1 THEN isa.pc + 1 ELSE isa.pc + i[2]  BY <1>4, <1>9 DEF StepsPc
  <2>3. ASSUME x.goto, t.pc \in DOMAIN prog PROVE NextPc(stall) = t.pc
    <3>1. NextPc(stall) = (isa.pc + i[2]) % 65536  BY <1>1, <1>2, <1>9, <2>3 DEF NextPc
    <3>2. t.pc \in Addresses
      BY <2>3, MenuAssumption DEF ProgramFits
    <3>3. t.pc \in Nat /\ t.pc < 65536
      <4>1. 2^16 = 65536  BY SMT
      <4>2. t.pc \in 0 .. 2^16 - 1  BY <3>2 DEF Addresses
      <4>. HIDE <3>2
      <4>. QED BY <4>1, <4>2
    <3>4. t.pc = isa.pc + i[2]  BY <2>1, <2>2, <2>3
    <3>5. t.pc % 65536 = t.pc  BY <3>3
    <3>. QED BY <3>1, <3>4, <3>5
  <2>4. ~x.goto => t.pc = isa.pc + 1 + Num(~ExecNext)  BY <1>5, <1>6, <1>9, <2>1, <2>2 DEF Num
  <2>. QED BY <1>6, <1>9, <2>3, <2>4
<1>10. CASE i[1] = "gotor"
  <2>1. isa.loop = 0  BY <1>1, <1>10 DEF Allowed
  <2>2. x.goto  BY <1>1, <1>7, <1>10, <2>1 DEF GotoFits
  <2>3. IntResult = isa.result
    <3>1. Commands(i) \notin MultiCycle  BY <1>1, <1>10, CommandKinds
    <3>. QED BY <1>2, <1>3, <1>10, <3>1, RetiringOperands
  <2>4. NextPc(stall) = isa.result  BY <1>1, <1>2, <1>10, <2>2, <2>3 DEF NextPc
  <2>5. t.pc = isa.result  BY <1>4, <1>10 DEF StepsPc
  <2>. QED BY <1>6, <1>10, <2>2, <2>4, <2>5
<1>11. CASE i[1] \notin {"cmp", "goto", "gotor"}
  <2>1. t.pc = isa.pc + 1  BY <1>4, <1>11 DEF StepsPc
  <2>. QED BY <1>2, <1>5, <1>6, <1>11, <2>1 DEF Num
<1>. QED BY <1>8, <1>9, <1>10, <1>11

\* The address of a store, and what the core writes there.
LEMMA StoreWrites ==
    ASSUME InStep, Running, Retiring, NEW i, i = Current, Stores(i)
    PROVE  /\ x.wrAddr = Place(isa, i) /\ x.wrEn /\ Place(isa, i) \in Local \cup External
           /\ WritesLocal <=> Place(isa, i) \in Local
           /\ WritesExternal <=> Place(isa, i) \notin Local
           /\ Place(isa, i) \in Local => x.wrAddr % SharedAddrBase = x.wrAddr
           /\ core.result = isa.result
<1>1. /\ Shows(i, isa.pc) /\ StoreFits(i) /\ Defined(isa, i) /\ Kind(i) /\ Active /\ isa \in Machines
  BY Executing
<1>2. x.wrEn /\ x.wrAddr = Place(isa, i) /\ (x.wrExt <=> x.wrAddr \notin Local)
  BY <1>1 DEF Shows, StoreFits
<1>3. IsStore(i) /\ i[4] \in Nat
  BY <1>1
     DEF Stores, Kind, IsWrite, IsCalculation, IRS, DEREF_AD0, DEREF_AD1, REG_AD0, REG_AD1, REG_IRS, REG_RES
<1>4. Place(isa, i) \in Local \cup External
  <2>1. Usable(isa, i[2], i[4]) /\ i[2] \in {IRS, DEREF_AD0, DEREF_AD1} /\ i[2] # REG_RES
    BY <1>1, <1>3 DEF Defined, IsStore, IRS, DEREF_AD0, DEREF_AD1, REG_RES
  <2>. QED BY <1>1, <1>3, <2>1, OperandTyped DEF Place
<1>5. Place(isa, i) \in Local => Place(isa, i) % SharedAddrBase = Place(isa, i)
  BY MemoryAssumption, NumbersAssumption DEF Local
<1>6. core.result = isa.result  BY DEF InStep, ValuesFit
<1>. QED BY <1>1, <1>2, <1>4, <1>5, <1>6 DEF WritesLocal, WritesExternal

\* A store has written its word when it leaves EXEC.
LEMMA RetiredMemory ==
    ASSUME RegistersFit, PipelineInv, InStep, Running, Retiring, NEW i, i = Current,
           NEW ctl, NEW stalled, NEW ack, NEW fetched, NEW latency, Edge(ctl, stalled, ack, fetched, latency),
           ~ctl.stallExec, NEW t, Steps(t, isa, i)
    PROVE  /\ mem' = t.mem /\ ext' = t.ext
           /\ ~x.wrEn => mem' = mem /\ ext' = ext
           /\ \A n \in Local : n # t.last => mem'[n] = mem[n]
<1>1. /\ Shows(i, isa.pc) /\ Defined(isa, i) /\ Active /\ isa \in Machines /\ (x.wrEn <=> Stores(i))
  BY Executing DEF Shows
<1>2. /\ mem' = IF WritesLocal THEN [mem EXCEPT ![x.wrAddr % SharedAddrBase] = core.result] ELSE mem
      /\ ext' = IF WritesExternal /\ ack /\ x.wrAddr \in External THEN [ext EXCEPT ![x.wrAddr] = core.result] ELSE ext
  BY DEF Edge
<1>3. isa.mem \in [Local -> Nat] /\ isa.ext \in [External -> Nat]  BY <1>1 DEF Machines
<1>. DEFINE n == Place(isa, i)
<1>4. /\ mem = isa.mem \/ (Writes(i) /\ n \in Local /\ mem = [isa.mem EXCEPT ![n] = isa.result])
      /\ ext = isa.ext \/ (Writes(i) /\ n \notin Local /\ ext = [isa.ext EXCEPT ![n] = isa.result])
  BY DEF InStep, MemFits
<1>5. /\ t.mem = IF Stores(i) /\ n \in Local THEN [isa.mem EXCEPT ![n] = isa.result] ELSE isa.mem
      /\ t.ext = IF Stores(i) /\ n \notin Local THEN [isa.ext EXCEPT ![n] = isa.result] ELSE isa.ext
      /\ t.last = IF Stores(i) /\ n \in Local THEN n ELSE Nowhere
  BY DEF Steps
<1>6. CASE ~Stores(i)
  <2>1. ~WritesLocal /\ ~WritesExternal  BY <1>1, <1>6 DEF WritesLocal, WritesExternal
  <2>2. mem = isa.mem /\ ext = isa.ext  BY <1>4, <1>6 DEF Writes
  <2>3. mem' = mem /\ ext' = ext  BY <1>2, <2>1
  <2>. HIDE DEF n
  <2>. QED BY <1>5, <1>6, <2>2, <2>3
<1>7. CASE Stores(i)
  <2>1. /\ x.wrAddr = n /\ x.wrEn /\ n \in Local \cup External
        /\ WritesLocal <=> n \in Local
        /\ WritesExternal <=> n \notin Local
        /\ n \in Local => x.wrAddr % SharedAddrBase = x.wrAddr
        /\ core.result = isa.result
    BY <1>7, StoreWrites
  <2>2. CASE n \in Local
    <3>1. ext = isa.ext /\ ext' = ext  BY <1>2, <1>4, <2>1, <2>2
    <3>2. mem' = [mem EXCEPT ![n] = isa.result]  BY <1>2, <2>1, <2>2
    <3>. HIDE DEF n
    <3>3. mem' = [isa.mem EXCEPT ![n] = isa.result]  BY <1>3, <1>4, <2>2, <3>2
    <3>4. \A k \in Local : k # n => mem'[k] = mem[k]  BY <1>3, <1>4, <2>2, <3>2
    <3>. QED BY <1>5, <1>7, <2>1, <2>2, <3>1, <3>3, <3>4
  <2>3. CASE n \notin Local
    <3>1. mem = isa.mem /\ mem' = mem  BY <1>2, <1>4, <2>1, <2>3
    <3>2. ack
      <4>1. stalled \in BOOLEAN /\ fetched.valid \in BOOLEAN /\ ack \in BOOLEAN
            /\ (stalled <=> Request(Dec) # NoRequest /\ ~ack) /\ ctl = Control(Dec, stalled, fetched.valid)
        BY DEF Edge
      <4>2. ~ExecStall(stalled)
        <5>1. core.en \subseteq Stages  BY DEF PipelineInv, PipelineFits
        <5>. QED BY <1>1, <4>1, <5>1, ControlFields
      <4>3. x.wrEn /\ x.wrExt /\ WritesExternal  BY <2>1, <2>3 DEF WritesExternal
      <4>4. ~stalled  BY <4>2, <4>3 DEF ExecStall
      <4>5. Request(Dec) # NoRequest  BY <4>3 DEF Request, NoRequest
      <4>. QED BY <4>1, <4>4, <4>5
    <3>3. ext' = [ext EXCEPT ![n] = isa.result]  BY <1>2, <2>1, <2>3, <3>2
    <3>. HIDE DEF n
    <3>4. ext' = [isa.ext EXCEPT ![n] = isa.result]  BY <1>3, <1>4, <2>1, <2>3, <3>3
    <3>. QED BY <1>5, <1>7, <2>1, <2>3, <3>1, <3>4
  <2>. QED BY <2>2, <2>3
<1>. QED BY <1>6, <1>7

-----------------------------------------------------------------------------
(* What an edge makes of EXEC: the machine has done what left it.          *)

Jumps == Active /\ x.goto
Done(stall) ==
    /\ isa' \in Machines
    /\ core'.result = isa'.result /\ core'.irs = isa'.irs /\ core'.busLock = isa'.lock /\ core'.loadState = isa'.part
    /\ fpu'.left = 0 /\ fpu'.acc = isa'.acc
    /\ LoopFits'
    /\ core'.loop # core.loop => \/ isa'.fresh /\ isa'.loop > 0
                                 \/ Jumps
                                 \/ Active /\ core.dec.gotoConst /\ core.dec.jmpBack /\ LoopEnds
    /\ \A r \in {0, 1} : isa'.addr[1 + r] = IF WritesReg(r) THEN IntResult ELSE core.addr[1 + r]
    /\ mem' = isa'.mem /\ ext' = isa'.ext
    /\ ~(Active /\ x.wrEn) => mem' = mem /\ ext' = ext
    /\ \A n \in Local : n # isa'.last => mem'[n] = mem[n]
    /\ Jumps => ExecNext /\ (isa'.pc \in DOMAIN prog => NextPc(stall) = isa'.pc)
    /\ ~Jumps => isa'.pc = Following + Num(~ExecNext)

\* An instruction has left.
LEMMA RetiredIsDone ==
    ASSUME ProgramFits, RegistersFit, PipelineInv, InStep, Running, Retiring,
           NEW ctl, NEW stalled, NEW ack, NEW fetched, NEW latency, Edge(ctl, stalled, ack, fetched, latency),
           ~ctl.stallExec, isa' = IsaStep(isa, Current), NEW stall
    PROVE  Done(stall)
<1>. DEFINE i == Current
            t == IsaStep(isa, i)
<1>1. /\ i \in Instructions /\ Shows(i, isa.pc) /\ Defined(isa, i) /\ isa \in Machines /\ Active /\ GotoFits(i)
  BY Executing
<1>2. Steps(t, isa, i)  BY <1>1, StepsIs
<1>3. isa' = t  OBVIOUS
<1>4. i = Current  OBVIOUS
<1>. HIDE DEF i, t
<1>5. Steps(isa', isa, i)  BY <1>2, <1>3
<1>6. isa' \in Machines /\ isa'.result = StepsResult(isa, i) /\ isa'.acc = StepsSum(isa, i)
  BY <1>5 DEF Steps
<1>7. core'.result = isa'.result  BY <1>4, <1>6, RetiredResult
<1>8. fpu'.left = 0 /\ fpu'.acc = isa'.acc  BY <1>4, <1>6, RetiredSum
<1>9. /\ core'.irs = isa'.irs /\ core'.busLock = isa'.lock /\ core'.loadState = isa'.part
      /\ \A r \in {0, 1} : isa'.addr[1 + r] = IF WritesReg(r) THEN IntResult ELSE core.addr[1 + r]
  BY <1>4, <1>5, RetiredRegisters
<1>10. /\ LoopFits'
       /\ core'.loop # core.loop => (isa'.fresh /\ isa'.loop > 0) \/ (core.dec.gotoConst /\ core.dec.jmpBack)
  <2>1. fpu.left = 0 \/ i[1] \notin {"goto", "gotor", "loop"}
    <3>1. x.cmd \notin MultiCycle => fpu.left = 0  BY <1>4, RetiringUnit
    <3>2. x.cmd = Commands(i)  BY <1>1 DEF Shows
    <3>3. i[1] \in {"goto", "gotor", "loop"} => Commands(i) \notin MultiCycle  BY <1>1, CommandKinds
    <3>. QED BY <3>1, <3>2, <3>3
  <2>2. /\ core'.loop = [fresh |-> core'.loop.fresh, n |-> core'.loop.n]
        /\ core'.loop.n \in Int /\ core'.loop.fresh \in BOOLEAN
        /\ isa'.loop = IF core'.loop.n < 0 THEN 0
                       ELSE IF core'.loop.n = 0 /\ core'.loop.fresh THEN 1 ELSE core'.loop.n
        /\ core'.loop # core.loop => (isa'.fresh /\ isa'.loop > 0) \/ (core.dec.gotoConst /\ core.dec.jmpBack)
    BY <1>4, <1>5, <2>1, RetiredLoop
  <2>. QED BY <2>2 DEF LoopFits
<1>11. core.dec.gotoConst => Jumps \/ LoopEnds
  <2>1. core.dec.gotoConst => i[1] = "goto"  BY <1>1 DEF Shows
  <2>. QED BY <1>1, <2>1 DEF GotoFits, Jumps
<1>12. /\ mem' = isa'.mem /\ ext' = isa'.ext
       /\ ~x.wrEn => mem' = mem /\ ext' = ext
       /\ \A n \in Local : n # isa'.last => mem'[n] = mem[n]
  BY <1>4, <1>5, RetiredMemory
<1>13. /\ x.goto /\ isa'.pc \in DOMAIN prog => NextPc(stall) = isa'.pc
       /\ x.goto => ExecNext
       /\ ~x.goto => isa'.pc = isa.pc + 1 + Num(~ExecNext)
  BY <1>4, <1>5, RetiredPc
<1>14. Following = isa.pc + 1  BY DEF Following
<1>15. (Jumps <=> x.goto) /\ (Active /\ x.wrEn <=> x.wrEn)  BY <1>1 DEF Jumps
<1>. QED BY <1>1, <1>6, <1>7, <1>8, <1>9, <1>10, <1>11, <1>12, <1>13, <1>14, <1>15 DEF Done

\* There was none to leave.
LEMMA NoneIsDone ==
    ASSUME RegistersFit, PipelineInv, InStep, ~Retiring,
           NEW ctl, NEW stalled, NEW ack, NEW fetched, NEW latency, Edge(ctl, stalled, ack, fetched, latency),
           isa' = isa, NEW stall
    PROVE  Done(stall)
<1>1. Active => Empty  BY DEF InStep, ExecHolds
<1>2. fpu.left = 0  BY DEF PipelineInv, PipelineFits, BusyForExec
<1>3. isa \in Machines  BY DEF InStep, ValuesFit
<1>4. /\ core.result = isa.result /\ core.irs = isa.irs /\ core.busLock = isa.lock
      /\ core.loadState = isa.part /\ fpu.acc = isa.acc /\ LoopFits
  BY DEF InStep, ValuesFit
<1>5. CMD_MOV \notin MultiCycle /\ CMD_MOV # CMD_MAC /\ CMD_MOV # CMD_MAC_RES
  BY DEF CMD_MOV, CMD_MAC, MultiCycle, CMD_ADD, CMD_SUB, CMD_MUL, CMD_DIV, CMD_LOG2, CMD_SHFT, CMD_MAC_RES
<1>6. \A r \in {0, 1, 2, 3} : ~WritesReg(r)  BY <1>1 DEF WritesReg, Empty
<1>7. ~ExecComplete  BY <1>1, <1>2 DEF ExecComplete, Complete, Empty
<1>8. core'.result = core.result  BY <1>6, <1>7 DEF Edge, CoreEdge, WBREG_NONE
<1>9. core'.irs = core.irs /\ core'.busLock = core.busLock
  BY <1>1, <1>6 DEF Edge, CoreEdge, Empty, REG_IRS
<1>10. core'.loadState = core.loadState  BY DEF Edge, CoreEdge, NextLoadState, Retiring
<1>11. core'.loop = core.loop  BY <1>1 DEF Edge, CoreEdge, NextLoop, Empty
<1>12. fpu' = fpu
  <2>1. ~(AluEn /\ x.cmd = CMD_MAC) /\ ~(AluEn /\ x.cmd = CMD_MAC_RES) /\ ~(AluEn /\ x.cmd \in MultiCycle)
    BY <1>1, <1>5 DEF AluEn, Empty
  <2>. QED BY <1>2, <2>1 DEF FpuEdge, Edge
<1>13. mem' = mem /\ ext' = ext  BY <1>1 DEF Edge, WritesLocal, WritesExternal, Empty
<1>14. mem = isa.mem /\ ext = isa.ext  BY DEF InStep, MemFits, Writes
<1>15. \A r \in {0, 1} : isa.addr[1 + r] = core.addr[1 + r]
  <2>. SUFFICES ASSUME NEW r \in {0, 1} PROVE isa.addr[1 + r] = core.addr[1 + r]  OBVIOUS
  <2>1. core.addr[1 + r] = isa.addr[1 + r] + Num(Retiring /\ Advances(Current, r))
    BY DEF InStep, ValuesFit, AddrFits
  <2>2. Num(Retiring /\ Advances(Current, r)) = 0  BY DEF Num
  <2>3. isa.addr[1 + r] \in Nat  BY <1>3 DEF Machines
  <2>. QED BY <2>1, <2>2, <2>3
<1>16. ~Jumps  BY <1>1 DEF Jumps, Empty
<1>17. ExecNext <=> core.execNext
  <2>1. core.execNext \in BOOLEAN  BY DEF PipelineInv, PipelineFits
  <2>. QED BY <1>1, <2>1 DEF ExecNext, Empty
<1>18. isa.pc = Following + Num(~ExecNext)
  <2>1. isa.pc \in Int  BY <1>3 DEF Machines
  <2>. QED BY <1>17, <2>1 DEF Following, Num
<1>19. LoopFits'  BY <1>4, <1>11 DEF LoopFits
<1>. QED BY <1>2, <1>3, <1>4, <1>6, <1>8, <1>9, <1>10, <1>11, <1>12, <1>13, <1>14, <1>15, <1>16, <1>18,
     <1>19
         DEF Done

-----------------------------------------------------------------------------
(* What comes into EXEC.                                                   *)

\* The program goes on as it was, the fetch takes one of its words, and the local
\* memory puts out what DECEX asks for.
Supplies(ctl, fetched) ==
    /\ DOMAIN prog' = DOMAIN prog
    /\ \A n : InstrAt(prog, n) \in Instructions => InstrAt(prog', n) = InstrAt(prog, n)
    /\ fetched.valid /\ ~ctl.stallDecEx => /\ InstrAt(prog', core.pc) \in Instructions
                                           /\ fetched.data = Word(InstrAt(prog', core.pc))
    /\ \E m \in {mem, mem'} : ram' = <<mem[Addr0(Dec) % SharedAddrBase], m[Addr1(Dec) % SharedAddrBase]>>

\* The word in DECEX is no instruction only out of reset.
LEMMA WordInDecEx ==
    ASSUME RegistersFit, PipelineInv, S_DECEX \in core.en, ~core.fetch.valid
    PROVE  core.fetch.data = 0 /\ Active /\ ~Retiring /\ ~x.wbEn /\ ~x.wrEn /\ ~Dec.enADr1
<1>1. core.fetch.data = 0 /\ Active /\ ~core.dec.valid  BY DEF PipelineInv, Starting
<1>2. ~x.wbEn /\ ~x.wrEn  BY <1>1 DEF PipelineInv, Starting
<1>3. ~Dec.enADr1  BY <1>1, DecodedCommand
<1>. QED BY <1>1, <1>2, <1>3 DEF Retiring

\* Where no instruction is in EXEC nothing holds it.
LEMMA NoneHolds ==
    ASSUME RegistersFit, PipelineInv, InStep, ~Retiring,
           NEW ctl, NEW stalled, NEW ack, NEW fetched, NEW latency, Edge(ctl, stalled, ack, fetched, latency)
    PROVE  ~ctl.stallExec
<1>1. core.en \subseteq Stages /\ fpu.left = 0 /\ PipelineFits /\ BusyForExec
  BY DEF PipelineInv, PipelineFits, BusyForExec
<1>2. stalled \in BOOLEAN /\ fetched.valid \in BOOLEAN /\ ctl = Control(Dec, stalled, fetched.valid)
  BY DEF Edge
<1>3. ctl.stallExec <=> ExecStall(stalled) /\ Active  BY <1>1, <1>2, ControlFields
<1>4. Active => Empty  BY DEF InStep, ExecHolds
<1>5. Active => Idle /\ ~x.wrEn
  <2>1. CMD_MOV \notin MultiCycle
    BY DEF CMD_MOV, MultiCycle, CMD_ADD, CMD_SUB, CMD_MUL, CMD_DIV, CMD_LOG2, CMD_SHFT, CMD_MAC_RES
  <2>. QED BY <1>1, <1>4, <2>1 DEF Idle, Empty
<1>. QED BY <1>3, <1>5 DEF ExecStall

\* What becomes of the stages when EXEC is free.
LEMMA StagesMove ==
    ASSUME RegistersFit, PipelineInv, InStep,
           NEW ctl, NEW stalled, NEW ack, NEW fetched, NEW latency, Edge(ctl, stalled, ack, fetched, latency),
           ~ctl.stallExec
    PROVE  /\ Jumps => ~ctl.stallDecEx /\ ~Active' /\ S_DECEX \notin core'.en
           /\ ctl.stallDecEx => /\ ~Jumps /\ ~Active' /\ S_DECEX \in core'.en /\ S_DECEX \in core.en
                                /\ ExecNext /\ core.fetch.valid
           /\ ~Jumps /\ ~ctl.stallDecEx => /\ S_DECEX \in core'.en <=> fetched.valid
                                           /\ Active' <=> S_DECEX \in core.en /\ ExecNext
           /\ ctl.stallDecEx => core'.fetch = core.fetch /\ core'.pc = core.pc
           /\ ~ctl.stallDecEx => /\ core'.fetch = fetched /\ core'.dec = Kept(Dec) /\ x' = DecodeEx(Dec, ack)
                                 /\ core'.dec.valid = core.fetch.valid
                                 /\ core'.pc = NextPc(~fetched.valid)
           /\ ctl.stallDecEx <=> DecExStall(Dec, stalled) /\ S_DECEX \in core.en
           /\ core'.execNext = (core.fetch.valid \/ (ExecNext /\ core.execNext))
           /\ Active => core.execNext
           /\ ~Active => (ExecNext <=> core.execNext)
           /\ core.execNext \in BOOLEAN /\ core.fetch.valid \in BOOLEAN
<1>1. core.en \subseteq Stages /\ core.execNext \in BOOLEAN /\ core.fetch.valid \in BOOLEAN
  BY DEF PipelineInv, PipelineFits
<1>2. /\ stalled \in BOOLEAN /\ fetched.valid \in BOOLEAN /\ ctl = Control(Dec, stalled, fetched.valid)
      /\ core' = CoreEdge(Dec, ctl, ack, fetched) /\ ~HeldUp(ctl)
  BY DEF Edge
<1>3. /\ ctl.stallDecEx <=> DecExStall(Dec, stalled) /\ S_DECEX \in core.en
      /\ x.goto /\ Active => S_DECEX \notin ctl.en /\ S_EXEC \notin ctl.en
      /\ ~(x.goto /\ Active) /\ ~ctl.stallDecEx =>
             /\ S_DECEX \in ctl.en <=> fetched.valid
             /\ S_EXEC \in ctl.en <=> S_DECEX \in core.en /\ core.execNext /\ (Active => ExecNext)
      /\ ~(x.goto /\ Active) /\ ctl.stallDecEx =>
             (S_DECEX \in ctl.en <=> S_DECEX \in core.en) /\ S_EXEC \notin ctl.en
  BY <1>1, <1>2, ControlFields
<1>4. /\ core'.en = ctl.en /\ core'.execNext = NextExecNext
      /\ ctl.stallDecEx => core'.fetch = core.fetch /\ core'.pc = core.pc
      /\ ~ctl.stallDecEx => /\ core'.fetch = fetched /\ core'.dec = Kept(Dec) /\ core'.decex = DecodeEx(Dec, ack)
                            /\ core'.dec.valid = core.fetch.valid /\ core'.pc = NextPc(~fetched.valid)
  BY <1>2 DEF CoreEdge, Kept
<1>5. Active' <=> S_EXEC \in ctl.en  BY <1>4 DEF Active
<1>6. (Jumps <=> x.goto /\ Active) /\ (ctl.flush <=> x.goto /\ Active)
  BY <1>2 DEF Jumps, Control
<1>7. ctl.stallDecEx => ~Jumps /\ (S_DECEX \in core.en => ExecNext)  BY <1>2, <1>6 DEF HeldUp
<1>8. (Active => core.execNext) /\ (~Active => (ExecNext <=> core.execNext))
  BY DEF InStep, SkipFits, ExecNext
<1>9. core'.execNext = (core.fetch.valid \/ (ExecNext /\ core.execNext))
  BY <1>1, <1>4 DEF NextExecNext
<1>10. ctl.stallDecEx => core.fetch.valid
  <2>1. SUFFICES ASSUME ctl.stallDecEx, ~core.fetch.valid PROVE FALSE  OBVIOUS
  <2>2. ~x.wbEn /\ ~x.wrEn /\ ~Dec.enADr1  BY <1>3, <2>1, WordInDecEx
  <2>. QED BY <1>2, <1>3, <2>1, <2>2, DecExHeld
<1>11. x' = core'.decex  BY DEF x
<1>. QED BY <1>1, <1>3, <1>4, <1>5, <1>6, <1>7, <1>8, <1>9, <1>10, <1>11

\* The stages stand where the machine does.
LEMMA PositionMoves ==
    ASSUME ProgramFits, RegistersFit, PipelineInv, InStep, Running,
           NEW ctl, NEW stalled, NEW ack, NEW fetched, NEW latency, Edge(ctl, stalled, ack, fetched, latency),
           ~ctl.stallExec, Done(~fetched.valid), Supplies(ctl, fetched)
    PROVE  SkipFits' /\ Position'
<1>1. /\ Jumps => ~ctl.stallDecEx /\ ~Active' /\ S_DECEX \notin core'.en
      /\ ctl.stallDecEx => /\ ~Jumps /\ ~Active' /\ S_DECEX \in core'.en /\ S_DECEX \in core.en
                           /\ ExecNext /\ core.fetch.valid
      /\ ~Jumps /\ ~ctl.stallDecEx => /\ S_DECEX \in core'.en <=> fetched.valid
                                      /\ Active' <=> S_DECEX \in core.en /\ ExecNext
      /\ ctl.stallDecEx => core'.fetch = core.fetch /\ core'.pc = core.pc
      /\ ~ctl.stallDecEx => /\ core'.fetch = fetched /\ core'.dec.valid = core.fetch.valid
                            /\ core'.pc = NextPc(~fetched.valid)
      /\ core'.execNext = (core.fetch.valid \/ (ExecNext /\ core.execNext))
      /\ Active => core.execNext
      /\ ~Active => (ExecNext <=> core.execNext)
      /\ core.execNext \in BOOLEAN /\ core.fetch.valid \in BOOLEAN
  BY StagesMove
<1>2. SkipFits  BY DEF InStep
<1>3. isa \in Machines /\ isa' \in Machines  BY DEF InStep, ValuesFit, Done
<1>4. isa.pc \in Int /\ isa'.pc \in Int /\ Following \in Int  BY <1>3 DEF Machines, Following
<1>5. core.pc = Following + Num(InDecEx) /\ (InDecEx => core.fetch.pc = Following)
  BY DEF InStep, Position, Running
<1>6. /\ Jumps => ExecNext /\ (isa'.pc \in DOMAIN prog => NextPc(~fetched.valid) = isa'.pc)
      /\ ~Jumps => isa'.pc = Following + Num(~ExecNext)
  BY DEF Done
<1>7. DOMAIN prog' = DOMAIN prog  BY DEF Supplies
<1>8. fetched.valid \in BOOLEAN /\ fetched.pc = core.pc  BY DEF Edge
<1>9. /\ Following' = IF Retiring' THEN isa'.pc + 1 ELSE IF core'.execNext THEN isa'.pc ELSE isa'.pc - 1
      /\ InDecEx' <=> S_DECEX \in core'.en /\ core'.fetch.valid
      /\ InDecEx <=> S_DECEX \in core.en /\ core.fetch.valid
      /\ Retiring' <=> Active' /\ core'.dec.valid
  BY DEF Following, InDecEx, Retiring
<1>10. CASE Jumps
  <2>1. SkipFits'  BY <1>1, <1>6, <1>10 DEF SkipFits
  <2>2. ~InDecEx' /\ Num(InDecEx') = 0  BY <1>1, <1>9, <1>10 DEF Num
  <2>3. ~Retiring' /\ core'.execNext  BY <1>1, <1>6, <1>9, <1>10 DEF Jumps
  <2>4. isa'.pc \in DOMAIN prog' => core'.pc = isa'.pc  BY <1>1, <1>6, <1>7, <1>10
  <2>. QED BY <1>4, <1>9, <2>1, <2>2, <2>3, <2>4 DEF Position
<1>11. CASE ctl.stallDecEx
  <2>1. core'.execNext /\ ~Retiring'  BY <1>1, <1>9, <1>11
  <2>2. SkipFits'  BY <1>1, <1>11, <2>1 DEF SkipFits
  <2>3. InDecEx /\ InDecEx' /\ Num(InDecEx') = 1 /\ Num(InDecEx) = 1  BY <1>1, <1>9, <1>11 DEF Num
  <2>4. isa'.pc = Following  BY <1>1, <1>4, <1>6, <1>11 DEF Num
  <2>. QED BY <1>1, <1>5, <1>9, <1>11, <2>1, <2>2, <2>3, <2>4 DEF Position
<1>12. CASE ~Jumps /\ ~ctl.stallDecEx
  <2>1. Active' => core'.execNext  BY <1>1, <1>12
  <2>2. S_DECEX \notin core'.en => ~core'.fetch.valid  BY <1>1, <1>12
  <2>3. SkipFits'  BY <2>1, <2>2 DEF SkipFits
  <2>4. core'.pc = core.pc + Num(fetched.valid)
    <3>1. core.pc \in Int  BY <1>4, <1>5 DEF Num
    <3>2. NextPc(~fetched.valid) = IF ~fetched.valid THEN core.pc ELSE core.pc + 1
      BY <1>12 DEF NextPc, Jumps
    <3>. QED BY <1>1, <1>12, <3>1, <3>2 DEF Num
  <2>5. (InDecEx' <=> fetched.valid) /\ core'.fetch.pc = core.pc /\ Num(InDecEx') = Num(fetched.valid)
    BY <1>1, <1>8, <1>9, <1>12 DEF Num
  <2>6. core.pc = Following'
    <3>1. Retiring' <=> InDecEx /\ ExecNext  BY <1>1, <1>9, <1>12
    <3>2. CASE InDecEx
      <4>1. core.pc = Following + 1  BY <1>5, <3>2 DEF Num
      <4>2. CASE ExecNext
        <5>1. isa'.pc = Following  BY <1>4, <1>6, <1>12, <4>2 DEF Num
        <5>. QED BY <1>9, <3>1, <3>2, <4>1, <4>2, <5>1
      <4>3. CASE ~ExecNext
        <5>1. isa'.pc = Following + 1 /\ core'.execNext /\ ~Retiring'
          BY <1>1, <1>4, <1>6, <1>9, <1>12, <3>1, <3>2, <4>3 DEF Num
        <5>. QED BY <1>9, <4>1, <5>1
      <4>. QED BY <4>2, <4>3
    <3>3. CASE ~InDecEx
      <4>1. core.pc = Following /\ ~Retiring'  BY <1>4, <1>5, <3>1, <3>3 DEF Num
      <4>2. CASE ExecNext
        <5>1. isa'.pc = Following /\ core'.execNext  BY <1>1, <1>4, <1>6, <1>12, <4>2 DEF Num
        <5>. QED BY <1>9, <4>1, <5>1
      <4>3. CASE ~ExecNext
        <5>1. isa'.pc = Following + 1  BY <1>4, <1>6, <1>12, <4>3 DEF Num
        <5>2. ~core.fetch.valid  BY <1>1, <1>2, <1>9, <3>3, <4>3 DEF SkipFits
        <5>3. ~core'.execNext  BY <1>1, <4>3, <5>2
        <5>4. Following' = isa'.pc - 1  BY <1>9, <4>1, <5>3
        <5>. QED BY <1>4, <4>1, <5>1, <5>4
      <4>. QED BY <4>2, <4>3
    <3>. QED BY <3>2, <3>3
  <2>. QED BY <2>3, <2>4, <2>5, <2>6 DEF Position
<1>. QED BY <1>10, <1>11, <1>12

\* What an instruction increments DECEX has asked for.
LEMMA IncrementsAsk ==
    ASSUME NEW j \in Instructions, NEW d, NEW s, OperandsDecoded(d, j, s), NEW r \in {0, 1}, Advances(j, r)
    PROVE  (d.enADr0 /\ d.muxAD0 = r) \/ (d.enADr1 /\ d.muxAD1 = r)
<1>1. Kind(j)  BY Kinds
<1>2. MuxAD(DEREF_AD0) = 0 /\ MuxAD(DEREF_AD1) = 1  BY DEF MuxAD, Num, DEREF_AD0, DEREF_AD1
<1>3. /\ ReadsFirst(j) => d.enADr0 /\ d.muxAD0 = 0
      /\ Behind(j) => d.enADr1 /\ d.muxAD1 = MuxAD(Second(j))
  BY DEF OperandsDecoded
<1>4. CASE j[1] = "mov"
  <2>1. IsStore(j) \/ IsWrite(j)  BY <1>1, <1>4 DEF Kind, IsCalculation
  <2>2. Selects(j[2], r) \/ Selects(j[3], r)  BY <1>4 DEF Advances
  <2>3. Behind(j)  BY <1>4, <2>2 DEF Behind, Selects
  <2>4. CASE IsStore(j)
    <3>1. Second(j) = j[2] /\ ~Deref(j[3])
      BY <1>4, <2>4 DEF IsStore, Second, Stores, Deref, REG_RES, DEREF_AD0, DEREF_AD1
    <3>. QED BY <1>3, <2>2, <2>3, <3>1 DEF Selects
  <2>5. CASE IsWrite(j)
    <3>1. ~Deref(j[2]) /\ ~Stores(j)
      BY <2>5 DEF IsWrite, Stores, Deref, REG_RES, REG_AD0, REG_AD1, REG_IRS, DEREF_AD0, DEREF_AD1, IRS
    <3>2. Second(j) = j[3]  BY <1>4, <3>1 DEF Second
    <3>. QED BY <1>3, <2>2, <2>3, <3>1, <3>2 DEF Selects
  <2>. QED BY <2>1, <2>4, <2>5
<1>5. CASE j[1] = "op"
  <2>1. IsCalculation(j)  BY <1>1, <1>5 DEF Kind, IsStore, IsWrite
  <2>2. Selects(j[2], r) \/ Selects(j[3], r)  BY <1>5 DEF Advances
  <2>3. CASE Selects(j[2], r)
    <3>1. j[2] = DEREF_AD0 /\ r = 0
      BY <1>2, <2>1, <2>3 DEF Selects, IsCalculation, Deref, REG_RES, DEREF_AD0, DEREF_AD1
    <3>. QED BY <1>3, <1>5, <3>1 DEF ReadsFirst
  <2>4. CASE Selects(j[3], r)
    <3>1. j[3] # IRS  BY <2>4 DEF Selects, Deref, IRS, DEREF_AD0, DEREF_AD1
    <3>2. Second(j) = j[3]  BY <1>5 DEF Second, Stores
    <3>3. Behind(j)  BY <1>5, <3>1 DEF Behind
    <3>4. MuxAD(j[3]) = r  BY <2>4 DEF Selects
    <3>. QED BY <1>3, <3>2, <3>3, <3>4
  <2>. QED BY <2>2, <2>3, <2>4
<1>. QED BY <1>4, <1>5 DEF Advances

\* An instruction enters EXEC.
Enters(j, n, ctl, stalled, ack) ==
    /\ ~Jumps /\ ~ctl.stallDecEx /\ S_DECEX \in core.en /\ ExecNext
    /\ j \in Instructions /\ n \in Nat /\ DecodesTo(Dec, j, n, core)
    /\ core'.dec = Kept(Dec) /\ x' = DecodeEx(Dec, ack)
    /\ ~DecExStall(Dec, stalled)

\* The registers it needs are not being written.
LEMMA EntersWithRegisters ==
    ASSUME RegistersFit, PipelineInv, InStep,
           NEW ctl, NEW stalled, NEW ack, NEW fetched, NEW latency, Edge(ctl, stalled, ack, fetched, latency),
           Done(~fetched.valid), NEW j, NEW n, Enters(j, n, ctl, stalled, ack)
    PROVE  /\ Framed(j) => ~WritesReg(REG_IRS) /\ isa'.irs = core.irs
           /\ ReadsFirst(j) => isa'.addr[1] = core.addr[1]
           /\ Behind(j) => isa'.addr[1 + Dec.muxAD1] = core.addr[1 + Dec.muxAD1]
           /\ \A r \in {0, 1} : Advances(j, r) => ~WritesReg(r)
<1>1. OperandsDecoded(Dec, j, core) /\ j \in Instructions  BY DEF Enters, DecodesTo
<1>2. /\ Dec.enIRS <=> Framed(j)
      /\ Dec.enADr0 <=> ReadsFirst(j)
      /\ ReadsFirst(j) => Dec.muxAD0 = 0
      /\ Dec.enADr1 <=> Behind(j)
      /\ Dec.muxAD1 \in {0, 1}
  BY <1>1 DEF OperandsDecoded
<1>3. ~WaitsForRegister(Dec)  BY DEF Enters, DecExStall
<1>4. /\ Dec.enADr0 => ~WritesReg(Dec.muxAD0)
      /\ Dec.enADr1 => ~WritesReg(Dec.muxAD1)
      /\ Dec.enIRS => ~WritesReg(REG_IRS)
  BY <1>3 DEF WaitsForRegister, WritesReg
<1>5. \A r \in {0, 1} : ~WritesReg(r) => isa'.addr[1 + r] = core.addr[1 + r]  BY DEF Done
<1>6. Framed(j) => isa'.irs = core.irs
  <2>1. core'.irs = isa'.irs  BY DEF Done
  <2>2. core'.irs = IF WritesReg(REG_IRS) THEN IntResult ELSE core.irs  BY DEF Edge, CoreEdge
  <2>. QED BY <1>2, <1>4, <2>1, <2>2
<1>7. ReadsFirst(j) => isa'.addr[1] = core.addr[1]
  <2>1. ReadsFirst(j) => ~WritesReg(0)  BY <1>2, <1>4
  <2>2. ~WritesReg(0) => isa'.addr[1 + 0] = core.addr[1 + 0]  BY <1>5
  <2>. QED BY <2>1, <2>2
<1>8. Behind(j) => isa'.addr[1 + Dec.muxAD1] = core.addr[1 + Dec.muxAD1]  BY <1>2, <1>4, <1>5
<1>9. ASSUME NEW r \in {0, 1}, Advances(j, r) PROVE ~WritesReg(r)
  BY <1>1, <1>4, <1>9, IncrementsAsk
<1>. QED BY <1>2, <1>4, <1>6, <1>7, <1>8, <1>9

\* EXEC gets its decoding.
LEMMA EntersShown ==
    ASSUME NEW ctl, NEW stalled, NEW ack, NEW j, NEW n, Enters(j, n, ctl, stalled, ack)
    PROVE  Shows(j, n)' /\ core'.dec.curPc = n
<1>1. OperandsDecoded(Dec, j, core) /\ EffectDecoded(Dec, j, n)  BY DEF Enters, DecodesTo
<1>2. x' = DecodeEx(Dec, ack) /\ core'.dec = Kept(Dec)  BY DEF Enters
<1>3. /\ x'.mux0 = Dec.muxA /\ x'.irsWb = Dec.enIRS /\ x'.wrEn = Dec.enMEM /\ x'.wbEn = Dec.enREG
      /\ x'.wbReg = Dec.wbREG /\ x'.load = Dec.load /\ x'.loadData = Dec.loadData /\ x'.cmd = Dec.cmd
      /\ x'.cmp = Dec.cmp /\ x'.cmpMode = Dec.cmpMode /\ x'.neg = Dec.neg /\ x'.trunc = Dec.trunc
      /\ x'.goto => Dec.goto
  BY <1>2 DEF DecodeEx
<1>4. /\ core'.dec.curPc = Dec.curPc /\ core'.dec.gotoConst = Dec.gotoConst /\ core'.dec.jmpBack = Dec.jmpBack
      /\ core'.dec.jmpTarget = Dec.jmpTarget /\ core'.dec.loop = Dec.loop
      /\ core'.dec.busLock = Dec.busLock /\ core'.dec.busUnlock = Dec.busUnlock
  BY <1>2 DEF Kept
<1>5. /\ x'.mux0 = IF FromPort0(j) THEN MUX1_MEM ELSE MUX1_RESULT
      /\ (x'.irsWb <=> Framed(j)) /\ (x'.wrEn <=> Stores(j)) /\ (x'.wbEn <=> SetsRegister(j))
      /\ SetsRegister(j) => x'.wbReg = j[2]
  BY <1>1, <1>3 DEF OperandsDecoded
<1>6. /\ x'.load <=> j[1] = "load"
      /\ j[1] = "load" => x'.loadData = j[2]
      /\ x'.cmd = Commands(j)
      /\ x'.cmp <=> j[1] = "cmp"
      /\ j[1] = "cmp" => x'.cmpMode = j[2]
      /\ x'.neg <=> j[1] = "unary" /\ j[2] = UNARY_NEG
      /\ x'.trunc <=> j[1] = "unary" /\ j[2] = UNARY_TRUNC
      /\ x'.goto => j[1] \in {"goto", "gotor"}
  BY <1>1, <1>3 DEF EffectDecoded
<1>7. /\ core'.dec.curPc = n
      /\ core'.dec.gotoConst <=> j[1] = "goto"
      /\ j[1] = "goto" => (core'.dec.jmpBack <=> j[2] < 0) /\ core'.dec.jmpTarget = (n + j[2]) % 65536
      /\ core'.dec.loop <=> j[1] = "loop"
      /\ core'.dec.busLock <=> j[1] = "signal" /\ j[2] = BUS_LOCK
      /\ core'.dec.busUnlock <=> j[1] = "signal" /\ j[2] = BUS_UNLOCK
  BY <1>1, <1>4 DEF EffectDecoded
<1>. QED BY <1>5, <1>6, <1>7 DEF Shows

\* A goto finds the loop counter as it will be when it is executed.
LEMMA EntersGoto ==
    ASSUME InStep, NEW ctl, NEW stalled, NEW ack, NEW fetched, NEW latency, Edge(ctl, stalled, ack, fetched, latency),
           Done(~fetched.valid), NEW j, NEW n, Enters(j, n, ctl, stalled, ack), Allowed(isa', j)
    PROVE  GotoFits(j)'
<1>. SUFFICES ASSUME j[1] \in {"goto", "gotor"} PROVE x'.goto <=> ~LoopEnds'
  BY DEF GotoFits
<1>1. Dec.goto  BY DEF Enters, DecodesTo, EffectDecoded
<1>2. x'.goto <=> ~LoopEnds  BY <1>1 DEF Enters, DecodeEx
<1>3. isa'.loop = 0 \/ ~isa'.fresh  BY DEF Allowed
<1>4. isa' \in Machines /\ LoopFits' /\ LoopFits  BY DEF Done, InStep, ValuesFit
<1>5. isa'.loop \in Nat  BY <1>4 DEF Machines
<1>6. ~(isa'.fresh /\ isa'.loop > 0)  BY <1>3, <1>5
<1>7. ~(Active /\ core.dec.gotoConst /\ core.dec.jmpBack /\ LoopEnds)
  BY <1>1 DEF Edge, BehindLoop, Enters
<1>8. core'.loop = core.loop  BY <1>6, <1>7 DEF Done, Enters
<1>9. LoopEnds' <=> LoopEnds  BY <1>8 DEF LoopEnds
<1>. QED BY <1>2, <1>9

\* A store finds its address.
LEMMA EntersStore ==
    ASSUME RegistersFit, PipelineInv, InStep,
           NEW ctl, NEW stalled, NEW ack, NEW fetched, NEW latency, Edge(ctl, stalled, ack, fetched, latency),
           Done(~fetched.valid), NEW j, NEW n, Enters(j, n, ctl, stalled, ack), Defined(isa', j)
    PROVE  StoreFits(j)'
<1>. SUFFICES ASSUME Stores(j) PROVE x'.wrAddr = Place(isa', j) /\ (x'.wrExt <=> x'.wrAddr \notin Local)
  BY DEF StoreFits
<1>1. Kind(j) /\ OperandsDecoded(Dec, j, core)  BY Kinds DEF Enters, DecodesTo
<1>2. IsStore(j) /\ j[4] \in Nat
  BY <1>1
     DEF Stores, Kind, IsWrite, IsCalculation, IRS, DEREF_AD0, DEREF_AD1, REG_AD0, REG_AD1, REG_IRS, REG_RES
<1>3. /\ Framed(j) => isa'.irs = core.irs
      /\ Behind(j) => isa'.addr[1 + Dec.muxAD1] = core.addr[1 + Dec.muxAD1]
  BY EntersWithRegisters
<1>4. x'.wrAddr = Addr1(Dec) /\ (x'.wrExt <=> Dec.memEx)  BY DEF Enters, DecodeEx
<1>5. /\ Dec.enIRS <=> Framed(j)
      /\ Framed(j) => Dec.irsAddr = core.irs + Offset(j)
      /\ Behind(j) => Dec.muxAD1 = MuxAD(Second(j))
      /\ Dec.memEx <=> ~Framed(j) /\ core.addr[1 + Dec.muxAD1] >= SharedAddrBase
      /\ Dec.muxAD1 \in {0, 1}
  BY <1>1 DEF OperandsDecoded
<1>6. isa' \in Machines  BY DEF Done
<1>7. Second(j) = j[2] /\ Offset(j) = j[4]
  BY <1>2 DEF IsStore, Second, Offset, Stores, IRS, DEREF_AD0, DEREF_AD1
<1>8. Usable(isa', j[2], j[4])  BY <1>2 DEF Defined, IsStore
<1>9. CASE j[2] = IRS
  <2>1. Framed(j)  BY <1>2, <1>9 DEF Framed, IsStore
  <2>2. x'.wrAddr = core.irs + j[4]  BY <1>4, <1>5, <1>7, <2>1 DEF Addr1
  <2>3. Place(isa', j) = isa'.irs + j[4]  BY <1>9 DEF Place, AddrOf
  <2>4. Place(isa', j) \in Local  BY <1>8, <1>9 DEF Usable, Place, IRS, DEREF_AD0, DEREF_AD1
  <2>. QED BY <1>3, <1>4, <1>5, <2>1, <2>2, <2>3, <2>4
<1>10. CASE j[2] \in {DEREF_AD0, DEREF_AD1}
  <2>1. ~Framed(j) /\ Behind(j)
    BY <1>2, <1>10 DEF Framed, Behind, IsStore, Deref, IRS, DEREF_AD0, DEREF_AD1, REG_RES
  <2>2. x'.wrAddr = core.addr[1 + Dec.muxAD1]  BY <1>4, <1>5, <2>1 DEF Addr1
  <2>3. Place(isa', j) = isa'.addr[1 + MuxAD(j[2])]
    BY <1>10 DEF Place, AddrOf, IRS, DEREF_AD0, DEREF_AD1
  <2>4. isa'.addr[1 + Dec.muxAD1] \in Nat  BY <1>5, <1>6 DEF Machines
  <2>5. SharedAddrBase \in Nat  BY MemoryAssumption, NumbersAssumption
  <2>6. x'.wrAddr = Place(isa', j) /\ x'.wrAddr \in Nat  BY <1>3, <1>5, <1>7, <2>1, <2>2, <2>3, <2>4
  <2>7. x'.wrExt <=> x'.wrAddr >= SharedAddrBase  BY <1>4, <1>5, <2>1, <2>2
  <2>. QED BY <2>5, <2>6, <2>7 DEF Local
<1>. QED BY <1>2, <1>9, <1>10 DEF IsStore

\* The word that port 1 has read, or the cache has answered with, is the operand.
LEMMA EntersSecond ==
    ASSUME RegistersFit, PipelineInv, InStep,
           NEW ctl, NEW stalled, NEW ack, NEW fetched, NEW latency, Edge(ctl, stalled, ack, fetched, latency),
           Done(~fetched.valid), Supplies(ctl, fetched), NEW j, NEW n, Enters(j, n, ctl, stalled, ack),
           NEW a \in {IRS, DEREF_AD0, DEREF_AD1}, a = Second(j), NEW off \in Nat, off = Offset(j), ~Stores(j),
           a = IRS <=> Framed(j), a # IRS => Behind(j), Usable(isa', a, off),
           mem' = mem \/ AddrOf(isa', a, off) # isa'.last
    PROVE  OpB' = Value(isa', a, off)
<1>1. OperandsDecoded(Dec, j, core)  BY DEF Enters, DecodesTo
<1>2. /\ Framed(j) => isa'.irs = core.irs
      /\ Behind(j) => isa'.addr[1 + Dec.muxAD1] = core.addr[1 + Dec.muxAD1]
  BY EntersWithRegisters
<1>3. x'.wrExt = Dec.memEx
      /\ x'.memX = IF ack /\ Request(Dec).addr \in External THEN ext[Request(Dec).addr] ELSE Garbage
  BY DEF Enters, DecodeEx
<1>4. /\ Dec.enIRS <=> Framed(j)
      /\ Framed(j) => Dec.irsAddr = core.irs + off
      /\ Dec.enADr1 <=> Behind(j)
      /\ Behind(j) => Dec.muxAD1 = MuxAD(a)
      /\ Dec.memEx <=> ~Framed(j) /\ core.addr[1 + Dec.muxAD1] >= SharedAddrBase
      /\ Dec.muxAD1 \in {0, 1} /\ ~Dec.enMEM
  BY <1>1 DEF OperandsDecoded
<1>5. isa' \in Machines /\ mem' = isa'.mem /\ ext' = isa'.ext  BY DEF Done
<1>6. PICK m \in {mem, mem'} : ram' = <<mem[Addr0(Dec) % SharedAddrBase], m[Addr1(Dec) % SharedAddrBase]>>
  BY DEF Supplies
<1>. DEFINE p == AddrOf(isa', a, off)
<1>7. p = Addr1(Dec)
  <2>1. CASE a = IRS
    <3>1. p = isa'.irs + off  BY <2>1 DEF AddrOf
    <3>. QED BY <1>2, <1>4, <2>1, <3>1 DEF Addr1
  <2>2. CASE a # IRS
    <3>1. p = isa'.addr[1 + MuxAD(a)]  BY <2>2 DEF AddrOf
    <3>. QED BY <1>2, <1>4, <2>2, <3>1 DEF Addr1
  <2>. QED BY <2>1, <2>2
<1>8. p \in Nat /\ p \in Local \cup External /\ (a \in {IRS, DEREF_AD0} => p \in Local)
  BY <1>5, OperandTyped DEF IRS, DEREF_AD0, DEREF_AD1, REG_RES
<1>9. Value(isa', a, off) = IF p \in Local THEN isa'.mem[p] ELSE isa'.ext[p]
  BY DEF Value, Cell, IRS, DEREF_AD0, DEREF_AD1, REG_RES
<1>10. OpB' = IF x'.wrExt THEN x'.memX ELSE ram'[2]  BY DEF OpB, OperandsOf
<1>11. Dec.memEx <=> p \notin Local
  <2>1. SharedAddrBase \in Nat  BY MemoryAssumption, NumbersAssumption
  <2>2. CASE a = IRS  BY <1>4, <1>8, <2>2
  <2>3. CASE a # IRS
    <3>1. p = core.addr[1 + Dec.muxAD1]  BY <1>4, <1>7, <2>3 DEF Addr1
    <3>2. Dec.memEx <=> p >= SharedAddrBase  BY <1>4, <2>3, <3>1
    <3>. QED BY <1>8, <2>1, <3>2 DEF Local
  <2>. QED BY <2>2, <2>3
<1>12. p \in Local => p % SharedAddrBase = p
  BY MemoryAssumption, NumbersAssumption DEF Local
<1>13. p # isa'.last /\ p \in Local => mem'[p] = mem[p]  BY DEF Done
<1>. HIDE DEF p
<1>14. CASE p \in Local
  <2>1. ram'[2] = m[p]  BY <1>6, <1>7, <1>12, <1>14
  <2>2. mem'[p] = mem[p]  BY <1>13, <1>14 DEF p
  <2>3. m[p] = mem'[p]  BY <1>6, <2>2
  <2>. QED BY <1>3, <1>5, <1>9, <1>10, <1>11, <1>14, <2>1, <2>3
<1>15. CASE p \notin Local
  <2>1. a # IRS /\ a # DEREF_AD0  BY <1>8, <1>15
  <2>2. Dec.muxAD1 = 1 /\ Dec.enADr1 /\ Dec.memEx
    BY <1>4, <1>11, <1>15, <2>1 DEF MuxAD, Num
  <2>3. p = core.addr[2]  BY <1>4, <1>7, <2>1, <2>2 DEF Addr1
  <2>5. ~WritesExternal /\ ~stalled
    <3>1. ~(Dec.enADr1 /\ Dec.memEx /\ (WritesExternal \/ stalled))  BY DEF Enters, DecExStall
    <3>. QED BY <2>2, <3>1
  <2>6. Request(Dec) = [rw |-> FALSE, addr |-> p]  BY <1>4, <2>2, <2>3, <2>5 DEF Request
  <2>7. Request(Dec) # NoRequest
    <3>1. p \in External  BY <1>8, <1>15
    <3>2. p # -1  BY <3>1, MemoryAssumption, NumbersAssumption DEF External
    <3>. QED BY <2>6, <3>2 DEF NoRequest
  <2>8. ack  BY <2>5, <2>7 DEF Edge
  <2>9. p \in External  BY <1>8, <1>15
  <2>10. x'.memX = ext[p]  BY <1>3, <2>6, <2>8, <2>9
  <2>11. ext' = ext  BY <2>5 DEF Edge
  <2>. QED BY <1>3, <1>5, <1>9, <1>10, <1>15, <2>2, <2>10, <2>11
<1>. QED BY <1>14, <1>15

\* The word that port 0 has read is the first operand of an operation.
LEMMA EntersFirst ==
    ASSUME RegistersFit, PipelineInv, InStep,
           NEW ctl, NEW stalled, NEW ack, NEW fetched, NEW latency, Edge(ctl, stalled, ack, fetched, latency),
           Done(~fetched.valid), Supplies(ctl, fetched), NEW j, NEW n, Enters(j, n, ctl, stalled, ack),
           ReadsFirst(j), Usable(isa', DEREF_AD0, j[5])
    PROVE  OpA' = First(isa', j)
<1>1. OperandsDecoded(Dec, j, core)  BY DEF Enters, DecodesTo
<1>2. isa'.addr[1] = core.addr[1]  BY EntersWithRegisters
<1>3. x'.mux0 = Dec.muxA  BY DEF Enters, DecodeEx
<1>4. Dec.muxA = MUX1_MEM /\ Dec.muxAD0 = 0  BY <1>1 DEF OperandsDecoded, FromPort0
<1>5. ~(Active /\ x.wrEn)  BY <1>4 DEF Enters, DecExStall
<1>6. isa' \in Machines /\ mem' = isa'.mem /\ mem' = mem  BY <1>5 DEF Done
<1>. DEFINE p == isa'.addr[1]
<1>7. Addr0(Dec) = p  BY <1>2, <1>4, <1>5 DEF Addr0, WritesLocal
<1>8. AddrOf(isa', DEREF_AD0, j[5]) = p  BY DEF AddrOf, MuxAD, Num, DEREF_AD0, IRS
<1>9. p \in Local  BY <1>8 DEF Usable, IRS, DEREF_AD0, DEREF_AD1
<1>10. First(isa', j) = isa'.mem[p]
  <2>1. j[2] = DEREF_AD0  BY DEF ReadsFirst
  <2>2. First(isa', j) = Cell(isa', p)  BY <1>8, <2>1 DEF First, Value, DEREF_AD0, REG_RES
  <2>. QED BY <1>9, <2>2 DEF Cell
<1>11. p % SharedAddrBase = p
  BY <1>9, MemoryAssumption, NumbersAssumption DEF Local
<1>12. ram'[1] = mem[p]  BY <1>7, <1>11 DEF Supplies
<1>13. OpA' = ram'[1]  BY <1>3, <1>4 DEF OpA, OperandsOf
<1>. QED BY <1>6, <1>10, <1>12, <1>13

\* So an instruction that enters EXEC finds its operands.
LEMMA EntersOperands ==
    ASSUME RegistersFit, PipelineInv, InStep,
           NEW ctl, NEW stalled, NEW ack, NEW fetched, NEW latency, Edge(ctl, stalled, ack, fetched, latency),
           Done(~fetched.valid), Supplies(ctl, fetched), NEW j, NEW n, Enters(j, n, ctl, stalled, ack),
           Allowed(isa', j)
    PROVE  OperandsFit(j)'
<1>1. Kind(j) /\ OperandsDecoded(Dec, j, core)  BY Kinds DEF Enters, DecodesTo
<1>2. FromPort0(j) => mem' = mem
  <2>1. FromPort0(j) => ~(Active /\ x.wrEn)
    <3>1. FromPort0(j) => Dec.muxA = MUX1_MEM  BY <1>1 DEF OperandsDecoded
    <3>. QED BY <3>1 DEF Enters, DecExStall
  <2>. QED BY <2>1 DEF Done
<1>3. ASSUME j[1] = "op", j[2] # REG_RES PROVE OpA' = First(isa', j)
  <2>1. IsCalculation(j)  BY <1>1, <1>3 DEF Kind, IsStore, IsWrite
  <2>2. j[2] = DEREF_AD0  BY <1>3, <2>1 DEF IsCalculation
  <2>3. Usable(isa', DEREF_AD0, j[5])  BY <1>3, <2>2 DEF Allowed, Defined
  <2>. QED BY <1>3, <2>2, <2>3, EntersFirst DEF ReadsFirst
<1>4. ASSUME j[1] = "op", j[3] # REG_RES PROVE OpB' = Other(isa', j)
  <2>1. IsCalculation(j)  BY <1>1, <1>4 DEF Kind, IsStore, IsWrite
  <2>2. j[3] \in {IRS, DEREF_AD0, DEREF_AD1} /\ j[5] \in Nat /\ j[2] \in {REG_RES, DEREF_AD0}
    BY <1>4, <2>1 DEF IsCalculation
  <2>3. Second(j) = j[3] /\ Offset(j) = j[5] /\ ~Stores(j)  BY <1>4 DEF Second, Offset, Stores
  <2>4. Usable(isa', j[3], j[5]) /\ (j[2] # REG_RES \/ AddrOf(isa', j[3], j[5]) # isa'.last)
    BY <1>4 DEF Allowed, Defined
  <2>5. (j[3] = IRS <=> Framed(j)) /\ (j[3] # IRS => Behind(j))
    BY <1>4, <2>2 DEF Framed, Behind, IRS, REG_RES, DEREF_AD0, DEREF_AD1
  <2>6. j[2] # REG_RES => FromPort0(j)  BY <1>4, <2>2 DEF FromPort0, ReadsFirst
  <2>7. OpB' = Value(isa', j[3], j[5])  BY <1>2, <2>2, <2>3, <2>4, <2>5, <2>6, EntersSecond
  <2>. QED BY <2>7 DEF Other
<1>5. ASSUME SetsRegister(j), j[3] # REG_RES PROVE OpB' = Value(isa', j[3], j[4])
  <2>1. IsWrite(j) /\ j[4] \in Nat
    BY <1>1, <1>5
       DEF SetsRegister, Kind, IsStore, IsCalculation, IRS, DEREF_AD0, DEREF_AD1, REG_AD0, REG_AD1, REG_IRS,
                      REG_RES
  <2>2. j[3] \in {IRS, DEREF_AD0, DEREF_AD1} /\ j[1] = "mov"  BY <1>5, <2>1 DEF IsWrite
  <2>3. ~Stores(j) /\ j[2] # IRS
    BY <2>1 DEF IsWrite, Stores, REG_AD0, REG_AD1, REG_IRS, REG_RES, IRS, DEREF_AD0, DEREF_AD1
  <2>4. Second(j) = j[3] /\ Offset(j) = j[4]  BY <2>2, <2>3 DEF Second, Offset
  <2>5. Usable(isa', j[3], j[4])  BY <2>2 DEF Allowed, Defined
  <2>6. (j[3] = IRS <=> Framed(j)) /\ (j[3] # IRS => Behind(j))
    BY <2>2, <2>3 DEF Framed, Behind, Deref, IRS, DEREF_AD0, DEREF_AD1
  <2>7. mem' = mem  BY <1>2, <1>5, <2>2 DEF FromPort0
  <2>. QED BY <2>2, <2>1, <2>3, <2>4, <2>5, <2>6, <2>7, EntersSecond
<1>6. ASSUME j[1] = "cmp" PROVE OpB' = Value(isa', IRS, j[3])
  <2>1. j[3] \in Nat  BY <1>1, <1>6 DEF Kind, IsStore, IsWrite, IsCalculation
  <2>2. Second(j) = IRS /\ Offset(j) = j[3] /\ ~Stores(j) /\ Framed(j)
    BY <1>6 DEF Second, Offset, Stores, Framed
  <2>3. Usable(isa', IRS, j[3]) /\ isa'.irs + j[3] # isa'.last  BY <1>6 DEF Allowed, Defined
  <2>4. AddrOf(isa', IRS, j[3]) = isa'.irs + j[3]  BY DEF AddrOf
  <2>. QED BY <2>1, <2>2, <2>3, <2>4, EntersSecond
<1>. QED BY <1>3, <1>4, <1>5, <1>6 DEF OperandsFit

\* Which instruction enters, and that it is the next one of the program.
LEMMA EntersNext ==
    ASSUME ProgramFits, RegistersFit, PipelineInv, InStep, Running,
           NEW ctl, NEW stalled, NEW ack, NEW fetched, NEW latency, Edge(ctl, stalled, ack, fetched, latency),
           ~ctl.stallExec, Done(~fetched.valid), Supplies(ctl, fetched), Retiring', NEW j, j = Current'
    PROVE  Enters(j, isa'.pc, ctl, stalled, ack) /\ core.fetch.valid
<1>1. /\ Jumps => ~ctl.stallDecEx /\ ~Active'
      /\ ctl.stallDecEx => ~Jumps /\ ~Active'
      /\ ~Jumps /\ ~ctl.stallDecEx => (Active' <=> S_DECEX \in core.en /\ ExecNext)
      /\ ~ctl.stallDecEx => /\ core'.dec = Kept(Dec) /\ x' = DecodeEx(Dec, ack)
                            /\ core'.dec.valid = core.fetch.valid
      /\ ctl.stallDecEx <=> DecExStall(Dec, stalled) /\ S_DECEX \in core.en
      /\ Active => core.execNext
      /\ ~Active => (ExecNext <=> core.execNext)
  BY StagesMove
<1>2. ~Jumps /\ ~ctl.stallDecEx /\ S_DECEX \in core.en /\ ExecNext /\ core.fetch.valid
  BY <1>1 DEF Retiring
<1>3. InDecEx  BY <1>2 DEF InDecEx
<1>4. isa \in Machines /\ isa.pc \in DOMAIN prog  BY DEF InStep, ValuesFit, Running
<1>5. isa.pc \in Nat
  <2>1. isa.pc \in Addresses  BY <1>4, MenuAssumption DEF ProgramFits
  <2>. QED BY <2>1 DEF Addresses
<1>6. Following \in Nat
  <2>1. ~Retiring => core.execNext
    <3>1. Active => core.execNext  BY <1>1
    <3>2. ~Active => core.execNext  BY <1>1, <1>2
    <3>. QED BY <3>1, <3>2
  <2>. QED BY <1>5, <2>1 DEF Following
<1>7. core.fetch.pc = Following  BY <1>3, <1>4 DEF InStep, Position
<1>8. isa'.pc = Following
  <2>1. isa'.pc = Following + Num(~ExecNext)  BY <1>2 DEF Done
  <2>. QED BY <1>2, <1>6, <2>1 DEF Num
<1>9. InstrAt(prog, core.fetch.pc) \in Instructions /\ core.fetch.data = Word(InstrAt(prog, core.fetch.pc))
  BY <1>2 DEF InStep, FetchHolds
<1>10. j = InstrAt(prog, core.fetch.pc)
  <2>1. j = InstrAt(prog', isa'.pc)  BY DEF Current
  <2>2. InstrAt(prog', core.fetch.pc) = InstrAt(prog, core.fetch.pc)  BY <1>9 DEF Supplies
  <2>. QED BY <1>7, <1>8, <2>1, <2>2
<1>11. DecodesTo(Dec, j, core.fetch.pc, core)
  BY <1>6, <1>7, <1>9, <1>10, Decoded DEF Dec
<1>12. ~DecExStall(Dec, stalled)  BY <1>1, <1>2
<1>. QED BY <1>1, <1>2, <1>6, <1>7, <1>8, <1>9, <1>10, <1>11, <1>12 DEF Enters

\* What comes into EXEC and is no instruction does nothing.
LEMMA EntersEmpty ==
    ASSUME RegistersFit, PipelineInv, InStep,
           NEW ctl, NEW stalled, NEW ack, NEW fetched, NEW latency, Edge(ctl, stalled, ack, fetched, latency),
           ~ctl.stallExec, Active', ~Retiring'
    PROVE  Empty'
<1>1. /\ Jumps => ~Active'
      /\ ctl.stallDecEx => ~Active'
      /\ ~Jumps /\ ~ctl.stallDecEx => (Active' <=> S_DECEX \in core.en /\ ExecNext)
      /\ ~ctl.stallDecEx => /\ core'.dec = Kept(Dec) /\ x' = DecodeEx(Dec, ack)
                            /\ core'.dec.valid = core.fetch.valid
  BY StagesMove
<1>2. S_DECEX \in core.en /\ ~core.fetch.valid /\ core'.dec = Kept(Dec) /\ x' = DecodeEx(Dec, ack)
  BY <1>1 DEF Retiring
<1>3. core.fetch.data = 0  BY <1>2, WordInDecEx
<1>4. /\ ~Dec.enMEM /\ ~Dec.enREG /\ Dec.cmd = CMD_MOV
      /\ ~Dec.cmp /\ ~Dec.load /\ ~Dec.neg /\ ~Dec.trunc /\ ~Dec.goto /\ ~Dec.gotoConst /\ ~Dec.loop
      /\ ~Dec.busLock /\ ~Dec.busUnlock
  BY <1>3, DecodedReset DEF Dec
<1>5. /\ ~x'.wrEn /\ ~x'.wbEn /\ ~x'.load /\ x'.cmd = CMD_MOV /\ ~x'.cmp /\ ~x'.neg /\ ~x'.trunc /\ ~x'.goto
  BY <1>2, <1>4 DEF DecodeEx
<1>6. ~core'.dec.gotoConst /\ ~core'.dec.loop /\ ~core'.dec.busLock /\ ~core'.dec.busUnlock
  BY <1>2, <1>4 DEF Kept
<1>. QED BY <1>5, <1>6 DEF Empty

\* The address registers, with the increment of the instruction that enters.
LEMMA AddrMoves ==
    ASSUME ProgramFits, RegistersFit, PipelineInv, InStep, Running,
           NEW ctl, NEW stalled, NEW ack, NEW fetched, NEW latency, Edge(ctl, stalled, ack, fetched, latency),
           ~ctl.stallExec, Done(~fetched.valid), Supplies(ctl, fetched)
    PROVE  AddrFits'
<1>1. core'.addr = <<NextAddr(0, Dec, ctl), NextAddr(1, Dec, ctl)>>
  BY DEF Edge, CoreEdge, REG_AD0, REG_AD1
<1>2. isa' \in Machines /\ \A r \in {0, 1} : isa'.addr[1 + r] = IF WritesReg(r) THEN IntResult ELSE core.addr[1 + r]
  BY DEF Done
<1>3. ASSUME NEW r \in {0, 1}
      PROVE  core'.addr[1 + r] = isa'.addr[1 + r] + Num(Retiring' /\ Advances(Current', r))
  <2>. DEFINE adds == Num(Retiring' /\ Advances(Current', r))
  <2>1. core'.addr[1 + r] = NextAddr(r, Dec, ctl)  BY <1>1
  <2>2. isa'.addr[1 + r] \in Nat  BY <1>2 DEF Machines
  <2>3. isa'.addr[1 + r] = IF WritesReg(r) THEN IntResult ELSE core.addr[1 + r]  BY <1>2
  <2>4. (Jumps <=> ctl.flush) /\ (Jumps => ~Active') /\ (ctl.stallDecEx => ~Active')
        /\ (~Jumps /\ ~ctl.stallDecEx => (Active' <=> S_DECEX \in core.en /\ ExecNext))
        /\ (~ctl.stallDecEx => core'.dec.valid = core.fetch.valid)
    <3>1. ctl.flush <=> Jumps  BY DEF Edge, Control, Jumps
    <3>. QED BY <3>1, StagesMove
  <2>5. CASE Retiring'
    <3>1. PICK j : j = Current'  OBVIOUS
    <3>2. Enters(j, isa'.pc, ctl, stalled, ack)  BY <2>5, <3>1, EntersNext
    <3>3. Advances(j, r) => ~WritesReg(r)  BY <3>2, EntersWithRegisters
    <3>4. (Dec.inc[1] <=> Advances(j, 0)) /\ (Dec.inc[2] <=> Advances(j, 1))
      BY <3>2 DEF Enters, DecodesTo, OperandsDecoded
    <3>5. Num(Dec.inc[1 + r]) = Num(Advances(j, r))  BY <3>4 DEF Num
    <3>6. adds = Num(Advances(j, r))  BY <2>5, <3>1 DEF Num
    <3>7. WritesReg(r) => NextAddr(r, Dec, ctl) = IntResult /\ adds = 0
      BY <3>3, <3>6 DEF NextAddr, Num
    <3>8. ~WritesReg(r) => NextAddr(r, Dec, ctl) = core.addr[1 + r] + Num(Dec.inc[1 + r])
      BY <2>4, <3>2 DEF NextAddr, Enters
    <3>. HIDE DEF adds
    <3>. QED BY <2>1, <2>2, <2>3, <3>5, <3>6, <3>7, <3>8 DEF adds
  <2>6. CASE ~Retiring'
    <3>1. adds = 0  BY <2>6 DEF Num
    <3>2. NextAddr(r, Dec, ctl) = IF WritesReg(r) THEN IntResult ELSE core.addr[1 + r]
      <4>1. CASE S_DECEX \in core.en /\ ExecNext /\ ~ctl.stallDecEx /\ ~ctl.flush
        <5>1. ~core.fetch.valid  BY <2>4, <2>6, <4>1 DEF Retiring
        <5>2. core.fetch.data = 0  BY <4>1, <5>1, WordInDecEx
        <5>3. ~Dec.inc[1] /\ ~Dec.inc[2]  BY <5>2, DecodedReset DEF Dec
        <5>4. Num(Dec.inc[1 + r]) = 0  BY <5>3 DEF Num
        <5>5. ~WritesReg(r) => isa'.addr[1 + r] = core.addr[1 + r]  BY <2>3
        <5>6. ~WritesReg(r) => core.addr[1 + r] + Num(Dec.inc[1 + r]) = core.addr[1 + r]
          BY <2>2, <5>4, <5>5
        <5>. QED BY <4>1, <5>6 DEF NextAddr
      <4>2. CASE ~(S_DECEX \in core.en /\ ExecNext /\ ~ctl.stallDecEx /\ ~ctl.flush)
        BY <4>2 DEF NextAddr
      <4>. QED BY <4>1, <4>2
    <3>. HIDE DEF adds
    <3>3. core'.addr[1 + r] = isa'.addr[1 + r]  BY <2>1, <2>3, <3>2
    <3>. QED BY <2>2, <3>1, <3>3 DEF adds
  <2>. QED BY <2>5, <2>6
<1>4. core'.addr = <<core'.addr[1], core'.addr[2]>>  BY <1>1
<1>. QED BY <1>3, <1>4 DEF AddrFits

\* When EXEC is free the edge leaves the core in step with the machine.
LEMMA Advanced ==
    ASSUME ProgramFits, RegistersFit, PipelineInv, InStep, Running,
           NEW ctl, NEW stalled, NEW ack, NEW fetched, NEW latency, Edge(ctl, stalled, ack, fetched, latency),
           ~ctl.stallExec, Done(~fetched.valid), Supplies(ctl, fetched)
    PROVE  InStep'
<1>1. FetchHolds'
  <2>1. core'.fetch = core.fetch \/ (core'.fetch = fetched /\ ~ctl.stallDecEx)  BY StagesMove
  <2>2. CASE core'.fetch = core.fetch
    <3>1. core.fetch.valid => /\ InstrAt(prog, core.fetch.pc) \in Instructions
                              /\ core.fetch.data = Word(InstrAt(prog, core.fetch.pc))
      BY DEF InStep, FetchHolds
    <3>2. core.fetch.valid => InstrAt(prog', core.fetch.pc) = InstrAt(prog, core.fetch.pc)
      BY <3>1 DEF Supplies
    <3>. QED BY <2>2, <3>1, <3>2 DEF FetchHolds
  <2>3. CASE core'.fetch = fetched /\ ~ctl.stallDecEx
    <3>1. fetched.valid => InstrAt(prog', core.pc) \in Instructions /\ fetched.data = Word(InstrAt(prog', core.pc))
      BY <2>3 DEF Supplies
    <3>2. fetched.pc = core.pc  BY DEF Edge
    <3>. QED BY <2>3, <3>1, <3>2 DEF FetchHolds
  <2>. QED BY <2>1, <2>2, <2>3
<1>2. SkipFits' /\ Position'  BY PositionMoves
<1>3. AddrFits'  BY AddrMoves
<1>4. /\ isa' \in Machines /\ LoopFits'
      /\ core'.result = isa'.result /\ core'.irs = isa'.irs /\ core'.busLock = isa'.lock /\ core'.loadState = isa'.part
      /\ fpu'.left = 0 /\ fpu'.acc = isa'.acc /\ mem' = isa'.mem /\ ext' = isa'.ext
  BY DEF Done
<1>5. ValuesFit'  BY <1>3, <1>4 DEF ValuesFit
<1>6. MemFits'  BY <1>4 DEF MemFits
<1>7. CASE Retiring'
  <2>1. PICK j : j = Current'  OBVIOUS
  <2>2. Enters(j, isa'.pc, ctl, stalled, ack)  BY <1>7, <2>1, EntersNext
  <2>3. PICK n : n = isa'.pc  OBVIOUS
  <2>4. Shows(j, n)' /\ core'.dec.curPc = n  BY <2>2, <2>3, EntersShown
  <2>5. Shows(Current, isa.pc)'  BY <2>1, <2>3, <2>4 DEF Shows
  <2>6. j \in Instructions  BY <2>2 DEF Enters
  <2>7. ExecHolds'  BY <1>7, <2>1, <2>3, <2>4, <2>5, <2>6 DEF ExecHolds
  <2>8. ASSUME Allowed(isa', j)
        PROVE  GotoFits(j)' /\ StoreFits(j)' /\ OperandsFit(j)' /\ OutcomeFits(j)'
    <3>1. GotoFits(j)'  BY <2>2, <2>8, EntersGoto
    <3>2. Defined(isa', j)  BY <2>8 DEF Allowed
    <3>3. StoreFits(j)'  BY <2>2, <3>2, EntersStore
    <3>4. OperandsFit(j)'  BY <2>2, <2>8, EntersOperands
    <3>5. OutcomeFits(j)'  BY <1>4 DEF OutcomeFits
    <3>. QED BY <3>1, <3>3, <3>4, <3>5
  <2>9. Working'
    <3>1. SUFFICES ASSUME Allowed(isa', j)
                   PROVE  /\ GotoFits(Current)' /\ StoreFits(Current)' /\ OperandsFit(Current)'
                          /\ OutcomeFits(Current)'
      BY <2>1 DEF Working
    <3>2. GotoFits(Current)'  BY <2>1, <2>8, <3>1 DEF GotoFits
    <3>3. StoreFits(Current)'  BY <2>1, <2>8, <3>1 DEF StoreFits
    <3>4. OperandsFit(Current)'  BY <2>1, <2>8, <3>1 DEF OperandsFit
    <3>5. OutcomeFits(Current)'  BY <1>4 DEF OutcomeFits
    <3>. QED BY <3>2, <3>3, <3>4, <3>5
  <2>. QED BY <1>1, <1>2, <1>5, <1>6, <2>7, <2>9 DEF InStep
<1>8. CASE ~Retiring'
  <2>1. Active' => Empty'  BY <1>8, EntersEmpty
  <2>2. ExecHolds' /\ Working'  BY <1>8, <2>1 DEF ExecHolds, Working
  <2>. QED BY <1>1, <1>2, <1>5, <1>6, <2>2 DEF InStep
<1>. QED BY <1>7, <1>8

-----------------------------------------------------------------------------
(* An edge at which EXEC keeps its instruction.                            *)

\* A store that stays writes its word again.
LEMMA MemoryKept ==
    ASSUME InStep, Running, NEW ack \in BOOLEAN,
           mem' = IF WritesLocal THEN [mem EXCEPT ![x.wrAddr % SharedAddrBase] = core.result] ELSE mem,
           ext' = IF WritesExternal /\ ack /\ x.wrAddr \in External THEN [ext EXCEPT ![x.wrAddr] = core.result] ELSE ext,
           isa' = isa, Current' = Current, Retiring' <=> Retiring
    PROVE  MemFits'
<1>. DEFINE n == Place(isa, Current)
<1>1. /\ mem = isa.mem \/ (Writes(Current) /\ n \in Local /\ mem = [isa.mem EXCEPT ![n] = isa.result])
      /\ ext = isa.ext \/ (Writes(Current) /\ n \notin Local /\ ext = [isa.ext EXCEPT ![n] = isa.result])
  BY DEF InStep, MemFits
<1>2. Place(isa', Current') = n  OBVIOUS
<1>3. Writes(Current)' <=> Writes(Current)  BY DEF Writes
<1>4. CASE ~(Active /\ x.wrEn)
  <2>1. mem' = mem /\ ext' = ext  BY <1>4 DEF WritesLocal, WritesExternal
  <2>. HIDE DEF n
  <2>. QED BY <1>1, <1>2, <1>3, <2>1 DEF MemFits
<1>5. CASE Active /\ x.wrEn
  <2>1. Retiring  BY <1>5 DEF InStep, ExecHolds, Empty
  <2>2. PICK i : i = Current  OBVIOUS
  <2>3. Stores(i) /\ Defined(isa, i)  BY <1>5, <2>1, <2>2, Executing DEF Shows
  <2>4. Writes(Current)  BY <2>1, <2>2, <2>3 DEF Writes
  <2>5. /\ x.wrAddr = n
        /\ WritesLocal <=> n \in Local
        /\ WritesExternal <=> n \notin Local
        /\ n \in Local => x.wrAddr % SharedAddrBase = x.wrAddr
        /\ core.result = isa.result
    BY <2>1, <2>2, <2>3, StoreWrites
  <2>6. isa.mem \in [Local -> Nat] /\ isa.ext \in [External -> Nat]
    BY DEF InStep, ValuesFit, Machines
  <2>. HIDE DEF n
  <2>7. mem' = mem \/ (n \in Local /\ mem' = [mem EXCEPT ![n] = isa.result])  BY <2>5
  <2>8. ext' = ext \/ (n \notin Local /\ ext' = [ext EXCEPT ![n] = isa.result])  BY <2>5
  <2>9. mem' = isa.mem \/ (n \in Local /\ mem' = [isa.mem EXCEPT ![n] = isa.result])  BY <1>1, <2>6, <2>7
  <2>10. ext' = isa.ext \/ (n \notin Local /\ ext' = [isa.ext EXCEPT ![n] = isa.result])
    BY <1>1, <2>6, <2>8
  <2>. QED BY <1>2, <1>3, <2>4, <2>9, <2>10 DEF MemFits
<1>. QED BY <1>4, <1>5

\* What it takes to stay in step.
LEMMA StaysInStep ==
    ASSUME InStep, isa' = isa, prog' = prog,
           core'.pc = core.pc, core'.addr = core.addr, core'.irs = core.irs, core'.result = core.result,
           core'.loop = core.loop, core'.execNext = core.execNext, core'.busLock = core.busLock,
           core'.fetch = core.fetch, core'.dec = core.dec, x' = x,
           S_DECEX \in core'.en <=> S_DECEX \in core.en, Active' <=> Active,
           core'.loadState = core.loadState \/ (Retiring /\ Current[1] # "load" /\ core'.loadState = 1),
           fpu'.acc = IF Retiring /\ fpu'.left > 0 /\ x.cmd = CMD_MAC_RES THEN 0 ELSE isa.acc,
           MemFits', Retiring /\ isa.pc \in DOMAIN prog /\ Allowed(isa, Current) =>
                         OperandsFit(Current)' /\ OutcomeFits(Current)'
    PROVE  InStep'
<1>1. /\ (Retiring' <=> Retiring) /\ Current' = Current /\ (InDecEx' <=> InDecEx)
      /\ (LoopEnds' <=> LoopEnds)
  BY DEF Retiring, Current, InDecEx, LoopEnds
<1>2. FetchHolds'  BY DEF InStep, FetchHolds
<1>3. ExecHolds'
  <2>1. Retiring => Shows(Current, isa.pc)  BY DEF InStep, ExecHolds
  <2>2. PICK i : i = Current  OBVIOUS
  <2>3. PICK n : n = isa.pc  OBVIOUS
  <2>4. Retiring => Shows(i, n)'  BY <2>1, <2>2, <2>3 DEF Shows
  <2>5. Retiring => Shows(Current, isa.pc)'  BY <1>1, <2>2, <2>3, <2>4 DEF Shows
  <2>6. Empty' <=> Empty  BY DEF Empty
  <2>. QED BY <1>1, <2>5, <2>6 DEF InStep, ExecHolds
<1>4. SkipFits'  BY DEF InStep, SkipFits
<1>5. Position'
  <2>1. Following' = Following  BY <1>1 DEF Following
  <2>2. Num(InDecEx') = Num(InDecEx)  BY <1>1 DEF Num
  <2>. QED BY <1>1, <2>1, <2>2 DEF InStep, Position
<1>6. ValuesFit'
  <2>1. AddrFits'
    <3>1. ASSUME NEW r \in {0, 1}
          PROVE  core'.addr[1 + r] = isa'.addr[1 + r] + Num(Retiring' /\ Advances(Current', r))
      <4>1. core.addr[1 + r] = isa.addr[1 + r] + Num(Retiring /\ Advances(Current, r))
        BY DEF InStep, ValuesFit, AddrFits
      <4>2. Num(Retiring' /\ Advances(Current', r)) = Num(Retiring /\ Advances(Current, r))
        BY <1>1 DEF Num
      <4>. QED BY <4>1, <4>2
    <3>2. core'.addr = <<core'.addr[1], core'.addr[2]>>  BY DEF InStep, ValuesFit, AddrFits
    <3>. QED BY <3>1, <3>2 DEF AddrFits
  <2>2. LoopFits'  BY DEF InStep, ValuesFit, LoopFits
  <2>3. /\ isa \in Machines
        /\ core.result = isa.result /\ core.irs = isa.irs /\ core.busLock = isa.lock
        /\ core.loadState = isa.part \/ (Retiring /\ Current[1] # "load" /\ core.loadState = 1)
    BY DEF InStep, ValuesFit
  <2>. QED BY <1>1, <2>1, <2>2, <2>3 DEF ValuesFit
<1>7. Working'
  <2>1. SUFFICES ASSUME isa.pc \in DOMAIN prog, Retiring, Allowed(isa, Current)
                 PROVE  GotoFits(Current)' /\ StoreFits(Current)'
    BY <1>1 DEF Working
  <2>2. GotoFits(Current) /\ StoreFits(Current)  BY <2>1 DEF InStep, Working
  <2>3. GotoFits(Current)'  BY <1>1, <2>2 DEF GotoFits
  <2>4. StoreFits(Current)'  BY <1>1, <2>2 DEF StoreFits
  <2>. QED BY <2>3, <2>4
<1>. QED BY <1>2, <1>3, <1>4, <1>5, <1>6, <1>7 DEF InStep

\* The core does not move: it is disabled, or a jump waits for the fetch.
LEMMA Halted ==
    ASSUME RegistersFit, PipelineInv, InStep, Running, NEW enI \in BOOLEAN, NEW ack \in BOOLEAN,
           core' = core, isa' = isa, prog' = prog,
           enI => Active /\ x.goto,
           IF enI THEN \E latency \in Latencies : fpu' = FpuEdge(latency) ELSE fpu' = fpu,
           mem' = IF WritesLocal THEN [mem EXCEPT ![x.wrAddr % SharedAddrBase] = core.result] ELSE mem,
           ext' = IF WritesExternal /\ ack /\ x.wrAddr \in External THEN [ext EXCEPT ![x.wrAddr] = core.result] ELSE ext,
           ~enI /\ TakesOperands => OperandsOf(ram') = OperandsOf(ram)
    PROVE  InStep'
<1>1. x' = x /\ (Active' <=> Active) /\ (Retiring' <=> Retiring) /\ Current' = Current
  BY DEF x, Active, Retiring, Current
<1>2. MemFits'  BY <1>1, MemoryKept
<1>3. enI => Retiring  BY DEF InStep, ExecHolds, Empty
<1>4. ASSUME enI PROVE Current[1] \in {"goto", "gotor"} /\ fpu' = fpu
  <2>1. PICK i : i = Current  OBVIOUS
  <2>2. Shows(i, isa.pc) /\ i \in Instructions  BY <1>3, <1>4, <2>1, Executing
  <2>3. i[1] \in {"goto", "gotor"} /\ x.cmd = Commands(i)  BY <1>4, <2>2 DEF Shows
  <2>4. x.cmd \notin MultiCycle /\ x.cmd # CMD_MAC /\ x.cmd # CMD_MAC_RES
    BY <2>2, <2>3, CommandKinds
  <2>5. fpu.left = 0  BY <2>4 DEF PipelineInv, PipelineFits, BusyForExec
  <2>. QED BY <1>4, <2>1, <2>3, <2>4, <2>5 DEF FpuEdge
<1>5. fpu' = fpu  BY <1>4
<1>6. fpu'.acc = IF Retiring /\ fpu'.left > 0 /\ x.cmd = CMD_MAC_RES THEN 0 ELSE isa.acc
  BY <1>5 DEF InStep, ValuesFit
<1>7. ASSUME Retiring PROVE OperandsFit(Current)' /\ OutcomeFits(Current)'
  <2>1. PICK i : i = Current  OBVIOUS
  <2>2. Shows(i, isa.pc) /\ i \in Instructions /\ OperandsFit(i) /\ OutcomeFits(i)
    BY <1>7, <2>1, Executing
  <2>3. /\ x.wbEn <=> SetsRegister(i)
        /\ x.cmp <=> i[1] = "cmp"
        /\ x.cmd = Commands(i)
    BY <2>2 DEF Shows
  <2>4. i[1] = "op" => x.cmd \in MultiCycle \cup {CMD_MAC}  BY <2>2, <2>3, CommandKinds
  <2>5. OutcomeFits(Current)'
    <3>1. Outcome(Current)' = Outcome(Current)  BY <1>1 DEF Outcome
    <3>. QED BY <1>5, <2>1, <2>2, <3>1 DEF OutcomeFits
  <2>6. OperandsFit(Current)'
    <3>1. SUFFICES ASSUME fpu.left = 0
                   PROVE  /\ i[1] = "op" /\ i[2] # REG_RES => OpA' = First(isa, i)
                          /\ i[1] = "op" /\ i[3] # REG_RES => OpB' = Other(isa, i)
                          /\ SetsRegister(i) /\ i[3] # REG_RES => OpB' = Value(isa, i[3], i[4])
                          /\ i[1] = "cmp" => OpB' = Value(isa, IRS, i[3])
      BY <1>1, <1>5, <2>1 DEF OperandsFit
    <3>2. /\ i[1] = "op" /\ i[2] # REG_RES => OpA = First(isa, i)
          /\ i[1] = "op" /\ i[3] # REG_RES => OpB = Other(isa, i)
          /\ SetsRegister(i) /\ i[3] # REG_RES => OpB = Value(isa, i[3], i[4])
          /\ i[1] = "cmp" => OpB = Value(isa, IRS, i[3])
      BY <2>2, <3>1 DEF OperandsFit
    <3>3. CASE i[1] = "op" \/ SetsRegister(i) \/ i[1] = "cmp"
      <4>1. ~enI  BY <1>4, <2>1, <3>3 DEF SetsRegister
      <4>2. TakesOperands  BY <1>7, <2>3, <2>4, <3>1, <3>3 DEF TakesOperands
      <4>3. OperandsOf(ram') = OperandsOf(ram)  BY <4>1, <4>2
      <4>4. OpA' = OpA /\ OpB' = OpB
        <5>1. OpA = OperandsOf(ram).a /\ OpB = OperandsOf(ram).b  BY DEF OpA, OpB
        <5>2. OpA' = OperandsOf(ram').a /\ OpB' = OperandsOf(ram').b  BY <1>1 DEF OpA, OpB, OperandsOf
        <5>. QED BY <4>3, <5>1, <5>2
      <4>. QED BY <3>2, <4>4
    <3>4. CASE ~(i[1] = "op" \/ SetsRegister(i) \/ i[1] = "cmp")
      BY <3>4
    <3>. QED BY <3>3, <3>4
  <2>. QED BY <2>5, <2>6
<1>. QED BY <1>1, <1>2, <1>6, <1>7, StaysInStep

\* What holds EXEC: an external store without its answer, or an operation.
LEMMA ExecWaits ==
    ASSUME RegistersFit, PipelineInv, InStep, Running, Retiring, NEW i, i = Current,
           NEW ctl, NEW stalled, NEW ack, NEW fetched, NEW latency, Edge(ctl, stalled, ack, fetched, latency),
           ctl.stallExec
    PROVE  /\ \/ Stores(i) /\ WritesExternal /\ ~ack /\ fpu.left = 0 /\ x.cmd = CMD_MOV
              \/ x.cmd \in MultiCycle /\ ~Stores(i) /\ (i[1] = "op" \/ (i[1] = "unary" /\ i[2] = UNARY_LOG2))
           /\ fpu.left # 1 /\ ~x.goto /\ ctl.stallDecEx
           /\ ~Starts => fpu.left # 1 /\ (x.cmd \in MultiCycle => fpu.left > 1)
           /\ Starts => fpu.left = 0 /\ x.cmd \in MultiCycle
<1>1. core.en \subseteq Stages /\ fpu.left \in Nat /\ PipelineFits /\ BusyForExec
  BY DEF PipelineInv, PipelineFits
<1>2. /\ stalled \in BOOLEAN /\ fetched.valid \in BOOLEAN /\ ctl = Control(Dec, stalled, fetched.valid)
      /\ stalled <=> Request(Dec) # NoRequest /\ ~ack
  BY DEF Edge
<1>3. Active  BY DEF Retiring
<1>4. ExecStall(stalled) /\ ctl.stallDecEx  BY <1>1, <1>2, ControlFields
<1>5. /\ \/ stalled /\ ~Starts /\ fpu.left = 0
         \/ Starts /\ fpu.left = 0
         \/ ~Starts /\ fpu.left > 1
      /\ ~x.goto
  BY <1>1, <1>2, <1>3, <1>4, ExecHeld
<1>6. /\ i \in Instructions /\ (x.wrEn <=> Stores(i)) /\ x.cmd = Commands(i)
  BY Executing DEF Shows
<1>7. /\ Commands(i) \in MultiCycle => i[1] = "op" \/ (i[1] = "unary" /\ i[2] = UNARY_LOG2)
      /\ i[1] = "mov" => Commands(i) = CMD_MOV
  BY <1>6, CommandKinds
<1>8. CMD_MOV \notin MultiCycle
  BY DEF CMD_MOV, MultiCycle, CMD_ADD, CMD_SUB, CMD_MUL, CMD_DIV, CMD_LOG2, CMD_SHFT, CMD_MAC_RES
<1>9. Starts \/ fpu.left > 0 => x.cmd \in MultiCycle  BY <1>1 DEF Starts, BusyForExec
<1>10. CASE x.wrEn /\ x.wrExt
  <2>1. stalled  BY <1>4, <1>10 DEF ExecStall
  <2>2. Stores(i) /\ x.cmd = CMD_MOV  BY <1>6, <1>7, <1>10 DEF Stores
  <2>3. ~Starts /\ fpu.left = 0  BY <1>1, <1>8, <1>9, <2>2
  <2>. QED BY <1>2, <1>3, <1>4, <1>5, <1>8, <1>10, <2>1, <2>2, <2>3 DEF WritesExternal
<1>11. CASE ~(x.wrEn /\ x.wrExt)
  <2>1. ~Complete /\ ~Idle  BY <1>4, <1>11 DEF ExecStall
  <2>2. x.cmd \in MultiCycle  BY <1>1, <1>9, <2>1 DEF Idle
  <2>3. ~Stores(i)  BY <1>6, <1>7, <1>8, <2>2 DEF Stores
  <2>4. fpu.left # 1 /\ (fpu.left = 0 => Starts)
    BY <1>3, <2>1, <2>2 DEF Complete, Idle, Starts
  <2>. QED BY <1>1, <1>4, <1>5, <1>6, <1>7, <2>2, <2>3, <2>4 DEF Starts
<1>. QED BY <1>10, <1>11

\* The unit goes on with the operation of EXEC, or begins it.
LEMMA UnitWorks ==
    ASSUME RegistersFit, PipelineInv, InStep, Running, Retiring, NEW i, i = Current,
           NEW ctl, NEW stalled, NEW ack, NEW fetched, NEW latency, Edge(ctl, stalled, ack, fetched, latency),
           ctl.stallExec, ~Stores(i)
    PROVE  /\ fpu'.left > 0 /\ fpu'.res = Outcome(i)
           /\ fpu'.acc = IF x.cmd = CMD_MAC_RES THEN 0 ELSE isa.acc
<1>1. fpu.left \in Nat /\ fpu = [left |-> fpu.left, res |-> fpu.res, acc |-> fpu.acc] /\ PipelineFits /\ BusyForExec
  BY DEF PipelineInv, PipelineFits
<1>2. /\ x.cmd \in MultiCycle /\ (i[1] = "op" \/ (i[1] = "unary" /\ i[2] = UNARY_LOG2))
      /\ ~Starts => fpu.left > 1
      /\ Starts => fpu.left = 0
  BY ExecWaits
<1>3. latency \in Nat \ {0} /\ latency \in Latencies /\ fpu' = FpuEdge(latency)
  BY LatencyAssumption DEF Edge
<1>4. /\ i \in Instructions /\ Shows(i, isa.pc) /\ OutcomeFits(i) /\ x.cmd = Commands(i)
  BY Executing DEF Shows
<1>5. x.cmd = CMD_MAC_RES <=> i[1] = "op" /\ i[4] = CMD_MAC_RES  BY <1>4, CommandKinds
<1>6. fpu.acc = IF fpu.left > 0 /\ x.cmd = CMD_MAC_RES THEN 0 ELSE isa.acc  BY DEF InStep, ValuesFit
<1>7. x.cmd # CMD_MAC
  <2>1. CMD_MAC \notin MultiCycle
    BY DEF CMD_MAC, MultiCycle, CMD_ADD, CMD_SUB, CMD_MUL, CMD_DIV, CMD_LOG2, CMD_SHFT, CMD_MAC_RES
  <2>. QED BY <1>2, <2>1
<1>8. CASE Starts /\ x.cmd = CMD_MAC_RES
  <2>1. FpuEdge(latency) = [left |-> latency, res |-> fpu.acc, acc |-> 0]
    BY <1>7, <1>8, Zenon DEF FpuEdge, Starts
  <2>2. fpu.acc = isa.acc  BY <1>2, <1>6, <1>8
  <2>3. Outcome(i) = isa.acc  BY <1>5, <1>8 DEF Outcome
  <2>. QED BY <1>3, <1>8, <2>1, <2>2, <2>3
<1>9. CASE Starts /\ x.cmd # CMD_MAC_RES
  <2>1. FpuEdge(latency) = [fpu EXCEPT !.left = latency, !.res = Calc(x.cmd, OpA, OpB)]
    <3>1. AluEn /\ x.cmd \in MultiCycle  BY <1>9 DEF Starts
    <3>. QED BY <1>7, <1>9, <3>1, Zenon DEF FpuEdge
  <2>2. fpu.left = 0 /\ fpu.acc = isa.acc  BY <1>2, <1>6, <1>9
  <2>3. Calc(x.cmd, OpA, OpB) = Outcome(i)
    <3>1. CASE i[1] = "op"
      <4>1. i[4] # CMD_MAC_RES /\ x.cmd = i[4]  BY <1>4, <1>5, <1>9, <3>1 DEF Commands
      <4>2. OpA = First(isa, i) /\ OpB = Other(isa, i)  BY <2>2, <3>1, <4>1, RetiringOperands
      <4>. QED BY <3>1, <4>1, <4>2 DEF Outcome
    <3>2. CASE i[1] = "unary" /\ i[2] = UNARY_LOG2
      <4>1. x.cmd = CMD_LOG2  BY <1>4, <3>2 DEF Commands
      <4>2. OpA = isa.result  BY <2>2, <3>2, RetiringOperands
      <4>3. \A p, q, r : Calc(CMD_LOG2, p, q) = Calc(CMD_LOG2, p, r)
        BY DEF Calc, CMD_MOV, CMD_ADD, CMD_SUB, CMD_CMP, CMD_MUL, CMD_DIV, CMD_LOG2
      <4>4. Calc(x.cmd, OpA, OpB) = Calc(CMD_LOG2, isa.result, 0)  BY <4>1, <4>2, <4>3
      <4>. QED BY <3>2, <4>4 DEF Outcome
    <3>. QED BY <1>2, <3>1, <3>2
  <2>. QED BY <1>1, <1>3, <1>9, <2>1, <2>2, <2>3
<1>10. CASE ~Starts
  <2>1. FpuEdge(latency) = [fpu EXCEPT !.left = @ - 1]
    <3>1. ~(AluEn /\ x.cmd = CMD_MAC) /\ ~(AluEn /\ x.cmd = CMD_MAC_RES) /\ ~(AluEn /\ x.cmd \in MultiCycle)
      BY <1>2, <1>7, <1>10 DEF Starts
    <3>. QED BY <1>1, <1>2, <1>10, <3>1 DEF FpuEdge
  <2>2. fpu'.left = fpu.left - 1 /\ fpu'.res = fpu.res /\ fpu'.acc = fpu.acc  BY <1>1, <1>3, <2>1
  <2>3. fpu.left > 1  BY <1>2, <1>10
  <2>4. fpu.res = Outcome(i)  BY <1>1, <1>4, <2>3 DEF OutcomeFits
  <2>. QED BY <1>1, <1>6, <2>2, <2>3, <2>4
<1>. QED BY <1>8, <1>9, <1>10

\* An edge that holds EXEC leaves the core in step.
LEMMA Waited ==
    ASSUME ProgramFits, RegistersFit, PipelineInv, InStep, Running, Retiring,
           NEW ctl, NEW stalled, NEW ack, NEW fetched, NEW latency, Edge(ctl, stalled, ack, fetched, latency),
           ctl.stallExec, isa' = isa, prog' = prog
    PROVE  InStep'
<1>1. PICK i : i = Current  OBVIOUS
<1>2. /\ i \in Instructions /\ Shows(i, isa.pc) /\ Active /\ core.execNext /\ OperandsFit(i)
  BY <1>1, Executing
<1>3. /\ \/ Stores(i) /\ WritesExternal /\ ~ack /\ fpu.left = 0 /\ x.cmd = CMD_MOV
         \/ x.cmd \in MultiCycle /\ ~Stores(i) /\ (i[1] = "op" \/ (i[1] = "unary" /\ i[2] = UNARY_LOG2))
      /\ fpu.left # 1 /\ ~x.goto /\ ctl.stallDecEx
  BY <1>1, ExecWaits
<1>4. i[1] \in {"mov", "op", "unary"} /\ ~SetsRegister(i)
  BY <1>3 DEF Stores, SetsRegister, IRS, DEREF_AD0, DEREF_AD1, REG_AD0, REG_AD1, REG_IRS, REG_RES
<1>5. UNARY_LOG2 # UNARY_NEG /\ UNARY_LOG2 # UNARY_TRUNC  BY DEF UNARY_LOG2, UNARY_NEG, UNARY_TRUNC
<1>6. /\ ~x.wbEn /\ ~x.load /\ ~x.cmp /\ ~x.neg /\ ~x.trunc
      /\ ~core.dec.gotoConst /\ ~core.dec.loop /\ ~core.dec.busLock /\ ~core.dec.busUnlock
  <2>1. i[1] = "unary" => i[2] = UNARY_LOG2  BY <1>3 DEF Stores
  <2>. QED BY <1>2, <1>4, <1>5, <2>1 DEF Shows
<1>7. ~WritesReg(REG_AD0) /\ ~WritesReg(REG_AD1) /\ ~WritesReg(REG_IRS) /\ ~WritesReg(WBREG_NONE)
  BY <1>6 DEF WritesReg
<1>8. ~ExecComplete  BY <1>3, <1>6 DEF ExecComplete, Complete
<1>9. core.en \subseteq Stages /\ stalled \in BOOLEAN /\ fetched.valid \in BOOLEAN
      /\ ctl = Control(Dec, stalled, fetched.valid) /\ core' = CoreEdge(Dec, ctl, ack, fetched)
  BY DEF Edge, PipelineInv, PipelineFits
<1>10. (S_DECEX \in ctl.en <=> S_DECEX \in core.en) /\ (S_EXEC \in ctl.en <=> Active)
  BY <1>3, <1>9, ControlFields
<1>11. /\ core'.pc = core.pc /\ core'.fetch = core.fetch /\ core'.dec = core.dec /\ core'.decex = x
       /\ core'.irs = core.irs /\ core'.result = core.result /\ core'.loop = core.loop
       /\ core'.busLock = core.busLock /\ core'.en = ctl.en /\ core'.loadState = 1
  BY <1>2, <1>3, <1>6, <1>7, <1>8, <1>9 DEF CoreEdge, NextLoop, NextLoadState, Retiring
<1>12. core'.addr = core.addr
  <2>1. core.addr = <<core.addr[1], core.addr[2]>>  BY DEF InStep, ValuesFit, AddrFits
  <2>2. NextAddr(REG_AD0, Dec, ctl) = core.addr[1] /\ NextAddr(REG_AD1, Dec, ctl) = core.addr[2]
    BY <1>3, <1>7 DEF NextAddr, REG_AD0, REG_AD1
  <2>. QED BY <1>9, <2>1, <2>2 DEF CoreEdge
<1>13. core'.execNext = core.execNext
  <2>1. core'.execNext = NextExecNext  BY <1>9 DEF CoreEdge
  <2>2. ExecNext <=> core.execNext  BY <1>6 DEF ExecNext
  <2>3. core.execNext \in BOOLEAN  BY DEF PipelineInv, PipelineFits
  <2>. QED BY <1>2, <2>1, <2>2, <2>3 DEF NextExecNext
<1>14. x' = x /\ (S_DECEX \in core'.en <=> S_DECEX \in core.en) /\ (Active' <=> Active)
  BY <1>10, <1>11 DEF x, Active
<1>15. Current' = Current /\ (Retiring' <=> Retiring)
  BY <1>11, <1>14 DEF Current, Retiring
<1>16. MemFits'
  <2>1. /\ mem' = IF WritesLocal THEN [mem EXCEPT ![x.wrAddr % SharedAddrBase] = core.result] ELSE mem
        /\ ext' = IF WritesExternal /\ ack /\ x.wrAddr \in External THEN [ext EXCEPT ![x.wrAddr] = core.result] ELSE ext
        /\ ack \in BOOLEAN
    BY DEF Edge
  <2>. QED BY <1>15, <2>1, MemoryKept
<1>17. core'.loadState = core.loadState \/ (Retiring /\ Current[1] # "load" /\ core'.loadState = 1)
  BY <1>1, <1>4, <1>11
<1>18. CASE Stores(i)
  <2>1. fpu.left = 0 /\ x.cmd = CMD_MOV
    <3>1. CMD_MOV \notin MultiCycle
      BY DEF CMD_MOV, MultiCycle, CMD_ADD, CMD_SUB, CMD_MUL, CMD_DIV, CMD_LOG2, CMD_SHFT, CMD_MAC_RES
    <3>. QED BY <1>3, <1>18
  <2>2. fpu' = fpu
    <3>1. x.cmd \notin MultiCycle /\ x.cmd # CMD_MAC /\ x.cmd # CMD_MAC_RES
      BY <2>1
         DEF CMD_MOV, MultiCycle, CMD_ADD, CMD_SUB, CMD_MUL, CMD_DIV, CMD_LOG2, CMD_SHFT, CMD_MAC_RES,
             CMD_MAC
    <3>. QED BY <2>1, <3>1 DEF Edge, FpuEdge
  <2>3. fpu'.acc = IF Retiring /\ fpu'.left > 0 /\ x.cmd = CMD_MAC_RES THEN 0 ELSE isa.acc
    BY <2>2 DEF InStep, ValuesFit
  <2>4. OperandsFit(Current)' /\ OutcomeFits(Current)'
    <3>1. i[1] = "mov"  BY <1>18 DEF Stores
    <3>. QED BY <1>1, <1>4, <1>15, <2>1, <2>2, <3>1 DEF OperandsFit, OutcomeFits
  <2>. QED BY <1>11, <1>12, <1>13, <1>14, <1>16, <1>17, <2>3, <2>4, StaysInStep
<1>19. CASE ~Stores(i)
  <2>1. /\ fpu'.left > 0 /\ fpu'.res = Outcome(i)
        /\ fpu'.acc = IF x.cmd = CMD_MAC_RES THEN 0 ELSE isa.acc
    BY <1>1, <1>19, UnitWorks
  <2>2. OperandsFit(Current)'  BY <2>1 DEF OperandsFit
  <2>3. OutcomeFits(Current)'
    <3>1. Outcome(i)' = Outcome(i)  BY DEF Outcome, First, Other, Value, AddrOf, Cell
    <3>2. Outcome(Current)' = Outcome(i)'  BY <1>1, <1>15 DEF Outcome
    <3>. QED BY <2>1, <3>1, <3>2 DEF OutcomeFits
  <2>4. fpu'.acc = IF Retiring /\ fpu'.left > 0 /\ x.cmd = CMD_MAC_RES THEN 0 ELSE isa.acc
    BY <2>1
  <2>. QED BY <1>11, <1>12, <1>13, <1>14, <1>16, <1>17, <2>2, <2>3, <2>4, StaysInStep
<1>. QED BY <1>18, <1>19

-----------------------------------------------------------------------------
(* Every step.                                                             *)

\* After the reset the core is in step.
LEMMA InStepInit == Init => InStep
<1>. SUFFICES ASSUME Init PROVE InStep  OBVIOUS
<1>1. core = Reset /\ fpu = [left |-> 0, res |-> 0, acc |-> 0] /\ isa = IsaReset(InitMem, InitExt)
      /\ mem = InitMem /\ ext = InitExt
  BY DEF Init
<1>2. /\ core.en = Stages /\ core.fetch.valid = FALSE /\ core.dec.valid = FALSE /\ core.execNext = TRUE
      /\ core.pc = 0 /\ core.addr = <<0, 0>> /\ core.irs = 0 /\ core.result = 0 /\ core.loadState = 1
      /\ core.loop = [fresh |-> FALSE, n |-> 0] /\ core.busLock = FALSE
  BY <1>1 DEF Reset, Stages, NoLoop
<1>3. /\ x.wrEn = FALSE /\ x.wbEn = FALSE /\ x.load = FALSE /\ x.cmd = CMD_MOV /\ x.cmp = FALSE /\ x.neg = FALSE
      /\ x.trunc = FALSE /\ x.goto = FALSE
      /\ core.dec.gotoConst = FALSE /\ core.dec.loop = FALSE /\ core.dec.busLock = FALSE /\ core.dec.busUnlock = FALSE
  BY <1>1 DEF Reset, x
<1>4. /\ isa.pc = 0 /\ isa.result = 0 /\ isa.irs = 0 /\ isa.addr = <<0, 0>> /\ isa.mem = InitMem
      /\ isa.ext = InitExt /\ isa.loop = 0 /\ isa.part = 1 /\ isa.acc = 0 /\ isa.lock = FALSE
  BY <1>1 DEF IsaReset
<1>5. isa \in Machines
  <2>1. Nowhere \in Nat  BY MemoryAssumption, NumbersAssumption DEF Nowhere
  <2>2. InitMem \in [Local -> Nat]
    <3>1. \A n \in Local : (3 * n + 5) % Mod \in Nat
      <4>1. ASSUME NEW n \in Local PROVE (3 * n + 5) % Mod \in Nat
        <5>1. 3 * n + 5 \in Int /\ Mod \in Nat \ {0}  BY NumbersAssumption DEF Local
        <5>. QED BY <5>1, Remainder
      <4>. QED BY <4>1
    <3>. QED BY <3>1 DEF InitMem
  <2>3. InitExt \in [External -> Nat]
    <3>1. \A n \in External : (2 * n + 1) % Mod \in Nat
      <4>1. ASSUME NEW n \in External PROVE (2 * n + 1) % Mod \in Nat
        <5>1. 2 * n + 1 \in Int /\ Mod \in Nat \ {0}
          BY MemoryAssumption, NumbersAssumption DEF External
        <5>. QED BY <5>1, Remainder
      <4>. QED BY <4>1
    <3>. QED BY <3>1 DEF InitExt
  <2>4. <<0, 0>> \in [1 .. 2 -> Nat]  OBVIOUS
  <2>. QED BY <1>1, <2>1, <2>2, <2>3, <2>4 DEF IsaReset, Machines
<1>6. ~Retiring /\ ~InDecEx /\ Active  BY <1>2 DEF Retiring, InDecEx, Active, Stages
<1>7. FetchHolds /\ Working  BY <1>2, <1>6 DEF FetchHolds, Working
<1>8. ExecHolds  BY <1>3, <1>6 DEF ExecHolds, Empty
<1>9. SkipFits  BY <1>2 DEF SkipFits
<1>10. Position  BY <1>2, <1>4, <1>6 DEF Position, Following, Num
<1>11. LoopFits  BY <1>2, <1>4 DEF LoopFits
<1>12. AddrFits
  <2>1. \A r \in {0, 1} : core.addr[1 + r] = isa.addr[1 + r] + Num(Retiring /\ Advances(Current, r))
    BY <1>2, <1>4, <1>6 DEF Num
  <2>. QED BY <1>2, <2>1 DEF AddrFits
<1>13. ValuesFit  BY <1>1, <1>2, <1>4, <1>5, <1>11, <1>12 DEF ValuesFit
<1>14. MemFits  BY <1>1, <1>4 DEF MemFits
<1>. QED BY <1>7, <1>8, <1>9, <1>10, <1>13, <1>14 DEF InStep

\* What is fetched is an instruction, and the program keeps those it has.
LEMMA FetchSupplies ==
    ASSUME ProgramFits, NEW ctl, NEW cpStall \in BOOLEAN, NEW i, NEW fetched,
           fetched = [data |-> IF cpStall THEN NopCode ELSE Word(i), pc |-> core.pc, valid |-> ~cpStall],
           i \in IF (~cpStall /\ ~ctl.stallDecEx) /\ core.pc \in DOMAIN prog /\ prog[core.pc] = Unknown
                 THEN menu[core.pc] ELSE {InstrAt(prog, core.pc)},
           prog' = IF (~cpStall /\ ~ctl.stallDecEx) /\ core.pc \in DOMAIN prog THEN [prog EXCEPT ![core.pc] = i]
                   ELSE prog,
           ram' \in {<<mem[Addr0(Dec) % SharedAddrBase], m[Addr1(Dec) % SharedAddrBase]>> : m \in {mem, mem'}}
    PROVE  Supplies(ctl, fetched) /\ (ctl.stallDecEx => prog' = prog)
<1>1. DOMAIN prog' = DOMAIN prog  OBVIOUS
<1>2. \A n \in DOMAIN prog : /\ menu[n] \subseteq Instructions
                             /\ prog[n] = Unknown \/ prog[n] \in Instructions
  BY MenuAssumption DEF ProgramFits
<1>3. ASSUME NEW n, InstrAt(prog, n) \in Instructions PROVE InstrAt(prog', n) = InstrAt(prog, n)
  <2>1. CASE n \in DOMAIN prog /\ n = core.pc
    <3>1. prog[n] # Unknown  BY <1>3, <2>1, UnknownIsNone DEF InstrAt
    <3>2. i = prog[n]  BY <2>1, <3>1 DEF InstrAt
    <3>. QED BY <1>1, <2>1, <3>2 DEF InstrAt
  <2>2. CASE ~(n \in DOMAIN prog /\ n = core.pc)
    BY <1>1, <2>2 DEF InstrAt
  <2>. QED BY <2>1, <2>2
<1>4. ASSUME ~cpStall, ~ctl.stallDecEx
      PROVE  InstrAt(prog', core.pc) = i /\ i \in Instructions
  <2>1. CASE core.pc \in DOMAIN prog
    <3>1. InstrAt(prog', core.pc) = i  BY <1>1, <1>4, <2>1 DEF InstrAt
    <3>2. i \in Instructions
      <4>1. CASE prog[core.pc] = Unknown  BY <1>2, <1>4, <2>1, <4>1
      <4>2. CASE prog[core.pc] # Unknown
        <5>1. i = prog[core.pc]  BY <1>4, <2>1, <4>2 DEF InstrAt
        <5>. QED BY <1>2, <2>1, <4>2, <5>1
      <4>. QED BY <4>1, <4>2
    <3>. QED BY <3>1, <3>2
  <2>2. CASE core.pc \notin DOMAIN prog
    <3>1. i = Nop  BY <2>2 DEF InstrAt
    <3>. QED BY <1>1, <2>2, <3>1, UnknownIsNone DEF InstrAt
  <2>. QED BY <2>1, <2>2
<1>5. fetched.valid /\ ~ctl.stallDecEx => /\ InstrAt(prog', core.pc) \in Instructions
                                          /\ fetched.data = Word(InstrAt(prog', core.pc))
  BY <1>4
<1>6. \E m \in {mem, mem'} : ram' = <<mem[Addr0(Dec) % SharedAddrBase], m[Addr1(Dec) % SharedAddrBase]>>
  OBVIOUS
<1>7. ctl.stallDecEx => prog' = prog  OBVIOUS
<1>. QED BY <1>1, <1>3, <1>5, <1>6, <1>7 DEF Supplies

\* The core stays in step, at every edge at which no instruction loses its effect.
LEMMA InStepStep ==
    ASSUME ProgramFits, RegistersFit, PipelineInv, InStepInv, Next
    PROVE  InStepInv'
<1>1. PICK enI, cpStall, ack \in BOOLEAN : Cycle(Dec, enI, cpStall, ack)
  BY DEF Next
<1>. SUFFICES ASSUME lost' = "no" PROVE InStep'  BY DEF InStepInv
<1>. DEFINE stalled == Request(Dec) # NoRequest /\ ~ack
            ctl == Control(Dec, stalled, ~cpStall)
            enabled == StateEnable(enI, cpStall)
<1>2. Running /\ InStep  BY <1>1 DEF Cycle, Running, InStepInv
<1>3. Losses(Dec, ctl, enabled, enI) = "no"  BY <1>1 DEF Cycle
<1>4. /\ enabled => ~HeldUp(ctl) /\ ~BehindLoop(Dec, ctl) /\ ~Unstarted
      /\ ~enI /\ TakesOperands => OperandsOf(ram') = OperandsOf(ram)
  BY <1>3 DEF Losses, StateEnable
<1>5. /\ mem' = IF WritesLocal THEN [mem EXCEPT ![x.wrAddr % SharedAddrBase] = core.result] ELSE mem
      /\ ext' = IF WritesExternal /\ ack /\ x.wrAddr \in External THEN [ext EXCEPT ![x.wrAddr] = core.result] ELSE ext
      /\ ram' \in {<<mem[Addr0(Dec) % SharedAddrBase], m[Addr1(Dec) % SharedAddrBase]>> : m \in {mem, mem'}}
      /\ isa' = IF Retiring /\ enabled /\ ~ctl.stallExec THEN IsaStep(isa, Current) ELSE isa
  BY <1>1 DEF Cycle
<1>6. fpu' \in IF enI THEN {FpuEdge(latency) : latency \in Latencies} ELSE {fpu}  BY <1>1 DEF Cycle
<1>7. CASE enabled
  <2>1. enI  BY <1>7 DEF StateEnable
  <2>2. PICK latency \in Latencies : fpu' = FpuEdge(latency)  BY <1>6, <2>1
  <2>3. PICK i \in IF (~cpStall /\ ~ctl.stallDecEx) /\ core.pc \in DOMAIN prog /\ prog[core.pc] = Unknown
                   THEN menu[core.pc] ELSE {InstrAt(prog, core.pc)} :
            /\ prog' = IF (~cpStall /\ ~ctl.stallDecEx) /\ core.pc \in DOMAIN prog THEN [prog EXCEPT ![core.pc] = i]
                       ELSE prog
            /\ core' = CoreEdge(Dec, ctl, ack, [data |-> IF cpStall THEN NopCode ELSE Word(i), pc |-> core.pc,
                                                valid |-> ~cpStall])
    BY <1>1, <1>7 DEF Cycle
  <2>4. PICK fetched : fetched = [data |-> IF cpStall THEN NopCode ELSE Word(i), pc |-> core.pc, valid |-> ~cpStall]
    OBVIOUS
  <2>5. fetched.valid = ~cpStall /\ fetched.pc = core.pc  BY <2>4
  <2>6. Supplies(ctl, fetched) /\ (ctl.stallDecEx => prog' = prog)
    BY <1>5, <2>3, <2>4, FetchSupplies
  <2>7. Edge(ctl, stalled, ack, fetched, latency)
    BY <1>4, <1>5, <1>7, <2>2, <2>3, <2>4, <2>5 DEF Edge
  <2>. HIDE DEF stalled, ctl
  <2>8. CASE Retiring /\ ~ctl.stallExec
    <3>1. isa' = IsaStep(isa, Current)  BY <1>5, <1>7, <2>8
    <3>2. Done(~fetched.valid)  BY <1>2, <2>7, <2>8, <3>1, RetiredIsDone
    <3>. QED BY <1>2, <2>6, <2>7, <2>8, <3>2, Advanced
  <2>9. CASE Retiring /\ ctl.stallExec
    <3>1. isa' = isa  BY <1>5, <2>9
    <3>2. ctl.stallDecEx  BY <1>2, <2>7, <2>9, ExecWaits
    <3>. QED BY <1>2, <2>6, <2>7, <2>9, <3>1, <3>2, Waited
  <2>10. CASE ~Retiring
    <3>1. isa' = isa  BY <1>5, <2>10
    <3>2. Done(~fetched.valid)  BY <1>2, <2>7, <2>10, <3>1, NoneIsDone
    <3>3. ~ctl.stallExec  BY <1>2, <2>7, <2>10, NoneHolds
    <3>. QED BY <1>2, <2>6, <2>7, <3>2, <3>3, Advanced
  <2>. QED BY <2>8, <2>9, <2>10
<1>8. CASE ~enabled
  <2>1. core' = core /\ prog' = prog  BY <1>1, <1>8 DEF Cycle
  <2>2. isa' = isa  BY <1>5, <1>8
  <2>3. enI => Active /\ x.goto  BY <1>8 DEF StateEnable, NextPc
  <2>4. IF enI THEN \E latency \in Latencies : fpu' = FpuEdge(latency) ELSE fpu' = fpu  BY <1>6
  <2>. HIDE DEF enabled, ctl, stalled
  <2>. QED BY <1>2, <1>4, <1>5, <2>1, <2>2, <2>3, <2>4, Halted
<1>. QED BY <1>7, <1>8

\* What it means to be in step.
LEMMA InStepAgrees == InStep => Agree
<1>. SUFFICES ASSUME InStep PROVE Agree  OBVIOUS
<1>. DEFINE ahead == IF Retiring /\ x.wrEn THEN Stored(isa, Current) ELSE isa
<1>1. isa \in Machines /\ LoopFits /\ AddrFits  BY DEF InStep, ValuesFit
<1>2. isa.addr \in [1 .. 2 -> Nat] /\ isa.mem \in [Local -> Nat] /\ isa.ext \in [External -> Nat]
  BY <1>1 DEF Machines
<1>3. /\ Retiring => core.dec.curPc = isa.pc
      /\ core.result = isa.result /\ core.irs = isa.irs /\ core.busLock = isa.lock
      /\ fpu.acc = isa.acc \/ (fpu.left > 0 /\ x.cmd = CMD_MAC_RES)
  BY DEF InStep, ExecHolds, ValuesFit
<1>4. isa.loop = CASE core.loop.n < 0 -> 0 [] core.loop = [fresh |-> TRUE, n |-> 0] -> 1 [] OTHER -> core.loop.n
  <2>1. /\ core.loop = [fresh |-> core.loop.fresh, n |-> core.loop.n] /\ core.loop.n \in Int
        /\ core.loop.fresh \in BOOLEAN
        /\ isa.loop = IF core.loop.n < 0 THEN 0 ELSE IF core.loop.n = 0 /\ core.loop.fresh THEN 1 ELSE core.loop.n
    BY <1>1 DEF LoopFits
  <2>2. core.loop = [fresh |-> TRUE, n |-> 0] <=> core.loop.n = 0 /\ core.loop.fresh
    <3>1. ASSUME core.loop = [fresh |-> TRUE, n |-> 0] PROVE core.loop.n = 0 /\ core.loop.fresh  BY <3>1
    <3>2. ASSUME core.loop.n = 0, core.loop.fresh PROVE core.loop = [fresh |-> TRUE, n |-> 0]
      <4>1. core.loop.fresh = TRUE  BY <2>1, <3>2
      <4>. QED BY <2>1, <3>2, <4>1
    <3>. QED BY <3>1, <3>2
  <2>. QED BY <2>1, <2>2
<1>5. core.addr = IF Retiring THEN Incremented(isa.addr, Current) ELSE isa.addr
  <2>1. /\ core.addr = <<core.addr[1], core.addr[2]>>
        /\ core.addr[1 + 0] = isa.addr[1 + 0] + Num(Retiring /\ Advances(Current, 0))
        /\ core.addr[1 + 1] = isa.addr[1 + 1] + Num(Retiring /\ Advances(Current, 1))
    BY <1>1 DEF AddrFits
  <2>2. CASE Retiring
    <3>1. /\ Incremented(isa.addr, Current) \in [1 .. 2 -> Nat]
          /\ Incremented(isa.addr, Current)[1] = isa.addr[1] + Num(Advances(Current, 0))
          /\ Incremented(isa.addr, Current)[2] = isa.addr[2] + Num(Advances(Current, 1))
      BY <1>2, IncrementsTyped
    <3>2. /\ Num(Retiring /\ Advances(Current, 0)) = Num(Advances(Current, 0))
          /\ Num(Retiring /\ Advances(Current, 1)) = Num(Advances(Current, 1))
      BY <2>2 DEF Num
    <3>. QED BY <2>1, <2>2, <3>1, <3>2
  <2>3. CASE ~Retiring
    <3>1. Num(Retiring /\ Advances(Current, 0)) = 0 /\ Num(Retiring /\ Advances(Current, 1)) = 0
      BY <2>3 DEF Num
    <3>2. core.addr[1] = isa.addr[1] /\ core.addr[2] = isa.addr[2]  BY <1>2, <2>1, <3>1
    <3>. QED BY <1>2, <2>1, <2>3, <3>2
  <2>. QED BY <2>2, <2>3
<1>6. mem \in {isa.mem, ahead.mem} /\ ext \in {isa.ext, ahead.ext}
  <2>. DEFINE n == Place(isa, Current)
  <2>1. /\ mem = isa.mem \/ (Writes(Current) /\ n \in Local /\ mem = [isa.mem EXCEPT ![n] = isa.result])
        /\ ext = isa.ext \/ (Writes(Current) /\ n \notin Local /\ ext = [isa.ext EXCEPT ![n] = isa.result])
    BY DEF InStep, MemFits
  <2>2. CASE ~Writes(Current)
    BY <2>1, <2>2
  <2>3. CASE Writes(Current)
    <3>1. Retiring /\ Stores(Current) /\ Shows(Current, isa.pc)  BY <2>3 DEF Writes, InStep, ExecHolds
    <3>2. x.wrEn  BY <3>1 DEF Shows
    <3>3. ahead = Stored(isa, Current)  BY <3>1, <3>2
    <3>4. Stored(isa, Current) = IF n \in Local THEN [isa EXCEPT !.mem[n] = isa.result, !.last = n]
                                 ELSE [isa EXCEPT !.ext[n] = isa.result]
      BY DEF Stored, Place
    <3>. HIDE DEF n, ahead
    <3>5. n \in Local => ahead.mem = [isa.mem EXCEPT ![n] = isa.result]  BY <1>1, <3>3, <3>4 DEF Machines
    <3>6. n \notin Local => ahead.ext = [isa.ext EXCEPT ![n] = isa.result]  BY <1>1, <3>3, <3>4 DEF Machines
    <3>. QED BY <2>1, <3>5, <3>6
  <2>. QED BY <2>2, <2>3
<1>. QED BY <1>3, <1>4, <1>5, <1>6 DEF Agree

\* Whatever the program, the latencies and the waits, an instruction does in the pipeline
\* what it does alone, but for the four cases that are named: after every edge without
\* one the registers, the memories, the sum, the loop counter and the bus lock of the
\* core are those of the sequential machine.
THEOREM CoreRetiresLikeIsa == Spec => []RetiresLikeIsa
<1>. DEFINE Inv == ProgramFits /\ RegistersFit /\ PipelineInv /\ InStepInv
<1>1. Init => Inv
  BY CoreInit, PipelineInit, InStepInit DEF CoreInv, InStepInv
<1>2. Inv /\ [Next]_vars => Inv'
  <2>. SUFFICES ASSUME Inv, [Next]_vars PROVE Inv'  OBVIOUS
  <2>1. CASE Next  BY <2>1, ProgramStep, RegistersStep, PipelineStep, InStepStep
  <2>2. CASE UNCHANGED vars
    <3>1. ProgramFits' /\ RegistersFit'  BY <2>2 DEF vars, ProgramFits, RegistersFit
    <3>2. PipelineInv'
      BY <2>2 DEF vars, PipelineInv, PipelineFits, Starting, BusyForExec, InTime, Retiring, Active, x
    <3>3. InStepInv'
      <4>1. InStepInv' <=> InStepInv
        BY <2>2
       
                 DEF vars, InStepInv, InStep, FetchHolds, ExecHolds, SkipFits, Position, ValuesFit,
                     LoopFits, AddrFits, MemFits, Working,
            Retiring, Active, x, Current, InDecEx, Following, Shows, Empty, Writes, GotoFits, StoreFits, OperandsFit,
            OutcomeFits, Outcome, LoopEnds, OpA, OpB, OperandsOf
      <4>. QED BY <4>1
    <3>. QED BY <3>1, <3>2, <3>3
  <2>. QED BY <2>1, <2>2
<1>3. Inv => RetiresLikeIsa  BY InStepAgrees DEF InStepInv, RetiresLikeIsa
<1>. QED BY <1>1, <1>2, <1>3, PTL DEF Spec
=============================================================================
