------------------------------- MODULE SLCore -------------------------------
(***************************************************************************)
(* The processor in hardware: sl_core.vhd with its stages, and around it   *)
(* what sl_processor.vhd puts there, the local memory, the start and the   *)
(* end of an operation of the floating point unit, and the port to the     *)
(* data cache.  One step is one rising edge of clk_i.  The operators over  *)
(* unprimed variables are the wires before the edge.  The sequential       *)
(* machine of SLIsa runs beside the core, as it does in SLProcessor.       *)
(***************************************************************************)
EXTENDS SLDecode

CONSTANTS Menus,        \* the programs to run: for each address the instructions to choose from
          MaxStalls,    \* cycles in which memory or fetch let the core wait, or it is disabled
          Latencies     \* cycles the floating point unit may take

ASSUME MenuAssumption ==
    \A m \in Menus : DOMAIN m \subseteq Addresses /\ \A n \in DOMAIN m : m[n] \subseteq Instructions
ASSUME LatencyAssumption == Latencies # {} /\ Latencies \subseteq Nat \ {0}

VARIABLES menu, prog,   \* the program, its instructions chosen when they are first fetched
          core,         \* the registers of sl_core
          fpu,          \* cycles until the operation under way is complete, its result, the sum
          ram,          \* the two outputs of the local memory
          mem, ext,     \* local and external memory
          isa,          \* the sequential machine
          lost,         \* why the core has left the sequential machine, see Losses
          stalls,       \* cycles with a wait from outside so far
          quiet,        \* cycles without one since an instruction left EXEC
          asked,        \* the data request that was not answered and has to stay
          sought        \* the code address that was not answered, or NoFetch
vars == <<menu, prog, core, fpu, ram, mem, ext, isa, lost, stalls, quiet, asked, sought>>

Unknown == <<"unknown">>
InstrAt(p, addr) == IF addr \in DOMAIN p THEN p[addr] ELSE Nop
NoLoop == [fresh |-> FALSE, n |-> 0]     \* loop_count: bit 31 and the number
NoRequest == [rw |-> FALSE, addr |-> -1]
NoFetch == -1

x == core.decex
Active == S_EXEC \in core.en
Dec == Decode(core.fetch, core)

-----------------------------------------------------------------------------
(* EXEC: operands, the floating point unit, what the instruction yields.   *)

OperandsOf(outputs) == [a |-> IF x.mux0 = MUX1_MEM THEN outputs[1] ELSE core.result,
                        b |-> IF x.wrExt THEN x.memX ELSE outputs[2]]
OpA == OperandsOf(ram).a
OpB == OperandsOf(ram).b
IntResult == IF x.irsWb THEN OpB ELSE OpA

MultiCycle == {CMD_ADD, CMD_SUB, CMD_MUL, CMD_DIV, CMD_LOG2, CMD_SHFT, CMD_MAC_RES}
AluEn    == Active /\ ~core.disableAlu
Complete == fpu.left = 1
Idle     == fpu.left = 0 /\ ~(x.cmd \in MultiCycle /\ AluEn)

Loaded(fragment) == (IF core.loadState = 1 THEN 0 ELSE core.result)
                        + fragment * Weight(core.loadState)
ExecResult ==
    IF Active /\ x.trunc     THEN Truncated(core.result)
    ELSE IF Active /\ x.neg  THEN Negated(core.result)
    ELSE IF Active /\ x.load THEN Loaded(x.loadData)
    ELSE IF x.cmd = CMD_MOV  THEN OpB
    ELSE IF Complete         THEN fpu.res ELSE Garbage
ExecComplete == Complete \/ (Active /\ (x.load \/ x.neg \/ x.trunc))
ExecNext == IF Active /\ x.cmp THEN Holds(x.cmpMode, OpA, OpB) ELSE core.execNext
ExecStall(extMemStall) == IF x.wrEn /\ x.wrExt THEN extMemStall ELSE ~Complete /\ ~Idle

\* Mutant: an operation that waits for its unit is started again and again.
NextDisableAluNever == FALSE
\* An operation is started in its first cycle only.
NextDisableAlu == ~(~Active \/ Complete \/ x.cmd \in {CMD_MOV, CMD_INVALID, CMD_MAC})

\* The floating point unit at the edge.  latency is what the operation will take.
FpuEdge(latency) ==
    IF AluEn /\ x.cmd = CMD_MAC THEN [fpu EXCEPT !.acc = (@ + OpA * OpB) % Mod]
    ELSE IF AluEn /\ x.cmd = CMD_MAC_RES THEN [left |-> latency, res |-> fpu.acc, acc |-> 0]
    ELSE IF AluEn /\ x.cmd \in MultiCycle
         THEN [fpu EXCEPT !.left = latency, !.res = Calc(x.cmd, OpA, OpB)]
    ELSE IF fpu.left > 0 THEN [fpu EXCEPT !.left = @ - 1]
    ELSE fpu

-----------------------------------------------------------------------------
(* DECEX: addresses, requests, the reasons to wait.                        *)

WritesLocal    == Active /\ x.wrEn /\ ~x.wrExt
WritesExternal == Active /\ x.wrEn /\ x.wrExt
Addr0(d) == IF WritesLocal THEN x.wrAddr ELSE core.addr[1 + d.muxAD0]
Addr1(d) == IF d.enIRS THEN d.irsAddr ELSE core.addr[1 + d.muxAD1]

\* What the core asks of the data cache.
Request(d) ==
    IF WritesExternal THEN [rw |-> TRUE, addr |-> x.wrAddr]
    ELSE IF d.memEx /\ d.enADr1 /\ ~d.enMEM THEN [rw |-> FALSE, addr |-> core.addr[2]]
    ELSE NoRequest

LoopEnds == core.loop.n \in {0, 1} /\ (core.loop.fresh \/ core.loop.n = 1)

DecodeEx(d, ack) ==
    LET asks == Request(d)
    IN  [mux0 |-> d.muxA, irsWb |-> d.enIRS,
         memX |-> IF ack /\ asks.addr \in External THEN ext[asks.addr] ELSE Garbage,
         wrAddr |-> Addr1(d), wrEn |-> d.enMEM, wrExt |-> d.memEx, wbEn |-> d.enREG, wbReg |-> d.wbREG,
         load |-> d.load, loadData |-> d.loadData, cmd |-> d.cmd, cmp |-> d.cmp,
         cmpMode |-> d.cmpMode, goto |-> d.goto /\ ~LoopEnds, neg |-> d.neg, trunc |-> d.trunc]

\* The register the instruction in EXEC writes is one that DECEX needs.
WaitsForRegister(d) ==
    /\ Active /\ x.wbEn
    /\ \/ d.enADr0 /\ d.muxAD0 = x.wbReg
       \/ (d.enADr1 \/ d.enMEM) /\ d.muxAD1 = x.wbReg
       \/ d.enIRS /\ x.wbReg = REG_IRS
\* Mutants: a read does not wait for its answer; a write that has left EXEC goes on
\* holding port 0.
DecExStallAsksOnly(d, extMemStall) ==
    \/ WaitsForRegister(d)
    \/ d.muxA = MUX1_MEM /\ x.wrEn /\ Active
    \/ d.enADr1 /\ d.memEx /\ WritesExternal
DecExStallForever(d, extMemStall) ==
    \/ WaitsForRegister(d)
    \/ d.muxA = MUX1_MEM /\ x.wrEn
    \/ d.enADr1 /\ d.memEx /\ (WritesExternal \/ extMemStall)
DecExStall(d, extMemStall) ==
    \/ WaitsForRegister(d)
    \/ d.muxA = MUX1_MEM /\ x.wrEn /\ Active
    \/ d.enADr1 /\ d.memEx /\ (WritesExternal \/ extMemStall)

-----------------------------------------------------------------------------
(* Control.                                                                *)

Control(d, extMemStall, fetchValid) ==
    LET stallExec  == ExecStall(extMemStall) /\ Active
        stallDecEx == (DecExStall(d, extMemStall) /\ S_DECEX \in core.en) \/ stallExec
        mayExecute == core.execNext /\ (Active => ExecNext)
        flush      == x.goto /\ Active
    IN  [stallExec |-> stallExec, stallDecEx |-> stallDecEx, flush |-> flush,
         en |-> IF flush THEN {S_FETCH}
                ELSE IF ~stallDecEx
                     THEN {S_FETCH} \cup (IF fetchValid THEN {S_DECEX} ELSE {})
                          \cup (IF S_DECEX \in core.en /\ mayExecute THEN {S_EXEC} ELSE {})
                ELSE IF ~stallExec THEN core.en \ {S_EXEC}
                ELSE core.en]

NextPc(cpStall) ==
    IF Active /\ x.goto THEN (IF core.dec.gotoConst THEN core.dec.jmpTarget ELSE IntResult)
    ELSE IF cpStall THEN core.pc ELSE core.pc + 1

\* Mutant: without the fix for the code cache.
StateEnableAlways(enI, cpStall) == enI
\* While the fetch waits the program counter must not change: a jump waits too.
StateEnable(enI, cpStall) == enI /\ (NextPc(cpStall) = core.pc \/ ~cpStall)

-----------------------------------------------------------------------------
(* The registers.                                                          *)

WritesReg(reg) == Active /\ x.wbEn /\ x.wbReg = reg

NextAddr(r, d, ctl) ==
    IF WritesReg(r) THEN IntResult
    ELSE IF S_DECEX \in core.en /\ ExecNext /\ ~ctl.stallDecEx /\ ~ctl.flush
         THEN core.addr[1 + r] + Num(d.inc[1 + r])
    ELSE core.addr[1 + r]

NextLoop ==
    IF Active /\ core.dec.loop THEN [fresh |-> TRUE, n |-> IntResult]
    ELSE IF Active /\ core.dec.gotoConst /\ core.dec.jmpBack /\ core.loop # NoLoop
         THEN [fresh |-> FALSE, n |-> IF core.loop.n <= 0 THEN -1 ELSE core.loop.n - 1]
    ELSE core.loop

NextLoadState ==
    IF Active /\ core.dec.valid THEN (IF x.load THEN core.loadState + 1 ELSE 1) ELSE core.loadState

\* A skip whose instruction is not there yet is remembered.
NextExecNext ==
    IF core.fetch.valid THEN TRUE ELSE IF ~ExecNext THEN FALSE ELSE core.execNext

\* What EXEC needs of the decoding of its own instruction.
Kept(d) == [curPc |-> d.curPc, gotoConst |-> d.gotoConst, jmpBack |-> d.jmpBack, jmpTarget |-> d.jmpTarget,
            loop |-> d.loop, busLock |-> d.busLock, busUnlock |-> d.busUnlock, valid |-> core.fetch.valid]

CoreEdge(d, ctl, ack, fetched) ==
    [pc |-> IF ctl.stallDecEx THEN core.pc ELSE NextPc(~fetched.valid),
     addr |-> <<NextAddr(REG_AD0, d, ctl), NextAddr(REG_AD1, d, ctl)>>,
     irs |-> IF WritesReg(REG_IRS) THEN IntResult ELSE core.irs,
     result |-> IF ExecComplete \/ WritesReg(WBREG_NONE) THEN ExecResult ELSE core.result,
     loadState |-> NextLoadState, loop |-> NextLoop, execNext |-> NextExecNext, en |-> ctl.en,
     busLock |-> IF Active /\ (core.dec.busLock \/ core.dec.busUnlock) THEN ~core.dec.busUnlock ELSE core.busLock,
     disableAlu |-> NextDisableAlu,
     fetch |-> IF ctl.stallDecEx THEN core.fetch ELSE fetched,
     dec |-> IF ctl.stallDecEx THEN core.dec ELSE Kept(d),
     decex |-> IF ctl.stallDecEx THEN x ELSE DecodeEx(d, ack)]

Reset ==
    [pc |-> 0, addr |-> <<0, 0>>, irs |-> 0, result |-> 0, loadState |-> 1, loop |-> NoLoop,
     execNext |-> TRUE, en |-> {S_FETCH, S_DECEX, S_EXEC}, busLock |-> FALSE, disableAlu |-> FALSE,
     fetch |-> [data |-> 0, pc |-> 0, valid |-> FALSE],
     dec |-> [curPc |-> 0, gotoConst |-> FALSE, jmpBack |-> FALSE, jmpTarget |-> 0, loop |-> FALSE,
              busLock |-> FALSE, busUnlock |-> FALSE, valid |-> FALSE],
     decex |-> [mux0 |-> 0, irsWb |-> FALSE, memX |-> 0, wrAddr |-> 0, wrEn |-> FALSE, wrExt |-> FALSE,
                wbEn |-> FALSE, wbReg |-> 0, load |-> FALSE, loadData |-> 0, cmd |-> CMD_MOV, cmp |-> FALSE,
                cmpMode |-> 0, goto |-> FALSE, neg |-> FALSE, trunc |-> FALSE]]

InitMem == [n \in Local |-> (3 * n + 5) % Mod]
InitExt == [n \in External |-> (2 * n + 1) % Mod]

Init ==
    /\ menu \in Menus
    /\ prog = [n \in DOMAIN menu |-> Unknown]
    /\ core = Reset /\ fpu = [left |-> 0, res |-> 0, acc |-> 0] /\ ram = <<0, 0>>
    /\ mem = InitMem /\ ext = InitExt /\ isa = IsaReset(InitMem, InitExt)
    /\ lost = "no" /\ stalls = 0 /\ quiet = 0 /\ asked = NoRequest /\ sought = NoFetch

-----------------------------------------------------------------------------
(* One clock edge, with d, what the decoder says of the word in DECEX.     *)

\* The instruction in EXEC, and whether the program goes on.
Retiring == Active /\ core.dec.valid
Current == InstrAt(prog, isa.pc)
Running == isa.pc \in DOMAIN prog /\ lost = "no" /\ (Current # Unknown => Allowed(isa, Current))

\* How an instruction can lose its effect.  A jump or a skip takes place in one
\* cycle, and not when DECEX is held in it.  A goto right behind the one that ends a
\* hardware loop is dropped with it.  An operation right behind a comparison is
\* never started.  While the core is disabled the local memory goes on to the
\* operands of the instruction in DECEX, and those in EXEC are gone.
HeldUp(ctl) == ctl.stallDecEx /\ (ctl.flush \/ (S_DECEX \in core.en /\ ~ExecNext))
BehindLoop(d, ctl) == /\ Active /\ core.dec.gotoConst /\ core.dec.jmpBack /\ LoopEnds
                   /\ S_DECEX \in core.en /\ d.goto /\ ~ctl.stallDecEx
Unstarted == Active /\ core.disableAlu /\ fpu.left = 0 /\ x.cmd \in MultiCycle \cup {CMD_MAC}
TakesOperands == Retiring /\ fpu.left = 0 /\ (x.wbEn \/ x.cmp \/ x.cmd \in MultiCycle \cup {CMD_MAC})
Losses(d, ctl, enabled, enI) ==
    IF enabled /\ HeldUp(ctl)             THEN "held"
    ELSE IF enabled /\ BehindLoop(d, ctl) THEN "behind"
    ELSE IF enabled /\ Unstarted          THEN "unstarted"
    ELSE IF ~enI /\ TakesOperands /\ OperandsOf(ram') # OperandsOf(ram) THEN "disabled"
    ELSE "no"

\* A read is given up when its instruction has been flushed, or when the register that
\* gives its address or the one that says that it is external is written.
GivenUp(d) == ~Request(d).rw /\ (S_DECEX \notin core.en \/ WritesReg(REG_AD1) \/ WritesReg(d.muxAD1))

Cycle(d, enI, cpStall, extMemAck) ==
    LET extMemStall == Request(d) # NoRequest /\ ~extMemAck
        ctl == Control(d, extMemStall, ~cpStall)
        enabled == StateEnable(enI, cpStall)
        fetches == enabled /\ ~cpStall /\ ~ctl.stallDecEx
        waits == ~enI \/ cpStall \/ extMemStall
    IN  /\ Running
        /\ waits => stalls < MaxStalls
        /\ \E i \in IF fetches /\ core.pc \in DOMAIN prog /\ prog[core.pc] = Unknown THEN menu[core.pc]
                    ELSE {InstrAt(prog, core.pc)} :
             /\ prog' = IF fetches /\ core.pc \in DOMAIN prog THEN [prog EXCEPT ![core.pc] = i] ELSE prog
             /\ core' = IF enabled
                        THEN CoreEdge(d, ctl, extMemAck, [data |-> IF cpStall THEN NopCode ELSE Word(i), pc |-> core.pc,
                                                 valid |-> ~cpStall])
                        ELSE core
        /\ fpu' \in IF enI THEN {FpuEdge(latency) : latency \in Latencies} ELSE {fpu}
        /\ mem' = IF WritesLocal THEN [mem EXCEPT ![x.wrAddr % SharedAddrBase] = core.result] ELSE mem
        /\ ext' = IF WritesExternal /\ extMemAck /\ x.wrAddr \in External
                  THEN [ext EXCEPT ![x.wrAddr] = core.result] ELSE ext
        \* A word that port 0 writes is read through port 1 as it was or as it will be.
        /\ ram' \in {<<mem[Addr0(d) % SharedAddrBase], m[Addr1(d) % SharedAddrBase]>> : m \in {mem, mem'}}
        /\ isa' = IF Retiring /\ enabled /\ ~ctl.stallExec THEN IsaStep(isa, Current) ELSE isa
        /\ lost' = Losses(d, ctl, enabled, enI)
        /\ stalls' = stalls + Num(waits)
        /\ quiet' = IF Retiring /\ enabled /\ ~ctl.stallExec THEN 0 ELSE IF waits THEN quiet ELSE quiet + 1
        /\ asked' = IF extMemStall /\ ~GivenUp(d) THEN Request(d) ELSE NoRequest
        /\ sought' = IF enI /\ cpStall THEN core.pc ELSE NoFetch
        /\ UNCHANGED menu

\* A core that is disabled asks the code cache for nothing and gets nothing.
Next == \E d \in {Dec}, enI, cpStall, extMemAck \in BOOLEAN :
           /\ enI \/ cpStall
           /\ extMemAck => Request(d) # NoRequest
           /\ Cycle(d, enI, cpStall, extMemAck)

Spec == Init /\ [][Next]_vars

-----------------------------------------------------------------------------
(* Properties.                                                             *)

\* The instruction in EXEC is the next one of the program, and result, the base of
\* the intermediate results, the memories, the sum of the multiply-accumulate unit,
\* the loop counter and the bus lock are those of the sequential machine.  An address register is incremented one stage early, a write
\* may be done before its instruction leaves EXEC, and a sum is fetched when the
\* operation begins.
Agree ==
    LET ahead == IF Retiring /\ x.wrEn THEN Stored(isa, Current) ELSE isa
    IN  /\ Retiring => core.dec.curPc = isa.pc
        /\ core.result = isa.result /\ core.irs = isa.irs /\ core.busLock = isa.lock
        /\ mem \in {isa.mem, ahead.mem} /\ ext \in {isa.ext, ahead.ext}
        /\ fpu.acc = isa.acc \/ (fpu.left > 0 /\ x.cmd = CMD_MAC_RES)
        /\ isa.loop = CASE core.loop.n < 0 -> 0 [] core.loop = [fresh |-> TRUE, n |-> 0] -> 1 [] OTHER -> core.loop.n
        /\ core.addr = IF Retiring THEN Incremented(isa.addr, Current) ELSE isa.addr

\* Whatever memory, fetch and floating point unit let it wait, and whatever is under
\* way before it, an instruction does in the hardware what it does alone, but for
\* the four cases of Losses.
RetiresLikeIsa == lost = "no" => Agree

\* The stages never wait for each other: without a wait from outside an instruction
\* leaves EXEC within the time of an operation and the cycles to fill the pipeline.
NeverStuck == \E l \in Latencies : quiet <= l + 3

\* The code cache sees one address until it has answered, also when a jump is due:
\* the address the core fetches from does not change while the fetch waits.
FetchIsSteady == sought # NoFetch => core.pc = sought

\* A data request that is not answered is repeated, with its address, until it is: a
\* write always, a read unless it is given up.  The cache keeps no copy of it.
RequestsStay == asked # NoRequest => Request(Dec) = asked
=============================================================================
