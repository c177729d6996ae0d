----------------------------- MODULE SLProcessor ----------------------------
(***************************************************************************)
(* The cycle accurate simulator of the processor (SLProcessor.cpp): fetch, *)
(* decode with memory access (DECEX) and execute, the stalls between them  *)
(* and the flush after a jump.  One step is one call of update().  The     *)
(* sequential machine of SLIsa runs beside it, one instruction for each    *)
(* that leaves EXEC, and the two are compared.                             *)
(***************************************************************************)
EXTENDS SLDecode

CONSTANTS Menus,        \* the programs to run: for each address the instructions to choose from
          MaxStalls     \* cycles with a stall from outside

ASSUME MenuAssumption ==
    \A m \in Menus : DOMAIN m \subseteq Addresses /\ \A n \in DOMAIN m : m[n] \subseteq Instructions

VARIABLES menu,         \* the program chosen
          prog,         \* its instructions, each chosen when it is first fetched
          cpu, unit,    \* the registers of the pipeline, the arithmetic unit
          mem, ext,     \* local and external memory
          isa,          \* the sequential machine
          lost,         \* "held" or "behind" once a jump or a skip has been lost, see below
          stalls,       \* cycles with a stall so far
          quiet         \* cycles without one since an instruction left EXEC
vars == <<menu, prog, cpu, unit, mem, ext, isa, lost, stalls, quiet>>

Unknown == <<"unknown">>
InstrAt(p, addr) == IF addr \in DOMAIN p THEN p[addr] ELSE Nop

\* loopCount_: the number and the bit that marks a count not yet taken by a
\* jump.  After LOOP 0 the count is all ones: -1, which no jump brings down.
NoLoop == [fresh |-> FALSE, n |-> 0]

-----------------------------------------------------------------------------
(* decodeInstr                                                             *)

DecodeInstr(code, s) == Decode(code, s)

\* What the instruction in EXEC needs of its own decoding.
Kept(d) == [curPc |-> d.curPc, gotoConst |-> d.gotoConst, jmpBack |-> d.jmpBack,
            jmpTarget |-> d.jmpTarget, loop |-> d.loop, busLock |-> d.busLock,
            busUnlock |-> d.busUnlock]

-----------------------------------------------------------------------------
(* memFetch1, memFetch2 and decodeEx                                       *)

\* External data is always read behind a1.  Nothing uses it when a1 is local.
ExternalData(s) == IF s.addr[2] \in External THEN ext[s.addr[2]] ELSE Garbage

Addr1(d, s) == IF d.enIRS THEN d.irsAddr ELSE s.addr[1 + d.muxAD1]
\* Port 0 belongs to the write of the instruction in EXEC.
Addr0(d, s, x, active) == IF x.writeEn /\ active THEN x.writeAddr ELSE s.addr[1 + d.muxAD0]

LoopEnds(loop) == loop.n \in {0, 1} /\ (loop.fresh \/ loop.n = 1)

DecodeEx(d, s, x, active) ==
    [mux0 |-> d.muxA, irsWb |-> d.enIRS,
     mem0 |-> mem[Addr0(d, s, x, active) % SharedAddrBase],
     mem1 |-> mem[Addr1(d, s) % SharedAddrBase], memX |-> ExternalData(s),
     writeAddr |-> Addr1(d, s), writeEn |-> d.enMEM, writeExt |-> d.memEx,
     wbEn |-> d.enREG, wbReg |-> d.wbREG, load |-> d.load, loadData |-> d.loadData,
     cmd |-> d.cmd, cmp |-> d.cmp, cmpMode |-> d.cmpMode,
     goto |-> d.goto /\ ~LoopEnds(s.loop), neg |-> d.neg, trunc |-> d.trunc]

\* Mutants: an address register may be read while EXEC still writes it; a write
\* that has left EXEC goes on holding port 0.
DecExStallsNoRegister(d, x, active, extMemStall) ==
    \/ active /\ d.muxA = MUX1_MEM /\ x.writeEn
    \/ d.enADr1 /\ d.memEx /\ (extMemStall \/ (active /\ x.writeEn /\ x.writeExt))
DecExStallsForever(d, x, active, extMemStall) ==
    \/ d.muxA = MUX1_MEM /\ x.writeEn
    \/ d.enADr1 /\ d.memEx /\ (extMemStall \/ (active /\ x.writeEn /\ x.writeExt))

\* Why the instruction in DECEX has to wait for the one in EXEC.
DecExStalls(d, x, active, extMemStall) ==
    \/ active /\ x.wbEn /\ \/ d.enADr0 /\ d.muxAD0 = x.wbReg
                           \/ (d.enADr1 \/ d.enMEM) /\ d.muxAD1 = x.wbReg
                           \/ d.enIRS /\ x.wbReg = REG_IRS
    \/ active /\ d.muxA = MUX1_MEM /\ x.writeEn
    \/ d.enADr1 /\ d.memEx /\ (extMemStall \/ (active /\ x.writeEn /\ x.writeExt))

-----------------------------------------------------------------------------
(* execute                                                                 *)

Execute(x, s, active, extMemStall) ==
    LET a == IF x.mux0 = MUX1_MEM THEN x.mem0 ELSE s.result
        b == IF x.writeExt THEN x.memX ELSE x.mem1
        u == Comb(unit, x.cmd, a, b)
        alu == IF active /\ x.trunc THEN <<Truncated(s.result), TRUE>>
               ELSE IF active /\ x.neg THEN <<Negated(s.result), TRUE>>
               ELSE IF active /\ x.load THEN
                        <<(IF s.loadState = 1 THEN 0 ELSE s.result)
                            + x.loadData * Weight(s.loadState), TRUE>>
               ELSE <<u.result, u.complete>>
    IN  [a |-> a, b |-> b, unit |-> u.unit, result |-> alu[1], complete |-> alu[2],
         int |-> IF x.irsWb THEN x.mem1 ELSE a,
         execNext |-> ~(active /\ x.cmp)
                          \/ CASE x.cmpMode = CMP_EQ  -> u.cmpEq [] x.cmpMode = CMP_NEQ -> ~u.cmpEq
                               [] x.cmpMode = CMP_LT  -> u.cmpLt [] OTHER -> u.cmpLt \/ u.cmpEq,
         stall |-> IF x.writeEn /\ x.writeExt THEN extMemStall ELSE ~alu[2] /\ ~u.idle]

-----------------------------------------------------------------------------
(* control                                                                 *)

Control(en, decEx, exec, execNext, goto) ==
    LET stallExec  == exec /\ S_EXEC \in en
        stallDecEx == (decEx /\ S_DECEX \in en) \/ stallExec
        flush      == goto /\ S_EXEC \in en
        shifted    == {S_FETCH} \cup (IF S_FETCH \in en THEN {S_DECEX} ELSE {})
                          \cup (IF S_DECEX \in en /\ (execNext \/ S_EXEC \notin en) THEN {S_EXEC} ELSE {})
    IN  [stallDecEx |-> stallDecEx, stallExec |-> stallExec, flush |-> flush,
         enNext |-> IF flush THEN {S_FETCH}
                    ELSE IF ~stallDecEx THEN shifted
                    ELSE IF stallDecEx /\ ~stallExec THEN en \ {S_EXEC}
                    ELSE en]

-----------------------------------------------------------------------------
(* updateState and the registers written at the end of update              *)

NextLoop(dec, e, s, active) ==
    IF active /\ dec.loop THEN [fresh |-> TRUE, n |-> e.int]
    ELSE IF active /\ dec.gotoConst /\ dec.jmpBack /\ s.loop # NoLoop THEN
             [fresh |-> FALSE, n |-> IF s.loop.n <= 0 THEN -1 ELSE s.loop.n - 1]
    ELSE s.loop

NextAddr(d, x, e, ctl, s, r, active, en) ==
    IF active /\ x.wbEn /\ x.wbReg = r THEN e.int
    ELSE IF S_DECEX \in en /\ e.execNext /\ ~ctl.stallDecEx /\ ~ctl.flush THEN
             s.addr[1 + r] + Num(d.inc[1 + r])
    ELSE s.addr[1 + r]

NextLoadState(x, s, active) ==
    IF active /\ x.load THEN s.loadState + 1 ELSE IF active THEN 1 ELSE s.loadState

NextState(d, dec, x, e, ctl, s, active, en) ==
    [pc |-> IF ctl.stallDecEx THEN s.pc
            ELSE IF active /\ x.goto THEN IF dec.gotoConst THEN dec.jmpTarget ELSE e.int
            ELSE s.pc + 1,
     addr |-> <<NextAddr(d, x, e, ctl, s, REG_AD0, active, en),
                NextAddr(d, x, e, ctl, s, REG_AD1, active, en)>>,
     irs |-> IF active /\ x.wbEn /\ x.wbReg = REG_IRS THEN e.int ELSE s.irs,
     result |-> IF e.complete \/ (active /\ x.wbEn /\ x.wbReg = WBREG_NONE) THEN e.result ELSE s.result,
     loadState |-> NextLoadState(x, s, active),
     loop |-> NextLoop(dec, e, s, active),
     busLock |-> IF active /\ (dec.busLock \/ dec.busUnlock) THEN dec.busLock ELSE s.busLock,
     stallExec1d |-> ctl.stallExec]

-----------------------------------------------------------------------------
Reset ==
    LET code == [pc |-> 0, data |-> 0]
        s == [pc |-> 0, addr |-> <<0, 0>>, irs |-> 0, result |-> 0, loadState |-> 1,
              loop |-> NoLoop, busLock |-> FALSE, stallExec1d |-> FALSE]
    IN  [s |-> s, code |-> code, dec |-> Kept(DecodeInstr(code, s)), en |-> {S_FETCH},
         decEx |-> [mux0 |-> 0, irsWb |-> FALSE, mem0 |-> 0, mem1 |-> 0, memX |-> 0, writeAddr |-> 0,
                    writeEn |-> FALSE, writeExt |-> FALSE, wbEn |-> FALSE, wbReg |-> 0, load |-> FALSE,
                    loadData |-> 0, cmd |-> 0, cmp |-> FALSE, cmpMode |-> 0, goto |-> FALSE,
                    neg |-> FALSE, trunc |-> FALSE]]

InitMem == [n \in Local |-> (3 * n + 5) % Mod]
InitExt == [n \in External |-> (2 * n + 1) % Mod]

Init ==
    /\ menu \in Menus
    /\ prog = [n \in DOMAIN menu |-> Unknown]
    /\ cpu = Reset /\ unit = ArithReset
    /\ mem = InitMem /\ ext = InitExt
    /\ isa = IsaReset(InitMem, InitExt)
    /\ lost = "no" /\ stalls = 0 /\ quiet = 0

\* The instruction in EXEC, and whether the program goes on.
Current == InstrAt(prog, isa.pc)
Running == isa.pc \in DOMAIN prog /\ lost # "held" /\ (Current # Unknown => Allowed(isa, Current))

\* A jump or a skip takes no effect when DECEX is held in its cycle in EXEC.
HeldUp(ctl, e, x, active) == active /\ ctl.stallDecEx /\ (x.goto \/ ~e.execNext)
\* A goto right behind the one that ends a hardware loop is dropped with it:
\* in DECEX it still sees the count of the last round.
BehindLoop(ctl, d, s) ==
    /\ S_EXEC \in cpu.en /\ cpu.dec.gotoConst /\ cpu.dec.jmpBack /\ LoopEnds(s.loop)
    /\ S_DECEX \in cpu.en /\ d.goto /\ ~ctl.stallDecEx

\* One call of update(), with d, what decodeInstr says of the word in DECEX.
Cycle(d, extMemStall, codeStall) ==
    LET s  == cpu.s
        x  == cpu.decEx
        en == cpu.en
        active == S_EXEC \in en
        e  == Execute(x, s, active, extMemStall)
        ctl == Control(en, DecExStalls(d, x, active, extMemStall) \/ codeStall, e.stall, e.execNext, x.goto)
        retires == active /\ ~ctl.stallExec
        writes == active /\ x.writeEn
    IN  /\ Running
        /\ \E i \in IF s.pc \in DOMAIN prog THEN (IF prog[s.pc] = Unknown THEN menu[s.pc] ELSE {prog[s.pc]})
                    ELSE {Nop} :
             /\ prog' = IF s.pc \in DOMAIN prog THEN [prog EXCEPT ![s.pc] = i] ELSE prog
             /\ cpu' = [s |-> NextState(d, cpu.dec, x, e, ctl, s, active, en), en |-> ctl.enNext,
                        code  |-> IF ctl.stallDecEx THEN cpu.code ELSE [pc |-> s.pc, data |-> Word(i)],
                        dec   |-> IF ctl.stallDecEx THEN cpu.dec ELSE Kept(d),
                        decEx |-> IF ctl.stallDecEx THEN x ELSE DecodeEx(d, s, x, active)]
        /\ unit' = UnitUpdate(e.unit, x.cmd, e.a, e.b, active /\ ~s.stallExec1d)
        /\ mem' = IF writes /\ ~x.writeExt /\ x.writeAddr \in Local
                  THEN [mem EXCEPT ![x.writeAddr] = s.result] ELSE mem
        /\ ext' = IF writes /\ x.writeExt /\ x.writeAddr \in External
                  THEN [ext EXCEPT ![x.writeAddr] = s.result] ELSE ext
        /\ isa' = IF retires THEN IsaStep(isa, Current) ELSE isa
        /\ lost' = IF lost # "no" THEN lost
                   ELSE IF HeldUp(ctl, e, x, active) THEN "held"
                   ELSE IF BehindLoop(ctl, d, s) THEN "behind"
                   ELSE "no"
        /\ stalls' = stalls + Num(extMemStall \/ codeStall)
        /\ quiet' = IF retires THEN 0 ELSE quiet + Num(~extMemStall /\ ~codeStall)
        /\ UNCHANGED menu

Next == \E d \in {DecodeInstr(cpu.code, cpu.s)}, extMemStall, codeStall \in BOOLEAN :
           (extMemStall \/ codeStall => stalls < MaxStalls) /\ Cycle(d, extMemStall, codeStall)

Spec == Init /\ [][Next]_vars

-----------------------------------------------------------------------------
(* Properties.                                                             *)

\* The pipeline and the sequential machine agree: the instruction in EXEC is the
\* next one of the program, and result, the base of the intermediate results, the
\* memories, the sums of the multiply-accumulate unit, the loop counter and the bus
\* lock are the same after every instruction.  An address register is incremented
\* one stage early, and a held external write is done before its instruction
\* leaves EXEC.
Agree ==
    LET s == cpu.s
        x == cpu.decEx
        active == S_EXEC \in cpu.en
        early == IF active /\ x.writeEn /\ x.writeExt /\ x.writeAddr \in External
                 THEN {ext, [ext EXCEPT ![x.writeAddr] = isa.ext[x.writeAddr]]} ELSE {ext}
    IN  /\ active => cpu.dec.curPc = isa.pc
        /\ s.result = isa.result /\ s.irs = isa.irs /\ s.busLock = isa.lock
        /\ mem = isa.mem /\ isa.ext \in early
        /\ unit.activeOp = CMD_MAC_RES \/ (unit.mac[1] + unit.mac[2]) % Mod = isa.acc
        /\ isa.loop = CASE s.loop.n < 0 -> 0 [] s.loop = [fresh |-> TRUE, n |-> 0] -> 1 [] OTHER -> s.loop.n
        /\ s.addr = IF active THEN Incremented(isa.addr, Current) ELSE isa.addr

\* Whatever stalls come and whatever the instructions before it still do, an
\* instruction has the effect it has alone.  Left out are a jump or a skip held up
\* in EXEC and a goto right behind a hardware loop.
RetiresLikeIsa == lost = "no" => Agree

\* The stalls never hold each other: without one from outside an instruction
\* leaves EXEC within the latency of the slowest operation and the three cycles
\* the pipeline needs to fill.
NeverStuck == quiet <= DivLatency + 3

\* Every instruction that is fetched is listed by the disassembler as what it is,
\* and answers the questions the code generator asks of its word (struct _Instr).
\* ListedAs says what is listed instead of an operation: the commands of the
\* multiply-accumulate unit are "unused", the increment of result op [aX++] is not
\* shown, and of two addressed words the first is named by bit 8, which belongs to
\* the command, where bit 0 selects it.
ListedAs(i) ==
    IF i[1] # "op" THEN i
    ELSE [i EXCEPT ![2] = IF Deref(@) /\ i[3] # IRS THEN A(i[4] \div 8) ELSE @,
                   ![4] = Named(@), ![6] = @ /\ Deref(i[2])]
\* A load is listed as what the loads up to the third from it on give, and the end of
\* what has been fetched is the end of the code.
Loads(n) == InstrAt(prog, n)[1] = "load"
RunOfLoads(n) == CHOOSE m \in 1 .. 3 : (\A k \in 0 .. m - 1 : Loads(n + k)) /\ (m = 3 \/ ~Loads(n + m))
ListedAt(n) ==
    IF Loads(n) THEN <<"load">> \o [k \in 1 .. RunOfLoads(n) |-> InstrAt(prog, n + k - 1)[2]]
    ELSE Line(ListedAs(InstrAt(prog, n)), n)
WordAt(n) == IF InstrAt(prog, n) = Unknown THEN 0 ELSE Word(InstrAt(prog, n))
ListingIsRight ==
  \A n \in {cpu.code.pc, cpu.dec.curPc} :
    LET i == InstrAt(prog, n)
        w == Word(i)
    IN  i # Unknown =>
            /\ Listing(w, WordAt(n + 1), WordAt(n + 2), n) = ListedAt(n)
            /\ IsGoto(w) = (i[1] = "goto") /\ IsLoad(w) = (i[1] = "load")
            /\ IsLoop(w) = (i[1] = "loop")
            /\ IsIrsInstr(w) = (i[1] = "cmp" \/ (i[1] \in {"mov", "op"} /\ IRS \in {i[2], i[3]}))
            /\ IsMovToIrs(w) = (i[1] = "mov" /\ i[2] = IRS)
            /\ WritesAD1(w) = (i[1] = "mov" /\ i[2] = REG_AD1)
            /\ IsIrsInstr(w) => IrsOffset(PatchIrsOffset(w, 5)) = 5 /\ PatchIrsOffset(w, IrsOffset(w)) = w
=============================================================================
