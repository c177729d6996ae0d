------------------------------ MODULE CodeGen -------------------------------
(***************************************************************************)
(* The code generator of the assembler (CodeGen.cpp).  Its state is one    *)
(* record g, and an operation takes it and gives the next one; an operand  *)
(* that an operation returns is in g.op.  An instruction is a tuple of     *)
(* SLIsa with its reference: a symbol, a label, or none.  The operands of  *)
(* the instruction under way are in g.a and g.b.  The first error ends     *)
(* everything: g.err.                                                      *)
(***************************************************************************)
EXTENDS SLIsa, SymbolMap, SequencesExt

CONSTANTS EntryVectorSize,      \* instructions before the program
          StorageSize,          \* cells of local memory to allocate from, 512 in the code
          EnableIrsToAddrLoad   \* TargetConfig: an address register may be loaded from a cell

ASSUME CodeGenAssumption ==
    EntryVectorSize >= 3 /\ StorageSize \in Nat \ {0} /\ EnableIrsToAddrLoad \in BOOLEAN

MaxLoopDepth == 6
MaxInstrs    == 4096
RefLoad        == 65534
RefLabelOffset == 65472
LabelIds == 0 .. 30

\* Operands (Operand.h).  NoIndex is the index of a symbol without one: of an
\* array it means its address.
NoIndex == 65535
Result                  == <<"result">>
NoOperand               == <<"none">>
Const(v)                == <<"value", v, NoRef, 1>>
ConstWithRef(ref, n)    == <<"value", 10, ref, n>>
MemAccess(r, inc)       == <<"mem", r, inc>>
Symbol(name, index)     == <<"symbol", name, index>>
LoopIndex(n)            == <<"index", n>>
InternalReg(r)          == <<"reg", r>>
SymAccess(ref, offset)  == <<"resolved", ref, offset>>
IsConst(op)     == op[1] = "value"
IsMem(op)       == op[1] = "mem"
IsResolved(op)  == op[1] = "resolved"
IsArrayBase(op) == IsResolved(op) /\ op[3] = NoIndex

TranslateOperand(op) ==
    IF op = Result    THEN REG_RES
    ELSE IF IsResolved(op) THEN IRS
    ELSE IF IsMem(op) THEN A(op[2])
    ELSE op[2]

-----------------------------------------------------------------------------
(* The state, errors, symbols and temporary storage.                       *)

NewGen(tokens, inlineFunctionThreshold) ==
    [err |-> FALSE, op |-> NoOperand, a |-> NoOperand, b |-> NoOperand, tokens |-> tokens, pos |-> 1, startAddr |-> 0,
     inlineFunctionThreshold |-> inlineFunctionThreshold,
     code |-> [n \in 1 .. EntryVectorSize |-> [i |-> <<"nop">>, ref |-> NoRef]],
     map |-> CreateSymbolNoToken(NewMap(0), MaxLoopDepth, FALSE), outer |-> <<>>,
     loops |-> <<>>, labels |-> <<>>, tmps |-> <<>>, arrays |-> {},
     functions |-> <<>>, structs |-> <<>>]

\* A sequence that is itself, written so that TLC evaluates all of it at once; so is
\* a function f in <<>> @@ f.
Whole(seq) == seq \o <<>>

Expect(g, cond) == IF cond \/ g.err THEN g ELSE [g EXCEPT !.err = TRUE]
Fail(g) == Expect(g, FALSE)
Smaller(m, n) == IF m < n THEN m ELSE n
Addr(g) == Len(g.code)                   \* getCurCodeAddr
At(g, addr) == g.code[addr + 1]
Sym(g, ref) == g.map.symbols[ref + 1]
Link(g, name) == FindSymbol(g.map, name) \* findSymbolAsLink
Give(g, op) == [g EXCEPT !.op = op]
AsA(g) == [g EXCEPT !.a = g.op]
AsB(g) == [g EXCEPT !.b = g.op]
ExchangedIf(g, cond) == IF cond THEN [g EXCEPT !.a = g.b, !.b = g.a] ELSE g

\* A new symbol; that its name is new is tested first.
Declared(g, name, m) ==
    IF g.err \/ Link(g, name) # NoRef THEN Fail(g) ELSE [g EXCEPT !.map = m]

AddDefinition(g, name, v)   == Declared(g, name, CreateConst(g.map, name, v))
AddReference(g, name, addr) == Declared(g, name, CreateReference(g.map, name, addr))
AddArrayDeclaration(g, name, size) ==
    LET h == Declared(Expect(g, size > 0), name, CreateSymbol(g.map, name, size))
    IN  [h EXCEPT !.arrays = @ \cup {<<Addr(h), Link(h, name)>>}]
ResizeArray(g, name, size) == [g EXCEPT !.map.symbols[Link(g, name) + 1].allocatedSize = size]
IsArrayDeclInCurrentSymbolMap(g) == \E a \in g.arrays : a[1] >= g.map.startAddr

AddStructDeclaration(g, name, fields) ==
    LET h == Expect(g, name \notin DOMAIN g.structs /\ fields # <<>>)
    IN  IF h.err THEN h ELSE [h EXCEPT !.structs = @ @@ (name :> fields)]
IsStructType(g, name) == name \in DOMAIN g.structs
\* The offset of a field, NoRef if there is none.
FindStructField(g, type, field) ==
    LET found == {n \in DOMAIN g.structs[type] : g.structs[type][n] = field}
    IN  IF found = {} THEN NoRef ELSE Min(found) - 1
AddStructInstanceDeclaration(g, name, type) ==
    LET h == AddArrayDeclaration(g, name, Len(g.structs[type]))
    IN  IF h.err THEN h ELSE [h EXCEPT !.map.symbols[Link(h, name) + 1].structTypeId = type]
MarkSymbolAsStructReference(g, name, type) ==
    IF g.err THEN g
    ELSE LET r == Link(g, name) + 1
         IN  [g EXCEPT !.map.symbols[r].structTypeId = type, !.map.symbols[r].flagIsStructRef = TRUE]
AddStructPointerDeclaration(g, name, type) ==
    MarkSymbolAsStructReference(Declared(g, name, CreateSymbol(g.map, name, 0)), name, type)

\* TmpStorage: the constructor; the last one made is NewestTmp.
NewTmp(g) == [g EXCEPT !.tmps = Append(@, [ref |-> NoRef, size |-> 0, blockBegin |-> Addr(g)])]
NewestTmp(g) == Len(g.tmps)

\* TmpStorage::allocate: one more cell of the storage's symbol.
Allocate(g, t) ==
    LET s == g.tmps[t]
        ref == IF s.ref = NoRef THEN Len(g.map.symbols) ELSE s.ref
        m == IF s.ref = NoRef THEN CreateSymbolNoToken(g.map, 1, TRUE) ELSE g.map
    IN  [g EXCEPT !.map = ChangeArraySize(m, ref, s.size + 1), !.tmps[t].ref = ref,
                  !.tmps[t].size = @ + 1, !.op = SymAccess(ref, s.size)]

\* writeCode.  A cell used in a loop is released after the loop it is made in, an
\* array whose address is taken never.
Used(g, i, ref, depth) ==
    IF ref = NoRef \/ i[1] = "goto" \/ (i[1] = "load" /\ ref >= RefLabelOffset) THEN g
    ELSE IF i[1] = "load" THEN [g EXCEPT !.map.symbols[ref + 1].lastAccess = Never]
    ELSE IF depth = 0 THEN [g EXCEPT !.map.symbols[ref + 1].lastAccess = Addr(g)]
    ELSE [g EXCEPT !.loops[1 + Smaller(Sym(g, ref).loopIndexScope, depth - 1)].symbolRefsToRelease = @ \cup {ref}]
Write(g, i, ref) ==
    IF g.err \/ Addr(g) >= MaxInstrs THEN Fail(g)
    ELSE [Used(g, i, ref, Len(g.loops)) EXCEPT !.code = Append(@, [i |-> i, ref |-> ref])]
RECURSIVE AppendInstrs(_, _)
AppendInstrs(g, instrs) ==
    IF g.err \/ instrs = <<>> THEN g ELSE AppendInstrs(Write(g, Head(instrs).i, Head(instrs).ref), Tail(instrs))

\* A symbol that is made here belongs to the loops around it.
MakeSymbol(g, name) ==
    [g EXCEPT !.op = SymAccess(Len(g.map.symbols), 0),
              !.map = [CreateSymbol(@, name, 0) EXCEPT !.symbols[Len(g.map.symbols) + 1].loopIndexScope = Len(g.loops)]]
\* Only the constants of the scope around a function are seen in it.
OuterConstant(g, m, ref) ==
    IF ref # NoRef /\ m.symbols[ref + 1].flagConst THEN Give(g, Const(m.symbols[ref + 1].constValue)) ELSE Fail(g)
ResolveOuter(g, name) ==
    IF g.outer = <<>> THEN Fail(g) ELSE OuterConstant(g, Last(g.outer), FindSymbol(Last(g.outer), name))
ResolveSymbol(g, ref, index, s) ==
    IF s.flagConst THEN Give(g, Const(s.constValue))
    ELSE IF s.flagIsArray /\ ~s.flagAllocated THEN
             [g EXCEPT !.op = SymAccess(ref, index),
                       !.map.symbols[ref + 1].flagStayAllocated = @ \/ index = NoIndex]
    ELSE Give(g, SymAccess(ref, 0))
ResolveName(g, op, ref, createSymIfNotExists) ==
    IF ref # NoRef THEN ResolveSymbol(g, ref, op[3], Sym(g, ref))
    ELSE IF createSymIfNotExists THEN MakeSymbol(g, op[2])
    ELSE ResolveOuter(g, op[2])
ResolveIndex(g, n) ==
    IF n > Len(g.loops) \/ g.loops[n].counter = NoOperand THEN Fail(g)
    ELSE [g EXCEPT !.op = g.loops[n].counter, !.loops[n].isComplex = TRUE]
ResolveOperand(g, op, createSymIfNotExists) ==
    IF g.err THEN g
    ELSE IF op[1] = "symbol" THEN ResolveName(g, op, Link(g, op[2]), createSymIfNotExists)
    ELSE IF op[1] = "index" THEN ResolveIndex(g, op[2] + 1)
    ELSE Give(g, op)

-----------------------------------------------------------------------------
(* Labels, loop frames and jumps.                                          *)

\* The next n labels that are made, highest first, and n new labels.
NextLabels(g, n) ==
    LET free == LabelIds \ DOMAIN g.labels
    IN  [k \in 1 .. n |-> CHOOSE l \in free : Cardinality({m \in free : m > l}) = k - 1]
NewLabels(g, n) ==
    IF g.err \/ Cardinality(LabelIds \ DOMAIN g.labels) < n THEN Fail(g)
    ELSE [g EXCEPT !.labels =
              @ @@ [l \in Range(NextLabels(g, n)) |-> [codeAddr |-> Addr(g), labelAddr |-> 0]]]
SetLabel(g, l) == IF g.err THEN g ELSE [g EXCEPT !.labels[l].labelAddr = Addr(g)]
Released(g, l) == [g EXCEPT !.labels = <<>> @@ [m \in DOMAIN @ \ {l} |-> @[m]]]

\* A jump of ten bits, and one half of an address that two loads make.
Goto(distance) == <<"goto", ((distance + 512) % 1024) - 512>>
PatchConstant(value, patch2ndWord) ==
    <<"load", IF patch2ndWord THEN value \div LoadBase ELSE value % LoadBase>>

PatchLabelInCode(g, l) ==
    LET lab == g.labels[l]
        patched(n) ==
            LET x == g.code[n]
            IN  IF n <= lab.codeAddr \/ x.ref # RefLabelOffset + l THEN x
                ELSE IF x.i[1] = "goto" THEN [i |-> Goto(lab.labelAddr - (n - 1)), ref |-> NoRef]
                ELSE [i |-> PatchConstant(lab.labelAddr, n > 1 /\ g.code[n - 1].i[1] = "load"),
                               ref |-> RefLoad]
    IN  [g EXCEPT !.code = Whole([n \in DOMAIN @ |-> patched(n)])]
\* Mutant: the jumps to the label are left as they are.
ReleaseOnly(g, l) == IF g.err THEN g ELSE Released(g, l)
DeleteLabel(g, l) == IF g.err THEN g ELSE Released(PatchLabelInCode(g, l), l)
\* The labels of a scope go in reverse order.
DeleteLabels(g, ls) == FoldRight(LAMBDA l, h : DeleteLabel(h, l), ls, g)

\* replaceWith: the jumps to a label become jumps to another.
ReplaceLabel(g, l, other) ==
    IF g.err THEN g
    ELSE Released([g EXCEPT
             !.labels[other].codeAddr = IF g.labels[l].codeAddr < @ THEN g.labels[l].codeAddr ELSE @,
             !.code = Whole([n \in DOMAIN @ |->
                          IF n > g.labels[l].codeAddr /\ @[n].ref = RefLabelOffset + l
                          THEN [i |-> @[n].i, ref |-> RefLabelOffset + other] ELSE @[n]])], l)

MarkComplex(g) == IF g.loops = <<>> THEN g ELSE [g EXCEPT !.loops[Len(g.loops)].isComplex = TRUE]
CreateLoopFrame(g, labCont, labBreak, counter) ==
    IF g.err \/ Len(g.loops) = MaxLoopDepth THEN Fail(g)
    ELSE [MarkComplex(g) EXCEPT !.loops =
              Append(@, [labCont |-> labCont, labBreak |-> labBreak, counter |-> counter,
                         isComplex |-> FALSE, symbolRefsToRelease |-> {}])]
RemoveLoopFrame(g) ==
    IF g.err THEN g
    ELSE [g EXCEPT !.loops = Front(@),
                   !.map.symbols = Whole([n \in DOMAIN @ |->
                       IF n - 1 \in Last(g.loops).symbolRefsToRelease
                       THEN [g.map.symbols[n] EXCEPT !.lastAccess = Addr(g)] ELSE @[n]])]

\* Mutant: a loop that is left by a jump still uses the loop counter.
GotoInAnyLoop(g, l) == IF g.err THEN g ELSE Write(g, <<"goto", 0>>, RefLabelOffset + l)
InstrGoto(g, l) ==
    IF g.err THEN g
    ELSE Write(IF g.labels[l].codeAddr # 0 THEN MarkComplex(g) ELSE g, <<"goto", 0>>, RefLabelOffset + l)
InstrGoto2(g)    == Write(MarkComplex(g), <<"gotor">>, NoRef)
InstrBreak(g)    == IF g.loops = <<>> THEN Fail(g) ELSE InstrGoto(g, Last(g.loops).labBreak)
InstrContinue(g) == IF g.loops = <<>> THEN Fail(g) ELSE InstrGoto(g, Last(g.loops).labCont)

-----------------------------------------------------------------------------
(* Moving code.                                                            *)

\* rebaseCode of lo..hi, which were offset lower before.  The sign of a jump is
\* read from its seventh bit.
Rebase(g, lo, hi, offset) ==
    LET code == g.code
        target(n) == GotoTarget(GotoCreate(code[n].i[2]))
        isLoad(n) == n <= Len(code) /\ code[n].i[1] = "load"
        \* A constant with an address: the first word of it, and its value.
        first(n)  == isLoad(n) /\ code[n].ref = RefLoad /\ ~(n > lo + 1 /\ isLoad(n - 1))
        second(n) == isLoad(n) /\ n < hi + 1
        value(n)  == code[n].i[2] + (IF second(n + 1) THEN code[n + 1].i[2] * LoadBase ELSE 0)
        rebased(n) ==
            IF n \notin lo + 1 .. hi + 1 THEN code[n]
            ELSE IF code[n].i[1] = "goto" /\ n - 1 + target(n) \notin lo .. hi + 1 THEN
                     [code[n] EXCEPT !.i = Goto(target(n) - offset)]
            ELSE IF first(n) THEN [code[n] EXCEPT !.i = PatchConstant(value(n) + offset, FALSE)]
            ELSE IF second(n) /\ n > 1 /\ first(n - 1) THEN
                     [code[n] EXCEPT !.i = PatchConstant(value(n - 1) + offset, TRUE)]
            ELSE code[n]
        uses(r) == {n \in lo .. hi : At(g, n).ref = r /\ At(g, n).i[1] \notin {"goto", "load"}}
    IN  [g EXCEPT
            !.code = Whole([n \in DOMAIN @ |-> rebased(n)]),
            !.map.symbols = Whole([n \in DOMAIN @ |->
                IF uses(n - 1) = {} THEN @[n] ELSE [g.map.symbols[n] EXCEPT !.lastAccess = Max(uses(n - 1))]]),
            !.arrays = {IF a[1] + offset \in lo .. hi THEN <<a[1] + offset, a[2]>> ELSE a : a \in @}]

\* moveCodeBlock: the code from start on, which ends the program, to a lower
\* address.  (No caller moves code up, or code with more behind it.)
MoveCodeBlock(g, start, target) ==
    LET size  == Addr(g) - start
        moved == [g EXCEPT !.code = SubSeq(@, 1, target) \o SubSeq(@, start + 1, Len(@))
                                        \o SubSeq(@, target + 1, start)]
    IN  IF g.err \/ start = target \/ size = 0 THEN g
        ELSE IF Addr(g) + size > MaxInstrs THEN Fail(g)
        ELSE Rebase(Rebase(moved, target, target + size - 1, target - start),
                    target + size, Addr(g) - 1, size)

\* TmpStorage::preloadCode, and CodeGenDelegate: the code written since start
\* goes to the begin of the block, or before a label.
PreloadCode(g, start, t) ==
    IF g.err THEN g
    ELSE [MoveCodeBlock(g, start, g.tmps[t].blockBegin) EXCEPT !.tmps[t].blockBegin = @ + Addr(g) - start]
InsertCodeBefore(g, start, l) ==
    IF g.err THEN g
    ELSE [MoveCodeBlock(g, start, g.labels[l].labelAddr) EXCEPT !.labels[l].labelAddr = @ + Addr(g) - start]

-----------------------------------------------------------------------------
(* Instructions.                                                           *)

\* One or two loads; to an array's address the base of the frame is added, which the
\* first cell of the frame holds.
LoadWords(b) ==
    CASE IsArrayBase(b) -> <<[i |-> <<"load", 0>>, ref |-> b[2]],
                             [i |-> <<"op", REG_RES, IRS, CMD_ADD, 0, FALSE, FALSE>>, ref |-> NoRef]>>
      [] OTHER -> [k \in 1 .. b[4] |-> [i |-> <<"load", b[2]>>, ref |-> b[3]]]

IsLoaded(b) == IsConst(b) \/ IsArrayBase(b)
IsCell(op)  == IsResolved(op) \/ IsMem(op)
Increments(op) == IsMem(op) /\ op[3]
NamedOf(a, b) == IF IsResolved(a) THEN a ELSE IF IsResolved(b) THEN b ELSE SymAccess(NoRef, 0)

MovNamed(a, b, named) ==
    [i |-> <<"mov", TranslateOperand(a), TranslateOperand(b), named[3] % 512, Increments(a) \/ Increments(b)>>,
     ref |-> named[2]]
MovWord(a, b) == IF a = b THEN <<>> ELSE <<MovNamed(a, b, NamedOf(a, b))>>

\* A constant, a cell that goes to a cell, and what an address register cannot take
\* go through result.
ViaResult(a, b) ==
    \/ IsCell(a) /\ IsCell(b)
    \/ a[1] = "reg" /\ ~(IsResolved(b) /\ EnableIrsToAddrLoad)
ResultCode(b) == IF IsLoaded(b) THEN LoadWords(b) ELSE MovWord(Result, b)
MovCode(a, b) ==
    LET via == IsLoaded(b) \/ ViaResult(a, b)
    IN  (IF via THEN ResultCode(b) ELSE <<>>) \o MovWord(a, IF via THEN Result ELSE b)

\* InstrMov leaves g.op as it was; MovHere moves it.
MovResolved(g, a) == IF g.err \/ IsConst(a) \/ g.op[1] = "reg" THEN Fail(g) ELSE AppendInstrs(g, MovCode(a, g.op))
MovFrom(g, opb) == MovResolved(ResolveOperand(g, opb, FALSE), g.op)
InstrMov(g, opa, opb) ==
    IF opa = Result /\ opb = Result THEN g ELSE Give(MovFrom(ResolveOperand(g, opa, TRUE), opb), g.op)
MovToResult(g, op) == MovResolved(Give(g, op), Result)
MovHere(g, a) == InstrMov(g, a, g.op)
InstrMovs(g, pairs) == FoldLeft(LAMBDA h, p : InstrMov(h, p[1], p[2]), g, pairs)

\* The operand in a new cell of a temporary storage, which is given.
TmpHolds(g, op) == Give(MovFrom(g, op), g.op)
ToTmp(g, op, t) == IF g.err THEN g ELSE TmpHolds(Allocate(g, t), op)

\* preloadConstValue: the same for a constant, before the block.
PreloadConstValue(g, op, t) == PreloadCode(ToTmp(g, op, t), Addr(g), t)

ResolveBoth(g, opa, opb) == AsB(ResolveOperand(AsA(ResolveOperand(g, opa, FALSE)), opb, FALSE))

\* The steps of instrOperation.  The address of an array goes to result, where the
\* other operand makes room; a constant to its place before the block, when the other
\* operand needs result; the operands change places where the operation allows it.
LoadA(g) == [MovToResult(g, g.a) EXCEPT !.a = Result]
BaseOfA(g, t) ==
    IF ~IsArrayBase(g.a) THEN g ELSE LoadA(IF g.b = Result THEN AsB(ToTmp(g, Result, t)) ELSE g)
BothBases(g, t) == ExchangedIf(BaseOfA(ExchangedIf(BaseOfA(g, t), TRUE), t), TRUE)

IsFree(cmd) == cmd \notin {CMD_DIV, CMD_SUB, CMD_SHFT}
InResult(op) == op = Result \/ IsConst(op)
PreloadB(g, t) == AsB(PreloadConstValue(g, g.b, t))
PreloadIf(g, first, second, t) ==
    IF first \/ second THEN ExchangedIf(PreloadB(ExchangedIf(g, first), t), first) ELSE g
Preloaded(g, cmd, t) ==
    PreloadIf(g, IsConst(g.a) /\ g.b = Result /\ IsFree(cmd), IsConst(g.b) /\ InResult(g.a), t)
Ordered(g, cmd) ==
    LET swap == \/ ~InResult(g.a) /\ InResult(g.b)
                \/ IsResolved(g.a) /\ ~IsResolved(g.b)
    IN  ExchangedIf(g, swap /\ IsFree(cmd))
CellOfB(g, t) == IF InResult(g.b) THEN AsB(ToTmp(g, g.b, t)) ELSE g

OperationWord(a, b, cmd, named, inc) ==
    LET two == IsMem(a) /\ IsMem(b)
    IN  [i |-> <<"op", TranslateOperand(a), TranslateOperand(b), cmd, named[3] % 512,
                 inc \/ Increments(a) \/ (~two /\ Increments(b)), two /\ Increments(b)>>, ref |-> named[2]]
WriteOperation(g, cmd, inc) == AppendInstrs(g, <<OperationWord(g.a, g.b, cmd, NamedOf(g.b, g.b), inc)>>)

\* The first operand is read from result, or through the first address register.
\* shft has no form with an addressed first and a local second word, and the
\* increment stays in its word too.
DoOperation(g, cmd) ==
    LET shifted == IsMem(g.a) /\ IsResolved(g.b) /\ cmd = CMD_SHFT
    IN  IF g.a = Result \/ (IsMem(g.a) /\ g.a[2] = 0 /\ ~shifted) THEN WriteOperation(g, cmd, FALSE)
        ELSE WriteOperation(LoadA(g), cmd, shifted /\ Increments(g.a))

OperationOn(g, cmd, t) ==
    IF g.err THEN g ELSE DoOperation(CellOfB(Ordered(Preloaded(BothBases(g, t), cmd, t), cmd), t), cmd)
InstrOperation(g, opa, opb, cmd, t) == Give(OperationOn(ResolveBoth(g, opa, opb), cmd, t), Result)
\* The operation with a temporary storage of its own.
NewOperation(g, opa, opb, cmd) == InstrOperation(NewTmp(g), opa, opb, cmd, NewestTmp(g) + 1)

InstrUnaryOp(g, op, unaryOp) == Give(Write(InstrMov(g, Result, op), <<"unary", unaryOp>>, NoRef), Result)

InstrLoop(g, op) == Write(InstrMov(g, Result, op), <<"loop">>, NoRef)

\* Mutant: a strict comparison stays strict.
StrictNegation == (CMP_EQ :> CMP_NEQ) @@ (CMP_NEQ :> CMP_EQ) @@ (CMP_LE :> CMP_LE) @@ (CMP_LT :> CMP_LT)
Negation == (CMP_EQ :> CMP_NEQ) @@ (CMP_NEQ :> CMP_EQ) @@ (CMP_LE :> CMP_LT) @@ (CMP_LT :> CMP_LE)

\* swapped is the flag CMP_MODE_SWAP_FLAG.  The second operand becomes a local
\* word before the first one goes to result.
LocalB(g, t) == IF ~IsResolved(g.b) \/ IsArrayBase(g.b) THEN AsB(ToTmp(g, g.b, t)) ELSE g
CompareOn(g, mode) ==
    IF g.err THEN g ELSE Write(MovToResult(g, g.a), <<"cmp", mode, g.b[3] % 512>>, g.b[2])
InstrCompare(g, opa, opb, mode, swapped, negate, t) ==
    CompareOn(LocalB(ExchangedIf(ResolveBoth(g, opa, opb), swapped # negate), t),
              IF negate THEN Negation[mode] ELSE mode)

\* Without an operand the instruction waits for the other cores.
InstrWait(g, op) ==
    IF op = NoOperand THEN Write(g, <<"signal", WAIT_ALL>>, NoRef)
    ELSE Write(InstrMov(g, Result, op), <<"signal", WAIT_SIG>>, NoRef)

InstrNop(g) == Write(g, <<"nop">>, NoRef)

\* The end of a lock looks back to its begin.  The distance of a jump is taken
\* as unsigned: only a jump to itself is refused.
InstrLock(g, unlock) ==
    LET begins == {n \in 1 .. Addr(g) - 1 : At(g, n).i = <<"signal", BUS_LOCK>>}
        begin  == Max({0} \cup begins)
        inside == {At(g, n) : n \in IF begin = 0 THEN 1 .. Addr(g) - 1 ELSE begin .. Addr(g) - 1}
        refused(x) ==
            \/ x.i[1] \in {"gotor", "loop"}
            \/ x.i[1] = "goto" /\ (x.ref # NoRef \/ GotoTarget(GotoCreate(x.i[2])) = 0)
            \/ x.i[1] = "mov" /\ x.i[2] = REG_AD1
        h == Expect(g, (\A x \in inside : ~refused(x)) /\ Addr(g) - 1 - begin < 32)
    IN  IF unlock THEN Write(h, <<"signal", BUS_UNLOCK>>, NoRef)
                  ELSE Write(g, <<"signal", BUS_LOCK>>, NoRef)

-----------------------------------------------------------------------------
(* storageAllocationPass.                                                  *)

\* The allocator, with its state in a record.
Heap(h) == INSTANCE Allocator WITH
    blocks_ <- h.blocks, firstFreeBlock_ <- h.first, lastUsedBlock_ <- h.last, live <- {},
    numBlocks_ <- (StorageSize + 7) \div 8, Sizes <- {}, WordValues <- 65536

EmptyHeap == [blocks |-> [b \in 0 .. ((StorageSize + 7) \div 8) - 1 |-> {}], first |-> 0, last |-> 0]

TakeFrom(h, size, highest, align) ==
    LET i    == Heap(h)!FirstBlock(Heap(h)!StartBlock(highest, align), size)
        addr == Heap(h)!AddrIn(i)
        blk  == IF addr = NoRef THEN h.blocks ELSE Heap(h)!Marked(i, size)
    IN  [addr |-> addr, heap |-> [blocks |-> <<>> @@ blk, first |-> Heap(h)!NextFirstFree(addr, size, blk),
                                  last |-> Heap(h)!NextLastUsed(addr, size)]]
GiveBack(h, addr, size) ==
    LET blk == Heap(h)!Cleared(addr, size)
    IN  [blocks |-> <<>> @@ blk, first |-> Heap(h)!Smaller(h.first, addr \div 8),
         last |-> Min(Heap(h)!LastUsedFrom(h.last, blk))]

PlacedAt(r, ref, t) ==
    [heap |-> t.heap, g |-> [r.g EXCEPT !.map.symbols[ref + 1].flagAllocated = TRUE,
                                        !.map.symbols[ref + 1].allocatedAddr = t.addr]]
Placed(r, ref) ==
    LET s == Sym(r.g, ref)
    IN  IF s.flagAllocated THEN r
        ELSE PlacedAt(r, ref, TakeFrom(r.heap, s.allocatedSize, s.flagsAllocateHighest, s.flagIsArray))

IsIrs(i) == i[1] = "cmp" \/ (i[1] \in {"mov", "op"} /\ IRS \in {i[2], i[3]})
OffsetAt(i) == CASE i[1] = "mov" -> 4 [] i[1] = "op" -> 5 [] OTHER -> 3
WithOffset(i, offset) == [i EXCEPT ![OffsetAt(i)] = offset % 512]

\* The arrays declared at n; one that was passed over holds up all behind it.
PlaceArrays(r, n) ==
    LET due  == {a \in r.g.arrays : a[1] = n /\ \A b \in r.g.arrays : b[1] >= n}
        place(p, a) == Placed([p EXCEPT !.g = Expect(@, ~Sym(@, a[2]).flagAllocated)], a[2])
        inOrder == [k \in 1 .. Cardinality(due) |->
                        CHOOSE a \in due : Cardinality({b \in due : b[2] < a[2]}) = k - 1]
        placed == FoldLeft(place, r, inOrder)
    IN  [placed EXCEPT !.g.arrays = @ \ due]

\* The instruction at n gets the address of its symbol, which is released if this
\* is its last use.
PassWord(r, n, x) ==
    LET s == Sym(r.g, x.ref)
        i == IF IsIrs(x.i) THEN WithOffset(x.i, x.i[OffsetAt(x.i)] + s.allocatedAddr)
             ELSE IF x.i[1] = "load" THEN <<"load", s.allocatedAddr>>
             ELSE x.i
        ends == s.lastAccess = n /\ ~s.flagStayAllocated
    IN  [heap |-> IF ends THEN GiveBack(r.heap, s.allocatedAddr, s.allocatedSize) ELSE r.heap,
         g |-> [r.g EXCEPT !.code[n + 1] = [i |-> i, ref |-> NoRef],
                           !.map.symbols[x.ref + 1].flagAllocated = ~ends]]
PassSymbol(r, n) ==
    IF r.g.err \/ At(r.g, n).ref >= RefLabelOffset THEN r
    ELSE PassWord(Placed(r, At(r.g, n).ref), n, At(r.g, n))
PassOver(r, n) == PassSymbol(PlaceArrays(r, n), n)

\* In pieces of sixteen, which keeps TLC's stack short.
PassPiece(r, from) ==
    IF r.g.err THEN r ELSE FoldLeft(PassOver, r, [k \in 1 .. Smaller(16, Addr(r.g) - from) |-> from + k - 1])
StorageAllocationPass(g, numParams) ==
    IF g.err THEN g
    ELSE FoldLeft(PassPiece, [g |-> g, heap |-> TakeFrom(EmptyHeap, 4 + numParams, FALSE, FALSE).heap],
                  [k \in 1 .. (Addr(g) - g.map.startAddr + 15) \div 16 |-> g.map.startAddr + 16 * (k - 1)]).g

-----------------------------------------------------------------------------
(* Functions and the entry vector.                                         *)

FindFunction(g, name) ==
    IF name \in DOMAIN g.functions THEN g.functions[name]
    ELSE [symbols |-> NewMap(0), address |-> NoRef, parameters |-> 0, isInline |-> FALSE,
          written |-> {}, instrs |-> <<>>, types |-> <<>>]
IsFunction(g, name) == name \in DOMAIN g.functions

PushSymbolMap(g) ==
    IF Len(g.outer) = 3 THEN Fail(g) ELSE [g EXCEPT !.outer = Append(@, g.map), !.map = NewMap(Addr(g))]
PopSymbolMap(g) ==
    IF g.err \/ g.arrays # {} THEN Fail(g) ELSE [g EXCEPT !.map = Last(g.outer), !.outer = Front(@)]

\* generateEntryVector: to the code behind the last function.
GenerateEntryVector(g, startAddr) ==
    LET addr == IF startAddr < EntryVectorSize THEN EntryVectorSize ELSE startAddr
        entry(i) == [i |-> i, ref |-> NoRef]
    IN  [g EXCEPT !.code[1] = entry(PatchConstant(addr, FALSE)), !.code[2] = entry(PatchConstant(addr, TRUE)),
                  !.code[3] = entry(<<"gotor">>)]
=============================================================================
