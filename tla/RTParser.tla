------------------------------ MODULE RTParser ------------------------------
(***************************************************************************)
(* The parser of the assembler (RTParser.cpp), which reads a program once  *)
(* and drives the code generator as it goes.  The program is a sequence of *)
(* the tokens that Stream makes of its text, and g.tokens, g.pos is the    *)
(* stream.  An operator that reads something takes the state of the code   *)
(* generator and gives the next one, with the operand it found in op.      *)
(***************************************************************************)
EXTENDS CodeGen

CONSTANT Numerals      \* the numerals that occur, with their values

ASSUME NumeralsAssumption == \A n \in DOMAIN Numerals : Numerals[n] \in 0 .. Mod - 1

Mems    == ("[a0]" :> <<0, FALSE>>) @@ ("[a0++]" :> <<0, TRUE>>) @@
           ("[a1]" :> <<1, FALSE>>) @@ ("[a1++]" :> <<1, TRUE>>)
Regs    == ("a0" :> REG_AD0) @@ ("a1" :> REG_AD1)
Indices == ("i" :> 0) @@ ("j" :> 1) @@ ("k" :> 2) @@ ("l" :> 3) @@ ("m" :> 4)
Keywords == {"if", "or", "end", "def", "ref", "and", "else", "loop", "decl", "break", "array", "while",
             "return", "sizeof", "struct", "buslock", "continue", "function"}
Signs == {"(", ")", "{", ",", ";", ".", "=", "+", "*", "/", "<", "<=", ">", ">=", "==", "!="}

Kind(tok) ==
    IF tok = "-" \/ tok \in DOMAIN Numerals THEN "value"
    ELSE IF tok \in DOMAIN Mems THEN "mem"      ELSE IF tok \in DOMAIN Regs THEN "rega"
    ELSE IF tok \in DOMAIN Indices THEN "index" ELSE IF tok \in Keywords THEN tok
    ELSE IF tok \in {"", "}"} THEN "eos"        ELSE IF tok \in Signs THEN "unexpected"
    ELSE "name"

PeekAt(g, n) == IF g.err \/ g.pos + n > Len(g.tokens) THEN "" ELSE g.tokens[g.pos + n]
Peek(g) == PeekAt(g, 0)
Skip(g) == [g EXCEPT !.pos = @ + 1]
Take(g, tok) == Skip(Expect(g, Peek(g) = tok))
TakeName(g)  == Skip(Expect(g, Kind(Peek(g)) = "name"))

\* readInt, readQfp32: a sign without digits is the number 0.
HasSign(g)   == Peek(g) = "-"
HasDigits(g) == PeekAt(g, Num(HasSign(g))) \in DOMAIN Numerals
NumberAt(g) ==
    LET n == IF HasDigits(g) THEN Numerals[PeekAt(g, Num(HasSign(g)))] ELSE 0
    IN  IF HasSign(g) THEN Negated(n) ELSE n
SkipNumber(g) == [g EXCEPT !.pos = @ + Num(HasSign(g)) + Num(HasDigits(g))]

\* findSymbol: a symbol without a name if there is none.
SymbolNamed(g, name) == IF Link(g, name) = NoRef THEN BlankSymbol ELSE Sym(g, Link(g, name))
IrsAndRes(g) == SymAccess(Link(g, "__IRS_AND_RES__"), 0)
RetAddr(g)   == SymAccess(Link(g, "__RET__"), 0)
IrsRest(g)   == SymAccess(Link(g, "__IRS_REST__"), 0)
CallStackRefs(g) ==
    AddReference(AddReference(AddReference(g, "__IRS_AND_RES__", 0), "__RET__", 1), "__IRS_REST__", 2)

RECURSIVE ParseExpr(_), ParseStatement(_), ParseStatements(_), ParseFunctionCall(_, _)

-----------------------------------------------------------------------------
(* Operands.                                                               *)

\* The index or the field behind a name; through a pointer to a struct the field's
\* offset is left for code to add.
ParseField(g, name, sym, field) ==
    IF sym.structTypeId = NoType \/ field = NoRef THEN Fail(g)
    ELSE IF sym.flagIsStructRef THEN Give(Skip(g), <<"field", field>>)
    ELSE Give(Skip(g), Symbol(name, field))
ParseFieldOrIndexSuffix(g, name) ==
    LET sym == SymbolNamed(g, name)
    IN  IF g.err THEN g
        ELSE IF Peek(g) = "(" THEN
                 Give(Take(SkipNumber(Skip(Expect(g, ~sym.flagIsStructRef))), ")"), Symbol(name, NumberAt(Skip(g))))
        ELSE IF Peek(g) = "." THEN ParseField(Skip(g), name, sym, FindStructField(g, sym.structTypeId, PeekAt(g, 1)))
        ELSE Give(g, Symbol(name, NoIndex))

\* The address of a field is computed for every access.
EmitStructRefAddrIntoA1(g, name, offset) ==
    MovHere(IF offset = 0 THEN Give(g, Symbol(name, 0))
                          ELSE NewOperation(g, Symbol(name, 0), Const(offset), CMD_ADD), InternalReg(REG_AD1))
MaterializeStructRefFieldRead(g, name, offset) ==
    Give(InstrMov(EmitStructRefAddrIntoA1(g, name, offset), Result, MemAccess(1, FALSE)), Result)

ResultInTmp(g, t) == IF g.op = Result THEN ToTmp(g, Result, t) ELSE g
StoreStructRefField(g, name, offset) ==
    InstrMov(EmitStructRefAddrIntoA1(g, name, offset), MemAccess(1, FALSE), g.op)

SizeOf(g, name) == IF IsStructType(g, name) THEN Len(g.structs[name]) ELSE SymbolNamed(g, name).allocatedSize
HasSize(g, name) == IsStructType(g, name) \/ SymbolNamed(g, name).flagIsArray
ParseSizeof(g) ==
    Give(Take(TakeName(Expect(Take(g, "("), HasSize(g, PeekAt(g, 1)))), ")"), Const(SizeOf(g, PeekAt(g, 1))))

ParseShift(g, a) ==
    IF IsConst(a) /\ IsConst(g.op) THEN Give(g, Const(Calc(CMD_SHFT, a[2], g.op[2])))
    ELSE NewOperation(g, a, g.op, CMD_SHFT)
UnaryOf == ("log2" :> UNARY_LOG2) @@ ("int" :> UNARY_TRUNC)
IntrinsicOf(g, name) ==
    IF name = "shft" THEN ParseShift(ParseExpr(Take(g, ",")), g.op)
    ELSE IF IsConst(g.op) THEN Give(g, Const(IF name = "log2" THEN Calc(CMD_LOG2, g.op[2], 0) ELSE Truncated(g.op[2])))
    ELSE InstrUnaryOp(g, g.op, UnaryOf[name])
ParseIntrinsic(g, name) == Take(IntrinsicOf(ParseExpr(Take(g, "(")), name), ")")
MacResult(g) ==
    Give(Write(Take(Take(g, "("), ")"), <<"op", REG_RES, REG_RES, CMD_MAC_RES, 0, FALSE, FALSE>>, NoRef), Result)

IsFunctionPointerCall(g, name) ==
    LET sym == SymbolNamed(g, name)
    IN  sym.name # "" /\ ~sym.flagIsArray /\ ~sym.flagIsStructRef /\ Peek(g) = "("
IsCall(g, name) == IsFunction(g, name) \/ IsFunctionPointerCall(g, name)
FunctionAddress(g, name) == Give(Expect(g, ~FindFunction(g, name).isInline), Const(FindFunction(g, name).address))

ReadField(g, name) == IF g.op[1] = "field" THEN MaterializeStructRefFieldRead(g, name, g.op[2]) ELSE g

\* parserSymbolOrConstOrMem
ParseOperand(g) ==
    LET tok == Peek(g)
        h   == Skip(g)
    IN  IF Kind(tok) = "value"  THEN Give(SkipNumber(g), Const(NumberAt(g)))
        ELSE IF Kind(tok) = "mem" THEN Give(h, MemAccess(Mems[tok][1], Mems[tok][2]))
        ELSE IF Kind(tok) = "index" THEN Give(h, LoopIndex(Indices[tok]))
        ELSE IF Kind(tok) = "sizeof" THEN ParseSizeof(h)
        ELSE IF Kind(tok) # "name" THEN Fail(g)
        ELSE IF tok \in DOMAIN UnaryOf \cup {"shft"} THEN ParseIntrinsic(h, tok)
        ELSE IF tok = "macres" THEN MacResult(h)
        ELSE IF IsFunction(g, tok) /\ Peek(h) # "(" THEN FunctionAddress(h, tok)
        ELSE IF IsCall(h, tok) THEN ParseFunctionCall(h, tok)
        ELSE ReadField(ParseFieldOrIndexSuffix(h, tok), tok)

-----------------------------------------------------------------------------
(* Expressions: a stack of operands and one of operators.  The operand     *)
(* read last is in g.op.                                                   *)

UnaryMinus == "unary -"
Precedence(op) ==
    CASE op \in {"+", "-"} -> 20 [] op \in {"*", "/"} -> 30
      [] op = UnaryMinus   -> 40 [] op \in {"(", ")"} -> 10 [] OTHER -> 0
CommandOf == ("+" :> CMD_ADD) @@ ("-" :> CMD_SUB) @@ ("*" :> CMD_MUL) @@ ("/" :> CMD_DIV)

\* Constants are combined at once.
Reduce(g, a, op, t) ==
    IF IsConst(a) /\ IsConst(g.op) THEN Give(g, Const(Calc(CommandOf[op], a[2], g.op[2])))
    ELSE InstrOperation(g, a, g.op, CommandOf[op], t)
Negate(g) == IF IsConst(g.op) THEN Give(g, Const(Negated(g.op[2]))) ELSE InstrUnaryOp(g, g.op, UNARY_NEG)

RECURSIVE Combine(_, _, _, _), ExprLoop(_, _, _, _)

\* The operators that bind at least as strong as what follows take their operands;
\* a + -b becomes a - b.
Combine(g, operands, ops, t) ==
    LET top  == Last(ops)
        neg  == top = UnaryMinus
        rest == IF neg THEN Front(ops) ELSE ops
        reduces == rest # <<>> /\ (~neg \/ Last(rest) \in {"+", "-"})
        op   == IF ~neg THEN Last(rest) ELSE IF Last(rest) = "+" THEN "-" ELSE "+"
    IN  IF g.err \/ ops = <<>> \/ Precedence(Peek(g)) > Precedence(Last(ops)) THEN
                 [g |-> g, operands |-> operands, ops |-> ops]
        ELSE IF top = "(" THEN Combine(Take(g, ")"), operands, Front(ops), t)
        ELSE IF top # "(" /\ reduces THEN Combine(Reduce(g, Last(operands), op, t), Front(operands), Front(rest), t)
        ELSE Combine(Negate(g), operands, rest, t)

\* Code that an operand needs goes before the expression, and its result, or that of
\* the operand before, is kept in a temporary.
OperandInFront(g, start, t) == IF Addr(g) = start THEN g ELSE PreloadCode(ResultInTmp(g, t), start, t)
LastOperandIs(c, g) == [c EXCEPT !.g = Give(g, c.g.op), !.operands = Append(Front(@), g.op)]
KeepOperandBefore(c, t) ==
    IF c.operands # <<>> /\ Last(c.operands) = Result THEN LastOperandIs(c, ToTmp(c.g, Result, t)) ELSE c
NextOperator(c, t) ==
    IF Peek(c.g) \in DOMAIN CommandOf \cup {"("}
    THEN ExprLoop(Skip(c.g), Append(c.operands, c.g.op), Append(c.ops, Peek(c.g)), t)
    ELSE Expect(c.g, c.operands = <<>>)

\* A sign in front of an operand that is no numeral is an operator.
OpensOperand(g, ops) ==
    \/ Peek(g) = "("
    \/ Peek(g) = "-" /\ (ops = <<>> \/ Last(ops) # UnaryMinus) /\ PeekAt(g, 1) \notin DOMAIN Numerals \cup {"-"}
ExprLoop(g, operands, ops, t) ==
    IF g.err THEN g
    ELSE IF OpensOperand(g, ops) THEN
             ExprLoop(Skip(g), operands, Append(ops, IF Peek(g) = "-" THEN UnaryMinus ELSE Peek(g)), t)
    ELSE NextOperator(KeepOperandBefore(
                      Combine(OperandInFront(ParseOperand(g), Addr(g), t), operands, ops, t), t), t)

ParseExpr(g) == ExprLoop(NewTmp(g), <<>>, <<>>, NewestTmp(g) + 1)

-----------------------------------------------------------------------------
(* Conditions.                                                             *)

\* The compare mode, and whether the operands change places.
CmpModes == ("<"  :> <<CMP_LT, FALSE>>) @@ ("<=" :> <<CMP_LE, FALSE>>) @@ (">" :> <<CMP_LT, TRUE>>) @@
            (">=" :> <<CMP_LE, TRUE>>) @@ ("!=" :> <<CMP_NEQ, FALSE>>) @@ ("==" :> <<CMP_EQ, FALSE>>)
ParseCmpMode(g) == Skip(Expect(g, Peek(g) \in DOMAIN CmpModes))

\* A bracket that is still open at the next comparison is one of the condition.
IsConditionBracket(g) ==
    LET stops == {n \in g.pos .. Len(g.tokens) : g.tokens[n] \in DOMAIN CmpModes \cup {"="}}
        end   == IF stops = {} THEN Len(g.tokens) ELSE Min(stops)
        count(tok) == Cardinality({n \in g.pos .. end : g.tokens[n] = tok})
    IN  Peek(g) = "(" /\ count("(") > count(")")

\* What follows a condition goes to op: the end, or the one operator of this level.
IsLast(g) == Peek(g) = ")"
ParseConnective(g, mode) ==
    IF IsLast(g) THEN Give(g, <<"last">>)
    ELSE Give(Skip(Expect(g, Peek(g) \in {"and", "or"} /\ mode \in {"", Peek(g)})), <<Peek(g)>>)
ThenIfTrue(g) == g.op = <<"or">>

RECURSIVE ParseIfExp(_, _, _)
\* to is where the condition leads to, if it holds and if not.
NextCondition(g, to, connective) ==
    IF g.err \/ connective = "last" THEN g ELSE ParseIfExp(g, to, connective)

\* A condition in brackets has two labels of its own.
BracketJumps(g, own, to) ==
    IF g.err THEN g
    ELSE IF ThenIfTrue(g) THEN
             DeleteLabel(SetLabel(InstrGoto(ReplaceLabel(g, own[1], to[1]), to[1]), own[2]), own[2])
    ELSE DeleteLabel(ReplaceLabel(SetLabel(g, own[1]), own[2], to[2]), own[1])
ParseBracket(g, own, to, mode) ==
    BracketJumps(ParseConnective(Take(ParseIfExp(NewLabels(Skip(g), 2), own, ""), ")"), mode), own, to)

CompareJump(g, a, b, cmp, to, t) ==
    IF g.err THEN g
    ELSE InstrGoto(InstrCompare(g, a, b, cmp[1], cmp[2], ~ThenIfTrue(g), t), IF ThenIfTrue(g) THEN to[1] ELSE to[2])
\* The jump gives the connective again.
CompareTo(g, a, b, cmp, to, t) == Give(CompareJump(g, a, b, cmp, to, t), g.op)
CompareWith(g, a, cmp, to, mode, t) == CompareTo(ParseConnective(g, mode), a, g.op, cmp, to, t)
CompareFrom(g, to, mode, t) ==
    CompareWith(ParseExpr(ParseCmpMode(g)), g.op, IF g.err THEN "" ELSE CmpModes[Peek(g)], to, mode, t)

ConditionDone(g, to) == NextCondition(g, to, g.op[1])
ParseIfExp(g, to, mode) ==
    IF g.err THEN g
    ELSE IF IsConditionBracket(g) THEN ConditionDone(ParseBracket(g, NextLabels(g, 2), to, mode), to)
    ELSE ConditionDone(CompareFrom(ParseExpr(NewTmp(g)), to, mode, NewestTmp(g) + 1), to)

-----------------------------------------------------------------------------
(* Statements.                                                             *)

ParseElse(g, ls) ==
    IF Peek(g) = "else" THEN ParseStatements(SetLabel(InstrGoto(Skip(g), ls[3]), ls[2])) ELSE g
ParseThen(g, ls) == ParseElse(SetLabel(ParseStatements(SetLabel(g, ls[1])), ls[2]), ls)
IfStatement(g, ls) ==   \* then, else, end
    DeleteLabels(SetLabel(Take(ParseThen(Take(ParseIfExp(NewLabels(Take(g, "("), 3), SubSeq(ls, 1, 2), ""), ")"), ls),
                               "end"), ls[3]), ls)
ParseIfStatement(g) == IF g.err THEN g ELSE IfStatement(g, NextLabels(g, 3))

\* A simple loop uses the loop counter of the processor, a complex one counts in a
\* temporary.  The code in front of the loop is known only behind its body.
SimpleLoop(g, op, ls) ==
    InstrGoto(SetLabel(InsertCodeBefore(InstrLoop(g, op), Addr(g), ls[1]), ls[2]), ls[1])
\* The limit is the named variable itself, or a cell.
LoopLimit(g, op, ls, t) ==
    IF op[1] = "symbol" THEN Give(g, op) ELSE InsertCodeBefore(ToTmp(g, op, t), Addr(g), ls[1])
CounterFrom0(g, counter, ls) == SetLabel(InsertCodeBefore(InstrMov(g, counter, Const(0)), Addr(g), ls[1]), ls[2])
CountTo(g, limit, counter, ls, t) ==
    InstrGoto(InstrCompare(MovHere(InstrOperation(g, Const(1), counter, CMD_ADD, t), counter),
                           Result, limit, CMP_LT, FALSE, FALSE, t), ls[1])
ComplexLoop(g, counter, ls, t) == CountTo(CounterFrom0(g, counter, ls), g.op, counter, ls, t)

LoopJump(g, op, counter, ls, t) ==
    IF g.err THEN g
    ELSE IF Last(g.loops).isComplex THEN ComplexLoop(LoopLimit(g, op, ls, t), counter, ls, t)
    ELSE SimpleLoop(g, op, ls)
AtLeastNop(g, start) == IF Addr(g) = start THEN InstrNop(g) ELSE g
LoopEnd(g, ls) == DeleteLabels(Take(RemoveLoopFrame(SetLabel(g, ls[3])), "end"), ls)
LoopBody(g, ls) == ParseStatements(SetLabel(CreateLoopFrame(g, ls[2], ls[3], g.op), ls[1]))
LoopStatement(g, op, ls, t) ==   \* beg, cont, end; the counter is in g.op
    LoopEnd(LoopJump(AtLeastNop(LoopBody(g, ls), Addr(g)), op, g.op, ls, t), ls)
LoopOver(g) ==
    IF g.err THEN g
    ELSE LoopStatement(Allocate(NewTmp(NewLabels(g, 3)), NewestTmp(g) + 1), g.op, NextLabels(g, 3), NewestTmp(g) + 1)
ParseLoopStatement(g) == LoopOver(Take(ParseExpr(Take(g, "(")), ")"))

WhileHead(g, ls) == SetLabel(CreateLoopFrame(NewLabels(Take(g, "("), 3), ls[2], ls[3], NoOperand), ls[2])
WhileStatement(g, ls) ==   \* beg, cont, end
    LoopEnd(InstrGoto(ParseStatements(SetLabel(Take(ParseIfExp(WhileHead(g, ls), <<ls[1], ls[3]>>, ""), ")"), ls[1])),
                      ls[2]), ls)
ParseWhileStatement(g) == IF g.err THEN g ELSE WhileStatement(g, NextLabels(g, 3))

\* The cells of a list of expressions up to the closing bracket.
RECURSIVE ParseCells(_, _, _, _, _)
NextCell(g, name, ref, n, limit) ==
    IF Peek(g) = "," THEN ParseCells(Skip(g), name, ref, n + 1, limit)
    ELSE Take(Expect(g, limit = 0 \/ n + 1 = limit), "}")
RoomForCell(g, name, n, limit) ==
    IF n > 0 /\ limit = 0 THEN ResizeArray(g, name, n + 1) ELSE Expect(g, n = 0 \/ n < limit)
ParseCells(g, name, ref, n, limit) ==
    IF g.err THEN g
    ELSE NextCell(MovHere(ParseExpr(RoomForCell(g, name, n, limit)), SymAccess(ref, n)), name, ref, n, limit)
FirstCell(g, name, limit) == ParseCells(g, name, Link(g, name), 0, limit)

ParseArrayDecl(g, name) == FirstCell(AddArrayDeclaration(Skip(g), name, 1), name, 0)
StructCells(g, name, size) == IF Peek(g) = "{" THEN FirstCell(Skip(g), name, size) ELSE g
ParseStructInstanceDecl(g, type) ==
    StructCells(AddStructInstanceDeclaration(TakeName(g), Peek(g), type), Peek(g), Len(g.structs[type]))
PointerValue(g, name) == IF Peek(g) = "=" THEN MovHere(ParseExpr(Skip(g)), Symbol(name, 0)) ELSE g
ParseStructPointerDecl(g, type) ==
    PointerValue(AddStructPointerDeclaration(TakeName(g), Peek(g), type), Peek(g))

RECURSIVE ParseFields(_, _)
ParseFields(g, fields) ==
    IF g.err \/ Peek(g) = "}" THEN Give(Skip(g), fields)
    ELSE ParseFields(Take(TakeName(g), ";"), Append(fields, Peek(g)))
DeclareStruct(g, name) == AddStructDeclaration(g, name, g.op)
ParseStructDecl(g) == Take(DeclareStruct(ParseFields(Take(TakeName(g), "{"), <<>>), Peek(g)), ";")

ReferenceTo(g, name) == SkipNumber(AddReference(Expect(g, NumberAt(g) >= 4), name, NumberAt(g)))
ParseRef(g) ==
    IF IsStructType(g, Peek(g)) THEN ParseStructPointerDecl(TakeName(g), Peek(g))
    ELSE ReferenceTo(TakeName(g), Peek(g))

\* The result, 0 by default, goes to the first word of the frame.
ReturnHere(g) == InstrGoto2(InstrMov(g, Result, RetAddr(g)))
ReturnValue(g) == MovHere(g, IrsAndRes(g))
ParseReturn(g) ==
    ReturnHere(Take(ReturnValue(IF Peek(g) = ";" THEN Give(g, Const(0)) ELSE ParseExpr(g)), ";"))

MacOperation(g, a) == NewOperation(g, a, g.op, CMD_MAC)
ParseMacSecond(g) == MacOperation(Take(ParseExpr(Take(g, ",")), ")"), g.op)
ParseMac(g) == ParseMacSecond(ParseExpr(Take(g, "(")))

\* To the field of a struct behind a pointer, or to any other operand.
AssignTo(g, name, op) ==
    IF op[1] = "field" THEN StoreStructRefField(ResultInTmp(NewTmp(g), NewestTmp(g) + 1), name, op[2])
    ELSE MovHere(g, op)
ParseAssignment(g, name) == AssignTo(Take(ParseExpr(Take(g, "=")), ";"), name, g.op)

ParseBusLock(g) == InstrLock(Take(ParseStatements(InstrLock(Take(g, "{"), FALSE)), "}"), TRUE)

\* A statement that begins with a name, or with what an assignment goes to; g is
\* behind it.
ParseNamed(g, name) ==
    IF IsStructType(g, name) THEN Take(ParseStructInstanceDecl(g, name), ";")
    ELSE IF name = "mac" THEN Take(ParseMac(g), ";")
    ELSE IF IsCall(g, name) THEN Take(ParseFunctionCall(g, name), ";")
    ELSE IF Kind(name) = "name" /\ Peek(g) = "{" THEN Take(ParseArrayDecl(g, name), ";")
    ELSE ParseAssignment(
                      IF name \in DOMAIN Regs THEN Give(g, InternalReg(Regs[name]))
                      ELSE IF name \in DOMAIN Mems THEN Give(g, MemAccess(Mems[name][1], Mems[name][2]))
                      ELSE ParseFieldOrIndexSuffix(g, name), name)

\* decl, array, def: a name and a number.
DeclareNumber(g, keyword, name) ==
    SkipNumber(IF keyword = "def" THEN AddDefinition(g, name, NumberAt(g)) ELSE AddArrayDeclaration(g, name, NumberAt(g)))
StartHere(g) == [g EXCEPT !.startAddr = Addr(g)]

RECURSIVE ParseFunctionDecl(_)
ParseStatement(g) ==
    LET tok == Peek(g)
        h   == Skip(g)
    IN  CASE tok = "if"       -> ParseIfStatement(h)
          [] tok = "loop"     -> ParseLoopStatement(h)
          [] tok = "while"    -> ParseWhileStatement(h)
          [] tok = "continue" -> Take(InstrContinue(h), ";")
          [] tok = "break"    -> Take(InstrBreak(h), ";")
          [] tok \in {"decl", "array", "def"} -> Take(DeclareNumber(TakeName(h), tok, Peek(h)), ";")
          [] tok = "struct"   -> ParseStructDecl(h)
          [] tok = "ref"      -> Take(ParseRef(h), ";")
          [] tok = "function" -> StartHere(ParseFunctionDecl(h))
          [] tok = "return"   -> ParseReturn(h)
          [] tok = "buslock"  -> ParseBusLock(h)
          [] OTHER -> ParseNamed(h, tok)

\* A token that begins no statement is left; a loop index or a sign is an error.
StartsStatement(g) ==
    ~g.err /\ Kind(Peek(g)) \notin {"value", "eos", "end", "else", "and", "or", "sizeof", "index", "unexpected"}
ParseStatements(g) ==
    IF StartsStatement(g) THEN ParseStatements(ParseStatement(g))
    ELSE Expect(g, Kind(Peek(g)) \notin {"index", "unexpected"})

-----------------------------------------------------------------------------
(* Functions.                                                              *)

\* An inlined function at its call: its own symbols follow those of the caller, and
\* the word of the result becomes the first one of the call frame.
PrepareInline(fi, offset, irsAddr) ==
    LET own == 3 + fi.parameters
        prepared(x) ==
            IF ~IsIrs(x.i) \/ x.ref = NoRef THEN x
            ELSE IF x.ref >= own THEN [x EXCEPT !.ref = @ + offset - own]
            ELSE IF x.ref = 0 THEN [i |-> WithOffset(x.i, irsAddr[3]), ref |-> irsAddr[2], alreadyPatched |-> TRUE]
            ELSE x
    IN  Whole([k \in DOMAIN fi.instrs |-> prepared(fi.instrs[k])])

PatchParameter(instrs, n, param) ==
    Whole([k \in DOMAIN instrs |->
        IF instrs[k].ref = 3 + n /\ ~instrs[k].alreadyPatched
        THEN [i |-> WithOffset(instrs[k].i, param[3]), ref |-> param[2], alreadyPatched |-> TRUE]
        ELSE instrs[k]])

\* An argument of an inlined function is the caller's own cell unless it has none or
\* the function writes it.  The loop around the call becomes complex.
InLoopFrame(g, label) == RemoveLoopFrame(CreateLoopFrame(g, label, label, NoOperand))
ArgumentResolved(g) == IF g.op[1] = "symbol" THEN ResolveOperand(g, g.op, FALSE) ELSE g
ArgumentCell(g, written, t) ==
    IF ~IsResolved(g.op) \/ IsArrayBase(g.op) \/ written THEN ToTmp(g, g.op, t) ELSE g
InlineArgument(g, written, t, dummy) ==
    DeleteLabel(ArgumentCell(ArgumentResolved(InLoopFrame(NewLabels(g, 1), dummy)), written, t), dummy)

\* n arguments have been read; the end gives their number and the patched code.
RECURSIVE ParseArguments(_, _, _, _, _)
NextArgument(g, fi, instrs, n, t) ==
    ParseArguments(IF Peek(g) = "," THEN Expect(Skip(g), PeekAt(g, 1) # ")") ELSE g, fi,
                   IF g.err THEN instrs ELSE PatchParameter(instrs, n, g.op), n + 1, t)
HasType(g, types, n) ==
    \/ n >= Len(types) \/ types[n + 1] = NoType
    \/ g.op[1] = "symbol" /\ SymbolNamed(g, g.op[2]).structTypeId = types[n + 1]
PassArgument(g, fi, n, t) ==
    IF g.err \/ ~HasType(g, fi.types, n) THEN Fail(g)
    ELSE IF fi.isInline THEN InlineArgument(g, n \in fi.written, t, NextLabels(g, 1)[1])
    ELSE ToTmp(g, g.op, t)
ParseArguments(g, fi, instrs, n, t) ==
    IF g.err THEN [g |-> g, n |-> n, instrs |-> instrs]
    ELSE IF Peek(g) = ")" THEN [g |-> Skip(g), n |-> n, instrs |-> instrs]
    ELSE NextArgument(PassArgument(ParseExpr(Expect(g, n < 16)), fi, n, t), fi, instrs, n, t)

\* Mutant: the label is set in front of the jump.
JumpsToItself(g, ret) == InstrGoto2(SetLabel(g, ret))
ReturnsTo(g, ret) == SetLabel(InstrGoto2(g), ret)

\* A call: the frame of the callee begins at cell[1], which gets the address of the
\* frame and later the result; then the return address, the caller's frame, and the
\* arguments.  The target is in result when the frame changes.
CallCode(g, cell, ret, target) ==
    LET frame == NewOperation(InstrMov(g, Result, ConstWithRef(cell[1][2], 1)), Result, IrsAndRes(g), CMD_ADD)
        call  == << <<cell[1], Result>>, <<Result, ConstWithRef(RefLabelOffset + ret, 2)>>, <<cell[2], Result>>,
                    <<cell[3], IrsAndRes(g)>>, <<Result, target>>, <<InternalReg(REG_IRS), cell[1]>> >>
    IN  InstrMov(ReturnsTo(InstrMovs(frame, call), ret), InternalReg(REG_IRS), IrsRest(g))

CalleeSymbols(g, fi) == IF fi.isInline THEN [g EXCEPT !.map = AppendMap(@, fi.symbols, 3 + fi.parameters)] ELSE g
CallTarget(g, name) == IF IsFunction(g, name) THEN Const(FindFunction(g, name).address) ELSE Symbol(name, NoIndex)
CallBody(g, name, fi, instrs, cell, ret) ==
    IF g.err THEN g
    ELSE IF fi.isInline THEN AppendInstrs(g, instrs)
    ELSE CallCode(g, cell, ret, CallTarget(g, name))
CallEnd(a, name, fi, cell, ret) ==
    Give(DeleteLabel(CallBody(Expect(a.g, ~IsFunction(a.g, name) \/ fi.parameters = a.n), name, fi, a.instrs, cell, ret),
                     ret), cell[1])
CallIn(g, name, fi, cell, ret, t) ==
    CallEnd(ParseArguments(CalleeSymbols(g, fi), fi, PrepareInline(fi, Len(g.map.symbols), cell[1]), 0, t),
            name, fi, cell, ret)
CallFrame(g, name, ret, t) ==
    IF g.err THEN g
    ELSE CallIn(Allocate(g, t), name, FindFunction(g, name),
                [n \in 1 .. 3 |-> SymAccess(g.tmps[t].ref, n - 1)], ret, t)
ParseFunctionCall(g, name) ==
    IF g.err THEN g
    ELSE CallFrame(Allocate(Allocate(NewLabels(NewTmp(Take(g, "(")), 1), NewestTmp(g) + 1), NewestTmp(g) + 1),
                   name, NextLabels(g, 1)[1], NewestTmp(g) + 1)

\* The parameters of a declaration, with the struct type of those that have one.
RECURSIVE ParseParameters(_, _)
NextParameter(g, types) ==
    ParseParameters(IF Peek(g) = "," THEN Expect(Skip(g), PeekAt(g, 1) # ")") ELSE g, types)
PlainParameter(g, n) == AddReference(TakeName(Expect(g, n < 16)), Peek(g), 3 + n)
StructParameter(g, n, type) == MarkSymbolAsStructReference(PlainParameter(g, n), Peek(g), type)
ParseParameters(g, types) ==
    IF g.err \/ Peek(g) = ")" THEN Give(Skip(g), types)
    ELSE IF IsStructType(g, Peek(g)) THEN
             NextParameter(StructParameter(Skip(g), Len(types), Peek(g)), Append(types, Peek(g)))
    ELSE NextParameter(PlainParameter(g, Len(types)), Append(types, NoType))

\* What is kept of a function that is inlined: its code without the return at the
\* end; any other return jumps there.
InlineBody(g, start) ==
    LET size == Addr(g) - start - 2
        body(k) == LET x == g.code[start + k]
                   IN  IF IsIrs(x.i) /\ x.ref = Link(g, "__RET__")
                       THEN [i |-> Goto(size - (k - 1)), ref |-> NoRef, alreadyPatched |-> FALSE]
                       ELSE [i |-> x.i, ref |-> x.ref, alreadyPatched |-> FALSE]
    IN  Whole([k \in 1 .. size |-> body(k)])
WrittenParameters(g, instrs, parameters) ==
    {n \in 0 .. parameters - 1 :
        \E k \in DOMAIN instrs : /\ instrs[k].i[1] = "mov" /\ instrs[k].i[2] = IRS
                                 /\ instrs[k].ref # NoRef /\ Sym(g, instrs[k].ref).flagAllocated
                                 /\ Sym(g, instrs[k].ref).allocatedAddr = 3 + n}

Digits == {ToString(n) : n \in 0 .. 9}
MainNames == {"main" \o a \o b \o c : a, b, c \in Digits \cup {""}}
IsInline(g, name, start) ==
    /\ name \notin MainNames /\ Addr(g) - start < g.inlineFunctionThreshold
    /\ ~IsArrayDeclInCurrentSymbolMap(g)
Inlined(g, name, start, body) ==
    [g EXCEPT !.code = SubSeq(@, 1, start),
              !.functions[name] = [@ EXCEPT !.isInline = TRUE, !.instrs = body, !.symbols = g.map,
                                            !.written = WrittenParameters(g, body, g.functions[name].parameters)]]
FunctionCode(g, name, start) ==
    IF g.err THEN g
    ELSE IF IsInline(g, name, start) THEN Inlined(g, name, start, InlineBody(g, start))
    ELSE StorageAllocationPass(g, 4 + g.functions[name].parameters)

\* A body that does not end in a return returns 0.
FunctionReturns(g, start) ==
    IF g.err \/ (Addr(g) > start /\ g.code[Addr(g)].i = <<"gotor">>) THEN g
    ELSE ReturnHere(ReturnValue(Give(g, Const(0))))
FunctionBody(g, name) ==
    ParseStatements([g EXCEPT !.functions[name].parameters = Len(g.op), !.functions[name].types = g.op])
NewFunction(g, name) ==
    LET fi == [symbols |-> NewMap(Addr(g)), address |-> Addr(g), parameters |-> 0, isInline |-> FALSE,
               written |-> {}, instrs |-> <<>>, types |-> <<>>]
    IN  [Expect(g, ~IsFunction(g, name)) EXCEPT !.functions = (name :> fi) @@ @]
FunctionHead(g, name) == ParseParameters(Take(CallStackRefs(PushSymbolMap(NewFunction(g, name))), "("), <<>>)
DeclareFunction(g, name) ==
    IF g.err THEN g
    ELSE Take(PopSymbolMap(FunctionCode(FunctionReturns(FunctionBody(FunctionHead(g, name), name), Addr(g)),
                                        name, Addr(g))), "end")
\* A function begins at a multiple of eight.
Aligned(g) == AppendInstrs(g, [n \in 1 .. (8 - (Addr(g) % 8)) % 8 |-> [i |-> <<"nop">>, ref |-> NoRef]])
ParseFunctionDecl(g) == DeclareFunction(Aligned(TakeName(g)), Peek(g))

-----------------------------------------------------------------------------
(* A whole program.                                                        *)

\* parse: what is done before the first statement and behind the last.
ParseBegin(tokens, inlineFunctionThreshold) == CallStackRefs(NewGen(tokens, inlineFunctionThreshold))
ParseEnd(g) == GenerateEntryVector(Expect(g, Kind(Peek(g)) = "eos"), g.startAddr)
=============================================================================
