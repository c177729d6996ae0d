----------------------------- MODULE MCPrograms -----------------------------
(* Small programs for SLProcessor and SLCore: each menu aims at one part of *)
(* a pipeline.  A menu begins with the instructions that set up registers.  *)
EXTENDS SLDecode

Mov(a, b)      == <<"mov", a, b, 0, FALSE>>
MovInc(a, b)   == <<"mov", a, b, 0, TRUE>>
ToIrs(k)       == <<"mov", IRS, REG_RES, k, FALSE>>
FromIrs(a, k)  == <<"mov", a, IRS, k, FALSE>>
OpIrs(a, c, k, inc) == <<"op", a, IRS, c, k, inc, FALSE>>
OpMem(a, b, c, inc, inc2) == <<"op", a, b, c, 0, inc, inc2>>
Load(d)        == <<"load", d>>

\* 13 = 1 + 1 * 3 + 1 * 9 into a1: an external address.
SetA1 == << {Load(1)}, {Load(1)}, {Load(1)}, {Mov(REG_AD1, REG_RES)} >>
Menu(q) == [n \in 0 .. Len(q) - 1 |-> q[n + 1]]

\* Memory accesses of every kind behind writes of words and registers.
Memory == SetA1 \o <<
    { MovInc(REG_RES, DEREF_AD1), MovInc(DEREF_AD1, REG_RES), MovInc(DEREF_AD0, REG_RES),
      ToIrs(1), Mov(REG_AD0, REG_RES), FromIrs(REG_AD1, 2), Load(1) },
    { Mov(REG_RES, DEREF_AD1), Mov(DEREF_AD1, REG_RES), MovInc(REG_RES, DEREF_AD0),
      MovInc(DEREF_AD0, REG_RES), ToIrs(1), FromIrs(REG_RES, 1), FromIrs(REG_AD1, 2),
      OpIrs(REG_RES, CMD_SUB, 0, FALSE), OpIrs(DEREF_AD0, CMD_MUL, 1, TRUE),
      OpMem(REG_RES, DEREF_AD1, CMD_ADD, TRUE, FALSE), OpMem(REG_RES, DEREF_AD0, CMD_SUB, TRUE, FALSE),
      OpMem(DEREF_AD0, DEREF_AD1, CMD_SUB, FALSE, TRUE) },
    { MovInc(REG_RES, DEREF_AD1), MovInc(DEREF_AD1, REG_RES), ToIrs(2), FromIrs(REG_RES, 1),
      OpIrs(REG_RES, CMD_SUB, 1, FALSE), OpMem(DEREF_AD0, DEREF_AD1, CMD_SUB, TRUE, FALSE) } >>

\* Operations of different latency, and moves of the base of the local words.
Arith == << {Load(2)},
    { OpIrs(REG_RES, CMD_DIV, 0, FALSE), OpIrs(REG_RES, CMD_MAC, 1, FALSE), ToIrs(0),
      <<"unary", UNARY_LOG2>>, Load(1), Mov(REG_IRS, REG_RES) },
    { OpIrs(REG_RES, CMD_MAC, 1, FALSE), OpIrs(REG_RES, CMD_MAC_RES, 1, FALSE),
      OpIrs(REG_RES, CMD_SHFT, 1, FALSE), <<"unary", UNARY_NEG>>, <<"unary", UNARY_TRUNC>>,
      <<"cmp", CMP_LT, 0>>, <<"signal", BUS_LOCK>>, Load(1) },
    { OpIrs(REG_RES, CMD_DIV, 1, FALSE), OpIrs(REG_RES, CMD_MAC_RES, 1, FALSE), ToIrs(0),
      <<"cmp", CMP_NEQ, 1>>, <<"signal", BUS_UNLOCK>>, <<"signal", WAIT_ALL>> } >>

\* Jumps and comparisons.
Jumps == << {Load(2)},
    { <<"cmp", CMP_EQ, 0>>, <<"cmp", CMP_NEQ, 0>>, <<"cmp", CMP_LE, 1>>, <<"goto", 2>>,
      OpIrs(REG_RES, CMD_SUB, 1, FALSE) },
    { <<"cmp", CMP_LT, 0>>, <<"goto", 2>>, <<"gotor">>, <<"goto", -1>>, ToIrs(0) },
    { <<"goto", 2>>, <<"gotor">>, <<"goto", -2>>, OpIrs(REG_RES, CMD_SUB, 0, FALSE) },
    { ToIrs(0) } >>

\* External reads and writes behind jumps and skips.
JumpsOverReads == SetA1 \o <<
    { <<"goto", 3>>, <<"cmp", CMP_EQ, 0>>, <<"cmp", CMP_LT, 1>> },
    { MovInc(REG_RES, DEREF_AD1), MovInc(DEREF_AD1, REG_RES), <<"goto", 2>> },
    { MovInc(REG_RES, DEREF_AD1), FromIrs(REG_AD1, 2), OpMem(REG_RES, DEREF_AD1, CMD_ADD, TRUE, FALSE) },
    { MovInc(REG_RES, DEREF_AD1), ToIrs(2) } >>

\* A hardware loop, and one within a loop.
Loops == << {Load(0), Load(2)}, {<<"loop">>}, {Nop},
            {MovInc(REG_RES, DEREF_AD0), OpIrs(REG_RES, CMD_ADD, 1, FALSE)},
            {<<"goto", -1>>, <<"goto", -2>>}, {<<"cmp", CMP_LT, 1>>, <<"goto", 2>>, <<"loop">>},
            {<<"goto", -5>>, <<"goto", -3>>, ToIrs(2)}, {ToIrs(1)} >>

\* a0 leaves an external address while the word behind it is about to be read.
Bases == SetA1 \o << { Mov(REG_AD0, REG_RES) }, { Load(1) }, { Mov(REG_AD0, REG_RES), Mov(REG_AD1, REG_RES) },
                    { MovInc(REG_RES, DEREF_AD0), OpMem(REG_RES, DEREF_AD0, CMD_ADD, TRUE, FALSE) } >>

MCMenus == {Menu(Memory), Menu(Arith), Menu(Jumps), Menu(JumpsOverReads), Menu(Loops), Menu(Bases)}
=============================================================================
