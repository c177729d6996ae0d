-------------------------------- MODULE SLIsa -------------------------------
(***************************************************************************)
(* What a program of the processor means: one instruction after the other, *)
(* without a pipeline.  An instruction is a tuple that begins with its     *)
(* family; Word makes its code and Line says what a listing shows of it.   *)
(* The machine is the specification the pipeline of SLProcessor is held    *)
(* against.  Allowed leaves out what the code generator never emits and    *)
(* the processor does not do.                                              *)
(***************************************************************************)
EXTENDS SLArithUnit

CONSTANTS SharedAddrBase,   \* words of the local memory; external addresses follow
          LoadBase          \* values of one fragment of a loaded constant

ASSUME MemoryAssumption == SharedAddrBase \in 1 .. Mod - 1 /\ LoadBase \in Nat \ {0} /\ LoadBase^3 <= Mod

Addresses == 0 .. 2^16 - 1   \* of the code memory
Local    == 0 .. SharedAddrBase - 1
External == SharedAddrBase .. Mod - 1

Word(i) ==
    CASE i[1] = "mov"    -> MovCreate(i[2], i[3], i[4], i[5])
      [] i[1] = "op"     -> OpCreate(i[2], i[3], i[4], i[5], i[6], i[7])
      [] i[1] = "cmp"    -> CmpCreate(i[3], i[2])
      [] i[1] = "goto"   -> GotoCreate(i[2])
      [] i[1] = "gotor"  -> GotoResult
      [] i[1] = "load"   -> LoadCreate(i[2])
      [] i[1] = "unary"  -> UnaryCreate(i[2])
      [] i[1] = "signal" -> SignalCreate(i[2])
      [] i[1] = "loop"   -> LoopCreate
      [] OTHER           -> NopCode

\* The instructions the code generator emits.  A second address register is read in
\* operations only, the first word of an operation is never behind a1, and a word that
\* one address register selects has the increment in the first flag.
Offsets    == 0 .. 511
Fragments  == 0 .. 4095
Operations == {CMD_ADD, CMD_SUB, CMD_MUL, CMD_DIV, CMD_MAC, CMD_MAC_RES, CMD_LOG2, CMD_SHFT}
Pointers   == {DEREF_AD0, DEREF_AD1}
NoInc      == FALSE
Moves ==
    {<<"mov", IRS, REG_RES, k, NoInc>> : k \in Offsets}
        \cup {<<"mov", r, IRS, k, NoInc>> : r \in {REG_AD0, REG_AD1, REG_IRS, REG_RES}, k \in Offsets}
        \cup {<<"mov", r, REG_RES, 0, NoInc>> : r \in {REG_AD0, REG_AD1, REG_IRS}}
        \cup {<<"mov", a, REG_RES, 0, inc>> : a \in Pointers, inc \in BOOLEAN}
        \cup {<<"mov", REG_RES, a, 0, inc>> : a \in Pointers, inc \in BOOLEAN}
Calculations ==
    {<<"op", REG_RES, IRS, c, k, NoInc, NoInc>> : c \in Operations, k \in Offsets}
        \cup {<<"op", DEREF_AD0, IRS, c, k, inc, NoInc>> :
                  c \in Operations \ {CMD_LOG2, CMD_SHFT}, k \in Offsets, inc \in BOOLEAN}
        \cup {<<"op", REG_RES, b, c, 0, inc, NoInc>> : b \in Pointers, c \in Operations, inc \in BOOLEAN}
        \cup {<<"op", DEREF_AD0, b, c, 0, inc, inc2>> :
                  b \in Pointers, c \in Operations, inc \in BOOLEAN, inc2 \in BOOLEAN}
        \cup {<<"op", REG_RES, REG_RES, CMD_MAC_RES, 0, NoInc, NoInc>>}
Instructions ==
    Moves \cup Calculations
        \cup {<<"cmp", mode, k>> : mode \in CMP_EQ .. CMP_LE, k \in Offsets}
        \cup {<<"goto", distance>> : distance \in -512 .. 511} \cup {<<"gotor">>}
        \cup {<<"load", data>> : data \in Fragments}
        \cup {<<"unary", u>> : u \in {UNARY_NEG, UNARY_LOG2, UNARY_TRUNC}}
        \cup {<<"signal", mode>> : mode \in {WAIT_ALL, WAIT_SIG, BUS_LOCK, BUS_UNLOCK}}
        \cup {<<"loop">>, <<"nop">>}

\* A constant is loaded in up to three fragments.
Weight(part) == CASE part = 1 -> 1 [] part = 2 -> LoadBase [] OTHER -> LoadBase * LoadBase

Line(i, addr) ==
    IF i[1] = "mov" /\ IRS \in {i[2], i[3]} THEN SubSeq(i, 1, 4)
    ELSE IF i[1] = "mov" /\ i[3] = REG_RES /\ ~Deref(i[2]) THEN SubSeq(i, 1, 3)
    ELSE IF i[1] = "mov" THEN <<"mov", i[2], i[3], Num(i[5])>>
    ELSE IF i[1] = "op" /\ i[3] = IRS THEN <<"op", i[2], i[4], IRS, i[5], Num(i[6])>>
    ELSE IF i[1] = "op" /\ Deref(i[2]) THEN <<"op", i[2], i[4], i[3], Num(i[6]), Num(i[7])>>
    ELSE IF i[1] = "op" THEN <<"op", i[2], i[4], i[3], 0, Num(i[6])>>
    ELSE IF i[1] = "goto" THEN <<"goto", addr + i[2]>>
    ELSE IF i[1] = "gotor" THEN <<"goto", REG_RES, 0>>
    ELSE i

-----------------------------------------------------------------------------
Nowhere == SharedAddrBase     \* last, when the last instruction wrote no local word

IsaReset(m, x) ==
    [pc |-> 0, result |-> 0, irs |-> 0, addr |-> <<0, 0>>, mem |-> m, ext |-> x, loop |-> 0,
     part |-> 1, acc |-> 0, lock |-> FALSE, last |-> Nowhere, fresh |-> FALSE]

AddrOf(s, a, off) == IF a = IRS THEN s.irs + off ELSE s.addr[1 + MuxAD(a)]
Cell(s, n) == IF n \in Local THEN s.mem[n] ELSE s.ext[n]
Value(s, a, off) == IF a = REG_RES THEN s.result ELSE Cell(s, AddrOf(s, a, off))
Usable(s, a, off) ==
    CASE a \in {IRS, DEREF_AD0} -> AddrOf(s, a, off) \in Local
      [] a = DEREF_AD1 -> AddrOf(s, a, off) \in Local \cup DOMAIN s.ext
      [] OTHER -> TRUE

\* Which address registers an instruction increments.  With one flag it is for every
\* operand behind a register, with two each operand has its own.
Selects(a, r) == Deref(a) /\ MuxAD(a) = r
Advances(i, r) ==
    \/ i[1] = "mov" /\ IRS \notin {i[2], i[3]} /\ i[5] /\ (Selects(i[2], r) \/ Selects(i[3], r))
    \/ i[1] = "op" /\ i[6] /\ (Selects(i[2], r) \/ (Selects(i[3], r) /\ ~Deref(i[2])))
    \/ i[1] = "op" /\ i[7] /\ Selects(i[3], r) /\ Deref(i[2])
Incremented(addr, i) == [r \in 1 .. 2 |-> addr[r] + Num(Advances(i, r - 1))]

\* What an instruction may be given: addresses that exist, and at most one word
\* behind an address register or of the frame.
Defined(s, i) ==
    CASE i[1] = "mov" -> /\ Usable(s, i[2], i[4]) /\ Usable(s, i[3], i[4])
                         /\ i[2] = REG_RES \/ ~Deref(i[3])
      [] i[1] = "op"  -> Usable(s, i[2], i[5]) /\ Usable(s, i[3], i[5])
      [] i[1] = "cmp" -> Usable(s, IRS, i[3])
      [] i[1] = "load" -> s.part <= 3
      [] OTHER -> TRUE

\* And what the pipeline needs: no second operand that the instruction just before
\* has stored, and inside a hardware loop no goto but the one that closes it.
Allowed(s, i) ==
    /\ Defined(s, i)
    /\ CASE i[1] = "op"  -> i[2] # REG_RES \/ AddrOf(s, i[3], i[5]) # s.last
         [] i[1] = "cmp" -> s.irs + i[3] # s.last
         [] i[1] = "goto" -> (s.loop > 0 => i[2] < 0) /\ ~s.fresh
         [] i[1] \in {"gotor", "loop"} -> s.loop = 0
         [] OTHER -> TRUE

Stored(s, i) ==
    LET n == AddrOf(s, i[2], i[4])
    IN  IF n \in Local THEN [s EXCEPT !.mem[n] = s.result, !.last = n]
        ELSE [s EXCEPT !.ext[n] = s.result]

Moved(s, i) ==
    LET v == Value(s, i[3], i[4])
    IN  CASE i[2] = REG_RES -> [s EXCEPT !.result = v]
          [] i[2] = REG_IRS -> [s EXCEPT !.irs = v]
          [] i[2] \in {REG_AD0, REG_AD1} -> [s EXCEPT !.addr[1 + i[2]] = v]
          [] OTHER -> Stored(s, i)

Holds(mode, a, b) ==
    CASE mode = CMP_EQ -> a = b [] mode = CMP_NEQ -> a # b [] mode = CMP_LT -> a < b [] OTHER -> a <= b

IsaStep(s0, i) ==
    LET s == [s0 EXCEPT !.pc = @ + 1, !.last = Nowhere, !.fresh = FALSE,
                        !.part = IF i[1] = "load" THEN @ + 1 ELSE 1]
        a == Value(s, i[2], i[5])
        b == Value(s, i[3], i[5])
    IN  CASE i[1] = "mov" -> [Moved(s, i) EXCEPT !.addr = Incremented(@, i)]
          [] i[1] = "op" ->
               LET t == [s EXCEPT !.addr = Incremented(@, i)]
               IN  CASE i[4] = CMD_MAC -> [t EXCEPT !.acc = (@ + a * b) % Mod]
                     [] i[4] = CMD_MAC_RES -> [t EXCEPT !.result = s.acc, !.acc = 0]
                     [] OTHER -> [t EXCEPT !.result = Calc(i[4], a, b)]
          [] i[1] = "cmp" ->
               IF Holds(i[2], s.result, Value(s, IRS, i[3])) THEN s ELSE [s EXCEPT !.pc = @ + 1]
          [] i[1] = "goto" ->
               CASE s.loop > 1 -> [s EXCEPT !.pc = s0.pc + i[2], !.loop = @ - 1]
                 [] s.loop = 1 -> [s EXCEPT !.loop = 0]
                 [] OTHER      -> [s EXCEPT !.pc = s0.pc + i[2]]
          [] i[1] = "gotor" -> [s EXCEPT !.pc = s.result]
          [] i[1] = "load" -> [s EXCEPT !.result = (IF s0.part = 1 THEN 0 ELSE @)
                                                       + i[2] * Weight(s0.part)]
          [] i[1] = "unary" -> [s EXCEPT !.result =
               CASE i[2] = UNARY_NEG -> Negated(@) [] i[2] = UNARY_TRUNC -> Truncated(@)
                 [] OTHER -> Calc(CMD_LOG2, @, 0)]
          [] i[1] = "loop" -> [s EXCEPT !.loop = IF s.result = 0 THEN 1 ELSE s.result, !.fresh = TRUE]
          [] i[1] = "signal" /\ i[2] \in {BUS_LOCK, BUS_UNLOCK} -> [s EXCEPT !.lock = i[2] = BUS_LOCK]
          [] OTHER -> s
=============================================================================
