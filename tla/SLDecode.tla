------------------------------ MODULE SLDecode ------------------------------
(***************************************************************************)
(* The decoder of the processor (sl_dec.vhd): what a word asks of the      *)
(* stages.  decodeInstr of the simulator computes the same fields from the *)
(* same bits, so SLCore and SLProcessor share it.                          *)
(***************************************************************************)
EXTENDS SLIsa

S_FETCH == "fetch"    \* the bits of enable
S_DECEX == "decex"
S_EXEC == "exec"
Nop == <<"nop">>

(* What the bits of a word say.                                           *)
Form(w) == Bits(w, 15, 12)
Sub(w)  == Bits(w, 11, 6)
IsOpIrs(w)   == Bit(w, 15) = 0
IsMovReg(w)  == Form(w) = 8
IsMovCell(w) == Form(w) = 9
IsOp(w)      == Form(w) = 12
IsCmp(w)     == Form(w) = 13
IsMovData(w) == Form(w) = 15 /\ Sub(w) \in {0, 1}
IsMovMem(w)  == Form(w) = 15 /\ Sub(w) = 2
IsSignal(w)  == Form(w) = 15 /\ Sub(w) = 3
IsUnary(w)   == Form(w) = 15 /\ Sub(w) = 4

SelectA(w) == CASE IsMovReg(w) -> MUX1_MEM
                [] Form(w) \in {11, 13} \/ (Form(w) = 15 /\ Sub(w) > 5) -> MUX1_RESULT
                [] OTHER -> Bit(w, 1)
FromMem(w) == SelectA(w) = MUX1_MEM
EnIRS(w) == IsOpIrs(w) \/ IsMovReg(w) \/ IsMovCell(w) \/ IsCmp(w)
WbREG(w) == IF IsMovReg(w) THEN Bits(w, 1, 0) ELSE Bits(w, 6, 5)
EnADr0(w) == (IsOpIrs(w) \/ IsOp(w) \/ IsMovMem(w)) /\ FromMem(w)
EnADr1(w) == IsOp(w) \/ IsMovMem(w) \/ (IsMovData(w) /\ WbREG(w) = WBREG_NONE)
IncAD(w) == (IsOp(w) \/ IsMovData(w) \/ IsMovMem(w)) /\ Bit(w, 4) = 1
IncAD2(w) == \/ IsOpIrs(w) /\ Bit(w, 11) = 1
             \/ IsOp(w) /\ Bit(w, 9) = 1
             \/ IsMovMem(w) /\ FromMem(w) /\ Bit(w, 4) = 1
Inc(w, r) == (IncAD(w) /\ Bit(w, 2) = r) \/ (IncAD2(w) /\ Bit(w, 0) = r)
Command(w) == CASE IsOpIrs(w) -> Bits(w, 14, 12) + (IF FromMem(w) THEN 0 ELSE 8 * Bit(w, 0))
                [] IsOp(w)    -> Bits(w, 8, 5)
                [] IsCmp(w) -> CMD_CMP
                [] IsUnary(w) -> 8 + Bits(w, 5, 3)
                [] OTHER    -> CMD_MOV

\* code is the word fetched with its address, s has the address registers and irs.
Decode(code, s) ==
    LET w == code.data
    IN  [curPc |-> code.pc, muxA |-> SelectA(w), muxAD0 |-> Bit(w, 0), muxAD1 |-> Bit(w, 2),
         enIRS |-> EnIRS(w), enMEM |-> IsMovCell(w) \/ IsMovMem(w), enREG |-> IsMovReg(w) \/ IsMovData(w),
         wbREG |-> WbREG(w), enADr0 |-> EnADr0(w), enADr1 |-> EnADr1(w), cmd |-> Command(w),
         goto |-> Form(w) = 10, gotoConst |-> IsGoto(w),
         jmpBack |-> Bit(w, 11) = 1, jmpTarget |-> (code.pc + Bits(w, 10, 2) - 512 * Bit(w, 11)) % 65536,
         load |-> IsLoad(w), loadData |-> Bits(w, 11, 0), cmp |-> IsCmp(w), cmpMode |-> Bits(w, 1, 0),
         neg |-> IsUnary(w) /\ Bit(w, 0) = 1, trunc |-> IsUnary(w) /\ Bit(w, 2) = 1, loop |-> Form(w) = 15 /\ Sub(w) = 5,
         busLock |-> IsSignal(w) /\ Bit(w, 2 + BUS_LOCK) = 1,
         busUnlock |-> IsSignal(w) /\ Bit(w, 2 + BUS_UNLOCK) = 1,
         memEx |-> ~EnIRS(w) /\ s.addr[1 + Bit(w, 2)] >= SharedAddrBase,
         irsAddr |-> s.irs + Bits(w, 10, 2), inc |-> <<Inc(w, 0), Inc(w, 1)>>]
=============================================================================
