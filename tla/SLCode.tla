------------------------------- MODULE SLCode -------------------------------
(***************************************************************************)
(* The instruction set: how the code generator makes 16 bit words          *)
(* (SLCodeDef.h), how the disassembler reads them back (DisAsm.h), and the *)
(* questions the code generator asks of a word (struct _Instr).  A word is *)
(* a number below 2^16.                                                    *)
(***************************************************************************)
EXTENDS Integers, Sequences

Bits(w, hi, lo) == (w \div 2^lo) % 2^(hi - lo + 1)
Bit(w, i) == Bits(w, i, i)
\* The word with the bits hi..lo replaced by v.
SetBits(w, hi, lo, v) == w + (v - Bits(w, hi, lo)) * 2^lo
Num(b) == IF b THEN 1 ELSE 0

\* Operands, commands and compare modes.
REG_AD0 == 0
REG_AD1 == 1
REG_IRS == 2
REG_RES == 3
IRS == 4
DEREF_AD0 == 5
DEREF_AD1 == 6
WBREG_NONE == 3
CMD_MOV == 0
CMD_CMP == 1
CMD_ADD == 2
CMD_SUB == 3
CMD_MUL == 4
CMD_DIV == 5
CMD_MAC == 6
CMD_MAC_RES == 7
CMD_LOG2 == 8
CMD_SHFT == 9
CMD_INVALID == 15
CMP_EQ == 0
CMP_NEQ == 1
CMP_LT == 2
CMP_LE == 3
UNARY_NEG == 0
UNARY_LOG2 == 1
UNARY_TRUNC == 2
MUX1_RESULT == 0
MUX1_MEM == 1
WAIT_ALL == 0
WAIT_SIG == 1
BUS_LOCK == 2
BUS_UNLOCK == 3

MovIrsCode == 32768
MovDataCode == 61440
MovMemCode == 61568
OpMemCode == 49152
CmpCode == 53248
GotoCode == 40960
LoadCode == 45056
UnaryCode == 61696
SignalCode == 61632
LoopCode == 61760
NopCode == 65535

Deref(a) == a \in {DEREF_AD0, DEREF_AD1}
\* The address register an operand selects: 0 for a0, 1 for a1 and for none.
MuxAD(a) == Num(a # DEREF_AD0)
MuxA(a) == IF a = REG_RES THEN MUX1_RESULT ELSE MUX1_MEM

-----------------------------------------------------------------------------
(* Making words.                                                           *)

MovCreate(a, b, offset, inc) ==
    IF Deref(a) /\ Deref(b) THEN
             MovMemCode + Num(inc) * 16 + MuxAD(b) * 4 + MUX1_MEM * 2 + MuxAD(a)
    ELSE IF a = IRS THEN MovIrsCode + 4096 + Num(inc) * 2048 + (offset % 512) * 4 + MuxA(b) * 2
    ELSE IF b = IRS THEN MovIrsCode + Num(inc) * 2048 + (offset % 512) * 4 + a
    ELSE
             LET data == Num(inc) * 16 + Num(b = REG_IRS) * 8
                             + Num(a # DEREF_AD0 /\ b # DEREF_AD0) * 4 + MuxA(b) * 2
             IN  IF Deref(a) THEN MovMemCode + data + MuxAD(a)
                             ELSE MovDataCode + a * 32 + data

OpCreate(a, b, cmd, offset, incAddr, incAddr2) ==
    LET bothMem == MuxA(a) = MUX1_MEM /\ b # IRS
        inc  == Num(IF bothMem THEN incAddr2 ELSE incAddr)
        inc2 == Num(IF bothMem THEN incAddr ELSE incAddr2)
    IN  IF b = IRS
        THEN (cmd % 8) * 4096 + inc * 2048 + (offset % 512) * 4 + MuxA(a) * 2
                 + (IF a = REG_RES THEN cmd \div 8 ELSE MuxAD(a))
        ELSE OpMemCode + inc2 * 512 + cmd * 32 + inc * 16
                 + MuxAD(b) * 4 + MuxA(a) * 2 + MuxAD(a)

CmpCreate(offset, mode) == CmpCode + (offset % 512) * 4 + mode
\* A relative jump, two's complement in ten bits, and a jump to result.
GotoCreate(relJump) == GotoCode + (relJump % 1024) * 4 + 1
GotoResult == GotoCode
LoadCreate(data) == LoadCode + data
UnaryCreate(u) ==
    UnaryCode + ((IF u = UNARY_LOG2 THEN CMD_LOG2 ELSE CMD_INVALID) % 8) * 8
        + Num(u = UNARY_TRUNC) * 4 + Num(u = UNARY_NEG)
SignalCreate(mode) == SignalCode + 2^mode * 4
LoopCreate == LoopCode

-----------------------------------------------------------------------------
(* Questions about a word, and patches of its fields.                      *)

IsGoto(w)    == Bits(w, 15, 12) = 10 /\ Bit(w, 0) = 1
IsGoto2(w)   == Bits(w, 15, 12) = 10 /\ Bit(w, 0) = 0
IsMovIrs(w)  == Bits(w, 15, 13) = 4
IsIrsInstr(w) == IsMovIrs(w) \/ Bit(w, 15) = 0 \/ Bits(w, 15, 12) = 13
IsMovToIrs(w) == IsMovIrs(w) /\ Bit(w, 12) = 1
IsLoad(w)    == Bits(w, 15, 12) = 11
IsLoop(w)    == Bits(w, 15, 6) = LoopCode \div 64
WritesAD1(w) == \/ Bits(w, 15, 7) = MovDataCode \div 128 /\ Bits(w, 6, 5) = REG_AD1
                \/ IsMovIrs(w) /\ Bit(w, 12) = 0 /\ Bits(w, 1, 0) = REG_AD1

IrsOffset(w) == Bits(w, 10, 2)
\* Mutant: the mask takes the increment bit with it.
PatchIrsOffsetWide(w, offset) == SetBits(w, 11, 2, offset % 512)
PatchIrsOffset(w, offset) == SetBits(w, 10, 2, offset % 512)
PatchGotoTarget(w, target) == GotoCreate(target)
\* What getGotoTarget makes of a jump: the sign is taken from bit 9 of the word,
\* which is bit 7 of the distance.
GotoTarget(w) == Bits(w, 10, 2) - 512 * Bit(w, 9)

-----------------------------------------------------------------------------
(* Reading a listing: what a line of the disassembler says, as the          *)
(* instruction it names.  addr is the address of the word.                  *)

Wb(w) == w % 4
A(i) == IF i = 0 THEN DEREF_AD0 ELSE DEREF_AD1

MovToString(w) ==
    IF IsMovIrs(w) /\ Bit(w, 12) = 1 THEN <<"mov", IRS, REG_RES, IrsOffset(w)>>
    ELSE IF IsMovIrs(w) /\ Bit(w, 12) = 0 THEN <<"mov", Wb(w), IRS, IrsOffset(w)>>
    ELSE IF Bits(w, 15, 7) = MovDataCode \div 128 THEN
             IF Bit(w, 1) = MUX1_RESULT THEN <<"mov", Bits(w, 6, 5), REG_RES>>
           ELSE <<"mov", Bits(w, 6, 5), A(Bit(w, 2)), Bit(w, 4)>>
    ELSE IF Bits(w, 15, 7) = MovMemCode \div 128 THEN
             IF Bit(w, 3) = 1 /\ Bit(w, 1) = MUX1_MEM
             THEN <<"mov", A(Bit(w, 0)), A(Bit(w, 2)), Bit(w, 4)>>
           ELSE <<"mov", A(Bit(w, 0)), REG_RES, Bit(w, 4)>>
    ELSE <<>>

\* The commands of the multiply-accumulate unit have no name.
Named(cmd) == IF cmd \in 0 .. 5 \cup {CMD_LOG2, CMD_SHFT} THEN cmd ELSE CMD_INVALID

OpToString(w) ==
    LET mem == Bit(w, 1) = 1
    IN  CASE Bit(w, 15) = 0 ->
                 <<"op", IF mem THEN A(Bit(w, 0)) ELSE REG_RES,
                   Named(Bits(w, 14, 12) + (IF mem THEN 0 ELSE 8 * Bit(w, 0))), IRS, IrsOffset(w),
                   IF mem THEN Bit(w, 11) ELSE 0>>
          [] Bits(w, 15, 12) = 12 ->
                 <<"op", IF mem THEN A(Bit(w, 8)) ELSE REG_RES, Named(Bits(w, 8, 5)), A(Bit(w, 2)),
                   IF mem THEN Bit(w, 9) ELSE 0, Bit(w, IF mem THEN 4 ELSE 9)>>
          [] OTHER -> <<>>

CmpToString(w) == IF Bits(w, 15, 12) = 13 THEN <<"cmp", w % 4, IrsOffset(w)>> ELSE <<>>
GotoToString(w, addr) ==
    CASE IsGoto(w)  -> <<"goto", addr + Bits(w, 10, 2) - 512 * Bit(w, 11)>>
      [] IsGoto2(w) -> <<"goto", REG_RES, 0>>
      [] OTHER -> <<>>
\* A load is listed with the fragments that the loads behind it add, the third with 8 bits.
LoadToString(w, w2, w3) ==
    IF ~IsLoad(w) THEN <<>>
    ELSE <<"load", w % 4096>> \o (IF ~IsLoad(w2) THEN <<>>
                                  ELSE <<w2 % 4096>> \o (IF IsLoad(w3) THEN <<w3 % 256>> ELSE <<>>))
UnaryToString(w) ==
    IF Bits(w, 15, 6) # UnaryCode \div 64 THEN <<>>
    ELSE IF Bit(w, 0) = 1 THEN <<"unary", UNARY_NEG>>
    ELSE IF Bit(w, 2) = 1 THEN <<"unary", UNARY_TRUNC>>
    ELSE IF Bits(w, 5, 3) = CMD_LOG2 % 8 THEN <<"unary", UNARY_LOG2>>
    ELSE <<"unary">>
SignalToString(w) ==
    IF Bits(w, 15, 6) # SignalCode \div 64 THEN <<>>
    ELSE IF Bit(w, 2 + BUS_LOCK) = 1 THEN <<"signal", BUS_LOCK>>
         ELSE IF Bit(w, 2 + BUS_UNLOCK) = 1 THEN <<"signal", BUS_UNLOCK>>
         ELSE IF Bit(w, 2 + WAIT_ALL) = 1 THEN <<"signal", WAIT_ALL>>
         ELSE IF Bit(w, 2 + WAIT_SIG) = 1 THEN <<"signal", WAIT_SIG>>
         ELSE <<>>

\* The families are tried in the order of getLinesFromCode; the first that
\* recognises the word gives the line.
Listing(w, w2, w3, addr) ==
    LET tried == << SignalToString(w), MovToString(w), OpToString(w), CmpToString(w),
                    GotoToString(w, addr), LoadToString(w, w2, w3), UnaryToString(w),
                    IF IsLoop(w) THEN <<"loop">> ELSE <<>>,
                    IF w = NopCode THEN <<"nop">> ELSE <<>>, <<"invalid">> >>
    IN  tried[CHOOSE i \in DOMAIN tried :
                  tried[i] # <<>> /\ \A j \in 1 .. i - 1 : tried[j] = <<>>]
=============================================================================
