--------------------------- MODULE SLDecodeProofs ---------------------------
(***************************************************************************)
(* The decoder understands every instruction the code generator emits:     *)
(* what Word makes of it and Decode reads back asks of the stages what the *)
(* instruction means.                                                      *)
(***************************************************************************)
EXTENDS SLDecode, TLAPS

(* What an instruction is, for the stages.                                 *)
Stores(i)       == i[1] = "mov" /\ i[2] \in {IRS, DEREF_AD0, DEREF_AD1}
SetsRegister(i) == i[1] = "mov" /\ i[2] \in {REG_AD0, REG_AD1, REG_IRS, REG_RES}
Framed(i)       == i[1] = "cmp" \/ (i[1] \in {"mov", "op"} /\ IRS \in {i[2], i[3]})
ReadsFirst(i)   == i[1] = "op" /\ i[2] = DEREF_AD0
FromPort0(i)    == ReadsFirst(i) \/ (i[1] = "mov" /\ i[3] # REG_RES)
Behind(i)       == (i[1] = "op" /\ i[3] # IRS) \/ (i[1] = "mov" /\ (Deref(i[2]) \/ Deref(i[3])))
Commands(i) == CASE i[1] = "op" -> i[4]
                 [] i[1] = "cmp" -> CMD_CMP
                 [] i[1] = "unary" -> IF i[2] = UNARY_LOG2 THEN CMD_LOG2 ELSE CMD_INVALID
                 [] OTHER -> CMD_MOV
\* The operand that has the address made in DECEX, and its offset.
Second(i) == CASE i[1] = "op" -> i[3] [] i[1] = "cmp" -> IRS [] Stores(i) -> i[2] [] OTHER -> i[3]
Offset(i) == CASE i[1] = "op" -> i[5] [] i[1] = "cmp" -> i[3] [] OTHER -> i[4]

OperandsDecoded(d, i, s) ==
    /\ d.muxA = IF FromPort0(i) THEN MUX1_MEM ELSE MUX1_RESULT
    /\ d.enIRS <=> Framed(i)
    /\ d.enMEM <=> Stores(i)
    /\ d.enREG <=> SetsRegister(i)
    /\ SetsRegister(i) => d.wbREG = i[2]
    /\ d.enADr0 <=> ReadsFirst(i)
    /\ ReadsFirst(i) => d.muxAD0 = 0
    /\ d.enADr1 <=> Behind(i)
    /\ d.muxAD1 \in {0, 1}
    /\ Behind(i) => d.muxAD1 = MuxAD(Second(i))
    /\ Framed(i) => d.irsAddr = s.irs + Offset(i)
    /\ d.memEx <=> ~Framed(i) /\ s.addr[1 + d.muxAD1] >= SharedAddrBase
    /\ d.inc[1] <=> Advances(i, 0)
    /\ d.inc[2] <=> Advances(i, 1)

EffectDecoded(d, i, n) ==
    /\ d.curPc = n
    /\ d.cmd = Commands(i)
    /\ d.cmp <=> i[1] = "cmp"
    /\ d.load <=> i[1] = "load"
    /\ d.neg <=> i[1] = "unary" /\ i[2] = UNARY_NEG
    /\ d.trunc <=> i[1] = "unary" /\ i[2] = UNARY_TRUNC
    /\ d.goto <=> i[1] \in {"goto", "gotor"}
    /\ d.gotoConst <=> i[1] = "goto"
    /\ d.loop <=> i[1] = "loop"
    /\ d.busLock <=> i[1] = "signal" /\ i[2] = BUS_LOCK
    /\ d.busUnlock <=> i[1] = "signal" /\ i[2] = BUS_UNLOCK
    /\ i[1] = "cmp" => d.cmpMode = i[2]
    /\ i[1] = "load" => d.loadData = i[2]
    /\ i[1] = "goto" => (d.jmpBack <=> i[2] < 0) /\ d.jmpTarget = (n + i[2]) % 65536

DecodesTo(d, i, n, s) == OperandsDecoded(d, i, s) /\ EffectDecoded(d, i, n)

-----------------------------------------------------------------------------
(* Words.                                                                  *)

\* The fields of a word by division.
WordFields(w) ==
    /\ Form(w) = (w \div 4096) % 16 /\ Sub(w) = (w \div 64) % 64
    /\ Bits(w, 14, 12) = (w \div 4096) % 8 /\ Bits(w, 8, 5) = (w \div 32) % 16
    /\ Bits(w, 6, 5) = (w \div 32) % 4 /\ Bits(w, 5, 3) = (w \div 8) % 8
    /\ Bits(w, 1, 0) = w % 4 /\ Bits(w, 10, 2) = (w \div 4) % 512 /\ Bits(w, 11, 0) = w % 4096
    /\ Bit(w, 15) = (w \div 32768) % 2 /\ Bit(w, 11) = (w \div 2048) % 2
    /\ Bit(w, 9) = (w \div 512) % 2 /\ Bit(w, 5) = (w \div 32) % 2 /\ Bit(w, 4) = (w \div 16) % 2
    /\ Bit(w, 2) = (w \div 4) % 2 /\ Bit(w, 1) = (w \div 2) % 2 /\ Bit(w, 0) = w % 2

\* Bits of a word are digits of it.
LEMMA WordBits == ASSUME NEW w \in Nat PROVE WordFields(w)
<1>1. /\ 2^0 = 1 /\ 2^1 = 2 /\ 2^2 = 4 /\ 2^3 = 8 /\ 2^4 = 16 /\ 2^5 = 32 /\ 2^6 = 64 /\ 2^9 = 512
      /\ 2^11 = 2048 /\ 2^12 = 4096 /\ 2^15 = 32768
  BY SMT
<1>2. /\ 2^(15 - 12 + 1) = 16 /\ 2^(11 - 6 + 1) = 64 /\ 2^(14 - 12 + 1) = 8 /\ 2^(8 - 5 + 1) = 16
      /\ 2^(6 - 5 + 1) = 4 /\ 2^(5 - 3 + 1) = 8 /\ 2^(1 - 0 + 1) = 4 /\ 2^(10 - 2 + 1) = 512
      /\ 2^(11 - 0 + 1) = 4096
  BY SMT
<1>3. /\ 2^(15 - 15 + 1) = 2 /\ 2^(11 - 11 + 1) = 2 /\ 2^(9 - 9 + 1) = 2 /\ 2^(5 - 5 + 1) = 2
      /\ 2^(4 - 4 + 1) = 2 /\ 2^(2 - 2 + 1) = 2 /\ 2^(1 - 1 + 1) = 2 /\ 2^(0 - 0 + 1) = 2
  BY SMT
<1>4. w \div 1 = w  OBVIOUS
<1>. QED BY <1>1, <1>2, <1>3, <1>4 DEF Bits, Bit, WordFields, Form, Sub

\* The fields of a decoded word.
LEMMA DecodeIs ==
    ASSUME NEW code, NEW s, NEW w, w = code.data, NEW d, d = Decode(code, s)
    PROVE  /\ d.curPc = code.pc /\ d.muxA = SelectA(w) /\ d.muxAD0 = Bit(w, 0) /\ d.muxAD1 = Bit(w, 2)
           /\ d.wbREG = WbREG(w) /\ d.cmd = Command(w) /\ d.irsAddr = s.irs + Bits(w, 10, 2)
           /\ d.jmpTarget = (code.pc + Bits(w, 10, 2) - 512 * Bit(w, 11)) % 65536
           /\ d.loadData = Bits(w, 11, 0) /\ d.cmpMode = Bits(w, 1, 0)
           /\ (d.enIRS <=> EnIRS(w)) /\ (d.enMEM <=> IsMovCell(w) \/ IsMovMem(w))
           /\ (d.enREG <=> IsMovReg(w) \/ IsMovData(w)) /\ (d.enADr0 <=> EnADr0(w)) /\ (d.enADr1 <=> EnADr1(w))
           /\ (d.memEx <=> ~EnIRS(w) /\ s.addr[1 + Bit(w, 2)] >= SharedAddrBase)
           /\ (d.inc[1] <=> Inc(w, 0)) /\ (d.inc[2] <=> Inc(w, 1))
           /\ (d.goto <=> Form(w) = 10) /\ (d.gotoConst <=> IsGoto(w)) /\ (d.jmpBack <=> Bit(w, 11) = 1)
           /\ (d.load <=> IsLoad(w)) /\ (d.cmp <=> IsCmp(w))
           /\ (d.neg <=> IsUnary(w) /\ Bit(w, 0) = 1) /\ (d.trunc <=> IsUnary(w) /\ Bit(w, 2) = 1)
           /\ (d.loop <=> Form(w) = 15 /\ Sub(w) = 5)
           /\ (d.busLock <=> IsSignal(w) /\ Bit(w, 4) = 1) /\ (d.busUnlock <=> IsSignal(w) /\ Bit(w, 5) = 1)
<1>1. 2 + BUS_LOCK = 4 /\ 2 + BUS_UNLOCK = 5  BY DEF BUS_LOCK, BUS_UNLOCK
<1>2. /\ d.curPc = code.pc /\ d.muxA = SelectA(w) /\ d.muxAD0 = Bit(w, 0) /\ d.muxAD1 = Bit(w, 2)
      /\ d.wbREG = WbREG(w) /\ d.cmd = Command(w) /\ d.irsAddr = s.irs + Bits(w, 10, 2)
      /\ d.jmpTarget = (code.pc + Bits(w, 10, 2) - 512 * Bit(w, 11)) % 65536
      /\ d.loadData = Bits(w, 11, 0) /\ d.cmpMode = Bits(w, 1, 0)
  BY DEF Decode
<1>3. /\ d.enIRS = EnIRS(w) /\ d.enMEM = (IsMovCell(w) \/ IsMovMem(w))
      /\ d.enREG = (IsMovReg(w) \/ IsMovData(w)) /\ d.enADr0 = EnADr0(w) /\ d.enADr1 = EnADr1(w)
      /\ d.memEx = (~EnIRS(w) /\ s.addr[1 + Bit(w, 2)] >= SharedAddrBase)
      /\ d.inc[1] = Inc(w, 0) /\ d.inc[2] = Inc(w, 1)
  BY DEF Decode
<1>4. /\ d.goto = (Form(w) = 10) /\ d.gotoConst = IsGoto(w) /\ d.jmpBack = (Bit(w, 11) = 1)
      /\ d.load = IsLoad(w) /\ d.cmp = IsCmp(w)
      /\ d.neg = (IsUnary(w) /\ Bit(w, 0) = 1) /\ d.trunc = (IsUnary(w) /\ Bit(w, 2) = 1)
      /\ d.loop = (Form(w) = 15 /\ Sub(w) = 5)
      /\ d.busLock = (IsSignal(w) /\ Bit(w, 4) = 1) /\ d.busUnlock = (IsSignal(w) /\ Bit(w, 5) = 1)
  BY <1>1 DEF Decode
<1>5. /\ (d.enIRS <=> EnIRS(w)) /\ (d.enMEM <=> IsMovCell(w) \/ IsMovMem(w))
      /\ (d.enREG <=> IsMovReg(w) \/ IsMovData(w)) /\ (d.enADr0 <=> EnADr0(w)) /\ (d.enADr1 <=> EnADr1(w))
      /\ (d.memEx <=> ~EnIRS(w) /\ s.addr[1 + Bit(w, 2)] >= SharedAddrBase)
      /\ (d.inc[1] <=> Inc(w, 0)) /\ (d.inc[2] <=> Inc(w, 1))
  BY <1>3
<1>6. /\ (d.goto <=> Form(w) = 10) /\ (d.gotoConst <=> IsGoto(w)) /\ (d.jmpBack <=> Bit(w, 11) = 1)
      /\ (d.load <=> IsLoad(w)) /\ (d.cmp <=> IsCmp(w))
      /\ (d.neg <=> IsUnary(w) /\ Bit(w, 0) = 1) /\ (d.trunc <=> IsUnary(w) /\ Bit(w, 2) = 1)
      /\ (d.loop <=> Form(w) = 15 /\ Sub(w) = 5)
      /\ (d.busLock <=> IsSignal(w) /\ Bit(w, 4) = 1) /\ (d.busUnlock <=> IsSignal(w) /\ Bit(w, 5) = 1)
  BY <1>4
<1>. QED BY <1>2, <1>5, <1>6

\* What a word is that has none of the forms of an access.
NoAccess(w) == /\ ~IsOpIrs(w) /\ ~IsMovReg(w) /\ ~IsMovCell(w) /\ ~IsOp(w) /\ ~IsCmp(w) /\ ~IsMovData(w)
               /\ ~IsMovMem(w)

\* A word that moves or calculates has no other effect.
LEMMA PlainEffect ==
    ASSUME NEW code, NEW s, NEW w, w = code.data, w \in Nat, NEW i, i[1] \in {"mov", "op"},
           Form(w) \notin {10, 11, 13}, Form(w) = 15 => Sub(w) \in {0, 1, 2}, Command(w) = Commands(i)
    PROVE  EffectDecoded(Decode(code, s), i, code.pc)
<1>1. /\ ~IsGoto(w) /\ ~IsLoad(w) /\ ~IsCmp(w) /\ ~IsUnary(w) /\ ~IsSignal(w)
      /\ ~(Form(w) = 15 /\ Sub(w) = 5) /\ ~(Form(w) = 10)
  BY DEF IsGoto, IsLoad, IsCmp, IsUnary, IsSignal, Form
<1>. DEFINE d == Decode(code, s)
<1>2. /\ d.curPc = code.pc /\ d.cmd = Command(w) /\ ~d.goto /\ ~d.gotoConst /\ ~d.load /\ ~d.cmp /\ ~d.neg
      /\ ~d.trunc /\ ~d.loop /\ ~d.busLock /\ ~d.busUnlock
  BY <1>1, DecodeIs
<1>. HIDE DEF d
<1>3. i[1] # "cmp" /\ i[1] # "load" /\ i[1] # "unary" /\ i[1] # "goto" /\ i[1] # "gotor" /\ i[1] # "loop"
      /\ i[1] # "signal"
  OBVIOUS
<1>4. EffectDecoded(d, i, code.pc)  BY <1>1, <1>2, <1>3 DEF EffectDecoded
<1>. QED BY <1>4 DEF d

\* A bit selects one of the two address registers.
LEMMA SelectsRegister == \A w \in Nat : Bit(w, 2) \in {0, 1}
<1>. SUFFICES ASSUME NEW w \in Nat PROVE Bit(w, 2) \in {0, 1}  OBVIOUS
<1>1. WordFields(w)  BY WordBits
<1>. QED BY <1>1 DEF WordFields

\* Where the word asks for what the instruction needs, the operands are decoded.
LEMMA OperandsFollow ==
    ASSUME NEW code, NEW s, NEW w, w = code.data, w \in Nat, NEW i,
           SelectA(w) = IF FromPort0(i) THEN MUX1_MEM ELSE MUX1_RESULT,
           EnIRS(w) <=> Framed(i), IsMovCell(w) \/ IsMovMem(w) <=> Stores(i),
           IsMovReg(w) \/ IsMovData(w) <=> SetsRegister(i), SetsRegister(i) => WbREG(w) = i[2],
           EnADr0(w) <=> ReadsFirst(i), ReadsFirst(i) => Bit(w, 0) = 0,
           EnADr1(w) <=> Behind(i), Behind(i) => Bit(w, 2) = MuxAD(Second(i)),
           Framed(i) => Bits(w, 10, 2) = Offset(i),
           Inc(w, 0) <=> Advances(i, 0), Inc(w, 1) <=> Advances(i, 1)
    PROVE  OperandsDecoded(Decode(code, s), i, s)
<1>. DEFINE d == Decode(code, s)
<1>1. Bit(w, 2) \in {0, 1}  BY SelectsRegister
<1>2. /\ d.muxA = SelectA(w) /\ d.muxAD0 = Bit(w, 0) /\ d.muxAD1 = Bit(w, 2)
      /\ d.wbREG = WbREG(w) /\ d.irsAddr = s.irs + Bits(w, 10, 2)
      /\ (d.enIRS <=> EnIRS(w)) /\ (d.enMEM <=> IsMovCell(w) \/ IsMovMem(w))
      /\ (d.enREG <=> IsMovReg(w) \/ IsMovData(w)) /\ (d.enADr0 <=> EnADr0(w)) /\ (d.enADr1 <=> EnADr1(w))
      /\ (d.memEx <=> ~EnIRS(w) /\ s.addr[1 + Bit(w, 2)] >= SharedAddrBase)
      /\ (d.inc[1] <=> Inc(w, 0)) /\ (d.inc[2] <=> Inc(w, 1))
  BY DecodeIs
<1>. HIDE DEF d
<1>3. OperandsDecoded(d, i, s)
  BY <1>1, <1>2 DEF OperandsDecoded
<1>. QED BY <1>3 DEF d

\* A word that is no move, operation or comparison has no operands in memory.
LEMMA NoOperands ==
    ASSUME NEW code, NEW s, NEW w, w = code.data, w \in Nat, NEW i, i[1] \notin {"mov", "op", "cmp"},
           NoAccess(w), SelectA(w) = MUX1_RESULT
    PROVE  OperandsDecoded(Decode(code, s), i, s)
<1>1. /\ ~EnIRS(w) /\ ~EnADr0(w) /\ ~EnADr1(w) /\ ~Inc(w, 0) /\ ~Inc(w, 1)
      /\ ~(IsMovCell(w) \/ IsMovMem(w)) /\ ~(IsMovReg(w) \/ IsMovData(w))
  BY DEF NoAccess, EnIRS, EnADr0, EnADr1, Inc, IncAD, IncAD2
<1>2. /\ ~FromPort0(i) /\ ~Framed(i) /\ ~Stores(i) /\ ~SetsRegister(i) /\ ~ReadsFirst(i) /\ ~Behind(i)
      /\ ~Advances(i, 0) /\ ~Advances(i, 1)
  BY DEF FromPort0, Framed, Stores, SetsRegister, ReadsFirst, Behind, Advances
<1>. QED BY <1>1, <1>2, OperandsFollow

-----------------------------------------------------------------------------
(* Words that have operands.                                               *)

\* A move from result to the frame.
LEMMA DecodedToCell ==
    ASSUME NEW k \in Offsets,
           NEW i, i = <<"mov", IRS, REG_RES, k, FALSE>>,
           NEW code, code.data = Word(i), NEW s
    PROVE  Word(i) \in Nat /\ DecodesTo(Decode(code, s), i, code.pc, s)
<1>. DEFINE w == Word(i)
            d == Decode(code, s)
<1>1. /\ i[1] = "mov" /\ i[2] = IRS /\ i[3] = REG_RES /\ i[4] = k /\ i[5] = FALSE
  OBVIOUS
<1>2. w = 36864 + k * 4
  BY <1>1
     DEF Word, MovCreate, MovIrsCode, MovDataCode, MovMemCode, MuxAD, REG_IRS, IRS, REG_RES, Deref,
         DEREF_AD0, DEREF_AD1, Num, MuxA, MUX1_RESULT, MUX1_MEM, Offsets
<1>3. w \in Nat /\ k \in 0 .. 511
  BY <1>2 DEF Offsets
<1>. HIDE DEF w
<1>4. WordFields(w)  BY <1>3, WordBits
<1>5. /\ Form(w) = 9 /\ Bit(w, 15) = 1 /\ Bit(w, 1) = 0 /\ Bits(w, 10, 2) = k
  <2>1. (w \div 4096) % 16 = 9  BY <1>2, <1>3
  <2>2. (w \div 32768) % 2 = 1  BY <1>2, <1>3
  <2>3. (w \div 2) % 2 = 0  BY <1>2, <1>3
  <2>4. (w \div 4) % 512 = k  BY <1>2, <1>3
  <2>. QED BY <1>4, <2>1, <2>2, <2>3, <2>4 DEF WordFields
<1>6. /\ ~IsOpIrs(w) /\ ~IsMovReg(w) /\ IsMovCell(w) /\ ~IsOp(w) /\ ~IsCmp(w) /\ ~IsMovData(w)
      /\ ~IsMovMem(w) /\ ~IsUnary(w)
  BY <1>3, <1>5 DEF IsOpIrs, IsMovReg, IsMovCell, IsOp, IsCmp, IsMovData, IsMovMem, IsUnary
<1>7. SelectA(w) = MUX1_RESULT /\ Command(w) = CMD_MOV
  <2>1. SelectA(w) = MUX1_RESULT  BY <1>3, <1>5, <1>6 DEF SelectA, MUX1_MEM, MUX1_RESULT
  <2>2. Command(w) = CMD_MOV  BY <1>3, <1>5, <1>6 DEF Command
  <2>. QED BY <2>1, <2>2
<1>8. /\ EnIRS(w) /\ ~EnADr0(w) /\ ~EnADr1(w) /\ ~Inc(w, 0) /\ ~Inc(w, 1)
  BY <1>3, <1>5, <1>6, <1>7
     DEF EnIRS, EnADr0, EnADr1, Inc, IncAD, IncAD2, FromMem, Num, MUX1_MEM, MUX1_RESULT
<1>9. /\ ~FromPort0(i) /\ Framed(i) /\ Stores(i) /\ ~SetsRegister(i) /\ ~ReadsFirst(i) /\ ~Behind(i)
      /\ Offset(i) = k /\ Commands(i) = CMD_MOV /\ ~Advances(i, 0) /\ ~Advances(i, 1)
  BY <1>1, <1>3
     DEF FromPort0, Framed, Stores, SetsRegister, ReadsFirst, Behind, Second, Offset, Commands, Advances,
     Selects, Deref, MuxAD, Num, IRS, REG_RES, DEREF_AD0, DEREF_AD1, REG_AD0, REG_AD1, REG_IRS
<1>10. EffectDecoded(d, i, code.pc)  BY <1>1, <1>3, <1>5, <1>7, <1>9, PlainEffect DEF w
<1>11. OperandsDecoded(d, i, s)
  BY <1>1, <1>3, <1>5, <1>6, <1>7, <1>8, <1>9, OperandsFollow DEF w
<1>. QED BY <1>3, <1>10, <1>11 DEF DecodesTo, w

\* A move from the frame to a register.
LEMMA DecodedFromCell ==
    ASSUME NEW r \in {REG_AD0, REG_AD1, REG_IRS, REG_RES}, NEW k \in Offsets,
           NEW i, i = <<"mov", r, IRS, k, FALSE>>,
           NEW code, code.data = Word(i), NEW s
    PROVE  Word(i) \in Nat /\ DecodesTo(Decode(code, s), i, code.pc, s)
<1>. DEFINE w == Word(i)
            d == Decode(code, s)
<1>1. /\ i[1] = "mov" /\ i[2] = r /\ i[3] = IRS /\ i[4] = k /\ i[5] = FALSE
  OBVIOUS
<1>2. w = 32768 + k * 4 + r
  BY <1>1
     DEF Word, MovCreate, MovIrsCode, MovDataCode, MovMemCode, MuxAD, REG_IRS, IRS, REG_RES, Deref,
         DEREF_AD0, DEREF_AD1, Num, MuxA, MUX1_RESULT, MUX1_MEM, Offsets, REG_AD0, REG_AD1
<1>3. w \in Nat /\ k \in 0 .. 511 /\ r \in 0 .. 3
  BY <1>2 DEF Offsets, REG_AD0, REG_AD1, REG_IRS, REG_RES
<1>. HIDE DEF w
<1>4. WordFields(w)  BY <1>3, WordBits
<1>5. /\ Form(w) = 8 /\ Bit(w, 15) = 1 /\ Bits(w, 1, 0) = r /\ Bits(w, 10, 2) = k
  <2>1. (w \div 4096) % 16 = 8  BY <1>2, <1>3
  <2>2. (w \div 32768) % 2 = 1  BY <1>2, <1>3
  <2>3. w % 4 = r  BY <1>2, <1>3
  <2>4. (w \div 4) % 512 = k  BY <1>2, <1>3
  <2>. QED BY <1>4, <2>1, <2>2, <2>3, <2>4 DEF WordFields
<1>6. /\ ~IsOpIrs(w) /\ IsMovReg(w) /\ ~IsMovCell(w) /\ ~IsOp(w) /\ ~IsCmp(w) /\ ~IsMovData(w)
      /\ ~IsMovMem(w) /\ ~IsUnary(w)
  BY <1>3, <1>5 DEF IsOpIrs, IsMovReg, IsMovCell, IsOp, IsCmp, IsMovData, IsMovMem, IsUnary
<1>7. SelectA(w) = MUX1_MEM /\ Command(w) = CMD_MOV /\ WbREG(w) = r
  <2>1. SelectA(w) = MUX1_MEM  BY <1>3, <1>5, <1>6 DEF SelectA, MUX1_MEM, MUX1_RESULT
  <2>2. Command(w) = CMD_MOV  BY <1>3, <1>5, <1>6 DEF Command
  <2>3. WbREG(w) = r  BY <1>5, <1>6 DEF WbREG
  <2>. QED BY <2>1, <2>2, <2>3
<1>8. /\ EnIRS(w) /\ ~EnADr0(w) /\ ~EnADr1(w) /\ ~Inc(w, 0) /\ ~Inc(w, 1)
  BY <1>3, <1>5, <1>6, <1>7
     DEF EnIRS, EnADr0, EnADr1, Inc, IncAD, IncAD2, FromMem, Num, MUX1_MEM, MUX1_RESULT
<1>9. /\ FromPort0(i) /\ Framed(i) /\ ~Stores(i) /\ SetsRegister(i) /\ ~ReadsFirst(i) /\ ~Behind(i)
      /\ Offset(i) = k /\ Commands(i) = CMD_MOV /\ ~Advances(i, 0) /\ ~Advances(i, 1)
  BY <1>1, <1>3
     DEF FromPort0, Framed, Stores, SetsRegister, ReadsFirst, Behind, Second, Offset, Commands, Advances,
     Selects, Deref, MuxAD, Num, IRS, REG_RES, DEREF_AD0, DEREF_AD1, REG_AD0, REG_AD1, REG_IRS
<1>10. EffectDecoded(d, i, code.pc)  BY <1>1, <1>3, <1>5, <1>7, <1>9, PlainEffect DEF w
<1>11. OperandsDecoded(d, i, s)
  BY <1>1, <1>3, <1>5, <1>6, <1>7, <1>8, <1>9, OperandsFollow DEF w, REG_RES
<1>. QED BY <1>3, <1>10, <1>11 DEF DecodesTo, w

\* A move from result to another register.
LEMMA DecodedToRegister ==
    ASSUME NEW r \in {REG_AD0, REG_AD1, REG_IRS},
           NEW i, i = <<"mov", r, REG_RES, 0, FALSE>>,
           NEW code, code.data = Word(i), NEW s
    PROVE  Word(i) \in Nat /\ DecodesTo(Decode(code, s), i, code.pc, s)
<1>. DEFINE w == Word(i)
            d == Decode(code, s)
<1>1. /\ i[1] = "mov" /\ i[2] = r /\ i[3] = REG_RES /\ i[5] = FALSE
  OBVIOUS
<1>2. w = 61444 + r * 32
  BY <1>1
     DEF Word, MovCreate, MovIrsCode, MovDataCode, MovMemCode, MuxAD, REG_IRS, IRS, REG_RES, Deref,
         DEREF_AD0, DEREF_AD1, Num, MuxA, MUX1_RESULT, MUX1_MEM, REG_AD0, REG_AD1
<1>3. w \in Nat /\ r \in 0 .. 2
  BY <1>2 DEF REG_AD0, REG_AD1, REG_IRS
<1>. HIDE DEF w
<1>4. WordFields(w)  BY <1>3, WordBits
<1>5. /\ Form(w) = 15 /\ Sub(w) \in {0, 1} /\ Bit(w, 15) = 1 /\ Bits(w, 6, 5) = r /\ Bit(w, 1) = 0
      /\ Bit(w, 4) = 0
  <2>1. (w \div 4096) % 16 = 15  BY <1>2, <1>3
  <2>2. (w \div 64) % 64 \in {0, 1}  BY <1>2, <1>3
  <2>3. (w \div 32768) % 2 = 1  BY <1>2, <1>3
  <2>4. (w \div 32) % 4 = r  BY <1>2, <1>3
  <2>5. (w \div 2) % 2 = 0  BY <1>2, <1>3
  <2>6. (w \div 16) % 2 = 0  BY <1>2, <1>3
  <2>. QED BY <1>4, <2>1, <2>2, <2>3, <2>4, <2>5, <2>6 DEF WordFields
<1>6. /\ ~IsOpIrs(w) /\ ~IsMovReg(w) /\ ~IsMovCell(w) /\ ~IsOp(w) /\ ~IsCmp(w) /\ IsMovData(w)
      /\ ~IsMovMem(w) /\ ~IsUnary(w)
  BY <1>3, <1>5 DEF IsOpIrs, IsMovReg, IsMovCell, IsOp, IsCmp, IsMovData, IsMovMem, IsUnary
<1>7. SelectA(w) = MUX1_RESULT /\ Command(w) = CMD_MOV /\ WbREG(w) = r
  <2>1. SelectA(w) = MUX1_RESULT  BY <1>3, <1>5, <1>6 DEF SelectA, MUX1_MEM, MUX1_RESULT
  <2>2. Command(w) = CMD_MOV  BY <1>3, <1>5, <1>6 DEF Command
  <2>3. WbREG(w) = r  BY <1>5, <1>6 DEF WbREG
  <2>. QED BY <2>1, <2>2, <2>3
<1>8. /\ ~EnIRS(w) /\ ~EnADr0(w) /\ ~EnADr1(w) /\ ~Inc(w, 0) /\ ~Inc(w, 1)
  BY <1>3, <1>5, <1>6, <1>7
     DEF EnIRS, EnADr0, EnADr1, Inc, IncAD, IncAD2, FromMem, Num, MUX1_MEM, MUX1_RESULT, WBREG_NONE
<1>9. /\ ~FromPort0(i) /\ ~Framed(i) /\ ~Stores(i) /\ SetsRegister(i) /\ ~ReadsFirst(i) /\ ~Behind(i)
      /\ Commands(i) = CMD_MOV /\ ~Advances(i, 0) /\ ~Advances(i, 1)
  BY <1>1, <1>3
     DEF FromPort0, Framed, Stores, SetsRegister, ReadsFirst, Behind, Second, Offset, Commands, Advances,
     Selects, Deref, MuxAD, Num, IRS, REG_RES, DEREF_AD0, DEREF_AD1, REG_AD0, REG_AD1, REG_IRS
<1>10. EffectDecoded(d, i, code.pc)  BY <1>1, <1>3, <1>5, <1>7, <1>9, PlainEffect DEF w
<1>11. OperandsDecoded(d, i, s)
  BY <1>1, <1>3, <1>5, <1>6, <1>7, <1>8, <1>9, OperandsFollow DEF w, REG_RES
<1>. QED BY <1>3, <1>10, <1>11 DEF DecodesTo, w

\* A move from result to memory.
LEMMA DecodedToPointer ==
    ASSUME NEW a \in Pointers, NEW inc \in BOOLEAN,
           NEW i, i = <<"mov", a, REG_RES, 0, inc>>,
           NEW code, code.data = Word(i), NEW s
    PROVE  Word(i) \in Nat /\ DecodesTo(Decode(code, s), i, code.pc, s)
<1>. DEFINE w == Word(i)
            d == Decode(code, s)
<1>1. /\ i[1] = "mov" /\ i[2] = a /\ i[3] = REG_RES /\ i[5] = inc
  OBVIOUS
<1>2. w = 61568 + Num(inc) * 16 + MuxAD(a) * 5
  BY <1>1
     DEF Word, MovCreate, MovIrsCode, MovDataCode, MovMemCode, MuxAD, REG_IRS, IRS, REG_RES, Deref,
         DEREF_AD0, DEREF_AD1, Num, MuxA, MUX1_RESULT, MUX1_MEM, Pointers
<1>3. w \in Nat /\ Num(inc) \in {0, 1} /\ (Num(inc) = 1 <=> inc) /\ MuxAD(a) \in {0, 1} /\ a \in {5, 6}
  BY <1>2 DEF Num, MuxAD, Pointers, DEREF_AD0, DEREF_AD1
<1>. HIDE DEF w
<1>4. WordFields(w)  BY <1>3, WordBits
<1>5. /\ Form(w) = 15 /\ Sub(w) = 2 /\ Bit(w, 15) = 1 /\ Bit(w, 0) = MuxAD(a) /\ Bit(w, 1) = 0
      /\ Bit(w, 2) = MuxAD(a) /\ Bit(w, 4) = Num(inc)
  <2>1. (w \div 4096) % 16 = 15  BY <1>2, <1>3
  <2>2. (w \div 64) % 64 = 2  BY <1>2, <1>3
  <2>3. (w \div 32768) % 2 = 1  BY <1>2, <1>3
  <2>4. w % 2 = MuxAD(a)  BY <1>2, <1>3
  <2>5. (w \div 2) % 2 = 0  BY <1>2, <1>3
  <2>6. (w \div 4) % 2 = MuxAD(a)  BY <1>2, <1>3
  <2>7. (w \div 16) % 2 = Num(inc)  BY <1>2, <1>3
  <2>. QED BY <1>4, <2>1, <2>2, <2>3, <2>4, <2>5, <2>6, <2>7 DEF WordFields
<1>6. /\ ~IsOpIrs(w) /\ ~IsMovReg(w) /\ ~IsMovCell(w) /\ ~IsOp(w) /\ ~IsCmp(w) /\ ~IsMovData(w)
      /\ IsMovMem(w) /\ ~IsUnary(w)
  BY <1>3, <1>5 DEF IsOpIrs, IsMovReg, IsMovCell, IsOp, IsCmp, IsMovData, IsMovMem, IsUnary
<1>7. SelectA(w) = MUX1_RESULT /\ Command(w) = CMD_MOV
  <2>1. SelectA(w) = MUX1_RESULT  BY <1>3, <1>5, <1>6 DEF SelectA, MUX1_MEM, MUX1_RESULT
  <2>2. Command(w) = CMD_MOV  BY <1>3, <1>5, <1>6 DEF Command
  <2>. QED BY <2>1, <2>2
<1>8. /\ ~EnIRS(w) /\ ~EnADr0(w) /\ EnADr1(w) /\ (Inc(w, 0) <=> inc /\ MuxAD(a) = 0)
      /\ (Inc(w, 1) <=> inc /\ MuxAD(a) = 1)
  BY <1>3, <1>5, <1>6, <1>7
     DEF EnIRS, EnADr0, EnADr1, Inc, IncAD, IncAD2, FromMem, Num, MUX1_MEM, MUX1_RESULT
<1>9. /\ ~FromPort0(i) /\ ~Framed(i) /\ Stores(i) /\ ~SetsRegister(i) /\ ~ReadsFirst(i) /\ Behind(i)
      /\ Second(i) = a /\ Commands(i) = CMD_MOV /\ (Advances(i, 0) <=> inc /\ MuxAD(a) = 0)
      /\ (Advances(i, 1) <=> inc /\ MuxAD(a) = 1)
  BY <1>1, <1>3
     DEF FromPort0, Framed, Stores, SetsRegister, ReadsFirst, Behind, Second, Offset, Commands, Advances,
     Selects, Deref, MuxAD, Num, IRS, REG_RES, DEREF_AD0, DEREF_AD1, REG_AD0, REG_AD1, REG_IRS
<1>10. EffectDecoded(d, i, code.pc)  BY <1>1, <1>3, <1>5, <1>7, <1>9, PlainEffect DEF w
<1>11. OperandsDecoded(d, i, s)
  BY <1>1, <1>3, <1>5, <1>6, <1>7, <1>8, <1>9, OperandsFollow DEF w
<1>. QED BY <1>3, <1>10, <1>11 DEF DecodesTo, w

\* A move from memory to result.
LEMMA DecodedFromPointer ==
    ASSUME NEW b \in Pointers, NEW inc \in BOOLEAN,
           NEW i, i = <<"mov", REG_RES, b, 0, inc>>,
           NEW code, code.data = Word(i), NEW s
    PROVE  Word(i) \in Nat /\ DecodesTo(Decode(code, s), i, code.pc, s)
<1>. DEFINE w == Word(i)
            d == Decode(code, s)
<1>1. /\ i[1] = "mov" /\ i[2] = REG_RES /\ i[3] = b /\ i[5] = inc
  OBVIOUS
<1>2. w = 61538 + Num(inc) * 16 + MuxAD(b) * 4
  BY <1>1
     DEF Word, MovCreate, MovIrsCode, MovDataCode, MovMemCode, MuxAD, REG_IRS, IRS, REG_RES, Deref,
         DEREF_AD0, DEREF_AD1, Num, MuxA, MUX1_RESULT, MUX1_MEM, Pointers
<1>3. w \in Nat /\ Num(inc) \in {0, 1} /\ (Num(inc) = 1 <=> inc) /\ MuxAD(b) \in {0, 1} /\ b \in {5, 6}
  BY <1>2 DEF Num, MuxAD, Pointers, DEREF_AD0, DEREF_AD1
<1>. HIDE DEF w
<1>4. WordFields(w)  BY <1>3, WordBits
<1>5. /\ Form(w) = 15 /\ Sub(w) = 1 /\ Bit(w, 15) = 1 /\ Bits(w, 6, 5) = 3 /\ Bit(w, 1) = 1
      /\ Bit(w, 2) = MuxAD(b) /\ Bit(w, 4) = Num(inc)
  <2>1. (w \div 4096) % 16 = 15  BY <1>2, <1>3
  <2>2. (w \div 64) % 64 = 1  BY <1>2, <1>3
  <2>3. (w \div 32768) % 2 = 1  BY <1>2, <1>3
  <2>4. (w \div 32) % 4 = 3  BY <1>2, <1>3
  <2>5. (w \div 2) % 2 = 1  BY <1>2, <1>3
  <2>6. (w \div 4) % 2 = MuxAD(b)  BY <1>2, <1>3
  <2>7. (w \div 16) % 2 = Num(inc)  BY <1>2, <1>3
  <2>. QED BY <1>4, <2>1, <2>2, <2>3, <2>4, <2>5, <2>6, <2>7 DEF WordFields
<1>6. /\ ~IsOpIrs(w) /\ ~IsMovReg(w) /\ ~IsMovCell(w) /\ ~IsOp(w) /\ ~IsCmp(w) /\ IsMovData(w)
      /\ ~IsMovMem(w) /\ ~IsUnary(w)
  BY <1>3, <1>5 DEF IsOpIrs, IsMovReg, IsMovCell, IsOp, IsCmp, IsMovData, IsMovMem, IsUnary
<1>7. SelectA(w) = MUX1_MEM /\ Command(w) = CMD_MOV /\ WbREG(w) = 3
  <2>1. SelectA(w) = MUX1_MEM  BY <1>3, <1>5, <1>6 DEF SelectA, MUX1_MEM, MUX1_RESULT
  <2>2. Command(w) = CMD_MOV  BY <1>3, <1>5, <1>6 DEF Command
  <2>3. WbREG(w) = 3  BY <1>5, <1>6 DEF WbREG
  <2>. QED BY <2>1, <2>2, <2>3
<1>8. /\ ~EnIRS(w) /\ ~EnADr0(w) /\ EnADr1(w) /\ (Inc(w, 0) <=> inc /\ MuxAD(b) = 0)
      /\ (Inc(w, 1) <=> inc /\ MuxAD(b) = 1)
  BY <1>3, <1>5, <1>6, <1>7
     DEF EnIRS, EnADr0, EnADr1, Inc, IncAD, IncAD2, FromMem, Num, MUX1_MEM, MUX1_RESULT, WBREG_NONE
<1>9. /\ FromPort0(i) /\ ~Framed(i) /\ ~Stores(i) /\ SetsRegister(i) /\ ~ReadsFirst(i) /\ Behind(i)
      /\ Second(i) = b /\ Commands(i) = CMD_MOV /\ (Advances(i, 0) <=> inc /\ MuxAD(b) = 0)
      /\ (Advances(i, 1) <=> inc /\ MuxAD(b) = 1)
  BY <1>1, <1>3
     DEF FromPort0, Framed, Stores, SetsRegister, ReadsFirst, Behind, Second, Offset, Commands, Advances,
     Selects, Deref, MuxAD, Num, IRS, REG_RES, DEREF_AD0, DEREF_AD1, REG_AD0, REG_AD1, REG_IRS
<1>10. EffectDecoded(d, i, code.pc)  BY <1>1, <1>3, <1>5, <1>7, <1>9, PlainEffect DEF w
<1>11. OperandsDecoded(d, i, s)
  BY <1>1, <1>3, <1>5, <1>6, <1>7, <1>8, <1>9, OperandsFollow DEF w, REG_RES
<1>. QED BY <1>3, <1>10, <1>11 DEF DecodesTo, w

\* An operation on result and the frame.
LEMMA DecodedCellOp ==
    ASSUME NEW c \in Operations, NEW k \in Offsets,
           NEW i, i = <<"op", REG_RES, IRS, c, k, FALSE, FALSE>>,
           NEW code, code.data = Word(i), NEW s
    PROVE  Word(i) \in Nat /\ DecodesTo(Decode(code, s), i, code.pc, s)
<1>. DEFINE w == Word(i)
            d == Decode(code, s)
<1>1. /\ i[1] = "op" /\ i[2] = REG_RES /\ i[3] = IRS /\ i[4] = c /\ i[5] = k /\ i[6] = FALSE
      /\ i[7] = FALSE
  OBVIOUS
<1>2. w = (c % 8) * 4096 + k * 4 + (c \div 8)
  <2>1. c \in 2 .. 9 /\ k \in 0 .. 511
    BY DEF Offsets, Operations, CMD_ADD, CMD_SUB, CMD_MUL, CMD_DIV, CMD_MAC, CMD_MAC_RES, CMD_LOG2, CMD_SHFT
  <2>2. k % 512 = k  BY <2>1
  <2>. QED BY <1>1, <2>1, <2>2
           DEF Word, OpCreate, OpMemCode, MuxAD, IRS, REG_RES, Deref, DEREF_AD0, DEREF_AD1, Num, MuxA,
               MUX1_RESULT, MUX1_MEM
<1>. DEFINE m == c % 8
            n == c \div 8
<1>3. w = m * 4096 + k * 4 + n /\ w \in Nat /\ k \in 0 .. 511 /\ m \in 0 .. 7 /\ n \in 0 .. 1 /\ c = m + 8 * n
  <2>1. k \in 0 .. 511 /\ c \in 2 .. 9
    BY DEF Offsets, Operations, CMD_ADD, CMD_SUB, CMD_MUL, CMD_DIV, CMD_MAC, CMD_MAC_RES, CMD_LOG2, CMD_SHFT
  <2>. QED BY <1>2, <2>1
<1>. HIDE DEF m, n
<1>. HIDE DEF w
<1>4. WordFields(w)  BY <1>3, WordBits
<1>5. /\ Form(w) = m /\ Bit(w, 15) = 0 /\ Bits(w, 14, 12) = m /\ Bit(w, 0) = n /\ Bit(w, 1) = 0
      /\ Bit(w, 11) = 0 /\ Bits(w, 10, 2) = k
  <2>1. (w \div 4096) % 16 = m  BY <1>3
  <2>2. (w \div 32768) % 2 = 0  BY <1>3
  <2>3. (w \div 4096) % 8 = m  BY <1>3
  <2>4. w % 2 = n  BY <1>3
  <2>5. (w \div 2) % 2 = 0  BY <1>3
  <2>6. (w \div 2048) % 2 = 0  BY <1>3
  <2>7. (w \div 4) % 512 = k  BY <1>3
  <2>. QED BY <1>4, <2>1, <2>2, <2>3, <2>4, <2>5, <2>6, <2>7 DEF WordFields
<1>6. /\ IsOpIrs(w) /\ ~IsMovReg(w) /\ ~IsMovCell(w) /\ ~IsOp(w) /\ ~IsCmp(w) /\ ~IsMovData(w)
      /\ ~IsMovMem(w) /\ ~IsUnary(w)
  BY <1>3, <1>5 DEF IsOpIrs, IsMovReg, IsMovCell, IsOp, IsCmp, IsMovData, IsMovMem, IsUnary
<1>7. SelectA(w) = MUX1_RESULT /\ Command(w) = c
  <2>1. SelectA(w) = MUX1_RESULT  BY <1>3, <1>5, <1>6 DEF SelectA, MUX1_MEM, MUX1_RESULT
  <2>2. Command(w) = c  BY <1>3, <1>5, <1>6, <2>1 DEF Command, FromMem, MUX1_MEM, MUX1_RESULT
  <2>. QED BY <2>1, <2>2
<1>8. /\ EnIRS(w) /\ ~EnADr0(w) /\ ~EnADr1(w) /\ ~Inc(w, 0) /\ ~Inc(w, 1)
  BY <1>3, <1>5, <1>6, <1>7
     DEF EnIRS, EnADr0, EnADr1, Inc, IncAD, IncAD2, FromMem, Num, MUX1_MEM, MUX1_RESULT
<1>9. /\ ~FromPort0(i) /\ Framed(i) /\ ~Stores(i) /\ ~SetsRegister(i) /\ ~ReadsFirst(i) /\ ~Behind(i)
      /\ Offset(i) = k /\ Commands(i) = c /\ ~Advances(i, 0) /\ ~Advances(i, 1)
  BY <1>1, <1>3
     DEF FromPort0, Framed, Stores, SetsRegister, ReadsFirst, Behind, Second, Offset, Commands, Advances,
     Selects, Deref, MuxAD, Num, IRS, REG_RES, DEREF_AD0, DEREF_AD1, REG_AD0, REG_AD1, REG_IRS
<1>10. EffectDecoded(d, i, code.pc)  BY <1>1, <1>3, <1>5, <1>7, <1>9, PlainEffect DEF w
<1>11. OperandsDecoded(d, i, s)
  BY <1>1, <1>3, <1>5, <1>6, <1>7, <1>8, <1>9, OperandsFollow DEF w
<1>. QED BY <1>3, <1>10, <1>11 DEF DecodesTo, w

\* An operation on memory behind a0 and the frame.
LEMMA DecodedPointerCellOp ==
    ASSUME NEW c \in Operations \ {CMD_LOG2, CMD_SHFT}, NEW k \in Offsets, NEW inc \in BOOLEAN,
           NEW i, i = <<"op", DEREF_AD0, IRS, c, k, inc, FALSE>>,
           NEW code, code.data = Word(i), NEW s
    PROVE  Word(i) \in Nat /\ DecodesTo(Decode(code, s), i, code.pc, s)
<1>. DEFINE w == Word(i)
            d == Decode(code, s)
<1>1. /\ i[1] = "op" /\ i[2] = DEREF_AD0 /\ i[3] = IRS /\ i[4] = c /\ i[5] = k /\ i[6] = inc
      /\ i[7] = FALSE
  OBVIOUS
<1>2. w = (c % 8) * 4096 + Num(inc) * 2048 + k * 4 + 2
  <2>1. c \in 2 .. 9 /\ k \in 0 .. 511
    BY DEF Offsets, Operations, CMD_ADD, CMD_SUB, CMD_MUL, CMD_DIV, CMD_MAC, CMD_MAC_RES, CMD_LOG2, CMD_SHFT
  <2>2. k % 512 = k  BY <2>1
  <2>. QED BY <1>1, <2>1, <2>2
           DEF Word, OpCreate, OpMemCode, MuxAD, IRS, REG_RES, Deref, DEREF_AD0, DEREF_AD1, Num, MuxA,
               MUX1_RESULT, MUX1_MEM
<1>. DEFINE flag == Num(inc)
<1>3. /\ w = c * 4096 + flag * 2048 + k * 4 + 2 /\ w \in Nat /\ k \in 0 .. 511 /\ c \in 2 .. 7
      /\ flag \in {0, 1} /\ (flag = 1 <=> inc)
  <2>1. k \in 0 .. 511 /\ c \in 2 .. 7
    BY DEF Offsets, Operations, CMD_ADD, CMD_SUB, CMD_MUL, CMD_DIV, CMD_MAC, CMD_MAC_RES, CMD_LOG2, CMD_SHFT
  <2>2. flag \in {0, 1} /\ (flag = 1 <=> inc)  BY DEF Num
  <2>. QED BY <1>2, <2>1, <2>2
<1>. HIDE DEF flag
<1>. HIDE DEF w
<1>4. WordFields(w)  BY <1>3, WordBits
<1>5. /\ Form(w) = c /\ Bit(w, 15) = 0 /\ Bits(w, 14, 12) = c /\ Bit(w, 0) = 0 /\ Bit(w, 1) = 1
      /\ Bit(w, 11) = flag /\ Bits(w, 10, 2) = k
  <2>1. (w \div 4096) % 16 = c  BY <1>3
  <2>2. (w \div 32768) % 2 = 0  BY <1>3
  <2>3. (w \div 4096) % 8 = c  BY <1>3
  <2>4. w % 2 = 0  BY <1>3
  <2>5. (w \div 2) % 2 = 1  BY <1>3
  <2>6. (w \div 2048) % 2 = flag  BY <1>3
  <2>7. (w \div 4) % 512 = k  BY <1>3
  <2>. QED BY <1>4, <2>1, <2>2, <2>3, <2>4, <2>5, <2>6, <2>7 DEF WordFields
<1>6. /\ IsOpIrs(w) /\ ~IsMovReg(w) /\ ~IsMovCell(w) /\ ~IsOp(w) /\ ~IsCmp(w) /\ ~IsMovData(w)
      /\ ~IsMovMem(w) /\ ~IsUnary(w)
  BY <1>3, <1>5 DEF IsOpIrs, IsMovReg, IsMovCell, IsOp, IsCmp, IsMovData, IsMovMem, IsUnary
<1>7. SelectA(w) = MUX1_MEM /\ Command(w) = c
  <2>1. SelectA(w) = MUX1_MEM  BY <1>3, <1>5, <1>6 DEF SelectA, MUX1_MEM, MUX1_RESULT
  <2>2. Command(w) = c  BY <1>3, <1>5, <1>6, <2>1 DEF Command, FromMem, MUX1_MEM, MUX1_RESULT
  <2>. QED BY <2>1, <2>2
<1>8. /\ EnIRS(w) /\ EnADr0(w) /\ ~EnADr1(w) /\ (Inc(w, 0) <=> inc) /\ ~Inc(w, 1)
  BY <1>3, <1>5, <1>6, <1>7
     DEF EnIRS, EnADr0, EnADr1, Inc, IncAD, IncAD2, FromMem, Num, MUX1_MEM, MUX1_RESULT
<1>9. /\ FromPort0(i) /\ Framed(i) /\ ~Stores(i) /\ ~SetsRegister(i) /\ ReadsFirst(i) /\ ~Behind(i)
      /\ Offset(i) = k /\ Commands(i) = c /\ (Advances(i, 0) <=> inc) /\ ~Advances(i, 1)
  BY <1>1, <1>3
     DEF FromPort0, Framed, Stores, SetsRegister, ReadsFirst, Behind, Second, Offset, Commands, Advances,
     Selects, Deref, MuxAD, Num, IRS, REG_RES, DEREF_AD0, DEREF_AD1, REG_AD0, REG_AD1, REG_IRS
<1>10. EffectDecoded(d, i, code.pc)  BY <1>1, <1>3, <1>5, <1>7, <1>9, PlainEffect DEF w
<1>11. OperandsDecoded(d, i, s)
  BY <1>1, <1>3, <1>5, <1>6, <1>7, <1>8, <1>9, OperandsFollow DEF w
<1>. QED BY <1>3, <1>10, <1>11 DEF DecodesTo, w

\* An operation on result and memory.
LEMMA DecodedPointerOp ==
    ASSUME NEW b \in Pointers, NEW c \in Operations, NEW inc \in BOOLEAN,
           NEW i, i = <<"op", REG_RES, b, c, 0, inc, FALSE>>,
           NEW code, code.data = Word(i), NEW s
    PROVE  Word(i) \in Nat /\ DecodesTo(Decode(code, s), i, code.pc, s)
<1>. DEFINE w == Word(i)
            d == Decode(code, s)
<1>1. /\ i[1] = "op" /\ i[2] = REG_RES /\ i[3] = b /\ i[4] = c /\ i[6] = inc /\ i[7] = FALSE
  OBVIOUS
<1>2. w = 49153 + c * 32 + Num(inc) * 16 + MuxAD(b) * 4
  <2>1. /\ b # IRS /\ MuxA(REG_RES) = 0 /\ MuxA(DEREF_AD0) = 1
        /\ MuxAD(REG_RES) = 1 /\ MuxAD(DEREF_AD0) = 0 /\ Num(FALSE) = 0
    BY DEF Pointers, MuxA, MuxAD, Num, IRS, REG_RES, DEREF_AD0, DEREF_AD1, MUX1_RESULT, MUX1_MEM
  <2>2. c \in Nat /\ MuxAD(b) \in Nat /\ Num(inc) \in Nat
    BY
       DEF Operations, CMD_ADD, CMD_SUB, CMD_MUL, CMD_DIV, CMD_MAC, CMD_MAC_RES, CMD_LOG2, CMD_SHFT, MuxAD,
           Num
  <2>3. w = OpCreate(REG_RES, b, c, 0, inc, FALSE)  BY <1>1 DEF Word
  <2>4. w = OpMemCode + Num(FALSE) * 512 + c * 32 + Num(inc) * 16 + MuxAD(b) * 4 + 0 * 2 + 1
    BY <2>1, <2>3 DEF OpCreate, MUX1_MEM
  <2>5. w = OpMemCode + 0 * 512 + c * 32 + Num(inc) * 16 + MuxAD(b) * 4 + 0 * 2 + 1
    BY <2>1, <2>4, Zenon
  <2>. QED BY <2>2, <2>5 DEF OpMemCode
<1>. DEFINE flag == Num(inc)
            sel == MuxAD(b)
<1>3. /\ w = 49153 + c * 32 + flag * 16 + sel * 4 /\ w \in Nat /\ c \in 2 .. 9 /\ b \in {5, 6}
      /\ sel \in {0, 1} /\ flag \in {0, 1} /\ (flag = 1 <=> inc)
  <2>1. c \in 2 .. 9
    BY DEF Operations, CMD_ADD, CMD_SUB, CMD_MUL, CMD_DIV, CMD_MAC, CMD_MAC_RES, CMD_LOG2, CMD_SHFT
  <2>2. b \in {5, 6} /\ sel \in {0, 1} /\ flag \in {0, 1} /\ (flag = 1 <=> inc)
    BY DEF Pointers, DEREF_AD0, DEREF_AD1, MuxAD, Num
  <2>. QED BY <1>2, <2>1, <2>2
<1>. HIDE DEF flag, sel
<1>. HIDE DEF w
<1>4. WordFields(w)  BY <1>3, WordBits
<1>5. /\ Form(w) = 12 /\ Bit(w, 15) = 1 /\ Bits(w, 8, 5) = c /\ Bit(w, 0) = 1 /\ Bit(w, 1) = 0
      /\ Bit(w, 2) = sel /\ Bit(w, 4) = flag /\ Bit(w, 9) = 0
  <2>1. (w \div 4096) % 16 = 12  BY <1>3
  <2>2. (w \div 32768) % 2 = 1  BY <1>3
  <2>3. (w \div 32) % 16 = c  BY <1>3
  <2>4. w % 2 = 1  BY <1>3
  <2>5. (w \div 2) % 2 = 0  BY <1>3
  <2>6. (w \div 4) % 2 = sel  BY <1>3
  <2>7. (w \div 16) % 2 = flag  BY <1>3
  <2>8. (w \div 512) % 2 = 0  BY <1>3
  <2>. QED BY <1>4, <2>1, <2>2, <2>3, <2>4, <2>5, <2>6, <2>7, <2>8 DEF WordFields
<1>6. /\ ~IsOpIrs(w) /\ ~IsMovReg(w) /\ ~IsMovCell(w) /\ IsOp(w) /\ ~IsCmp(w) /\ ~IsMovData(w)
      /\ ~IsMovMem(w) /\ ~IsUnary(w)
  BY <1>3, <1>5 DEF IsOpIrs, IsMovReg, IsMovCell, IsOp, IsCmp, IsMovData, IsMovMem, IsUnary
<1>7. SelectA(w) = MUX1_RESULT /\ Command(w) = c
  <2>1. SelectA(w) = MUX1_RESULT  BY <1>3, <1>5, <1>6 DEF SelectA, MUX1_MEM, MUX1_RESULT
  <2>2. Command(w) = c  BY <1>3, <1>5, <1>6 DEF Command
  <2>. QED BY <2>1, <2>2
<1>8. /\ ~EnIRS(w) /\ ~EnADr0(w) /\ EnADr1(w) /\ (Inc(w, 0) <=> inc /\ sel = 0)
      /\ (Inc(w, 1) <=> inc /\ sel = 1)
  BY <1>3, <1>5, <1>6, <1>7
     DEF EnIRS, EnADr0, EnADr1, Inc, IncAD, IncAD2, FromMem, Num, MUX1_MEM, MUX1_RESULT
<1>9. /\ ~FromPort0(i) /\ ~Framed(i) /\ ~Stores(i) /\ ~SetsRegister(i) /\ ~ReadsFirst(i) /\ Behind(i)
      /\ Second(i) = b /\ Commands(i) = c /\ (Advances(i, 0) <=> inc /\ sel = 0)
      /\ (Advances(i, 1) <=> inc /\ sel = 1)
  BY <1>1, <1>3
     DEF FromPort0, Framed, Stores, SetsRegister, ReadsFirst, Behind, Second, Offset, Commands, Advances,
     Selects, Deref, MuxAD, Num, IRS, REG_RES, DEREF_AD0, DEREF_AD1, REG_AD0, REG_AD1, REG_IRS, sel
<1>10. EffectDecoded(d, i, code.pc)  BY <1>1, <1>3, <1>5, <1>7, <1>9, PlainEffect DEF w
<1>11. OperandsDecoded(d, i, s)
  BY <1>1, <1>3, <1>5, <1>6, <1>7, <1>8, <1>9, OperandsFollow DEF w, sel
<1>. QED BY <1>3, <1>10, <1>11 DEF DecodesTo, w

\* An operation on two words of memory.
LEMMA DecodedPointersOp ==
    ASSUME NEW b \in Pointers, NEW c \in Operations, NEW inc \in BOOLEAN, NEW inc2 \in BOOLEAN,
           NEW i, i = <<"op", DEREF_AD0, b, c, 0, inc, inc2>>,
           NEW code, code.data = Word(i), NEW s
    PROVE  Word(i) \in Nat /\ DecodesTo(Decode(code, s), i, code.pc, s)
<1>. DEFINE w == Word(i)
            d == Decode(code, s)
<1>1. /\ i[1] = "op" /\ i[2] = DEREF_AD0 /\ i[3] = b /\ i[4] = c /\ i[6] = inc /\ i[7] = inc2
  OBVIOUS
<1>2. w = 49154 + Num(inc) * 512 + c * 32 + Num(inc2) * 16 + MuxAD(b) * 4
  <2>1. /\ b # IRS /\ MuxA(REG_RES) = 0 /\ MuxA(DEREF_AD0) = 1
        /\ MuxAD(REG_RES) = 1 /\ MuxAD(DEREF_AD0) = 0 /\ Num(FALSE) = 0
    BY DEF Pointers, MuxA, MuxAD, Num, IRS, REG_RES, DEREF_AD0, DEREF_AD1, MUX1_RESULT, MUX1_MEM
  <2>2. c \in Nat /\ MuxAD(b) \in Nat /\ Num(inc) \in Nat /\ Num(inc2) \in Nat
    BY
       DEF Operations, CMD_ADD, CMD_SUB, CMD_MUL, CMD_DIV, CMD_MAC, CMD_MAC_RES, CMD_LOG2, CMD_SHFT, MuxAD,
           Num
  <2>3. w = OpCreate(DEREF_AD0, b, c, 0, inc, inc2)  BY <1>1 DEF Word
  <2>. QED BY <2>1, <2>2, <2>3 DEF OpCreate, OpMemCode, MUX1_MEM
<1>. DEFINE flag == Num(inc)
            flag2 == Num(inc2)
            sel == MuxAD(b)
<1>3. /\ w = 49154 + flag * 512 + c * 32 + flag2 * 16 + sel * 4 /\ w \in Nat /\ c \in 2 .. 9 /\ b \in {5, 6}
      /\ sel \in {0, 1} /\ flag \in {0, 1} /\ (flag = 1 <=> inc) /\ flag2 \in {0, 1} /\ (flag2 = 1 <=> inc2)
  <2>1. c \in 2 .. 9
    BY DEF Operations, CMD_ADD, CMD_SUB, CMD_MUL, CMD_DIV, CMD_MAC, CMD_MAC_RES, CMD_LOG2, CMD_SHFT
  <2>2. /\ b \in {5, 6} /\ sel \in {0, 1}
        /\ flag \in {0, 1} /\ (flag = 1 <=> inc) /\ flag2 \in {0, 1} /\ (flag2 = 1 <=> inc2)
    BY DEF Pointers, DEREF_AD0, DEREF_AD1, MuxAD, Num
  <2>. QED BY <1>2, <2>1, <2>2
<1>. HIDE DEF flag, flag2, sel
<1>. HIDE DEF w
<1>4. WordFields(w)  BY <1>3, WordBits
<1>5. /\ Form(w) = 12 /\ Bit(w, 15) = 1 /\ Bits(w, 8, 5) = c /\ Bit(w, 0) = 0 /\ Bit(w, 1) = 1
      /\ Bit(w, 2) = sel /\ Bit(w, 4) = flag2 /\ Bit(w, 9) = flag
  <2>1. (w \div 4096) % 16 = 12  BY <1>3
  <2>2. (w \div 32768) % 2 = 1  BY <1>3
  <2>3. (w \div 32) % 16 = c  BY <1>3
  <2>4. w % 2 = 0  BY <1>3
  <2>5. (w \div 2) % 2 = 1  BY <1>3
  <2>6. (w \div 4) % 2 = sel  BY <1>3
  <2>7. (w \div 16) % 2 = flag2  BY <1>3
  <2>8. (w \div 512) % 2 = flag  BY <1>3
  <2>. QED BY <1>4, <2>1, <2>2, <2>3, <2>4, <2>5, <2>6, <2>7, <2>8 DEF WordFields
<1>6. /\ ~IsOpIrs(w) /\ ~IsMovReg(w) /\ ~IsMovCell(w) /\ IsOp(w) /\ ~IsCmp(w) /\ ~IsMovData(w)
      /\ ~IsMovMem(w) /\ ~IsUnary(w)
  BY <1>3, <1>5 DEF IsOpIrs, IsMovReg, IsMovCell, IsOp, IsCmp, IsMovData, IsMovMem, IsUnary
<1>7. SelectA(w) = MUX1_MEM /\ Command(w) = c
  <2>1. SelectA(w) = MUX1_MEM  BY <1>3, <1>5, <1>6 DEF SelectA, MUX1_MEM, MUX1_RESULT
  <2>2. Command(w) = c  BY <1>3, <1>5, <1>6 DEF Command
  <2>. QED BY <2>1, <2>2
<1>8. /\ ~EnIRS(w) /\ EnADr0(w) /\ EnADr1(w) /\ (Inc(w, 0) <=> inc \/ (inc2 /\ sel = 0))
      /\ (Inc(w, 1) <=> inc2 /\ sel = 1)
  BY <1>3, <1>5, <1>6, <1>7
     DEF EnIRS, EnADr0, EnADr1, Inc, IncAD, IncAD2, FromMem, Num, MUX1_MEM, MUX1_RESULT
<1>9. /\ FromPort0(i) /\ ~Framed(i) /\ ~Stores(i) /\ ~SetsRegister(i) /\ ReadsFirst(i) /\ Behind(i)
      /\ Second(i) = b /\ Commands(i) = c /\ (Advances(i, 0) <=> inc \/ (inc2 /\ sel = 0))
      /\ (Advances(i, 1) <=> inc2 /\ sel = 1)
  BY <1>1, <1>3
     DEF FromPort0, Framed, Stores, SetsRegister, ReadsFirst, Behind, Second, Offset, Commands, Advances,
     Selects, Deref, MuxAD, Num, IRS, REG_RES, DEREF_AD0, DEREF_AD1, REG_AD0, REG_AD1, REG_IRS, sel
<1>10. EffectDecoded(d, i, code.pc)  BY <1>1, <1>3, <1>5, <1>7, <1>9, PlainEffect DEF w
<1>11. OperandsDecoded(d, i, s)
  BY <1>1, <1>3, <1>5, <1>6, <1>7, <1>8, <1>9, OperandsFollow DEF w, sel
<1>. QED BY <1>3, <1>10, <1>11 DEF DecodesTo, w

\* The operation that fetches the sum.
LEMMA DecodedSum ==
    ASSUME NEW i, i = <<"op", REG_RES, REG_RES, CMD_MAC_RES, 0, FALSE, FALSE>>, NEW code, code.data = Word(i), NEW s
    PROVE  Word(i) \in Nat /\ DecodesTo(Decode(code, s), i, code.pc, s)
<1>. DEFINE w == Word(i)
            d == Decode(code, s)
<1>1. /\ i[1] = "op" /\ i[2] = REG_RES /\ i[3] = REG_RES /\ i[4] = CMD_MAC_RES /\ i[6] = FALSE
      /\ i[7] = FALSE
  OBVIOUS
<1>2. w = 49381
  BY <1>1
     DEF Word, OpCreate, OpMemCode, MuxAD, IRS, REG_RES, Deref, DEREF_AD0, DEREF_AD1, Num, MuxA,
         MUX1_RESULT, MUX1_MEM, CMD_MAC_RES
<1>3. w \in Nat /\ MuxAD(REG_RES) = 1 /\ CMD_MAC_RES = 7
  BY <1>2 DEF MuxAD, Num, REG_RES, DEREF_AD0, CMD_MAC_RES
<1>. HIDE DEF w
<1>4. WordFields(w)  BY <1>3, WordBits
<1>5. /\ Form(w) = 12 /\ Bit(w, 15) = 1 /\ Bits(w, 8, 5) = 7 /\ Bit(w, 0) = 1 /\ Bit(w, 1) = 0
      /\ Bit(w, 2) = 1 /\ Bit(w, 4) = 0 /\ Bit(w, 9) = 0
  <2>1. (w \div 4096) % 16 = 12  BY <1>2, <1>3
  <2>2. (w \div 32768) % 2 = 1  BY <1>2, <1>3
  <2>3. (w \div 32) % 16 = 7  BY <1>2, <1>3
  <2>4. w % 2 = 1  BY <1>2, <1>3
  <2>5. (w \div 2) % 2 = 0  BY <1>2, <1>3
  <2>6. (w \div 4) % 2 = 1  BY <1>2, <1>3
  <2>7. (w \div 16) % 2 = 0  BY <1>2, <1>3
  <2>8. (w \div 512) % 2 = 0  BY <1>2, <1>3
  <2>. QED BY <1>4, <2>1, <2>2, <2>3, <2>4, <2>5, <2>6, <2>7, <2>8 DEF WordFields
<1>6. /\ ~IsOpIrs(w) /\ ~IsMovReg(w) /\ ~IsMovCell(w) /\ IsOp(w) /\ ~IsCmp(w) /\ ~IsMovData(w)
      /\ ~IsMovMem(w) /\ ~IsUnary(w)
  BY <1>3, <1>5 DEF IsOpIrs, IsMovReg, IsMovCell, IsOp, IsCmp, IsMovData, IsMovMem, IsUnary
<1>7. SelectA(w) = MUX1_RESULT /\ Command(w) = CMD_MAC_RES
  <2>1. SelectA(w) = MUX1_RESULT  BY <1>3, <1>5, <1>6 DEF SelectA, MUX1_MEM, MUX1_RESULT
  <2>2. Command(w) = CMD_MAC_RES  BY <1>3, <1>5, <1>6 DEF Command
  <2>. QED BY <2>1, <2>2
<1>8. /\ ~EnIRS(w) /\ ~EnADr0(w) /\ EnADr1(w) /\ ~Inc(w, 0) /\ ~Inc(w, 1)
  BY <1>3, <1>5, <1>6, <1>7
     DEF EnIRS, EnADr0, EnADr1, Inc, IncAD, IncAD2, FromMem, Num, MUX1_MEM, MUX1_RESULT
<1>9. /\ ~FromPort0(i) /\ ~Framed(i) /\ ~Stores(i) /\ ~SetsRegister(i) /\ ~ReadsFirst(i) /\ Behind(i)
      /\ Second(i) = REG_RES /\ Commands(i) = CMD_MAC_RES /\ ~Advances(i, 0) /\ ~Advances(i, 1)
  BY <1>1, <1>3
     DEF FromPort0, Framed, Stores, SetsRegister, ReadsFirst, Behind, Second, Offset, Commands, Advances,
     Selects, Deref, MuxAD, Num, IRS, REG_RES, DEREF_AD0, DEREF_AD1, REG_AD0, REG_AD1, REG_IRS
<1>10. EffectDecoded(d, i, code.pc)  BY <1>1, <1>3, <1>5, <1>7, <1>9, PlainEffect DEF w
<1>11. OperandsDecoded(d, i, s)
  BY <1>1, <1>3, <1>5, <1>6, <1>7, <1>8, <1>9, OperandsFollow DEF w
<1>. QED BY <1>3, <1>10, <1>11 DEF DecodesTo, w

\* A comparison of result with the frame.
LEMMA DecodedCompare ==
    ASSUME NEW mode \in CMP_EQ .. CMP_LE, NEW k \in Offsets,
           NEW i, i = <<"cmp", mode, k>>,
           NEW code, code.data = Word(i), NEW s
    PROVE  Word(i) \in Nat /\ DecodesTo(Decode(code, s), i, code.pc, s)
<1>. DEFINE w == Word(i)
            d == Decode(code, s)
<1>1. /\ i[1] = "cmp" /\ i[2] = mode /\ i[3] = k
  OBVIOUS
<1>2. w = 53248 + k * 4 + mode
  BY <1>1 DEF Word, CmpCreate, CmpCode, Offsets
<1>3. w \in Nat /\ k \in 0 .. 511 /\ mode \in 0 .. 3
  BY <1>2 DEF Offsets, CMP_EQ, CMP_LE
<1>. HIDE DEF w
<1>4. WordFields(w)  BY <1>3, WordBits
<1>5. /\ Form(w) = 13 /\ Bit(w, 15) = 1 /\ Bits(w, 1, 0) = mode /\ Bits(w, 10, 2) = k
  <2>1. (w \div 4096) % 16 = 13  BY <1>2, <1>3
  <2>2. (w \div 32768) % 2 = 1  BY <1>2, <1>3
  <2>3. w % 4 = mode  BY <1>2, <1>3
  <2>4. (w \div 4) % 512 = k  BY <1>2, <1>3
  <2>. QED BY <1>4, <2>1, <2>2, <2>3, <2>4 DEF WordFields
<1>6. /\ ~IsOpIrs(w) /\ ~IsMovReg(w) /\ ~IsMovCell(w) /\ ~IsOp(w) /\ IsCmp(w) /\ ~IsMovData(w)
      /\ ~IsMovMem(w) /\ ~IsUnary(w)
  BY <1>3, <1>5 DEF IsOpIrs, IsMovReg, IsMovCell, IsOp, IsCmp, IsMovData, IsMovMem, IsUnary
<1>7. SelectA(w) = MUX1_RESULT /\ Command(w) = CMD_CMP
  <2>1. SelectA(w) = MUX1_RESULT  BY <1>3, <1>5, <1>6 DEF SelectA, MUX1_MEM, MUX1_RESULT
  <2>2. Command(w) = CMD_CMP  BY <1>3, <1>5, <1>6 DEF Command
  <2>. QED BY <2>1, <2>2
<1>8. /\ EnIRS(w) /\ ~EnADr0(w) /\ ~EnADr1(w) /\ ~Inc(w, 0) /\ ~Inc(w, 1)
  BY <1>3, <1>5, <1>6, <1>7
     DEF EnIRS, EnADr0, EnADr1, Inc, IncAD, IncAD2, FromMem, Num, MUX1_MEM, MUX1_RESULT
<1>9. /\ ~FromPort0(i) /\ Framed(i) /\ ~Stores(i) /\ ~SetsRegister(i) /\ ~ReadsFirst(i) /\ ~Behind(i)
      /\ Offset(i) = k /\ Commands(i) = CMD_CMP /\ ~Advances(i, 0) /\ ~Advances(i, 1)
  BY <1>1, <1>3
     DEF FromPort0, Framed, Stores, SetsRegister, ReadsFirst, Behind, Second, Offset, Commands, Advances,
     Selects, Deref, MuxAD, Num, IRS, REG_RES, DEREF_AD0, DEREF_AD1, REG_AD0, REG_AD1, REG_IRS
<1>10. EffectDecoded(d, i, code.pc)
  <2>1. ~IsGoto(w) /\ ~IsLoad(w) /\ ~IsUnary(w) /\ ~IsSignal(w) /\ ~(Form(w) = 15 /\ Sub(w) = 5) /\ ~(Form(w) = 10)
    BY <1>5 DEF IsGoto, IsLoad, IsUnary, IsSignal, Form
  <2>2. /\ d.curPc = code.pc /\ d.cmd = Command(w) /\ ~d.goto /\ ~d.gotoConst /\ ~d.load /\ d.cmp /\ ~d.neg
        /\ ~d.trunc /\ ~d.loop /\ ~d.busLock /\ ~d.busUnlock /\ d.cmpMode = mode
    BY <1>3, <1>5, <1>6, <2>1, DecodeIs DEF w
  <2>. HIDE DEF d
  <2>. QED BY <1>1, <1>7, <1>9, <2>2 DEF EffectDecoded
<1>11. OperandsDecoded(d, i, s)
  BY <1>1, <1>3, <1>5, <1>6, <1>7, <1>8, <1>9, OperandsFollow DEF w
<1>. QED BY <1>3, <1>10, <1>11 DEF DecodesTo, w

-----------------------------------------------------------------------------
(* Words that have none.                                                   *)

\* A jump over a distance.
LEMMA DecodedGoto ==
    ASSUME NEW distance \in -512 .. 511,
           NEW i, i = <<"goto", distance>>, NEW code, code.data = Word(i), NEW s,
           code.pc \in Nat
    PROVE  Word(i) \in Nat /\ DecodesTo(Decode(code, s), i, code.pc, s)
<1>. DEFINE w == Word(i)
            d == Decode(code, s)
<1>1. /\ i[1] = "goto" /\ i[2] = distance
  OBVIOUS
<1>2. w = 40961 + (distance % 1024) * 4
  BY <1>1 DEF Word, GotoCreate, GotoCode
<1>. DEFINE target == distance % 1024
<1>3. w = 40961 + target * 4 /\ w \in Nat /\ target \in 0 .. 1023
  BY <1>2
<1>12. distance = (target % 512) - 512 * (target \div 512) /\ (distance < 0 <=> target >= 512)
  BY <1>2
<1>. HIDE DEF target
<1>. HIDE DEF w
<1>4. WordFields(w)  BY <1>3, WordBits
<1>5. /\ Form(w) = 10 /\ Bit(w, 15) = 1 /\ Bit(w, 0) = 1 /\ Bit(w, 1) = 0
      /\ Bits(w, 10, 2) = target % 512 /\ Bit(w, 11) = target \div 512
  <2>1. (w \div 4096) % 16 = 10  BY <1>3
  <2>2. (w \div 32768) % 2 = 1  BY <1>3
  <2>3. w % 2 = 1  BY <1>3
  <2>4. (w \div 2) % 2 = 0  BY <1>3
  <2>5. (w \div 4) % 512 = target % 512  BY <1>3
  <2>6. (w \div 2048) % 2 = target \div 512  BY <1>3
  <2>. QED BY <1>4, <2>1, <2>2, <2>3, <2>4, <2>5, <2>6 DEF WordFields
<1>6. NoAccess(w)
  BY <1>5 DEF NoAccess, IsOpIrs, IsMovReg, IsMovCell, IsOp, IsCmp, IsMovData, IsMovMem
<1>7. SelectA(w) = MUX1_RESULT
  BY <1>5, <1>6 DEF NoAccess, SelectA, MUX1_RESULT
<1>8. Command(w) = CMD_MOV /\ Commands(i) = CMD_MOV
  BY <1>1, <1>3, <1>5, <1>6
     DEF NoAccess, Command, Commands, IsUnary, CMD_LOG2, CMD_INVALID, UNARY_NEG, UNARY_LOG2, UNARY_TRUNC
<1>9. /\ d.curPc = code.pc /\ d.cmd = Command(w) /\ d.goto /\ d.gotoConst /\ ~d.load /\ ~d.cmp /\ ~d.neg
      /\ ~d.trunc /\ ~d.loop /\ ~d.busLock /\ ~d.busUnlock /\ (d.jmpBack <=> distance < 0)
      /\ d.jmpTarget = (code.pc + distance) % 65536
  <2>1. ~IsCmp(w)  BY <1>6 DEF NoAccess
  <2>2. /\ Form(w) = 10 /\ IsGoto(w) /\ ~IsLoad(w) /\ ~IsUnary(w) /\ ~IsSignal(w)
        /\ ~(Form(w) = 15 /\ Sub(w) = 5) /\ (Bit(w, 11) = 1 <=> distance < 0)
        /\ Bits(w, 10, 2) - 512 * Bit(w, 11) = distance
    BY <1>3, <1>5, <1>12
       DEF IsGoto, IsLoad, IsUnary, IsSignal, Form, UNARY_NEG, UNARY_TRUNC, UNARY_LOG2, BUS_LOCK, BUS_UNLOCK
  <2>3. code.pc + Bits(w, 10, 2) - 512 * Bit(w, 11) = code.pc + distance
    <3>1. target % 512 \in Nat /\ target \div 512 \in Nat  BY <1>3
    <3>. QED BY <1>5, <1>12, <3>1
  <2>. QED BY <1>3, <1>5, <2>1, <2>2, <2>3, DecodeIs DEF w
<1>10. OperandsDecoded(d, i, s)  BY <1>1, <1>3, <1>6, <1>7, NoOperands DEF w
<1>11. EffectDecoded(d, i, code.pc)
  <2>. HIDE DEF d
  <2>. QED BY <1>1, <1>3, <1>8, <1>9 DEF EffectDecoded
<1>. QED BY <1>3, <1>10, <1>11 DEF DecodesTo, w

\* A jump to result.
LEMMA DecodedGotoResult ==
    ASSUME NEW i, i = <<"gotor">>, NEW code, code.data = Word(i), NEW s
    PROVE  Word(i) \in Nat /\ DecodesTo(Decode(code, s), i, code.pc, s)
<1>. DEFINE w == Word(i)
            d == Decode(code, s)
<1>1. /\ i[1] = "gotor"
  OBVIOUS
<1>2. w = 40960
  BY <1>1 DEF Word, GotoResult, GotoCode
<1>3. w \in Nat  BY <1>2
<1>. HIDE DEF w
<1>4. WordFields(w)  BY <1>3, WordBits
<1>5. /\ Form(w) = 10 /\ Bit(w, 15) = 1 /\ Bit(w, 0) = 0 /\ Bit(w, 1) = 0
  <2>1. (w \div 4096) % 16 = 10  BY <1>2, <1>3
  <2>2. (w \div 32768) % 2 = 1  BY <1>2, <1>3
  <2>3. w % 2 = 0  BY <1>2, <1>3
  <2>4. (w \div 2) % 2 = 0  BY <1>2, <1>3
  <2>. QED BY <1>4, <2>1, <2>2, <2>3, <2>4 DEF WordFields
<1>6. NoAccess(w)
  BY <1>5 DEF NoAccess, IsOpIrs, IsMovReg, IsMovCell, IsOp, IsCmp, IsMovData, IsMovMem
<1>7. SelectA(w) = MUX1_RESULT
  BY <1>5, <1>6 DEF NoAccess, SelectA, MUX1_RESULT
<1>8. Command(w) = CMD_MOV /\ Commands(i) = CMD_MOV
  BY <1>1, <1>3, <1>5, <1>6
     DEF NoAccess, Command, Commands, IsUnary, CMD_LOG2, CMD_INVALID, UNARY_NEG, UNARY_LOG2, UNARY_TRUNC
<1>9. /\ d.curPc = code.pc /\ d.cmd = Command(w) /\ d.goto /\ ~d.gotoConst /\ ~d.load /\ ~d.cmp
      /\ ~d.neg /\ ~d.trunc /\ ~d.loop /\ ~d.busLock /\ ~d.busUnlock
  <2>1. ~IsCmp(w)  BY <1>6 DEF NoAccess
  <2>2. /\ Form(w) = 10 /\ ~IsGoto(w) /\ ~IsLoad(w) /\ ~IsUnary(w) /\ ~IsSignal(w)
        /\ ~(Form(w) = 15 /\ Sub(w) = 5)
    BY <1>3, <1>5
       DEF IsGoto, IsLoad, IsUnary, IsSignal, Form, UNARY_NEG, UNARY_TRUNC, UNARY_LOG2, BUS_LOCK, BUS_UNLOCK
  <2>. QED BY <1>3, <1>5, <2>1, <2>2, DecodeIs DEF w
<1>10. OperandsDecoded(d, i, s)  BY <1>1, <1>3, <1>6, <1>7, NoOperands DEF w
<1>11. EffectDecoded(d, i, code.pc)
  <2>. HIDE DEF d
  <2>. QED BY <1>1, <1>3, <1>8, <1>9 DEF EffectDecoded
<1>. QED BY <1>3, <1>10, <1>11 DEF DecodesTo, w

\* A fragment of a constant.
LEMMA DecodedLoad ==
    ASSUME NEW data \in Fragments,
           NEW i, i = <<"load", data>>, NEW code, code.data = Word(i), NEW s
    PROVE  Word(i) \in Nat /\ DecodesTo(Decode(code, s), i, code.pc, s)
<1>. DEFINE w == Word(i)
            d == Decode(code, s)
<1>1. /\ i[1] = "load" /\ i[2] = data
  OBVIOUS
<1>2. w = 45056 + data
  BY <1>1 DEF Word, LoadCreate, LoadCode
<1>3. w \in Nat /\ data \in 0 .. 4095  BY <1>2 DEF Fragments
<1>. HIDE DEF w
<1>4. WordFields(w)  BY <1>3, WordBits
<1>5. /\ Form(w) = 11 /\ Bit(w, 15) = 1 /\ Bits(w, 11, 0) = data
  <2>1. (w \div 4096) % 16 = 11  BY <1>2, <1>3
  <2>2. (w \div 32768) % 2 = 1  BY <1>2, <1>3
  <2>3. w % 4096 = data  BY <1>2, <1>3
  <2>. QED BY <1>4, <2>1, <2>2, <2>3 DEF WordFields
<1>6. NoAccess(w)
  BY <1>5 DEF NoAccess, IsOpIrs, IsMovReg, IsMovCell, IsOp, IsCmp, IsMovData, IsMovMem
<1>7. SelectA(w) = MUX1_RESULT
  BY <1>5, <1>6 DEF NoAccess, SelectA, MUX1_RESULT
<1>8. Command(w) = CMD_MOV /\ Commands(i) = CMD_MOV
  BY <1>1, <1>3, <1>5, <1>6
     DEF NoAccess, Command, Commands, IsUnary, CMD_LOG2, CMD_INVALID, UNARY_NEG, UNARY_LOG2, UNARY_TRUNC
<1>9. /\ d.curPc = code.pc /\ d.cmd = Command(w) /\ ~d.goto /\ ~d.gotoConst /\ d.load /\ ~d.cmp
      /\ ~d.neg /\ ~d.trunc /\ ~d.loop /\ ~d.busLock /\ ~d.busUnlock /\ d.loadData = data
  <2>1. ~IsCmp(w)  BY <1>6 DEF NoAccess
  <2>2. /\ ~(Form(w) = 10) /\ ~IsGoto(w) /\ IsLoad(w) /\ ~IsUnary(w) /\ ~IsSignal(w)
        /\ ~(Form(w) = 15 /\ Sub(w) = 5)
    BY <1>3, <1>5
       DEF IsGoto, IsLoad, IsUnary, IsSignal, Form, UNARY_NEG, UNARY_TRUNC, UNARY_LOG2, BUS_LOCK, BUS_UNLOCK
  <2>. QED BY <1>3, <1>5, <2>1, <2>2, DecodeIs DEF w
<1>10. OperandsDecoded(d, i, s)  BY <1>1, <1>3, <1>6, <1>7, NoOperands DEF w
<1>11. EffectDecoded(d, i, code.pc)
  <2>. HIDE DEF d
  <2>. QED BY <1>1, <1>3, <1>8, <1>9 DEF EffectDecoded
<1>. QED BY <1>3, <1>10, <1>11 DEF DecodesTo, w

\* An operation on result.
LEMMA DecodedUnary ==
    ASSUME NEW u \in {UNARY_NEG, UNARY_LOG2, UNARY_TRUNC},
           NEW i, i = <<"unary", u>>, NEW code, code.data = Word(i), NEW s
    PROVE  Word(i) \in Nat /\ DecodesTo(Decode(code, s), i, code.pc, s)
<1>. DEFINE w == Word(i)
            d == Decode(code, s)
<1>1. /\ i[1] = "unary" /\ i[2] = u
  OBVIOUS
<1>2. w = IF u = 0 THEN 61753 ELSE IF u = 1 THEN 61696 ELSE 61756
  BY <1>1 DEF Word, UnaryCreate, UnaryCode, UNARY_NEG, UNARY_LOG2, UNARY_TRUNC, CMD_LOG2, CMD_INVALID, Num
<1>3. w \in Nat /\ u \in 0 .. 2  BY <1>2 DEF UNARY_NEG, UNARY_LOG2, UNARY_TRUNC
<1>. HIDE DEF w
<1>4. WordFields(w)  BY <1>3, WordBits
<1>5. /\ Form(w) = 15 /\ Sub(w) = 4 /\ Bit(w, 15) = 1 /\ Bit(w, 1) = 0
      /\ Bit(w, 0) = (IF u = 0 THEN 1 ELSE 0) /\ Bit(w, 2) = (IF u = 2 THEN 1 ELSE 0)
      /\ Bits(w, 5, 3) = (IF u = 1 THEN 0 ELSE 7)
  <2>1. (w \div 4096) % 16 = 15  BY <1>2, <1>3
  <2>2. (w \div 64) % 64 = 4  BY <1>2, <1>3
  <2>3. (w \div 32768) % 2 = 1  BY <1>2, <1>3
  <2>4. (w \div 2) % 2 = 0  BY <1>2, <1>3
  <2>5. w % 2 = (IF u = 0 THEN 1 ELSE 0)  BY <1>2, <1>3
  <2>6. (w \div 4) % 2 = (IF u = 2 THEN 1 ELSE 0)  BY <1>2, <1>3
  <2>7. (w \div 8) % 8 = (IF u = 1 THEN 0 ELSE 7)  BY <1>2, <1>3
  <2>. QED BY <1>4, <2>1, <2>2, <2>3, <2>4, <2>5, <2>6, <2>7 DEF WordFields
<1>6. NoAccess(w)
  BY <1>5 DEF NoAccess, IsOpIrs, IsMovReg, IsMovCell, IsOp, IsCmp, IsMovData, IsMovMem
<1>7. SelectA(w) = MUX1_RESULT
  BY <1>5, <1>6 DEF NoAccess, SelectA, MUX1_RESULT
<1>8. /\ Command(w) = (IF u = UNARY_LOG2 THEN CMD_LOG2 ELSE CMD_INVALID)
      /\ Commands(i) = (IF u = UNARY_LOG2 THEN CMD_LOG2 ELSE CMD_INVALID)
  BY <1>1, <1>3, <1>5, <1>6
     DEF NoAccess, Command, Commands, IsUnary, CMD_LOG2, CMD_INVALID, UNARY_NEG, UNARY_LOG2, UNARY_TRUNC
<1>9. /\ d.curPc = code.pc /\ d.cmd = Command(w) /\ ~d.goto /\ ~d.gotoConst /\ ~d.load /\ ~d.cmp
      /\ (d.neg <=> u = UNARY_NEG) /\ (d.trunc <=> u = UNARY_TRUNC) /\ ~d.loop /\ ~d.busLock
      /\ ~d.busUnlock
  <2>1. ~IsCmp(w)  BY <1>6 DEF NoAccess
  <2>2. /\ ~(Form(w) = 10) /\ ~IsGoto(w) /\ ~IsLoad(w) /\ IsUnary(w) /\ ~IsSignal(w)
        /\ ~(Form(w) = 15 /\ Sub(w) = 5) /\ (Bit(w, 0) = 1 <=> u = UNARY_NEG)
        /\ (Bit(w, 2) = 1 <=> u = UNARY_TRUNC)
    BY <1>3, <1>5
       DEF IsGoto, IsLoad, IsUnary, IsSignal, Form, UNARY_NEG, UNARY_TRUNC, UNARY_LOG2, BUS_LOCK, BUS_UNLOCK
  <2>. QED BY <1>3, <1>5, <2>1, <2>2, DecodeIs DEF w
<1>10. OperandsDecoded(d, i, s)  BY <1>1, <1>3, <1>6, <1>7, NoOperands DEF w
<1>11. EffectDecoded(d, i, code.pc)
  <2>. HIDE DEF d
  <2>. QED BY <1>1, <1>3, <1>8, <1>9 DEF EffectDecoded
<1>. QED BY <1>3, <1>10, <1>11 DEF DecodesTo, w

\* A signal to the bus.
LEMMA DecodedSignal ==
    ASSUME NEW mode \in {WAIT_ALL, WAIT_SIG, BUS_LOCK, BUS_UNLOCK},
           NEW i, i = <<"signal", mode>>, NEW code, code.data = Word(i), NEW s
    PROVE  Word(i) \in Nat /\ DecodesTo(Decode(code, s), i, code.pc, s)
<1>. DEFINE w == Word(i)
            d == Decode(code, s)
<1>1. /\ i[1] = "signal" /\ i[2] = mode
  OBVIOUS
<1>2. w = 61632 + (IF mode = 0 THEN 4 ELSE IF mode = 1 THEN 8 ELSE IF mode = 2 THEN 16 ELSE 32)
  <2>1. 2^0 = 1 /\ 2^1 = 2 /\ 2^2 = 4 /\ 2^3 = 8  BY SMT
  <2>2. mode = 0 \/ mode = 1 \/ mode = 2 \/ mode = 3  BY DEF WAIT_ALL, WAIT_SIG, BUS_LOCK, BUS_UNLOCK
  <2>3. w = 61632 + 2^mode * 4  BY <1>1 DEF Word, SignalCreate, SignalCode
  <2>4. CASE mode = 0  BY <2>1, <2>3, <2>4
  <2>5. CASE mode = 1  BY <2>1, <2>3, <2>5
  <2>6. CASE mode = 2  BY <2>1, <2>3, <2>6
  <2>7. CASE mode = 3  BY <2>1, <2>3, <2>7
  <2>. QED BY <2>2, <2>4, <2>5, <2>6, <2>7
<1>3. w \in Nat /\ mode \in 0 .. 3  BY <1>2 DEF WAIT_ALL, WAIT_SIG, BUS_LOCK, BUS_UNLOCK
<1>. HIDE DEF w
<1>4. WordFields(w)  BY <1>3, WordBits
<1>5. /\ Form(w) = 15 /\ Sub(w) = 3 /\ Bit(w, 15) = 1 /\ Bit(w, 1) = 0
      /\ Bit(w, 4) = (IF mode = 2 THEN 1 ELSE 0) /\ Bit(w, 5) = (IF mode = 3 THEN 1 ELSE 0)
  <2>1. (w \div 4096) % 16 = 15  BY <1>2, <1>3
  <2>2. (w \div 64) % 64 = 3  BY <1>2, <1>3
  <2>3. (w \div 32768) % 2 = 1  BY <1>2, <1>3
  <2>4. (w \div 2) % 2 = 0  BY <1>2, <1>3
  <2>5. (w \div 16) % 2 = (IF mode = 2 THEN 1 ELSE 0)  BY <1>2, <1>3
  <2>6. (w \div 32) % 2 = (IF mode = 3 THEN 1 ELSE 0)  BY <1>2, <1>3
  <2>. QED BY <1>4, <2>1, <2>2, <2>3, <2>4, <2>5, <2>6 DEF WordFields
<1>6. NoAccess(w)
  BY <1>5 DEF NoAccess, IsOpIrs, IsMovReg, IsMovCell, IsOp, IsCmp, IsMovData, IsMovMem
<1>7. SelectA(w) = MUX1_RESULT
  BY <1>5, <1>6 DEF NoAccess, SelectA, MUX1_RESULT
<1>8. Command(w) = CMD_MOV /\ Commands(i) = CMD_MOV
  BY <1>1, <1>3, <1>5, <1>6
     DEF NoAccess, Command, Commands, IsUnary, CMD_LOG2, CMD_INVALID, UNARY_NEG, UNARY_LOG2, UNARY_TRUNC
<1>9. /\ d.curPc = code.pc /\ d.cmd = Command(w) /\ ~d.goto /\ ~d.gotoConst /\ ~d.load /\ ~d.cmp
      /\ ~d.neg /\ ~d.trunc /\ ~d.loop /\ (d.busLock <=> mode = BUS_LOCK)
      /\ (d.busUnlock <=> mode = BUS_UNLOCK)
  <2>1. ~IsCmp(w)  BY <1>6 DEF NoAccess
  <2>2. /\ ~(Form(w) = 10) /\ ~IsGoto(w) /\ ~IsLoad(w) /\ ~IsUnary(w) /\ IsSignal(w)
        /\ ~(Form(w) = 15 /\ Sub(w) = 5) /\ (Bit(w, 4) = 1 <=> mode = BUS_LOCK)
        /\ (Bit(w, 5) = 1 <=> mode = BUS_UNLOCK)
    BY <1>3, <1>5
       DEF IsGoto, IsLoad, IsUnary, IsSignal, Form, UNARY_NEG, UNARY_TRUNC, UNARY_LOG2, BUS_LOCK, BUS_UNLOCK
  <2>. QED BY <1>3, <1>5, <2>1, <2>2, DecodeIs DEF w
<1>10. OperandsDecoded(d, i, s)  BY <1>1, <1>3, <1>6, <1>7, NoOperands DEF w
<1>11. EffectDecoded(d, i, code.pc)
  <2>. HIDE DEF d
  <2>. QED BY <1>1, <1>3, <1>8, <1>9 DEF EffectDecoded
<1>. QED BY <1>3, <1>10, <1>11 DEF DecodesTo, w

\* The begin of a hardware loop.
LEMMA DecodedLoop ==
    ASSUME NEW i, i = <<"loop">>, NEW code, code.data = Word(i), NEW s
    PROVE  Word(i) \in Nat /\ DecodesTo(Decode(code, s), i, code.pc, s)
<1>. DEFINE w == Word(i)
            d == Decode(code, s)
<1>1. /\ i[1] = "loop"
  OBVIOUS
<1>2. w = 61760
  BY <1>1 DEF Word, LoopCreate, LoopCode
<1>3. w \in Nat  BY <1>2
<1>. HIDE DEF w
<1>4. WordFields(w)  BY <1>3, WordBits
<1>5. /\ Form(w) = 15 /\ Sub(w) = 5 /\ Bit(w, 15) = 1 /\ Bit(w, 1) = 0
  <2>1. (w \div 4096) % 16 = 15  BY <1>2, <1>3
  <2>2. (w \div 64) % 64 = 5  BY <1>2, <1>3
  <2>3. (w \div 32768) % 2 = 1  BY <1>2, <1>3
  <2>4. (w \div 2) % 2 = 0  BY <1>2, <1>3
  <2>. QED BY <1>4, <2>1, <2>2, <2>3, <2>4 DEF WordFields
<1>6. NoAccess(w)
  BY <1>5 DEF NoAccess, IsOpIrs, IsMovReg, IsMovCell, IsOp, IsCmp, IsMovData, IsMovMem
<1>7. SelectA(w) = MUX1_RESULT
  BY <1>5, <1>6 DEF NoAccess, SelectA, MUX1_RESULT
<1>8. Command(w) = CMD_MOV /\ Commands(i) = CMD_MOV
  BY <1>1, <1>3, <1>5, <1>6
     DEF NoAccess, Command, Commands, IsUnary, CMD_LOG2, CMD_INVALID, UNARY_NEG, UNARY_LOG2, UNARY_TRUNC
<1>9. /\ d.curPc = code.pc /\ d.cmd = Command(w) /\ ~d.goto /\ ~d.gotoConst /\ ~d.load /\ ~d.cmp
      /\ ~d.neg /\ ~d.trunc /\ d.loop /\ ~d.busLock /\ ~d.busUnlock
  <2>1. ~IsCmp(w)  BY <1>6 DEF NoAccess
  <2>2. /\ ~(Form(w) = 10) /\ ~IsGoto(w) /\ ~IsLoad(w) /\ ~IsUnary(w) /\ ~IsSignal(w) /\ Form(w) = 15
        /\ Sub(w) = 5
    BY <1>3, <1>5
       DEF IsGoto, IsLoad, IsUnary, IsSignal, Form, UNARY_NEG, UNARY_TRUNC, UNARY_LOG2, BUS_LOCK, BUS_UNLOCK
  <2>. QED BY <1>3, <1>5, <2>1, <2>2, DecodeIs DEF w
<1>10. OperandsDecoded(d, i, s)  BY <1>1, <1>3, <1>6, <1>7, NoOperands DEF w
<1>11. EffectDecoded(d, i, code.pc)
  <2>. HIDE DEF d
  <2>. QED BY <1>1, <1>3, <1>8, <1>9 DEF EffectDecoded
<1>. QED BY <1>3, <1>10, <1>11 DEF DecodesTo, w

\* A word without effect.
LEMMA DecodedNop ==
    ASSUME NEW i, i = <<"nop">>, NEW code, code.data = Word(i), NEW s
    PROVE  Word(i) \in Nat /\ DecodesTo(Decode(code, s), i, code.pc, s)
<1>. DEFINE w == Word(i)
            d == Decode(code, s)
<1>1. /\ i[1] = "nop"
  OBVIOUS
<1>2. w = 65535
  BY <1>1 DEF Word, NopCode
<1>3. w \in Nat  BY <1>2
<1>. HIDE DEF w
<1>4. WordFields(w)  BY <1>3, WordBits
<1>5. /\ Form(w) = 15 /\ Sub(w) = 63 /\ Bit(w, 15) = 1
  <2>1. (w \div 4096) % 16 = 15  BY <1>2, <1>3
  <2>2. (w \div 64) % 64 = 63  BY <1>2, <1>3
  <2>3. (w \div 32768) % 2 = 1  BY <1>2, <1>3
  <2>. QED BY <1>4, <2>1, <2>2, <2>3 DEF WordFields
<1>6. NoAccess(w)
  BY <1>5 DEF NoAccess, IsOpIrs, IsMovReg, IsMovCell, IsOp, IsCmp, IsMovData, IsMovMem
<1>7. SelectA(w) = MUX1_RESULT
  BY <1>5, <1>6 DEF NoAccess, SelectA, MUX1_RESULT
<1>8. Command(w) = CMD_MOV /\ Commands(i) = CMD_MOV
  BY <1>1, <1>3, <1>5, <1>6
     DEF NoAccess, Command, Commands, IsUnary, CMD_LOG2, CMD_INVALID, UNARY_NEG, UNARY_LOG2, UNARY_TRUNC
<1>9. /\ d.curPc = code.pc /\ d.cmd = Command(w) /\ ~d.goto /\ ~d.gotoConst /\ ~d.load /\ ~d.cmp
      /\ ~d.neg /\ ~d.trunc /\ ~d.loop /\ ~d.busLock /\ ~d.busUnlock
  <2>1. ~IsCmp(w)  BY <1>6 DEF NoAccess
  <2>2. /\ ~(Form(w) = 10) /\ ~IsGoto(w) /\ ~IsLoad(w) /\ ~IsUnary(w) /\ ~IsSignal(w)
        /\ ~(Form(w) = 15 /\ Sub(w) = 5)
    BY <1>3, <1>5
       DEF IsGoto, IsLoad, IsUnary, IsSignal, Form, UNARY_NEG, UNARY_TRUNC, UNARY_LOG2, BUS_LOCK, BUS_UNLOCK
  <2>. QED BY <1>3, <1>5, <2>1, <2>2, DecodeIs DEF w
<1>10. OperandsDecoded(d, i, s)  BY <1>1, <1>3, <1>6, <1>7, NoOperands DEF w
<1>11. EffectDecoded(d, i, code.pc)
  <2>. HIDE DEF d
  <2>. QED BY <1>1, <1>3, <1>8, <1>9 DEF EffectDecoded
<1>. QED BY <1>3, <1>10, <1>11 DEF DecodesTo, w

-----------------------------------------------------------------------------
(* All of them.                                                            *)

\* The kinds of instruction, and what the parts of each can be.
IsStore(i) == i[1] = "mov" /\ i[2] \in {IRS, DEREF_AD0, DEREF_AD1} /\ i[3] = REG_RES
IsWrite(i) == /\ i[1] = "mov" /\ i[2] \in {REG_AD0, REG_AD1, REG_IRS, REG_RES}
              /\ i[3] \in {IRS, REG_RES, DEREF_AD0, DEREF_AD1}
              /\ Deref(i[3]) <=> i[2] = REG_RES /\ i[3] # IRS
IsCalculation(i) == /\ i[1] = "op" /\ i[2] \in {REG_RES, DEREF_AD0} /\ i[3] \in {IRS, REG_RES, DEREF_AD0, DEREF_AD1}
                    /\ i[4] \in Operations /\ i[5] \in Nat /\ i[6] \in BOOLEAN /\ i[7] \in BOOLEAN
                    /\ i[3] = REG_RES => i[2] = REG_RES /\ i[4] = CMD_MAC_RES
Kind(i) ==
    \/ (IsStore(i) \/ IsWrite(i)) /\ i[4] \in Nat /\ i[5] \in BOOLEAN
    \/ IsCalculation(i)
    \/ i[1] = "cmp" /\ i[2] \in CMP_EQ .. CMP_LE /\ i[3] \in Nat
    \/ i[1] = "goto" /\ i[2] \in Int
    \/ i[1] = "load" /\ i[2] \in Nat
    \/ i[1] = "unary" /\ i[2] \in {UNARY_NEG, UNARY_LOG2, UNARY_TRUNC}
    \/ i[1] = "signal" /\ i[2] \in {WAIT_ALL, WAIT_SIG, BUS_LOCK, BUS_UNLOCK}
    \/ i[1] \in {"gotor", "loop", "nop"}

\* Every instruction is of one of the kinds.
LEMMA Kinds == ASSUME NEW i \in Instructions PROVE Kind(i)
<1>1. ASSUME i \in Moves PROVE Kind(i)
  <2>1. ASSUME i \in {<<"mov", IRS, REG_RES, k, NoInc>> : k \in Offsets} PROVE Kind(i)
    <3>1. PICK k \in Offsets : i = <<"mov", IRS, REG_RES, k, NoInc>>
        BY <2>1, SMT
    <3>. QED BY <3>1
             DEF Kind, IsStore, IsWrite, Deref, IRS, REG_RES, DEREF_AD0, DEREF_AD1, Pointers, Offsets,
                 REG_AD0, REG_AD1, REG_IRS, NoInc
  <2>2. ASSUME i \in {<<"mov", r, IRS, k, NoInc>> : r \in {REG_AD0, REG_AD1, REG_IRS, REG_RES}, k \in Offsets}
        PROVE Kind(i)
    <3>1. PICK r \in {REG_AD0, REG_AD1, REG_IRS, REG_RES}, k \in Offsets : i = <<"mov", r, IRS, k, NoInc>>
        BY <2>2, SMT
    <3>. QED BY <3>1
             DEF Kind, IsStore, IsWrite, Deref, IRS, REG_RES, DEREF_AD0, DEREF_AD1, Pointers, Offsets,
                 REG_AD0, REG_AD1, REG_IRS, NoInc
  <2>3. ASSUME i \in {<<"mov", r, REG_RES, 0, NoInc>> : r \in {REG_AD0, REG_AD1, REG_IRS}} PROVE Kind(i)
    <3>1. PICK r \in {REG_AD0, REG_AD1, REG_IRS} : i = <<"mov", r, REG_RES, 0, NoInc>>
        BY <2>3, SMT
    <3>. QED BY <3>1
             DEF Kind, IsStore, IsWrite, Deref, IRS, REG_RES, DEREF_AD0, DEREF_AD1, Pointers, Offsets,
                 REG_AD0, REG_AD1, REG_IRS, NoInc
  <2>4. ASSUME i \in {<<"mov", a, REG_RES, 0, inc>> : a \in Pointers, inc \in BOOLEAN} PROVE Kind(i)
    <3>1. PICK a \in Pointers, inc \in BOOLEAN : i = <<"mov", a, REG_RES, 0, inc>>
        BY <2>4, SMT
    <3>. QED BY <3>1
             DEF Kind, IsStore, IsWrite, Deref, IRS, REG_RES, DEREF_AD0, DEREF_AD1, Pointers, Offsets,
                 REG_AD0, REG_AD1, REG_IRS, NoInc
  <2>5. ASSUME i \in {<<"mov", REG_RES, a, 0, inc>> : a \in Pointers, inc \in BOOLEAN} PROVE Kind(i)
    <3>1. PICK a \in Pointers, inc \in BOOLEAN : i = <<"mov", REG_RES, a, 0, inc>>
        BY <2>5, SMT
    <3>. QED BY <3>1
             DEF Kind, IsStore, IsWrite, Deref, IRS, REG_RES, DEREF_AD0, DEREF_AD1, Pointers, Offsets,
                 REG_AD0, REG_AD1, REG_IRS, NoInc
  <2>6. \/ i \in {<<"mov", IRS, REG_RES, k, NoInc>> : k \in Offsets}
        \/ i \in {<<"mov", r, IRS, k, NoInc>> : r \in {REG_AD0, REG_AD1, REG_IRS, REG_RES}, k \in Offsets}
        \/ i \in {<<"mov", r, REG_RES, 0, NoInc>> : r \in {REG_AD0, REG_AD1, REG_IRS}}
        \/ i \in {<<"mov", a, REG_RES, 0, inc>> : a \in Pointers, inc \in BOOLEAN}
        \/ i \in {<<"mov", REG_RES, a, 0, inc>> : a \in Pointers, inc \in BOOLEAN}
    BY <1>1, SMT DEF Moves
  <2>. QED BY <2>1, <2>2, <2>3, <2>4, <2>5, <2>6, SMT
<1>2. ASSUME i \in Calculations PROVE Kind(i)
  <2>1. ASSUME i \in {<<"op", REG_RES, IRS, c, k, NoInc, NoInc>> : c \in Operations, k \in Offsets}
        PROVE Kind(i)
    <3>1. PICK c \in Operations, k \in Offsets : i = <<"op", REG_RES, IRS, c, k, NoInc, NoInc>>
        BY <2>1, SMT
    <3>. QED BY <3>1 DEF Kind, IsCalculation, Pointers, Offsets, NoInc, REG_RES, DEREF_AD0, DEREF_AD1, IRS
  <2>2. ASSUME i \in {<<"op", DEREF_AD0, IRS, c, k, inc, NoInc>> :
                         c \in Operations \ {CMD_LOG2, CMD_SHFT}, k \in Offsets, inc \in BOOLEAN}
        PROVE Kind(i)
    <3>1. PICK c \in Operations \ {CMD_LOG2, CMD_SHFT}, k \in Offsets, inc \in BOOLEAN :
            i = <<"op", DEREF_AD0, IRS, c, k, inc, NoInc>>
        BY <2>2, SMT
    <3>. QED BY <3>1 DEF Kind, IsCalculation, Pointers, Offsets, NoInc, REG_RES, DEREF_AD0, DEREF_AD1, IRS
  <2>3. ASSUME i \in {<<"op", REG_RES, b, c, 0, inc, NoInc>> : b \in Pointers, c \in Operations, inc \in BOOLEAN}
        PROVE Kind(i)
    <3>1. PICK b \in Pointers, c \in Operations, inc \in BOOLEAN : i = <<"op", REG_RES, b, c, 0, inc, NoInc>>
        BY <2>3, SMT
    <3>. QED BY <3>1 DEF Kind, IsCalculation, Pointers, Offsets, NoInc, REG_RES, DEREF_AD0, DEREF_AD1, IRS
  <2>4. ASSUME i \in {<<"op", DEREF_AD0, b, c, 0, inc, inc2>> :
                         b \in Pointers, c \in Operations, inc \in BOOLEAN, inc2 \in BOOLEAN}
        PROVE Kind(i)
    <3>1. PICK b \in Pointers, c \in Operations, inc \in BOOLEAN, inc2 \in BOOLEAN :
            i = <<"op", DEREF_AD0, b, c, 0, inc, inc2>>
        BY <2>4, SMT
    <3>. QED BY <3>1 DEF Kind, IsCalculation, Pointers, Offsets, NoInc, REG_RES, DEREF_AD0, DEREF_AD1, IRS
  <2>5. ASSUME i = <<"op", REG_RES, REG_RES, CMD_MAC_RES, 0, NoInc, NoInc>> PROVE Kind(i)
    BY <2>5 DEF Kind, IsCalculation, Pointers, Offsets, NoInc, Operations, REG_RES
  <2>6. \/ i \in {<<"op", REG_RES, IRS, c, k, NoInc, NoInc>> : c \in Operations, k \in Offsets}
        \/ i \in {<<"op", DEREF_AD0, IRS, c, k, inc, NoInc>> :
                     c \in Operations \ {CMD_LOG2, CMD_SHFT}, k \in Offsets, inc \in BOOLEAN}
        \/ i \in {<<"op", REG_RES, b, c, 0, inc, NoInc>> : b \in Pointers, c \in Operations, inc \in BOOLEAN}
        \/ i \in {<<"op", DEREF_AD0, b, c, 0, inc, inc2>> :
                     b \in Pointers, c \in Operations, inc \in BOOLEAN, inc2 \in BOOLEAN}
        \/ i = <<"op", REG_RES, REG_RES, CMD_MAC_RES, 0, NoInc, NoInc>>
    BY <1>2, SMT DEF Calculations
  <2>. QED BY <2>1, <2>2, <2>3, <2>4, <2>5, <2>6, SMT
<1>3. ASSUME i \in {<<"cmp", mode, k>> : mode \in CMP_EQ .. CMP_LE, k \in Offsets} PROVE Kind(i)
  <2>1. PICK mode \in CMP_EQ .. CMP_LE, k \in Offsets : i = <<"cmp", mode, k>>
      BY <1>3, SMT
  <2>. QED BY <2>1 DEF Kind, Offsets
<1>4. ASSUME i \in {<<"goto", distance>> : distance \in -512 .. 511} PROVE Kind(i)
  <2>1. PICK distance \in -512 .. 511 : i = <<"goto", distance>>
      BY <1>4, SMT
  <2>. QED BY <2>1 DEF Kind
<1>5. ASSUME i = <<"gotor">> PROVE Kind(i)
  BY <1>5 DEF Kind
<1>6. ASSUME i \in {<<"load", data>> : data \in Fragments} PROVE Kind(i)
  <2>1. PICK data \in Fragments : i = <<"load", data>>
      BY <1>6, SMT
  <2>. QED BY <2>1 DEF Kind, Fragments
<1>7. ASSUME i \in {<<"unary", u>> : u \in {UNARY_NEG, UNARY_LOG2, UNARY_TRUNC}} PROVE Kind(i)
  <2>1. PICK u \in {UNARY_NEG, UNARY_LOG2, UNARY_TRUNC} : i = <<"unary", u>>
      BY <1>7, SMT
  <2>. QED BY <2>1 DEF Kind
<1>8. ASSUME i \in {<<"signal", mode>> : mode \in {WAIT_ALL, WAIT_SIG, BUS_LOCK, BUS_UNLOCK}} PROVE Kind(i)
  <2>1. PICK mode \in {WAIT_ALL, WAIT_SIG, BUS_LOCK, BUS_UNLOCK} : i = <<"signal", mode>>
      BY <1>8, SMT
  <2>. QED BY <2>1 DEF Kind
<1>9. ASSUME i = <<"loop">> PROVE Kind(i)
  BY <1>9 DEF Kind
<1>10. ASSUME i = <<"nop">> PROVE Kind(i)
  BY <1>10 DEF Kind
<1>11. \/ i \in Moves \/ i \in Calculations
      \/ i \in {<<"cmp", mode, k>> : mode \in CMP_EQ .. CMP_LE, k \in Offsets}
      \/ i \in {<<"goto", distance>> : distance \in -512 .. 511}
      \/ i = <<"gotor">>
      \/ i \in {<<"load", data>> : data \in Fragments}
      \/ i \in {<<"unary", u>> : u \in {UNARY_NEG, UNARY_LOG2, UNARY_TRUNC}}
      \/ i \in {<<"signal", mode>> : mode \in {WAIT_ALL, WAIT_SIG, BUS_LOCK, BUS_UNLOCK}}
      \/ i = <<"loop">>
      \/ i = <<"nop">>
  BY SMT DEF Instructions
<1>. QED BY <1>1, <1>2, <1>3, <1>4, <1>5, <1>6, <1>7, <1>8, <1>9, <1>10, <1>11, SMT

\* Every instruction has a code, and the decoder reads it back.
THEOREM Decoded ==
    ASSUME NEW i \in Instructions, NEW code, code.data = Word(i), code.pc \in Nat, NEW s
    PROVE  Word(i) \in Nat /\ DecodesTo(Decode(code, s), i, code.pc, s)
<1>. DEFINE Reads == Word(i) \in Nat /\ DecodesTo(Decode(code, s), i, code.pc, s)
<1>1. ASSUME i \in Moves PROVE Reads
  <2>1. ASSUME i \in {<<"mov", IRS, REG_RES, k, NoInc>> : k \in Offsets} PROVE Reads
    <3>1. PICK k \in Offsets : i = <<"mov", IRS, REG_RES, k, NoInc>>
      BY <2>1, SMT
    <3>. QED BY <3>1, DecodedToCell DEF NoInc
  <2>2. ASSUME i \in {<<"mov", r, IRS, k, NoInc>> : r \in {REG_AD0, REG_AD1, REG_IRS, REG_RES}, k \in Offsets}
        PROVE Reads
    <3>1. PICK r \in {REG_AD0, REG_AD1, REG_IRS, REG_RES}, k \in Offsets : i = <<"mov", r, IRS, k, NoInc>>
      BY <2>2, SMT
    <3>. QED BY <3>1, DecodedFromCell DEF NoInc
  <2>3. ASSUME i \in {<<"mov", r, REG_RES, 0, NoInc>> : r \in {REG_AD0, REG_AD1, REG_IRS}} PROVE Reads
    <3>1. PICK r \in {REG_AD0, REG_AD1, REG_IRS} : i = <<"mov", r, REG_RES, 0, NoInc>>
      BY <2>3, SMT
    <3>. QED BY <3>1, DecodedToRegister DEF NoInc
  <2>4. ASSUME i \in {<<"mov", a, REG_RES, 0, inc>> : a \in Pointers, inc \in BOOLEAN} PROVE Reads
    <3>1. PICK a \in Pointers, inc \in BOOLEAN : i = <<"mov", a, REG_RES, 0, inc>>
      BY <2>4, SMT
    <3>. QED BY <3>1, DecodedToPointer DEF NoInc
  <2>5. ASSUME i \in {<<"mov", REG_RES, a, 0, inc>> : a \in Pointers, inc \in BOOLEAN} PROVE Reads
    <3>1. PICK a \in Pointers, inc \in BOOLEAN : i = <<"mov", REG_RES, a, 0, inc>>
      BY <2>5, SMT
    <3>. QED BY <3>1, DecodedFromPointer DEF NoInc
  <2>6. \/ i \in {<<"mov", IRS, REG_RES, k, NoInc>> : k \in Offsets}
        \/ i \in {<<"mov", r, IRS, k, NoInc>> : r \in {REG_AD0, REG_AD1, REG_IRS, REG_RES}, k \in Offsets}
        \/ i \in {<<"mov", r, REG_RES, 0, NoInc>> : r \in {REG_AD0, REG_AD1, REG_IRS}}
        \/ i \in {<<"mov", a, REG_RES, 0, inc>> : a \in Pointers, inc \in BOOLEAN}
        \/ i \in {<<"mov", REG_RES, a, 0, inc>> : a \in Pointers, inc \in BOOLEAN}
    BY <1>1, SMT DEF Moves
  <2>. HIDE DEF Reads
  <2>. QED BY <2>1, <2>2, <2>3, <2>4, <2>5, <2>6, SMT
<1>2. ASSUME i \in Calculations PROVE Reads
  <2>1. ASSUME i \in {<<"op", REG_RES, IRS, c, k, NoInc, NoInc>> : c \in Operations, k \in Offsets}
        PROVE Reads
    <3>1. PICK c \in Operations, k \in Offsets : i = <<"op", REG_RES, IRS, c, k, NoInc, NoInc>>
      BY <2>1, SMT
    <3>. QED BY <3>1, DecodedCellOp DEF NoInc
  <2>2. ASSUME i \in {<<"op", DEREF_AD0, IRS, c, k, inc, NoInc>> :
                         c \in Operations \ {CMD_LOG2, CMD_SHFT}, k \in Offsets, inc \in BOOLEAN}
        PROVE Reads
    <3>1. PICK c \in Operations \ {CMD_LOG2, CMD_SHFT}, k \in Offsets, inc \in BOOLEAN :
            i = <<"op", DEREF_AD0, IRS, c, k, inc, NoInc>>
      BY <2>2, SMT
    <3>. QED BY <3>1, DecodedPointerCellOp DEF NoInc
  <2>3. ASSUME i \in {<<"op", REG_RES, b, c, 0, inc, NoInc>> : b \in Pointers, c \in Operations, inc \in BOOLEAN}
        PROVE Reads
    <3>1. PICK b \in Pointers, c \in Operations, inc \in BOOLEAN : i = <<"op", REG_RES, b, c, 0, inc, NoInc>>
      BY <2>3, SMT
    <3>. QED BY <3>1, DecodedPointerOp DEF NoInc
  <2>4. ASSUME i \in {<<"op", DEREF_AD0, b, c, 0, inc, inc2>> :
                         b \in Pointers, c \in Operations, inc \in BOOLEAN, inc2 \in BOOLEAN}
        PROVE Reads
    <3>1. PICK b \in Pointers, c \in Operations, inc \in BOOLEAN, inc2 \in BOOLEAN :
            i = <<"op", DEREF_AD0, b, c, 0, inc, inc2>>
      BY <2>4, SMT
    <3>. QED BY <3>1, DecodedPointersOp DEF NoInc
  <2>5. ASSUME i = <<"op", REG_RES, REG_RES, CMD_MAC_RES, 0, NoInc, NoInc>> PROVE Reads
    BY <2>5, DecodedSum DEF NoInc
  <2>6. \/ i \in {<<"op", REG_RES, IRS, c, k, NoInc, NoInc>> : c \in Operations, k \in Offsets}
        \/ i \in {<<"op", DEREF_AD0, IRS, c, k, inc, NoInc>> :
                     c \in Operations \ {CMD_LOG2, CMD_SHFT}, k \in Offsets, inc \in BOOLEAN}
        \/ i \in {<<"op", REG_RES, b, c, 0, inc, NoInc>> : b \in Pointers, c \in Operations, inc \in BOOLEAN}
        \/ i \in {<<"op", DEREF_AD0, b, c, 0, inc, inc2>> :
                     b \in Pointers, c \in Operations, inc \in BOOLEAN, inc2 \in BOOLEAN}
        \/ i = <<"op", REG_RES, REG_RES, CMD_MAC_RES, 0, NoInc, NoInc>>
    BY <1>2, SMT DEF Calculations
  <2>. HIDE DEF Reads
  <2>. QED BY <2>1, <2>2, <2>3, <2>4, <2>5, <2>6, SMT
<1>3. ASSUME i \in {<<"cmp", mode, k>> : mode \in CMP_EQ .. CMP_LE, k \in Offsets} PROVE Reads
  <2>1. PICK mode \in CMP_EQ .. CMP_LE, k \in Offsets : i = <<"cmp", mode, k>>  BY <1>3
  <2>. QED BY <2>1, DecodedCompare
<1>4. ASSUME i \in {<<"goto", distance>> : distance \in -512 .. 511} PROVE Reads
  <2>1. PICK distance \in -512 .. 511 : i = <<"goto", distance>>  BY <1>4
  <2>. QED BY <2>1, DecodedGoto
<1>5. ASSUME i = <<"gotor">> PROVE Reads  BY <1>5, DecodedGotoResult
<1>6. ASSUME i \in {<<"load", data>> : data \in Fragments} PROVE Reads
  <2>1. PICK data \in Fragments : i = <<"load", data>>  BY <1>6
  <2>. QED BY <2>1, DecodedLoad
<1>7. ASSUME i \in {<<"unary", u>> : u \in {UNARY_NEG, UNARY_LOG2, UNARY_TRUNC}} PROVE Reads
  <2>1. PICK u \in {UNARY_NEG, UNARY_LOG2, UNARY_TRUNC} : i = <<"unary", u>>  BY <1>7
  <2>. QED BY <2>1, DecodedUnary
<1>8. ASSUME i \in {<<"signal", mode>> : mode \in {WAIT_ALL, WAIT_SIG, BUS_LOCK, BUS_UNLOCK}} PROVE Reads
  <2>1. PICK mode \in {WAIT_ALL, WAIT_SIG, BUS_LOCK, BUS_UNLOCK} : i = <<"signal", mode>>  BY <1>8
  <2>. QED BY <2>1, DecodedSignal
<1>9. ASSUME i = <<"loop">> PROVE Reads  BY <1>9, DecodedLoop
<1>10. ASSUME i = <<"nop">> PROVE Reads  BY <1>10, DecodedNop
<1>11. \/ i \in Moves \/ i \in Calculations
      \/ i \in {<<"cmp", mode, k>> : mode \in CMP_EQ .. CMP_LE, k \in Offsets}
      \/ i \in {<<"goto", distance>> : distance \in -512 .. 511}
      \/ i = <<"gotor">>
      \/ i \in {<<"load", data>> : data \in Fragments}
      \/ i \in {<<"unary", u>> : u \in {UNARY_NEG, UNARY_LOG2, UNARY_TRUNC}}
      \/ i \in {<<"signal", mode>> : mode \in {WAIT_ALL, WAIT_SIG, BUS_LOCK, BUS_UNLOCK}}
      \/ i = <<"loop">>
      \/ i = <<"nop">>
  BY SMT DEF Instructions
<1>. HIDE DEF Reads
<1>12. Reads
  BY <1>1, <1>2, <1>3, <1>4, <1>5, <1>6, <1>7, <1>8, <1>9, <1>10, <1>11, SMT
<1>. QED BY <1>12 DEF Reads

\* The word out of reset has no effect.
LEMMA DecodedReset ==
    ASSUME NEW code, code.data = 0, NEW s
    PROVE  LET d == Decode(code, s)
           IN  /\ ~d.enMEM /\ ~d.enREG /\ ~d.enADr0 /\ ~d.enADr1 /\ ~d.memEx /\ ~d.inc[1] /\ ~d.inc[2]
               /\ d.cmd = CMD_MOV /\ d.muxA = MUX1_RESULT
               /\ ~d.cmp /\ ~d.load /\ ~d.neg /\ ~d.trunc /\ ~d.goto /\ ~d.gotoConst /\ ~d.loop
               /\ ~d.busLock /\ ~d.busUnlock
<1>. DEFINE w == 0
            d == Decode(code, s)
<1>1. WordFields(w)  BY WordBits
<1>2. /\ Form(w) = 0 /\ Bit(w, 15) = 0 /\ Bits(w, 14, 12) = 0 /\ Bit(w, 1) = 0 /\ Bit(w, 0) = 0
      /\ Bit(w, 11) = 0
  BY <1>1 DEF WordFields
<1>3. w = code.data /\ w \in Nat  OBVIOUS
<1>. HIDE DEF w
<1>4. /\ IsOpIrs(w) /\ ~IsMovReg(w) /\ ~IsMovCell(w) /\ ~IsOp(w) /\ ~IsCmp(w) /\ ~IsMovData(w) /\ ~IsMovMem(w)
      /\ ~IsUnary(w) /\ ~IsSignal(w) /\ ~IsGoto(w) /\ ~IsLoad(w)
  BY <1>2
     DEF IsOpIrs, IsMovReg, IsMovCell, IsOp, IsCmp, IsMovData, IsMovMem, IsUnary, IsSignal, IsGoto, IsLoad,
         Form
<1>5. SelectA(w) = MUX1_RESULT  BY <1>2, <1>4 DEF SelectA, MUX1_RESULT
<1>6. Command(w) = CMD_MOV
  BY <1>2, <1>4, <1>5 DEF Command, FromMem, MUX1_MEM, MUX1_RESULT, CMD_MOV
<1>7. EnIRS(w) /\ ~EnADr0(w) /\ ~EnADr1(w) /\ ~Inc(w, 0) /\ ~Inc(w, 1)
  BY <1>2, <1>4, <1>5 DEF EnIRS, EnADr0, EnADr1, Inc, IncAD, IncAD2, FromMem, MUX1_MEM, MUX1_RESULT
<1>8. ~(Form(w) = 15 /\ Sub(w) = 5) /\ ~(Form(w) = 10)  BY <1>2
<1>. QED BY <1>3, <1>4, <1>5, <1>6, <1>7, <1>8, DecodeIs

=============================================================================
