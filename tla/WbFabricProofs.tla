--------------------------- MODULE WbFabricProofs ---------------------------
(***************************************************************************)
(* Proofs about the interconnect with its masters and slaves, for any      *)
(* number of both, any wiring, any commands and bursts of every length.    *)
(***************************************************************************)
EXTENDS WbFabric, FiniteSetTheorems, SequenceTheorems, WellFoundedInduction, TLAPS

-----------------------------------------------------------------------------
(* The wiring: ports, address ranges and lines.                            *)

\* A non-empty set of naturals has a least member.
LEMMA LeastExists ==
  ASSUME NEW S, S \subseteq Nat, S # {}
  PROVE  \E i \in S : \A j \in S : i <= j
<1>1. PICK i \in S : \A j \in S : ~(<<j, i>> \in OpToRel(<, Nat))
  BY WFMin, NatLessThanWellFounded
<1>2. ASSUME NEW j \in S
      PROVE  i <= j
  <2>1. i \in Nat /\ j \in Nat
    OBVIOUS
  <2>2. j < i => <<j, i>> \in OpToRel(<, Nat)
    BY <2>1, Zenon DEF OpToRel
  <2>3. ~(j < i)
    BY <1>1, <2>2, Zenon
  <2>. QED BY <2>1, <2>3
<1>. QED BY <1>2

LEMMA Wiring ==
  /\ NumMasters \in Nat /\ NumMasters > 0 /\ Masters = 0 .. NumMasters - 1
  /\ IsFiniteSet(Masters) /\ Masters \subseteq Nat
  /\ Len(SlaveMap) \in Nat /\ Slaves = 1 .. Len(SlaveMap)
  /\ \A s \in Slaves : SlaveMap[s].addr \in Nat /\ SlaveMap[s].size \in Nat
                       /\ SlaveMap[s].size > 0 /\ SlaveMap[s].size <= MaxSize
  /\ \A m \in Masters : Connects[m] \subseteq Slaves
  /\ \A s \in Slaves : MastersOf(s) \subseteq Masters /\ MastersOf(s) # {} /\ IsFiniteSet(MastersOf(s))
<1>1. NumMasters \in Nat /\ NumMasters > 0 /\ Masters = 0 .. NumMasters - 1
  BY SlaveMapAssumption DEF Masters
<1>2. IsFiniteSet(Masters) /\ Masters \subseteq Nat
  BY <1>1, FS_Interval
<1>3. Len(SlaveMap) \in Nat /\ Slaves = 1 .. Len(SlaveMap)
  BY SlaveMapAssumption DEF Slaves
<1>4. \A s \in Slaves : SlaveMap[s] \in [addr : Nat, size : 1 .. MaxSize]
  <2>. DEFINE R == [addr : Nat, size : 1 .. MaxSize]
  <2>1. SlaveMap \in Seq(R)  BY SlaveMapAssumption
  <2>. HIDE DEF R
  <2>2. \A s \in 1 .. Len(SlaveMap) : SlaveMap[s] \in R  BY <2>1, ElementOfSeq
  <2>. QED BY <1>3, <2>2 DEF R
<1>5. MaxSize \in Nat
  BY DEF MaxSize
<1>6. \A s \in Slaves : SlaveMap[s].addr \in Nat /\ SlaveMap[s].size \in Nat
                        /\ SlaveMap[s].size > 0 /\ SlaveMap[s].size <= MaxSize
  BY <1>4, <1>5
<1>7. \A s \in Slaves : MastersOf(s) \subseteq Masters /\ MastersOf(s) # {}
  BY SlaveMapAssumption DEF MastersOf
<1>8. \A s \in Slaves : IsFiniteSet(MastersOf(s))
  BY <1>2, <1>7, FS_Subset
<1>9. \A m \in Masters : Connects[m] \subseteq Slaves
  BY SlaveMapAssumption
<1>. QED BY <1>1, <1>2, <1>3, <1>6, <1>7, <1>8, <1>9

\* The masters of a slave take its ports one to one, and no port is left open.
LEMMA Ports ==
  ASSUME NEW s \in Slaves
  PROVE  /\ NumPorts(s) \in Nat /\ NumPorts(s) > 0
         /\ \A m \in MastersOf(s) : PortOf(s, m) \in 0 .. NumPorts(s) - 1 /\ MasterAt(s, PortOf(s, m)) = m
         /\ \A p \in 0 .. NumPorts(s) - 1 : MasterAt(s, p) \in MastersOf(s) /\ PortOf(s, MasterAt(s, p)) = p
<1>. DEFINE M == MastersOf(s)
            Lower(m) == {n \in M : n < m}
            P == 0 .. NumPorts(s) - 1
            f == [m \in M |-> PortOf(s, m)]
<1>1. M \subseteq Nat /\ M # {} /\ IsFiniteSet(M)
  BY Wiring
<1>2. NumPorts(s) \in Nat /\ NumPorts(s) > 0
  <2>1. Cardinality(M) \in Nat  BY <1>1, FS_CardinalityType
  <2>2. Cardinality(M) # 0  BY <1>1, FS_EmptySet
  <2>. QED BY <2>1, <2>2 DEF NumPorts
<1>3. \A m \in M : IsFiniteSet(Lower(m)) /\ Cardinality(Lower(m)) \in Nat
  <2>1. \A m \in M : Lower(m) \in SUBSET M  OBVIOUS
  <2>. QED BY <1>1, <2>1, FS_Subset, FS_CardinalityType
<1>4. ASSUME NEW m \in M PROVE PortOf(s, m) \in P
  <2>1. Lower(m) \in SUBSET M /\ Lower(m) # M  BY <1>1
  <2>2. Cardinality(Lower(m)) <= Cardinality(M) /\ Cardinality(Lower(m)) # Cardinality(M)
    BY <1>1, <2>1, FS_Subset
  <2>. QED BY <1>2, <1>3, <2>2 DEF NumPorts, PortOf
<1>5. ASSUME NEW m \in M, NEW n \in M, m < n PROVE PortOf(s, m) # PortOf(s, n)
  <2>1. Lower(m) \in SUBSET Lower(n) /\ m \in Lower(n) /\ m \notin Lower(m)
    BY <1>1, <1>5
  <2>2. Lower(m) # Lower(n)  BY <2>1
  <2>3. Cardinality(Lower(n)) # Cardinality(Lower(m))
    BY <1>3, <2>1, <2>2, FS_Subset
  <2>. QED BY <2>3 DEF PortOf
<1>6. f \in Injection(M, P)
  <2>1. f \in [M -> P]  BY <1>4
  <2>2. \A m, n \in M : m # n => m < n \/ n < m  BY <1>1
  <2>3. \A m, n \in M : f[m] = f[n] => m = n  BY <1>5, <2>2
  <2>. QED BY <2>1, <2>3 DEF Injection, IsInjective
<1>7. IsFiniteSet(P) /\ Cardinality(P) = NumPorts(s)
  BY <1>2, FS_Interval
<1>8. f \in Surjection(M, P)
  BY <1>1, <1>6, <1>7, FS_Injection DEF NumPorts
<1>9. ASSUME NEW p \in P PROVE MasterAt(s, p) \in M /\ PortOf(s, MasterAt(s, p)) = p
  <2>1. \E m \in M : PortOf(s, m) = p  BY <1>8 DEF Surjection
  <2>2. MasterAt(s, p) = CHOOSE m \in M : PortOf(s, m) = p  BY DEF MasterAt, PortMap
  <2>. QED BY <2>1, <2>2
<1>10. ASSUME NEW m \in M PROVE MasterAt(s, PortOf(s, m)) = m
  <2>1. MasterAt(s, PortOf(s, m)) \in M /\ PortOf(s, MasterAt(s, PortOf(s, m))) = PortOf(s, m)
    BY <1>4, <1>9
  <2>2. \A k, n \in M : k # n => k < n \/ n < k  BY <1>1
  <2>. QED BY <1>5, <2>1, <2>2
<1>. QED BY <1>2, <1>4, <1>9, <1>10

\* The ranges of two slaves do not meet.
LEMMA RangesApart ==
  ASSUME NEW s \in Slaves, NEW t \in Slaves, NEW a \in Nat, InRange(s, a), InRange(t, a)
  PROVE  s = t
<1>1. ASSUME NEW i \in Slaves, NEW j \in Slaves, i < j
      PROVE  SlaveMap[i].addr + SlaveMap[i].size <= SlaveMap[j].addr
  <2>. DEFINE bad == {k \in Slaves : i < k /\ ~(SlaveMap[i].addr + SlaveMap[i].size <= SlaveMap[k].addr)}
  <2>0. Slaves = 1 .. Len(SlaveMap) /\ Len(SlaveMap) \in Nat  BY Wiring
  <2>1. SUFFICES ASSUME bad # {} PROVE FALSE
    BY <1>1
  <2>2. PICK k \in bad : \A l \in bad : k <= l
    <3>1. bad \subseteq Nat  BY <2>0
    <3>. HIDE DEF bad
    <3>. QED BY <2>1, <3>1, LeastExists
  <2>3. k - 1 \in Slaves /\ k \in Slaves \ {1} /\ i <= k - 1 /\ ~(k <= k - 1)
    BY <2>0, <2>2, <1>1
  <2>4. SlaveMap[k-1].addr + SlaveMap[k-1].size <= SlaveMap[k].addr
    BY <2>3, SlaveMapAssumption
  <2>5. k - 1 \notin bad
    BY <2>2, <2>3
  <2>6. i = k - 1 \/ SlaveMap[i].addr + SlaveMap[i].size <= SlaveMap[k-1].addr
    BY <2>0, <2>3, <2>5
  <2>7. /\ SlaveMap[i].addr \in Nat /\ SlaveMap[i].size \in Nat
        /\ SlaveMap[k-1].addr \in Nat /\ SlaveMap[k-1].size \in Nat /\ SlaveMap[k].addr \in Nat
    BY <2>3, Wiring
  <2>8. ~(SlaveMap[i].addr + SlaveMap[i].size <= SlaveMap[k].addr)  BY <2>2
  <2>. QED BY <2>4, <2>6, <2>7, <2>8
<1>2. s \in Nat /\ t \in Nat  BY Wiring
<1>3. ~(s < t)  BY <1>1, Wiring DEF InRange
<1>4. ~(t < s)  BY <1>1, Wiring DEF InRange
<1>. QED BY <1>2, <1>3, <1>4

\* A slave has an address of its own for each word in its range.
LEMMA SpanFits ==
  ASSUME NEW s \in Slaves
  PROVE  Span[s] \in Nat /\ Span[s] >= SlaveMap[s].size
<1>. DEFINE size == SlaveMap[s].size
            E == {k \in 0 .. 30 : 2^k >= size}
<1>1. size \in Nat /\ size <= 2^30
  BY Wiring DEF MaxSize
<1>2. E \subseteq Nat /\ 30 \in E
  BY <1>1
<1>3. \E k \in E : \A j \in E : k <= j
  BY <1>2, LeastExists
<1>4. log2(size) \in E
  BY <1>3 DEF log2
<1>5. \A k \in 0 .. 30 : 2^k \in Nat
  <2>1. \A k \in 0 .. 30 : \/ k = 0 \/ k = 1 \/ k = 2 \/ k = 3 \/ k = 4 \/ k = 5 \/ k = 6 \/ k = 7
                            \/ k = 8 \/ k = 9 \/ k = 10 \/ k = 11 \/ k = 12 \/ k = 13 \/ k = 14
                            \/ k = 15 \/ k = 16 \/ k = 17 \/ k = 18 \/ k = 19 \/ k = 20 \/ k = 21
                            \/ k = 22 \/ k = 23 \/ k = 24 \/ k = 25 \/ k = 26 \/ k = 27 \/ k = 28
                            \/ k = 29 \/ k = 30
    OBVIOUS
  <2>2. /\ 2^0 \in Nat /\ 2^1 \in Nat /\ 2^2 \in Nat /\ 2^3 \in Nat /\ 2^4 \in Nat /\ 2^5 \in Nat
        /\ 2^6 \in Nat /\ 2^7 \in Nat /\ 2^8 \in Nat /\ 2^9 \in Nat /\ 2^10 \in Nat /\ 2^11 \in Nat
        /\ 2^12 \in Nat /\ 2^13 \in Nat /\ 2^14 \in Nat /\ 2^15 \in Nat /\ 2^16 \in Nat
        /\ 2^17 \in Nat /\ 2^18 \in Nat /\ 2^19 \in Nat /\ 2^20 \in Nat /\ 2^21 \in Nat
        /\ 2^22 \in Nat /\ 2^23 \in Nat /\ 2^24 \in Nat /\ 2^25 \in Nat /\ 2^26 \in Nat
        /\ 2^27 \in Nat /\ 2^28 \in Nat /\ 2^29 \in Nat /\ 2^30 \in Nat
    OBVIOUS
  <2>. QED BY <2>1, <2>2, Zenon
<1>. QED BY <1>4, <1>5 DEF Span

LEMMA DivMod ==
  ASSUME NEW n \in Nat, n > 0, NEW a \in Nat
  PROVE  a \div n \in Nat /\ a % n \in Nat /\ a = n * (a \div n) + (a % n)
<1>1. a \div n \in Nat  OBVIOUS
<1>2. a % n \in Nat  OBVIOUS
<1>3. \A q, r \in Nat : q = a \div n /\ r = a % n => a = n * q + r  OBVIOUS
<1>. QED BY <1>1, <1>2, <1>3

LEMMA RelAdrApart ==
  ASSUME NEW s \in Slaves, NEW a \in Nat, NEW b \in Nat, InRange(s, a), InRange(s, b),
         RelAdr(s, a) = RelAdr(s, b)
  PROVE  a = b
<1>. DEFINE n == Span[s]
<1>1. n \in Nat /\ n > 0 /\ n >= SlaveMap[s].size
      /\ SlaveMap[s].size \in Nat /\ SlaveMap[s].addr \in Nat
  <2>1. SlaveMap[s].size \in Nat /\ SlaveMap[s].size > 0 /\ SlaveMap[s].addr \in Nat  BY Wiring
  <2>. QED BY <2>1, SpanFits
<1>2. a - b < n /\ b - a < n
  BY <1>1, Wiring DEF InRange
<1>3. a % n = b % n
  BY DEF RelAdr
<1>. HIDE DEF n
<1>4. /\ a = n * (a \div n) + (a % n) /\ a \div n \in Nat /\ a % n \in Nat
      /\ b = n * (b \div n) + (b % n) /\ b \div n \in Nat /\ b % n \in Nat
  BY <1>1, DivMod, Zenon
<1>5. \A p, q, x, y \in Nat : x = n * p /\ y = n * q /\ p > q => x >= y + n
  BY <1>1
<1>6. ~(a \div n > b \div n) /\ ~(b \div n > a \div n)
  <2>. DEFINE x == n * (a \div n)
              y == n * (b \div n)
  <2>1. x \in Nat /\ y \in Nat  BY <1>1, <1>4
  <2>2. a = x + (a % n) /\ b = y + (b % n)  BY <1>4
  <2>3. a \div n > b \div n => x >= y + n  BY <1>4, <1>5, <2>1
  <2>4. b \div n > a \div n => y >= x + n  BY <1>4, <1>5, <2>1
  <2>. HIDE DEF x, y
  <2>. QED BY <1>1, <1>2, <1>3, <1>4, <2>1, <2>2, <2>3, <2>4
<1>7. a \div n = b \div n  BY <1>4, <1>6
<1>. QED BY <1>3, <1>4, <1>7

\* The burst lengths that fit six bits and are a power of two less one.
LEMMA WrapWalks ==
  ASSUME NEW adr \in Nat, NEW burst \in BurstCodes, NEW k \in Nat
  PROVE  /\ AdrOf(adr, burst, k) \in Nat
         /\ AdrOf(adr, burst, 0) = adr
         /\ AdrOf(adr, burst, burst + 1) = adr
         /\ WrapNext(AdrOf(adr, burst, k), burst) = AdrOf(adr, burst, k + 1)
<1>1. CASE burst = 0   BY <1>1 DEF AdrOf, WrapNext
<1>2. CASE burst = 1   BY <1>2 DEF AdrOf, WrapNext
<1>3. CASE burst = 3   BY <1>3 DEF AdrOf, WrapNext
<1>4. CASE burst = 7   BY <1>4 DEF AdrOf, WrapNext
<1>5. CASE burst = 15  BY <1>5 DEF AdrOf, WrapNext
<1>6. CASE burst = 31  BY <1>6 DEF AdrOf, WrapNext
<1>7. CASE burst = 63  BY <1>7 DEF AdrOf, WrapNext
<1>. QED BY <1>1, <1>2, <1>3, <1>4, <1>5, <1>6, <1>7 DEF BurstCodes

\* The walk of a command through its line: it stays in the line, the line in
\* one slave, and the slave in the cells that are modelled.
LEMMA Lines ==
  ASSUME NEW m \in Masters, NEW cmd \in Commands[m]
  PROVE  /\ cmd.we \in BOOLEAN /\ cmd.adr \in Nat /\ cmd.burst \in Nat /\ cmd.burst < CountValues
         /\ cmd.burst <= MaxBurst /\ cmd.val \in Vals \cup {Blank}
         /\ cmd.adr \in Line(cmd) /\ Line(cmd) \subseteq Nat /\ Line(cmd) \subseteq Adrs
         /\ AdrOf(cmd.adr, cmd.burst, 0) = cmd.adr
         /\ \A k \in 0 .. cmd.burst :
              /\ AdrOf(cmd.adr, cmd.burst, k) \in Line(cmd)
              /\ WrapNext(AdrOf(cmd.adr, cmd.burst, k), cmd.burst) = AdrOf(cmd.adr, cmd.burst, k + 1)
         /\ \A a \in Line(cmd) :
              /\ WrapNext(a, cmd.burst) \in Line(cmd)
              /\ SlaveOf(m, a) = SlaveOf(m, cmd.adr)
              /\ SlaveOf(m, cmd.adr) # NoSlave =>
                   /\ SlaveOf(m, cmd.adr) \in Connects[m]
                   /\ InRange(SlaveOf(m, cmd.adr), a)
                   /\ RelAdr(SlaveOf(m, cmd.adr), a) \in Cells[SlaveOf(m, cmd.adr)]
<1>. DEFINE A(k) == AdrOf(cmd.adr, cmd.burst, k)
            Cmd == [we : BOOLEAN, adr : Nat, burst : BurstCodes, val : Vals \cup {Blank}]
<1>1. cmd \in Cmd  BY FabricAssumption, Zenon
<1>2. /\ cmd.we \in BOOLEAN /\ cmd.adr \in Nat /\ cmd.burst \in BurstCodes
      /\ cmd.val \in Vals \cup {Blank}
  BY <1>1
<1>3. cmd.burst \in Nat /\ cmd.burst < CountValues
  BY <1>2 DEF CountValues, BurstCodes
<1>4. cmd.burst <= MaxBurst
  BY FabricAssumption, Zenon
<1>5. \A k \in Nat : A(k) \in Nat /\ WrapNext(A(k), cmd.burst) = A(k + 1)
  BY <1>2, WrapWalks, Zenon
<1>6. A(0) = cmd.adr /\ A(cmd.burst + 1) = cmd.adr
  <2>. 0 \in Nat  OBVIOUS
  <2>. QED BY <1>2, WrapWalks, Zenon
<1>7. Line(cmd) = {A(k) : k \in 0 .. cmd.burst}
  BY DEF Line
<1>. HIDE DEF A
<1>8. cmd.adr \in Line(cmd) /\ Line(cmd) \subseteq Nat
  BY <1>3, <1>5, <1>6, <1>7
<1>9. Line(cmd) \subseteq Adrs
  BY DEF Adrs, AllCommands
<1>10. \A k \in 0 .. cmd.burst : A(k) \in Line(cmd) /\ WrapNext(A(k), cmd.burst) = A(k + 1)
  BY <1>3, <1>5, <1>7
<1>11. ASSUME NEW a \in Line(cmd) PROVE WrapNext(a, cmd.burst) \in Line(cmd)
  <2>1. PICK k \in 0 .. cmd.burst : a = A(k)  BY <1>7
  <2>2. WrapNext(a, cmd.burst) = A(k + 1)  BY <1>10, <2>1
  <2>3. CASE k = cmd.burst  BY <1>3, <1>6, <1>8, <2>2, <2>3
  <2>4. CASE k # cmd.burst
    <3>1. k + 1 \in 0 .. cmd.burst  BY <1>3, <2>4
    <3>. QED BY <1>10, <2>2, <3>1
  <2>. QED BY <2>3, <2>4
<1>12. \A a \in Line(cmd) : SlaveOf(m, a) = SlaveOf(m, cmd.adr)
  BY FabricAssumption, Zenon
<1>13. ASSUME NEW a \in Line(cmd), SlaveOf(m, cmd.adr) # NoSlave
       PROVE  /\ SlaveOf(m, cmd.adr) \in Connects[m]
              /\ InRange(SlaveOf(m, cmd.adr), a)
              /\ RelAdr(SlaveOf(m, cmd.adr), a) \in Cells[SlaveOf(m, cmd.adr)]
  <2>1. SlaveOf(m, a) = SlaveOf(m, cmd.adr)  BY <1>12
  <2>2. SlaveOf(m, a) # NoSlave  BY <1>13, <2>1
  <2>3. SlaveOf(m, a) \in Connects[m] /\ InRange(SlaveOf(m, a), a)
    <3>1. \E s \in Connects[m] : InRange(s, a)  BY <2>2, Zenon DEF SlaveOf
    <3>2. SlaveOf(m, a) = CHOOSE s \in Connects[m] : InRange(s, a)  BY <3>1, Zenon DEF SlaveOf
    <3>. QED BY <3>1, <3>2, Zenon
  <2>4. RelAdr(SlaveOf(m, a), a) \in Cells[SlaveOf(m, a)]
    BY <1>13, FabricAssumption, Zenon
  <2>. QED BY <2>1, <2>3, <2>4, Zenon
<1>. QED BY <1>2, <1>3, <1>4, <1>6, <1>8, <1>9, <1>10, <1>11, <1>12, <1>13 DEF A

-----------------------------------------------------------------------------
(* The inductive invariant.                                                *)

\* What the registers of m, its user and the slaves know of its command.
Pends(m)    == mst[m].state = "ST_PENDING"
CmdOf(m)    == txn[m].cmd
Home(m)     == SlaveOf(m, CmdOf(m).adr)
Word(m, k)  == AdrOf(CmdOf(m).adr, CmdOf(m).burst, k)
Accepted(m) == CmdOf(m).burst - mst[m].count

\* Words of m in its slave: accepted and not acknowledged; of these, the ones
\* a synchronous memory has already read or written.
Flight(m)    == IF Owns(m, Home(m)) THEN InFlight(Home(m)) ELSE 0
MemFlight(m) == IF Kind[Home(m)] = "mem" THEN Flight(m) ELSE 0

\* The words read that have come as far as the user's side of m, and as far as
\* the slave.
Got(m)  == IF mst[m].dready_rd THEN Append(user[m].rx, mst[m].dout) ELSE user[m].rx
Seen(m) == IF MemFlight(m) = 1 THEN Append(Got(m), slv[Home(m)].dat) ELSE Got(m)

\* A pending master works on the command of its user, inside its line.
Bursts(m) ==
  Pends(m) =>
    /\ txn[m].busy /\ ~mst[m].complete /\ mst[m].cyc
    /\ CmdOf(m) \in Commands[m]
    /\ mst[m].we = CmdOf(m).we
    /\ mst[m].mask = CmdOf(m).burst
    /\ mst[m].count <= CmdOf(m).burst
    /\ mst[m].count_ack <= CmdOf(m).burst
    /\ mst[m].adr \in Line(CmdOf(m))

\* The request on the bus is the next word of the command.
Asks(m) ==
  Pends(m) =>
    IF mst[m].stb
      THEN /\ mst[m].adr = Word(m, Accepted(m))
           /\ CmdOf(m).we => mst[m].dat = DataOf(CmdOf(m).val, Accepted(m))
      ELSE mst[m].count = 0

\* The user of a write is one word ahead of the bus.
Gives(m) ==
  Pends(m) /\ CmdOf(m).we =>
    /\ user[m].taken = Accepted(m) + 1
    /\ ~mst[m].dready_rd
    /\ user[m].rx = <<>> /\ txn[m].res = <<>>

Rests(m) ==
  ~Pends(m) => ~mst[m].stb /\ (txn[m].busy <=> mst[m].complete)

\* Nothing has happened where no slave is, and elsewhere the counters agree
\* with the slave and with the memory behind it.
NoneYet(m) ==
  Pends(m) /\ Home(m) = NoSlave =>
    /\ mst[m].stb /\ txn[m].done = 0
    /\ user[m].rx = <<>> /\ ~mst[m].dready_rd
Counts(m) ==
  Pends(m) /\ Home(m) # NoSlave =>
    /\ mst[m].count_ack + 1 = ToBeAccepted(m) + Flight(m)
    /\ txn[m].done = (CmdOf(m).burst - mst[m].count_ack) + MemFlight(m)

\* What was read is on its way to the user, in order.
Reads(m) ==
  Pends(m) /\ Home(m) # NoSlave /\ ~CmdOf(m).we =>
    txn[m].res = Seen(m) /\ Len(txn[m].res) = txn[m].done

\* The bridge holds the request of the word that is due.
Bridges(m) ==
  Pends(m) /\ Home(m) # NoSlave /\ Kind[Home(m)] = "apb" /\ Flight(m) = 1 =>
    /\ slv[Home(m)].req.we = CmdOf(m).we
    /\ slv[Home(m)].req.adr = RelAdr(Home(m), Word(m, txn[m].done))
    /\ CmdOf(m).we => slv[Home(m)].req.dat = DataOf(CmdOf(m).val, txn[m].done)

\* A burst that has begun keeps the slave, and so does a user that holds cyc.
Keeps(m) ==
  /\ Pends(m) /\ Home(m) # NoSlave /\ txn[m].done > 0 => Owns(m, Home(m))
  /\ ~Pends(m) /\ mst[m].cyc /\ Target(m) # NoSlave => Owns(m, Target(m))

Told(m) ==
  mst[m].complete =>
    /\ CmdOf(m) \in Commands[m]
    /\ IF Home(m) = NoSlave
         THEN mst[m].err /\ txn[m].done = 0
         ELSE /\ ~mst[m].err
              /\ txn[m].done = CmdOf(m).burst + 1
              /\ ~CmdOf(m).we => mst[m].dready_rd /\ txn[m].res = Got(m)

RxFits(m) == Len(Got(m)) <= MaxBurst + 1

\* What a slave has in flight belongs to the master it is connected to.
Serves(s) ==
  InFlight(s) > 0 =>
    /\ arb[s].master_sel_valid_reg
    /\ Pends(ServedBy(s)) /\ Target(ServedBy(s)) = s

\* A connected master that the arbiter has masked out is backed by a waiter
\* that is not: the selection does not become invalid under it.
Backed(s) ==
  arb[s].master_sel_valid_reg /\ PortCyc(s)[arb[s].master_sel_reg] =>
    arb[s].mask[arb[s].master_sel_reg]
      \/ \E w \in 0 .. NumPorts(s) - 1 :
           w # arb[s].master_sel_reg /\ PortCyc(s)[w] /\ arb[s].mask[w]

MasterInv(m) ==
  /\ Bursts(m) /\ Asks(m) /\ Gives(m) /\ Rests(m) /\ NoneYet(m) /\ Counts(m)
  /\ Reads(m) /\ Bridges(m) /\ Keeps(m) /\ Told(m) /\ RxFits(m)

FabricInv ==
  /\ TypeOK
  /\ \A m \in Masters : MasterInv(m)
  /\ \A s \in Slaves : Serves(s) /\ Backed(s)

-----------------------------------------------------------------------------
(* What the invariant says of one master and of one slave.                 *)

\* A master that decodes to a slave is wired to it.
LEMMA Decoded ==
  ASSUME NEW m \in Masters, NEW a, SlaveOf(m, a) # NoSlave
  PROVE  /\ SlaveOf(m, a) \in Connects[m] /\ SlaveOf(m, a) \in Slaves
         /\ InRange(SlaveOf(m, a), a) /\ m \in MastersOf(SlaveOf(m, a))
<1>1. \E s \in Connects[m] : InRange(s, a)
  BY Zenon DEF SlaveOf
<1>2. SlaveOf(m, a) = CHOOSE s \in Connects[m] : InRange(s, a)
  BY <1>1, Zenon DEF SlaveOf
<1>3. SlaveOf(m, a) \in Connects[m] /\ InRange(SlaveOf(m, a), a)
  BY <1>1, <1>2, Zenon
<1>. QED BY <1>3, Wiring DEF MastersOf

LEMMA MasterTyped ==
  ASSUME TypeOK, NEW m \in Masters
  PROVE  /\ mst[m].state \in {"ST_IDLE", "ST_PENDING"}
         /\ mst[m].adr \in Adrs /\ mst[m].dat \in Words /\ mst[m].dout \in Words
         /\ mst[m].we \in BOOLEAN /\ mst[m].stb \in BOOLEAN /\ mst[m].cyc \in BOOLEAN
         /\ mst[m].dready_rd \in BOOLEAN /\ mst[m].complete \in BOOLEAN /\ mst[m].err \in BOOLEAN
         /\ mst[m].count \in 0 .. CountValues - 1 /\ mst[m].count_ack \in 0 .. CountValues - 1
         /\ mst[m].mask \in 0 .. CountValues - 1
         /\ mst[m] \in MasterRegs(Adrs, Words)
<1>1. mst[m] \in MasterRegs(Adrs, Words)
  BY DEF TypeOK
<1>. QED BY <1>1 DEF MasterRegs

LEMMA SlaveTyped ==
  ASSUME TypeOK, NEW s \in Slaves
  PROVE  /\ Kind[s] \in {"mem", "cache", "apb"}
         /\ arb[s].mask \in [0 .. NumPorts(s) - 1 -> BOOLEAN]
         /\ arb[s].master_sel_reg \in 0 .. NumPorts(s) - 1
         /\ arb[s].master_sel_valid_reg \in BOOLEAN
         /\ slv[s] \in SlaveRegs(Cells[s] \cup {0}, Words)
         /\ slv[s].state \in {"FSM_IDLE", "FSM_SETUP", "FSM_ENABLE"}
         /\ slv[s].ack \in BOOLEAN /\ slv[s].dat \in Words
         /\ store[s] \in [Cells[s] -> Words]
<1>1. Kind[s] \in {"mem", "cache", "apb"}
  BY FabricAssumption
<1>2. arb[s] \in Arb(s)!ArbiterRegs
  BY DEF TypeOK
<1>3. /\ arb[s].mask \in [0 .. NumPorts(s) - 1 -> BOOLEAN]
      /\ arb[s].master_sel_reg \in 0 .. NumPorts(s) - 1
      /\ arb[s].master_sel_valid_reg \in BOOLEAN
  BY <1>2 DEF Arb!ArbiterRegs, Arb!Master
<1>4. slv[s] \in SlaveRegs(Cells[s] \cup {0}, Words)
  BY DEF TypeOK
<1>5. /\ slv[s].state \in {"FSM_IDLE", "FSM_SETUP", "FSM_ENABLE"}
      /\ slv[s].ack \in BOOLEAN /\ slv[s].dat \in Words
  BY <1>4 DEF SlaveRegs
<1>6. store[s] \in [Cells[s] -> Words]
  BY DEF TypeOK
<1>. QED BY <1>1, <1>3, <1>4, <1>5, <1>6

\* Owning a slave is being the master that its selection stands for.
LEMMA Owners ==
  ASSUME TypeOK, NEW s \in Slaves
  PROVE  /\ ServedBy(s) \in Masters /\ s \in Connects[ServedBy(s)]
         /\ arb[s].master_sel_valid_reg => Owns(ServedBy(s), s)
         /\ \A m \in Masters :
              Owns(m, s) => /\ s \in Connects[m] /\ ServedBy(s) = m
                            /\ arb[s].master_sel_valid_reg
                            /\ PortOf(s, m) = arb[s].master_sel_reg
<1>1. arb[s].master_sel_reg \in 0 .. NumPorts(s) - 1
  BY SlaveTyped
<1>2. ServedBy(s) \in MastersOf(s) /\ PortOf(s, ServedBy(s)) = arb[s].master_sel_reg
  BY <1>1, Ports DEF ServedBy
<1>3. ServedBy(s) \in Masters /\ s \in Connects[ServedBy(s)]
  BY <1>2 DEF MastersOf
<1>4. arb[s].master_sel_valid_reg => Owns(ServedBy(s), s)
  BY <1>2, <1>3 DEF Owns, Arb!Connected
<1>5. ASSUME NEW m \in Masters, Owns(m, s)
      PROVE  /\ s \in Connects[m] /\ ServedBy(s) = m
             /\ arb[s].master_sel_valid_reg
             /\ PortOf(s, m) = arb[s].master_sel_reg
  <2>1. s \in Connects[m] /\ arb[s].master_sel_valid_reg /\ arb[s].master_sel_reg = PortOf(s, m)
    BY <1>5 DEF Owns, Arb!Connected
  <2>2. m \in MastersOf(s)
    BY <2>1 DEF MastersOf
  <2>3. MasterAt(s, PortOf(s, m)) = m
    BY <2>2, Ports
  <2>. QED BY <2>1, <2>3 DEF ServedBy
<1>. QED BY <1>3, <1>4, <1>5

LEMMA PortedCyc ==
  ASSUME NEW s \in Slaves
  PROVE  /\ PortCyc(s) \in [0 .. NumPorts(s) - 1 -> BOOLEAN]
         /\ \A p \in 0 .. NumPorts(s) - 1 :
              PortCyc(s)[p] <=> mst[MasterAt(s, p)].cyc /\ Target(MasterAt(s, p)) = s
         /\ \A m \in MastersOf(s) :
              PortCyc(s)[PortOf(s, m)] <=> mst[m].cyc /\ Target(m) = s
<1>1. \A p \in 0 .. NumPorts(s) - 1 :
        PortCyc(s)[p] = (mst[MasterAt(s, p)].cyc /\ Target(MasterAt(s, p)) = s)
  BY DEF PortCyc
<1>2. \A m \in MastersOf(s) : PortOf(s, m) \in 0 .. NumPorts(s) - 1 /\ MasterAt(s, PortOf(s, m)) = m
  BY Ports
<1>3. PortCyc(s) \in [0 .. NumPorts(s) - 1 -> BOOLEAN]
  BY DEF PortCyc
<1>. QED BY <1>1, <1>2, <1>3, Zenon

\* A pending master addresses its home.
LEMMA AtHome ==
  ASSUME TypeOK, NEW m \in Masters, Bursts(m), Pends(m)
  PROVE  /\ Target(m) = Home(m) /\ mst[m].cyc
         /\ Home(m) # NoSlave =>
              /\ Home(m) \in Slaves /\ Home(m) \in Connects[m] /\ m \in MastersOf(Home(m))
              /\ RelAdr(Home(m), mst[m].adr) \in Cells[Home(m)]
<1>1. CmdOf(m) \in Commands[m] /\ mst[m].adr \in Line(CmdOf(m)) /\ mst[m].cyc
  BY DEF Bursts
<1>2. Target(m) = Home(m)
  BY <1>1, Lines, Zenon DEF Target, Home
<1>3. ASSUME Home(m) # NoSlave
      PROVE  /\ Home(m) \in Slaves /\ Home(m) \in Connects[m] /\ m \in MastersOf(Home(m))
             /\ RelAdr(Home(m), mst[m].adr) \in Cells[Home(m)]
  <2>1. Home(m) \in Slaves /\ Home(m) \in Connects[m] /\ m \in MastersOf(Home(m))
    BY <1>3, Decoded DEF Home
  <2>2. RelAdr(Home(m), mst[m].adr) \in Cells[Home(m)]
    BY <1>1, <1>3, Lines, Zenon DEF Home
  <2>. QED BY <2>1, <2>2
<1>. QED BY <1>1, <1>2, <1>3

\* A slave has at most one word in flight.
LEMMA InFlightIs ==
  ASSUME TypeOK, NEW s \in Slaves
  PROVE  /\ InFlight(s) \in {0, 1}
         /\ Kind[s] = "mem" => (InFlight(s) = 1 <=> slv[s].ack)
         /\ Kind[s] = "cache" => InFlight(s) = 0
         /\ Kind[s] = "apb" => (InFlight(s) = 1 <=> slv[s].state # "FSM_IDLE")
<1>1. Kind[s] \in {"mem", "cache", "apb"} /\ slv[s].ack \in BOOLEAN
  BY SlaveTyped
<1>2. CASE Kind[s] = "mem"    BY <1>1, <1>2 DEF InFlight
<1>3. CASE Kind[s] = "cache"  BY <1>1, <1>3 DEF InFlight
<1>4. CASE Kind[s] = "apb"    BY <1>1, <1>4 DEF InFlight
<1>. QED BY <1>1, <1>2, <1>3, <1>4

\* A request that reaches a slave is the next word of the command of the
\* master that the slave is connected to.
LEMMA Asked ==
  ASSUME FabricInv, NEW s \in Slaves, Requests(RequestAt(s))
  PROVE  LET m == ServedBy(s) IN
           /\ m \in Masters /\ Owns(m, s) /\ Pends(m) /\ mst[m].stb /\ Home(m) = s /\ Target(m) = s
           /\ RequestAt(s).we = CmdOf(m).we
           /\ RequestAt(s).adr = RelAdr(s, mst[m].adr) /\ RequestAt(s).adr \in Cells[s]
           /\ RequestAt(s).dat = mst[m].dat
           /\ mst[m].adr = Word(m, Accepted(m))
           /\ CmdOf(m).we => mst[m].dat = DataOf(CmdOf(m).val, Accepted(m))
<1>. DEFINE m == ServedBy(s)
<1>1. TypeOK /\ MasterInv(m) /\ m \in Masters /\ s \in Connects[m]
  BY Owners DEF FabricInv
<1>2. arb[s].master_sel_valid_reg
  BY DEF RequestAt, Requests
<1>3. RequestAt(s) = [adr |-> RelAdr(s, mst[m].adr), dat |-> mst[m].dat, we |-> mst[m].we,
                      stb |-> mst[m].stb, cyc |-> mst[m].cyc /\ Target(m) = s]
  BY <1>2 DEF RequestAt, ServedBy
<1>4. mst[m].stb /\ mst[m].cyc /\ Target(m) = s
  <2>1. RequestAt(s).stb = mst[m].stb  BY <1>3
  <2>2. RequestAt(s).cyc = (mst[m].cyc /\ Target(m) = s)  BY <1>3
  <2>. QED BY <2>1, <2>2, Zenon DEF Requests
<1>5. Owns(m, s)
  BY <1>1, <1>2, Owners
<1>. HIDE DEF m
<1>6. Pends(m)
  BY <1>1, <1>4 DEF MasterInv, Rests
<1>7. Home(m) = s
  BY <1>1, <1>4, <1>6, AtHome DEF MasterInv
<1>8. s # NoSlave
  BY Wiring DEF NoSlave
<1>9. RelAdr(s, mst[m].adr) \in Cells[s]
  BY <1>1, <1>6, <1>7, <1>8, AtHome DEF MasterInv
<1>10. mst[m].we = CmdOf(m).we /\ mst[m].adr = Word(m, Accepted(m))
       /\ (CmdOf(m).we => mst[m].dat = DataOf(CmdOf(m).val, Accepted(m)))
  BY <1>1, <1>4, <1>6 DEF MasterInv, Bursts, Asks
<1>. QED BY <1>1, <1>3, <1>4, <1>5, <1>6, <1>7, <1>9, <1>10 DEF m

\* The numbers of a pending master.
LEMMA Numbers ==
  ASSUME FabricInv, NEW m \in Masters, Pends(m)
  PROVE  /\ CmdOf(m) \in Commands[m] /\ CmdOf(m).burst \in Nat /\ CmdOf(m).burst < CountValues
         /\ CmdOf(m).we \in BOOLEAN /\ CmdOf(m).burst <= MaxBurst
         /\ mst[m].count \in 0 .. CmdOf(m).burst /\ mst[m].count_ack \in 0 .. CmdOf(m).burst
         /\ Accepted(m) \in 0 .. CmdOf(m).burst
         /\ Flight(m) \in {0, 1} /\ MemFlight(m) \in {0, 1} /\ txn[m].done \in Nat
         /\ Home(m) # NoSlave =>
              /\ mst[m].stb => Flight(m) = mst[m].count_ack - mst[m].count
              /\ ~mst[m].stb => Flight(m) = 1 /\ mst[m].count_ack = 0
              /\ txn[m].done \in 0 .. CmdOf(m).burst + 1
              /\ txn[m].done = (CmdOf(m).burst - mst[m].count_ack) + MemFlight(m)
<1>1. TypeOK /\ MasterInv(m)
  BY DEF FabricInv
<1>2. /\ CmdOf(m) \in Commands[m] /\ CmdOf(m).burst \in Nat /\ CmdOf(m).burst < CountValues
      /\ CmdOf(m).we \in BOOLEAN /\ CmdOf(m).burst <= MaxBurst
  BY <1>1, Lines DEF MasterInv, Bursts
<1>3. mst[m].count \in 0 .. CmdOf(m).burst /\ mst[m].count_ack \in 0 .. CmdOf(m).burst
  <2>1. mst[m].count \in Nat /\ mst[m].count_ack \in Nat
    BY <1>1, MasterTyped DEF CountValues
  <2>2. mst[m].count <= CmdOf(m).burst /\ mst[m].count_ack <= CmdOf(m).burst
    BY <1>1 DEF MasterInv, Bursts
  <2>. QED BY <1>2, <2>1, <2>2
<1>4. Accepted(m) \in 0 .. CmdOf(m).burst
  BY <1>2, <1>3 DEF Accepted
<1>5. Flight(m) \in {0, 1} /\ MemFlight(m) \in {0, 1}
  <2>1. Flight(m) \in {0, 1}
    <3>1. CASE ~Owns(m, Home(m))  BY <3>1 DEF Flight
    <3>2. CASE Owns(m, Home(m))
      <4>1. Home(m) \in Slaves  BY <3>2, Wiring DEF Owns
      <4>. QED BY <1>1, <3>2, <4>1, InFlightIs DEF Flight
    <3>. QED BY <3>1, <3>2
  <2>. QED BY <2>1 DEF MemFlight
<1>6. txn[m].done \in Nat
  <2>1. txn[m].done \in 0 .. MaxBurst + 1  BY <1>1 DEF TypeOK
  <2>. QED BY <2>1, FabricAssumption DEF CountValues
<1>7. ASSUME Home(m) # NoSlave
      PROVE  /\ mst[m].stb => Flight(m) = mst[m].count_ack - mst[m].count
             /\ ~mst[m].stb => Flight(m) = 1 /\ mst[m].count_ack = 0
             /\ txn[m].done \in 0 .. CmdOf(m).burst + 1
             /\ txn[m].done = (CmdOf(m).burst - mst[m].count_ack) + MemFlight(m)
  <2>1. /\ mst[m].count_ack + 1 = ToBeAccepted(m) + Flight(m)
        /\ txn[m].done = (CmdOf(m).burst - mst[m].count_ack) + MemFlight(m)
    BY <1>1, <1>7 DEF MasterInv, Counts
  <2>2. mst[m].stb => ToBeAccepted(m) = mst[m].count + 1  BY DEF ToBeAccepted
  <2>3. ~mst[m].stb => ToBeAccepted(m) = 0  BY DEF ToBeAccepted
  <2>. QED BY <1>2, <1>3, <1>5, <2>1, <2>2, <2>3
<1>. QED BY <1>1, <1>2, <1>3, <1>4, <1>5, <1>6, <1>7

\* An access to the memory behind a slave is the word that is due of the
\* command of the master that the slave is connected to.
LEMMA Performed ==
  ASSUME FabricInv, NEW s \in Slaves, NEW ready,
         \A t \in ready : Kind[t] = "cache" /\ Requests(RequestAt(t)),
         AccessAt(s, ready).on
  PROVE  LET m == ServedBy(s) IN
           /\ m \in Masters /\ Owns(m, s) /\ Pends(m) /\ Home(m) = s
           /\ txn[m].done \in 0 .. CmdOf(m).burst
           /\ AccessAt(s, ready).we = CmdOf(m).we
           /\ AccessAt(s, ready).adr = RelAdr(s, Word(m, txn[m].done))
           /\ AccessAt(s, ready).adr \in Cells[s]
           /\ CmdOf(m).we => AccessAt(s, ready).dat = DataOf(CmdOf(m).val, txn[m].done)
<1>. DEFINE m == ServedBy(s)
            a == AccessAt(s, ready)
            q == RequestAt(s)
<1>1. TypeOK /\ m \in Masters /\ MasterInv(m) /\ Serves(s) /\ s # NoSlave
  BY Owners, Wiring DEF FabricInv, NoSlave
<1>2. Kind[s] \in {"mem", "cache", "apb"}
  BY <1>1, SlaveTyped
<1>3. CASE Kind[s] \in {"mem", "cache"}
  <2>1. a.we = q.we /\ a.adr = q.adr /\ a.dat = q.dat /\ Requests(q)
    BY <1>3 DEF AccessAt, AccessOf
  <2>. HIDE DEF a, q
  <2>2. /\ m \in Masters /\ Owns(m, s) /\ Pends(m) /\ mst[m].stb /\ Home(m) = s
        /\ q.we = CmdOf(m).we /\ q.adr = RelAdr(s, mst[m].adr) /\ q.adr \in Cells[s]
        /\ q.dat = mst[m].dat /\ mst[m].adr = Word(m, Accepted(m))
        /\ (CmdOf(m).we => mst[m].dat = DataOf(CmdOf(m).val, Accepted(m)))
    BY <2>1, Asked DEF q
  <2>3. Kind[s] = "cache" => Flight(m) = 0 /\ MemFlight(m) = 0
    BY <1>1, <2>2, InFlightIs DEF Flight, MemFlight
  <2>4. Kind[s] = "mem" => MemFlight(m) = Flight(m)
    BY <2>2 DEF MemFlight
  <2>. HIDE DEF m
  <2>5. txn[m].done = Accepted(m) /\ txn[m].done \in 0 .. CmdOf(m).burst
    <3>1. /\ CmdOf(m).burst \in Nat /\ mst[m].count \in 0 .. CmdOf(m).burst
          /\ mst[m].count_ack \in 0 .. CmdOf(m).burst /\ Flight(m) \in {0, 1}
          /\ Flight(m) = mst[m].count_ack - mst[m].count
          /\ txn[m].done = (CmdOf(m).burst - mst[m].count_ack) + MemFlight(m)
      BY <1>1, <2>2, Numbers
    <3>2. MemFlight(m) = Flight(m)  BY <1>3, <2>3, <2>4
    <3>. QED BY <3>1, <3>2 DEF Accepted
  <2>. QED BY <2>1, <2>2, <2>5 DEF a, m
<1>4. CASE Kind[s] = "apb"
  <2>1. a.we = slv[s].req.we /\ a.adr = slv[s].req.adr /\ a.dat = slv[s].req.dat
        /\ slv[s].state = "FSM_ENABLE"
    BY <1>4 DEF AccessAt, AccessOf
  <2>. HIDE DEF a
  <2>2. InFlight(s) = 1
    BY <1>1, <1>4, <2>1, InFlightIs
  <2>3. arb[s].master_sel_valid_reg /\ Pends(m) /\ Target(m) = s
    BY <1>1, <2>2 DEF Serves
  <2>4. Owns(m, s)
    BY <1>1, <2>3, Owners
  <2>. HIDE DEF m
  <2>5. Home(m) = s
    BY <1>1, <2>3, AtHome DEF MasterInv
  <2>6. Flight(m) = 1 /\ MemFlight(m) = 0
    BY <1>4, <2>2, <2>4, <2>5 DEF Flight, MemFlight
  <2>7. a.we = CmdOf(m).we /\ a.adr = RelAdr(s, Word(m, txn[m].done))
        /\ (CmdOf(m).we => a.dat = DataOf(CmdOf(m).val, txn[m].done))
    BY <1>1, <1>4, <2>1, <2>3, <2>5, <2>6 DEF MasterInv, Bridges
  <2>8. txn[m].done \in 0 .. CmdOf(m).burst /\ CmdOf(m) \in Commands[m]
    <3>1. /\ CmdOf(m) \in Commands[m] /\ CmdOf(m).burst \in Nat
          /\ mst[m].count_ack \in 0 .. CmdOf(m).burst
          /\ txn[m].done = (CmdOf(m).burst - mst[m].count_ack) + MemFlight(m)
      BY <1>1, <2>3, <2>5, Numbers
    <3>. QED BY <2>6, <3>1
  <2>9. RelAdr(s, Word(m, txn[m].done)) \in Cells[s]
    <3>1. Word(m, txn[m].done) \in Line(CmdOf(m))  BY <1>1, <2>8, Lines DEF Word
    <3>2. SlaveOf(m, CmdOf(m).adr) = s /\ s # NoSlave  BY <1>1, <2>5 DEF Home
    <3>. QED BY <1>1, <2>8, <3>1, <3>2, Lines, Zenon
  <2>. QED BY <1>1, <2>3, <2>4, <2>5, <2>7, <2>8, <2>9 DEF a, m
<1>. QED BY <1>2, <1>3, <1>4

-----------------------------------------------------------------------------
(* One clock cycle, part by part.                                          *)

LEMMA Edges ==
  ASSUME NEW start \in StartChoices, NEW hold \in SUBSET Holding, NEW ready \in SUBSET Caches,
         Clock(start, hold, ready)
  PROVE  /\ \A m \in Masters :
              /\ mst'[m] = MasterEdge(mst[m], UserOf(m, start, hold), InputOf(m, ready))
              /\ user'[m] = UserEdge(m, start, UserOf(m, start, hold), InputOf(m, ready))
              /\ txn'[m] = TxnEdge(m, start, ready)
              /\ start[m] \in Commands[m] \cup {NoCommand}
              /\ Starts(m, start) => mst[m].state = "ST_IDLE" /\ start[m] \in Commands[m]
         /\ \A s \in Slaves :
              /\ arb'[s] = Arb(s)!ArbiterEdge(arb[s], PortCyc(s))
              /\ slv'[s] = SlaveEdge(Kind[s], slv[s], RequestAt(s), CellAt(s, ready))
              /\ store'[s] = StoreEdge(s, ready)
         /\ \A t \in ready : Kind[t] = "cache" /\ Requests(RequestAt(t))
<1>1. ASSUME NEW m \in Masters
      PROVE  /\ mst'[m] = MasterEdge(mst[m], UserOf(m, start, hold), InputOf(m, ready))
             /\ user'[m] = UserEdge(m, start, UserOf(m, start, hold), InputOf(m, ready))
  BY Zenon DEF Clock
<1>2. \A m \in Masters : txn'[m] = TxnEdge(m, start, ready)
  BY Zenon DEF Clock
<1>3. \A m \in Masters : start[m] \in Commands[m] \cup {NoCommand}
  BY DEF StartChoices
<1>4. \A m \in Masters : Starts(m, start) => mst[m].state = "ST_IDLE"
  BY Zenon DEF Clock
<1>5. \A m \in Masters : Starts(m, start) => start[m] \in Commands[m]
  BY <1>3 DEF Starts
<1>6. \A s \in Slaves :
        /\ arb'[s] = Arb(s)!ArbiterEdge(arb[s], PortCyc(s))
        /\ slv'[s] = SlaveEdge(Kind[s], slv[s], RequestAt(s), CellAt(s, ready))
        /\ store'[s] = StoreEdge(s, ready)
  BY Zenon DEF Clock
<1>7. \A t \in ready : Kind[t] = "cache" /\ Requests(RequestAt(t))
  BY Zenon DEF Clock
<1>. QED BY <1>1, <1>2, <1>3, <1>4, <1>5, <1>6, <1>7

\* The arbiter: it stays well-formed, and a connected master that goes on
\* stays connected.
LEMMA ArbiterKeeps ==
  ASSUME TypeOK, NEW s \in Slaves, Backed(s),
         arb'[s] = Arb(s)!ArbiterEdge(arb[s], PortCyc(s))
  PROVE  /\ arb'[s] \in Arb(s)!ArbiterRegs
         /\ arb'[s].mask = Arb(s)!NextMask(arb[s], PortCyc(s))
         /\ arb'[s].master_sel_valid_reg <=> Arb(s)!MasterSelValid(arb[s], PortCyc(s))
         /\ arb[s].master_sel_valid_reg /\ PortCyc(s)[arb[s].master_sel_reg] =>
              /\ arb'[s].master_sel_valid_reg
              /\ arb'[s].master_sel_reg = arb[s].master_sel_reg
         /\ ~(arb[s].master_sel_valid_reg /\ PortCyc(s)[arb[s].master_sel_reg]) =>
              arb'[s].master_sel_reg = Arb(s)!MasterSel(arb[s], PortCyc(s))
         /\ Arb(s)!MasterSelValid(arb[s], PortCyc(s)) =>
              /\ Arb(s)!MasterSel(arb[s], PortCyc(s)) \in 0 .. NumPorts(s) - 1
              /\ PortCyc(s)[Arb(s)!MasterSel(arb[s], PortCyc(s))]
              /\ arb[s].mask[Arb(s)!MasterSel(arb[s], PortCyc(s))]
<1>. DEFINE P == 0 .. NumPorts(s) - 1
            a == arb[s]
            cyc == PortCyc(s)
            sel == Arb(s)!MasterSel(a, cyc)
            valid == Arb(s)!MasterSelValid(a, cyc)
            C == {i \in P : cyc[i] /\ a.mask[i]}
<1>1. a.mask \in [P -> BOOLEAN] /\ a.master_sel_reg \in P /\ a.master_sel_valid_reg \in BOOLEAN
  BY SlaveTyped
<1>2. NumPorts(s) \in Nat /\ NumPorts(s) > 0
  BY Ports
<1>3. Arb(s)!Candidates(a, cyc) = C
  BY DEF Arb!Candidates, Arb!Master
<1>4. valid <=> C # {}
  BY <1>3 DEF Arb!MasterSelValid
<1>5. valid => sel \in C
  <2>. SUFFICES ASSUME valid PROVE sel \in C
    OBVIOUS
  <2>1. sel = CHOOSE i \in C : \A j \in C : i <= j
    BY <1>3, Zenon DEF Arb!MasterSel
  <2>2. C \subseteq Nat /\ C # {}
    BY <1>2, <1>4
  <2>3. \E i \in C : \A j \in C : i <= j
    BY <2>2, LeastExists
  <2>. QED BY <2>1, <2>3, Zenon
<1>6. ~valid => sel = 0
  BY Zenon DEF Arb!MasterSel
<1>7. sel \in P
  BY <1>2, <1>5, <1>6
<1>8. arb'[s] = [mask |-> Arb(s)!NextMask(a, cyc), master_sel_reg |-> Arb(s)!NextSel(a, cyc),
                 master_sel_valid_reg |-> valid]
  BY DEF Arb!ArbiterEdge
<1>9. Arb(s)!NextMask(a, cyc) \in [P -> BOOLEAN]
  BY <1>1 DEF Arb!NextMask, Arb!Master
<1>10. /\ a.master_sel_valid_reg /\ cyc[a.master_sel_reg] => Arb(s)!NextSel(a, cyc) = a.master_sel_reg
       /\ ~(a.master_sel_valid_reg /\ cyc[a.master_sel_reg]) => Arb(s)!NextSel(a, cyc) = sel
  BY Zenon DEF Arb!NextSel
<1>11. Arb(s)!NextSel(a, cyc) \in P
  BY <1>1, <1>7, <1>10
<1>12. a.master_sel_valid_reg /\ cyc[a.master_sel_reg] => C # {}
  BY <1>1 DEF Backed
<1>13. valid \in BOOLEAN
  BY DEF Arb!MasterSelValid
<1>. HIDE DEF valid, sel, C, cyc
<1>14. arb'[s] \in Arb(s)!ArbiterRegs
  BY <1>8, <1>9, <1>11, <1>13 DEF Arb!ArbiterRegs, Arb!Master
<1>15. arb'[s].mask = Arb(s)!NextMask(a, cyc) /\ arb'[s].master_sel_reg = Arb(s)!NextSel(a, cyc)
       /\ (arb'[s].master_sel_valid_reg <=> valid)
  BY <1>8, <1>13
<1>16. valid => sel \in P /\ cyc[sel] /\ a.mask[sel]
  BY <1>5 DEF C
<1>. QED BY <1>4, <1>10, <1>12, <1>14, <1>15, <1>16, Zenon DEF valid, sel, cyc

\* A master that is connected to a slave and goes on keeps it, and keeps the
\* others out.
LEMMA OwnerKeeps ==
  ASSUME FabricInv, NEW start \in StartChoices, NEW hold \in SUBSET Holding, NEW ready \in SUBSET Caches,
         Clock(start, hold, ready),
         NEW s \in Slaves, NEW m \in Masters, Owns(m, s), mst[m].cyc, Target(m) = s
  PROVE  /\ Owns(m, s)' /\ ServedBy(s)' = m
         /\ arb'[s].master_sel_valid_reg /\ arb'[s].master_sel_reg = arb[s].master_sel_reg
         /\ \A n \in Masters : Owns(n, s)' => n = m
<1>1. TypeOK /\ Backed(s) /\ arb'[s] = Arb(s)!ArbiterEdge(arb[s], PortCyc(s))
  BY Edges DEF FabricInv
<1>2. /\ s \in Connects[m] /\ ServedBy(s) = m /\ arb[s].master_sel_valid_reg
      /\ PortOf(s, m) = arb[s].master_sel_reg /\ m \in MastersOf(s)
  BY <1>1, Owners DEF MastersOf
<1>3. PortCyc(s)[arb[s].master_sel_reg]
  BY <1>2, PortedCyc
<1>4. arb'[s].master_sel_valid_reg /\ arb'[s].master_sel_reg = arb[s].master_sel_reg
  BY <1>1, <1>2, <1>3, ArbiterKeeps
<1>5. Owns(m, s)'
  BY <1>2, <1>4 DEF Owns, Arb!Connected
<1>6. ServedBy(s)' = m
  BY <1>2, <1>4 DEF ServedBy
<1>7. ASSUME NEW n \in Masters, Owns(n, s)' PROVE n = m
  <2>1. s \in Connects[n] /\ arb'[s].master_sel_reg = PortOf(s, n)
    BY <1>7 DEF Owns, Arb!Connected
  <2>2. n \in MastersOf(s) /\ PortOf(s, n) = PortOf(s, m)
    BY <1>2, <1>4, <2>1 DEF MastersOf
  <2>. QED BY <1>2, <2>2, Ports
<1>. QED BY <1>4, <1>5, <1>6, <1>7

\* The registers of a slave after the edge.
LEMMA SlaveEdges ==
  ASSUME FabricInv, NEW start \in StartChoices, NEW hold \in SUBSET Holding, NEW ready \in SUBSET Caches,
         Clock(start, hold, ready),
         NEW s \in Slaves
  PROVE  LET q == RequestAt(s) IN
         /\ Kind[s] = "mem" =>
              /\ slv'[s].ack <=> Requests(q)
              /\ Requests(q) => slv'[s].dat = CellAt(s, ready)
         /\ Kind[s] = "apb" /\ slv[s].state = "FSM_SETUP" =>
              slv'[s].state = "FSM_ENABLE" /\ slv'[s].req = slv[s].req
         /\ Kind[s] = "apb" /\ slv[s].state # "FSM_SETUP" =>
              IF Requests(q)
                THEN /\ slv'[s].state = "FSM_SETUP"
                     /\ slv'[s].req = [we |-> q.we, adr |-> q.adr, dat |-> q.dat]
                ELSE slv'[s].state = "FSM_IDLE"
<1>. DEFINE q == RequestAt(s)
            cell == CellAt(s, ready)
<1>1. slv[s] \in SlaveRegs(Cells[s] \cup {0}, Words)
  BY SlaveTyped DEF FabricInv
<1>2. slv'[s] = SlaveEdge(Kind[s], slv[s], q, cell)
  BY Edges
<1>3. slv[s] = [state |-> slv[s].state, req |-> slv[s].req, ack |-> slv[s].ack, dat |-> slv[s].dat]
  BY <1>1 DEF SlaveRegs
<1>. HIDE DEF q, cell
<1>4. Requests(q) \in BOOLEAN
  BY Zenon DEF Requests
<1>5. ASSUME Kind[s] = "mem"
      PROVE  /\ slv'[s].ack <=> Requests(q)
             /\ Requests(q) => slv'[s].dat = cell
  <2>1. slv'[s] = MemEdge(slv[s], q, cell)
    BY <1>2, <1>5 DEF SlaveEdge
  <2>. DEFINE new == [state |-> slv[s].state, req |-> slv[s].req, ack |-> Requests(q),
                      dat |-> IF Requests(q) THEN cell ELSE slv[s].dat]
  <2>2. slv'[s] = new
    BY <1>1, <1>3, <2>1 DEF MemEdge, SlaveRegs
  <2>3. slv'[s].ack = Requests(q) /\ slv'[s].dat = IF Requests(q) THEN cell ELSE slv[s].dat
    BY <2>2
  <2>. QED BY <1>4, <2>3, Zenon
<1>6. Kind[s] = "apb" => slv'[s] = ApbEdge(slv[s], q)
  BY <1>2 DEF SlaveEdge
<1>7. ASSUME Kind[s] = "apb", slv[s].state = "FSM_SETUP"
      PROVE  slv'[s].state = "FSM_ENABLE" /\ slv'[s].req = slv[s].req
  BY <1>1, <1>6, <1>7 DEF ApbEdge, SlaveRegs
<1>8. ASSUME Kind[s] = "apb", slv[s].state # "FSM_SETUP", Requests(q)
      PROVE  slv'[s].state = "FSM_SETUP" /\ slv'[s].req = [we |-> q.we, adr |-> q.adr, dat |-> q.dat]
  BY <1>1, <1>6, <1>8 DEF ApbEdge, SlaveRegs
<1>9. ASSUME Kind[s] = "apb", slv[s].state # "FSM_SETUP", ~Requests(q)
      PROVE  slv'[s].state = "FSM_IDLE"
  BY <1>1, <1>6, <1>9 DEF ApbEdge, SlaveRegs
<1>. QED BY <1>5, <1>7, <1>8, <1>9 DEF q, cell

\* What is in flight after the edge belongs to a master that was connected
\* before it, pending at this slave.
LEMMA FlightIsOwned ==
  ASSUME FabricInv, NEW start \in StartChoices, NEW hold \in SUBSET Holding, NEW ready \in SUBSET Caches,
         Clock(start, hold, ready),
         NEW s \in Slaves, InFlight(s)' # 0
  PROVE  LET n == ServedBy(s) IN
           /\ n \in Masters /\ Owns(n, s) /\ Pends(n) /\ mst[n].cyc /\ Target(n) = s /\ Home(n) = s
           /\ arb[s].master_sel_valid_reg
           /\ InFlight(s) = 0 \/ Kind[s] = "mem" => Requests(RequestAt(s))
           /\ Kind[s] # "cache"
<1>1. TypeOK /\ Kind[s] \in {"mem", "cache", "apb"} /\ slv[s].ack \in BOOLEAN /\ Serves(s)
  BY SlaveTyped DEF FabricInv
<1>2. Kind[s] = "mem" => slv'[s].ack
  BY <1>1 DEF InFlight
<1>3. Kind[s] = "apb" => slv'[s].state # "FSM_IDLE"
  BY <1>1 DEF InFlight
<1>4. Kind[s] # "cache"
  BY <1>1 DEF InFlight
<1>5. Kind[s] = "mem" => Requests(RequestAt(s))
  BY <1>2, SlaveEdges
<1>6. Kind[s] = "apb" => slv[s].state = "FSM_SETUP" \/ Requests(RequestAt(s))
  BY <1>3, SlaveEdges
<1>7. (InFlight(s) = 0 \/ Kind[s] = "mem") => Requests(RequestAt(s))
  BY <1>1, <1>4, <1>5, <1>6, InFlightIs
<1>. DEFINE n == ServedBy(s)
<1>8. n \in Masters /\ (arb[s].master_sel_valid_reg => Owns(n, s)) /\ MasterInv(n)
  BY <1>1, Owners DEF FabricInv
<1>9. arb[s].master_sel_valid_reg /\ Owns(n, s) /\ Pends(n) /\ Target(n) = s
  <2>1. CASE Requests(RequestAt(s))
    BY <1>8, <2>1, Asked DEF RequestAt, Requests
  <2>2. CASE InFlight(s) # 0
    <3>1. InFlight(s) > 0  BY <1>1, <2>2, InFlightIs
    <3>. QED BY <1>1, <1>8, <3>1 DEF Serves
  <2>. QED BY <1>7, <2>1, <2>2
<1>10. mst[n].cyc /\ Home(n) = s
  BY <1>1, <1>8, <1>9, AtHome DEF MasterInv
<1>. QED BY <1>4, <1>7, <1>8, <1>9, <1>10, Zenon

\* What a master sees.
LEMMA InputIs ==
  ASSUME FabricInv, NEW ready, NEW m \in Masters
  PROVE  LET in == InputOf(m, ready)
             s  == Target(m)
         IN  /\ in.ack \in BOOLEAN /\ in.err \in BOOLEAN /\ in.stall \in BOOLEAN /\ in.dat \in Words
             /\ s = NoSlave => in.err /\ ~in.ack /\ ~in.stall
             /\ s # NoSlave => ~in.err
             /\ s # NoSlave /\ ~Owns(m, s) => ~in.ack /\ in.stall
             /\ s # NoSlave /\ Owns(m, s) =>
                  /\ Kind[s] = "mem" => (in.ack <=> slv[s].ack) /\ ~in.stall /\ in.dat = slv[s].dat
                  /\ Kind[s] = "cache" => (in.ack <=> s \in ready) /\ (in.stall <=> s \notin ready)
                                          /\ in.dat = CellAt(s, ready)
                  /\ Kind[s] = "apb" => (in.ack <=> slv[s].state = "FSM_ENABLE")
                                        /\ (in.stall <=> slv[s].state = "FSM_SETUP")
                                        /\ in.dat = CellAt(s, ready)
<1>. DEFINE in == InputOf(m, ready)
            s == Target(m)
<1>1. BlankWord \in Words
  <2>1. 0 \in 0 .. MaxBurst + 1  BY FabricAssumption DEF CountValues
  <2>. QED BY <2>1 DEF BlankWord, Words
<1>2. CASE s = NoSlave
  <2>1. in = [ack |-> FALSE, err |-> TRUE, stall |-> FALSE, dat |-> BlankWord]
    BY <1>2 DEF InputOf
  <2>. QED BY <1>1, <1>2, <2>1
<1>3. CASE s # NoSlave /\ ~Owns(m, s)
  <2>1. in = [ack |-> FALSE, err |-> FALSE, stall |-> TRUE, dat |-> BlankWord]
    BY <1>3 DEF InputOf
  <2>. QED BY <1>1, <1>3, <2>1
<1>4. CASE s # NoSlave /\ Owns(m, s)
  <2>1. in = Answer(Kind[s], slv[s], s \in ready, CellAt(s, ready))
    BY <1>4 DEF InputOf
  <2>2. s \in Slaves
    BY <1>4, Wiring DEF Owns
  <2>3. /\ Kind[s] \in {"mem", "cache", "apb"} /\ slv[s].ack \in BOOLEAN /\ slv[s].dat \in Words
        /\ store[s] \in [Cells[s] -> Words]
    BY <2>2, SlaveTyped DEF FabricInv
  <2>4. CellAt(s, ready) \in Words
    BY <1>1, <2>3 DEF CellAt
  <2>5. CASE Kind[s] = "mem"
    <3>1. in = [ack |-> slv[s].ack, err |-> FALSE, stall |-> FALSE, dat |-> slv[s].dat]
      BY <2>1, <2>5 DEF Answer, MemAnswer
    <3>. HIDE DEF in, s
    <3>. QED BY <1>4, <2>3, <2>5, <3>1 DEF in, s
  <2>6. CASE Kind[s] = "cache"
    <3>. DEFINE rdy == s \in ready
                cell == CellAt(s, ready)
    <3>1. in = [ack |-> rdy, err |-> FALSE, stall |-> ~rdy, dat |-> cell]
      BY <2>1, <2>6 DEF Answer, CacheAnswer
    <3>2. rdy \in BOOLEAN  OBVIOUS
    <3>. HIDE DEF in, s, rdy, cell
    <3>3. in.ack = rdy /\ in.stall = (~rdy) /\ in.err = FALSE /\ in.dat = cell  BY <3>1
    <3>4. (in.ack <=> rdy) /\ (in.stall <=> ~rdy) /\ in.ack \in BOOLEAN /\ in.stall \in BOOLEAN
          /\ in.err \in BOOLEAN /\ ~in.err
      BY <3>2, <3>3
    <3>. QED BY <1>4, <2>4, <2>6, <3>3, <3>4, Zenon DEF in, s, rdy, cell
  <2>7. CASE Kind[s] = "apb"
    <3>. DEFINE ena == slv[s].state = "FSM_ENABLE"
                set == slv[s].state = "FSM_SETUP"
                cell == CellAt(s, ready)
    <3>1. in = [ack |-> ena, err |-> FALSE, stall |-> set, dat |-> cell]
      BY <2>1, <2>7 DEF Answer, ApbAnswer
    <3>2. ena \in BOOLEAN /\ set \in BOOLEAN  OBVIOUS
    <3>. HIDE DEF in, s, ena, set, cell
    <3>3. in.ack = ena /\ in.stall = set /\ in.err = FALSE /\ in.dat = cell  BY <3>1
    <3>4. (in.ack <=> ena) /\ (in.stall <=> set) /\ in.ack \in BOOLEAN /\ in.stall \in BOOLEAN
          /\ in.err \in BOOLEAN /\ ~in.err
      BY <3>2, <3>3
    <3>. QED BY <1>4, <2>4, <2>7, <3>3, <3>4, Zenon DEF in, s, ena, set, cell
  <2>. QED BY <2>3, <2>5, <2>6, <2>7
<1>. QED BY <1>2, <1>3, <1>4

\* A request of m is accepted in this cycle; a word of m reaches the memory.
Accepts(m, ready)  == mst[m].stb /\ ~InputOf(m, ready).stall
Performs(m, ready) == AccessAt(Home(m), ready).on /\ ServedBy(Home(m)) = m

\* What is in flight for m in slave s after the edge.
NextFlight(m, s) == IF Owns(m, s)' THEN InFlight(s)' ELSE 0

\* The balance of a slave over one cycle: what it accepts is in flight until
\* it is acknowledged; a synchronous memory performs what it accepts, the
\* others what they acknowledge.
LEMMA Ledger ==
  ASSUME FabricInv, NEW start \in StartChoices, NEW hold \in SUBSET Holding, NEW ready \in SUBSET Caches,
         Clock(start, hold, ready),
         NEW m \in Masters, Pends(m), NEW s \in Slaves, s = Home(m)
  PROVE  LET ack == InputOf(m, ready).ack
             acc == Accepts(m, ready)
             on  == Performs(m, ready)
         IN  /\ ack \/ acc \/ on => Owns(m, s)
             /\ Owns(m, s) => Owns(m, s)'
             /\ ack /\ acc => NextFlight(m, s) = Flight(m)
             /\ ack /\ ~acc => NextFlight(m, s) = Flight(m) - 1
             /\ ~ack /\ acc => NextFlight(m, s) = Flight(m) + 1
             /\ ~ack /\ ~acc => NextFlight(m, s) = Flight(m)
             /\ Kind[s] = "mem" => (on <=> acc) /\ (ack <=> Flight(m) = 1)
             /\ Kind[s] # "mem" => (on <=> ack)
             /\ Kind[s] = "mem" /\ ack => InputOf(m, ready).dat = slv[s].dat
             /\ Kind[s] = "mem" /\ on => slv'[s].dat = CellAt(s, ready)
             /\ Kind[s] # "mem" /\ ack => InputOf(m, ready).dat = CellAt(s, ready)
             /\ Kind[s] = "apb" /\ NextFlight(m, s) = 1 =>
                  IF acc
                    THEN slv'[s].req = [we |-> CmdOf(m).we, adr |-> RelAdr(s, mst[m].adr), dat |-> mst[m].dat]
                    ELSE slv'[s].req = slv[s].req /\ Flight(m) = 1 /\ ~ack
<1>. DEFINE in  == InputOf(m, ready)
            ack == in.ack
            acc == Accepts(m, ready)
            on  == Performs(m, ready)
            q   == RequestAt(s)
<1>1. TypeOK /\ MasterInv(m) /\ Serves(s) /\ s # NoSlave /\ Kind[s] \in {"mem", "cache", "apb"}
      /\ slv[s].state \in {"FSM_IDLE", "FSM_SETUP", "FSM_ENABLE"} /\ slv[s].ack \in BOOLEAN
  <2>1. TypeOK /\ MasterInv(m) /\ Serves(s)  BY DEF FabricInv
  <2>2. s # NoSlave  BY Wiring DEF NoSlave
  <2>. QED BY <2>1, <2>2, SlaveTyped
<1>2. Target(m) = s /\ mst[m].cyc /\ m \in MastersOf(s)
  BY <1>1, AtHome DEF MasterInv
<1>3. \A t \in ready : Kind[t] = "cache" /\ Requests(RequestAt(t))
  BY Edges
<1>4. /\ ack \in BOOLEAN /\ in.stall \in BOOLEAN
      /\ ~Owns(m, s) => ~ack /\ in.stall
      /\ Owns(m, s) =>
           /\ Kind[s] = "mem" => (ack <=> slv[s].ack) /\ ~in.stall /\ in.dat = slv[s].dat
           /\ Kind[s] = "cache" => (ack <=> s \in ready) /\ (in.stall <=> s \notin ready)
                                   /\ in.dat = CellAt(s, ready)
           /\ Kind[s] = "apb" => (ack <=> slv[s].state = "FSM_ENABLE")
                                 /\ (in.stall <=> slv[s].state = "FSM_SETUP")
                                 /\ in.dat = CellAt(s, ready)
  BY <1>1, <1>2, InputIs
<1>5. on => Owns(m, s)
  <2>1. on => AccessAt(s, ready).on /\ ServedBy(s) = m  BY DEF Performs
  <2>. QED BY <1>3, <2>1, Performed
<1>6. Flight(m) = (IF Owns(m, s) THEN InFlight(s) ELSE 0) /\ InFlight(s) \in {0, 1}
      /\ NextFlight(m, s) = IF Owns(m, s)' THEN InFlight(s)' ELSE 0
  BY <1>1, InFlightIs DEF Flight, NextFlight
<1>7. CASE ~Owns(m, s)
  <2>1. ~ack /\ ~acc /\ ~on
    BY <1>4, <1>5, <1>7 DEF Accepts
  <2>2. NextFlight(m, s) = 0
    <3>1. CASE InFlight(s)' = 0  BY <1>6, <3>1
    <3>2. CASE InFlight(s)' # 0
      <4>. DEFINE n == ServedBy(s)
      <4>1. n \in Masters /\ Owns(n, s) /\ mst[n].cyc /\ Target(n) = s
        BY <3>2, FlightIsOwned
      <4>2. n # m  BY <1>7, <4>1
      <4>. HIDE DEF n
      <4>3. ~Owns(m, s)'  BY <4>1, <4>2, OwnerKeeps
      <4>. QED BY <1>6, <4>3
    <3>. QED BY <3>1, <3>2
  <2>3. Flight(m) = 0  BY <1>6, <1>7
  <2>4. Flight(m) # 1 /\ NextFlight(m, s) # 1 /\ NextFlight(m, s) = Flight(m)  BY <2>2, <2>3
  <2>. QED BY <1>7, <2>1, <2>4, Zenon DEF Performs
<1>8. CASE Owns(m, s)
  <2>1. Owns(m, s)'
    BY <1>2, <1>8, OwnerKeeps
  <2>2. ServedBy(s) = m /\ arb[s].master_sel_valid_reg
    BY <1>1, <1>8, Owners
  <2>3. Requests(q) <=> mst[m].stb
    <3>1. q = [adr |-> RelAdr(s, mst[m].adr), dat |-> mst[m].dat, we |-> mst[m].we,
               stb |-> mst[m].stb, cyc |-> mst[m].cyc /\ Target(m) = s]
      BY <2>2 DEF RequestAt, ServedBy
    <3>2. q.stb = mst[m].stb  BY <3>1
    <3>3. q.cyc = (mst[m].cyc /\ Target(m) = s)  BY <3>1
    <3>. QED BY <1>2, <3>2, <3>3, Zenon DEF Requests
  <2>4. Flight(m) = InFlight(s) /\ NextFlight(m, s) = InFlight(s)'
    BY <1>6, <1>8, <2>1
  <2>5. on <=> AccessAt(s, ready).on
    BY <2>2 DEF Performs
  <2>6. acc <=> mst[m].stb /\ ~in.stall
    BY DEF Accepts
  <2>. HIDE DEF in, acc, on, q
  <2>7. CASE Kind[s] = "mem"
    <3>1. AccessAt(s, ready).on <=> Requests(q)
      BY <2>7, Zenon DEF AccessAt, AccessOf, q
    <3>2. (ack <=> slv[s].ack) /\ ~in.stall /\ in.dat = slv[s].dat
      BY <1>4, <1>8, <2>7
    <3>3. (on <=> acc) /\ (acc <=> mst[m].stb)
      BY <2>3, <2>5, <2>6, <3>1, <3>2
    <3>4. InFlight(s)' = IF slv'[s].ack THEN 1 ELSE 0
      BY <2>7 DEF InFlight
    <3>5. (slv'[s].ack <=> acc) /\ (acc => slv'[s].dat = CellAt(s, ready))
      BY <2>3, <2>7, <3>3, SlaveEdges DEF q
    <3>6. InFlight(s) = 1 <=> ack
      BY <1>1, <2>7, <3>2, InFlightIs
    <3>7. InFlight(s)' = IF acc THEN 1 ELSE 0
      BY <3>4, <3>5
    <3>8. /\ ack /\ acc => NextFlight(m, s) = Flight(m)
          /\ ack /\ ~acc => NextFlight(m, s) = Flight(m) - 1
          /\ ~ack /\ acc => NextFlight(m, s) = Flight(m) + 1
          /\ ~ack /\ ~acc => NextFlight(m, s) = Flight(m)
          /\ (ack <=> Flight(m) = 1)
      BY <1>6, <2>4, <3>6, <3>7
    <3>. QED BY <1>8, <2>1, <2>7, <3>2, <3>3, <3>5, <3>8, Zenon DEF in, acc, on
  <2>8. CASE Kind[s] = "cache"
    <3>1. AccessAt(s, ready).on <=> s \in ready
      BY <2>8, Zenon DEF AccessAt, AccessOf, q
    <3>2. (ack <=> s \in ready) /\ (in.stall <=> s \notin ready) /\ in.dat = CellAt(s, ready)
      BY <1>4, <1>8, <2>8
    <3>3. s \in ready => mst[m].stb
      BY <1>3, <2>3 DEF q
    <3>4. (on <=> ack) /\ (acc <=> ack)
      BY <2>5, <2>6, <3>1, <3>2, <3>3
    <3>5. InFlight(s)' = 0 /\ InFlight(s) = 0
      BY <2>8 DEF InFlight
    <3>6. NextFlight(m, s) = Flight(m)
      BY <2>4, <3>5
    <3>. QED BY <1>8, <2>1, <2>8, <3>2, <3>4, <3>6, Zenon DEF in, acc, on
  <2>9. CASE Kind[s] = "apb"
    <3>1. AccessAt(s, ready).on <=> slv[s].state = "FSM_ENABLE"
      BY <2>9, Zenon DEF AccessAt, AccessOf
    <3>2. (ack <=> slv[s].state = "FSM_ENABLE") /\ (in.stall <=> slv[s].state = "FSM_SETUP")
          /\ in.dat = CellAt(s, ready)
      BY <1>4, <1>8, <2>9
    <3>3. (on <=> ack) /\ (acc <=> mst[m].stb /\ slv[s].state # "FSM_SETUP")
      BY <2>5, <2>6, <3>1, <3>2
    <3>4. InFlight(s)' = IF slv'[s].state = "FSM_IDLE" THEN 0 ELSE 1
      BY <2>9 DEF InFlight
    <3>5. Flight(m) = IF slv[s].state = "FSM_IDLE" THEN 0 ELSE 1
      BY <1>1, <1>6, <2>4, <2>9, InFlightIs
    <3>6. /\ slv[s].state = "FSM_SETUP" => slv'[s].state = "FSM_ENABLE" /\ slv'[s].req = slv[s].req
          /\ slv[s].state # "FSM_SETUP" /\ acc =>
               /\ slv'[s].state = "FSM_SETUP"
               /\ slv'[s].req = [we |-> q.we, adr |-> q.adr, dat |-> q.dat]
          /\ slv[s].state # "FSM_SETUP" /\ ~acc => slv'[s].state = "FSM_IDLE"
      BY <2>3, <2>9, <3>3, SlaveEdges DEF q
    <3>7. acc => q.we = CmdOf(m).we /\ q.adr = RelAdr(s, mst[m].adr) /\ q.dat = mst[m].dat
      BY <2>2, <2>3, <3>3, Asked DEF q
    <3>8. /\ ack /\ acc => NextFlight(m, s) = Flight(m)
          /\ ack /\ ~acc => NextFlight(m, s) = Flight(m) - 1
          /\ ~ack /\ acc => NextFlight(m, s) = Flight(m) + 1
          /\ ~ack /\ ~acc => NextFlight(m, s) = Flight(m)
      BY <1>1, <2>4, <3>2, <3>3, <3>4, <3>5, <3>6
    <3>9. NextFlight(m, s) = 1 =>
            IF acc
              THEN slv'[s].req = [we |-> CmdOf(m).we, adr |-> RelAdr(s, mst[m].adr), dat |-> mst[m].dat]
              ELSE slv'[s].req = slv[s].req /\ Flight(m) = 1 /\ ~ack
      BY <1>1, <2>4, <3>2, <3>3, <3>4, <3>5, <3>6, <3>7
    <3>. QED BY <1>8, <2>1, <2>9, <3>2, <3>3, <3>8, <3>9, Zenon DEF in, acc, on
  <2>. QED BY <1>1, <2>7, <2>8, <2>9
<1>. QED BY <1>7, <1>8

LEMMA WordsOf ==
  ASSUME NEW val \in Vals \cup {Blank}, NEW k \in 0 .. MaxBurst + 1
  PROVE  DataOf(val, k) \in Words
BY DEF DataOf, Words

LEMMA BlankIsWord == BlankWord \in Words
<1>1. 0 \in 0 .. MaxBurst + 1  BY FabricAssumption DEF CountValues
<1>. QED BY <1>1 DEF BlankWord, Words

\* The registers of a pending master, its user and its command after the edge.
LEMMA PendingEdge ==
  ASSUME FabricInv, NEW start \in StartChoices, NEW hold \in SUBSET Holding, NEW ready \in SUBSET Caches,
         Clock(start, hold, ready),
         NEW m \in Masters, Pends(m)
  PROVE  LET in   == InputOf(m, ready)
             ends == (in.ack /\ mst[m].count_ack = 0) \/ in.err
         IN  /\ mst'[m].state = IF ends THEN "ST_IDLE" ELSE "ST_PENDING"
             /\ mst'[m].adr = IF in.stall THEN mst[m].adr ELSE WrapNext(mst[m].adr, CmdOf(m).burst)
             /\ in.stall => mst'[m].dat = mst[m].dat
             /\ ~in.stall /\ CmdOf(m).we => mst'[m].dat = DataOf(CmdOf(m).val, Accepted(m) + 1)
             /\ mst'[m].dat \in Words
             /\ mst'[m].we <=> CmdOf(m).we /\ ~ends
             /\ mst'[m].stb <=> mst[m].stb /\ (in.stall \/ mst[m].count # 0) /\ ~ends
             /\ mst'[m].cyc <=> (IF ends THEN m \in hold ELSE TRUE)
             /\ mst'[m].count = IF in.stall \/ mst[m].count = 0 THEN mst[m].count ELSE mst[m].count - 1
             /\ mst'[m].count_ack = IF ~in.ack THEN mst[m].count_ack
                                      ELSE IF mst[m].count_ack = 0 THEN CountValues - 1
                                      ELSE mst[m].count_ack - 1
             /\ mst'[m].mask = CmdOf(m).burst
             /\ mst'[m].dready_rd <=> ~CmdOf(m).we /\ (in.ack \/ ends)
             /\ mst'[m].dout = IF in.ack THEN in.dat ELSE mst[m].dout
             /\ mst'[m].complete <=> ends
             /\ mst'[m].err <=> in.err
             /\ mst'[m] \in MasterRegs(Adrs, Words)
<1>. DEFINE in   == InputOf(m, ready)
            r    == mst[m]
            u    == UserOf(m, start, hold)
            ends == (in.ack /\ r.count_ack = 0) \/ in.err
<1>1. TypeOK /\ MasterInv(m)
  BY DEF FabricInv
<1>2. /\ r.state = "ST_PENDING" /\ r.adr \in Adrs /\ r.dat \in Words /\ r.dout \in Words
      /\ r.we \in BOOLEAN /\ r.stb \in BOOLEAN /\ r.cyc \in BOOLEAN
      /\ r.count \in 0 .. CountValues - 1 /\ r.count_ack \in 0 .. CountValues - 1
      /\ r.mask \in 0 .. CountValues - 1
  BY <1>1, MasterTyped DEF Pends
<1>3. /\ in.ack \in BOOLEAN /\ in.err \in BOOLEAN /\ in.stall \in BOOLEAN /\ in.dat \in Words
  BY InputIs
<1>4. ~Starts(m, start)
  BY <1>2, Edges
<1>5. CmdOf(m) \in Commands[m] /\ CmdOf(m) # NoCommand
  <2>1. CmdOf(m) \in Commands[m]  BY <1>1 DEF MasterInv, Bursts
  <2>. QED BY <2>1, FabricAssumption DEF AllCommands
<1>6. /\ r.we = CmdOf(m).we /\ r.mask = CmdOf(m).burst /\ r.cyc /\ r.adr \in Line(CmdOf(m))
  BY <1>1 DEF MasterInv, Bursts
<1>7. u.din = (IF ~CmdOf(m).we THEN BlankWord ELSE DataOf(CmdOf(m).val, user[m].taken))
      /\ (u.hold <=> m \in hold) /\ u.hold \in BOOLEAN
  <2>. DEFINE din == IF ~CmdOf(m).we THEN BlankWord ELSE DataOf(CmdOf(m).val, user[m].taken)
              hld == m \in hold
  <2>1. u = [en |-> Starts(m, start), we |-> CmdOf(m).we, addr |-> CmdOf(m).adr, burst |-> CmdOf(m).burst,
             din |-> din, hold |-> hld]
    BY <1>4, <1>5, Zenon DEF UserOf, CommandOf, CmdOf
  <2>. HIDE DEF din, hld, u
  <2>2. u.din = din /\ u.hold = hld  BY <2>1
  <2>3. hld \in BOOLEAN  BY DEF hld
  <2>. QED BY <2>2, <2>3, Zenon DEF din, hld
<1>8. u.din \in Words /\ (CmdOf(m).we => u.din = DataOf(CmdOf(m).val, Accepted(m) + 1))
  <2>1. CmdOf(m).we => user[m].taken = Accepted(m) + 1
    BY <1>1 DEF MasterInv, Gives
  <2>2. Accepted(m) + 1 \in 0 .. MaxBurst + 1 /\ CmdOf(m).val \in Vals \cup {Blank}
    <3>1. Accepted(m) \in 0 .. CmdOf(m).burst /\ CmdOf(m).burst <= MaxBurst /\ CmdOf(m).burst \in Nat
      BY Numbers
    <3>2. MaxBurst \in Nat  BY FabricAssumption DEF CountValues
    <3>. QED BY <1>5, <3>1, <3>2, Lines
  <2>. QED BY <1>7, <2>1, <2>2, WordsOf, BlankIsWord
<1>9. mst'[m] = Pending(r, u, in)
  <2>1. mst'[m] = MasterEdge(r, u, in)  BY Edges
  <2>. HIDE DEF u, in
  <2>. QED BY <1>2, <2>1, Zenon DEF MasterEdge
<1>10. Ends(r, in) = ends
  BY DEF Ends
<1>. DEFINE new == [state     |-> IF ends THEN "ST_IDLE" ELSE "ST_PENDING",
                    adr       |-> NextAdr(r, in),
                    dat       |-> IF in.stall THEN r.dat ELSE u.din,
                    we        |-> r.we /\ ~ends,
                    stb       |-> r.stb /\ ~LastRequest(r, in) /\ ~ends,
                    cyc       |-> IF ends THEN u.hold ELSE r.cyc,
                    count     |-> NextCount(r, in),
                    count_ack |-> NextCountAck(r, in),
                    mask      |-> r.mask,
                    dready_rd |-> ~r.we /\ (in.ack \/ ends),
                    dout      |-> IF in.ack THEN in.dat ELSE r.dout,
                    complete  |-> ends,
                    err       |-> in.err]
<1>11. mst'[m] = new
  <2>. HIDE DEF u, in
  <2>. QED BY <1>9, <1>10, Zenon DEF Pending
<1>12. ends \in BOOLEAN
  BY <1>3
<1>. HIDE DEF r, u, in, ends
<1>13. NextAdr(r, in) = (IF in.stall THEN r.adr ELSE WrapNext(r.adr, CmdOf(m).burst))
       /\ NextAdr(r, in) \in Adrs
  <2>1. WrapNext(r.adr, CmdOf(m).burst) \in Adrs
    BY <1>5, <1>6, Lines
  <2>. QED BY <1>2, <1>6, <2>1, Zenon DEF NextAdr
<1>14. NextCount(r, in) = (IF in.stall \/ r.count = 0 THEN r.count ELSE r.count - 1)
       /\ NextCount(r, in) \in 0 .. CountValues - 1
  BY <1>2 DEF NextCount, CountValues
<1>15. NextCountAck(r, in) = (IF ~in.ack THEN r.count_ack ELSE IF r.count_ack = 0 THEN CountValues - 1 ELSE r.count_ack - 1)
       /\ NextCountAck(r, in) \in 0 .. CountValues - 1
  BY <1>2 DEF NextCountAck, CountValues
<1>16. LastRequest(r, in) <=> ~in.stall /\ r.count = 0
  BY DEF LastRequest
<1>17. (u.hold <=> m \in hold) /\ u.hold \in BOOLEAN
  BY <1>7 DEF u
<1>18. /\ mst'[m].state = (IF ends THEN "ST_IDLE" ELSE "ST_PENDING") /\ mst'[m].adr = NextAdr(r, in)
       /\ mst'[m].dat = (IF in.stall THEN r.dat ELSE u.din)
       /\ mst'[m].count = NextCount(r, in) /\ mst'[m].count_ack = NextCountAck(r, in)
       /\ mst'[m].mask = r.mask
       /\ mst'[m].dout = (IF in.ack THEN in.dat ELSE r.dout)
  BY <1>11
<1>19. mst'[m].we = (r.we /\ ~ends)  BY <1>11
<1>20. mst'[m].stb = (r.stb /\ ~LastRequest(r, in) /\ ~ends)  BY <1>11
<1>21. mst'[m].cyc = (IF ends THEN u.hold ELSE r.cyc)  BY <1>11
<1>22. mst'[m].dready_rd = (~r.we /\ (in.ack \/ ends))  BY <1>11
<1>23. mst'[m].complete = ends /\ mst'[m].err = in.err  BY <1>11
<1>24. /\ mst'[m].we <=> CmdOf(m).we /\ ~ends
       /\ mst'[m].stb <=> r.stb /\ (in.stall \/ r.count # 0) /\ ~ends
       /\ mst'[m].cyc <=> (IF ends THEN m \in hold ELSE TRUE)
       /\ mst'[m].dready_rd <=> ~CmdOf(m).we /\ (in.ack \/ ends)
       /\ mst'[m].complete <=> ends
       /\ mst'[m].err <=> in.err
  <2>1. mst'[m].we <=> CmdOf(m).we /\ ~ends  BY <1>6, <1>19, Zenon
  <2>2. mst'[m].stb <=> r.stb /\ (in.stall \/ r.count # 0) /\ ~ends  BY <1>16, <1>20, Zenon
  <2>3. mst'[m].cyc <=> (IF ends THEN m \in hold ELSE TRUE)  BY <1>6, <1>17, <1>21, Zenon
  <2>4. mst'[m].dready_rd <=> ~CmdOf(m).we /\ (in.ack \/ ends)  BY <1>6, <1>22, Zenon
  <2>. QED BY <1>23, <2>1, <2>2, <2>3, <2>4, Zenon
<1>25. /\ (r.we /\ ~ends) \in BOOLEAN
       /\ (r.stb /\ ~LastRequest(r, in) /\ ~ends) \in BOOLEAN
       /\ (IF ends THEN u.hold ELSE r.cyc) \in BOOLEAN
       /\ (~r.we /\ (in.ack \/ ends)) \in BOOLEAN
       /\ ends \in BOOLEAN /\ in.err \in BOOLEAN
  <2>1. r.cyc \in BOOLEAN  BY <1>2 DEF r
  <2>2. in.err \in BOOLEAN  BY <1>3 DEF in
  <2>. QED BY <1>12, <1>17, <2>1, <2>2, Zenon
<1>26. /\ (IF ends THEN "ST_IDLE" ELSE "ST_PENDING") \in {"ST_IDLE", "ST_PENDING"}
       /\ (IF in.stall THEN r.dat ELSE u.din) \in Words
       /\ (IF in.ack THEN in.dat ELSE r.dout) \in Words
       /\ r.mask \in 0 .. CountValues - 1
  BY <1>2, <1>3, <1>8 DEF r, in, u
<1>27. new \in MasterRegs(Adrs, Words)
  <2>. DEFINE state == IF ends THEN "ST_IDLE" ELSE "ST_PENDING"
              adr   == NextAdr(r, in)
              dat   == IF in.stall THEN r.dat ELSE u.din
              we    == r.we /\ ~ends
              stb   == r.stb /\ ~LastRequest(r, in) /\ ~ends
              cyc   == IF ends THEN u.hold ELSE r.cyc
              cnt   == NextCount(r, in)
              cntA  == NextCountAck(r, in)
              mask  == r.mask
              drdy  == ~r.we /\ (in.ack \/ ends)
              dout  == IF in.ack THEN in.dat ELSE r.dout
              err   == in.err
  <2>1. /\ state \in {"ST_IDLE", "ST_PENDING"} /\ adr \in Adrs /\ dat \in Words /\ dout \in Words
        /\ cnt \in 0 .. CountValues - 1 /\ cntA \in 0 .. CountValues - 1 /\ mask \in 0 .. CountValues - 1
    BY <1>13, <1>14, <1>15, <1>26
  <2>2. /\ we \in BOOLEAN /\ stb \in BOOLEAN /\ cyc \in BOOLEAN /\ drdy \in BOOLEAN
        /\ ends \in BOOLEAN /\ err \in BOOLEAN
    BY <1>25, Zenon
  <2>. HIDE DEF state, adr, dat, we, stb, cyc, cnt, cntA, mask, drdy, dout, err
  <2>3. [state |-> state, adr |-> adr, dat |-> dat, we |-> we, stb |-> stb, cyc |-> cyc, count |-> cnt,
         count_ack |-> cntA, mask |-> mask, dready_rd |-> drdy, dout |-> dout, complete |-> ends,
         err |-> err] \in MasterRegs(Adrs, Words)
    BY <2>1, <2>2 DEF MasterRegs
  <2>. QED BY <2>3, Zenon DEF state, adr, dat, we, stb, cyc, cnt, cntA, mask, drdy, dout, err
<1>. QED BY <1>6, <1>8, <1>11, <1>13, <1>14, <1>15, <1>18, <1>24, <1>26, <1>27 DEF r, in, ends

LEMMA UserTyped ==
  ASSUME TypeOK, NEW m \in Masters
  PROVE  /\ MaxBurst \in Nat
         /\ user[m] \in [taken : 0 .. MaxBurst + 1, rx : Seq(Words)]
         /\ user[m].taken \in 0 .. MaxBurst + 1 /\ user[m].rx \in Seq(Words) /\ Len(user[m].rx) <= MaxBurst + 1
         /\ Got(m) \in Seq(Words)
         /\ txn[m] \in [busy : BOOLEAN, cmd : Commands[m] \cup {NoCommand},
                        done : 0 .. MaxBurst + 1, res : Seq(Words)]
         /\ txn[m].busy \in BOOLEAN /\ txn[m].done \in 0 .. MaxBurst + 1 /\ txn[m].cmd \in Commands[m] \cup {NoCommand}
         /\ txn[m].res \in Seq(Words) /\ Len(txn[m].res) <= MaxBurst + 1
<1>1. MaxBurst \in Nat
  BY FabricAssumption DEF CountValues
<1>2. /\ user[m] \in [taken : 0 .. MaxBurst + 1, rx : Seq(Words)]
      /\ Len(user[m].rx) <= MaxBurst + 1
      /\ txn[m] \in [busy : BOOLEAN, cmd : Commands[m] \cup {NoCommand},
                     done : 0 .. MaxBurst + 1, res : Seq(Words)]
      /\ Len(txn[m].res) <= MaxBurst + 1
  BY DEF TypeOK
<1>. DEFINE W == Words
<1>3. user[m].rx \in Seq(W) /\ mst[m].dout \in W
  BY <1>2, MasterTyped
<1>4. Got(m) \in Seq(W)
  <2>. HIDE DEF W
  <2>. QED BY <1>3, AppendProperties DEF Got
<1>. QED BY <1>1, <1>2, <1>4

\* The user of a pending master after the edge.
LEMMA PendingUser ==
  ASSUME FabricInv, NEW start \in StartChoices, NEW hold \in SUBSET Holding, NEW ready \in SUBSET Caches,
         Clock(start, hold, ready),
         NEW m \in Masters, Pends(m)
  PROVE  /\ CmdOf(m).we =>
              /\ user'[m].rx = <<>>
              /\ user'[m].taken = IF InputOf(m, ready).stall \/ mst[m].count = 0
                                    THEN Accepted(m) + 1 ELSE Accepted(m) + 2
         /\ ~CmdOf(m).we => user'[m].rx = Got(m)
         /\ user'[m] \in [taken : 0 .. MaxBurst + 1, rx : Seq(Words)]
         /\ Len(user'[m].rx) <= MaxBurst + 1
<1>. DEFINE in    == InputOf(m, ready)
            u     == UserOf(m, start, hold)
            taken == DReady(mst[m], u, in)
<1>1. TypeOK /\ MasterInv(m)
  BY DEF FabricInv
<1>2. user'[m] = UserEdge(m, start, u, in) /\ ~Starts(m, start)
  BY Edges DEF Pends
<1>3. user[m] = [taken |-> user[m].taken, rx |-> user[m].rx]
      /\ user[m].taken \in Nat /\ user[m].rx \in Seq(Words) /\ Got(m) \in Seq(Words)
      /\ Len(user[m].rx) <= MaxBurst + 1 /\ Len(Got(m)) <= MaxBurst + 1 /\ MaxBurst \in Nat
      /\ user[m].taken <= MaxBurst + 1
  BY <1>1, UserTyped DEF MasterInv, RxFits
<1>. HIDE DEF in, u
<1>4. CASE CmdOf(m).we
  <2>1. user'[m] = [user[m] EXCEPT !.taken = IF taken THEN @ + 1 ELSE @]
    BY <1>2, <1>4 DEF UserEdge, Pends, CmdOf
  <2>2. taken <=> mst[m].count # 0 /\ ~in.stall
    <3>1. mst[m].we /\ ~mst[m].dready_rd /\ mst[m].state = "ST_PENDING"
      BY <1>1, <1>4 DEF MasterInv, Bursts, Gives, Pends
    <3>2. mst[m].count # 0 => taken = ~in.stall
      BY <3>1, Zenon DEF DReady
    <3>3. mst[m].count = 0 => taken = mst[m].dready_rd
      BY <3>1, Zenon DEF DReady
    <3>. QED BY <3>1, <3>2, <3>3, Zenon
  <2>3. user[m].taken = Accepted(m) + 1 /\ user[m].rx = <<>>
    BY <1>1, <1>4 DEF MasterInv, Gives
  <2>. HIDE DEF taken
  <2>. DEFINE k == IF taken THEN user[m].taken + 1 ELSE user[m].taken
  <2>4. user'[m] = [taken |-> k, rx |-> <<>>]
    BY <1>3, <2>1, <2>3
  <2>5. k = IF in.stall \/ mst[m].count = 0 THEN Accepted(m) + 1 ELSE Accepted(m) + 2
    <3>1. Accepted(m) \in Nat  BY Numbers
    <3>. QED BY <2>2, <2>3, <3>1
  <2>6. k \in 0 .. MaxBurst + 1
    <3>1. /\ CmdOf(m).burst \in Nat /\ mst[m].count \in 0 .. CmdOf(m).burst
          /\ CmdOf(m).burst <= MaxBurst
      BY Numbers
    <3>. QED BY <1>3, <2>5, <3>1 DEF Accepted
  <2>7. <<>> \in Seq(Words) /\ Len(<<>>) = 0
    BY EmptySeq
  <2>. HIDE DEF k
  <2>. QED BY <1>3, <1>4, <2>4, <2>5, <2>6, <2>7 DEF in
<1>5. CASE ~CmdOf(m).we
  <2>1. user'[m] = IF mst[m].dready_rd THEN [user[m] EXCEPT !.rx = Append(@, mst[m].dout)] ELSE user[m]
    BY <1>2, <1>5 DEF UserEdge, Pends, CmdOf
  <2>2. user'[m] = [taken |-> user[m].taken, rx |-> Got(m)]
    BY <1>3, <2>1 DEF Got
  <2>. QED BY <1>3, <1>5, <2>2
<1>. QED BY <1>4, <1>5

\* The command of a pending master after the edge.
LEMMA PendingTxn ==
  ASSUME FabricInv, NEW start \in StartChoices, NEW hold \in SUBSET Holding, NEW ready \in SUBSET Caches,
         Clock(start, hold, ready),
         NEW m \in Masters, Pends(m)
  PROVE  /\ txn'[m].busy /\ txn'[m].cmd = txn[m].cmd
         /\ IF Home(m) # NoSlave /\ Performs(m, ready)
              THEN /\ txn'[m].done = txn[m].done + 1
                   /\ CmdOf(m).we => txn'[m].res = txn[m].res
                   /\ ~CmdOf(m).we => txn'[m].res = Append(txn[m].res, CellAt(Home(m), ready))
              ELSE txn'[m] = txn[m]
         /\ txn'[m] = [busy |-> TRUE, cmd |-> txn[m].cmd, done |-> txn'[m].done, res |-> txn'[m].res]
<1>1. TypeOK /\ MasterInv(m)
  BY DEF FabricInv
<1>2. txn'[m] = TxnEdge(m, start, ready) /\ ~Starts(m, start)
  BY Edges DEF Pends
<1>3. txn[m] = [busy |-> txn[m].busy, cmd |-> txn[m].cmd, done |-> txn[m].done, res |-> txn[m].res]
  BY <1>1, UserTyped
<1>4. txn[m].busy /\ ~mst[m].complete
  BY <1>1 DEF MasterInv, Bursts
<1>5. txn[m].busy = TRUE
  <2>1. txn[m].busy \in BOOLEAN  BY <1>1, UserTyped
  <2>. QED BY <1>4, <2>1
<1>6. CASE Home(m) # NoSlave /\ Performs(m, ready)
  <2>. DEFINE s == Home(m)
              a == AccessAt(s, ready)
  <2>1. a.on /\ ServedBy(s) = m
    BY <1>6 DEF Performs
  <2>2. txn'[m] = [txn[m] EXCEPT !.done = @ + 1, !.res = IF a.we THEN @ ELSE Append(@, CellAt(s, ready))]
    BY <1>2, <1>4, <1>6, <2>1, Zenon DEF TxnEdge, Home, CmdOf
  <2>3. a.we = CmdOf(m).we
    <3>1. s \in Slaves  BY <1>6, Decoded DEF Home
    <3>2. \A t \in ready : Kind[t] = "cache" /\ Requests(RequestAt(t))  BY Edges
    <3>3. a.we = CmdOf(ServedBy(s)).we
      <4>. HIDE DEF s
      <4>. QED BY <2>1, <3>1, <3>2, Performed
    <3>. QED BY <2>1, <3>3
  <2>. HIDE DEF a, s
  <2>4. txn'[m] = [busy |-> TRUE, cmd |-> txn[m].cmd, done |-> txn[m].done + 1,
                   res |-> IF CmdOf(m).we THEN txn[m].res ELSE Append(txn[m].res, CellAt(s, ready))]
    BY <1>3, <1>5, <2>2, <2>3
  <2>. QED BY <1>6, <2>4 DEF s
<1>7. CASE ~(Home(m) # NoSlave /\ Performs(m, ready))
  <2>1. txn'[m] = txn[m]
    BY <1>2, <1>4, <1>7, Zenon DEF TxnEdge, Home, CmdOf, Performs
  <2>. QED BY <1>3, <1>5, <1>7, <2>1
<1>. QED BY <1>6, <1>7

\* The command, and with it the home, of a pending master does not change.
LEMMA HomeStays ==
  ASSUME FabricInv, NEW start \in StartChoices, NEW hold \in SUBSET Holding, NEW ready \in SUBSET Caches,
         Clock(start, hold, ready),
         NEW m \in Masters, Pends(m)
  PROVE  /\ CmdOf(m)' = CmdOf(m) /\ Home(m)' = Home(m)
         /\ \A k : Word(m, k)' = Word(m, k)
         /\ \A s : s = Home(m) => Flight(m)' = NextFlight(m, s) /\ (Owns(m, Home(m))' <=> Owns(m, s)')
         /\ mst'[m].adr \in Line(CmdOf(m)) /\ Target(m)' = Home(m)
<1>1. txn'[m].cmd = txn[m].cmd
  BY PendingTxn
<1>2. CmdOf(m)' = CmdOf(m)
  BY <1>1 DEF CmdOf
<1>3. Home(m)' = Home(m)
  BY <1>2 DEF Home
<1>4. \A k : Word(m, k)' = Word(m, k)
  BY <1>2 DEF Word
<1>5. ASSUME NEW s, s = Home(m)
      PROVE  Flight(m)' = NextFlight(m, s) /\ (Owns(m, Home(m))' <=> Owns(m, s)')
  <2>1. Owns(m, Home(m))' <=> Owns(m, s)'
    BY <1>3, <1>5 DEF Owns, Arb!Connected
  <2>2. InFlight(Home(m))' = InFlight(s)'
    BY <1>3, <1>5 DEF InFlight
  <2>. QED BY <2>1, <2>2 DEF Flight, NextFlight
<1>6. mst'[m].adr \in Line(CmdOf(m)) /\ CmdOf(m) \in Commands[m]
  <2>1. mst[m].adr \in Line(CmdOf(m)) /\ CmdOf(m) \in Commands[m]
    BY DEF FabricInv, MasterInv, Bursts
  <2>2. mst'[m].adr = mst[m].adr \/ mst'[m].adr = WrapNext(mst[m].adr, CmdOf(m).burst)
    BY PendingEdge
  <2>. QED BY <2>1, <2>2, Lines
<1>7. Target(m)' = Home(m)
  BY <1>6, Lines, Zenon DEF Target, Home
<1>. QED BY <1>2, <1>3, <1>4, <1>5, <1>6, <1>7

\* A command without a slave ends at once, with the error of the decoder.
LEMMA PendingLoses ==
  ASSUME FabricInv, NEW start \in StartChoices, NEW hold \in SUBSET Holding, NEW ready \in SUBSET Caches,
         Clock(start, hold, ready),
         NEW m \in Masters, Pends(m), Home(m) = NoSlave
  PROVE  MasterInv(m)'
<1>. DEFINE in == InputOf(m, ready)
<1>1. TypeOK /\ MasterInv(m) /\ Target(m) = NoSlave
  BY AtHome DEF FabricInv, MasterInv
<1>2. in.err /\ ~in.ack /\ ~in.stall
  BY <1>1, InputIs
<1>3. /\ mst'[m].state = "ST_IDLE" /\ ~mst'[m].stb /\ mst'[m].complete /\ mst'[m].err
      /\ mst'[m] \in MasterRegs(Adrs, Words)
  BY <1>2, PendingEdge
<1>4. ~Pends(m)'
  BY <1>3 DEF Pends
<1>5. txn'[m] = txn[m] /\ txn'[m].busy /\ txn[m].done = 0
  BY <1>1, PendingTxn DEF MasterInv, NoneYet
<1>6. user'[m].rx = <<>>
  <2>1. Got(m) = <<>>
    BY <1>1 DEF MasterInv, NoneYet, Got
  <2>2. CmdOf(m).we => user'[m].rx = <<>>
    BY PendingUser
  <2>3. ~CmdOf(m).we => user'[m].rx = Got(m)
    BY PendingUser
  <2>. QED BY <2>1, <2>2, <2>3
<1>7. Rests(m)'
  BY <1>3, <1>5 DEF Rests
<1>8. Keeps(m)'
  <2>1. Target(m)' = NoSlave
    BY HomeStays
  <2>. QED BY <1>4, <2>1 DEF Keeps
<1>9. Told(m)'
  <2>1. CmdOf(m)' = CmdOf(m) /\ Home(m)' = NoSlave /\ CmdOf(m) \in Commands[m]
    BY <1>1, HomeStays DEF MasterInv, Bursts
  <2>. QED BY <1>3, <1>5, <2>1 DEF Told
<1>10. RxFits(m)'
  <2>1. MaxBurst \in Nat  BY <1>1, UserTyped
  <2>2. mst'[m].dout \in Words  BY <1>3 DEF MasterRegs
  <2>3. Got(m)' = <<>> \/ Got(m)' = <<mst'[m].dout>>
    BY <1>6 DEF Got
  <2>4. Len(Got(m)') <= 1
    BY <2>2, <2>3, EmptySeq
  <2>5. Len(Got(m)') \in Nat
    BY <2>2, <2>3, EmptySeq
  <2>. QED BY <2>1, <2>4, <2>5 DEF RxFits
<1>. QED BY <1>4, <1>7, <1>8, <1>9, <1>10
     DEF MasterInv, Bursts, Asks, Gives, NoneYet, Counts, Reads, Bridges

\* The counters of a pending master after the edge.
LEMMA PendingCounts ==
  ASSUME FabricInv, NEW start \in StartChoices, NEW hold \in SUBSET Holding, NEW ready \in SUBSET Caches,
         Clock(start, hold, ready),
         NEW m \in Masters, Pends(m), NEW s \in Slaves, s = Home(m)
  PROVE  LET ack  == InputOf(m, ready).ack
             ends == ack /\ mst[m].count_ack = 0
         IN  /\ ~InputOf(m, ready).err /\ ack \in BOOLEAN
             /\ ~ends =>
                  /\ mst'[m].count_ack = IF ack THEN mst[m].count_ack - 1 ELSE mst[m].count_ack
                  /\ mst'[m].count_ack \in 0 .. CmdOf(m).burst
                  /\ mst'[m].count_ack + 1 = ToBeAccepted(m)' + Flight(m)'
                  /\ txn'[m].done = (CmdOf(m).burst - mst'[m].count_ack) + MemFlight(m)'
             /\ Flight(m)' \in {0, 1} /\ MemFlight(m)' \in {0, 1}
             /\ ends => /\ txn'[m].done = CmdOf(m).burst + 1
                        /\ Performs(m, ready) <=> Kind[s] # "mem"
<1>. DEFINE in   == InputOf(m, ready)
            ack  == in.ack
            acc  == Accepts(m, ready)
            on   == Performs(m, ready)
            ends == ack /\ mst[m].count_ack = 0
            ca   == mst[m].count_ack
            F    == Flight(m)
            MF   == MemFlight(m)
            NF   == NextFlight(m, s)
            T    == ToBeAccepted(m)
            b    == CmdOf(m).burst
<1>1. TypeOK /\ MasterInv(m) /\ s # NoSlave /\ Target(m) = s /\ Kind[s] \in {"mem", "cache", "apb"}
  <2>1. TypeOK /\ MasterInv(m)  BY DEF FabricInv
  <2>2. s # NoSlave  BY Wiring DEF NoSlave
  <2>. QED BY <2>1, <2>2, AtHome, SlaveTyped DEF MasterInv
<1>2. ~in.err /\ ack \in BOOLEAN /\ in.stall \in BOOLEAN
  BY <1>1, InputIs
<1>3. /\ ack /\ acc => NF = F
      /\ ack /\ ~acc => NF = F - 1
      /\ ~ack /\ acc => NF = F + 1
      /\ ~ack /\ ~acc => NF = F
      /\ Kind[s] = "mem" => (on <=> acc) /\ (ack <=> F = 1)
      /\ Kind[s] # "mem" => (on <=> ack)
  BY Ledger
<1>4. /\ b \in Nat /\ ca \in 0 .. b /\ mst[m].count \in 0 .. b /\ F \in {0, 1} /\ MF \in {0, 1}
      /\ txn[m].done = (b - ca) + MF
      /\ mst[m].stb => F = ca - mst[m].count
      /\ ~mst[m].stb => F = 1 /\ ca = 0
  BY <1>1, Numbers
<1>5. F = (IF Owns(m, s) THEN InFlight(s) ELSE 0) /\ MF = IF Kind[s] = "mem" THEN F ELSE 0
  BY DEF Flight, MemFlight
<1>6. Flight(m)' = NF /\ MemFlight(m)' = IF Kind[s] = "mem" THEN NF ELSE 0
  BY HomeStays DEF MemFlight
<1>7. acc <=> mst[m].stb /\ ~in.stall
  BY DEF Accepts
<1>8. txn'[m].done = IF on THEN txn[m].done + 1 ELSE txn[m].done
  <2>1. Home(m) # NoSlave  BY <1>1
  <2>. QED BY <2>1, PendingTxn
<1>9. NF \in {0, 1}
  <2>1. InFlight(s)' \in {0, 1}
    BY <1>1 DEF InFlight
  <2>. QED BY <2>1 DEF NextFlight
<1>10. /\ mst'[m].stb <=> mst[m].stb /\ (in.stall \/ mst[m].count # 0) /\ ~ends
       /\ mst'[m].count = IF in.stall \/ mst[m].count = 0 THEN mst[m].count ELSE mst[m].count - 1
       /\ ~ends => mst'[m].count_ack = IF ack THEN ca - 1 ELSE ca
  <2>1. mst'[m].stb <=> mst[m].stb /\ (in.stall \/ mst[m].count # 0) /\ ~(ends \/ in.err)
    BY PendingEdge
  <2>2. mst'[m].count = IF in.stall \/ mst[m].count = 0 THEN mst[m].count ELSE mst[m].count - 1
    BY PendingEdge
  <2>3. mst'[m].count_ack = IF ~ack THEN ca ELSE IF ca = 0 THEN CountValues - 1 ELSE ca - 1
    BY PendingEdge
  <2>. HIDE DEF in
  <2>4. ~ends => mst'[m].count_ack = IF ack THEN ca - 1 ELSE ca
    BY <2>3
  <2>. QED BY <1>2, <2>1, <2>2, <2>4
<1>11. ToBeAccepted(m)' = IF mst'[m].stb THEN mst'[m].count + 1 ELSE 0
  BY DEF ToBeAccepted
<1>12. T = IF mst[m].stb THEN mst[m].count + 1 ELSE 0
  BY DEF ToBeAccepted
<1>. HIDE DEF in, acc, on, F, MF, NF, T, b
<1>13. ASSUME ~ends
       PROVE  /\ mst'[m].count_ack = IF ack THEN ca - 1 ELSE ca
              /\ mst'[m].count_ack \in 0 .. b
              /\ mst'[m].count_ack + 1 = ToBeAccepted(m)' + NF
              /\ txn'[m].done = (b - mst'[m].count_ack) + (IF Kind[s] = "mem" THEN NF ELSE 0)
  <2>1. mst'[m].count_ack = (IF ack THEN ca - 1 ELSE ca) /\ mst'[m].count_ack \in 0 .. b
    BY <1>4, <1>10, <1>13
  <2>2. ToBeAccepted(m)' = IF acc THEN T - 1 ELSE T
    BY <1>4, <1>7, <1>10, <1>11, <1>12, <1>13
  <2>3. ca + 1 = T + F
    BY <1>4, <1>12
  <2>4. T \in Nat /\ (acc => T > 0)
    BY <1>4, <1>7, <1>12
  <2>5. mst'[m].count_ack + 1 = ToBeAccepted(m)' + NF
    <3>1. CASE ack /\ acc    BY <1>3, <1>4, <2>1, <2>2, <2>3, <2>4, <3>1
    <3>2. CASE ack /\ ~acc   BY <1>3, <1>4, <2>1, <2>2, <2>3, <2>4, <3>2
    <3>3. CASE ~ack /\ acc   BY <1>3, <1>4, <2>1, <2>2, <2>3, <2>4, <3>3
    <3>4. CASE ~ack /\ ~acc  BY <1>3, <1>4, <2>1, <2>2, <2>3, <2>4, <3>4
    <3>. QED BY <1>2, <3>1, <3>2, <3>3, <3>4
  <2>6. txn'[m].done = (b - mst'[m].count_ack) + (IF Kind[s] = "mem" THEN NF ELSE 0)
    BY <1>2, <1>3, <1>4, <1>5, <1>8, <2>1
  <2>. QED BY <2>1, <2>5, <2>6
<1>14. ASSUME ends
       PROVE  /\ txn'[m].done = b + 1
              /\ on <=> Kind[s] # "mem"
  <2>1. CASE Kind[s] = "mem"
    <3>1. F = 1 /\ MF = 1 /\ ~mst[m].stb
      BY <1>3, <1>4, <1>5, <1>14, <2>1
    <3>. QED BY <1>3, <1>4, <1>7, <1>8, <1>14, <2>1, <3>1
  <2>2. CASE Kind[s] # "mem"
    BY <1>3, <1>4, <1>5, <1>8, <1>14, <2>2
  <2>. QED BY <2>1, <2>2
<1>. QED BY <1>2, <1>6, <1>9, <1>13, <1>14 DEF in, on, b

\* What a pending master has read, after the edge.
LEMMA PendingReads ==
  ASSUME FabricInv, NEW start \in StartChoices, NEW hold \in SUBSET Holding, NEW ready \in SUBSET Caches,
         Clock(start, hold, ready),
         NEW m \in Masters, Pends(m), NEW s \in Slaves, s = Home(m), ~CmdOf(m).we
  PROVE  LET ack  == InputOf(m, ready).ack
             ends == ack /\ mst[m].count_ack = 0
         IN  /\ txn'[m].res = Seen(m)' /\ Len(txn'[m].res) = txn'[m].done
             /\ txn'[m].res \in Seq(Words) /\ Got(m)' \in Seq(Words)
             /\ Len(Got(m)') <= Len(txn'[m].res)
             /\ mst'[m].dready_rd <=> ack
             /\ ends => txn'[m].res = Got(m)'
<1>. DEFINE in   == InputOf(m, ready)
            ack  == in.ack
            acc  == Accepts(m, ready)
            on   == Performs(m, ready)
            F    == Flight(m)
            NF   == NextFlight(m, s)
            cell == CellAt(s, ready)
            G    == Got(m)
            W    == Words
<1>1. TypeOK /\ MasterInv(m) /\ s # NoSlave /\ Target(m) = s /\ Kind[s] \in {"mem", "cache", "apb"}
  <2>1. TypeOK /\ MasterInv(m)  BY DEF FabricInv
  <2>2. s # NoSlave  BY Wiring DEF NoSlave
  <2>. QED BY <2>1, <2>2, AtHome, SlaveTyped DEF MasterInv
<1>2. ~in.err /\ ack \in BOOLEAN /\ in.stall \in BOOLEAN /\ in.dat \in W
  BY <1>1, InputIs
<1>3. /\ ack /\ acc => NF = F
      /\ ack /\ ~acc => NF = F - 1
      /\ ~ack /\ acc => NF = F + 1
      /\ ~ack /\ ~acc => NF = F
      /\ Kind[s] = "mem" => (on <=> acc) /\ (ack <=> F = 1)
      /\ Kind[s] # "mem" => (on <=> ack)
      /\ Kind[s] = "mem" /\ ack => in.dat = slv[s].dat
      /\ Kind[s] = "mem" /\ on => slv'[s].dat = cell
      /\ Kind[s] # "mem" /\ ack => in.dat = cell
  <2>1. /\ ack /\ acc => NF = F
        /\ ack /\ ~acc => NF = F - 1
        /\ ~ack /\ acc => NF = F + 1
        /\ ~ack /\ ~acc => NF = F
    BY Ledger
  <2>2. /\ Kind[s] = "mem" => (on <=> acc) /\ (ack <=> F = 1)
        /\ Kind[s] # "mem" => (on <=> ack)
    BY Ledger
  <2>3. Kind[s] = "mem" /\ ack => in.dat = slv[s].dat  BY Ledger
  <2>4. Kind[s] = "mem" /\ on => slv'[s].dat = cell  BY Ledger
  <2>5. Kind[s] # "mem" /\ ack => in.dat = cell  BY Ledger
  <2>. QED BY <2>1, <2>2, <2>3, <2>4, <2>5, Zenon
<1>4. F \in {0, 1}
      /\ (Kind[s] = "mem" /\ F = 1 /\ mst[m].count_ack = 0 => ~acc)
  <2>1. /\ F \in {0, 1} /\ mst[m].count \in Nat /\ mst[m].count_ack \in Nat
        /\ (mst[m].stb => F = mst[m].count_ack - mst[m].count)
    BY <1>1, Numbers
  <2>2. acc => mst[m].stb  BY DEF Accepts
  <2>. QED BY <2>1, <2>2
<1>5. MemFlight(m) = (IF Kind[s] = "mem" THEN F ELSE 0)
      /\ MemFlight(m)' = (IF Kind[s] = "mem" THEN NF ELSE 0)
  BY HomeStays DEF MemFlight
<1>6. txn[m].res = Seen(m) /\ Len(txn[m].res) = txn[m].done
  BY <1>1 DEF MasterInv, Reads
<1>7. Seen(m) = (IF MemFlight(m) = 1 THEN Append(G, slv[s].dat) ELSE G)
      /\ Seen(m)' = (IF MemFlight(m)' = 1 THEN Append(Got(m)', slv'[s].dat) ELSE Got(m)')
  <2>1. slv[Home(m)]' = slv'[s]  BY HomeStays
  <2>. QED BY <2>1 DEF Seen
<1>8. mst'[m].dready_rd <=> ack
  <2>1. mst'[m].dready_rd <=> ~CmdOf(m).we /\ (ack \/ ((ack /\ mst[m].count_ack = 0) \/ in.err))
    BY PendingEdge
  <2>. QED BY <1>2, <2>1, Zenon
<1>9. Got(m)' = IF ack THEN Append(G, in.dat) ELSE G
  <2>1. user'[m].rx = G  BY PendingUser
  <2>2. ack => mst'[m].dout = in.dat  BY PendingEdge
  <2>3. Got(m)' = IF mst'[m].dready_rd THEN Append(user'[m].rx, mst'[m].dout) ELSE user'[m].rx  BY DEF Got
  <2>. QED BY <1>8, <2>1, <2>2, <2>3
<1>10. /\ txn'[m].res = IF on THEN Append(txn[m].res, cell) ELSE txn[m].res
       /\ txn'[m].done = IF on THEN txn[m].done + 1 ELSE txn[m].done
  <2>1. Home(m) # NoSlave  BY <1>1
  <2>. QED BY <2>1, PendingTxn
<1>11. G \in Seq(W) /\ txn[m].res \in Seq(W) /\ cell \in W /\ txn[m].done \in Nat
  <2>1. store[s] \in [Cells[s] -> Words]  BY <1>1, SlaveTyped
  <2>2. cell \in W  BY <2>1, BlankIsWord DEF CellAt
  <2>. QED BY <1>1, <2>2, UserTyped
<1>. HIDE DEF in, acc, on, F, NF, cell, G, W
<1>12. Got(m)' \in Seq(W) /\ (ack => Len(Got(m)') = Len(G) + 1) /\ (~ack => Len(Got(m)') = Len(G)) /\ Len(G) \in Nat
  BY <1>2, <1>9, <1>11, AppendProperties, LenProperties
<1>13. Len(txn'[m].res) = txn'[m].done /\ txn'[m].res \in Seq(W)
  BY <1>6, <1>10, <1>11, AppendProperties
<1>14. CASE Kind[s] = "mem"
  <2>1. NF = 1 <=> on
    BY <1>2, <1>3, <1>4, <1>14
  <2>2. Got(m)' = txn[m].res
    BY <1>3, <1>5, <1>6, <1>7, <1>9, <1>14
  <2>3. txn'[m].res = Seen(m)'
    BY <1>3, <1>5, <1>7, <1>10, <1>14, <2>1, <2>2
  <2>4. Len(Got(m)') <= Len(txn'[m].res)
    BY <1>6, <1>10, <1>11, <1>13, <2>2
  <2>5. ack /\ mst[m].count_ack = 0 => txn'[m].res = Got(m)'
    BY <1>3, <1>4, <1>10, <1>14, <2>2
  <2>. QED BY <1>8, <1>12, <1>13, <2>3, <2>4, <2>5 DEF in, W
<1>15. CASE Kind[s] # "mem"
  <2>1. txn[m].res = G
    BY <1>5, <1>6, <1>7, <1>15
  <2>2. txn'[m].res = Got(m)'
    BY <1>2, <1>3, <1>9, <1>10, <1>15, <2>1
  <2>3. Seen(m)' = Got(m)'
    BY <1>5, <1>7, <1>15
  <2>4. Len(Got(m)') \in Nat
    BY <1>12, LenProperties
  <2>. QED BY <1>8, <1>12, <1>13, <2>2, <2>3, <2>4 DEF in, W
<1>. QED BY <1>14, <1>15

\* The request that the bridge holds for a pending master, after the edge.
LEMMA PendingBridges ==
  ASSUME FabricInv, NEW start \in StartChoices, NEW hold \in SUBSET Holding, NEW ready \in SUBSET Caches,
         Clock(start, hold, ready),
         NEW m \in Masters, Pends(m), NEW s \in Slaves, s = Home(m), Kind[s] = "apb", NextFlight(m, s) = 1
  PROVE  /\ slv'[s].req.we = CmdOf(m).we
         /\ slv'[s].req.adr = RelAdr(s, Word(m, txn'[m].done))
         /\ CmdOf(m).we => slv'[s].req.dat = DataOf(CmdOf(m).val, txn'[m].done)
<1>. DEFINE ack == InputOf(m, ready).ack
            acc == Accepts(m, ready)
            on  == Performs(m, ready)
<1>1. TypeOK /\ MasterInv(m) /\ s # NoSlave
  BY Wiring DEF FabricInv, NoSlave
<1>2. /\ on <=> ack
      /\ ack /\ ~acc => NextFlight(m, s) = Flight(m) - 1
      /\ IF acc
           THEN slv'[s].req = [we |-> CmdOf(m).we, adr |-> RelAdr(s, mst[m].adr), dat |-> mst[m].dat]
           ELSE slv'[s].req = slv[s].req /\ Flight(m) = 1 /\ ~ack
  BY Ledger
<1>3. txn'[m].done = IF on THEN txn[m].done + 1 ELSE txn[m].done
  <2>1. Home(m) # NoSlave  BY <1>1
  <2>. QED BY <2>1, PendingTxn
<1>4. CASE acc
  <2>1. mst[m].stb
    BY <1>4 DEF Accepts
  <2>2. mst[m].adr = Word(m, Accepted(m)) /\ (CmdOf(m).we => mst[m].dat = DataOf(CmdOf(m).val, Accepted(m)))
    BY <1>1, <2>1 DEF MasterInv, Asks
  <2>3. txn'[m].done = Accepted(m)
    <3>1. /\ CmdOf(m).burst \in Nat /\ mst[m].count \in Nat /\ mst[m].count_ack \in Nat
          /\ Flight(m) \in {0, 1}
          /\ Flight(m) = mst[m].count_ack - mst[m].count
          /\ txn[m].done = (CmdOf(m).burst - mst[m].count_ack) + MemFlight(m)
      BY <1>1, <2>1, Numbers
    <3>2. MemFlight(m) = 0  BY DEF MemFlight
    <3>3. ack /\ acc => NextFlight(m, s) = Flight(m)  BY Ledger
    <3>4. ~ack /\ acc => NextFlight(m, s) = Flight(m) + 1  BY Ledger
    <3>5. Flight(m) = IF ack THEN 1 ELSE 0
      BY <1>4, <3>1, <3>3, <3>4
    <3>. HIDE DEF ack, on
    <3>. QED BY <1>2, <1>3, <3>1, <3>2, <3>5 DEF Accepted
  <2>. QED BY <1>2, <1>4, <2>2, <2>3
<1>5. CASE ~acc
  <2>1. slv'[s].req = slv[s].req /\ Flight(m) = 1 /\ txn'[m].done = txn[m].done
    BY <1>2, <1>3, <1>5
  <2>. QED BY <1>1, <2>1 DEF MasterInv, Bridges
<1>. QED BY <1>4, <1>5

\* A pending master that goes on: it is at the next word, or at the same one.
LEMMA PendingGoes ==
  ASSUME FabricInv, NEW start \in StartChoices, NEW hold \in SUBSET Holding, NEW ready \in SUBSET Caches,
         Clock(start, hold, ready),
         NEW m \in Masters, Pends(m), NEW s \in Slaves, s = Home(m),
         ~(InputOf(m, ready).ack /\ mst[m].count_ack = 0)
  PROVE  MasterInv(m)'
<1>. DEFINE in    == InputOf(m, ready)
            stall == in.stall
            b     == CmdOf(m).burst
            k     == Accepted(m)
<1>1. TypeOK /\ MasterInv(m) /\ s # NoSlave /\ ~in.err /\ in.stall \in BOOLEAN /\ in.ack \in BOOLEAN
  <2>1. TypeOK /\ MasterInv(m)  BY DEF FabricInv
  <2>2. s # NoSlave  BY Wiring DEF NoSlave
  <2>3. Target(m) = s  BY <2>1, AtHome DEF MasterInv
  <2>. QED BY <2>1, <2>2, <2>3, InputIs
<1>2. /\ CmdOf(m) \in Commands[m] /\ b \in Nat /\ k \in 0 .. b /\ CmdOf(m).we \in BOOLEAN /\ b <= MaxBurst
      /\ mst[m].count \in 0 .. b /\ mst[m].stb \in BOOLEAN /\ k = b - mst[m].count
  BY <1>1, Numbers, MasterTyped DEF Accepted
<1>3. /\ mst'[m].state = "ST_PENDING"
      /\ mst'[m].adr = IF stall THEN mst[m].adr ELSE WrapNext(mst[m].adr, b)
      /\ stall => mst'[m].dat = mst[m].dat
      /\ ~stall /\ CmdOf(m).we => mst'[m].dat = DataOf(CmdOf(m).val, k + 1)
      /\ mst'[m].count = IF stall \/ mst[m].count = 0 THEN mst[m].count ELSE mst[m].count - 1
      /\ mst'[m].mask = b
  <2>1. mst'[m].state = IF (in.ack /\ mst[m].count_ack = 0) \/ in.err THEN "ST_IDLE" ELSE "ST_PENDING"
    BY PendingEdge
  <2>2. /\ mst'[m].adr = IF stall THEN mst[m].adr ELSE WrapNext(mst[m].adr, b)
        /\ stall => mst'[m].dat = mst[m].dat
        /\ ~stall /\ CmdOf(m).we => mst'[m].dat = DataOf(CmdOf(m).val, k + 1)
    BY PendingEdge
  <2>3. /\ mst'[m].count = IF stall \/ mst[m].count = 0 THEN mst[m].count ELSE mst[m].count - 1
        /\ mst'[m].mask = b
    BY PendingEdge
  <2>4. mst'[m].state = "ST_PENDING"
    BY <1>1, <2>1
  <2>. QED BY <2>2, <2>3, <2>4, Zenon
<1>4. /\ mst'[m].stb <=> mst[m].stb /\ (stall \/ mst[m].count # 0)
      /\ mst'[m].cyc /\ ~mst'[m].complete
      /\ mst'[m].we <=> CmdOf(m).we
      /\ CmdOf(m).we => ~mst'[m].dready_rd
  <2>. DEFINE ends == (in.ack /\ mst[m].count_ack = 0) \/ in.err
  <2>1. /\ mst'[m].stb <=> mst[m].stb /\ (stall \/ mst[m].count # 0) /\ ~ends
        /\ mst'[m].cyc <=> (IF ends THEN m \in hold ELSE TRUE)
        /\ mst'[m].we <=> CmdOf(m).we /\ ~ends
        /\ mst'[m].complete <=> ends
    BY PendingEdge
  <2>2. mst'[m].dready_rd => ~CmdOf(m).we
    BY PendingEdge
  <2>3. ~ends
    BY <1>1
  <2>. HIDE DEF ends, in
  <2>. QED BY <2>1, <2>2, <2>3
<1>5. mst'[m] \in MasterRegs(Adrs, Words)
  BY PendingEdge
<1>6. mst'[m].we = CmdOf(m).we
  <2>1. mst'[m].we \in BOOLEAN  BY <1>5 DEF MasterRegs
  <2>. QED BY <1>2, <1>4, <2>1
<1>7. Pends(m)'
  BY <1>3 DEF Pends
<1>8. /\ CmdOf(m)' = CmdOf(m) /\ Home(m)' = s /\ mst'[m].adr \in Line(CmdOf(m))
      /\ \A i : Word(m, i)' = Word(m, i)
      /\ Flight(m)' = NextFlight(m, s) /\ (Owns(m, Home(m))' <=> Owns(m, s)')
  BY HomeStays
<1>9. txn'[m].busy /\ (CmdOf(m).we => txn'[m].res = txn[m].res)
  BY PendingTxn
<1>10. /\ mst'[m].count_ack \in 0 .. b
       /\ mst'[m].count_ack + 1 = ToBeAccepted(m)' + Flight(m)'
       /\ txn'[m].done = (b - mst'[m].count_ack) + MemFlight(m)'
       /\ MemFlight(m)' \in {0, 1}
  BY PendingCounts
<1>11. Bursts(m)'
  <2>1. mst'[m].count <= b
    BY <1>2, <1>3
  <2>. QED BY <1>2, <1>3, <1>4, <1>6, <1>8, <1>9, <1>10, <2>1 DEF Bursts
<1>12. Accepted(m)' = b - mst'[m].count
  BY <1>8 DEF Accepted
<1>13. Asks(m)'
  <2>1. ASSUME mst'[m].stb
        PROVE  /\ mst'[m].adr = Word(m, Accepted(m)')
               /\ CmdOf(m).we => mst'[m].dat = DataOf(CmdOf(m).val, Accepted(m)')
    <3>1. mst[m].stb /\ (stall \/ mst[m].count # 0)
      BY <1>4, <2>1
    <3>2. mst[m].adr = Word(m, k) /\ (CmdOf(m).we => mst[m].dat = DataOf(CmdOf(m).val, k))
      BY <1>1, <3>1 DEF MasterInv, Asks
    <3>3. CASE stall
      <4>1. Accepted(m)' = k  BY <1>2, <1>3, <1>12, <3>3
      <4>. QED BY <1>3, <3>2, <3>3, <4>1
    <3>4. CASE ~stall
      <4>1. Accepted(m)' = k + 1  BY <1>2, <1>3, <1>12, <3>1, <3>4
      <4>2. WrapNext(Word(m, k), b) = Word(m, k + 1)
        BY <1>2, Lines DEF Word
      <4>. QED BY <1>3, <3>2, <3>4, <4>1, <4>2
    <3>. QED BY <3>3, <3>4
  <2>2. ASSUME ~mst'[m].stb
        PROVE  mst'[m].count = 0
    <3>1. CASE mst[m].stb   BY <1>3, <1>4, <2>2, <3>1
    <3>2. CASE ~mst[m].stb
      <4>1. mst[m].count = 0  BY <1>1, <3>2 DEF MasterInv, Asks
      <4>. QED BY <1>3, <4>1
    <3>. QED BY <3>1, <3>2
  <2>3. Word(m, Accepted(m))' = Word(m, Accepted(m)')
    BY <1>8
  <2>. QED BY <1>8, <2>1, <2>2, <2>3 DEF Asks
<1>14. Gives(m)'
  <2>. SUFFICES ASSUME CmdOf(m).we
                PROVE  /\ user'[m].taken = Accepted(m)' + 1
                       /\ ~mst'[m].dready_rd /\ user'[m].rx = <<>> /\ txn'[m].res = <<>>
    BY <1>8 DEF Gives
  <2>1. user'[m].rx = <<>> /\ user'[m].taken = IF stall \/ mst[m].count = 0 THEN k + 1 ELSE k + 2
    BY PendingUser
  <2>2. txn[m].res = <<>>
    BY <1>1 DEF MasterInv, Gives
  <2>3. user'[m].taken = Accepted(m)' + 1
    BY <1>2, <1>3, <1>12, <2>1
  <2>. QED BY <1>4, <1>9, <2>1, <2>2, <2>3
<1>15. Counts(m)'
  BY <1>8, <1>10 DEF Counts
<1>16. Reads(m)'
  <2>1. ~CmdOf(m).we => txn'[m].res = Seen(m)' /\ Len(txn'[m].res) = txn'[m].done
    BY PendingReads
  <2>. QED BY <1>8, <2>1 DEF Reads
<1>17. Bridges(m)'
  <2>1. Kind[s] = "apb" /\ NextFlight(m, s) = 1 =>
          /\ slv'[s].req.we = CmdOf(m).we
          /\ slv'[s].req.adr = RelAdr(s, Word(m, txn'[m].done))
          /\ CmdOf(m).we => slv'[s].req.dat = DataOf(CmdOf(m).val, txn'[m].done)
    BY PendingBridges
  <2>2. slv[Home(m)]' = slv'[s] /\ Word(m, txn[m].done)' = Word(m, txn'[m].done)
    BY <1>8
  <2>. QED BY <1>8, <2>1, <2>2 DEF Bridges
<1>18. Keeps(m)'
  <2>. SUFFICES ASSUME txn'[m].done > 0 PROVE Owns(m, s)'
    BY <1>7, <1>8 DEF Keeps
  <2>1. CASE Performs(m, ready)
    BY <2>1, Ledger
  <2>2. CASE ~Performs(m, ready)
    <3>1. txn'[m].done = txn[m].done
      BY <2>2, PendingTxn
    <3>2. Owns(m, s)
      BY <1>1, <3>1 DEF MasterInv, Keeps
    <3>. QED BY <3>2, Ledger
  <2>. QED BY <2>1, <2>2
<1>19. RxFits(m)'
  <2>0. MaxBurst \in Nat  BY <1>1, UserTyped
  <2>1. CASE CmdOf(m).we
    <3>1. Got(m)' = <<>>  BY <1>4, <2>1, PendingUser DEF Got
    <3>. QED BY <2>0, <3>1, EmptySeq DEF RxFits
  <2>2. CASE ~CmdOf(m).we
    <3>1. /\ txn'[m].res \in Seq(Words) /\ Got(m)' \in Seq(Words)
          /\ Len(Got(m)') <= Len(txn'[m].res) /\ Len(txn'[m].res) = txn'[m].done
      BY <2>2, PendingReads
    <3>2. txn'[m].done <= b + 1
      BY <1>2, <1>10
    <3>3. Len(Got(m)') \in Nat /\ txn'[m].done \in Nat
      BY <1>2, <1>10, <3>1, LenProperties
    <3>. QED BY <1>2, <2>0, <3>1, <3>2, <3>3 DEF RxFits
  <2>. QED BY <2>1, <2>2
<1>20. Rests(m)' /\ NoneYet(m)' /\ Told(m)'
  <2>1. NoneYet(m)'  BY <1>1, <1>8 DEF NoneYet
  <2>. QED BY <1>4, <1>7, <2>1 DEF Rests, Told
<1>. QED BY <1>11, <1>13, <1>14, <1>15, <1>16, <1>17, <1>18, <1>19, <1>20 DEF MasterInv

\* A pending master whose last word is acknowledged reports what is right.
LEMMA PendingEnds ==
  ASSUME FabricInv, NEW start \in StartChoices, NEW hold \in SUBSET Holding, NEW ready \in SUBSET Caches,
         Clock(start, hold, ready),
         NEW m \in Masters, Pends(m), NEW s \in Slaves, s = Home(m),
         InputOf(m, ready).ack /\ mst[m].count_ack = 0
  PROVE  MasterInv(m)'
<1>. DEFINE in == InputOf(m, ready)
            b  == CmdOf(m).burst
<1>1. TypeOK /\ MasterInv(m) /\ s # NoSlave /\ ~in.err
  <2>1. TypeOK /\ MasterInv(m)  BY DEF FabricInv
  <2>2. s # NoSlave  BY Wiring DEF NoSlave
  <2>3. Target(m) = s  BY <2>1, AtHome DEF MasterInv
  <2>. QED BY <2>1, <2>2, <2>3, InputIs
<1>2. CmdOf(m) \in Commands[m] /\ b \in Nat /\ CmdOf(m).we \in BOOLEAN /\ b <= MaxBurst
  BY Numbers
<1>3. /\ mst'[m].state = "ST_IDLE" /\ ~mst'[m].stb /\ mst'[m].complete /\ ~mst'[m].err
      /\ CmdOf(m).we => ~mst'[m].dready_rd
  BY <1>1, PendingEdge
<1>4. ~Pends(m)'
  BY <1>3 DEF Pends
<1>5. /\ CmdOf(m)' = CmdOf(m) /\ Home(m)' = s /\ Target(m)' = s
      /\ (Owns(m, Home(m))' <=> Owns(m, s)')
  BY HomeStays
<1>6. txn'[m].busy /\ txn'[m].done = b + 1
  BY PendingTxn, PendingCounts
<1>7. Rests(m)'
  BY <1>3, <1>6 DEF Rests
<1>8. Keeps(m)'
  <2>1. Owns(m, s)'
    BY Ledger
  <2>2. Owns(m, Target(m))' <=> Owns(m, s)'
    BY <1>5 DEF Owns, Arb!Connected
  <2>. QED BY <1>4, <2>1, <2>2 DEF Keeps
<1>9. ~CmdOf(m).we => /\ txn'[m].res = Got(m)' /\ mst'[m].dready_rd
                      /\ Got(m)' \in Seq(Words) /\ Len(Got(m)') = b + 1
  BY <1>6, PendingReads
<1>10. Told(m)'
  BY <1>1, <1>2, <1>3, <1>5, <1>6, <1>9 DEF Told
<1>11. RxFits(m)'
  <2>0. MaxBurst \in Nat  BY <1>1, UserTyped
  <2>1. CASE CmdOf(m).we
    <3>1. Got(m)' = <<>>  BY <1>3, <2>1, PendingUser DEF Got
    <3>. QED BY <2>0, <3>1, EmptySeq DEF RxFits
  <2>2. CASE ~CmdOf(m).we
    BY <1>2, <1>9, <2>0, <2>2 DEF RxFits
  <2>. QED BY <2>1, <2>2
<1>. QED BY <1>4, <1>7, <1>8, <1>10, <1>11
     DEF MasterInv, Bursts, Asks, Gives, NoneYet, Counts, Reads, Bridges

\* What is in flight after the edge is not of a master that was not pending.
LEMMA IdleHasNone ==
  ASSUME FabricInv, NEW start \in StartChoices, NEW hold \in SUBSET Holding, NEW ready \in SUBSET Caches,
         Clock(start, hold, ready),
         NEW m \in Masters, ~Pends(m), NEW s \in Slaves, Owns(m, s)'
  PROVE  InFlight(s)' = 0
<1>. SUFFICES ASSUME InFlight(s)' # 0 PROVE FALSE
  OBVIOUS
<1>. DEFINE n == ServedBy(s)
<1>1. n \in Masters /\ Owns(n, s) /\ Pends(n) /\ mst[n].cyc /\ Target(n) = s
  BY FlightIsOwned
<1>2. n # m
  BY <1>1
<1>. HIDE DEF n
<1>. QED BY <1>1, <1>2, OwnerKeeps

\* The types of the registers of m, its user and its command after the edge.
MasterTypes(m) ==
  /\ mst[m] \in MasterRegs(Adrs, Words)
  /\ user[m] \in [taken : 0 .. MaxBurst + 1, rx : Seq(Words)]
  /\ Len(user[m].rx) <= MaxBurst + 1
  /\ txn[m] \in [busy : BOOLEAN, cmd : Commands[m] \cup {NoCommand},
                done : 0 .. MaxBurst + 1, res : Seq(Words)]
  /\ Len(txn[m].res) <= MaxBurst + 1

\* A command begins with its first word on the bus.
LEMMA IdleStarts ==
  ASSUME FabricInv, NEW start \in StartChoices, NEW hold \in SUBSET Holding, NEW ready \in SUBSET Caches,
         Clock(start, hold, ready),
         NEW m \in Masters, ~Pends(m), Starts(m, start)
  PROVE  MasterInv(m)' /\ MasterTypes(m)'
<1>. DEFINE in  == InputOf(m, ready)
            u   == UserOf(m, start, hold)
            cmd == start[m]
            r   == mst[m]
            b   == cmd.burst
<1>1. TypeOK /\ MasterInv(m) /\ MaxBurst \in Nat
  BY UserTyped DEF FabricInv
<1>2. /\ cmd \in Commands[m] /\ cmd # NoCommand /\ r.state = "ST_IDLE"
  BY Edges, MasterTyped DEF Starts
<1>3. /\ cmd.we \in BOOLEAN /\ cmd.adr \in Nat /\ b \in Nat /\ b < CountValues /\ b <= MaxBurst
      /\ cmd.val \in Vals \cup {Blank} /\ cmd.adr \in Line(cmd) /\ cmd.adr \in Adrs
      /\ AdrOf(cmd.adr, b, 0) = cmd.adr
  BY <1>2, Lines
<1>. DEFINE din == IF ~cmd.we THEN BlankWord ELSE DataOf(cmd.val, 0)
<1>4. din \in Words
  <2>1. 0 \in 0 .. MaxBurst + 1  BY <1>1
  <2>. QED BY <1>3, <2>1, WordsOf, BlankIsWord
<1>5. in.err \in BOOLEAN
  BY InputIs
<1>6. /\ u.en = TRUE /\ u.we = cmd.we /\ u.addr = cmd.adr /\ u.burst = b /\ u.din = din
  <2>. DEFINE held == m \in hold
              sta  == Starts(m, start)
  <2>1. CommandOf(m, start) = cmd  BY DEF CommandOf
  <2>2. u = [en |-> sta, we |-> cmd.we, addr |-> cmd.adr, burst |-> b, din |-> din, hold |-> held]
    BY <1>2, <2>1, Zenon DEF UserOf
  <2>3. sta = TRUE  BY DEF Starts
  <2>. HIDE DEF u, din, held, sta
  <2>. QED BY <2>2, <2>3
<1>7. mst'[m] = Start(r, u, in)
  <2>1. mst'[m] = MasterEdge(r, u, in)  BY Edges
  <2>. HIDE DEF u, in
  <2>. QED BY <1>2, <1>6, <2>1, Zenon DEF MasterEdge
<1>8. mst'[m] = [state |-> "ST_PENDING", adr |-> cmd.adr, dat |-> din, we |-> cmd.we, stb |-> TRUE,
                 cyc |-> TRUE, count |-> b, count_ack |-> b, mask |-> b, dready_rd |-> FALSE,
                 dout |-> r.dout, complete |-> FALSE, err |-> in.err]
  <2>1. r \in MasterRegs(Adrs, Words)  BY <1>1, MasterTyped
  <2>. DEFINE er == in.err
  <2>2. mst'[m] = [r EXCEPT !.state = "ST_PENDING", !.adr = u.addr, !.dat = u.din, !.we = u.we,
                     !.stb = TRUE, !.cyc = TRUE, !.count = u.burst, !.count_ack = u.burst, !.mask = u.burst,
                     !.dready_rd = FALSE, !.complete = FALSE, !.err = er]
    BY <1>7, Zenon DEF Start
  <2>3. u.we = cmd.we /\ u.addr = cmd.adr /\ u.burst = b /\ u.din = din
    BY <1>6
  <2>4. r = [state |-> r.state, adr |-> r.adr, dat |-> r.dat, we |-> r.we, stb |-> r.stb,
             cyc |-> r.cyc, count |-> r.count, count_ack |-> r.count_ack, mask |-> r.mask,
             dready_rd |-> r.dready_rd, dout |-> r.dout, complete |-> r.complete, err |-> r.err]
    <3>. HIDE DEF r
    <3>. QED BY <2>1 DEF MasterRegs
  <2>. HIDE DEF r, u, er, din, cmd, b
  <2>5. mst'[m] = [state |-> "ST_PENDING", adr |-> cmd.adr, dat |-> din, we |-> cmd.we, stb |-> TRUE,
                   cyc |-> TRUE, count |-> b, count_ack |-> b, mask |-> b, dready_rd |-> FALSE,
                   dout |-> r.dout, complete |-> FALSE, err |-> er]
    BY <2>2, <2>3, <2>4
  <2>. QED BY <2>5 DEF er
<1>9. user'[m] = [taken |-> IF cmd.we THEN 1 ELSE 0, rx |-> <<>>]
  <2>1. user'[m] = UserEdge(m, start, u, in)  BY Edges
  <2>. QED BY <2>1, Zenon DEF UserEdge
<1>10. txn'[m] = [busy |-> TRUE, cmd |-> cmd, done |-> 0, res |-> <<>>]
  <2>1. txn'[m] = TxnEdge(m, start, ready)  BY Edges
  <2>. QED BY <2>1, Zenon DEF TxnEdge
<1>11. r.dout \in Words
  BY <1>1, MasterTyped
<1>. HIDE DEF r, u, in, din, cmd
<1>12. MasterTypes(m)'
  <2>1. mst'[m] \in MasterRegs(Adrs, Words)
    <3>1. b \in 0 .. CountValues - 1  BY <1>3 DEF CountValues
    <3>. QED BY <1>3, <1>4, <1>5, <1>8, <1>11, <3>1 DEF MasterRegs
  <2>2. <<>> \in Seq(Words) /\ Len(<<>>) = 0
    BY EmptySeq
  <2>3. user'[m] \in [taken : 0 .. MaxBurst + 1, rx : Seq(Words)] /\ Len(user'[m].rx) <= MaxBurst + 1
    BY <1>1, <1>9, <2>2
  <2>4. txn'[m] \in [busy : BOOLEAN, cmd : Commands[m] \cup {NoCommand}, done : 0 .. MaxBurst + 1, res : Seq(Words)]
        /\ Len(txn'[m].res) <= MaxBurst + 1
    BY <1>1, <1>2, <1>10, <2>2 DEF cmd
  <2>. QED BY <2>1, <2>3, <2>4 DEF MasterTypes
<1>13. /\ mst'[m].state = "ST_PENDING" /\ mst'[m].adr = cmd.adr /\ mst'[m].dat = din /\ mst'[m].we = cmd.we
       /\ mst'[m].stb = TRUE /\ mst'[m].cyc = TRUE /\ mst'[m].count = b /\ mst'[m].count_ack = b /\ mst'[m].mask = b
       /\ mst'[m].dready_rd = FALSE /\ mst'[m].complete = FALSE
  BY <1>8
<1>14. /\ txn'[m].busy = TRUE /\ txn'[m].cmd = cmd /\ txn'[m].done = 0 /\ txn'[m].res = <<>>
       /\ user'[m].rx = <<>> /\ user'[m].taken = IF cmd.we THEN 1 ELSE 0
  BY <1>9, <1>10
<1>15. /\ CmdOf(m)' = cmd /\ Pends(m)' /\ Accepted(m)' = 0 /\ ToBeAccepted(m)' = b + 1
       /\ Word(m, 0)' = cmd.adr /\ Word(m, Accepted(m))' = cmd.adr
  <2>1. CmdOf(m)' = cmd  BY <1>14 DEF CmdOf
  <2>2. Accepted(m)' = 0  BY <1>3, <1>13, <2>1 DEF Accepted
  <2>3. Word(m, 0)' = cmd.adr /\ Word(m, Accepted(m))' = cmd.adr  BY <1>3, <2>1, <2>2 DEF Word
  <2>. QED BY <1>13, <2>1, <2>2, <2>3 DEF Pends, ToBeAccepted
<1>16. Home(m)' # NoSlave => Flight(m)' = 0 /\ MemFlight(m)' = 0
  <2>. SUFFICES ASSUME Home(m)' # NoSlave PROVE Flight(m)' = 0 /\ MemFlight(m)' = 0
    OBVIOUS
  <2>1. PICK s \in Slaves : s = Home(m)'
    <3>1. Home(m)' = SlaveOf(m, cmd.adr)  BY <1>15 DEF Home
    <3>. QED BY <3>1, Decoded
  <2>2. Owns(m, Home(m))' <=> Owns(m, s)'
    BY <2>1 DEF Owns, Arb!Connected
  <2>3. InFlight(Home(m))' = InFlight(s)'
    BY <2>1 DEF InFlight
  <2>4. Flight(m)' = 0
    BY <2>2, <2>3, IdleHasNone DEF Flight
  <2>. QED BY <2>4 DEF MemFlight
<1>17. Got(m)' = <<>>
  BY <1>13, <1>14 DEF Got
<1>18. Bursts(m)'
  BY <1>2, <1>3, <1>13, <1>14, <1>15 DEF Bursts, cmd
<1>19. Asks(m)'
  <2>1. cmd.we => din = DataOf(cmd.val, 0)  BY DEF din
  <2>. QED BY <1>13, <1>15, <2>1 DEF Asks
<1>20. Gives(m)'
  BY <1>13, <1>14, <1>15 DEF Gives
<1>21. Rests(m)' /\ Told(m)'
  BY <1>13, <1>15 DEF Rests, Told
<1>22. NoneYet(m)'
  BY <1>13, <1>14 DEF NoneYet
<1>23. Counts(m)'
  BY <1>3, <1>13, <1>14, <1>15, <1>16 DEF Counts
<1>24. Reads(m)'
  <2>1. Home(m)' # NoSlave => Seen(m)' = <<>>  BY <1>16, <1>17 DEF Seen
  <2>. QED BY <1>14, <2>1, EmptySeq DEF Reads
<1>25. Bridges(m)'
  BY <1>16 DEF Bridges
<1>26. Keeps(m)'
  BY <1>14, <1>15 DEF Keeps
<1>27. RxFits(m)'
  BY <1>1, <1>17, EmptySeq DEF RxFits
<1>. QED BY <1>12, <1>18, <1>19, <1>20, <1>21, <1>22, <1>23, <1>24, <1>25, <1>26, <1>27 DEF MasterInv

\* A master without a command keeps its address, and cyc only while the user
\* holds it.
LEMMA IdleStays ==
  ASSUME FabricInv, NEW start \in StartChoices, NEW hold \in SUBSET Holding, NEW ready \in SUBSET Caches,
         Clock(start, hold, ready),
         NEW m \in Masters, ~Pends(m), ~Starts(m, start)
  PROVE  /\ MasterInv(m)' /\ MasterTypes(m)'
         /\ mst'[m].adr = mst[m].adr /\ ~mst'[m].complete
         /\ txn'[m] = IF txn[m].busy THEN [txn[m] EXCEPT !.busy = FALSE] ELSE txn[m]
<1>. DEFINE in  == InputOf(m, ready)
            u   == UserOf(m, start, hold)
            r   == mst[m]
<1>1. TypeOK /\ MasterInv(m) /\ MaxBurst \in Nat
  BY UserTyped DEF FabricInv
<1>2. /\ r.state = "ST_IDLE" /\ r \in MasterRegs(Adrs, Words) /\ r.cyc \in BOOLEAN
  BY <1>1, MasterTyped DEF Pends
<1>3. u.en = FALSE /\ u.hold \in BOOLEAN
  <2>. DEFINE held == m \in hold
              sta  == Starts(m, start)
              cmd  == CommandOf(m, start)
  <2>1. sta = FALSE /\ held \in BOOLEAN  BY DEF Starts
  <2>2. CASE cmd = NoCommand
    <3>1. u = [en |-> FALSE, we |-> FALSE, addr |-> 0, burst |-> 0, din |-> BlankWord, hold |-> held]
      BY <2>2, Zenon DEF UserOf
    <3>. HIDE DEF u, held
    <3>. QED BY <2>1, <3>1
  <2>3. CASE cmd # NoCommand
    <3>. DEFINE din == IF ~cmd.we THEN BlankWord ELSE DataOf(cmd.val, IF Starts(m, start) THEN 0 ELSE user[m].taken)
    <3>1. u = [en |-> sta, we |-> cmd.we, addr |-> cmd.adr, burst |-> cmd.burst, din |-> din, hold |-> held]
      BY <2>3, Zenon DEF UserOf
    <3>. HIDE DEF u, held, sta, din, cmd
    <3>. QED BY <2>1, <3>1
  <2>. QED BY <2>2, <2>3
<1>4. in.err \in BOOLEAN
  BY InputIs
<1>5. mst'[m] = Idle(r, u, in)
  <2>1. mst'[m] = MasterEdge(r, u, in)  BY Edges
  <2>. HIDE DEF u, in
  <2>. QED BY <1>2, <1>3, <2>1, Zenon DEF MasterEdge
<1>6. mst'[m] = [r EXCEPT !.cyc = r.cyc /\ u.hold, !.dready_rd = FALSE, !.complete = FALSE, !.err = in.err]
  BY <1>5 DEF Idle
<1>. DEFINE cy == r.cyc /\ u.hold
            er == in.err
<1>7. cy \in BOOLEAN /\ (cy => r.cyc)
  BY <1>2, <1>3, Zenon
<1>. HIDE DEF r, u, in, cy
<1>8. mst'[m] \in MasterRegs(Adrs, Words)
  <2>1. mst'[m] = [r EXCEPT !.cyc = cy, !.dready_rd = FALSE, !.complete = FALSE, !.err = er]
    BY <1>6 DEF cy
  <2>. HIDE DEF er
  <2>. QED BY <1>2, <1>4, <1>7, <2>1 DEF MasterRegs, er
<1>9. /\ mst'[m].state = "ST_IDLE" /\ mst'[m].adr = r.adr /\ mst'[m].stb = r.stb /\ mst'[m].cyc = cy
      /\ mst'[m].dready_rd = FALSE /\ mst'[m].complete = FALSE
  <2>1. mst'[m] = [r EXCEPT !.cyc = cy, !.dready_rd = FALSE, !.complete = FALSE, !.err = er]
    BY <1>6 DEF cy
  <2>. QED BY <1>2, <2>1 DEF MasterRegs
<1>10. ~Pends(m)'
  BY <1>9 DEF Pends
<1>11. /\ user[m] = [taken |-> user[m].taken, rx |-> user[m].rx]
       /\ user[m].taken \in 0 .. MaxBurst + 1 /\ user[m].rx \in Seq(Words) /\ Got(m) \in Seq(Words)
       /\ Len(user[m].rx) <= MaxBurst + 1 /\ Len(Got(m)) <= MaxBurst + 1
       /\ txn[m] = [busy |-> txn[m].busy, cmd |-> txn[m].cmd, done |-> txn[m].done, res |-> txn[m].res]
       /\ txn[m].busy \in BOOLEAN /\ txn[m].done \in 0 .. MaxBurst + 1 /\ txn[m].cmd \in Commands[m] \cup {NoCommand}
       /\ txn[m].res \in Seq(Words) /\ Len(txn[m].res) <= MaxBurst + 1
  BY <1>1, UserTyped DEF MasterInv, RxFits
<1>12. user'[m] = user[m] \/ (r.dready_rd /\ user'[m] = [taken |-> user[m].taken, rx |-> Got(m)])
  <2>1. user'[m] = UserEdge(m, start, u, in)  BY Edges DEF u, in
  <2>2. user'[m] = IF mst[m].dready_rd /\ ~txn[m].cmd.we
                     THEN [user[m] EXCEPT !.rx = Append(@, mst[m].dout)] ELSE user[m]
    BY <1>2, <2>1, Zenon DEF UserEdge, r
  <2>. QED BY <1>11, <2>2 DEF Got, r
<1>13. user'[m] \in [taken : 0 .. MaxBurst + 1, rx : Seq(Words)] /\ Len(user'[m].rx) <= MaxBurst + 1
  <2>1. CASE user'[m] = user[m]  BY <1>11, <2>1
  <2>2. CASE user'[m] = [taken |-> user[m].taken, rx |-> Got(m)]  BY <1>11, <2>2
  <2>. QED BY <1>12, <2>1, <2>2
<1>14. txn'[m] = IF txn[m].busy THEN [txn[m] EXCEPT !.busy = FALSE] ELSE txn[m]
  <2>1. txn'[m] = TxnEdge(m, start, ready)  BY Edges
  <2>2. txn[m].busy <=> mst[m].complete  BY <1>1 DEF MasterInv, Rests
  <2>. QED BY <2>1, <2>2, Zenon DEF TxnEdge
<1>15. txn'[m] = [busy |-> FALSE, cmd |-> txn[m].cmd, done |-> txn[m].done, res |-> txn[m].res]
  BY <1>11, <1>14
<1>16. txn'[m] \in [busy : BOOLEAN, cmd : Commands[m] \cup {NoCommand}, done : 0 .. MaxBurst + 1, res : Seq(Words)]
       /\ Len(txn'[m].res) <= MaxBurst + 1
  BY <1>11, <1>15
<1>17. MasterTypes(m)'
  BY <1>8, <1>13, <1>16 DEF MasterTypes
<1>18. Rests(m)'
  <2>1. ~mst[m].stb  BY <1>1 DEF MasterInv, Rests
  <2>. QED BY <1>9, <1>15, <2>1 DEF Rests, r
<1>19. Keeps(m)'
  <2>. SUFFICES ASSUME mst'[m].cyc, Target(m)' # NoSlave PROVE Owns(m, Target(m))'
    BY <1>10 DEF Keeps
  <2>1. Target(m)' = Target(m)
    BY <1>9 DEF Target, r
  <2>2. mst[m].cyc /\ Target(m) # NoSlave
    BY <1>7, <1>9, <2>1 DEF r
  <2>3. PICK s \in Slaves : s = Target(m)
    BY <2>2, Decoded DEF Target
  <2>4. Owns(m, s)
    BY <1>1, <2>2, <2>3 DEF MasterInv, Keeps
  <2>5. Owns(m, s)'
    BY <2>2, <2>3, <2>4, OwnerKeeps
  <2>. QED BY <2>1, <2>3, <2>5 DEF Owns, Arb!Connected
<1>20. Told(m)'
  BY <1>9 DEF Told
<1>21. RxFits(m)'
  <2>1. Got(m)' = user'[m].rx  BY <1>9 DEF Got
  <2>. QED BY <1>13, <2>1 DEF RxFits
<1>. QED BY <1>9, <1>10, <1>14, <1>17, <1>18, <1>19, <1>20, <1>21
     DEF MasterInv, Bursts, Asks, Gives, NoneYet, Counts, Reads, Bridges, r

-----------------------------------------------------------------------------
(* The invariant is inductive.                                             *)

LEMMA PendingTypes ==
  ASSUME FabricInv, NEW start \in StartChoices, NEW hold \in SUBSET Holding, NEW ready \in SUBSET Caches,
         Clock(start, hold, ready),
         NEW m \in Masters, Pends(m)
  PROVE  MasterTypes(m)'
<1>. DEFINE b == CmdOf(m).burst
            W == Words
<1>1. TypeOK /\ MaxBurst \in Nat /\ MasterInv(m)
  BY UserTyped DEF FabricInv
<1>2. mst'[m] \in MasterRegs(Adrs, Words)
  BY PendingEdge
<1>3. user'[m] \in [taken : 0 .. MaxBurst + 1, rx : Seq(Words)] /\ Len(user'[m].rx) <= MaxBurst + 1
  BY PendingUser
<1>4. /\ txn[m].cmd \in Commands[m] \cup {NoCommand} /\ txn[m].done \in 0 .. MaxBurst + 1
      /\ txn[m].res \in Seq(Words) /\ Len(txn[m].res) <= MaxBurst + 1
  BY <1>1, UserTyped
<1>5. txn'[m] = [busy |-> TRUE, cmd |-> txn[m].cmd, done |-> txn'[m].done, res |-> txn'[m].res]
  BY PendingTxn
<1>6. b \in Nat /\ b <= MaxBurst
  BY Numbers
<1>7. /\ txn'[m].done \in 0 .. MaxBurst + 1
      /\ txn'[m].res \in Seq(Words) /\ Len(txn'[m].res) <= MaxBurst + 1
  <2>1. CASE Home(m) = NoSlave
    <3>1. txn'[m] = txn[m]  BY <2>1, PendingTxn
    <3>. QED BY <1>4, <3>1
  <2>2. CASE Home(m) # NoSlave
    <3>1. PICK s \in Slaves : s = Home(m)
      BY <2>2, Decoded DEF Home
    <3>2. txn'[m].done \in 0 .. b + 1
      <4>. DEFINE ends == InputOf(m, ready).ack /\ mst[m].count_ack = 0
      <4>1. ends => txn'[m].done = b + 1
        BY <3>1, PendingCounts
      <4>2. ~ends => /\ mst'[m].count_ack \in 0 .. b
                     /\ txn'[m].done = (b - mst'[m].count_ack) + MemFlight(m)'
        BY <3>1, PendingCounts
      <4>3. MemFlight(m)' \in {0, 1}
        BY <3>1, PendingCounts
      <4>. HIDE DEF ends
      <4>. QED BY <1>6, <4>1, <4>2, <4>3
    <3>3. CASE CmdOf(m).we
      <4>1. txn'[m].res = txn[m].res  BY <3>3, PendingTxn
      <4>. QED BY <1>1, <1>4, <1>6, <3>2, <4>1
    <3>4. CASE ~CmdOf(m).we
      <4>1. txn'[m].res \in Seq(Words) /\ Len(txn'[m].res) = txn'[m].done
        BY <3>1, <3>4, PendingReads
      <4>. QED BY <1>1, <1>6, <3>2, <4>1
    <3>. QED BY <3>3, <3>4
  <2>. QED BY <2>1, <2>2
<1>8. txn'[m] \in [busy : BOOLEAN, cmd : Commands[m] \cup {NoCommand}, done : 0 .. MaxBurst + 1, res : Seq(Words)]
  <2>. DEFINE d == txn'[m].done
              l == txn'[m].res
              c == txn[m].cmd
              C == Commands[m] \cup {NoCommand}
              S == Seq(Words)
              N == 0 .. MaxBurst + 1
  <2>1. c \in C /\ d \in N /\ l \in S  BY <1>4, <1>7
  <2>2. txn'[m] = [busy |-> TRUE, cmd |-> c, done |-> d, res |-> l]  BY <1>5
  <2>. HIDE DEF c, d, l, C, S, N
  <2>3. txn'[m] \in [busy : BOOLEAN, cmd : C, done : N, res : S]  BY <2>1, <2>2
  <2>. QED BY <2>3 DEF C, S, N
<1>. QED BY <1>2, <1>3, <1>7, <1>8 DEF MasterTypes

LEMMA MasterStep ==
  ASSUME FabricInv, NEW start \in StartChoices, NEW hold \in SUBSET Holding, NEW ready \in SUBSET Caches,
         Clock(start, hold, ready),
         NEW m \in Masters
  PROVE  MasterInv(m)' /\ MasterTypes(m)'
<1>1. CASE ~Pends(m)
  BY <1>1, IdleStarts, IdleStays
<1>2. CASE Pends(m) /\ Home(m) = NoSlave
  BY <1>2, PendingLoses, PendingTypes
<1>3. CASE Pends(m) /\ Home(m) # NoSlave
  <2>1. PICK s \in Slaves : s = Home(m)
    BY <1>3, Decoded DEF Home
  <2>. QED BY <1>3, <2>1, PendingGoes, PendingEnds, PendingTypes
<1>. QED BY <1>1, <1>2, <1>3

\* The registers of a slave and the memory behind it keep their types.
LEMMA SlaveStep ==
  ASSUME FabricInv, NEW start \in StartChoices, NEW hold \in SUBSET Holding, NEW ready \in SUBSET Caches,
         Clock(start, hold, ready),
         NEW s \in Slaves
  PROVE  /\ slv'[s] \in SlaveRegs(Cells[s] \cup {0}, Words)
         /\ store'[s] \in [Cells[s] -> Words]
<1>. DEFINE q    == RequestAt(s)
            cell == CellAt(s, ready)
            a    == AccessAt(s, ready)
            C    == Cells[s] \cup {0}
            n    == ServedBy(s)
<1>1. TypeOK /\ Kind[s] \in {"mem", "cache", "apb"} /\ slv[s] \in SlaveRegs(C, Words)
      /\ store[s] \in [Cells[s] -> Words]
  BY SlaveTyped DEF FabricInv
<1>2. slv'[s] = SlaveEdge(Kind[s], slv[s], q, cell) /\ store'[s] = StoreEdge(s, ready)
  BY Edges
<1>3. cell \in Words
  BY <1>1, BlankIsWord DEF CellAt
<1>4. Requests(q) \in BOOLEAN
  BY Zenon DEF Requests
<1>5. Requests(q) => q.we \in BOOLEAN /\ q.adr \in C /\ q.dat \in Words
  <2>. SUFFICES ASSUME Requests(q) PROVE q.we \in BOOLEAN /\ q.adr \in C /\ q.dat \in Words
    OBVIOUS
  <2>1. /\ n \in Masters /\ Pends(n) /\ q.we = CmdOf(n).we /\ q.adr \in Cells[s] /\ q.dat = mst[n].dat
    BY Asked
  <2>. HIDE DEF n, q
  <2>2. CmdOf(n).we \in BOOLEAN  BY <2>1, Numbers
  <2>3. mst[n].dat \in Words  BY <1>1, <2>1, MasterTyped
  <2>. QED BY <2>1, <2>2, <2>3
<1>6. slv'[s] \in SlaveRegs(C, Words)
  <2>. HIDE DEF q, cell, C
  <2>1. CASE Kind[s] = "mem"
    <3>1. slv'[s] = [slv[s] EXCEPT !.ack = Requests(q), !.dat = IF Requests(q) THEN cell ELSE @]
      BY <1>2, <2>1 DEF SlaveEdge, MemEdge
    <3>. DEFINE ack == Requests(q)
    <3>. HIDE DEF ack
    <3>2. slv'[s] = [slv[s] EXCEPT !.ack = ack, !.dat = IF ack THEN cell ELSE @]
      BY <3>1 DEF ack
    <3>3. ack \in BOOLEAN  BY <1>4 DEF ack
    <3>. QED BY <1>1, <1>3, <3>2, <3>3 DEF SlaveRegs
  <2>2. CASE Kind[s] = "cache"
    <3>1. slv'[s] = slv[s]  BY <1>2, <2>2 DEF SlaveEdge
    <3>. QED BY <1>1, <3>1
  <2>3. CASE Kind[s] = "apb"
    <3>1. slv'[s] = ApbEdge(slv[s], q)
      BY <1>2, <2>3 DEF SlaveEdge
    <3>2. CASE slv[s].state = "FSM_SETUP"
      BY <1>1, <3>1, <3>2 DEF ApbEdge, SlaveRegs
    <3>3. CASE slv[s].state # "FSM_SETUP" /\ Requests(q)
      <4>. DEFINE req == [we |-> q.we, adr |-> q.adr, dat |-> q.dat]
      <4>1. slv'[s] = [slv[s] EXCEPT !.state = "FSM_SETUP", !.req = req]
        BY <1>1, <3>1, <3>3 DEF ApbEdge
      <4>2. req \in [we : BOOLEAN, adr : C, dat : Words]
        BY <1>5, <3>3
      <4>. HIDE DEF req
      <4>. QED BY <1>1, <4>1, <4>2 DEF SlaveRegs
    <3>4. CASE slv[s].state # "FSM_SETUP" /\ ~Requests(q)
      BY <1>1, <3>1, <3>4 DEF ApbEdge, SlaveRegs
    <3>. QED BY <3>2, <3>3, <3>4
  <2>. QED BY <1>1, <2>1, <2>2, <2>3
<1>7. store'[s] \in [Cells[s] -> Words]
  <2>1. CASE ~(a.on /\ a.we)
    BY <1>1, <1>2, <2>1 DEF StoreEdge
  <2>2. CASE a.on /\ a.we
    <3>1. \A t \in ready : Kind[t] = "cache" /\ Requests(RequestAt(t))  BY Edges
    <3>2. /\ n \in Masters /\ Pends(n) /\ txn[n].done \in 0 .. CmdOf(n).burst /\ CmdOf(n).we
          /\ a.dat = DataOf(CmdOf(n).val, txn[n].done)
      BY <2>2, <3>1, Performed
    <3>. HIDE DEF n
    <3>3. CmdOf(n).val \in Vals \cup {Blank} /\ txn[n].done \in 0 .. MaxBurst + 1
      <4>1. /\ CmdOf(n) \in Commands[n] /\ CmdOf(n).burst \in Nat /\ CmdOf(n).burst <= MaxBurst
        BY <3>2, Numbers
      <4>2. MaxBurst \in Nat  BY FabricAssumption DEF CountValues
      <4>. QED BY <3>2, <4>1, <4>2, Lines
    <3>4. a.dat \in Words  BY <3>2, <3>3, WordsOf
    <3>5. store'[s] = [store[s] EXCEPT ![a.adr] = a.dat]
      BY <1>2, <2>2 DEF StoreEdge
    <3>. HIDE DEF a
    <3>. QED BY <1>1, <3>4, <3>5
  <2>. QED BY <2>1, <2>2
<1>. QED BY <1>6, <1>7 DEF C

LEMMA TypeStep ==
  ASSUME FabricInv, NEW start \in StartChoices, NEW hold \in SUBSET Holding, NEW ready \in SUBSET Caches,
         Clock(start, hold, ready)
  PROVE  TypeOK'
<1>1. \A m \in Masters : MasterTypes(m)'
  BY MasterStep
<1>2. ASSUME NEW s \in Slaves PROVE arb'[s] \in Arb(s)!ArbiterRegs
  <2>1. TypeOK /\ Backed(s)  BY DEF FabricInv
  <2>2. arb'[s] = Arb(s)!ArbiterEdge(arb[s], PortCyc(s))  BY Edges
  <2>. QED BY <2>1, <2>2, ArbiterKeeps
<1>3. \A s \in Slaves : slv'[s] \in SlaveRegs(Cells[s] \cup {0}, Words) /\ store'[s] \in [Cells[s] -> Words]
  BY SlaveStep
<1>. QED BY <1>1, <1>2, <1>3 DEF TypeOK, MasterTypes

\* A slave is through with a command when its master ends it.
LEMMA ServesStep ==
  ASSUME FabricInv, NEW start \in StartChoices, NEW hold \in SUBSET Holding, NEW ready \in SUBSET Caches,
         Clock(start, hold, ready),
         NEW s \in Slaves
  PROVE  Serves(s)'
<1>. SUFFICES ASSUME InFlight(s)' # 0
              PROVE  /\ arb'[s].master_sel_valid_reg
                     /\ Pends(ServedBy(s))' /\ (Target(ServedBy(s)) = s)'
  <2>1. InFlight(s)' > 0 => InFlight(s)' # 0  OBVIOUS
  <2>. QED BY <2>1, Zenon DEF Serves
<1>1. PICK n \in Masters : /\ Owns(n, s) /\ Pends(n) /\ mst[n].cyc
                          /\ Target(n) = s /\ Home(n) = s
  BY FlightIsOwned
<1>2. arb'[s].master_sel_valid_reg /\ ServedBy(s)' = n /\ Owns(n, s)'
  BY <1>1, OwnerKeeps
<1>3. NextFlight(n, s) # 0
  BY <1>2 DEF NextFlight
<1>4. ~(InputOf(n, ready).ack /\ mst[n].count_ack = 0)
  <2>. SUFFICES ASSUME InputOf(n, ready).ack, mst[n].count_ack = 0 PROVE FALSE
    OBVIOUS
  <2>. DEFINE acc == Accepts(n, ready)
              F == Flight(n)
              NF == NextFlight(n, s)
  <2>1. (acc => NF = F) /\ (~acc => NF = F - 1)
    BY <1>1, Ledger
  <2>2. /\ F \in {0, 1} /\ mst[n].count \in Nat
        /\ mst[n].stb => F = mst[n].count_ack - mst[n].count
        /\ ~mst[n].stb => F = 1
    <3>1. s # NoSlave  BY Wiring DEF NoSlave
    <3>. QED BY <1>1, <3>1, Numbers
  <2>3. acc => mst[n].stb  BY DEF Accepts
  <2>4. NF \in {0, 1}
    <3>1. s = Home(n)  BY <1>1
    <3>2. Flight(n)' = NF  BY <1>1, <3>1, HomeStays
    <3>3. Flight(n)' \in {0, 1}  BY <1>1, <3>1, PendingCounts
    <3>. QED BY <3>2, <3>3
  <2>. HIDE DEF acc, F, NF
  <2>5. NF = 0
    BY <2>1, <2>2, <2>3, <2>4
  <2>. QED BY <1>3, <2>5 DEF NF
<1>5. Pends(n)'
  <2>1. ~InputOf(n, ready).err
    <3>1. s # NoSlave  BY Wiring DEF NoSlave
    <3>. QED BY <1>1, <3>1, InputIs
  <2>2. mst'[n].state = IF (InputOf(n, ready).ack /\ mst[n].count_ack = 0) \/ InputOf(n, ready).err
                          THEN "ST_IDLE" ELSE "ST_PENDING"
    BY <1>1, PendingEdge
  <2>. QED BY <1>4, <2>1, <2>2 DEF Pends
<1>6. Target(n)' = s
  BY <1>1, HomeStays
<1>7. Pends(ServedBy(s))' /\ Target(ServedBy(s))' = s
  BY <1>2, <1>5, <1>6 DEF Pends, Target
<1>. QED BY <1>2, <1>7

\* A master that waits for a slave does not lower cyc.
LEMMA WaitersKeep ==
  ASSUME FabricInv, NEW start \in StartChoices, NEW hold \in SUBSET Holding, NEW ready \in SUBSET Caches,
         Clock(start, hold, ready),
         NEW s \in Slaves, NEW p \in 0 .. NumPorts(s) - 1, PortCyc(s)[p], ~Arb(s)!Connected(arb[s], p)
  PROVE  PortCyc(s)'[p]
<1>. DEFINE m == MasterAt(s, p)
<1>1. m \in MastersOf(s) /\ PortOf(s, m) = p
  BY Ports
<1>2. m \in Masters /\ mst[m].cyc /\ Target(m) = s /\ s # NoSlave
  BY <1>1, PortedCyc, Wiring DEF NoSlave, MastersOf
<1>3. ~Owns(m, s)
  BY <1>1 DEF Owns
<1>. HIDE DEF m
<1>4. TypeOK /\ MasterInv(m)
  BY <1>2 DEF FabricInv
<1>5. Pends(m)
  BY <1>2, <1>3, <1>4 DEF MasterInv, Keeps
<1>6. Home(m) = s
  BY <1>2, <1>4, <1>5, AtHome DEF MasterInv
<1>7. ~InputOf(m, ready).ack /\ ~InputOf(m, ready).err
  BY <1>2, <1>3, InputIs
<1>8. mst'[m].cyc
  BY <1>2, <1>5, <1>7, PendingEdge
<1>9. Target(m)' = s
  BY <1>2, <1>5, <1>6, HomeStays
<1>10. PortCyc(s)'[p] = (mst'[m].cyc /\ Target(m)' = s)
  BY DEF PortCyc, m, Target
<1>. QED BY <1>8, <1>9, <1>10

LEMMA BackedStep ==
  ASSUME FabricInv, NEW start \in StartChoices, NEW hold \in SUBSET Holding, NEW ready \in SUBSET Caches,
         Clock(start, hold, ready),
         NEW s \in Slaves
  PROVE  Backed(s)'
<1>. DEFINE P   == 0 .. NumPorts(s) - 1
            a   == arb[s]
            cyc == PortCyc(s)
            sel == Arb(s)!MasterSel(a, cyc)
            valid == Arb(s)!MasterSelValid(a, cyc)
            r   == a.master_sel_reg
            r2  == arb'[s].master_sel_reg
            m2  == arb'[s].mask
<1>1. TypeOK /\ Backed(s) /\ arb'[s] = Arb(s)!ArbiterEdge(a, cyc)
  BY Edges DEF FabricInv
<1>2. a.mask \in [P -> BOOLEAN] /\ r \in P /\ a.master_sel_valid_reg \in BOOLEAN
  BY <1>1, SlaveTyped
<1>. SUFFICES ASSUME arb'[s].master_sel_valid_reg, PortCyc(s)'[r2], ~m2[r2]
              PROVE  \E w \in P : w # r2 /\ PortCyc(s)'[w] /\ m2[w]
  BY Zenon DEF Backed
<1>3. valid /\ sel \in P /\ cyc[sel] /\ a.mask[sel]
  BY <1>1, ArbiterKeeps
<1>4. m2 = IF a.master_sel_valid_reg /\ sel # r THEN [a.mask EXCEPT ![r] = FALSE] ELSE a.mask
  <2>1. m2 = Arb(s)!NextMask(a, cyc)  BY <1>1, ArbiterKeeps
  <2>. QED BY <1>3, <2>1, Zenon DEF Arb!NextMask
<1>5. /\ a.master_sel_valid_reg /\ cyc[r] => r2 = r
      /\ ~(a.master_sel_valid_reg /\ cyc[r]) => r2 = sel
  BY <1>1, ArbiterKeeps
<1>. HIDE DEF sel, valid, cyc
<1>6. a.master_sel_valid_reg /\ cyc[r]
  BY <1>2, <1>3, <1>4, <1>5
<1>7. r2 = r
  BY <1>5, <1>6
<1>8. \A w \in P : w # r /\ cyc[w] => PortCyc(s)'[w]
  <2>1. \A w \in P : w # r => ~Arb(s)!Connected(a, w)  BY DEF Arb!Connected
  <2>. QED BY <2>1, WaitersKeep DEF cyc
<1>9. \E w \in P : w # r /\ cyc[w] /\ a.mask[w]
  <2>1. CASE a.mask[r]
    <3>1. sel # r  BY <1>2, <1>4, <1>7, <2>1
    <3>. QED BY <1>3, <3>1
  <2>2. CASE ~a.mask[r]
    BY <1>1, <1>6, <2>2, Zenon DEF Backed, cyc
  <2>. QED BY <2>1, <2>2
<1>10. \A w \in P : w # r => m2[w] = a.mask[w]
  BY <1>2, <1>4
<1>. QED BY <1>7, <1>8, <1>9, <1>10

LEMMA InvInit == Init => FabricInv
<1>. SUFFICES ASSUME Init PROVE FabricInv
  OBVIOUS
<1>. DEFINE Z == Words
<1>1. \A m \in Masters : /\ mst[m] = MasterReset(BlankWord)
                         /\ user[m] = [taken |-> 0, rx |-> <<>>]
                         /\ txn[m] = [busy |-> FALSE, cmd |-> NoCommand, done |-> 0, res |-> <<>>]
  BY DEF Init
<1>2. \A s \in Slaves : /\ arb[s] = Arb(s)!ArbiterReset
                        /\ slv[s] = SlaveReset(BlankWord)
                        /\ store[s] = [c \in Cells[s] |-> BlankWord]
  BY DEF Init
<1>3. BlankWord \in Z /\ MaxBurst \in Nat /\ <<>> \in Seq(Z) /\ Len(<<>>) = 0
  BY BlankIsWord, FabricAssumption, EmptySeq DEF CountValues
<1>4. 0 \in Adrs
  BY DEF Adrs
<1>. HIDE DEF Z
<1>5. ASSUME NEW m \in Masters
      PROVE  /\ mst[m] \in MasterRegs(Adrs, Z)
             /\ user[m] \in [taken : 0 .. MaxBurst + 1, rx : Seq(Z)] /\ Len(user[m].rx) <= MaxBurst + 1
             /\ txn[m] \in [busy : BOOLEAN, cmd : Commands[m] \cup {NoCommand}, done : 0 .. MaxBurst + 1, res : Seq(Z)]
             /\ Len(txn[m].res) <= MaxBurst + 1
  <2>. DEFINE C == 0 .. CountValues - 1
              N == 0 .. MaxBurst + 1
              Q == Seq(Z)
              K == Commands[m] \cup {NoCommand}
  <2>0. 0 \in C /\ 0 \in N /\ <<>> \in Q /\ NoCommand \in K /\ Len(<<>>) <= MaxBurst + 1
        /\ FALSE \in BOOLEAN /\ BlankWord \in Z /\ 0 \in Adrs
    BY <1>3, <1>4 DEF CountValues
  <2>. HIDE DEF C, N, Q, K
  <2>1. mst[m] \in MasterRegs(Adrs, Z)
    <3>1. mst[m] = [state |-> "ST_IDLE", adr |-> 0, dat |-> BlankWord, we |-> FALSE, stb |-> FALSE,
                    cyc |-> FALSE, count |-> 0, count_ack |-> 0, mask |-> 0,
                    dready_rd |-> FALSE, dout |-> BlankWord, complete |-> FALSE, err |-> FALSE]
      BY <1>1 DEF MasterReset
    <3>2. MasterRegs(Adrs, Z) =
            [state : {"ST_IDLE", "ST_PENDING"}, adr : Adrs, dat : Z, we : BOOLEAN,
             stb : BOOLEAN, cyc : BOOLEAN, count : C, count_ack : C, mask : C,
             dready_rd : BOOLEAN, dout : Z, complete : BOOLEAN, err : BOOLEAN]
      BY DEF MasterRegs, C
    <3>. QED BY <2>0, <3>1, <3>2
  <2>2. user[m] \in [taken : N, rx : Q] /\ Len(user[m].rx) <= MaxBurst + 1
    <3>1. user[m] = [taken |-> 0, rx |-> <<>>]  BY <1>1
    <3>. QED BY <2>0, <3>1
  <2>3. /\ txn[m] \in [busy : BOOLEAN, cmd : K, done : N, res : Q]
        /\ Len(txn[m].res) <= MaxBurst + 1
    <3>1. txn[m] = [busy |-> FALSE, cmd |-> NoCommand, done |-> 0, res |-> <<>>]  BY <1>1
    <3>. QED BY <2>0, <3>1
  <2>. QED BY <2>1, <2>2, <2>3 DEF N, Q, K
<1>6. ASSUME NEW s \in Slaves
      PROVE  /\ arb[s] \in Arb(s)!ArbiterRegs
             /\ slv[s] \in SlaveRegs(Cells[s] \cup {0}, Z)
             /\ store[s] \in [Cells[s] -> Z]
  <2>1. 0 \in 0 .. NumPorts(s) - 1  BY Ports
  <2>2. arb[s] \in Arb(s)!ArbiterRegs
    <3>. DEFINE P == 0 .. NumPorts(s) - 1
    <3>1. arb[s] = [mask |-> [i \in P |-> TRUE], master_sel_reg |-> 0, master_sel_valid_reg |-> FALSE]
      BY <1>2 DEF Arb!ArbiterReset, Arb!Master
    <3>2. Arb(s)!ArbiterRegs = [mask : [P -> BOOLEAN], master_sel_reg : P, master_sel_valid_reg : BOOLEAN]
      BY DEF Arb!ArbiterRegs, Arb!Master
    <3>3. 0 \in P  BY <2>1
    <3>. HIDE DEF P
    <3>4. [i \in P |-> TRUE] \in [P -> BOOLEAN]  OBVIOUS
    <3>. QED BY <3>1, <3>2, <3>3, <3>4
  <2>3. slv[s] \in SlaveRegs(Cells[s] \cup {0}, Z)
    <3>. DEFINE C == Cells[s] \cup {0}
                q == [we |-> FALSE, adr |-> 0, dat |-> BlankWord]
                R == [we : BOOLEAN, adr : C, dat : Z]
    <3>1. slv[s] = [state |-> "FSM_IDLE", req |-> q, ack |-> FALSE, dat |-> BlankWord]
      BY <1>2 DEF SlaveReset
    <3>2. SlaveRegs(C, Z) = [state : {"FSM_IDLE", "FSM_SETUP", "FSM_ENABLE"}, req : R, ack : BOOLEAN, dat : Z]
      BY DEF SlaveRegs
    <3>3. q \in R  BY <1>3
    <3>. HIDE DEF q, R
    <3>. QED BY <1>3, <3>1, <3>2, <3>3
  <2>4. store[s] \in [Cells[s] -> Z]
    BY <1>2, <1>3
  <2>. QED BY <2>2, <2>3, <2>4
<1>7. TypeOK
  BY <1>5, <1>6 DEF TypeOK, Z
<1>8. ASSUME NEW m \in Masters PROVE MasterInv(m)
  <2>1. /\ mst[m].state = "ST_IDLE" /\ mst[m].stb = FALSE /\ mst[m].cyc = FALSE /\ mst[m].complete = FALSE
        /\ mst[m].dready_rd = FALSE /\ txn[m].busy = FALSE /\ user[m].rx = <<>>
    <3>1. /\ mst[m].state = "ST_IDLE" /\ mst[m].stb = FALSE /\ mst[m].cyc = FALSE /\ mst[m].complete = FALSE
          /\ mst[m].dready_rd = FALSE
      BY <1>1 DEF MasterReset
    <3>2. txn[m].busy = FALSE /\ user[m].rx = <<>>  BY <1>1
    <3>. QED BY <3>1, <3>2
  <2>2. ~Pends(m) /\ Got(m) = <<>>
    BY <2>1 DEF Pends, Got
  <2>3. Rests(m) /\ Keeps(m) /\ Told(m)
    BY <2>1, <2>2 DEF Rests, Keeps, Told
  <2>4. RxFits(m)
    BY <1>3, <2>2 DEF RxFits
  <2>. QED BY <2>2, <2>3, <2>4 DEF MasterInv, Bursts, Asks, Gives, NoneYet, Counts, Reads, Bridges
<1>9. ASSUME NEW s \in Slaves PROVE Serves(s) /\ Backed(s)
  <2>1. slv[s].state = "FSM_IDLE" /\ slv[s].ack = FALSE /\ Kind[s] \in {"mem", "cache", "apb"}
    <3>1. slv[s] = [state |-> "FSM_IDLE", req |-> [we |-> FALSE, adr |-> 0, dat |-> BlankWord],
                    ack |-> FALSE, dat |-> BlankWord]
      BY <1>2 DEF SlaveReset
    <3>2. Kind[s] \in {"mem", "cache", "apb"}  BY <1>7, SlaveTyped
    <3>. QED BY <3>1, <3>2
  <2>2. ~(InFlight(s) > 0)
    BY <2>1 DEF InFlight
  <2>3. arb[s].master_sel_valid_reg = FALSE
    <3>1. arb[s] = Arb(s)!ArbiterReset  BY <1>2
    <3>. QED BY <3>1 DEF Arb!ArbiterReset
  <2>. QED BY <2>2, <2>3 DEF Serves, Backed
<1>. QED BY <1>7, <1>8, <1>9 DEF FabricInv

\* A step that changes nothing.
LEMMA InvStutters == FabricInv /\ UNCHANGED vars => FabricInv'
<1>. SUFFICES ASSUME FabricInv, UNCHANGED vars PROVE FabricInv'
  OBVIOUS
<1>1. mst' = mst /\ arb' = arb /\ slv' = slv /\ store' = store /\ user' = user /\ txn' = txn
  BY DEF vars
<1>2. TypeOK'
  BY <1>1 DEF FabricInv, TypeOK
<1>3. ASSUME NEW m \in Masters PROVE MasterInv(m)'
  <2>1. MasterInv(m)  BY DEF FabricInv
  <2>2. (Bursts(m) /\ Asks(m) /\ Gives(m) /\ Rests(m))'
    BY <1>1, <2>1 DEF MasterInv, Bursts, Asks, Gives, Rests, Pends, CmdOf, Word, Accepted
  <2>3. (NoneYet(m) /\ Counts(m) /\ Reads(m))'
    BY <1>1, <2>1 DEF MasterInv, NoneYet, Counts, Reads, Pends, Home, CmdOf, ToBeAccepted, Flight, MemFlight,
                      Seen, Got, Owns, InFlight
  <2>4. (Bridges(m) /\ Keeps(m) /\ Told(m) /\ RxFits(m))'
    BY <1>1, <2>1 DEF MasterInv, Bridges, Keeps, Told, RxFits, Pends, Home, Target, CmdOf, Word, Flight,
                      Got, Owns, InFlight
  <2>. QED BY <2>2, <2>3, <2>4 DEF MasterInv
<1>4. ASSUME NEW s \in Slaves PROVE Serves(s)' /\ Backed(s)'
  <2>1. Serves(s) /\ Backed(s)  BY DEF FabricInv
  <2>2. PortCyc(s)' = PortCyc(s)  BY <1>1 DEF PortCyc, Target
  <2>3. Serves(s)'  BY <1>1, <2>1 DEF Serves, InFlight, ServedBy, Pends, Target
  <2>4. Backed(s)'  BY <1>1, <2>1, <2>2 DEF Backed
  <2>. QED BY <2>3, <2>4
<1>. QED BY <1>2, <1>3, <1>4 DEF FabricInv

LEMMA InvStep == FabricInv /\ [Next]_vars => FabricInv'
<1>. SUFFICES ASSUME FabricInv, [Next]_vars PROVE FabricInv'
  OBVIOUS
<1>1. ASSUME NEW start \in StartChoices, NEW hold \in SUBSET Holding, NEW ready \in SUBSET Caches,
             Clock(start, hold, ready)
      PROVE  FabricInv'
  <2>1. TypeOK'
    BY <1>1, TypeStep
  <2>2. \A m \in Masters : MasterInv(m)'
    BY <1>1, MasterStep
  <2>3. \A s \in Slaves : Serves(s)' /\ Backed(s)'
    BY <1>1, ServesStep, BackedStep
  <2>. QED BY <2>1, <2>2, <2>3 DEF FabricInv
<1>2. CASE UNCHANGED vars
  BY <1>2, InvStutters
<1>. QED BY <1>1, <1>2 DEF Next


-----------------------------------------------------------------------------
(* What the interconnect guarantees in every state and in every cycle.     *)

THEOREM Inductive == Spec => []FabricInv
BY InvInit, InvStep, PTL DEF Spec

\* Every register of the masters, the arbiters and the slaves, the memories
\* behind them and what the users know stay in their ranges: the bursts that
\* run on the bus never leave their line, and no user is given more words than
\* its command has.
THEOREM TypeCorrect == Spec => []TypeOK
<1>1. FabricInv => TypeOK
  BY DEF FabricInv
<1>. QED BY <1>1, Inductive, PTL

\* The two counters of wb_master agree with the slave it is connected to: the
\* acknowledges it still counts on are those in flight and those of requests to
\* come.
THEOREM AcksAccounted == Spec => []AcksAreAccounted
<1>1. ASSUME FabricInv PROVE AcksAreAccounted
  <2>. SUFFICES ASSUME NEW m \in Masters, Pends(m), Target(m) # NoSlave
                PROVE  mst[m].count_ack + 1
                         = ToBeAccepted(m) + (IF Owns(m, Target(m)) THEN InFlight(Target(m)) ELSE 0)
    BY DEF AcksAreAccounted, Pends
  <2>1. TypeOK /\ MasterInv(m)  BY <1>1 DEF FabricInv
  <2>2. Target(m) = Home(m)  BY <2>1, AtHome DEF MasterInv
  <2>3. mst[m].count_ack + 1 = ToBeAccepted(m) + Flight(m)
    BY <2>1, <2>2 DEF MasterInv, Counts
  <2>. QED BY <2>2, <2>3 DEF Flight
<1>. QED BY <1>1, Inductive, PTL

\* When wb_master raises complete_o, its user has been told the truth: err_o
\* exactly where no slave is, else all words of the command done and the words
\* read handed over in order.
THEOREM AnswersRight == Spec => []AnswersAreRight
<1>1. ASSUME FabricInv PROVE AnswersAreRight
  <2>. SUFFICES ASSUME NEW m \in Masters, mst[m].complete
                PROVE  IF Home(m) = NoSlave
                         THEN mst[m].err /\ txn[m].done = 0
                         ELSE /\ ~mst[m].err /\ txn[m].done = txn[m].cmd.burst + 1
                              /\ ~txn[m].cmd.we => Append(user[m].rx, mst[m].dout) = txn[m].res
    BY DEF AnswersAreRight, Home, CmdOf
  <2>1. Told(m)  BY <1>1 DEF FabricInv, MasterInv
  <2>. QED BY <2>1 DEF Told, Got, CmdOf
<1>. QED BY <1>1, Inductive, PTL

\* A master that an arbiter has not connected does not lower cyc towards it:
\* what the arbiter's proof assumes of its masters.
THEOREM WaitersKeepTheirCyc == Spec => WaitersKeepCyc
<1>1. ASSUME FabricInv, [Next]_vars,
             NEW s \in Slaves, NEW p \in 0 .. NumPorts(s) - 1, PortCyc(s)[p], ~PortCyc(s)'[p]
      PROVE  Arb(s)!Connected(arb[s], p)
  <2>1. ASSUME NEW start \in StartChoices, NEW hold \in SUBSET Holding, NEW ready \in SUBSET Caches,
               Clock(start, hold, ready)
        PROVE  Arb(s)!Connected(arb[s], p)
    BY <1>1, <2>1, WaitersKeep
  <2>2. CASE UNCHANGED vars
    <3>1. PortCyc(s)' = PortCyc(s)  BY <2>2 DEF vars, PortCyc, Target
    <3>. QED BY <1>1, <3>1
  <2>. QED BY <1>1, <2>1, <2>2 DEF Next
<1>2. FabricInv /\ [Next]_vars =>
        [\A s \in Slaves : \A p \in 0 .. NumPorts(s) - 1 :
           PortCyc(s)[p] /\ ~PortCyc(s)'[p] => Arb(s)!Connected(arb[s], p)]_vars
  BY <1>1
<1>. QED BY <1>2, Inductive, PTL DEF Spec, WaitersKeepCyc

\* A request that reaches a cache adapter and is not performed in this cycle
\* stands unchanged in the next.
LEMMA RequestHolds ==
  ASSUME FabricInv, NEW start \in StartChoices, NEW hold \in SUBSET Holding, NEW ready \in SUBSET Caches,
         Clock(start, hold, ready),
         NEW s \in Caches, Requests(RequestAt(s)), txn'[ServedBy(s)].done = txn[ServedBy(s)].done
  PROVE  RequestAt(s)' = RequestAt(s)
<1>1. s \in Slaves /\ Kind[s] = "cache" /\ TypeOK
  BY DEF Caches, FabricInv
<1>2. PICK m \in Masters : m = ServedBy(s)
  BY <1>1, Owners
<1>3. /\ Owns(m, s) /\ Pends(m) /\ mst[m].stb /\ Home(m) = s /\ Target(m) = s
  BY <1>1, <1>2, Asked
<1>4. MasterInv(m) /\ mst[m].cyc /\ s # NoSlave
  BY <1>1, <1>3, AtHome, Wiring DEF FabricInv, MasterInv, NoSlave
<1>5. s \notin ready
  <2>1. SUFFICES ASSUME s \in ready PROVE FALSE
    OBVIOUS
  <2>2. AccessAt(s, ready).on  BY <1>1, <2>1 DEF AccessAt, AccessOf
  <2>3. Performs(m, ready)  BY <1>2, <1>3, <2>2 DEF Performs
  <2>4. txn'[m].done = txn[m].done + 1  BY <1>3, <1>4, <2>3, PendingTxn
  <2>5. txn[m].done \in Nat  BY <1>3, Numbers
  <2>. QED BY <1>2, <2>4, <2>5
<1>6. LET in == InputOf(m, ready) IN in.stall /\ ~in.ack /\ ~in.err
  BY <1>1, <1>3, <1>4, <1>5, InputIs
<1>7. /\ mst'[m].adr = mst[m].adr /\ mst'[m].dat = mst[m].dat
      /\ mst'[m].stb /\ mst'[m].cyc
  BY <1>3, <1>6, PendingEdge
<1>8. mst'[m].we <=> mst[m].we
  <2>1. mst'[m].we <=> CmdOf(m).we  BY <1>3, <1>6, PendingEdge
  <2>. QED BY <1>3, <1>4, <2>1 DEF MasterInv, Bursts
<1>9. mst'[m].we = mst[m].we /\ mst'[m].stb = TRUE /\ mst'[m].cyc = TRUE
  <2>1. mst[m].we \in BOOLEAN  BY <1>1, MasterTyped
  <2>2. /\ mst'[m].we \in BOOLEAN /\ mst'[m].stb \in BOOLEAN /\ mst'[m].cyc \in BOOLEAN
    <3>1. mst'[m] \in MasterRegs(Adrs, Words)  BY <1>3, PendingEdge
    <3>. QED BY <3>1 DEF MasterRegs
  <2>. QED BY <1>7, <1>8, <2>1, <2>2
<1>10. /\ arb[s].master_sel_valid_reg /\ arb'[s].master_sel_valid_reg
       /\ MasterAt(s, arb'[s].master_sel_reg) = m /\ MasterAt(s, arb[s].master_sel_reg) = m
  BY <1>1, <1>2, <1>3, <1>4, Owners, OwnerKeeps DEF ServedBy
<1>11. Target(m)' = s
  BY <1>3, HomeStays
<1>12. mst[m].stb = TRUE /\ mst[m].cyc = TRUE
  BY <1>1, <1>3, <1>4, MasterTyped
<1>13. RequestAt(s) = [adr |-> RelAdr(s, mst[m].adr), dat |-> mst[m].dat, we |-> mst[m].we,
                       stb |-> TRUE, cyc |-> TRUE]
  BY <1>3, <1>10, <1>12 DEF RequestAt
<1>14. RequestAt(s)' = [adr |-> RelAdr(s, mst'[m].adr), dat |-> mst'[m].dat, we |-> mst'[m].we,
                        stb |-> TRUE, cyc |-> TRUE]
  BY <1>9, <1>10, <1>11 DEF RequestAt, Target
<1>. QED BY <1>7, <1>9, <1>13, <1>14

\* What the cache behind wb_cache_adapter relies on: the request of the core
\* it serves does not move before it has completed it.
THEOREM RequestsHold == Spec => RequestsHoldStill
<1>1. ASSUME FabricInv, [Next]_vars, vars' # vars,
             NEW s \in Caches, Requests(RequestAt(s)), txn'[ServedBy(s)].done = txn[ServedBy(s)].done
      PROVE  RequestAt(s)' = RequestAt(s)
  BY <1>1, RequestHolds DEF Next
<1>2. FabricInv /\ [Next]_vars =>
        [\A s \in Caches :
           LET m == ServedBy(s) IN
             Requests(RequestAt(s)) /\ txn'[m].done = txn[m].done => RequestAt(s)' = RequestAt(s)]_vars
  BY <1>1
<1>. QED BY <1>2, Inductive, PTL DEF Spec, RequestsHoldStill

-----------------------------------------------------------------------------
(* The interconnect implements one memory.                                 *)

\* An address of a slave is in the memory of BusMemory where its cell is.
LEMMA Mapped ==
  ASSUME NEW s \in Slaves, NEW a \in Nat, InRange(s, a), RelAdr(s, a) \in Cells[s]
  PROVE  a \in MappedAdrs /\ HomeOf(a) = s /\ MappedMem[a] = store[s][RelAdr(s, a)]
<1>1. HomeOf(a) = s
  <2>1. HomeOf(a) \in Slaves /\ InRange(HomeOf(a), a)  BY Zenon DEF HomeOf
  <2>. QED BY <2>1, RangesApart
<1>2. a \in MappedAdrs
  <2>. DEFINE base == SlaveMap[s].addr
              size == SlaveMap[s].size
              K(t) == {k \in 0 .. SlaveMap[t].size - 1 : RelAdr(t, SlaveMap[t].addr + k) \in Cells[t]}
  <2>1. base \in Nat /\ size \in Nat /\ base <= a /\ a < base + size
    BY Wiring DEF InRange
  <2>2. a - base \in 0 .. size - 1 /\ base + (a - base) = a
    BY <2>1
  <2>3. a - base \in K(s)
    BY <2>2
  <2>4. a \in {SlaveMap[s].addr + i : i \in K(s)}
    BY <2>2, <2>3
  <2>. HIDE DEF K
  <2>5. a \in UNION {{SlaveMap[t].addr + i : i \in K(t)} : t \in Slaves}
    BY <2>4
  <2>. QED BY <2>5 DEF MappedAdrs, K
<1>3. MappedMem[a] = store[HomeOf(a)][RelAdr(HomeOf(a), a)]
  BY <1>2 DEF MappedMem
<1>. QED BY <1>1, <1>2, <1>3

LEMMA MappedIs ==
  ASSUME NEW a \in MappedAdrs
  PROVE  /\ a \in Nat /\ HomeOf(a) \in Slaves /\ InRange(HomeOf(a), a)
         /\ RelAdr(HomeOf(a), a) \in Cells[HomeOf(a)]
<1>1. PICK s \in Slaves :
        a \in {SlaveMap[s].addr + i : i \in {k \in 0 .. SlaveMap[s].size - 1 :
                                               RelAdr(s, SlaveMap[s].addr + k) \in Cells[s]}}
  BY Zenon DEF MappedAdrs
<1>2. PICK i \in 0 .. SlaveMap[s].size - 1 :
        a = SlaveMap[s].addr + i /\ RelAdr(s, SlaveMap[s].addr + i) \in Cells[s]
  BY <1>1, Zenon
<1>3. a \in Nat /\ InRange(s, a) /\ RelAdr(s, a) \in Cells[s]
  BY <1>2, Wiring DEF InRange
<1>. QED BY <1>3, Mapped

\* The words that reach the memory in a cycle are those that the slaves perform.
LEMMA AccessesAre ==
  ASSUME FabricInv, NEW start \in StartChoices, NEW hold \in SUBSET Holding, NEW ready \in SUBSET Caches,
         Clock(start, hold, ready),
         NEW m \in Masters
  PROVE  Memory!Accesses(m) <=> Pends(m) /\ Home(m) # NoSlave /\ Performs(m, ready)
<1>1. TypeOK /\ MasterInv(m) /\ txn[m].done \in Nat
  BY UserTyped DEF FabricInv
<1>2. CASE Pends(m)
  <2>1. txn[m].busy /\ txn'[m].busy  BY <1>1, <1>2, PendingTxn DEF MasterInv, Bursts
  <2>2. Home(m) # NoSlave /\ Performs(m, ready) => txn'[m].done = txn[m].done + 1
    BY <1>2, PendingTxn
  <2>3. ~(Home(m) # NoSlave /\ Performs(m, ready)) => txn'[m].done = txn[m].done
    BY <1>2, PendingTxn
  <2>. QED BY <1>1, <1>2, <2>1, <2>2, <2>3 DEF Memory!Accesses
<1>3. CASE ~Pends(m) /\ Starts(m, start)
  <2>1. txn'[m] = [busy |-> TRUE, cmd |-> start[m], done |-> 0, res |-> <<>>]
    BY <1>3, Edges DEF TxnEdge
  <2>2. txn'[m].done = 0  BY <2>1
  <2>. QED BY <1>1, <1>3, <2>2 DEF Memory!Accesses
<1>4. CASE ~Pends(m) /\ ~Starts(m, start)
  <2>1. txn'[m] = IF txn[m].busy THEN [txn[m] EXCEPT !.busy = FALSE] ELSE txn[m]
    BY <1>4, IdleStays
  <2>2. txn'[m].done = txn[m].done  BY <2>1
  <2>. QED BY <1>1, <1>4, <2>2 DEF Memory!Accesses
<1>. QED BY <1>2, <1>3, <1>4

\* The word of the command of m that is due lies in the slave of the command.
LEMMA DueWord ==
  ASSUME FabricInv, NEW m \in Masters, Pends(m), NEW s \in Slaves, s = Home(m),
         txn[m].done \in 0 .. CmdOf(m).burst
  PROVE  LET a == Word(m, txn[m].done) IN
           /\ a \in Nat /\ InRange(s, a) /\ RelAdr(s, a) \in Cells[s]
           /\ a \in MappedAdrs /\ HomeOf(a) = s /\ MappedMem[a] = store[s][RelAdr(s, a)]
<1>. DEFINE a == Word(m, txn[m].done)
<1>1. CmdOf(m) \in Commands[m] /\ s # NoSlave
  BY Numbers, Wiring DEF NoSlave
<1>2. a \in Line(CmdOf(m)) /\ Line(CmdOf(m)) \subseteq Nat
  BY <1>1, Lines DEF Word
<1>3. InRange(s, a) /\ RelAdr(s, a) \in Cells[s]
  BY <1>1, <1>2, Lines DEF Home
<1>. HIDE DEF a
<1>4. a \in Nat
  BY <1>2
<1>5. a \in MappedAdrs /\ HomeOf(a) = s /\ MappedMem[a] = store[s][RelAdr(s, a)]
  BY <1>3, <1>4, Mapped
<1>. QED BY <1>3, <1>4, <1>5 DEF a

\* A word that a slave performs is a step of BusMemory, and no other master is
\* in the middle of a burst at that slave.
LEMMA PerformedIsAccess ==
  ASSUME FabricInv, NEW start \in StartChoices, NEW hold \in SUBSET Holding, NEW ready \in SUBSET Caches,
         Clock(start, hold, ready),
         NEW m \in Masters, Memory!Accesses(m)
  PROVE  Memory!Access(m)
<1>1. Pends(m) /\ Home(m) # NoSlave /\ Performs(m, ready)
  BY AccessesAre
<1>2. PICK s \in Slaves : s = Home(m)
  BY <1>1, Decoded DEF Home
<1>3. AccessAt(s, ready).on /\ ServedBy(s) = m
  BY <1>1, <1>2 DEF Performs
<1>4. \A t \in ready : Kind[t] = "cache" /\ Requests(RequestAt(t))
  BY Edges
<1>5. /\ Owns(m, s) /\ txn[m].done \in 0 .. CmdOf(m).burst
      /\ AccessAt(s, ready).adr = RelAdr(s, Word(m, txn[m].done))
      /\ AccessAt(s, ready).adr \in Cells[s]
  BY <1>3, <1>4, Performed
<1>6. TypeOK /\ MasterInv(m) /\ CmdOf(m).burst \in Nat /\ CmdOf(m).we \in BOOLEAN
  BY <1>1, Numbers DEF FabricInv
<1>7. txn'[m].cmd = txn[m].cmd
  BY <1>1, PendingTxn
<1>8. txn'[m].res = IF CmdOf(m).we THEN <<>> ELSE Append(txn[m].res, MappedMem[Word(m, txn[m].done)])
  <2>1. CellAt(s, ready) = MappedMem[Word(m, txn[m].done)]
    <3>1. MappedMem[Word(m, txn[m].done)] = store[s][RelAdr(s, Word(m, txn[m].done))]
      BY <1>1, <1>2, <1>5, DueWord
    <3>. QED BY <1>5, <3>1 DEF CellAt
  <2>2. CmdOf(m).we => txn'[m].res = <<>>
    BY <1>1, <1>6, PendingTxn DEF MasterInv, Gives
  <2>3. ~CmdOf(m).we => txn'[m].res = Append(txn[m].res, CellAt(s, ready))
    BY <1>1, <1>2, PendingTxn
  <2>. QED BY <2>1, <2>2, <2>3
<1>9. ASSUME NEW n \in Masters \ {m}, Memory!InBurst(txn[n]) \/ Memory!Accesses(n), Home(n) = s
      PROVE  FALSE
  <2>1. MasterInv(n) /\ s # NoSlave  BY <1>1, <1>2 DEF FabricInv
  <2>2. CASE Memory!Accesses(n)
    <3>1. Performs(n, ready)  BY <2>2, AccessesAre
    <3>. QED BY <1>3, <1>9, <3>1 DEF Performs
  <2>3. CASE Memory!InBurst(txn[n])
    <3>1. txn[n].busy /\ 0 < txn[n].done /\ txn[n].done < CmdOf(n).burst + 1
      BY <2>3 DEF Memory!InBurst, Memory!Words, CmdOf
    <3>2. CASE Pends(n)
      <4>1. txn[n].done > 0  BY <1>6, <3>1, UserTyped
      <4>2. Owns(n, s)  BY <1>9, <2>1, <3>2, <4>1 DEF MasterInv, Keeps
      <4>. QED BY <1>3, <1>6, <4>2, Owners
    <3>3. CASE ~Pends(n)
      <4>1. mst[n].complete  BY <2>1, <3>1, <3>3 DEF MasterInv, Rests
      <4>2. txn[n].done = CmdOf(n).burst + 1 /\ CmdOf(n) \in Commands[n]
        BY <1>9, <2>1, <4>1 DEF MasterInv, Told
      <4>3. CmdOf(n).burst \in Nat  BY <4>2, Lines
      <4>. QED BY <3>1, <4>2, <4>3
    <3>. QED BY <3>2, <3>3
  <2>. QED BY <1>9, <2>2, <2>3
<1>10. txn[m].done < CmdOf(m).burst + 1
  BY <1>5, <1>6
<1>11. \A n \in Masters \ {m} : Memory!InBurst(txn[n]) \/ Memory!Accesses(n) => Memory!Slave(n) # Memory!Slave(m)
  BY <1>2, <1>9 DEF Memory!Slave, Home, CmdOf
<1>. QED BY <1>1, <1>7, <1>8, <1>10, <1>11
     DEF Memory!Access, Memory!Words, Memory!Slave, Memory!Address, Home, CmdOf, Word

\* Every master issues, accesses, completes or does nothing.
LEMMA MasterMoves ==
  ASSUME FabricInv, NEW start \in StartChoices, NEW hold \in SUBSET Holding, NEW ready \in SUBSET Caches,
         Clock(start, hold, ready),
         NEW m \in Masters
  PROVE  txn'[m] = txn[m] \/ Memory!Issue(m) \/ Memory!Access(m) \/ Memory!Complete(m)
<1>1. MasterInv(m)
  BY DEF FabricInv
<1>2. ~Pends(m) /\ txn[m].busy => Memory!Finished(m)
  <2>1. ~Pends(m) /\ txn[m].busy => mst[m].complete  BY <1>1 DEF MasterInv, Rests
  <2>2. mst[m].complete => Home(m) = NoSlave \/ txn[m].done = CmdOf(m).burst + 1
    BY <1>1 DEF MasterInv, Told
  <2>. QED BY <2>1, <2>2 DEF Memory!Finished, Memory!Slave, Memory!Words, Home, CmdOf
<1>3. CASE Pends(m)
  <2>1. CASE Home(m) # NoSlave /\ Performs(m, ready)
    BY <1>3, <2>1, AccessesAre, PerformedIsAccess
  <2>2. CASE ~(Home(m) # NoSlave /\ Performs(m, ready))
    BY <1>3, <2>2, PendingTxn
  <2>. QED BY <2>1, <2>2
<1>4. CASE ~Pends(m) /\ Starts(m, start)
  <2>1. txn'[m] = Memory!Fresh(start[m])
    BY <1>4, Edges DEF TxnEdge, Memory!Fresh
  <2>2. start[m] \in AllCommands
    BY <1>4, Edges DEF AllCommands
  <2>. QED BY <1>2, <1>4, <2>1, <2>2 DEF Memory!Issue
<1>5. CASE ~Pends(m) /\ ~Starts(m, start)
  <2>1. txn'[m] = IF txn[m].busy THEN [txn[m] EXCEPT !.busy = FALSE] ELSE txn[m]
    BY <1>5, IdleStays
  <2>. QED BY <1>2, <1>5, <2>1 DEF Memory!Complete
<1>. QED BY <1>3, <1>4, <1>5

\* The memory changes by the words written in this cycle and by nothing else.
LEMMA MemoryMoves ==
  ASSUME FabricInv, NEW start \in StartChoices, NEW hold \in SUBSET Holding, NEW ready \in SUBSET Caches,
         Clock(start, hold, ready)
  PROVE  Memory!MemoryStep
<1>. SUFFICES ASSUME NEW a \in MappedAdrs
              PROVE  \/ \E m \in Masters : Memory!Writes(m, a)
                                           /\ MappedMem'[a] = DataOf(txn[m].cmd.val, txn[m].done)
                     \/ (\A m \in Masters : ~Memory!Writes(m, a)) /\ MappedMem'[a] = MappedMem[a]
  BY DEF Memory!MemoryStep, MappedMem
<1>1. PICK s \in Slaves : s = HomeOf(a) /\ a \in Nat /\ InRange(s, a) /\ RelAdr(s, a) \in Cells[s]
  BY MappedIs
<1>. DEFINE acc == AccessAt(s, ready)
            c == RelAdr(s, a)
<1>2. MappedMem[a] = store[s][c] /\ MappedMem'[a] = store'[s][c]
  BY <1>1 DEF MappedMem
<1>3. store'[s] = IF acc.on /\ acc.we THEN [store[s] EXCEPT ![acc.adr] = acc.dat] ELSE store[s]
  BY Edges DEF StoreEdge
<1>4. store[s] \in [Cells[s] -> Words]
  BY SlaveTyped DEF FabricInv
<1>5. \A t \in ready : Kind[t] = "cache" /\ Requests(RequestAt(t))
  BY Edges
<1>6. CASE acc.on /\ acc.we /\ acc.adr = c
  <2>1. PICK m \in Masters : m = ServedBy(s)
    BY Owners DEF FabricInv
  <2>2. /\ Pends(m) /\ Home(m) = s /\ txn[m].done \in 0 .. CmdOf(m).burst
        /\ acc.we = CmdOf(m).we /\ acc.adr = RelAdr(s, Word(m, txn[m].done))
        /\ CmdOf(m).we => acc.dat = DataOf(CmdOf(m).val, txn[m].done)
    BY <1>5, <1>6, <2>1, Performed
  <2>3. Word(m, txn[m].done) = a
    <3>1. Word(m, txn[m].done) \in Nat /\ InRange(s, Word(m, txn[m].done))
      BY <2>2, DueWord
    <3>. QED BY <1>1, <1>6, <2>2, <3>1, RelAdrApart
  <2>4. Memory!Accesses(m)
    <3>1. s # NoSlave  BY Wiring DEF NoSlave
    <3>. QED BY <1>6, <2>1, <2>2, <3>1, AccessesAre DEF Performs
  <2>5. Memory!Writes(m, a)
    BY <1>6, <2>2, <2>3, <2>4 DEF Memory!Writes, Memory!Address, Word, CmdOf
  <2>6. MappedMem'[a] = DataOf(txn[m].cmd.val, txn[m].done)
    BY <1>1, <1>2, <1>3, <1>4, <1>6, <2>2 DEF CmdOf
  <2>. QED BY <2>5, <2>6
<1>7. CASE ~(acc.on /\ acc.we /\ acc.adr = c)
  <2>1. ASSUME NEW m \in Masters, Memory!Writes(m, a) PROVE FALSE
    <3>1. Memory!Accesses(m) /\ CmdOf(m).we /\ Word(m, txn[m].done) = a
      BY <2>1 DEF Memory!Writes, Memory!Address, Word, CmdOf
    <3>2. Pends(m) /\ Home(m) # NoSlave /\ Performs(m, ready)
      BY <3>1, AccessesAre
    <3>3. PICK t \in Slaves : t = Home(m)
      BY <3>2, Decoded DEF Home
    <3>4. AccessAt(t, ready).on /\ ServedBy(t) = m
      BY <3>2, <3>3 DEF Performs
    <3>5. /\ txn[m].done \in 0 .. CmdOf(m).burst /\ AccessAt(t, ready).we = CmdOf(m).we
          /\ AccessAt(t, ready).adr = RelAdr(t, Word(m, txn[m].done))
      BY <1>5, <3>4, Performed
    <3>6. HomeOf(a) = t
      BY <3>1, <3>2, <3>3, <3>5, DueWord
    <3>. QED BY <1>1, <1>7, <3>1, <3>4, <3>5, <3>6
  <2>2. MappedMem'[a] = MappedMem[a]
    BY <1>1, <1>2, <1>3, <1>4, <1>7
  <2>. QED BY <2>1, <2>2
<1>. QED BY <1>6, <1>7

\* The masters, arbiters and slaves implement BusMemory: every word of a
\* command reaches its cell once and in order, a burst is not torn by another
\* master, and what a command is told to have read is what the memory held.
THEOREM Refinement == Spec => ImplementsMemory
<1>1. Init => Memory!Init
  BY DEF Init, Memory!Init
<1>2. FabricInv /\ [Next]_vars => [Memory!Next]_<<MappedMem, txn>>
  <2>1. ASSUME FabricInv, NEW start \in StartChoices, NEW hold \in SUBSET Holding,
               NEW ready \in SUBSET Caches, Clock(start, hold, ready)
        PROVE  Memory!Next
    <3>1. \A m \in Masters : txn'[m] = txn[m] \/ Memory!Issue(m) \/ Memory!Access(m) \/ Memory!Complete(m)
      BY <2>1, MasterMoves
    <3>2. DOMAIN MappedMem' = DOMAIN MappedMem
      BY DEF MappedMem
    <3>3. Memory!MemoryStep
      BY <2>1, MemoryMoves
    <3>. QED BY <3>1, <3>2, <3>3 DEF Memory!Next
  <2>2. UNCHANGED vars => UNCHANGED <<MappedMem, txn>>
    BY DEF vars, MappedMem
  <2>. QED BY <2>1, <2>2 DEF Next
<1>. QED BY <1>1, <1>2, Inductive, PTL DEF Spec, ImplementsMemory, Memory!Spec
=============================================================================
