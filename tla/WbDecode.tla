------------------------------ MODULE WbDecode ------------------------------
(***************************************************************************)
(* Which slave an address belongs to, and which masters share an arbiter   *)
(* (VHDL/wishbone/wb_ixs_decode.vhd and the configuration functions of     *)
(* wishbone_p.vhd).  SlaveMap is the sequence of slaves, each with its     *)
(* first address and its size in words; Connects[m] is the set of slaves   *)
(* master m is wired to.  An interconnect has one decoder per master and   *)
(* one arbiter per slave; arbiter port p of a slave belongs to the p-th    *)
(* master that is wired to it.                                             *)
(***************************************************************************)
EXTENDS Naturals, Sequences, FiniteSets

CONSTANTS NumMasters, SlaveMap, Connects

Masters == 0 .. NumMasters - 1
Slaves  == DOMAIN SlaveMap

\* What wb_slave takes: log2 of a size is below 31.
MaxSize == 2^30

\* The assertions of the decoder and of the configuration functions: sizes are
\* not zero, the list is sorted and does not overlap, no master is without a
\* slave and no slave without a master.
ASSUME SlaveMapAssumption ==
  /\ NumMasters \in Nat \ {0}
  /\ SlaveMap \in Seq([addr : Nat, size : 1 .. MaxSize])
  /\ \A s \in Slaves \ {1} :
       SlaveMap[s-1].addr + SlaveMap[s-1].size <= SlaveMap[s].addr
  /\ \A m \in Masters : Connects[m] \subseteq Slaves /\ Connects[m] # {}
  /\ \A s \in Slaves : \E m \in Masters : s \in Connects[m]

\* A value that is no slave: the address decodes to nothing.
NoSlave == 0

InRange(s, adr) ==
  SlaveMap[s].addr <= adr /\ adr < SlaveMap[s].addr + SlaveMap[s].size

\* The slave that master m reaches with adr.
SlaveOf(m, adr) ==
  IF \E s \in Connects[m] : InRange(s, adr)
    THEN CHOOSE s \in Connects[m] : InRange(s, adr)
    ELSE NoSlave

\* The least exponent of two that is not below x.
log2(x) == CHOOSE k \in 0 .. 30 : 2^k >= x /\ \A j \in 0 .. 30 : 2^j >= x => k <= j

\* The address space of a slave's own address lines: its size rounded up to a
\* power of two.
Span == [s \in Slaves |-> 2^log2(SlaveMap[s].size)]

\* The address a slave sees: the low address lines, not adr less the base.
RelAdr(s, adr) == adr % Span[s]

\* The masters of a slave take the ports 0, 1, ... of its arbiter in their order.
MastersOf(s) == {m \in Masters : s \in Connects[m]}
NumPorts(s)  == Cardinality(MastersOf(s))
PortOf(s, m) == Cardinality({n \in MastersOf(s) : n < m})
PortMap == [s \in Slaves |-> [p \in 0 .. NumPorts(s) - 1 |-> CHOOSE m \in MastersOf(s) : PortOf(s, m) = p]]
MasterAt(s, port) == PortMap[s][port]

=============================================================================
