----------------------------- MODULE WbArbiter -----------------------------
(***************************************************************************)
(* The clocked arbiter in front of one Wishbone slave                      *)
(* (VHDL/wishbone/wb_ixs_arbiter.vhd).  The entity is described by its     *)
(* registers, a record, and by operators over the registers and the `cyc'  *)
(* inputs of its masters: the combinational process becomes the operators  *)
(* MasterSelValid, MasterSel and Connected, the clocked process becomes    *)
(* ArbiterEdge.  The modules that put masters around an arbiter (BusGrant, *)
(* WbFabric) hold the registers in a variable of their own.                *)
(***************************************************************************)
EXTENDS Naturals

CONSTANT NumMaster

ASSUME NumMasterAssumption == NumMaster \in Nat \ {0}

Master == 0 .. NumMaster - 1

ArbiterRegs == [mask                 : [Master -> BOOLEAN],
                master_sel_reg       : Master,
                master_sel_valid_reg : BOOLEAN]

\* Register values after reset_n_i.
ArbiterReset == [mask                 |-> [i \in Master |-> TRUE],
                 master_sel_reg       |-> 0,
                 master_sel_valid_reg |-> FALSE]

-----------------------------------------------------------------------------
(* The combinational process.                                              *)

\* The masters the priority loop considers: cyc raised and not masked.
Candidates(arb, cyc) == {i \in Master : cyc[i] /\ arb.mask[i]}

MasterSelValid(arb, cyc) == Candidates(arb, cyc) # {}

\* Off by one: without a candidate the loop leaves its upper bound.
BugSelPastEnd(arb, cyc) ==
  IF MasterSelValid(arb, cyc)
    THEN CHOOSE i \in Candidates(arb, cyc) :
           \A j \in Candidates(arb, cyc) : i <= j
    ELSE NumMaster

\* The loop runs downwards and the last assignment wins: the lowest index.
MasterSel(arb, cyc) ==
  IF MasterSelValid(arb, cyc)
    THEN CHOOSE i \in Candidates(arb, cyc) :
           \A j \in Candidates(arb, cyc) : i <= j
    ELSE 0

\* The master whose signals pass to the slave and back; every other master
\* sees stall high and ack and err low.
Connected(arb, i) == arb.master_sel_valid_reg /\ arb.master_sel_reg = i

-----------------------------------------------------------------------------
(* The clocked process.                                                    *)

\* The mask is never closed; the mask is not opened again.
BugMaskNeverCloses(arb, cyc) == [i \in Master |-> TRUE]
BugMaskNotReopened(arb, cyc) ==
  IF MasterSelValid(arb, cyc) /\ arb.master_sel_valid_reg
        /\ MasterSel(arb, cyc) # arb.master_sel_reg
    THEN [arb.mask EXCEPT ![arb.master_sel_reg] = FALSE]
    ELSE arb.mask

\* Mask update.  A selection that differs from the registered one takes the
\* registered master out of the round; an empty selection starts a new one,
\* and being assigned last it wins.
NextMask(arb, cyc) ==
  IF ~MasterSelValid(arb, cyc)
    THEN [i \in Master |-> TRUE]
    ELSE IF arb.master_sel_valid_reg /\ MasterSel(arb, cyc) # arb.master_sel_reg
           THEN [arb.mask EXCEPT ![arb.master_sel_reg] = FALSE]
           ELSE arb.mask

\* The selection moves while the connected master transfers.
BugSelAlways(arb, cyc) == MasterSel(arb, cyc)

\* The registered selection moves only when nobody is connected or the
\* connected master has lowered cyc.
NextSel(arb, cyc) ==
  IF arb.master_sel_valid_reg /\ cyc[arb.master_sel_reg]
    THEN arb.master_sel_reg
    ELSE MasterSel(arb, cyc)

ArbiterEdge(arb, cyc) ==
  [mask                 |-> NextMask(arb, cyc),
   master_sel_reg       |-> NextSel(arb, cyc),
   master_sel_valid_reg |-> MasterSelValid(arb, cyc)]

=============================================================================
