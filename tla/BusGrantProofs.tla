--------------------------- MODULE BusGrantProofs ---------------------------
(***************************************************************************)
(* Proofs about the arbiter for every number of masters: no preemption and *)
(* the bound of two on overtaking.                                         *)
(***************************************************************************)
EXTENDS BusGrant, WellFoundedInduction, TLAPS

(***************************************************************************)
(* A non-empty set of masters has a lowest member, so the CHOOSE that      *)
(* stands for the priority loop of wb_ixs_arbiter picks one.               *)
(***************************************************************************)
LEMMA LowestExists ==
  ASSUME NEW S, S \subseteq Nat, S # {}
  PROVE  \E i \in S : \A j \in S : i <= j
<1>1. PICK i \in S : \A j \in S : ~(<<j, i>> \in OpToRel(<, Nat))
  BY WFMin, NatLessThanWellFounded
<1>2. ASSUME NEW j \in S
      PROVE  i <= j
  <2>1. i \in Nat /\ j \in Nat
    OBVIOUS
  <2>2. j < i => <<j, i>> \in OpToRel(<, Nat)
    BY <2>1, Zenon DEF OpToRel
  <2>3. ~(j < i)
    BY <1>1, <2>2, Zenon
  <2> QED
    BY <2>1, <2>3
<1> QED
  BY <1>2

(***************************************************************************)
(* MasterSel (the priority loop) selects a candidate whenever there is     *)
(* one, and an existing master in any case.                                *)
(***************************************************************************)
LEMMA MasterSelIsCandidate ==
  ASSUME NEW a, NEW c, MasterSelValid(a, c)
  PROVE  MasterSel(a, c) \in Candidates(a, c)
<1>1. Candidates(a, c) \subseteq Nat /\ Candidates(a, c) # {}
  BY DEF Candidates, Master, MasterSelValid
<1>2. \E i \in Candidates(a, c) : \A j \in Candidates(a, c) : i <= j
  BY <1>1, LowestExists
<1> QED
  BY <1>2 DEF MasterSel

LEMMA MasterSelType ==
  ASSUME NEW a, NEW c
  PROVE  MasterSel(a, c) \in Master
<1>1. CASE MasterSelValid(a, c)
  BY <1>1, MasterSelIsCandidate DEF Candidates
<1>2. CASE ~MasterSelValid(a, c)
  BY <1>2, NumMasterAssumption DEF MasterSel, Master
<1> QED
  BY <1>1, <1>2

-----------------------------------------------------------------------------
(* The arbiter's clock edge.                                               *)

LEMMA ArbiterEdgeType ==
  ASSUME NEW a \in ArbiterRegs, NEW c \in [Master -> BOOLEAN]
  PROVE  ArbiterEdge(a, c) \in ArbiterRegs
<1>1. NextSel(a, c) \in Master
  BY MasterSelType DEF NextSel, ArbiterRegs
<1>2. NextMask(a, c) \in [Master -> BOOLEAN]
  BY DEF NextMask, ArbiterRegs
<1>3. MasterSelValid(a, c) \in BOOLEAN
  BY DEF MasterSelValid
<1> QED
  BY <1>1, <1>2, <1>3 DEF ArbiterEdge, ArbiterRegs

(***************************************************************************)
(* What one edge does to the mask of a master: while a candidate exists    *)
(* only the registered, connected master can lose its bit, and it does     *)
(* when the selection is another one; without a candidate all bits return. *)
(***************************************************************************)
LEMMA MaskAfterEdge ==
  ASSUME NEW a \in ArbiterRegs, NEW c \in [Master -> BOOLEAN], NEW m \in Master
  PROVE  /\ MasterSelValid(a, c) /\ ~Connected(a, m)
              => ArbiterEdge(a, c).mask[m] = a.mask[m]
         /\ MasterSelValid(a, c) /\ Connected(a, m) /\ MasterSel(a, c) # m
              => ~ArbiterEdge(a, c).mask[m]
         /\ MasterSelValid(a, c) /\ Connected(a, m) /\ MasterSel(a, c) = m
              => ArbiterEdge(a, c).mask[m] = a.mask[m]
         /\ ~MasterSelValid(a, c) => ArbiterEdge(a, c).mask[m]
BY DEF ArbiterEdge, NextMask, Connected, ArbiterRegs

(***************************************************************************)
(* Who is connected after an edge: the master connected before if it still *)
(* drives cyc, otherwise the selected candidate; nobody without candidate. *)
(***************************************************************************)
LEMMA ConnectedAfterEdge ==
  ASSUME NEW a \in ArbiterRegs, NEW c \in [Master -> BOOLEAN], NEW m \in Master,
         Connected(ArbiterEdge(a, c), m)
  PROVE  /\ MasterSelValid(a, c)
         /\ \/ Connected(a, m) /\ c[m]
            \/ m = MasterSel(a, c) /\ m \in Candidates(a, c)
<1>1. MasterSelValid(a, c) /\ NextSel(a, c) = m
  BY DEF Connected, ArbiterEdge
<1>2. CASE a.master_sel_valid_reg /\ c[a.master_sel_reg]
  BY <1>1, <1>2 DEF NextSel, Connected
<1>3. CASE ~(a.master_sel_valid_reg /\ c[a.master_sel_reg])
  BY <1>1, <1>3, MasterSelIsCandidate DEF NextSel
<1> QED
  BY <1>1, <1>2, <1>3

(***************************************************************************)
(* A connected master that drives cyc stays connected if any candidate     *)
(* exists.                                                                 *)
(***************************************************************************)
LEMMA OwnerStays ==
  ASSUME NEW a \in ArbiterRegs, NEW c \in [Master -> BOOLEAN], NEW m \in Master,
         Connected(a, m), c[m], MasterSelValid(a, c)
  PROVE  Connected(ArbiterEdge(a, c), m)
BY DEF Connected, ArbiterEdge, NextSel

-----------------------------------------------------------------------------
(* Type correctness.                                                       *)

LEMMA InitType == Init => TypeOK
BY NumMasterAssumption
   DEF Init, TypeOK, ArbiterReset, ArbiterRegs, OvertakenCap, Master

LEMMA NextType ==
  ASSUME TypeOK, [Next]_vars
  PROVE  TypeOK'
<1>1. ASSUME NEW next \in [Master -> BOOLEAN], Clock(next)
      PROVE  TypeOK'
  <2>1. arb' \in ArbiterRegs
    BY <1>1, ArbiterEdgeType DEF Clock, TypeOK
  <2>2. cyc' \in [Master -> BOOLEAN]
    BY <1>1 DEF Clock
  <2>3. ASSUME NEW w \in Master, NEW m \in Master
        PROVE  (IF Waiting(arb, cyc, w) /\ Waiting(arb', cyc', w)
                  THEN CountGrant(overtaken[w][m], m) ELSE 0) \in 0 .. OvertakenCap
    <3>1. overtaken[w][m] \in 0 .. OvertakenCap
      BY DEF TypeOK
    <3> QED
      BY <3>1 DEF CountGrant, OvertakenCap
  <2>4. overtaken' \in [Master -> [Master -> 0 .. OvertakenCap]]
    BY <1>1, <2>3, Zenon DEF Clock
  <2> QED
    BY <2>1, <2>2, <2>4 DEF TypeOK
<1>2. CASE UNCHANGED vars
  BY <1>2 DEF vars, TypeOK
<1> QED
  BY <1>1, <1>2 DEF Next

(* The registers, the cyc lines and the history stay in their types for    *)
(* every number of masters.                                                *)
THEOREM TypeCorrect == Spec => []TypeOK
<1>1. Init => TypeOK
  BY InitType
<1>2. TypeOK /\ [Next]_vars => TypeOK'
  BY NextType
<1> QED
  BY <1>1, <1>2, PTL DEF Spec

-----------------------------------------------------------------------------
(* The grant invariant.                                                    *)

LEMMA InitGrant == Init => GrantInv
BY DEF Init, GrantInv, MaskedOwnerIsBacked, RoundsAreCounted, Waiting,
       Connected, ArbiterReset

(***************************************************************************)
(* An owner that is masked after an edge is backed by a waiter: either the *)
(* waiter that backed it before, or the one whose selection masked it.     *)
(***************************************************************************)
LEMMA BackedStep ==
  ASSUME TypeOK, GrantInv, NEW next \in [Master -> BOOLEAN], Clock(next)
  PROVE  MaskedOwnerIsBacked'
<1> USE DEF TypeOK
<1>1. arb' = ArbiterEdge(arb, cyc) /\ arb' \in ArbiterRegs /\ cyc' = next
  BY ArbiterEdgeType DEF Clock
<1> SUFFICES ASSUME NEW m \in Master,
                    Connected(arb', m), cyc'[m], ~arb'.mask[m]
             PROVE  \E w \in Master : w # m /\ cyc'[w] /\ arb'.mask[w]
  BY DEF MaskedOwnerIsBacked
<1>2. MasterSelValid(arb, cyc)
  BY <1>1, ConnectedAfterEdge
<1>3. Connected(arb, m) /\ cyc[m]
  <2>1. SUFFICES ASSUME m = MasterSel(arb, cyc), m \in Candidates(arb, cyc)
                 PROVE  FALSE
    BY <1>1, ConnectedAfterEdge
  <2>2. arb'.mask[m] = arb.mask[m]
    BY <1>1, <1>2, <2>1, MaskAfterEdge
  <2> QED
    BY <2>1, <2>2 DEF Candidates
<1>4. PICK w \in Master : w # m /\ cyc[w] /\ arb.mask[w]
  <2>1. CASE MasterSel(arb, cyc) = m
    <3>1. ~arb.mask[m]
      BY <1>1, <1>2, <1>3, <2>1, MaskAfterEdge
    <3> QED
      BY <1>3, <3>1 DEF GrantInv, MaskedOwnerIsBacked
  <2>2. CASE MasterSel(arb, cyc) # m
    BY <1>2, <2>2, MasterSelIsCandidate DEF Candidates
  <2> QED
    BY <2>1, <2>2
<1>5. ~Connected(arb, w)
  BY <1>3, <1>4 DEF Connected
<1>6. cyc'[w]
  BY <1>1, <1>4, <1>5 DEF Clock, MastersKeep
<1>7. arb'.mask[w]
  BY <1>1, <1>2, <1>4, <1>5, MaskAfterEdge
<1> QED
  BY <1>4, <1>6, <1>7

(***************************************************************************)
(* A master that has used up a waiter's allowance gets no grant, and stays *)
(* masked or connected while the round lasts.                              *)
(***************************************************************************)
LEMMA RoundsStep ==
  ASSUME TypeOK, GrantInv, NEW next \in [Master -> BOOLEAN], Clock(next)
  PROVE  RoundsAreCounted'
<1> USE DEF TypeOK
<1>1. arb' = ArbiterEdge(arb, cyc) /\ arb' \in ArbiterRegs /\ cyc' = next
  BY ArbiterEdgeType DEF Clock
<1> SUFFICES ASSUME NEW w \in Master, NEW m \in Master
             PROVE  IF Waiting(arb', cyc', w)
                      THEN /\ overtaken'[w][m] <= Allowance(w)'
                           /\ overtaken'[w][m] = Allowance(w)'
                                => ~arb'.mask[m] \/ Connected(arb', m)
                      ELSE overtaken'[w][m] = 0
  BY DEF RoundsAreCounted
<1>2. overtaken'[w][m] = IF Waiting(arb, cyc, w) /\ Waiting(arb', cyc', w)
                           THEN CountGrant(overtaken[w][m], m) ELSE 0
  BY DEF Clock
<1>3. arb.mask[w] \in BOOLEAN /\ arb'.mask[w] \in BOOLEAN /\ arb.mask[m] \in BOOLEAN
  BY <1>1 DEF ArbiterRegs
<1>4. CASE ~(Waiting(arb, cyc, w) /\ Waiting(arb', cyc', w))
  BY <1>2, <1>3, <1>4 DEF Allowance
<1>5. CASE Waiting(arb, cyc, w) /\ Waiting(arb', cyc', w)
  <2>1. /\ overtaken[w][m] \in 0 .. OvertakenCap
        /\ overtaken[w][m] <= Allowance(w)
        /\ overtaken[w][m] = Allowance(w) => ~arb.mask[m] \/ Connected(arb, m)
    BY <1>5 DEF GrantInv, RoundsAreCounted
  <2>2. cyc[w] /\ ~Connected(arb, w)
    BY <1>5 DEF Waiting
  <2>3. CASE MasterSelValid(arb, cyc)
    <3>1. arb'.mask[w] = arb.mask[w]
      BY <1>1, <2>2, <2>3, MaskAfterEdge
    <3>2. CASE GrantsTo(m)
      <4>1. m \in Candidates(arb, cyc) /\ ~Connected(arb, m) /\ Connected(arb', m)
        BY <1>1, <3>2, ConnectedAfterEdge DEF GrantsTo
      <4>2. overtaken[w][m] < Allowance(w)
        BY <1>3, <2>1, <4>1 DEF Candidates, Allowance, OvertakenCap
      <4> QED
        BY <1>2, <1>3, <1>5, <2>1, <3>1, <4>1, <4>2
           DEF CountGrant, Allowance, OvertakenCap
    <3>3. CASE ~GrantsTo(m)
      <4>1. overtaken'[w][m] = overtaken[w][m] /\ Allowance(w)' = Allowance(w)
        BY <1>2, <1>5, <3>1, <3>3 DEF CountGrant, Allowance
      <4>2. ~arb.mask[m] /\ ~Connected(arb, m) => ~arb'.mask[m]
        BY <1>1, <2>3, MaskAfterEdge
      <4>3. Connected(arb, m) => ~arb'.mask[m] \/ Connected(arb', m)
        <5>1. ASSUME Connected(arb, m), cyc[m]
              PROVE  Connected(arb', m)
          BY <1>1, <2>3, <5>1, OwnerStays
        <5>2. ASSUME Connected(arb, m), ~cyc[m]
              PROVE  ~arb'.mask[m]
          <6>1. MasterSel(arb, cyc) # m
            BY <2>3, <5>2, MasterSelIsCandidate DEF Candidates
          <6> QED
            BY <1>1, <2>3, <5>2, <6>1, MaskAfterEdge
        <5> QED
          BY <5>1, <5>2
      <4> QED
        BY <1>5, <2>1, <4>1, <4>2, <4>3
    <3> QED
      BY <3>2, <3>3
  <2>4. CASE ~MasterSelValid(arb, cyc)
    <3>1. ~arb.mask[w]
      BY <2>2, <2>4 DEF MasterSelValid, Candidates
    <3>2. arb'.mask[w]
      BY <1>1, <2>4, MaskAfterEdge
    <3>3. ~GrantsTo(m)
      BY <1>1, <2>4, ConnectedAfterEdge DEF GrantsTo
    <3> QED
      BY <1>2, <1>5, <2>1, <3>1, <3>2, <3>3 DEF CountGrant, Allowance, OvertakenCap
  <2> QED
    BY <2>3, <2>4
<1> QED
  BY <1>4, <1>5

LEMMA NextGrant ==
  ASSUME TypeOK, GrantInv, [Next]_vars
  PROVE  GrantInv'
<1>1. ASSUME NEW next \in [Master -> BOOLEAN], Clock(next)
      PROVE  GrantInv'
  BY <1>1, BackedStep, RoundsStep DEF GrantInv
<1>2. CASE UNCHANGED vars
  BY <1>2 DEF vars, GrantInv, MaskedOwnerIsBacked, RoundsAreCounted, Waiting,
              Connected, Allowance
<1> QED
  BY <1>1, <1>2 DEF Next

(* The inductive invariant holds in every reachable state.                 *)
THEOREM GrantInvariant == Spec => []GrantInv
<1>1. Init => GrantInv
  BY InitGrant
<1>2. TypeOK /\ GrantInv /\ [Next]_vars => GrantInv'
  BY NextGrant
<1> QED
  BY <1>1, <1>2, TypeCorrect, PTL DEF Spec

-----------------------------------------------------------------------------

(* The arbiter never takes the slave from a master in the middle of its bus *)
(* cycle, for every number of masters.                                      *)
THEOREM NeverPreempts == Spec => NoPreemption
<1> DEFINE Keeps == \A m \in Master :
                      Connected(arb, m) /\ cyc[m] => Connected(arb, m)'
<1>1. ASSUME TypeOK, GrantInv, [Next]_vars
      PROVE  [Keeps]_vars
  <2>1. ASSUME NEW next \in [Master -> BOOLEAN], Clock(next),
               NEW m \in Master, Connected(arb, m), cyc[m]
        PROVE  Connected(arb', m)
    <3>1. MasterSelValid(arb, cyc)
      <4>1. CASE arb.mask[m]
        BY <2>1, <4>1 DEF MasterSelValid, Candidates
      <4>2. CASE ~arb.mask[m]
        BY <1>1, <2>1, <4>2 DEF GrantInv, MaskedOwnerIsBacked, MasterSelValid, Candidates
      <4> QED
        BY <4>1, <4>2
    <3> QED
      BY <1>1, <2>1, <3>1, OwnerStays DEF TypeOK, Clock
  <2>2. CASE UNCHANGED vars
    BY <2>2
  <2> QED
    BY <1>1, <2>1, <2>2 DEF Next, Connected
<1>2. TypeOK /\ GrantInv /\ [Next]_vars => [Keeps]_vars
  BY <1>1
<1> QED
  BY <1>2, TypeCorrect, GrantInvariant, PTL DEF Spec, NoPreemption

(* No master is overtaken more than twice by the same other master, for     *)
(* every number of masters.                                                 *)
THEOREM FairRounds == Spec => []BoundedOvertaking
<1>1. TypeOK /\ GrantInv => BoundedOvertaking
  <2> SUFFICES ASSUME TypeOK, GrantInv, NEW w \in Master, NEW m \in Master
               PROVE  overtaken[w][m] <= 2
    BY DEF BoundedOvertaking
  <2>1. overtaken[w][m] <= Allowance(w) \/ overtaken[w][m] = 0
    BY DEF GrantInv, RoundsAreCounted
  <2>2. overtaken[w][m] \in 0 .. OvertakenCap
    BY DEF TypeOK
  <2> QED
    BY <2>1, <2>2 DEF Allowance, OvertakenCap
<1> QED
  BY <1>1, TypeCorrect, GrantInvariant, PTL

=============================================================================
