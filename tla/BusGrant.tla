------------------------------ MODULE BusGrant ------------------------------
(***************************************************************************)
(* One arbiter and the masters that compete for its slave, reduced to      *)
(* their cyc lines.  The masters follow the discipline of wb_master: cyc   *)
(* may rise at any clock edge and, once raised, is lowered only by a       *)
(* master that is connected (it needs the acknowledge or the error of the  *)
(* slave to leave ST_PENDING).  WaitersKeepCyc of WbFabric checks that     *)
(* wb_master, behind the real interconnect, keeps this discipline.         *)
(*                                                                         *)
(* One step is one rising edge of clk_i.                                   *)
(***************************************************************************)
EXTENDS WbArbiter

VARIABLES
  arb,        \* registers of the arbiter
  cyc,        \* cyc[m]: the cyc line of master m
  overtaken   \* overtaken[w][m]: grants to m since w waits (history variable)

vars == <<arb, cyc, overtaken>>

\* overtaken saturates here, one above the bound that BoundedOvertaking claims.
OvertakenCap == 3

TypeOK ==
  /\ arb \in ArbiterRegs
  /\ cyc \in [Master -> BOOLEAN]
  /\ overtaken \in [Master -> [Master -> 0 .. OvertakenCap]]

Waiting(a, c, m) == c[m] /\ ~Connected(a, m)

Init ==
  /\ arb = ArbiterReset
  /\ cyc = [m \in Master |-> FALSE]
  /\ overtaken = [w \in Master |-> [m \in Master |-> 0]]

-----------------------------------------------------------------------------

\* The cyc values the masters may drive after this edge.
MastersKeep(next) == \A m \in Master : cyc[m] /\ ~next[m] => Connected(arb, m)

\* The grant of the slave passes to m at this edge.
GrantsTo(m) == Connected(arb', m) /\ ~Connected(arb, m)

CountGrant(n, m) == IF GrantsTo(m) /\ n < OvertakenCap THEN n + 1 ELSE n

Clock(next) ==
  /\ MastersKeep(next)
  /\ cyc' = next
  /\ arb' = ArbiterEdge(arb, cyc)
  /\ overtaken' = [w \in Master |-> [m \in Master |->
                     IF Waiting(arb, cyc, w) /\ Waiting(arb', cyc', w)
                       THEN CountGrant(overtaken[w][m], m)
                       ELSE 0]]

\* m, connected, ends its bus cycle.
Release(m) ==
  /\ cyc[m] /\ Connected(arb, m)
  /\ \E next \in [Master -> BOOLEAN] : ~next[m] /\ Clock(next)

Next == \E next \in [Master -> BOOLEAN] : Clock(next)

Spec == Init /\ [][Next]_vars

\* The clock runs, and no master keeps the bus for ever: wb_master lowers cyc
\* when its last acknowledge arrives, and hold_i is dropped by wb_cache.
FairSpec == Spec /\ WF_vars(Next) /\ \A m \in Master : WF_vars(Release(m))

-----------------------------------------------------------------------------
(* Safety.                                                                 *)

\* No preemption: a connected master that still drives cyc is connected after
\* the edge too.  A cut in the middle of a cycle would lose the acknowledge of
\* an accepted request, and wb_master would stay in ST_PENDING for ever.
NoPreemption ==
  [][\A m \in Master : Connected(arb, m) /\ cyc[m] => Connected(arb, m)']_vars

\* Fair rounds: while a master waits, no other master is granted the slave
\* more than twice (once in the round in which the waiter was already served,
\* once in the next).
BoundedOvertaking == \A w, m \in Master : overtaken[w][m] <= 2

\* Why nobody is preempted although an owner is masked out of the round while
\* it still transfers: an unmasked master waits, so master_sel_valid stays high.
MaskedOwnerIsBacked ==
  \A m \in Master :
    Connected(arb, m) /\ cyc[m] /\ ~arb.mask[m]
      => \E w \in Master : w # m /\ cyc[w] /\ arb.mask[w]

\* A waiter may still see one grant to each master in its own round, and one
\* more if it sits out the current round; a master that has used this up is
\* masked, or will be when it lowers cyc.
Allowance(w) == IF arb.mask[w] THEN 2 ELSE 1

RoundsAreCounted ==
  \A w, m \in Master :
    IF Waiting(arb, cyc, w)
      THEN /\ overtaken[w][m] <= Allowance(w)
           /\ overtaken[w][m] = Allowance(w) => ~arb.mask[m] \/ Connected(arb, m)
      ELSE overtaken[w][m] = 0

\* With TypeOK, the inductive invariant behind NoPreemption and
\* BoundedOvertaking: it relates the mask register to the masters' cyc lines.
GrantInv == MaskedOwnerIsBacked /\ RoundsAreCounted

-----------------------------------------------------------------------------
(* Liveness.                                                               *)

\* Every master that raises cyc is connected to the slave eventually.
StarvationFree == \A m \in Master : cyc[m] ~> Connected(arb, m)

=============================================================================
