---------------------------- MODULE SLArithUnit -----------------------------
(***************************************************************************)
(* The arithmetic unit of the processor simulator (SLArithUnit.cpp).       *)
(* Its ring of 32 results is seen from the current cycle: pipe holds the   *)
(* results under way, each with the number of cycles until it comes out.   *)
(* A number is a natural below Mod; + - * are exact modulo Mod, the other  *)
(* operations are some fixed function, since nothing depends on what they  *)
(* compute but on whose operands they get.                                 *)
(***************************************************************************)
EXTENDS SLCode

CONSTANTS Mod,          \* numbers are 0 .. Mod - 1
          DivLatency    \* 30 in the code

ASSUME NumbersAssumption == Mod \in Nat \ {0} /\ DivLatency \in 4 .. 30

Garbage == Mod - 1      \* what the code leaves in result_ when nothing is ready

Calc(cmd, a, b) ==
    CASE cmd = CMD_MOV -> b
      [] cmd = CMD_ADD -> (a + b) % Mod
      [] cmd \in {CMD_SUB, CMD_CMP} -> (a + Mod - b) % Mod
      [] cmd = CMD_MUL -> (a * b) % Mod
      [] cmd = CMD_DIV -> (a + 2 * b + 1) % Mod
      [] cmd = CMD_LOG2 -> (2 * a + 1) % Mod
      [] OTHER -> (2 * a + b) % Mod

Negated(a)   == (Mod - a) % Mod
Truncated(a) == a - (a % 2)

Latency(cmd) == CASE cmd = CMD_DIV -> DivLatency [] cmd = CMD_MAC_RES -> 3 [] OTHER -> 1

ArithReset == [pipe |-> {}, activeOp |-> 0, newOp |-> FALSE, mac |-> <<0, 0>>, terms |-> 0]

InPipe(u, at) == \E p \in u.pipe : p.at = at
Put(u, at, cmd, res) == [u EXCEPT !.pipe = {p \in @ : p.at # at} \cup {[at |-> at, cmd |-> cmd, res |-> res]}]

\* A move and a comparison pass through at once; every other operation keeps
\* the unit busy until its result comes out.
AddOperation(u, cmd, a, b) ==
    LET starts == u.activeOp = 0 /\ cmd \notin {CMD_MAC, CMD_INVALID}
        v == [u EXCEPT !.newOp = starts, !.activeOp = IF starts THEN cmd ELSE @]
    IN  IF cmd \in {CMD_MOV, CMD_CMP} THEN Put(v, 0, cmd, Calc(cmd, a, b)) ELSE v

\* The unit after the operation in EXEC has been offered, and what it shows.
Comb(u, cmd, a, b) ==
    LET v     == AddOperation(u, cmd, a, b)
        ready == InPipe(v, 0)
        p     == CHOOSE x \in v.pipe : x.at = 0
        isCmp == ready /\ p.cmd = CMD_CMP
    IN  [unit |-> IF ready THEN [v EXCEPT !.activeOp = 0] ELSE v,
         result   |-> IF ready /\ ~isCmp THEN p.res ELSE Garbage,
         complete |-> ready /\ p.cmd \notin {CMD_CMP, CMD_MOV},
         idle     |-> v.activeOp = 0 \/ isCmp,
         cmpEq    |-> isCmp /\ p.res = 0,
         cmpLt    |-> isCmp /\ a < b]

\* The clock edge: with en the operation enters the ring, without it an
\* operation that was only offered is forgotten.
UnitUpdate(u, cmd, a, b, en) ==
    LET cleared == [u EXCEPT !.pipe = {p \in @ : p.at # 0}]
        entered ==
            CASE en /\ cmd \in {CMD_ADD, CMD_SUB, CMD_MUL, CMD_DIV, CMD_LOG2, CMD_SHFT} ->
                     Put(cleared, Latency(cmd), cmd, Calc(cmd, a, b))
              [] en /\ cmd = CMD_MAC ->
                     [cleared EXCEPT !.mac[1 + (u.terms % 2)] = (@ + a * b) % Mod,
                                     !.terms = (@ + 1) % 2]
              [] en /\ cmd = CMD_MAC_RES ->
                     [Put(cleared, Latency(cmd), cmd, (u.mac[1] + u.mac[2]) % Mod)
                         EXCEPT !.mac = <<0, 0>>, !.terms = 0]
              [] ~en /\ u.newOp -> [cleared EXCEPT !.activeOp = 0]
              [] OTHER -> cleared
    IN  [entered EXCEPT !.pipe = {[p EXCEPT !.at = @ - 1] : p \in @}]
=============================================================================
