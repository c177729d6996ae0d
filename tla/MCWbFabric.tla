----------------------------- MODULE MCWbFabric -----------------------------
(* Two masters and one slave of every kind, as in top.vhd: master 0, the     *)
(* debug controller, reaches all three; master 1, a data cache, reaches the  *)
(* cached memory and the synchronous memory and holds cyc in bypass.         *)
EXTENDS WbFabric

CONSTANTS v0, v1, blank, none

MCSlaveMap == <<[addr |-> 0, size |-> 2], [addr |-> 2, size |-> 2], [addr |-> 4, size |-> 1]>>
MCConnects == [m \in 0 .. 1 |-> IF m = 0 THEN {1, 2, 3} ELSE {1, 2}]
MCKind     == <<"cache", "mem", "apb">>
MCCells    == <<{0, 1}, {0, 1}, {0}>>

Read(a, b)     == [we |-> FALSE, adr |-> a, burst |-> b, val |-> blank]
Write(a, b, v) == [we |-> TRUE, adr |-> a, burst |-> b, val |-> v]

\* Master 0: a burst that starts in the middle of the cached line, a burst at
\* the synchronous memory, single words at the peripheral; master 1: the same
\* line and memory the other way round, and an address without a slave.
MCCommands ==
  [m \in 0 .. 1 |->
     IF m = 0 THEN {Write(1, 1, v0), Read(2, 1), Write(4, 0, v0), Read(4, 0)}
              ELSE {Read(0, 1), Write(3, 1, v1), Read(5, 0)}]

\* For the liveness run: contention at the cached line, single accesses else.
MCFewCommands ==
  [m \in 0 .. 1 |-> IF m = 0 THEN {Write(1, 1, v0), Read(4, 0)}
                             ELSE {Read(0, 1), Read(3, 0), Read(5, 0)}]
=============================================================================
