---------------------------- MODULE MCDebugLink ----------------------------
\* Two words on both sides of a carry of the address, and an address without a
\* slave; words whose bytes all differ; two cores.
EXTENDS DebugLink

A == <<1, 2, 3, 4>>
B == <<129, 130, 131, 132>>

MCAdrs  == {255, 256}
MCWords == {A, B}

Write(a, ws) == [op |-> "write", addr |-> a, data |-> ws]
Read(a, n)   == [op |-> "read", addr |-> a, size |-> n]
Lines(o, m)  == [op |-> o, mask |-> m]

\* No call has size 0: the controller counts its length down from 0 and serves
\* 65536 words (see the findings).
MCCalls ==
  {Write(255, <<A, B>>), Write(256, <<B, A>>), Read(255, 2), Read(256, 2), PingCall,
   Lines("enable", {0}), Lines("disable", {0}), Lines("select", {1}), Lines("reset", 0 .. 3)}
=============================================================================
