------------------------------ MODULE WbSlaves ------------------------------
(***************************************************************************)
(* The slaves behind the interconnect of top.vhd, by the way they answer:  *)
(*   "mem"    wb_mem: never stalls, acknowledges one clock later           *)
(*   "cache"  wb_cache_adapter in front of a cache: request and completion *)
(*            meet in the same cycle; when the cache completes is its own  *)
(*            affair (ready)                                               *)
(*   "apb"    wb_abp_bridge: a SETUP and an ENABLE cycle per request       *)
(*                                                                         *)
(* req is the request [adr, dat, we, stb, cyc] that the arbiter passes on, *)
(* regs the registers of the slave, cell the word its memory or peripheral *)
(* holds at the address in question.                                       *)
(***************************************************************************)
EXTENDS Naturals

SlaveRegs(Adr, Word) ==
  [state : {"FSM_IDLE", "FSM_SETUP", "FSM_ENABLE"}, req : [we : BOOLEAN, adr : Adr, dat : Word],
   ack : BOOLEAN, dat : Word]

SlaveReset(word) ==
  [state |-> "FSM_IDLE", req |-> [we |-> FALSE, adr |-> 0, dat |-> word],
   ack |-> FALSE, dat |-> word]

Requests(req) == req.stb /\ req.cyc

-----------------------------------------------------------------------------

\* wb_mem: the request is registered, and the memory (on its own, faster
\* clock) is accessed before the next edge, at which the answer is valid.
MemAnswer(regs) == [ack |-> regs.ack, err |-> FALSE, stall |-> FALSE, dat |-> regs.dat]
MemEdge(regs, req, cell) ==
  [regs EXCEPT !.ack = Requests(req), !.dat = IF Requests(req) THEN cell ELSE @]

\* wb_cache_adapter: combinational, ack is complete_i and stall its negation.
CacheAnswer(ready, cell) ==
  [ack |-> ready, err |-> FALSE, stall |-> ~ready, dat |-> cell]

\* wb_abp_bridge: SETUP stalls, ENABLE acknowledges and may already take the
\* next request.
ApbAnswer(regs, cell) ==
  [ack   |-> regs.state = "FSM_ENABLE",
   err   |-> FALSE,
   stall |-> regs.state = "FSM_SETUP",
   dat   |-> cell]

ApbEdge(regs, req) ==
  CASE regs.state = "FSM_SETUP" -> [regs EXCEPT !.state = "FSM_ENABLE"]
    [] regs.state # "FSM_SETUP" /\ Requests(req) ->
         [regs EXCEPT !.state = "FSM_SETUP",
                      !.req = [we |-> req.we, adr |-> req.adr, dat |-> req.dat]]
    [] OTHER -> [regs EXCEPT !.state = "FSM_IDLE"]

-----------------------------------------------------------------------------
(* The three kinds behind one interface.                                   *)

\* The access to the memory behind the slave that takes place at this edge.
AccessOf(kind, regs, req, ready) ==
  CASE kind = "mem"   -> [on |-> Requests(req), we |-> req.we, adr |-> req.adr, dat |-> req.dat]
    [] kind = "cache" -> [on |-> ready, we |-> req.we, adr |-> req.adr, dat |-> req.dat]
    [] kind = "apb"   -> [on |-> regs.state = "FSM_ENABLE", we |-> regs.req.we,
                          adr |-> regs.req.adr, dat |-> regs.req.dat]

Answer(kind, regs, ready, cell) ==
  CASE kind = "mem"   -> MemAnswer(regs)
    [] kind = "cache" -> CacheAnswer(ready, cell)
    [] kind = "apb"   -> ApbAnswer(regs, cell)

SlaveEdge(kind, regs, req, cell) ==
  CASE kind = "mem"   -> MemEdge(regs, req, cell)
    [] kind = "cache" -> regs
    [] kind = "apb"   -> ApbEdge(regs, req)

=============================================================================
