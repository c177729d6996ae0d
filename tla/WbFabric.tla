------------------------------ MODULE WbFabric ------------------------------
(***************************************************************************)
(* The Wishbone interconnect of the top level with its masters and slaves  *)
(* (VHDL/wishbone/wb_ixs.vhd instantiated as in VHDL/top/top.vhd): every   *)
(* master is a wb_master driven by a user, every slave has an arbiter, and *)
(* the decoders connect them.  One step is one rising edge of clk_i, in    *)
(* which all registers take their next value at once; what the users and   *)
(* the caches behind an adapter do in that clock cycle is chosen freely.   *)
(***************************************************************************)
EXTENDS WbMaster, WbSlaves, WbDecode, FiniteSets

CONSTANTS
  Kind,        \* Kind[s]: the kind of slave s, see WbSlaves
  Commands,    \* Commands[m]: the commands of m, [we, adr, burst, val]
  Holders,     \* masters whose user raises hold_i (data caches in bypass)
  Cells,       \* Cells[s]: the relative addresses modelled of slave s
  Vals, Blank, \* values of write commands; what a memory holds at first
  MaxBurst,    \* words of the longest burst, less one
  NoCommand

VARIABLES
  mst,     \* mst[m]: registers of the wb_master of m
  arb,     \* arb[s]: registers of the arbiter of s
  slv,     \* slv[s]: registers of slave s
  store,   \* store[s][c]: memory or peripheral behind slave s
  user,    \* user[m]: words of the write taken so far, words of the read received
  txn      \* txn[m]: the command of m and how far it has come at its slave

vars == <<mst, arb, slv, store, user, txn>>

\* Word k of a write command, and the words there are.
DataOf(val, k) == <<val, k>>
Words == {<<v, k>> : v \in Vals \cup {Blank}, k \in 0 .. MaxBurst + 1}
BlankWord == <<Blank, 0>>

\* The address of word k of a burst that starts at adr and wraps.
AdrOf(adr, burst, k) ==
  ((adr \div (burst + 1)) * (burst + 1)) + ((adr + k) % (burst + 1))

AllCommands == UNION {Commands[m] : m \in Masters}

\* The addresses a command runs through.
Line(cmd) == {AdrOf(cmd.adr, cmd.burst, k) : k \in 0 .. cmd.burst}
Adrs == {0} \cup UNION {Line(cmd) : cmd \in AllCommands}

\* burst_i is a power of two less one in six bits.
BurstCodes == {0, 1, 3, 7, 15, 31, 63}

\* The users of the masters keep a burst inside one slave: a cache fetches lines of
\* its memory, and the debug controller reads and writes single words.
ASSUME FabricAssumption ==
  /\ \A s \in Slaves : Kind[s] \in {"mem", "cache", "apb"}
  /\ MaxBurst \in 0 .. CountValues - 1
  /\ \A m \in Masters : \A cmd \in Commands[m] :
       /\ cmd \in [we : BOOLEAN, adr : Nat, burst : BurstCodes, val : Vals \cup {Blank}]
       /\ cmd.burst <= MaxBurst
       /\ \A a \in Line(cmd) : SlaveOf(m, a) = SlaveOf(m, cmd.adr)
       /\ SlaveOf(m, cmd.adr) # NoSlave =>
            \A a \in Line(cmd) : RelAdr(SlaveOf(m, a), a) \in Cells[SlaveOf(m, a)]
  /\ NoCommand \notin AllCommands

Arb(s) == INSTANCE WbArbiter WITH NumMaster <- NumPorts(s)

TypeOK ==
  /\ \A m \in Masters : mst[m] \in MasterRegs(Adrs, Words)
  /\ \A s \in Slaves : arb[s] \in Arb(s)!ArbiterRegs
  /\ \A s \in Slaves : slv[s] \in SlaveRegs(Cells[s] \cup {0}, Words)
  /\ \A s \in Slaves : store[s] \in [Cells[s] -> Words]
  /\ \A m \in Masters :
       /\ user[m] \in [taken : 0 .. MaxBurst + 1, rx : Seq(Words)]
       /\ Len(user[m].rx) <= MaxBurst + 1
       /\ txn[m] \in [busy : BOOLEAN, cmd : Commands[m] \cup {NoCommand},
                     done : 0 .. MaxBurst + 1, res : Seq(Words)]
       /\ Len(txn[m].res) <= MaxBurst + 1

Init ==
  /\ mst = [m \in Masters |-> MasterReset(BlankWord)]
  /\ arb = [s \in Slaves |-> Arb(s)!ArbiterReset]
  /\ slv = [s \in Slaves |-> SlaveReset(BlankWord)]
  /\ store = [s \in Slaves |-> [c \in Cells[s] |-> BlankWord]]
  /\ user = [m \in Masters |-> [taken |-> 0, rx |-> <<>>]]
  /\ txn = [m \in Masters |->
              [busy |-> FALSE, cmd |-> NoCommand, done |-> 0, res |-> <<>>]]

-----------------------------------------------------------------------------
(* The wires between decoders, arbiters and slaves.                        *)

\* The slave that the address register of m selects.
Target(m) == SlaveOf(m, mst[m].adr)

\* cyc as the arbiter of s sees it, by port.
PortCyc(s) == [p \in 0 .. NumPorts(s) - 1 |->
                 LET m == MasterAt(s, p) IN mst[m].cyc /\ Target(m) = s]

Owns(m, s) == s \in Connects[m] /\ Arb(s)!Connected(arb[s], PortOf(s, m))

\* The request that reaches slave s: that of the connected master.  The
\* decoder blanks cyc of a master whose address is elsewhere.
RequestAt(s) ==
  IF arb[s].master_sel_valid_reg
    THEN LET m == MasterAt(s, arb[s].master_sel_reg)
         IN  [adr |-> RelAdr(s, mst[m].adr), dat |-> mst[m].dat, we |-> mst[m].we,
              stb |-> mst[m].stb, cyc |-> mst[m].cyc /\ Target(m) = s]
    ELSE [adr |-> 0, dat |-> BlankWord, we |-> FALSE, stb |-> FALSE, cyc |-> FALSE]

\* The word behind slave s that its access of this cycle concerns.
AccessAt(s, ready) == AccessOf(Kind[s], slv[s], RequestAt(s), s \in ready)
CellAt(s, ready) ==
  LET a == AccessAt(s, ready).adr
  IN  IF a \in Cells[s] THEN store[s][a] ELSE BlankWord

\* The error that the decoder drives by default reaches a master that waits.
BugWaiterSeesError(m, ready) ==
  LET s == Target(m) IN
    IF s # NoSlave /\ Owns(m, s)
      THEN Answer(Kind[s], slv[s], s \in ready, CellAt(s, ready))
      ELSE [ack |-> FALSE, err |-> TRUE, stall |-> FALSE, dat |-> BlankWord]

\* What master m sees: an error where no slave is, a stall where it is not
\* connected, else the answer of the slave.
InputOf(m, ready) ==
  LET s == Target(m) IN
    IF s = NoSlave
      THEN [ack |-> FALSE, err |-> TRUE, stall |-> FALSE, dat |-> BlankWord]
      ELSE IF Owns(m, s)
        THEN Answer(Kind[s], slv[s], s \in ready, CellAt(s, ready))
        ELSE [ack |-> FALSE, err |-> FALSE, stall |-> TRUE, dat |-> BlankWord]

-----------------------------------------------------------------------------
(* One clock cycle.                                                        *)

Starts(m, start) == start[m] # NoCommand
CommandOf(m, start) == IF Starts(m, start) THEN start[m] ELSE txn[m].cmd

\* What the user drives: its command while it asks for one, and the next word
\* of the write it is in.
UserOf(m, start, hold) ==
  LET cmd == CommandOf(m, start) IN
    IF cmd = NoCommand
      THEN [en |-> FALSE, we |-> FALSE, addr |-> 0, burst |-> 0,
            din |-> BlankWord, hold |-> m \in hold]
      ELSE [en |-> Starts(m, start), we |-> cmd.we, addr |-> cmd.adr, burst |-> cmd.burst,
            din |-> IF ~cmd.we THEN BlankWord
                      ELSE DataOf(cmd.val, IF Starts(m, start) THEN 0 ELSE user[m].taken),
            hold |-> m \in hold]

\* The user counts the words taken and collects the words that arrive; drives
\* and in are what it drives and what its master sees.
UserEdge(m, start, drives, in) ==
  LET taken == DReady(mst[m], drives, in)
  IN  IF Starts(m, start)
        THEN [taken |-> IF start[m].we THEN 1 ELSE 0, rx |-> <<>>]
        ELSE IF mst[m].state = "ST_PENDING" /\ txn[m].cmd.we
          THEN [user[m] EXCEPT !.taken = IF taken THEN @ + 1 ELSE @]
          ELSE IF mst[m].dready_rd /\ ~txn[m].cmd.we
            THEN [user[m] EXCEPT !.rx = Append(@, mst[m].dout)]
            ELSE user[m]

\* The master on whose behalf slave s accesses its memory.
ServedBy(s) == MasterAt(s, arb[s].master_sel_reg)

\* History: the words of a command that have reached the memory.
TxnEdge(m, start, ready) ==
  LET s == SlaveOf(m, txn[m].cmd.adr)
      a == AccessAt(s, ready)
  IN  IF Starts(m, start)
        THEN [busy |-> TRUE, cmd |-> start[m], done |-> 0, res |-> <<>>]
        ELSE IF ~txn[m].busy THEN txn[m]
        ELSE IF mst[m].complete THEN [txn[m] EXCEPT !.busy = FALSE]
        ELSE IF s # NoSlave /\ a.on /\ ServedBy(s) = m
          THEN [txn[m] EXCEPT !.done = @ + 1,
                              !.res = IF a.we THEN @ ELSE Append(@, CellAt(s, ready))]
          ELSE txn[m]

StoreEdge(s, ready) ==
  LET a == AccessAt(s, ready) IN
    IF a.on /\ a.we THEN [store[s] EXCEPT ![a.adr] = a.dat] ELSE store[s]

\* start[m] is the command user m asks for now (NoCommand: none), hold the
\* users that drive hold_i, ready the caches that complete in this cycle.
Clock(start, hold, ready) ==
  /\ \A m \in Masters : Starts(m, start) => mst[m].state = "ST_IDLE"
  /\ \A s \in ready : Kind[s] = "cache" /\ Requests(RequestAt(s))
  /\ txn' = [m \in Masters |-> TxnEdge(m, start, ready)]
  /\ \E in     \in {[m \in Masters |-> InputOf(m, ready)]},
        drives \in {[m \in Masters |-> UserOf(m, start, hold)]} :
       /\ mst' = [m \in Masters |-> MasterEdge(mst[m], drives[m], in[m])]
       /\ user' = [m \in Masters |-> UserEdge(m, start, drives[m], in[m])]
  /\ arb' = [s \in Slaves |-> Arb(s)!ArbiterEdge(arb[s], PortCyc(s))]
  /\ slv' = [s \in Slaves |-> SlaveEdge(Kind[s], slv[s], RequestAt(s), CellAt(s, ready))]
  /\ store' = [s \in Slaves |-> StoreEdge(s, ready)]

StartChoices == {f \in [Masters -> AllCommands \cup {NoCommand}] :
            \A m \in Masters : f[m] \in Commands[m] \cup {NoCommand}}
Holding == {m \in Holders : mst[m].cyc}
Caches == {s \in Slaves : Kind[s] = "cache"}

Next == \E start \in StartChoices, hold \in SUBSET Holding, ready \in SUBSET Caches :
          Clock(start, hold, ready)

Spec == Init /\ [][Next]_vars

-----------------------------------------------------------------------------
(* Fairness.                                                               *)

\* The cache behind slave s completes the access it is asked for.
Serve(s) ==
  /\ Kind[s] = "cache" /\ Requests(RequestAt(s))
  /\ \E start \in StartChoices, hold \in SUBSET Holding, ready \in SUBSET Caches :
       s \in ready /\ Clock(start, hold, ready)

\* User m lets its master lower cyc.
LetGo(m) ==
  /\ mst[m].cyc
  /\ \E start \in StartChoices, hold \in SUBSET Holding, ready \in SUBSET Caches :
       m \notin hold /\ Clock(start, hold, ready) /\ ~mst'[m].cyc

FairSpec ==
  /\ Spec /\ WF_vars(Next)
  /\ \A s \in Slaves : WF_vars(Serve(s))
  /\ \A m \in Holders : SF_vars(LetGo(m))


-----------------------------------------------------------------------------
(* Safety.                                                                 *)

MappedAdrs == UNION {{SlaveMap[s].addr + i : i \in {k \in 0 .. SlaveMap[s].size - 1 :
                          RelAdr(s, SlaveMap[s].addr + k) \in Cells[s]}} : s \in Slaves}
HomeOf(a) == CHOOSE s \in Slaves : InRange(s, a)

\* The memories and peripherals behind the slaves as one memory.
MappedMem == [a \in MappedAdrs |-> store[HomeOf(a)][RelAdr(HomeOf(a), a)]]

Memory == INSTANCE BusMemory WITH Commands <- AllCommands, mem <- MappedMem

\* The interconnect implements one memory with bursts that are not torn: with
\* pipelined requests, registered and stalling slaves and two masters, every
\* word of a command reaches its cell once, in order, and between the first
\* and the last word of a burst no other master gets at the slave.
ImplementsMemory == Memory!Spec

\* What a user is told when complete_o rises is right: an error exactly where
\* no slave answers, and otherwise all words of the command are done and the
\* words it received are the ones that were read, in order.
AnswersAreRight ==
  \A m \in Masters : mst[m].complete =>
    IF SlaveOf(m, txn[m].cmd.adr) = NoSlave
      THEN mst[m].err /\ txn[m].done = 0
      ELSE /\ ~mst[m].err /\ txn[m].done = txn[m].cmd.burst + 1
           /\ ~txn[m].cmd.we => Append(user[m].rx, mst[m].dout) = txn[m].res

\* Requests of m that are still to be accepted, and requests that slave s has
\* accepted and not acknowledged.
ToBeAccepted(m) == IF mst[m].stb THEN mst[m].count + 1 ELSE 0
InFlight(s) ==
  CASE Kind[s] = "mem"   -> IF slv[s].ack THEN 1 ELSE 0
    [] Kind[s] = "apb"   -> IF slv[s].state = "FSM_IDLE" THEN 0 ELSE 1
    [] Kind[s] = "cache" -> 0

\* The two counters of a master agree with the slave: the acknowledges it
\* still counts on are those in flight plus those of requests to come.  (One
\* too many and the master hangs, one too few and it reports completion early.)
AcksAreAccounted ==
  \A m \in Masters :
    LET s == Target(m) IN
      mst[m].state = "ST_PENDING" /\ s # NoSlave =>
        mst[m].count_ack + 1 = ToBeAccepted(m) + (IF Owns(m, s) THEN InFlight(s) ELSE 0)

\* The cache behind an adapter relies on a request that does not move until it
\* has completed: not the address, not the data, and not the master it is from.
RequestsHoldStill ==
  [][\A s \in Caches :
       LET m == ServedBy(s) IN
         Requests(RequestAt(s)) /\ txn'[m].done = txn[m].done
           => RequestAt(s)' = RequestAt(s)]_vars

\* What BusGrant assumes of the masters of an arbiter: a master that is not
\* connected does not lower its cyc.
WaitersKeepCyc ==
  [][\A s \in Slaves : \A p \in 0 .. NumPorts(s) - 1 :
       PortCyc(s)[p] /\ ~PortCyc(s)'[p] => Arb(s)!Connected(arb[s], p)]_vars

-----------------------------------------------------------------------------
(* Liveness.                                                               *)

\* Every command a user issues is reported complete.
CommandsComplete ==
  \A m \in Masters : mst[m].state = "ST_PENDING" ~> mst[m].complete

=============================================================================
