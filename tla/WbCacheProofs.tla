---------------------------- MODULE WbCacheProofs ----------------------------
(***************************************************************************)
(* Proofs about WbCache for every line size, number of lines and menu of   *)
(* requests, in both modes: the cache and its wb_master, which count the   *)
(* words of a transfer each on its own, stay in step (CountsAgree).        *)
(***************************************************************************)
EXTENDS WbCache, Integers, TLAPS

-----------------------------------------------------------------------------
(* The inductive invariant.                                                *)

IsMaster(m) ==
  /\ m = [state |-> m.state, adr |-> m.adr, dat |-> m.dat, we |-> m.we, stb |-> m.stb,
          cyc |-> m.cyc, count |-> m.count, count_ack |-> m.count_ack, mask |-> m.mask,
          dready_rd |-> m.dready_rd, dout |-> m.dout, complete |-> m.complete, err |-> m.err]
  /\ m.state \in {"ST_IDLE", "ST_PENDING"}
  /\ m.we \in BOOLEAN /\ m.stb \in BOOLEAN /\ m.dready_rd \in BOOLEAN /\ m.complete \in BOOLEAN
  /\ m.count \in 0 .. CountValues - 1 /\ m.count_ack \in 0 .. CountValues - 1

IsUser(u) ==
  /\ u.en \in BOOLEAN /\ u.we \in BOOLEAN
  /\ u.we => u.en
  /\ u.addr \in Reads \cup Writes

\* The acknowledges the master waits for are the requests it still makes and
\* those the memory has accepted.
InStep(m, owed) ==
  /\ m.state = "ST_PENDING" =>
       /\ m.cyc /\ ~m.complete
       /\ m.stb \/ m.count = 0
       /\ m.we => ~m.dready_rd
       /\ m.count_ack + 1 = (IF m.stb THEN m.count + 1 ELSE 0) + owed
  /\ m.state = "ST_IDLE" => ~m.stb /\ ~m.we /\ owed = 0 /\ (m.dready_rd => m.complete)

Working == mst.state = "ST_PENDING"
Resting == mst.state = "ST_IDLE" /\ ~mst.complete
Ending  == mst.state = "ST_IDLE" /\ mst.complete

CacheStates ==
  {"ST_IDLE", "ST_WRITE_TROUGH", "ST_WRITEBACK_PRE", "ST_WRITEBACK", "ST_WRITEBACK_WAIT"}
    \cup Fetching

\* Idle, the cache leaves its master alone, but for a bypass or for a write
\* that has gone to the master in the last cycle of the transfer before.
WhileIdle ==
  InIdle =>
    \/ c.bypass_active /\ core.en /\ bypass /\ (Working \/ Ending)
    \/ ~c.bypass_active /\ Resting
    \/ ~c.bypass_active /\ WriteThrough /\ en /\ core.we /\ Working

WhileWriting == c.state = "ST_WRITE_TROUGH" => WriteThrough /\ (Working \/ Ending)

WhileStarting == c.state = "ST_WRITEBACK_PRE" => ~WriteThrough /\ Resting /\ c.count = MaxCount

\* The word at c.count is on its way to the bus, one ahead of the master.
WhileWritingBack ==
  c.state = "ST_WRITEBACK" =>
    ~WriteThrough /\ Working /\ mst.we /\ c.count + 1 = mst.count

WhileWaiting ==
  c.state = "ST_WRITEBACK_WAIT" =>
    /\ ~WriteThrough /\ c.count = MaxCount
    /\ (Working /\ mst.we /\ mst.count = 0) \/ (Ending /\ ~mst.dready_rd)

\* A word of the master's is one to count for the cache.
WhileFetching ==
  c.state \in Fetching =>
    \/ Working /\ ~mst.we /\ c.count = mst.count_ack + (IF mst.dready_rd THEN 1 ELSE 0)
    \/ Ending /\ mst.dready_rd /\ c.count = 0
    \/ Resting /\ LastWordMissed

CacheInv ==
  /\ c.state \in CacheStates /\ c.count \in 0 .. MaxCount
  /\ c.bypass_active \in BOOLEAN /\ c.tag_init_complete \in BOOLEAN
  /\ IsUser(core) /\ (core.en => c.tag_init_complete)
  /\ IsMaster(mst) /\ InStep(mst, Len(pend))
  /\ ~InIdle => ~c.bypass_active
  /\ WhileIdle /\ WhileWriting /\ WhileStarting
  /\ WhileWritingBack /\ WhileWaiting /\ WhileFetching
-----------------------------------------------------------------------------
(* Counting the answers the memory owes.                                   *)

IsASequence(s) == \E S : s \in Seq(S)

\* An answer more.
LEMMA AppendStep ==
  ASSUME NEW s, IsASequence(s), NEW x
  PROVE  IsASequence(Append(s, x)) /\ Len(Append(s, x)) = Len(s) + 1
<1>1. PICK S : s \in Seq(S)
  BY DEF IsASequence
<1>2. s \in Seq(S \cup {x}) /\ x \in S \cup {x}
  BY <1>1
<1>3. Append(s, x) \in Seq(S \cup {x}) /\ Len(Append(s, x)) = Len(s) + 1
  BY <1>2
<1> QED
  BY <1>3 DEF IsASequence

\* An answer less.
LEMMA TailStep ==
  ASSUME NEW s, IsASequence(s), s # <<>>
  PROVE  IsASequence(Tail(s)) /\ Len(Tail(s)) = Len(s) - 1
<1>1. PICK S : s \in Seq(S)
  BY DEF IsASequence
<1>2. Tail(s) \in Seq(S) /\ Len(Tail(s)) = Len(s) - 1
  BY <1>1
<1> QED
  BY <1>2 DEF IsASequence

\* The length of a sequence is a number, and only that of the empty one is 0.
LEMMA LengthStep ==
  ASSUME NEW s, IsASequence(s)
  PROVE  Len(s) \in Nat /\ (s # <<>> <=> Len(s) >= 1)
<1>1. PICK S : s \in Seq(S)
  BY DEF IsASequence
<1> QED
  BY <1>1

-----------------------------------------------------------------------------
(* One edge of the master.                                                 *)

One(b) == IF b THEN 1 ELSE 0

\* What the bus gives the master.
IsBus(in) == in.ack \in BOOLEAN /\ in.stall \in BOOLEAN /\ in.err = FALSE

\* The user asks nothing.
LEMMA MasterRests ==
  ASSUME NEW m, IsMaster(m), NEW u, NEW in, IsBus(in),
         InStep(m, 0), m.state = "ST_IDLE", ~u.en
  PROVE  LET n == MasterEdge(m, u, in)
         IN  IsMaster(n) /\ InStep(n, 0) /\ n.state = "ST_IDLE" /\ n.complete = FALSE
<1> DEFINE n == MasterEdge(m, u, in)
<1>1. n = [state |-> m.state, adr |-> m.adr, dat |-> m.dat, we |-> m.we, stb |-> m.stb,
           cyc |-> m.cyc /\ u.hold, count |-> m.count, count_ack |-> m.count_ack,
           mask |-> m.mask, dready_rd |-> FALSE, dout |-> m.dout, complete |-> FALSE,
           err |-> in.err]
  BY DEF MasterEdge, Idle, IsMaster
<1> QED
  BY <1>1 DEF IsMaster, InStep

\* The command u has been taken.
Taken(n, u) ==
  /\ n.state = "ST_PENDING" /\ n.we = u.we /\ n.dready_rd = FALSE
  /\ n.count = u.burst /\ n.count_ack = u.burst

\* A command of the user's is taken.
LEMMA MasterStarts ==
  ASSUME NEW m, IsMaster(m), NEW u, NEW in, IsBus(in),
         InStep(m, 0), m.state = "ST_IDLE", u.en, u.we \in BOOLEAN,
         u.burst \in 0 .. CountValues - 1
  PROVE  /\ IsMaster(MasterEdge(m, u, in)) /\ InStep(MasterEdge(m, u, in), 0)
         /\ Taken(MasterEdge(m, u, in), u)
<1> DEFINE n == MasterEdge(m, u, in)
<1>1. n = [state |-> "ST_PENDING", adr |-> u.addr, dat |-> u.din, we |-> u.we, stb |-> TRUE,
           cyc |-> TRUE, count |-> u.burst, count_ack |-> u.burst,
           mask |-> u.burst, dready_rd |-> FALSE, dout |-> m.dout, complete |-> FALSE,
           err |-> in.err]
  BY DEF MasterEdge, Start, IsMaster
<1>2. IsMaster(n)
  BY <1>1 DEF IsMaster
<1>3. InStep(n, 0)
  BY <1>1 DEF InStep, CountValues
<1>4. Taken(n, u)
  BY <1>1 DEF Taken
<1> QED
  BY <1>2, <1>3, <1>4

\* Arithmetic of the counts: k acknowledges come in a cycle that accepts no
\* request, or one.
LEMMA BalanceHeld ==
  \A a, b \in 0 .. 63, o, n \in Nat, k \in 0 .. 1 :
    a + 1 = b + 1 + o /\ n + k = o => (a - k) + 1 = b + 1 + n
OBVIOUS

LEMMA BalanceMoved ==
  \A a, b \in 0 .. 63, o, n \in Nat, k \in 0 .. 1 :
    a + 1 = b + 1 + o /\ n + k = o + 1 => (a - k) + 1 = (b - 1) + 1 + n
OBVIOUS

\* A command is under way: the memory accepts a request and acknowledges one,
\* or not.
LEMMA MasterWorks ==
  ASSUME NEW m, IsMaster(m), NEW u, NEW in, IsBus(in), NEW owed \in Nat, NEW next \in Nat,
         InStep(m, owed), m.state = "ST_PENDING",
         ~in.stall => m.stb,
         next + One(in.ack) = owed + One(~in.stall)
  PROVE  LET n == MasterEdge(m, u, in)
         IN  /\ IsMaster(n) /\ InStep(n, next)
             /\ n.state = (IF n.complete THEN "ST_IDLE" ELSE "ST_PENDING")
             /\ n.dready_rd = (~m.we /\ in.ack)
             /\ n.complete = (in.ack /\ m.count_ack = 0)
             /\ ~n.complete => n.we = m.we /\ n.count_ack = m.count_ack - One(in.ack)
             /\ n.count = IF in.stall \/ m.count = 0 THEN m.count ELSE m.count - 1
             /\ m.count > 0 => ~n.complete
<1> DEFINE n == MasterEdge(m, u, in)
           ends == in.ack /\ m.count_ack = 0
<1>1. Ends(m, in) = ends
  BY DEF Ends, IsBus
<1>2. n = [state     |-> IF ends THEN "ST_IDLE" ELSE "ST_PENDING",
           adr       |-> NextAdr(m, in),
           dat       |-> IF in.stall THEN m.dat ELSE u.din,
           we        |-> m.we /\ ~ends,
           stb       |-> m.stb /\ ~LastRequest(m, in) /\ ~ends,
           cyc       |-> IF ends THEN u.hold ELSE m.cyc,
           count     |-> NextCount(m, in),
           count_ack |-> NextCountAck(m, in),
           mask      |-> m.mask,
           dready_rd |-> ~m.we /\ (in.ack \/ ends),
           dout      |-> IF in.ack THEN in.dat ELSE m.dout,
           complete  |-> ends,
           err       |-> in.err]
  BY <1>1 DEF MasterEdge, Pending
<1>a. /\ n.state = (IF ends THEN "ST_IDLE" ELSE "ST_PENDING") /\ n.count = NextCount(m, in)
      /\ n.count_ack = NextCountAck(m, in) /\ n.cyc = (IF ends THEN u.hold ELSE m.cyc)
  BY <1>2
<1>b. n.complete = ends
  BY <1>2
<1>c. n.we = (m.we /\ ~ends)
  BY <1>2
<1>d. n.stb = (m.stb /\ ~LastRequest(m, in) /\ ~ends)
  BY <1>2
<1>e. n.dready_rd = (~m.we /\ (in.ack \/ ends))
  BY <1>2
<1>f. n = [state |-> n.state, adr |-> n.adr, dat |-> n.dat, we |-> n.we, stb |-> n.stb,
           cyc |-> n.cyc, count |-> n.count, count_ack |-> n.count_ack, mask |-> n.mask,
           dready_rd |-> n.dready_rd, dout |-> n.dout, complete |-> n.complete, err |-> n.err]
  BY <1>2
<1>g. ends \in BOOLEAN /\ (ends <=> in.ack /\ m.count_ack = 0)
  OBVIOUS
<1> HIDE DEF n
<1>3. /\ m.count \in 0 .. 63 /\ m.count_ack \in 0 .. 63
      /\ m.we \in BOOLEAN /\ m.stb \in BOOLEAN /\ in.ack \in BOOLEAN /\ in.stall \in BOOLEAN
  BY DEF IsMaster, IsBus, CountValues
<1>4. /\ m.stb \/ m.count = 0
      /\ m.count_ack + 1 = (IF m.stb THEN m.count + 1 ELSE 0) + owed
  BY DEF InStep
<1>h. One(in.ack) \in 0 .. 1
  BY DEF One
<1>5. NextCount(m, in) = (IF in.stall \/ m.count = 0 THEN m.count ELSE m.count - 1)
  BY DEF NextCount
<1>6. /\ NextCountAck(m, in) \in 0 .. 63
      /\ ~ends => NextCountAck(m, in) = m.count_ack - One(in.ack)
  <2>1. CASE in.ack /\ m.count_ack # 0
    BY <2>1, <1>3 DEF NextCountAck, CountValues, One
  <2>2. CASE ends
    BY <2>2, <1>3 DEF NextCountAck, CountValues
  <2>3. CASE ~in.ack
    BY <2>3, <1>3 DEF NextCountAck, CountValues, One
  <2> QED
    BY <2>1, <2>2, <2>3
<1>7. IsMaster(n)
  <2>1. NextCount(m, in) \in 0 .. 63
    BY <1>3, <1>5
  <2>2. n.count \in 0 .. 63 /\ n.count_ack \in 0 .. 63
    BY <1>a, <1>6, <2>1
  <2>3. n.we \in BOOLEAN /\ n.stb \in BOOLEAN /\ n.dready_rd \in BOOLEAN /\ n.complete \in BOOLEAN
    BY <1>b, <1>c, <1>d, <1>e, <1>g
  <2>4. n.state \in {"ST_IDLE", "ST_PENDING"}
    BY <1>a
  <2> QED
    BY <1>f, <2>2, <2>3, <2>4 DEF IsMaster, CountValues
<1>8. ends => owed + One(~in.stall) = 1 /\ next = 0
  BY <1>3, <1>4 DEF One
<1>9. InStep(n, next)
  <2>1. CASE ends
    <3>1. n.state = "ST_IDLE" /\ n.stb = FALSE /\ n.we = FALSE /\ n.complete = TRUE
      BY <2>1, <1>a, <1>b, <1>c, <1>d
    <3> QED
      BY <2>1, <3>1, <1>8 DEF InStep
  <2>2. CASE ~ends
    <3>1. n.state = "ST_PENDING" /\ n.cyc = m.cyc /\ n.complete = FALSE /\ n.we = m.we
      BY <2>2, <1>3, <1>a, <1>b, <1>c
    <3>2. n.stb = (m.stb /\ ~LastRequest(m, in)) /\ n.dready_rd = (~m.we /\ in.ack)
      BY <2>2, <1>d, <1>e, <1>3
    <3>3. n.stb \/ n.count = 0
      BY <3>2, <1>a, <1>3, <1>4, <1>5 DEF LastRequest
    <3>4. n.count_ack + 1 = (IF n.stb THEN n.count + 1 ELSE 0) + next
      <4>1. n.count_ack = m.count_ack - One(in.ack)
        BY <2>2, <1>a, <1>6
      <4>2. CASE in.stall
        <5>1. n.stb = m.stb
          BY <4>2, <3>2, <1>3 DEF LastRequest
        <5>2. n.count = m.count
          BY <4>2, <1>a, <1>5
        <5>3. next + One(in.ack) = owed
          BY <4>2, <1>3 DEF One
        <5> QED
          <6>1. CASE m.stb
            <7>1. m.count_ack + 1 = m.count + 1 + owed
              BY <6>1, <1>4
            <7>2. n.count_ack + 1 = m.count + 1 + next
              <8>1. (m.count_ack - One(in.ack)) + 1 = m.count + 1 + next
                BY <7>1, <5>3, <1>3, <1>h, BalanceHeld, Zenon
              <8> QED
                BY <8>1, <4>1, Zenon
            <7> QED
              BY <7>2, <6>1, <5>1, <5>2
          <6>2. CASE ~m.stb
            <7>1. m.count_ack + 1 = owed
              BY <6>2, <1>4
            <7>2. n.count_ack + 1 = next
              BY <7>1, <5>3, <4>1, <1>3, <1>h
            <7> QED
              BY <7>2, <6>2, <5>1
          <6> QED
            BY <6>1, <6>2
      <4>3. CASE ~in.stall
        <5>1. n.stb = (m.count # 0)
          BY <4>3, <3>2 DEF LastRequest
        <5> QED
          <6>1. m.stb /\ m.count_ack + 1 = m.count + 1 + owed
            BY <4>3, <1>4
          <6>2. next + One(in.ack) = owed + 1
            BY <4>3, <1>3 DEF One
          <6>3. CASE m.count = 0
            <7>1. ~n.stb
              BY <6>3, <5>1
            <7>2. n.count_ack + 1 = next
              BY <6>1, <6>2, <6>3, <4>1, <1>3 DEF One
            <7> QED
              BY <7>1, <7>2
          <6>4. CASE m.count # 0
            <7>1. n.stb
              BY <6>4, <5>1
            <7>2. n.count = m.count - 1
              BY <6>4, <4>3, <1>a, <1>5
            <7>3. n.count_ack + 1 = n.count + 1 + next
              <8>1. (m.count_ack - One(in.ack)) + 1 = (m.count - 1) + 1 + next
                BY <6>1, <6>2, <1>3, <1>h, BalanceMoved, Zenon
              <8> QED
                BY <8>1, <7>2, <4>1, Zenon
            <7> QED
              BY <7>1, <7>3
          <6> QED
            BY <6>3, <6>4
      <4> QED
        BY <4>2, <4>3
    <3>5. n.cyc
      BY <3>1 DEF InStep
    <3>6. n.we => ~n.dready_rd
      BY <3>1, <3>2
    <3> QED
      BY <3>1, <3>3, <3>4, <3>5, <3>6 DEF InStep
  <2> QED
    BY <2>1, <2>2
<1>10. m.count > 0 => ~n.complete
  <2>1. m.count > 0 => m.count_ack # 0
    BY <1>3, <1>4
  <2>2. n.complete => m.count_ack = 0
    BY <1>b, Zenon
  <2> QED
    BY <2>1, <2>2
<1>11. n.dready_rd = (~m.we /\ in.ack)
  BY <1>e, <1>3
<1>12. ~n.complete => n.we = m.we /\ n.count_ack = m.count_ack - One(in.ack)
  BY <1>a, <1>b, <1>c, <1>3, <1>6
<1>13. n.state = (IF n.complete THEN "ST_IDLE" ELSE "ST_PENDING")
  BY <1>a, <1>b
<1>14. n.count = IF in.stall \/ m.count = 0 THEN m.count ELSE m.count - 1
  BY <1>a, <1>5
<1> QED
  BY <1>b, <1>7, <1>9, <1>10, <1>11, <1>12, <1>13, <1>14 DEF n

-----------------------------------------------------------------------------
(* One edge of the cache.                                                  *)

\* The numbers and the mode.  Without write through nothing is bypassed.
LEMMA Constants ==
  /\ MaxCount \in 3 .. 63 /\ WordsPerLine = MaxCount + 1
  /\ WriteThrough \in BOOLEAN /\ Withdraws \in BOOLEAN
  /\ IsUser(core) /\ ~WriteThrough => ~bypass
<1>1. MaxCount \in 3 .. 63 /\ WordsPerLine = MaxCount + 1
  BY WbCacheAssumption DEF WbCacheAssumption, MaxCount
<1>2. WriteThrough \in BOOLEAN /\ Withdraws \in BOOLEAN
  BY WbCacheAssumption DEF WbCacheAssumption
<1>3. IsUser(core) /\ ~WriteThrough => core.addr \in Nat /\ core.addr < BypassBase /\ BypassBase \in Nat
  BY WbCacheAssumption DEF WbCacheAssumption, IsUser
<1> QED
  BY <1>1, <1>2, <1>3 DEF bypass

\* The command for the master.
LEMMA AskFacts ==
  ASSUME NEW w, IsUser(core)
  PROVE  LET u == MasterInput(w)
         IN  /\ u.en \in BOOLEAN /\ u.we \in BOOLEAN /\ u.burst \in 0 .. CountValues - 1
             /\ bypass => (u.en <=> core.en /\ InIdle /\ ~c.bypass_pending /\ ~mst.complete)
                          /\ u.we = core.we
             /\ ~bypass /\ WriteThrough /\ core.we => u.en /\ u.we
             /\ ~WriteThrough /\ c.state = "ST_WRITEBACK_PRE" =>
                  u.en /\ u.we /\ u.burst = MaxCount
             /\ ~bypass /\ InIdle /\ ~(WriteThrough /\ core.we) =>
                  /\ ~u.we
                  /\ wb_fetch(w) => u.en /\ u.burst = MaxCount
                  /\ ~mst.complete /\ ~wb_fetch(w) => ~u.en
             /\ ~WriteThrough /\ c.state \in {"ST_WRITEBACK", "ST_WRITEBACK_WAIT"} =>
                  (mst.complete => u.en /\ ~u.we /\ u.burst = MaxCount)
             /\ ~bypass /\ ~(WriteThrough /\ core.we) /\ c.state \in Fetching \cup {"ST_WRITE_TROUGH"} =>
                  ~u.en /\ ~u.we
<1> DEFINE u == MasterInput(w)
<1>1. MaxCount \in 0 .. CountValues - 1 /\ (~WriteThrough => ~bypass)
  BY Constants DEF CountValues
<1>2. core.en \in BOOLEAN /\ core.we \in BOOLEAN /\ (core.we => core.en)
  BY DEF IsUser
<1>4. u.burst = wb_burst
  <2>1. CASE bypass
    BY <2>1 DEF MasterInput, Ask
  <2>2. CASE ~bypass /\ WriteThrough /\ en /\ core.we
    BY <2>2 DEF MasterInput, Ask
  <2>3. CASE ~bypass /\ ~(WriteThrough /\ en /\ core.we)
    BY <2>3 DEF MasterInput, Ask
  <2> QED
    BY <2>1, <2>2, <2>3
<1>5. wb_burst \in 0 .. CountValues - 1
  BY <1>1 DEF wb_burst, CountValues
<1>6. ~bypass /\ ~(WriteThrough /\ core.we) => wb_burst = MaxCount
  BY DEF wb_burst
<1>7. CASE bypass
  <2>1. u = Ask(core.en /\ InIdle /\ ~c.bypass_pending /\ ~mst.complete, core.we, core.addr, core.din)
    BY <1>7 DEF MasterInput
  <2>2. u.en = (core.en /\ InIdle /\ ~c.bypass_pending /\ ~mst.complete)
    BY <2>1 DEF Ask
  <2>3. u.we = core.we
    BY <2>1 DEF Ask
  <2>4. WriteThrough
    BY <1>7, <1>1
  <2>5. u.en \in BOOLEAN /\ (u.en <=> core.en /\ InIdle /\ ~c.bypass_pending /\ ~mst.complete)
    BY <2>2, <1>2, Zenon
  <2> QED
    BY <2>3, <2>4, <2>5, <1>2, <1>4, <1>5, <1>7
<1>8. CASE ~bypass /\ WriteThrough /\ core.we
  <2>1. u = Ask(TRUE, TRUE, core.addr, core.din)
    BY <1>8, <1>2 DEF MasterInput, en
  <2>2. u.en = TRUE /\ u.we = TRUE
    BY <2>1 DEF Ask
  <2> QED
    BY <2>2, <1>4, <1>5, <1>8
<1>9. CASE ~bypass /\ ~(WriteThrough /\ core.we)
  <2>1. CASE ~WriteThrough /\ c.state = "ST_WRITEBACK_PRE"
    <3>1. u.en = TRUE /\ u.we = TRUE
      BY <2>1, <1>9 DEF MasterInput, en, Ask
    <3> QED
      BY <3>1, <2>1, <1>4, <1>5, <1>6, <1>9 DEF InIdle, Fetching
  <2>2. CASE ~(~WriteThrough /\ c.state = "ST_WRITEBACK_PRE")
    <3>1. wb_fetch(w) /\ InIdle => u.en = TRUE /\ u.we = FALSE
      BY <2>2, <1>9 DEF MasterInput, en, Ask
    <3>2. ~(wb_fetch(w) /\ InIdle) /\ mst.complete /\ c.state \in {"ST_WRITEBACK", "ST_WRITEBACK_WAIT"} =>
            u.en = TRUE /\ u.we = FALSE
      BY <2>2, <1>9 DEF MasterInput, en, Ask
    <3>3. ~(wb_fetch(w) /\ InIdle) /\ ~(mst.complete /\ c.state \in {"ST_WRITEBACK", "ST_WRITEBACK_WAIT"}) =>
            u.en = FALSE /\ u.we = FALSE
      BY <2>2, <1>9 DEF MasterInput, en, Ask
    <3> QED
      BY <3>1, <3>2, <3>3, <2>2, <1>4, <1>5, <1>6, <1>9 DEF InIdle, Fetching
  <2> QED
    BY <2>1, <2>2
<1> QED
  BY <1>7, <1>8, <1>9

\* What one cycle does to the master, whose command is u.
MasterMoves(accept, ack, u) ==
  /\ IsMaster(mst)' /\ InStep(mst, Len(pend))' /\ IsASequence(pend)'
  /\ Working =>
       /\ Working' \/ Ending'
       /\ mst'.dready_rd = (~mst.we /\ ack)
       /\ Working' => mst'.we = mst.we /\ mst'.count_ack = mst.count_ack - One(ack)
       /\ Ending' => ack /\ mst.count_ack = 0
       /\ mst'.count = (IF ~accept \/ mst.count = 0 THEN mst.count ELSE mst.count - 1)
       /\ mst.count > 0 => Working'
  /\ ~Working /\ ~u.en => Resting'
  /\ ~Working /\ u.en =>
       /\ Working' /\ mst'.we = u.we /\ mst'.dready_rd = FALSE
       /\ mst'.count = u.burst /\ mst'.count_ack = u.burst

\* The master and the answers owed to it, in one cycle.
LEMMA MasterStep ==
  ASSUME IsMaster(mst), InStep(mst, Len(pend)), IsASequence(pend), IsUser(core),
         NEW accept \in BOOLEAN, NEW ack \in BOOLEAN, BusMay(accept, ack), NEW w,
         mst' = MasterEdge(mst, MasterInput(w), Bus(accept, ack)),
         pend' = IF ack THEN Tail(Answers(accept)) ELSE Answers(accept)
  PROVE  MasterMoves(accept, ack, MasterInput(w))
<1> DEFINE u  == MasterInput(w)
           in == Bus(accept, ack)
<1>1. IsBus(in) /\ in.ack = ack /\ in.stall = ~accept
  BY DEF IsBus, Bus
<1>2. u.en \in BOOLEAN /\ u.we \in BOOLEAN /\ u.burst \in 0 .. CountValues - 1
  BY AskFacts
<1>3. mst.state \in {"ST_IDLE", "ST_PENDING"}
  BY DEF IsMaster
<1>4. Len(pend) \in Nat
  BY LengthStep
<1>5. /\ IsASequence(Answers(accept))
      /\ Len(Answers(accept)) = Len(pend) + One(accept)
  BY AppendStep, <1>4 DEF Answers, One
<1>6. IsASequence(pend') /\ Len(pend') \in Nat /\ Len(pend') + One(ack) = Len(pend) + One(accept)
  <2>1. CASE ack
    <3>1. Answers(accept) # <<>>
      BY <2>1 DEF BusMay
    <3>2. pend' = Tail(Answers(accept))
      BY <2>1
    <3>3. IsASequence(pend') /\ Len(pend') = Len(Answers(accept)) - 1
      BY <3>1, <3>2, <1>5, TailStep
    <3> QED
      BY <2>1, <3>3, <1>4, <1>5, LengthStep DEF One
  <2>2. CASE ~ack
    BY <2>2, <1>4, <1>5, LengthStep DEF One
  <2> QED
    BY <2>1, <2>2
<1>7. accept => mst.stb
  BY DEF BusMay, Asked
<1>8. CASE Working
  <2>1. ~in.stall => mst.stb
    BY <1>1, <1>7
  <2>2. Len(pend') + One(in.ack) = Len(pend) + One(~in.stall)
    BY <1>1, <1>6
  <2>3. mst.state = "ST_PENDING"
    BY <1>8 DEF Working
  <2>4. /\ IsMaster(mst') /\ InStep(mst', Len(pend'))
        /\ mst'.state = (IF mst'.complete THEN "ST_IDLE" ELSE "ST_PENDING")
        /\ mst'.dready_rd = (~mst.we /\ in.ack)
        /\ mst'.complete = (in.ack /\ mst.count_ack = 0)
        /\ ~mst'.complete => mst'.we = mst.we /\ mst'.count_ack = mst.count_ack - One(in.ack)
        /\ mst'.count = IF in.stall \/ mst.count = 0 THEN mst.count ELSE mst.count - 1
        /\ mst.count > 0 => ~mst'.complete
    BY <1>1, <1>4, <1>6, <2>1, <2>2, <2>3, MasterWorks
  <2>5. /\ Working' <=> mst'.state = "ST_PENDING"
        /\ Ending' <=> mst'.state = "ST_IDLE" /\ mst'.complete
    BY DEF Working, Ending
  <2>6. Working' => ~mst'.complete
    BY <2>4, <2>5 DEF InStep
  <2>7. (Working' \/ Ending') /\ (~mst'.complete => Working')
    BY <2>4, <2>5
  <2>8. Ending' => ack /\ mst.count_ack = 0
    BY <2>4, <2>5, <1>1
  <2> QED
    BY <1>1, <1>6, <1>8, <2>4, <2>6, <2>7, <2>8 DEF MasterMoves
<1>9. CASE ~Working
  <2>1. mst.state = "ST_IDLE"
    BY <1>9, <1>3 DEF Working
  <2>2. Len(pend) = 0 /\ ~mst.stb
    BY <2>1 DEF InStep
  <2>3. Len(pend') = 0
    BY <2>2, <1>6, <1>7, <1>4 DEF One
  <2>4. InStep(mst, 0)
    BY <2>2
  <2>5. CASE u.en
    <3>1. IsMaster(mst') /\ InStep(mst', 0) /\ Taken(mst', u)
      BY <1>1, <1>2, <2>1, <2>4, <2>5, MasterStarts
    <3> QED
      BY <3>1, <1>6, <1>9, <2>3, <2>5 DEF Working, Taken, MasterMoves
  <2>6. CASE ~u.en
    <3>1. IsMaster(mst') /\ InStep(mst', 0) /\ mst'.state = "ST_IDLE" /\ mst'.complete = FALSE
      BY <1>1, <1>2, <2>1, <2>4, <2>6, MasterRests
    <3> QED
      BY <3>1, <1>6, <1>9, <2>3, <2>6 DEF Resting, MasterMoves
  <2> QED
    BY <2>5, <2>6
<1> QED
  BY <1>8, <1>9

\* wb_dready.
dready(w, accept, ack) == DReady(mst, MasterInput(w), Bus(accept, ack))

\* What a cycle in which the RAMs read w does to the registers the invariant is
\* about.
Turn(accept, ack, w) ==
  /\ accept \in BOOLEAN /\ ack \in BOOLEAN /\ BusMay(accept, ack)
  /\ w.inactive => en
  /\ c'.state = NextState(w, dready(w, accept, ack))
  /\ c'.count = NextWordCount(w, dready(w, accept, ack))
  /\ c'.tag_init_complete = (c.tag_init_complete \/ c.tag1_index = NumberOfLines - 1)
  /\ c'.bypass_active = ((bypass /\ MasterInput(w).en) \/ (c.bypass_active /\ ~mst.complete))
  /\ mst' = MasterEdge(mst, MasterInput(w), Bus(accept, ack))
  /\ pend' = IF ack THEN Tail(Answers(accept)) ELSE Answers(accept)
  /\ core' \in CoreNext(complete_o(w))

\* Every step is such a cycle.
LEMMA NextTurns == Next => \E accept, ack, w : Turn(accept, ack, w)
<1> SUFFICES ASSUME NEW accept \in BOOLEAN, NEW ack \in BOOLEAN,
                    NEW other \in OtherWrites \cup {NoOther}, Clock(accept, ack, other)
             PROVE  \E w : Turn(accept, ack, w)
  BY DEF Next
<1> DEFINE snoop(w) == OwnSnoop(ack) \cup (IF other.on THEN {other.addr} ELSE {})
<1>1. PICK w \in MidEdge :
        /\ c' = CacheEdge(w, MasterInput(w), dready(w, accept, ack), snoop(w))
        /\ mst' = MasterEdge(mst, MasterInput(w), Bus(accept, ack))
        /\ core' \in CoreNext(complete_o(w))
  BY Zenon DEF Clock, dready
<1>2. w.inactive => en
  <2>1. w.inactive \in {en /\ ~line_active(c.we_1d)}
    BY DEF MidEdge
  <2> QED
    BY <2>1
<1>3. /\ c'.state = NextState(w, dready(w, accept, ack))
      /\ c'.count = NextWordCount(w, dready(w, accept, ack))
      /\ c'.tag_init_complete = (c.tag_init_complete \/ c.tag1_index = NumberOfLines - 1)
      /\ c'.bypass_active = ((bypass /\ MasterInput(w).en) \/ (c.bypass_active /\ ~mst.complete))
  BY <1>1 DEF CacheEdge
<1>4. BusMay(accept, ack) /\ pend' = IF ack THEN Tail(Answers(accept)) ELSE Answers(accept)
  BY DEF Clock
<1> QED
  BY <1>1, <1>2, <1>3, <1>4 DEF Turn

\* The user: a request stays until it is complete.
LEMMA UserStep ==
  ASSUME ~Withdraws, CacheInv, NEW accept, NEW ack, NEW w, Turn(accept, ack, w)
  PROVE  /\ c'.tag_init_complete \in BOOLEAN /\ c'.bypass_active \in BOOLEAN
         /\ IsUser(core)' /\ (core'.en => c'.tag_init_complete)
         /\ core.en /\ ~complete_o(w) => core' = core
<1>1. c'.tag_init_complete = (c.tag_init_complete \/ c.tag1_index = NumberOfLines - 1)
  BY DEF Turn
<1>2. c'.bypass_active = ((bypass /\ MasterInput(w).en) \/ (c.bypass_active /\ ~mst.complete))
  BY DEF Turn
<1>3. core' \in CoreNext(complete_o(w)) /\ IsUser(core) /\ (core.en => c.tag_init_complete)
  BY DEF Turn, CacheInv
<1>4. c.tag_init_complete => c'.tag_init_complete
  BY <1>1
<1>5. c'.tag_init_complete \in BOOLEAN /\ c'.bypass_active \in BOOLEAN
  BY <1>1, <1>2
<1>6. \A r \in IdleCore : IsUser(r) /\ ~r.en
  <2> TAKE r \in IdleCore
  <2>1. PICK a \in Reads : r = [en |-> FALSE, we |-> FALSE, addr |-> a, din |-> Junk]
    BY Zenon DEF IdleCore
  <2>2. r.en = FALSE /\ r.we = FALSE /\ r.addr = a
    BY <2>1
  <2> QED
    BY <2>2 DEF IsUser
<1>7. \A r \in Requests : IsUser(r)
  <2> TAKE r \in Requests
  <2>1. CASE r \in {[en |-> TRUE, we |-> FALSE, addr |-> a, din |-> Junk] : a \in Reads}
    <3>1. PICK a \in Reads : r = [en |-> TRUE, we |-> FALSE, addr |-> a, din |-> Junk]
      BY <2>1, Zenon
    <3>2. r.en = TRUE /\ r.we = FALSE /\ r.addr = a
      BY <3>1
    <3> QED
      BY <3>2 DEF IsUser
  <2>2. CASE r \in UNION {{[en |-> TRUE, we |-> TRUE, addr |-> a, din |-> Value(a, version)] :
                             version \in Versions(a)} : a \in Writes}
    <3>1. PICK a \in Writes : r \in {[en |-> TRUE, we |-> TRUE, addr |-> a, din |-> Value(a, version)] :
                                       version \in Versions(a)}
      BY <2>2, Zenon
    <3>2. PICK version : r = [en |-> TRUE, we |-> TRUE, addr |-> a, din |-> Value(a, version)]
      BY <3>1, Zenon
    <3>3. r.en = TRUE /\ r.we = TRUE /\ r.addr = a
      BY <3>2
    <3> QED
      BY <3>3 DEF IsUser
  <2> QED
    BY <2>1, <2>2, Zenon DEF Requests
<1>8. CASE ~c.tag_init_complete
  <2>1. core' \in IdleCore
    BY <1>3, <1>8 DEF CoreNext
  <2> QED
    BY <2>1, <1>3, <1>5, <1>6, <1>8
<1>9. CASE c.tag_init_complete /\ core.en /\ ~complete_o(w)
  <2>1. core' = core
    BY <1>3, <1>9 DEF CoreNext
  <2> QED
    BY <2>1, <1>3, <1>4, <1>5, <1>9
<1>10. CASE c.tag_init_complete /\ ~(core.en /\ ~complete_o(w))
  <2>1. core' \in IdleCore \cup Requests
    BY <1>3, <1>10 DEF CoreNext
  <2> QED
    BY <2>1, <1>4, <1>5, <1>6, <1>7, <1>10
<1> QED
  BY <1>8, <1>9, <1>10

\* The master reports words.
LEMMA DReadyStep ==
  ASSUME IsMaster(mst), NEW accept \in BOOLEAN, NEW ack, NEW w
  PROVE  LET u == MasterInput(w)
         IN  dready(w, accept, ack) <=>
               IF u.we /\ ~Working THEN u.en
               ELSE IF mst.we /\ Working /\ mst.count # 0 THEN accept ELSE mst.dready_rd
<1>1. mst.state \in {"ST_IDLE", "ST_PENDING"}
  BY DEF IsMaster
<1>2. Bus(accept, ack).stall = ~accept
  BY DEF Bus
<1> QED
  BY <1>1, <1>2 DEF dready, DReady, Working

\* count <= count - 1, in as many bits as a word number has.
LEMMA CountDown ==
  ASSUME NEW n \in 0 .. MaxCount
  PROVE  (n + WordsPerLine - 1) % WordsPerLine = IF n = 0 THEN MaxCount ELSE n - 1
<1>1. MaxCount \in 3 .. 63 /\ WordsPerLine = MaxCount + 1
  BY Constants
<1>2. CASE n = 0
  BY <1>1, <1>2
<1>3. CASE n # 0
  <2>1. n + WordsPerLine - 1 = (n - 1) + WordsPerLine /\ n - 1 \in 0 .. MaxCount
    BY <1>1, <1>3
  <2>2. (n - 1) + WordsPerLine \in WordsPerLine .. (2 * WordsPerLine - 1)
    BY <2>1, <1>1
  <2>3. ((n - 1) + WordsPerLine) % WordsPerLine = n - 1
    BY <2>1, <2>2, <1>1
  <2> QED
    BY <2>1, <2>3, <1>3
<1> QED
  BY <1>2, <1>3

\* What starts in ST_IDLE, and what does not.
LEMMA Leaving ==
  ASSUME NEW w, NEW d, IsUser(core), InIdle
  PROVE  /\ ~(wb_writeback(w) /\ wb_fetch(w))
         /\ wb_writeback(w) => en /\ ~WriteThrough /\ NextState(w, d) = "ST_WRITEBACK_PRE"
         /\ wb_fetch(w) => en /\ ~(WriteThrough /\ core.we) /\ NextState(w, d) = "ST_FETCH"
         /\ wb_writeback(w) \/ wb_fetch(w) => NextWordCount(w, d) = MaxCount
         /\ WriteThrough /\ en /\ core.we => NextState(w, d) = "ST_WRITE_TROUGH"
         /\ ~wb_writeback(w) /\ ~wb_fetch(w) /\ ~(WriteThrough /\ en /\ core.we) =>
              NextState(w, d) = "ST_IDLE"
         /\ ~wb_writeback(w) /\ ~wb_fetch(w) => NextWordCount(w, d) = c.count
<1>1. ~(wb_writeback(w) /\ wb_fetch(w)) /\ (wb_writeback(w) => en /\ ~WriteThrough)
  BY DEF wb_writeback, wb_fetch
<1>2. wb_fetch(w) => en /\ ~(WriteThrough /\ core.we)
  BY DEF wb_fetch
<1>3. c.state = "ST_IDLE"
  BY DEF InIdle
<1>4. NextState(w, d) =
        IF wb_writeback(w) THEN "ST_WRITEBACK_PRE"
        ELSE IF wb_fetch(w) THEN "ST_FETCH"
        ELSE IF WriteThrough /\ en /\ core.we THEN "ST_WRITE_TROUGH" ELSE "ST_IDLE"
  BY <1>1, <1>2, <1>3 DEF NextState, InIdle, Fetching
<1>5. NextWordCount(w, d) = IF wb_writeback(w) \/ wb_fetch(w) THEN MaxCount ELSE c.count
  BY <1>3 DEF NextWordCount, Starts, Advances, InIdle
<1> QED
  BY <1>1, <1>2, <1>4, <1>5

\* The word count stays in its range.
LEMMA CountStep ==
  ASSUME NEW w, NEW d, c.count \in 0 .. MaxCount
  PROVE  /\ NextWordCount(w, d) \in 0 .. MaxCount
         /\ ~InIdle =>
              NextWordCount(w, d) =
                IF ~Advances(d) THEN c.count ELSE IF c.count = 0 THEN MaxCount ELSE c.count - 1
<1>1. MaxCount \in 3 .. 63
  BY Constants
<1>2. (c.count + WordsPerLine - 1) % WordsPerLine = IF c.count = 0 THEN MaxCount ELSE c.count - 1
  BY CountDown
<1>3. Advances(d) => ~InIdle
  BY DEF Advances
<1>4. NextWordCount(w, d) =
        IF Starts(w) THEN MaxCount
        ELSE IF Advances(d) THEN (IF c.count = 0 THEN MaxCount ELSE c.count - 1) ELSE c.count
  BY <1>2, <1>3 DEF NextWordCount, Starts
<1> QED
  BY <1>1, <1>4 DEF Starts

-----------------------------------------------------------------------------
(* The phases of the cache, one lemma each.                                *)

\* What the invariant says of cache and master together.
Phase ==
  /\ c.state \in CacheStates /\ c.count \in 0 .. MaxCount
  /\ ~InIdle => ~c.bypass_active
  /\ WhileIdle /\ WhileWriting /\ WhileStarting
  /\ WhileWritingBack /\ WhileWaiting /\ WhileFetching

\* One obligation per state the cache is in after the step.
LEMMA ToIdle ==
  ASSUME c'.state = "ST_IDLE", c'.count \in 0 .. MaxCount,
         \/ c'.bypass_active /\ core'.en /\ bypass' /\ (Working' \/ Ending')
         \/ ~c'.bypass_active /\ Resting'
         \/ ~c'.bypass_active /\ WriteThrough /\ en' /\ core'.we /\ Working'
  PROVE  Phase'
BY DEF Phase, CacheStates, InIdle, Fetching, WhileIdle, WhileWriting, WhileStarting,
       WhileWritingBack, WhileWaiting, WhileFetching

LEMMA ToWriting ==
  ASSUME c'.state = "ST_WRITE_TROUGH", c'.count \in 0 .. MaxCount, ~c'.bypass_active,
         WriteThrough, Working' \/ Ending'
  PROVE  Phase'
BY DEF Phase, CacheStates, InIdle, Fetching, WhileIdle, WhileWriting, WhileStarting,
       WhileWritingBack, WhileWaiting, WhileFetching

LEMMA ToStarting ==
  ASSUME c'.state = "ST_WRITEBACK_PRE", c'.count \in 0 .. MaxCount, ~c'.bypass_active,
         ~WriteThrough, Resting', c'.count = MaxCount
  PROVE  Phase'
BY DEF Phase, CacheStates, InIdle, Fetching, WhileIdle, WhileWriting, WhileStarting,
       WhileWritingBack, WhileWaiting, WhileFetching

LEMMA ToWritingBack ==
  ASSUME c'.state = "ST_WRITEBACK", c'.count \in 0 .. MaxCount, ~c'.bypass_active,
         ~WriteThrough, Working', mst'.we, c'.count + 1 = mst'.count
  PROVE  Phase'
BY DEF Phase, CacheStates, InIdle, Fetching, WhileIdle, WhileWriting, WhileStarting,
       WhileWritingBack, WhileWaiting, WhileFetching

LEMMA ToWaiting ==
  ASSUME c'.state = "ST_WRITEBACK_WAIT", c'.count \in 0 .. MaxCount, ~c'.bypass_active,
         ~WriteThrough, c'.count = MaxCount,
         (Working' /\ mst'.we /\ mst'.count = 0) \/ (Ending' /\ ~mst'.dready_rd)
  PROVE  Phase'
BY DEF Phase, CacheStates, InIdle, Fetching, WhileIdle, WhileWriting, WhileStarting,
       WhileWritingBack, WhileWaiting, WhileFetching

LEMMA ToFetching ==
  ASSUME c'.state \in Fetching, c'.count \in 0 .. MaxCount, ~c'.bypass_active,
         \/ Working' /\ ~mst'.we /\ c'.count = mst'.count_ack + (IF mst'.dready_rd THEN 1 ELSE 0)
         \/ Ending' /\ mst'.dready_rd /\ c'.count = 0
         \/ Resting' /\ LastWordMissed'
  PROVE  Phase'
BY DEF Phase, CacheStates, InIdle, Fetching, WhileIdle, WhileWriting, WhileStarting,
       WhileWritingBack, WhileWaiting, WhileFetching

\* ST_IDLE.
LEMMA FromIdle ==
  ASSUME ~Withdraws, CacheInv, IsASequence(pend), NEW accept, NEW ack, NEW w,
         Turn(accept, ack, w), InIdle
  PROVE  Phase'
<1> DEFINE u == MasterInput(w)
           d == dready(w, accept, ack)
<1>1. /\ c'.state = NextState(w, d) /\ c'.count = NextWordCount(w, d)
      /\ c'.bypass_active = ((bypass /\ u.en) \/ (c.bypass_active /\ ~mst.complete))
      /\ accept \in BOOLEAN /\ ack \in BOOLEAN
  BY DEF Turn
<1>2. IsUser(core) /\ IsMaster(mst) /\ c.count \in 0 .. MaxCount /\ InStep(mst, Len(pend))
  BY DEF CacheInv
<1>3. MasterMoves(accept, ack, u)
  BY <1>2, MasterStep DEF Turn
<1>4. c'.count \in 0 .. MaxCount
  BY <1>1, <1>2, CountStep
<1>5. (core.en /\ ~complete_o(w) => core' = core) /\ IsUser(core)'
  BY UserStep
<1>6. MaxCount \in 3 .. 63 /\ WriteThrough \in BOOLEAN
  BY Constants
<1>7. CASE c.bypass_active
  <2>1. core.en /\ bypass /\ (Working \/ Ending)
    BY <1>7 DEF CacheInv, WhileIdle
  <2>2. c'.state = "ST_IDLE"
    BY <1>1, <1>2, <2>1, Leaving DEF en
  <2>3. complete_o(w) = mst.complete
    BY <1>7 DEF complete_o
  <2>4. CASE Working
    <3>1. ~mst.complete
      BY <1>2, <2>4 DEF InStep, Working
    <3>2. core' = core
      BY <1>5, <2>1, <2>3, <3>1
    <3>3. core'.en /\ bypass'
      BY <2>1, <3>2 DEF bypass
    <3>4. c'.bypass_active
      BY <1>1, <1>7, <3>1
    <3> QED
      BY <1>3, <1>4, <2>2, <2>4, <3>3, <3>4, ToIdle DEF MasterMoves
  <2>5. CASE Ending
    <3>1. ~u.en /\ ~Working
      BY <1>2, <2>1, <2>5, AskFacts DEF Ending, Working
    <3>2. ~c'.bypass_active
      BY <1>1, <2>5, <3>1 DEF Ending
    <3> QED
      BY <1>3, <1>4, <2>2, <3>1, <3>2, ToIdle DEF MasterMoves
  <2> QED
    BY <2>1, <2>4, <2>5
<1>8. CASE ~c.bypass_active /\ Resting /\ bypass
  <2>1. c'.state = "ST_IDLE"
    BY <1>1, <1>2, <1>8, Leaving DEF en
  <2>2. ~complete_o(w)
    BY <1>8 DEF complete_o, Turn, en
  <2>3. ~Working
    BY <1>8 DEF Working, Resting
  <2>4. CASE u.en
    <3>1. core.en
      BY <1>2, <1>8, <2>4, AskFacts
    <3>2. core' = core
      BY <1>5, <2>2, <3>1
    <3>3. core'.en /\ bypass'
      BY <1>8, <3>1, <3>2 DEF bypass
    <3>4. c'.bypass_active
      BY <1>1, <1>8, <2>4
    <3> QED
      BY <1>3, <1>4, <2>1, <2>3, <2>4, <3>3, <3>4, ToIdle DEF MasterMoves
  <2>5. CASE ~u.en
    <3>1. ~c'.bypass_active
      BY <1>1, <1>8, <2>5
    <3> QED
      BY <1>3, <1>4, <2>1, <2>3, <2>5, <3>1, ToIdle DEF MasterMoves
  <2> QED
    BY <2>4, <2>5
<1>9. CASE ~c.bypass_active /\ Resting /\ ~bypass
  <2>1. ~Working /\ ~c'.bypass_active /\ ~mst.complete
    BY <1>1, <1>9 DEF Working, Resting
  <2>2. core.we => en
    BY <1>2, <1>9 DEF en, IsUser
  <2>3. CASE WriteThrough /\ core.we
    <3>1. c'.state = "ST_WRITE_TROUGH"
      BY <1>1, <1>2, <2>2, <2>3, Leaving
    <3>2. Working'
      BY <1>2, <1>3, <1>9, <2>1, <2>3, AskFacts DEF MasterMoves
    <3> QED
      BY <1>4, <2>1, <2>3, <3>1, <3>2, ToWriting
  <2>4. CASE ~(WriteThrough /\ core.we) /\ wb_writeback(w)
    <3>1. c'.state = "ST_WRITEBACK_PRE" /\ c'.count = MaxCount /\ ~WriteThrough /\ ~wb_fetch(w)
      BY <1>1, <1>2, <2>4, Leaving
    <3>2. Resting'
      BY <1>2, <1>3, <1>9, <2>1, <2>4, <3>1, AskFacts DEF MasterMoves
    <3> QED
      BY <1>4, <2>1, <3>1, <3>2, ToStarting
  <2>5. CASE ~(WriteThrough /\ core.we) /\ wb_fetch(w)
    <3>1. c'.state = "ST_FETCH" /\ c'.count = MaxCount
      BY <1>1, <1>2, <2>5, Leaving
    <3>2. ~u.we /\ u.en /\ u.burst = MaxCount
      BY <1>2, <1>9, <2>5, AskFacts
    <3>3. Working' /\ ~mst'.we /\ ~mst'.dready_rd /\ mst'.count_ack = MaxCount
      BY <1>3, <2>1, <3>2 DEF MasterMoves
    <3>4. c'.count = mst'.count_ack + (IF mst'.dready_rd THEN 1 ELSE 0)
      BY <1>6, <3>1, <3>3
    <3>5. c'.state \in Fetching
      BY <3>1 DEF Fetching
    <3> QED
      BY <1>4, <2>1, <3>3, <3>4, <3>5, ToFetching
  <2>6. CASE ~(WriteThrough /\ core.we) /\ ~wb_writeback(w) /\ ~wb_fetch(w)
    <3>1. c'.state = "ST_IDLE"
      BY <1>1, <1>2, <2>6, Leaving
    <3>2. Resting'
      BY <1>2, <1>3, <1>9, <2>1, <2>6, AskFacts DEF MasterMoves
    <3> QED
      BY <1>4, <2>1, <3>1, <3>2, ToIdle
  <2> QED
    BY <2>3, <2>4, <2>5, <2>6
<1>10. CASE ~c.bypass_active /\ WriteThrough /\ en /\ core.we /\ Working
  <2>1. c'.state = "ST_WRITE_TROUGH"
    BY <1>1, <1>2, <1>10, Leaving
  <2>2. ~c'.bypass_active
    BY <1>1, <1>10 DEF en
  <2> QED
    BY <1>3, <1>4, <1>10, <2>1, <2>2, ToWriting DEF MasterMoves
<1> QED
  BY <1>7, <1>8, <1>9, <1>10 DEF CacheInv, WhileIdle

\* A bypass starts in ST_IDLE only.
LEMMA BusyBypass ==
  ASSUME NEW accept, NEW ack, NEW w, Turn(accept, ack, w), IsUser(core), ~InIdle, ~c.bypass_active
  PROVE  ~c'.bypass_active
<1>1. c'.bypass_active = ((bypass /\ MasterInput(w).en) \/ (c.bypass_active /\ ~mst.complete))
  BY DEF Turn
<1>2. bypass => ~MasterInput(w).en
  BY AskFacts
<1> QED
  BY <1>1, <1>2

\* ST_WRITE_TROUGH.
LEMMA FromWriting ==
  ASSUME ~Withdraws, CacheInv, IsASequence(pend), NEW accept, NEW ack, NEW w,
         Turn(accept, ack, w), c.state = "ST_WRITE_TROUGH"
  PROVE  Phase'
<1> DEFINE u == MasterInput(w)
           d == dready(w, accept, ack)
<1>1. /\ c'.state = NextState(w, d) /\ c'.count = NextWordCount(w, d)
      /\ accept \in BOOLEAN /\ ack \in BOOLEAN
  BY DEF Turn
<1>2. /\ IsUser(core) /\ IsMaster(mst) /\ c.count \in 0 .. MaxCount /\ InStep(mst, Len(pend))
      /\ ~InIdle /\ ~c.bypass_active
  BY DEF CacheInv, InIdle, Fetching
<1>3. MasterMoves(accept, ack, u)
  BY <1>2, MasterStep DEF Turn
<1>4. /\ c'.count \in 0 .. MaxCount
      /\ c'.count = IF ~Advances(d) THEN c.count ELSE IF c.count = 0 THEN MaxCount ELSE c.count - 1
  BY <1>1, <1>2, CountStep
<1>5. (core.en /\ ~complete_o(w) => core' = core) /\ IsUser(core)'
  BY UserStep
<1>6. MaxCount \in 3 .. 63 /\ WriteThrough \in BOOLEAN /\ (~WriteThrough => ~bypass)
  BY <1>2, Constants
<1>7. ~c'.bypass_active
  BY <1>2, BusyBypass
<1>8. d <=> IF u.we /\ ~Working THEN u.en
            ELSE IF mst.we /\ Working /\ mst.count # 0 THEN accept ELSE mst.dready_rd
  BY <1>1, <1>2, DReadyStep
<1>9. WriteThrough /\ (Working \/ Ending)
  BY DEF CacheInv, WhileWriting
<1>10. CASE Working
  <2>1. ~mst.complete
    BY <1>2, <1>10 DEF InStep, Working
  <2>2. c'.state = "ST_WRITE_TROUGH"
    BY <1>1, <2>1 DEF NextState, InIdle, Fetching
  <2> QED
    BY <1>3, <1>4, <1>7, <1>9, <1>10, <2>2, ToWriting DEF MasterMoves
<1>11. CASE Ending
  <2>1. c'.state = "ST_IDLE"
    BY <1>1, <1>11 DEF NextState, InIdle, Fetching, Ending
  <2>2. ~Working
    BY <1>11 DEF Working, Ending
  <2>3. CASE u.en
    <3>1. ~bypass /\ WriteThrough /\ core.we
      BY <1>2, <2>3, AskFacts DEF InIdle
    <3>2. ~complete_o(w)
      BY <1>2, <3>1 DEF complete_o
    <3>3. core' = core /\ core.en
      BY <1>2, <1>5, <3>1, <3>2 DEF IsUser
    <3>4. en' /\ core'.we
      BY <3>1, <3>3 DEF en, bypass
    <3> QED
      BY <1>3, <1>4, <1>7, <1>9, <2>1, <2>2, <2>3, <3>4, ToIdle DEF MasterMoves
  <2>4. CASE ~u.en
    BY <1>3, <1>4, <1>7, <2>1, <2>2, <2>4, ToIdle DEF MasterMoves
  <2> QED
    BY <2>3, <2>4
<1> QED
  BY <1>9, <1>10, <1>11

\* ST_WRITEBACK_PRE.
LEMMA FromStarting ==
  ASSUME ~Withdraws, CacheInv, IsASequence(pend), NEW accept, NEW ack, NEW w,
         Turn(accept, ack, w), c.state = "ST_WRITEBACK_PRE"
  PROVE  Phase'
<1> DEFINE u == MasterInput(w)
           d == dready(w, accept, ack)
<1>1. /\ c'.state = NextState(w, d) /\ c'.count = NextWordCount(w, d)
      /\ accept \in BOOLEAN /\ ack \in BOOLEAN
  BY DEF Turn
<1>2. /\ IsUser(core) /\ IsMaster(mst) /\ c.count \in 0 .. MaxCount /\ InStep(mst, Len(pend))
      /\ ~InIdle /\ ~c.bypass_active
  BY DEF CacheInv, InIdle, Fetching
<1>3. MasterMoves(accept, ack, u)
  BY <1>2, MasterStep DEF Turn
<1>4. /\ c'.count \in 0 .. MaxCount
      /\ c'.count = IF ~Advances(d) THEN c.count ELSE IF c.count = 0 THEN MaxCount ELSE c.count - 1
  BY <1>1, <1>2, CountStep
<1>5. (core.en /\ ~complete_o(w) => core' = core) /\ IsUser(core)'
  BY UserStep
<1>6. MaxCount \in 3 .. 63 /\ WriteThrough \in BOOLEAN /\ (~WriteThrough => ~bypass)
  BY <1>2, Constants
<1>7. ~c'.bypass_active
  BY <1>2, BusyBypass
<1>8. d <=> IF u.we /\ ~Working THEN u.en
            ELSE IF mst.we /\ Working /\ mst.count # 0 THEN accept ELSE mst.dready_rd
  BY <1>1, <1>2, DReadyStep
<1>9. ~WriteThrough /\ Resting /\ c.count = MaxCount
  BY DEF CacheInv, WhileStarting
<1>10. ~Working /\ u.en /\ u.we /\ u.burst = MaxCount
  BY <1>2, <1>9, AskFacts DEF Working, Resting
<1>11. d
  BY <1>8, <1>10
<1>12. c'.state = "ST_WRITEBACK"
  BY <1>1, <1>11 DEF NextState, InIdle, Fetching
<1>13. Advances(d)
  BY <1>2, <1>11 DEF Advances
<1>14. c'.count + 1 = mst'.count
  BY <1>3, <1>4, <1>6, <1>9, <1>10, <1>13 DEF MasterMoves
<1> QED
  BY <1>3, <1>4, <1>7, <1>9, <1>10, <1>12, <1>14, ToWritingBack DEF MasterMoves

\* ST_WRITEBACK.
LEMMA FromWritingBack ==
  ASSUME ~Withdraws, CacheInv, IsASequence(pend), NEW accept, NEW ack, NEW w,
         Turn(accept, ack, w), c.state = "ST_WRITEBACK"
  PROVE  Phase'
<1> DEFINE u == MasterInput(w)
           d == dready(w, accept, ack)
<1>1. /\ c'.state = NextState(w, d) /\ c'.count = NextWordCount(w, d)
      /\ accept \in BOOLEAN /\ ack \in BOOLEAN
  BY DEF Turn
<1>2. /\ IsUser(core) /\ IsMaster(mst) /\ c.count \in 0 .. MaxCount /\ InStep(mst, Len(pend))
      /\ ~InIdle /\ ~c.bypass_active
  BY DEF CacheInv, InIdle, Fetching
<1>3. MasterMoves(accept, ack, u)
  BY <1>2, MasterStep DEF Turn
<1>4. /\ c'.count \in 0 .. MaxCount
      /\ c'.count = IF ~Advances(d) THEN c.count ELSE IF c.count = 0 THEN MaxCount ELSE c.count - 1
  BY <1>1, <1>2, CountStep
<1>5. (core.en /\ ~complete_o(w) => core' = core) /\ IsUser(core)'
  BY UserStep
<1>6. MaxCount \in 3 .. 63 /\ WriteThrough \in BOOLEAN /\ (~WriteThrough => ~bypass)
  BY <1>2, Constants
<1>7. ~c'.bypass_active
  BY <1>2, BusyBypass
<1>8. d <=> IF u.we /\ ~Working THEN u.en
            ELSE IF mst.we /\ Working /\ mst.count # 0 THEN accept ELSE mst.dready_rd
  BY <1>1, <1>2, DReadyStep
<1>9. ~WriteThrough /\ Working /\ mst.we /\ c.count + 1 = mst.count
  BY DEF CacheInv, WhileWritingBack
<1>10. mst.count > 0 /\ Working' /\ mst'.we
  <2>1. mst.count > 0
    BY <1>2, <1>6, <1>9
  <2> QED
    BY <2>1, <1>3, <1>9 DEF MasterMoves
<1>11. d <=> accept
  BY <1>8, <1>9, <1>10
<1>12. Advances(d) <=> accept
  BY <1>2, <1>11 DEF Advances
<1>13. CASE ~accept
  <2>1. c'.state = "ST_WRITEBACK"
    BY <1>1, <1>11, <1>13 DEF NextState, InIdle, Fetching
  <2>2. c'.count = c.count /\ mst'.count = mst.count
    BY <1>3, <1>4, <1>9, <1>12, <1>13 DEF MasterMoves
  <2> QED
    BY <1>4, <1>7, <1>9, <1>10, <2>1, <2>2, ToWritingBack
<1>14. CASE accept /\ c.count # 0
  <2>1. c'.state = "ST_WRITEBACK"
    BY <1>1, <1>11, <1>14 DEF NextState, InIdle, Fetching
  <2>2. c'.count = c.count - 1 /\ mst'.count = mst.count - 1
    BY <1>3, <1>4, <1>9, <1>10, <1>12, <1>14 DEF MasterMoves
  <2>3. c'.count + 1 = mst'.count
    BY <1>2, <1>6, <1>9, <2>2
  <2> QED
    BY <1>4, <1>7, <1>9, <1>10, <2>1, <2>3, ToWritingBack
<1>15. CASE accept /\ c.count = 0
  <2>1. c'.state = "ST_WRITEBACK_WAIT"
    BY <1>1, <1>11, <1>15 DEF NextState, InIdle, Fetching
  <2>2. c'.count = MaxCount
    BY <1>4, <1>12, <1>15
  <2>3. mst'.count = 0
    BY <1>3, <1>9, <1>10, <1>15 DEF MasterMoves
  <2> QED
    BY <1>4, <1>7, <1>9, <1>10, <2>1, <2>2, <2>3, ToWaiting
<1> QED
  BY <1>13, <1>14, <1>15

\* ST_WRITEBACK_WAIT.
LEMMA FromWaiting ==
  ASSUME ~Withdraws, CacheInv, IsASequence(pend), NEW accept, NEW ack, NEW w,
         Turn(accept, ack, w), c.state = "ST_WRITEBACK_WAIT"
  PROVE  Phase'
<1> DEFINE u == MasterInput(w)
           d == dready(w, accept, ack)
<1>1. /\ c'.state = NextState(w, d) /\ c'.count = NextWordCount(w, d)
      /\ accept \in BOOLEAN /\ ack \in BOOLEAN
  BY DEF Turn
<1>2. /\ IsUser(core) /\ IsMaster(mst) /\ c.count \in 0 .. MaxCount /\ InStep(mst, Len(pend))
      /\ ~InIdle /\ ~c.bypass_active
  BY DEF CacheInv, InIdle, Fetching
<1>3. MasterMoves(accept, ack, u)
  BY <1>2, MasterStep DEF Turn
<1>4. /\ c'.count \in 0 .. MaxCount
      /\ c'.count = IF ~Advances(d) THEN c.count ELSE IF c.count = 0 THEN MaxCount ELSE c.count - 1
  BY <1>1, <1>2, CountStep
<1>5. (core.en /\ ~complete_o(w) => core' = core) /\ IsUser(core)'
  BY UserStep
<1>6. MaxCount \in 3 .. 63 /\ WriteThrough \in BOOLEAN /\ (~WriteThrough => ~bypass)
  BY <1>2, Constants
<1>7. ~c'.bypass_active
  BY <1>2, BusyBypass
<1>8. d <=> IF u.we /\ ~Working THEN u.en
            ELSE IF mst.we /\ Working /\ mst.count # 0 THEN accept ELSE mst.dready_rd
  BY <1>1, <1>2, DReadyStep
<1>9. ~WriteThrough /\ c.count = MaxCount
  BY DEF CacheInv, WhileWaiting
<1>10. CASE Working /\ mst.we /\ mst.count = 0
  <2>1. ~mst.complete /\ ~mst.dready_rd
    BY <1>2, <1>10 DEF InStep, Working
  <2>2. ~d
    BY <1>8, <1>10, <2>1
  <2>3. c'.state = "ST_WRITEBACK_WAIT"
    BY <1>1, <2>1 DEF NextState, InIdle, Fetching
  <2>4. c'.count = MaxCount
    BY <1>4, <1>9, <2>2 DEF Advances
  <2>5. mst'.dready_rd = FALSE /\ mst'.count = 0
    BY <1>3, <1>10 DEF MasterMoves
  <2>6. Working' => mst'.we
    BY <1>3, <1>10 DEF MasterMoves
  <2> QED
    BY <1>3, <1>4, <1>7, <1>9, <1>10, <2>3, <2>4, <2>5, <2>6, ToWaiting DEF MasterMoves
<1>11. CASE Ending /\ ~mst.dready_rd
  <2>1. mst.complete /\ ~Working
    BY <1>11 DEF Ending, Working
  <2>2. u.en /\ ~u.we /\ u.burst = MaxCount
    BY <1>2, <1>9, <2>1, AskFacts
  <2>3. c'.state = "ST_FETCH_AFTER_WB"
    BY <1>1, <2>1 DEF NextState, InIdle, Fetching
  <2>4. c'.count = MaxCount
    BY <1>4, <1>9, <2>1 DEF Advances
  <2>5. Working' /\ ~mst'.we /\ ~mst'.dready_rd /\ mst'.count_ack = MaxCount
    BY <1>3, <2>1, <2>2 DEF MasterMoves
  <2>6. c'.count = mst'.count_ack + (IF mst'.dready_rd THEN 1 ELSE 0)
    BY <1>6, <2>4, <2>5
  <2>7. c'.state \in Fetching
    BY <2>3 DEF Fetching
  <2> QED
    BY <1>4, <1>7, <2>5, <2>6, <2>7, ToFetching
<1> QED
  BY <1>10, <1>11 DEF CacheInv, WhileWaiting

\* ST_FETCH and ST_FETCH_AFTER_WB.
LEMMA FromFetching ==
  ASSUME ~Withdraws, CacheInv, IsASequence(pend), NEW accept, NEW ack, NEW w,
         Turn(accept, ack, w), c.state \in Fetching
  PROVE  Phase'
<1> DEFINE u == MasterInput(w)
           d == dready(w, accept, ack)
<1>1. /\ c'.state = NextState(w, d) /\ c'.count = NextWordCount(w, d)
      /\ accept \in BOOLEAN /\ ack \in BOOLEAN
  BY DEF Turn
<1>2. /\ IsUser(core) /\ IsMaster(mst) /\ c.count \in 0 .. MaxCount /\ InStep(mst, Len(pend))
      /\ ~InIdle /\ ~c.bypass_active
  BY DEF CacheInv, InIdle, Fetching
<1>3. MasterMoves(accept, ack, u)
  BY <1>2, MasterStep DEF Turn
<1>4. /\ c'.count \in 0 .. MaxCount
      /\ c'.count = IF ~Advances(d) THEN c.count ELSE IF c.count = 0 THEN MaxCount ELSE c.count - 1
  BY <1>1, <1>2, CountStep
<1>5. (core.en /\ ~complete_o(w) => core' = core) /\ IsUser(core)'
  BY UserStep
<1>6. MaxCount \in 3 .. 63 /\ WriteThrough \in BOOLEAN /\ (~WriteThrough => ~bypass)
  BY <1>2, Constants
<1>7. ~c'.bypass_active
  BY <1>2, BusyBypass
<1>8. d <=> IF u.we /\ ~Working THEN u.en
            ELSE IF mst.we /\ Working /\ mst.count # 0 THEN accept ELSE mst.dready_rd
  BY <1>1, <1>2, DReadyStep
<1>9. NextState(w, d) = IF d /\ c.count = 0 THEN "ST_IDLE" ELSE c.state
  <2>1. CASE c.state = "ST_FETCH"
    BY <2>1 DEF NextState, InIdle, Fetching
  <2>2. CASE c.state = "ST_FETCH_AFTER_WB"
    BY <2>2 DEF NextState, InIdle, Fetching
  <2> QED
    BY <2>1, <2>2 DEF Fetching
<1>10. Advances(d) <=> d
  BY <1>2 DEF Advances, Fetching
<1>11. CASE Working /\ ~mst.we /\ c.count = mst.count_ack + (IF mst.dready_rd THEN 1 ELSE 0)
  <2>1. d <=> mst.dready_rd
    BY <1>8, <1>11
  <2>2. mst.count_ack \in Nat
    BY <1>2 DEF IsMaster
  <2>3. c'.state \in Fetching
    BY <1>1, <1>9, <1>11, <2>1, <2>2
  <2>4. c'.count = mst.count_ack
    <3>1. CASE mst.dready_rd
      BY <3>1, <1>4, <1>10, <1>11, <2>1, <2>2
    <3>2. CASE ~mst.dready_rd
      BY <3>2, <1>4, <1>10, <1>11, <2>1, <2>2
    <3> QED
      BY <3>1, <3>2
  <2>5. mst'.dready_rd = ack
    BY <1>1, <1>3, <1>11 DEF MasterMoves
  <2>6. CASE Ending'
    BY <1>3, <1>4, <1>7, <1>11, <2>3, <2>4, <2>5, <2>6, ToFetching DEF MasterMoves
  <2>7. CASE Working'
    <3>1. ~mst'.we /\ mst'.count_ack = mst.count_ack - One(ack)
      BY <1>3, <1>11, <2>7 DEF MasterMoves
    <3>2. c'.count = mst'.count_ack + (IF mst'.dready_rd THEN 1 ELSE 0)
      BY <1>1, <2>2, <2>4, <2>5, <3>1 DEF One
    <3> QED
      BY <1>4, <1>7, <2>3, <2>7, <3>1, <3>2, ToFetching
  <2> QED
    BY <1>3, <1>11, <2>6, <2>7 DEF MasterMoves
<1>12. CASE Ending /\ mst.dready_rd /\ c.count = 0
  <2>1. mst.complete /\ ~Working
    BY <1>12 DEF Ending, Working
  <2>2. CASE bypass /\ core.we
    <3>1. ~u.en /\ u.we
      BY <1>2, <2>2, AskFacts
    <3>2. ~d
      BY <1>8, <2>1, <3>1
    <3>3. c'.state \in Fetching /\ c'.count = 0
      BY <1>1, <1>4, <1>9, <1>10, <1>12, <3>2
    <3>4. ~complete_o(w)
      BY <1>2, <2>2 DEF complete_o, Turn, en
    <3>5. core' = core /\ core.en
      BY <1>2, <1>5, <2>2, <3>4 DEF IsUser
    <3>6. LastWordMissed'
      BY <2>2, <3>3, <3>5 DEF LastWordMissed, bypass
    <3> QED
      BY <1>3, <1>4, <1>7, <2>1, <3>1, <3>3, <3>6, ToFetching DEF MasterMoves
  <2>3. CASE ~bypass /\ WriteThrough /\ core.we
    <3>1. u.en /\ u.we
      BY <2>3, <1>2, AskFacts
    <3>2. c'.state = "ST_IDLE"
      BY <1>1, <1>8, <1>9, <1>12, <2>1, <3>1
    <3>3. ~complete_o(w)
      BY <1>2, <2>3 DEF complete_o
    <3>4. core' = core /\ core.en
      BY <1>2, <1>5, <2>3, <3>3 DEF IsUser
    <3>5. en' /\ core'.we
      BY <2>3, <3>4 DEF en, bypass
    <3> QED
      BY <1>3, <1>4, <1>7, <2>1, <2>3, <3>1, <3>2, <3>5, ToIdle DEF MasterMoves
  <2>4. CASE ~(bypass /\ core.we) /\ ~(~bypass /\ WriteThrough /\ core.we)
    <3>1. ~u.en /\ ~u.we
      BY <2>4, <1>2, AskFacts
    <3>2. c'.state = "ST_IDLE"
      BY <1>1, <1>8, <1>9, <1>12, <2>1, <3>1
    <3> QED
      BY <1>3, <1>4, <1>7, <2>1, <3>1, <3>2, ToIdle DEF MasterMoves
  <2> QED
    BY <2>2, <2>3, <2>4
<1>13. CASE Resting /\ LastWordMissed
  <2>1. ~Working /\ bypass /\ core.we /\ core.en /\ c.count = 0
    BY <1>13 DEF Resting, Working, LastWordMissed
  <2>2. ~u.en /\ u.we
    BY <1>2, <2>1, AskFacts
  <2>3. ~d
    BY <1>8, <2>1, <2>2
  <2>4. c'.state \in Fetching /\ c'.count = 0
    BY <1>1, <1>4, <1>9, <1>10, <2>1, <2>3
  <2>5. ~complete_o(w)
    BY <1>2, <2>1 DEF complete_o, Turn, en
  <2>6. core' = core
    BY <1>5, <2>1, <2>5
  <2>7. LastWordMissed'
    BY <2>1, <2>4, <2>6 DEF LastWordMissed, bypass
  <2> QED
    BY <1>3, <1>4, <1>7, <2>1, <2>2, <2>4, <2>7, ToFetching DEF MasterMoves
<1> QED
  BY <1>11, <1>12, <1>13 DEF CacheInv, WhileFetching

-----------------------------------------------------------------------------
(* The theorems.                                                           *)

\* The invariant holds at first.
LEMMA InitCounts == Init => CacheInv /\ IsASequence(pend)
<1> SUFFICES ASSUME Init PROVE CacheInv /\ IsASequence(pend)
  OBVIOUS
<1>1. c = CacheReset /\ mst = MasterReset(Junk) /\ pend = <<>> /\ core \in IdleCore
  BY DEF Init
<1>2. IsASequence(pend) /\ Len(pend) = 0
  <2>1. <<>> \in Seq({}) /\ Len(<<>>) = 0
    OBVIOUS
  <2> QED
    BY <1>1, <2>1 DEF IsASequence
<1>3. /\ c.state = "ST_IDLE" /\ c.count = 0 /\ c.bypass_active = FALSE
      /\ c.tag_init_complete = FALSE
  BY <1>1 DEF CacheReset
<1>4. mst.state = "ST_IDLE" /\ mst.complete = FALSE /\ mst.stb = FALSE /\ mst.we = FALSE
  BY <1>1 DEF MasterReset
<1>5. IsMaster(mst)
  BY <1>1 DEF MasterReset, IsMaster, CountValues
<1>6. InStep(mst, Len(pend))
  BY <1>1, <1>2 DEF InStep, MasterReset
<1>7. IsUser(core) /\ ~core.en
  <2>1. PICK a \in Reads : core = [en |-> FALSE, we |-> FALSE, addr |-> a, din |-> Junk]
    BY <1>1, Zenon DEF IdleCore
  <2>2. core.en = FALSE /\ core.we = FALSE /\ core.addr = a
    BY <2>1
  <2> QED
    BY <2>2 DEF IsUser
<1>8. 0 \in 0 .. MaxCount
  BY Constants
<1> QED
  BY <1>2, <1>3, <1>4, <1>5, <1>6, <1>7, <1>8
  DEF CacheInv, CacheStates, InIdle, Fetching, Resting, WhileIdle, WhileWriting,
      WhileStarting, WhileWritingBack, WhileWaiting, WhileFetching

\* And is kept by every cycle.
LEMMA TurnCounts ==
  ASSUME ~Withdraws, CacheInv, IsASequence(pend), NEW accept, NEW ack, NEW w,
         Turn(accept, ack, w)
  PROVE  CacheInv' /\ IsASequence(pend)'
<1>1. MasterMoves(accept, ack, MasterInput(w))
  BY MasterStep DEF Turn, CacheInv
<1>2. /\ c'.tag_init_complete \in BOOLEAN /\ c'.bypass_active \in BOOLEAN
      /\ IsUser(core)' /\ (core'.en => c'.tag_init_complete)
  BY UserStep
<1>3. Phase'
  <2>1. c.state \in CacheStates
    BY DEF CacheInv
  <2> QED
    BY <2>1, FromIdle, FromWriting, FromStarting, FromWritingBack, FromWaiting, FromFetching
    DEF CacheStates, InIdle
<1> QED
  BY <1>1, <1>2, <1>3 DEF CacheInv, Phase, MasterMoves

\* A step that changes nothing keeps it.
LEMMA CountsUnchanged ==
  ASSUME CacheInv, IsASequence(pend), UNCHANGED vars
  PROVE  CacheInv' /\ IsASequence(pend)'
<1>1. c' = c /\ mst' = mst /\ core' = core /\ pend' = pend
  BY DEF vars
<1> QED
  BY <1>1 DEF CacheInv, IsASequence, InIdle, Working, Resting, Ending, WhileIdle, WhileWriting,
     WhileStarting, WhileWritingBack, WhileWaiting, WhileFetching, LastWordMissed, bypass, en

\* Cache and wb_master stay in step, if the user takes back no read.
THEOREM CountsInductive == ~Withdraws => (Spec => [](CacheInv /\ IsASequence(pend)))
<1> SUFFICES ASSUME ~Withdraws PROVE Spec => [](CacheInv /\ IsASequence(pend))
  OBVIOUS
<1> DEFINE Inv == CacheInv /\ IsASequence(pend)
<1>1. Init => Inv
  BY InitCounts
<1>2. Inv /\ [Next]_vars => Inv'
  <2> SUFFICES ASSUME Inv, [Next]_vars PROVE Inv'
    OBVIOUS
  <2>1. CASE Next
    BY <2>1, NextTurns, TurnCounts
  <2>2. CASE UNCHANGED vars
    BY <2>2, CountsUnchanged
  <2> QED
    BY <2>1, <2>2
<1> QED
  BY <1>1, <1>2, PTL DEF Spec

\* The two assertions of wb_cache.vhd (lines 197 and 259) never fail, and a
\* fetch has words to come but for the one case named: whatever the sizes, the
\* mode, and the stalls of the memory.
THEOREM CountsKept == ~Withdraws => (Spec => []CountsAgree)
<1> SUFFICES ASSUME ~Withdraws PROVE Spec => []CountsAgree
  OBVIOUS
<1>1. CacheInv => CountsAgree
  <2> SUFFICES ASSUME CacheInv PROVE CountsAgree
    OBVIOUS
  <2>1. c.state = "ST_WRITEBACK_PRE" => mst.state = "ST_IDLE"
    BY DEF CacheInv, WhileStarting, Resting
  <2>2. ASSUME c.state \in Fetching, mst.dready_rd
        PROVE  c.count = 0 <=> mst.complete
    <3>1. CASE Working /\ ~mst.we /\ c.count = mst.count_ack + (IF mst.dready_rd THEN 1 ELSE 0)
      <4>1. ~mst.complete
        BY <3>1 DEF CacheInv, InStep, Working
      <4>2. mst.count_ack \in Nat
        BY DEF CacheInv, IsMaster
      <4>3. c.count # 0
        BY <2>2, <3>1, <4>2
      <4> QED
        BY <4>1, <4>3
    <3>2. CASE Ending /\ mst.dready_rd /\ c.count = 0
      BY <3>2 DEF Ending
    <3>3. CASE Resting /\ LastWordMissed
      BY <2>2, <3>3 DEF Resting, CacheInv, InStep
    <3> QED
      BY <2>2, <3>1, <3>2, <3>3 DEF CacheInv, WhileFetching
  <2>3. c.state \in Fetching => mst.state = "ST_PENDING" \/ mst.complete \/ LastWordMissed
    BY DEF CacheInv, WhileFetching, Working, Ending
  <2> QED
    BY <2>1, <2>2, <2>3 DEF CountsAgree
<1> QED
  BY <1>1, CountsInductive, PTL

-----------------------------------------------------------------------------
(***************************************************************************)
(* Proofs about the data of WbCache in the mode of the second level: write *)
(* back, no bypass, and a user that takes back no read.  For every line    *)
(* size, number of lines and menu of requests a read returns the last      *)
(* value written (ReadsAreCurrent), and no write is lost (NoWriteIsLost).  *)
(*                                                                         *)
(* The inductive invariant DataInv says for every word where its newest    *)
(* version is: in the cache (Sits), in the memory, or in a line that is    *)
(* being written back (ToWrite).  The rest of it is what keeps this true   *)
(* while a transfer goes on: whose tag and whose word is written at the    *)
(* next edge, which word of the line mem1_addr is at, and which word of it *)
(* is on the bus or owed by the memory.                                    *)
(***************************************************************************)

-----------------------------------------------------------------------------
(* Addresses: lines, words, and the words of a line as a transfer that     *)
(* starts at the address a takes them.                                     *)

\* The word of line at the distance p from that of a, and the distance of b.
Around(a, line, p) == (line * WordsPerLine) + ((WordOf(a) + p) % WordsPerLine)
Ahead(a, b) ==
  IF WordOf(b) >= WordOf(a) THEN WordOf(b) - WordOf(a)
                            ELSE WordOf(b) + WordsPerLine - WordOf(a)

Sizes == {2, 4, 8, 16, 32, 64, 128, 256, 512, 1024, 2048, 4096}

\* The constants as the lemmas on addresses use them.
LEMMA SizeFacts ==
  /\ NumberOfLines \in Sizes /\ WordsPerLine \in {4, 8, 16, 32, 64}
  /\ MaxCount = WordsPerLine - 1 /\ NumberOfLines \in Nat \ {0}
  /\ Indices = 0 .. NumberOfLines - 1
BY WbCacheAssumption DEF WbCacheAssumption, Sizes, MaxCount, Indices

\* An address is a line and a word of it.
LEMMA AddressParts ==
  ASSUME NEW a \in Nat
  PROVE  /\ LineOf(a) \in Nat /\ WordOf(a) \in 0 .. MaxCount
         /\ a = LineOf(a) * WordsPerLine + WordOf(a)
<1>1. \A n \in {4, 8, 16, 32, 64} :
        a \div n \in Nat /\ a % n \in 0 .. n - 1 /\ a = ((a \div n) * n) + (a % n)
  OBVIOUS
<1> QED
  BY <1>1, SizeFacts DEF LineOf, WordOf

\* And conversely.
LEMMA FromParts ==
  ASSUME NEW line \in Nat, NEW word \in 0 .. MaxCount
  PROVE  /\ line * WordsPerLine + word \in Nat
         /\ LineOf(line * WordsPerLine + word) = line
         /\ WordOf(line * WordsPerLine + word) = word
<1>1. \A n \in {4, 8, 16, 32, 64} : word \in 0 .. n - 1 =>
        /\ line * n + word \in Nat
        /\ (line * n + word) \div n = line /\ (line * n + word) % n = word
  OBVIOUS
<1> QED
  BY <1>1, SizeFacts DEF LineOf, WordOf

\* The index of a line is one of the cache's.
LEMMA IndexFacts ==
  ASSUME NEW a \in Nat
  PROVE  /\ IndexOf(a) \in Indices
         /\ IndexOf(a) = LineOf(a) % NumberOfLines
<1>1. \A n \in Nat \ {0}, l \in Nat : l % n \in 0 .. n - 1
  OBVIOUS
<1> QED
  BY <1>1, AddressParts, SizeFacts DEF IndexOf

\* A cell of the word RAM is an index and a word.
LEMMA CellParts ==
  ASSUME NEW a \in Nat
  PROVE  CellOf(a) = IndexOf(a) * WordsPerLine + WordOf(a)
<1>1. LineOf(a) \in Nat /\ WordOf(a) \in 0 .. MaxCount /\ a = LineOf(a) * WordsPerLine + WordOf(a)
  BY AddressParts
<1>2. \A n \in Sizes : \A l \in Nat : \E q \in Nat, i \in 0 .. n - 1 : l = n * q + i /\ l % n = i
  BY DEF Sizes
<1>3. PICK q \in Nat, i \in 0 .. NumberOfLines - 1 :
        LineOf(a) = NumberOfLines * q + i /\ LineOf(a) % NumberOfLines = i
  BY <1>1, <1>2, SizeFacts
<1> DEFINE r == WordOf(a)
           l == LineOf(a)
<1> HIDE DEF r, l
<1>4. a = l * WordsPerLine + r /\ l = NumberOfLines * q + i /\ r \in 0 .. WordsPerLine - 1 /\ l \in Nat
  BY <1>1, <1>3, SizeFacts DEF r, l
<1>5. NumberOfLines \in Sizes /\ WordsPerLine \in {4, 8, 16, 32, 64}
  BY SizeFacts
<1>6. a % (NumberOfLines * WordsPerLine) = i * WordsPerLine + r
  <2>1. CASE WordsPerLine = 4
    BY <2>1, <1>4, <1>5, SMTT(60) DEF Sizes
  <2>2. CASE WordsPerLine = 8
    BY <2>2, <1>4, <1>5, SMTT(60) DEF Sizes
  <2>3. CASE WordsPerLine = 16
    BY <2>3, <1>4, <1>5, SMTT(60) DEF Sizes
  <2>4. CASE WordsPerLine = 32
    BY <2>4, <1>4, <1>5, SMTT(60) DEF Sizes
  <2>5. CASE WordsPerLine = 64
    BY <2>5, <1>4, <1>5, SMTT(60) DEF Sizes
  <2> QED
    BY <1>5, <2>1, <2>2, <2>3, <2>4, <2>5
<1>7. IndexOf(a) = i
  BY <1>3, IndexFacts
<1> QED
  BY <1>6, <1>7 DEF CellOf, r

\* Two addresses with one cell, one index, one line.
LEMMA SameCell ==
  ASSUME NEW a \in Nat, NEW b \in Nat
  PROVE  /\ CellOf(a) = CellOf(b) <=> IndexOf(a) = IndexOf(b) /\ WordOf(a) = WordOf(b)
         /\ LineOf(a) = LineOf(b) /\ WordOf(a) = WordOf(b) => a = b
         /\ LineOf(a) = LineOf(b) => IndexOf(a) = IndexOf(b)
<1>1. /\ CellOf(a) = IndexOf(a) * WordsPerLine + WordOf(a)
      /\ CellOf(b) = IndexOf(b) * WordsPerLine + WordOf(b)
  BY CellParts
<1>2. /\ WordOf(a) \in 0 .. MaxCount /\ WordOf(b) \in 0 .. MaxCount
      /\ a = LineOf(a) * WordsPerLine + WordOf(a) /\ b = LineOf(b) * WordsPerLine + WordOf(b)
  BY AddressParts
<1>3. IndexOf(a) \in Nat /\ IndexOf(b) \in Nat
  BY IndexFacts, SizeFacts
<1>4. \A n \in {4, 8, 16, 32, 64} : \A i, j \in Nat, x, y \in 0 .. n - 1 :
        i * n + x = j * n + y => i = j /\ x = y
  OBVIOUS
<1>5. CellOf(a) = CellOf(b) => IndexOf(a) = IndexOf(b) /\ WordOf(a) = WordOf(b)
  BY <1>1, <1>2, <1>3, <1>4, SizeFacts
<1> QED
  BY <1>1, <1>2, <1>5 DEF IndexOf

\* A cell is one of the word RAM's, at the word of the address.
LEMMA CellFacts ==
  ASSUME NEW a \in Nat
  PROVE  CellOf(a) \in CellNos /\ CellOf(a) \in Nat /\ WordOf(CellOf(a)) = WordOf(a)
<1>1. CellOf(a) = IndexOf(a) * WordsPerLine + WordOf(a) /\ WordOf(a) \in 0 .. MaxCount
  BY CellParts, AddressParts
<1>2. IndexOf(a) \in 0 .. NumberOfLines - 1
  BY IndexFacts, SizeFacts
<1>3. \A n \in {4, 8, 16, 32, 64} : \A m \in Nat \ {0} : \A i \in 0 .. m - 1, x \in 0 .. n - 1 :
        i * n + x \in 0 .. (m * n) - 1
  OBVIOUS
<1>4. CellOf(a) \in 0 .. (NumberOfLines * WordsPerLine) - 1
  BY <1>1, <1>2, <1>3, SizeFacts
<1>5. WordOf(CellOf(a)) = WordOf(a)
  BY <1>1, <1>2, FromParts, SizeFacts
<1> QED
  BY <1>4, <1>5 DEF CellNos

\* Remainders by the number of words in a line.
LEMMA SumRemainder ==
  ASSUME NEW x \in 0 .. MaxCount, NEW y \in 0 .. MaxCount
  PROVE  /\ (x + y) % WordsPerLine \in 0 .. MaxCount
         /\ (x + y) % WordsPerLine >= x => ((x + y) % WordsPerLine) - x = y
         /\ ~((x + y) % WordsPerLine >= x) => ((x + y) % WordsPerLine) + WordsPerLine - x = y
<1>1. WordsPerLine \in {4, 8, 16, 32, 64} /\ MaxCount = WordsPerLine - 1
  BY SizeFacts
<1> QED
  BY <1>1

\* The distance from one word of a line to another, around.
LEMMA GapRemainder ==
  ASSUME NEW x \in 0 .. MaxCount, NEW y \in 0 .. MaxCount
  PROVE  /\ y >= x => y - x \in 0 .. MaxCount /\ (x + (y - x)) % WordsPerLine = y
         /\ ~(y >= x) => /\ y + WordsPerLine - x \in 1 .. MaxCount
                        /\ (x + (y + WordsPerLine - x)) % WordsPerLine = y
<1>1. WordsPerLine \in {4, 8, 16, 32, 64} /\ MaxCount = WordsPerLine - 1
  BY SizeFacts
<1> QED
  BY <1>1

\* One word further, and once around.
LEMMA NextRemainder ==
  ASSUME NEW x \in Nat, NEW y \in Nat
  PROVE  /\ (((x + y) % WordsPerLine) + 1) % WordsPerLine = (x + (y + 1)) % WordsPerLine
         /\ (x + (y + WordsPerLine)) % WordsPerLine = (x + y) % WordsPerLine
<1>1. WordsPerLine \in {4, 8, 16, 32, 64} /\ MaxCount = WordsPerLine - 1
  BY SizeFacts
<1> QED
  BY <1>1

\* Around or not: the next word of a transfer.
LEMMA StepRemainder ==
  ASSUME NEW x \in 0 .. MaxCount, NEW y \in 0 .. MaxCount
  PROVE  /\ (x + y) % WordsPerLine = x + y \/ (x + y) % WordsPerLine = x + y - WordsPerLine
         /\ (x + y) % WordsPerLine = MaxCount => (x + (y + 1)) % WordsPerLine = 0
         /\ (x + y) % WordsPerLine # MaxCount => (x + (y + 1)) % WordsPerLine = ((x + y) % WordsPerLine) + 1
<1>1. WordsPerLine \in {4, 8, 16, 32, 64} /\ MaxCount = WordsPerLine - 1
  BY SizeFacts
<1> QED
  BY <1>1

\* The number of a word, and of the next.
LEMMA WordRemainder ==
  ASSUME NEW x \in Nat
  PROVE  /\ x % WordsPerLine \in 0 .. MaxCount
         /\ (x + 1) % WordsPerLine = ((x % WordsPerLine) + 1) % WordsPerLine
<1>1. WordsPerLine \in {4, 8, 16, 32, 64} /\ MaxCount = WordsPerLine - 1
  BY SizeFacts
<1> QED
  BY <1>1

\* Remainders by the number of lines.
LEMMA LineRemainder ==
  ASSUME NEW n \in {2, 4, 8, 16, 32, 64, 128, 256, 512, 1024, 2048, 4096},
         NEW x \in Nat, NEW y \in Nat, x % n = y % n
  PROVE  (x - y) % n = 0
OBVIOUS

\* What is a multiple of the number of lines is one of a part of it.
LEMMA PartRemainder ==
  ASSUME NEW d \in Int, d % NumberOfLines = 0, NumberOfLines > WordsPerLine
  PROVE  d % (NumberOfLines \div WordsPerLine) = 0
<1>1. /\ NumberOfLines \in {2, 4, 8, 16, 32, 64, 128, 256, 512, 1024, 2048, 4096}
      /\ WordsPerLine \in {4, 8, 16, 32, 64}
  BY WbCacheAssumption DEF WbCacheAssumption
<1>2. CASE WordsPerLine = 4
  BY <1>1, <1>2
<1>3. CASE WordsPerLine = 8
  BY <1>1, <1>3
<1>4. CASE WordsPerLine = 16
  BY <1>1, <1>4
<1>5. CASE WordsPerLine = 32
  BY <1>1, <1>5
<1>6. CASE WordsPerLine = 64
  BY <1>1, <1>6
<1> QED
  BY <1>1, <1>2, <1>3, <1>4, <1>5, <1>6

\* A line has four words at least.
LEMMA MaxFacts == MaxCount \in Nat /\ WordsPerLine \in Nat /\ WordsPerLine = MaxCount + 1 /\ MaxCount > 2
<1>1. MaxCount \in 3 .. 63 /\ WordsPerLine = MaxCount + 1
  BY WbCacheAssumption DEF WbCacheAssumption, MaxCount
<1> QED
  BY <1>1

\* The words around a line.
LEMMA AroundFacts ==
  ASSUME NEW a \in Nat, NEW line \in Nat, NEW p \in Nat
  PROVE  /\ Around(a, line, p) \in Nat
         /\ LineOf(Around(a, line, p)) = line
         /\ WordOf(Around(a, line, p)) = (WordOf(a) + p) % WordsPerLine
         /\ IndexOf(Around(a, line, p)) = line % NumberOfLines
<1>1. WordOf(a) \in 0 .. MaxCount
  BY AddressParts
<1>2. WordOf(a) + p \in Nat
  BY <1>1, MaxFacts
<1>3. (WordOf(a) + p) % WordsPerLine \in 0 .. MaxCount
  BY <1>2, WordRemainder, Zenon
<1> QED
  BY <1>3, FromParts DEF Around, IndexOf

\* Distances.
LEMMA AheadFacts ==
  ASSUME NEW a \in Nat, NEW b \in Nat
  PROVE  /\ Ahead(a, b) \in 0 .. MaxCount
         /\ Around(a, LineOf(b), Ahead(a, b)) = b
         /\ Ahead(a, a) = 0
         /\ Ahead(a, b) = 0 /\ LineOf(a) = LineOf(b) => a = b
<1>1. WordOf(a) \in 0 .. MaxCount /\ WordOf(b) \in 0 .. MaxCount
  BY AddressParts
<1>2. b = LineOf(b) * WordsPerLine + WordOf(b)
  BY AddressParts
<1> DEFINE x == WordOf(a)
           y == WordOf(b)
<1>3. /\ y >= x => y - x \in 0 .. MaxCount /\ (x + (y - x)) % WordsPerLine = y
      /\ ~(y >= x) => /\ y + WordsPerLine - x \in 1 .. MaxCount
                      /\ (x + (y + WordsPerLine - x)) % WordsPerLine = y
  BY <1>1, GapRemainder, Zenon
<1>4. Ahead(a, b) \in 0 .. MaxCount /\ (WordOf(a) + Ahead(a, b)) % WordsPerLine = WordOf(b)
  <2>1. CASE y >= x
    <3>1. Ahead(a, b) = y - x
      BY <2>1 DEF Ahead
    <3> QED
      BY <1>3, <2>1, <3>1, Zenon
  <2>2. CASE ~(y >= x)
    <3>1. Ahead(a, b) = y + WordsPerLine - x
      BY <2>2 DEF Ahead
    <3>2. y + WordsPerLine - x \in 0 .. MaxCount
      BY <1>3, <2>2, MaxFacts
    <3> QED
      BY <1>3, <2>2, <3>1, <3>2, Zenon
  <2> QED
    BY <2>1, <2>2
<1>5. Ahead(a, b) = 0 => WordOf(a) = WordOf(b)
  BY <1>1, MaxFacts DEF Ahead
<1>6. Ahead(a, a) = 0
  BY <1>1, MaxFacts DEF Ahead
<1> QED
  BY <1>2, <1>4, <1>5, <1>6, SameCell DEF Around

\* The distance of the word at a distance.
LEMMA AheadOf ==
  ASSUME NEW a \in Nat, NEW line \in Nat, NEW p \in 0 .. MaxCount
  PROVE  Ahead(a, Around(a, line, p)) = p
<1>1. WordOf(a) \in 0 .. MaxCount
  BY AddressParts
<1>2. p \in Nat
  BY MaxFacts
<1>3. WordOf(Around(a, line, p)) = (WordOf(a) + p) % WordsPerLine
  BY <1>2, AroundFacts
<1> DEFINE x == WordOf(a)
           z == (x + p) % WordsPerLine
<1>4. z >= x => z - x = p
  BY <1>1, SumRemainder, Zenon
<1>5. ~(z >= x) => z + WordsPerLine - x = p
  BY <1>1, SumRemainder, Zenon
<1>6. Ahead(a, Around(a, line, p)) = IF z >= x THEN z - x ELSE z + WordsPerLine - x
  BY <1>3, Zenon DEF Ahead
<1> QED
  BY <1>4, <1>5, <1>6, Zenon

\* The next word of a line, in memory and in the RAM; after the last word comes
\* the first.
LEMMA NextAround ==
  ASSUME NEW a \in Nat, NEW line \in Nat, NEW p \in Nat
  PROVE  /\ WrapNext(Around(a, line, p), MaxCount) = Around(a, line, p + 1)
         /\ WrapNext(CellOf(Around(a, line, p)), MaxCount) = CellOf(Around(a, line, p + 1))
         /\ Around(a, line, p + WordsPerLine) = Around(a, line, p)
<1> DEFINE r == WordOf(a)
           x == Around(a, line, p)
           y == Around(a, line, p + 1)
<1>1. r \in Nat
  BY AddressParts, MaxFacts
<1>3. /\ x \in Nat /\ LineOf(x) = line /\ WordOf(x) = (r + p) % WordsPerLine
      /\ y \in Nat /\ LineOf(y) = line /\ WordOf(y) = (r + (p + 1)) % WordsPerLine
      /\ IndexOf(x) = IndexOf(y)
  <2>1. p + 1 \in Nat
    OBVIOUS
  <2> QED
    BY <2>1, AroundFacts
<1>4. y = line * WordsPerLine + WordOf(y)
  BY <1>3, AddressParts
<1> HIDE DEF x, y, r
<1>5. (WordOf(x) + 1) % WordsPerLine = WordOf(y)
  BY <1>1, <1>3, NextRemainder, Zenon
<1>6. \A z \in Nat : WrapNext(z, MaxCount) = LineOf(z) * WordsPerLine + ((WordOf(z) + 1) % WordsPerLine)
  <2> TAKE z \in Nat
  <2>1. MaxCount + 1 = WordsPerLine
    BY MaxFacts
  <2>2. (z + 1) % WordsPerLine = ((z % WordsPerLine) + 1) % WordsPerLine
    BY WordRemainder
  <2> QED
    BY <2>1, <2>2, Zenon DEF WrapNext, LineOf, WordOf
<1>7. WrapNext(x, MaxCount) = y
  BY <1>3, <1>4, <1>5, <1>6
<1>8. /\ CellOf(x) = IndexOf(x) * WordsPerLine + WordOf(x) /\ CellOf(y) = IndexOf(y) * WordsPerLine + WordOf(y)
      /\ WordOf(x) \in 0 .. MaxCount /\ WordOf(y) \in 0 .. MaxCount /\ IndexOf(x) \in Nat
  BY <1>3, CellParts, AddressParts, IndexFacts, SizeFacts
<1>9. CellOf(x) \in Nat /\ LineOf(CellOf(x)) = IndexOf(x) /\ WordOf(CellOf(x)) = WordOf(x)
  BY <1>8, FromParts
<1>10. WrapNext(CellOf(x), MaxCount) = CellOf(y)
  BY <1>3, <1>5, <1>6, <1>8, <1>9
<1>11. Around(a, line, p + WordsPerLine) = Around(a, line, p)
  BY <1>1, NextRemainder, Zenon DEF Around, r
<1> QED
  BY <1>7, <1>10, <1>11 DEF x, y

\* Lines of one index have their words in the same cells.
LEMMA AroundCell ==
  ASSUME NEW a \in Nat, NEW line \in Nat, NEW other \in Nat, NEW p \in Nat,
         line % NumberOfLines = other % NumberOfLines
  PROVE  CellOf(Around(a, line, p)) = CellOf(Around(a, other, p))
BY AroundFacts, SameCell

\* Two words of the lines of one index are in one cell only at one distance.
LEMMA AheadCell ==
  ASSUME NEW a \in Nat, NEW line \in Nat, NEW p \in 0 .. MaxCount, NEW b \in Nat,
         CellOf(b) = CellOf(Around(a, line, p))
  PROVE  Ahead(a, b) = p /\ IndexOf(b) = line % NumberOfLines
<1>1. p \in Nat
  BY SizeFacts
<1> DEFINE x == Around(a, line, p)
<1>2. x \in Nat /\ IndexOf(x) = line % NumberOfLines
  BY <1>1, AroundFacts
<1>3. Ahead(a, x) = p
  BY AheadOf
<1>4. WordOf(b) = WordOf(x) /\ IndexOf(b) = IndexOf(x)
  BY <1>2, SameCell
<1> QED
  BY <1>2, <1>3, <1>4 DEF Ahead

\* The place of a word in the transfer.
LEMMA PlaceOf ==
  ASSUME NEW a \in Nat, NEW b \in Nat
  PROVE  Position(WordOf(a) > WordOf(b), b) = WordOf(a) + Ahead(a, b)
<1>1. WordOf(a) \in 0 .. MaxCount /\ WordOf(b) \in 0 .. MaxCount
  BY AddressParts
<1>2. CASE WordOf(a) > WordOf(b)
  BY <1>1, <1>2, MaxFacts DEF Position, Ahead
<1>3. CASE ~(WordOf(a) > WordOf(b))
  BY <1>1, <1>3, MaxFacts DEF Position, Ahead
<1> QED
  BY <1>2, <1>3

\* mem1_ov: the place of the transfer moves on with its address.
LEMMA NextPlace ==
  ASSUME NEW a \in Nat, NEW line \in Nat, NEW p \in 0 .. MaxCount, NEW ov \in BOOLEAN,
         p < MaxCount,
         Position(ov, CellOf(Around(a, line, p))) = WordOf(a) + p
  PROVE  Position(ov \/ WordOf(CellOf(Around(a, line, p))) = MaxCount,
                  CellOf(Around(a, line, p + 1))) = WordOf(a) + (p + 1)
<1> DEFINE x == Around(a, line, p)
           y == Around(a, line, p + 1)
           r == WordOf(a)
<1>1. r \in 0 .. MaxCount /\ p \in Nat /\ p + 1 \in Nat
  BY AddressParts, MaxFacts
<1>2. x \in Nat /\ WordOf(x) = (r + p) % WordsPerLine /\ y \in Nat /\ WordOf(y) = (r + (p + 1)) % WordsPerLine
  BY <1>1, AroundFacts
<1>3. WordOf(CellOf(x)) = WordOf(x) /\ WordOf(CellOf(y)) = WordOf(y)
  BY <1>2, CellFacts
<1> HIDE DEF x, y, r
<1>4. /\ (r + p) % WordsPerLine = r + p \/ (r + p) % WordsPerLine = r + p - WordsPerLine
      /\ (r + p) % WordsPerLine = MaxCount => (r + (p + 1)) % WordsPerLine = 0
      /\ (r + p) % WordsPerLine # MaxCount =>
           (r + (p + 1)) % WordsPerLine = ((r + p) % WordsPerLine) + 1
  BY <1>1, StepRemainder, Zenon
<1>5. Position(ov, CellOf(x)) = (IF ov THEN WordsPerLine ELSE 0) + ((r + p) % WordsPerLine)
  BY <1>2, <1>3 DEF Position
<1>6. Position(ov, CellOf(x)) = r + p
  BY DEF x, r
<1>7. CASE WordOf(x) = MaxCount
  <2>1. ~ov /\ r + p = MaxCount
    BY <1>1, <1>2, <1>4, <1>5, <1>6, <1>7, MaxFacts
  <2>2. WordOf(y) = 0
    BY <1>1, <1>2, <1>4, <1>7, MaxFacts
  <2>3. Position(TRUE, CellOf(y)) = WordsPerLine
    BY <1>3, <2>2, MaxFacts DEF Position
  <2>4. r + (p + 1) = WordsPerLine
    BY <1>1, <2>1, MaxFacts
  <2>5. (ov \/ WordOf(CellOf(x)) = MaxCount) = TRUE
    BY <1>3, <1>7
  <2> QED
    BY <2>3, <2>4, <2>5, Zenon DEF x, y, r
<1>8. CASE WordOf(x) # MaxCount
  <2>1. WordOf(y) = WordOf(x) + 1
    BY <1>1, <1>2, <1>4, <1>8, MaxFacts
  <2>2. PICK m \in 0 .. MaxCount : m = WordOf(x)
    BY <1>2, AddressParts
  <2>3. (IF ov THEN WordsPerLine ELSE 0) + m = r + p
    BY <1>3, <1>6, <2>2, Zenon DEF Position
  <2>4. (IF ov THEN WordsPerLine ELSE 0) + (m + 1) = r + (p + 1)
    BY <1>1, <2>3, MaxFacts
  <2>5. Position(ov, CellOf(y)) = r + (p + 1)
    BY <1>3, <2>1, <2>2, <2>4, Zenon DEF Position
  <2>6. (ov \/ WordOf(CellOf(x)) = MaxCount) = ov
    BY <1>3, <1>8
  <2> QED
    BY <2>5, <2>6, Zenon DEF x, y, r
<1> QED
  BY <1>7, <1>8

\* Lines of one index differ by a multiple of the number of lines.
LEMMA ConflictOfIndex ==
  ASSUME NEW a \in Nat, NEW b \in Nat, IndexOf(a) = IndexOf(b), NumberOfLines > WordsPerLine
  PROVE  (LineOf(a) - LineOf(b)) % (NumberOfLines \div WordsPerLine) = 0
<1> DEFINE l == LineOf(a)
           k == LineOf(b)
<1>1. l \in Nat /\ k \in Nat /\ l % NumberOfLines = k % NumberOfLines
  BY AddressParts DEF IndexOf
<1> HIDE DEF l, k
<1>2. (l - k) % NumberOfLines = 0
  BY <1>1, LineRemainder, SizeFacts DEF Sizes
<1>3. (l - k) % (NumberOfLines \div WordsPerLine) = 0
  BY <1>1, <1>2, PartRemainder
<1> QED
  BY <1>3 DEF l, k

-----------------------------------------------------------------------------
(* What the cache without write through (and without a user that takes     *)
(* back its reads) knows of its data.                                      *)

Gone    == MaxCount - c.count     \* words of the transfer that are done
MyLine  == LineOf(c.active)
MyIndex == IndexOf(c.active)

\* The two RAMs with what is written at the next edge.
TagAfter(i) ==
  IF c.tag_we /\ i = IndexOf(core.addr) THEN c.tag_out
  ELSE IF c.tag1_we /\ i = c.tag1_index THEN c.tag1_out ELSE tags[i]
WordAfter(x) ==
  IF c.mem_write_en /\ x = CellOf(core.addr) THEN c.mem_din
  ELSE IF c.mem1_write_en /\ x = c.mem1_addr THEN c.mem_din ELSE words[x]

IsFor(t, a) == t.valid /\ t.line = LineOf(a)
Tagged(a)   == IsFor(tags[IndexOf(a)], a)
Held(a)     == IsFor(TagAfter(IndexOf(a)), a)
MarkedDirty(a) == TagAfter(IndexOf(a)).dirty

Writing(a) == core.en /\ core.we /\ core.addr = a
Asking     == core.en /\ core.addr = c.active

WritingBack == {"ST_WRITEBACK_PRE", "ST_WRITEBACK", "ST_WRITEBACK_WAIT"}
Untagged    == c.state = "ST_FETCH" /\ c.count = MaxCount
Busy        == mst.state = "ST_PENDING"
Owed        == IF mst.dready_rd THEN 1 ELSE 0

\* The user is about to write a word that the cache has a place for.
Late ==
  \/ c.mem_write_en \/ (c.mem1_write_en /\ c.pending_1d)
  \/ c.state \in WritingBack \/ (c.state \in Fetching /\ Gone <= 2)
Good(a) == WordAfter(CellOf(a)) = Newest(a) \/ (Writing(a) /\ Late)

\* The word is in the cache, and it may be there only.
Arrived(a) == (c.state \in Fetching /\ Ahead(c.active, a) < Gone) \/ (a = c.active /\ c.ignore = 1)
Sits(a)    == Held(a) /\ (InIdle \/ IndexOf(a) # MyIndex \/ Arrived(a))

\* The line that is written back, and the words of it that memory lacks.
Victim    == IF c.state = "ST_WRITEBACK_PRE" THEN tags[MyIndex].line ELSE LineOf(mst.adr)
HasVictim == c.state \in {"ST_WRITEBACK_PRE", "ST_WRITEBACK"} \/ (c.state = "ST_WRITEBACK_WAIT" /\ Busy)
ToWrite(a) ==
  /\ HasVictim /\ LineOf(a) = Victim
  /\ \/ c.state = "ST_WRITEBACK_PRE"
     \/ c.state = "ST_WRITEBACK" /\ Ahead(c.active, a) >= Gone
     \/ mst.stb /\ mst.adr = a

\* Where the newest version of a word is.
EveryWord ==
  c.tag_init_complete => \A a \in Addrs :
    /\ Sits(a) => Good(a)
    /\ mem[a] = Newest(a) \/ (Sits(a) /\ MarkedDirty(a)) \/ ToWrite(a)

IsTag(t) ==
  /\ t = [line |-> t.line, dirty |-> t.dirty, valid |-> t.valid]
  /\ t.dirty \in BOOLEAN /\ t.valid \in BOOLEAN

Shapes ==
  /\ core.we => /\ core.addr \in Writes
                /\ \E version \in Versions(core.addr) : core.din = Value(core.addr, version)
  /\ c.tag_we \in BOOLEAN /\ c.tag1_we \in BOOLEAN /\ c.mem1_ov \in BOOLEAN
  /\ c.mem_write_en \in BOOLEAN /\ c.mem1_write_en \in BOOLEAN /\ c.pending_1d \in BOOLEAN
  /\ c.tag1_index \in Indices /\ IsTag(c.tag_out) /\ IsTag(c.tag1_out)
  /\ tags = [i \in Indices |-> tags[i]] /\ \A i \in Indices : IsTag(tags[i])
  /\ words = [x \in CellNos |-> words[x]] /\ mem = [a \in Addrs |-> mem[a]]

\* After reset the tags are cleared one by one.
TagsClear ==
  ~c.tag_init_complete =>
    /\ InIdle /\ c.tag1_we /\ c.tag1_out = NoTag /\ ~c.tag_we /\ ~c.mem_write_en /\ ~c.mem1_write_en
    /\ \A i \in Indices : i < c.tag1_index => tags[i] = NoTag
    /\ \A a \in Addrs : mem[a] = Newest(a)

TagsFit ==
  c.tag_init_complete => \A i \in Indices :
    /\ tags[i].valid => tags[i].line \in Lines /\ tags[i].line % NumberOfLines = i
    /\ tags[i].dirty => tags[i].valid

\* What is written at the next edge: a word of the user's while nothing is
\* fetched,
Port1Fits ==
  c.mem1_write_en =>
    /\ InIdle /\ ~c.mem_write_en /\ c.mem1_addr = CellOf(c.active) /\ c.active \in Writes
    /\ c.pending_1d => Asking /\ core.we
    /\ IsFor(tags[MyIndex], c.active)

\* and while something is; it has passed then.
Port0Fits ==
  c.mem_write_en =>
    /\ core.en /\ core.we /\ c.mem_din = core.din /\ Tagged(core.addr)
    /\ c.tag1_we /\ c.tag1_index = IndexOf(core.addr)
    /\ (~InIdle /\ IndexOf(core.addr) = MyIndex) =>
         \/ c.state \in Fetching /\ Ahead(c.active, core.addr) < Gone
         \/ c.state = "ST_WRITEBACK" /\ core.addr = c.active /\ Gone \in {1, 2} /\ c.ignore = 1

\* The tag of the line that is fetched,
TagPortFits ==
  c.tag_we =>
    /\ Asking /\ ~c.tag1_we /\ ~c.mem_write_en /\ ~Tagged(c.active)
    /\ c.tag_out = [line |-> MyLine, dirty |-> core.we, valid |-> TRUE]
    /\ c.state = "ST_WRITEBACK_PRE" \/ (c.state = "ST_FETCH" /\ Gone = 1)

\* and the mark of one that is written.
Tag1PortFits ==
  c.tag_init_complete /\ c.tag1_we =>
    /\ \/ c.tag1_out = [tags[c.tag1_index] EXCEPT !.dirty = TRUE] /\ tags[c.tag1_index].valid
       \/ c.tag1_out = NoTag /\ tags[c.tag1_index] = NoTag
    /\ InIdle /\ tags[c.tag1_index].valid /\ ~tags[c.tag1_index].dirty =>
         \/ c.mem1_write_en /\ c.tag1_index = MyIndex
         \/ Writing(core.addr) /\ c.tag1_index = IndexOf(core.addr) /\ Tagged(core.addr)

\* The transfer and the request it is for.
Phases ==
  /\ Untagged => /\ Asking /\ ~Tagged(c.active) /\ ~tags[MyIndex].dirty
                 /\ ~c.tag_we /\ ~c.tag1_we /\ ~c.mem_write_en
                 /\ (c.ignore = 1 <=> core.we)
  /\ c.state = "ST_WRITEBACK_PRE" =>
       /\ Asking /\ c.tag_we /\ tags[MyIndex].valid /\ tags[MyIndex].dirty
       /\ (c.ignore = 1 <=> core.we)
  /\ c.state \in WritingBack /\ c.ignore = 0 => Asking /\ ~core.we /\ ~c.we_1d
  /\ ~InIdle /\ ~Untagged => Held(c.active) /\ (c.ignore = 1 => MarkedDirty(c.active))
  /\ ~InIdle => c.active \in Reads \cup Writes /\ c.ignore \in {0, 1}
  /\ c.state \in Fetching /\ Gone > 0 => c.ignore = 0

\* Where the transfer is in the RAM.
Places ==
  ~InIdle =>
    /\ c.mem1_addr = CellOf(Around(c.active, MyLine, Gone))
    /\ Position(c.mem1_ov, c.mem1_addr) = WordOf(c.active) + Gone

\* The words of a fetch come in the order of the addresses.
FetchFits ==
  c.state \in Fetching =>
    /\ mst.dready_rd => mst.dout = mem[Around(c.active, MyLine, Gone)]
    /\ \A j \in 1 .. Len(pend) : pend[j] = mem[Around(c.active, MyLine, Gone + Owed + j - 1)]
    /\ Busy => mst.mask = MaxCount
    /\ mst.stb => mst.adr = Around(c.active, MyLine, Gone + Owed + Len(pend))

\* Of the line written back, the words from Gone on are still in the RAM, and
\* the one before is on the bus.
WritesBack ==
  HasVictim =>
    /\ Victim \in Lines /\ Victim # MyLine /\ Victim % NumberOfLines = MyIndex
    /\ Busy => mst.mask = MaxCount
    /\ c.state # "ST_WRITEBACK_WAIT" =>
         \A p \in Gone .. MaxCount :
           words[CellOf(Around(c.active, Victim, p))] = Newest(Around(c.active, Victim, p))
    /\ mst.stb => mst.dat = Newest(mst.adr)
    /\ c.state = "ST_WRITEBACK" => Gone > 0 /\ mst.adr = Around(c.active, Victim, Gone - 1)
    /\ c.state = "ST_WRITEBACK_WAIT" /\ mst.stb => mst.adr = Around(c.active, Victim, MaxCount)

DataInv ==
  /\ Shapes /\ TagsClear /\ TagsFit /\ Port1Fits /\ Port0Fits /\ TagPortFits /\ Tag1PortFits
  /\ Phases /\ Places /\ FetchFits /\ WritesBack /\ EveryWord

-----------------------------------------------------------------------------
(* One cycle, as far as it is about data.                                  *)

Cycle(accept, ack, w) ==
  /\ Turn(accept, ack, w)
  /\ w.tag_in \in RamOut(tags, IndexOf(core.addr), c.tag1_we, c.tag1_index, c.tag1_out)
  /\ w.mem_dout \in RamOut(words, CellOf(core.addr), mem1_we, c.mem1_addr, mem1_din)
  /\ w.mem1_dout \in RamOut(words, c.mem1_addr, c.mem_write_en, CellOf(core.addr), c.mem_din)
  /\ w.inactive = (en /\ ~line_active(c.we_1d))
  /\ tags' \in TagsNext /\ words' \in WordsNext
  /\ mem' = [a \in Addrs |-> IF accept /\ mst.we /\ mst.adr = a THEN mst.dat ELSE mem[a]]
  /\ latest' = IF complete_o(w) /\ core.en /\ core.we /\ core.addr = watch THEN core.din[2] ELSE latest
  /\ watch' = watch
  /\ got' = IF core.en /\ complete_o(w) THEN Done(w) ELSE NotDone
  /\ c'.tag_we = SetsTag(w, dready(w, accept, ack))
  /\ c'.tag_out = IF SetsTag(w, dready(w, accept, ack))
                    THEN [line |-> LineOf(core.addr), dirty |-> core.we, valid |-> TRUE] ELSE c.tag_out
  /\ c'.tag1_we = Tag1Edge(w, {}).tag1_we /\ c'.tag1_out = Tag1Edge(w, {}).tag1_out
  /\ c'.tag1_index = Tag1Edge(w, {}).tag1_index
  /\ c'.mem_din = core.din /\ c'.we_1d = core.we /\ c'.pending_1d = pending_write
  /\ c'.mem1_addr = NextMem1Addr(w, dready(w, accept, ack))
  /\ c'.mem1_ov = NextMem1Ov(dready(w, accept, ack))
  /\ c'.mem1_write_en = (WriteHit(w) /\ InIdle)
  /\ c'.mem_write_en = (WriteHit(w) /\ ~InIdle /\ ~c.mem_write_en)
  /\ c'.active = (IF InIdle THEN core.addr ELSE c.active)
  /\ c'.ignore = NextIgnore(w, dready(w, accept, ack))

\* Without write through nobody else writes, and nothing is snooped.
LEMMA NextCycles ==
  ASSUME ~WriteThrough, Next
  PROVE  \E accept, ack, w : Cycle(accept, ack, w)
<1>1. PICK accept \in BOOLEAN, ack \in BOOLEAN, other \in OtherWrites \cup {NoOther} : Clock(accept, ack, other)
  BY DEF Next
<1>2. Others = {}
  BY WbCacheAssumption DEF WbCacheAssumption
<1>3. other = NoOther /\ other.on = FALSE
  <2>1. \A r \in OtherWrites : FALSE
    BY <1>2 DEF OtherWrites
  <2> QED
    BY <2>1 DEF NoOther
<1> DEFINE snoop == OwnSnoop(ack) \cup (IF other.on THEN {other.addr} ELSE {})
           d(w) == dready(w, accept, ack)
<1>4. snoop = {}
  BY <1>3 DEF OwnSnoop
<1>5. PICK w \in MidEdge :
        /\ c' = CacheEdge(w, MasterInput(w), d(w), snoop)
        /\ mst' = MasterEdge(mst, MasterInput(w), Bus(accept, ack))
        /\ core' \in CoreNext(complete_o(w))
        /\ latest' = NextLatest(complete_o(w), other)
        /\ got' = IF core.en /\ complete_o(w) THEN Done(w) ELSE NotDone
  BY <1>1, Zenon DEF Clock, dready
<1>6. /\ BusMay(accept, ack) /\ tags' \in TagsNext /\ words' \in WordsNext /\ mem' = MemEdge(accept, other)
      /\ pend' = IF ack THEN Tail(Answers(accept)) ELSE Answers(accept)
      /\ watch' = watch
  BY <1>1 DEF Clock
<1>7. /\ w.tag_in \in RamOut(tags, IndexOf(core.addr), c.tag1_we, c.tag1_index, c.tag1_out)
      /\ w.mem_dout \in RamOut(words, CellOf(core.addr), mem1_we, c.mem1_addr, mem1_din)
      /\ w.mem1_dout \in RamOut(words, c.mem1_addr, c.mem_write_en, CellOf(core.addr), c.mem_din)
      /\ w.inactive \in {en /\ ~line_active(c.we_1d)}
  BY <1>5 DEF MidEdge
<1>8. w.inactive = (en /\ ~line_active(c.we_1d))
  BY <1>7
<1>9. mem' = [a \in Addrs |-> IF accept /\ mst.we /\ mst.adr = a THEN mst.dat ELSE mem[a]]
  BY <1>3, <1>6 DEF MemEdge
<1>10. latest' = IF complete_o(w) /\ core.en /\ core.we /\ core.addr = watch THEN core.din[2] ELSE latest
  BY <1>3, <1>5 DEF NextLatest
<1>11. c' = CacheEdge(w, MasterInput(w), d(w), {})
  BY <1>4, <1>5
<1>12. /\ c'.state = NextState(w, d(w)) /\ c'.count = NextWordCount(w, d(w))
       /\ c'.tag_init_complete = (c.tag_init_complete \/ c.tag1_index = NumberOfLines - 1)
       /\ c'.bypass_active = ((bypass /\ MasterInput(w).en) \/ (c.bypass_active /\ ~mst.complete))
  BY <1>11 DEF CacheEdge
<1>13. Turn(accept, ack, w)
  BY <1>5, <1>6, <1>8, <1>12 DEF Turn
<1>14. /\ c'.tag_we = SetsTag(w, d(w))
       /\ c'.tag_out = IF SetsTag(w, d(w))
                         THEN [line |-> LineOf(core.addr), dirty |-> core.we, valid |-> TRUE] ELSE c.tag_out
       /\ c'.tag1_we = Tag1Edge(w, {}).tag1_we /\ c'.tag1_out = Tag1Edge(w, {}).tag1_out
       /\ c'.tag1_index = Tag1Edge(w, {}).tag1_index
  BY <1>11 DEF CacheEdge
<1>15. /\ c'.mem_din = core.din /\ c'.we_1d = core.we /\ c'.pending_1d = pending_write
       /\ c'.mem1_addr = NextMem1Addr(w, d(w)) /\ c'.mem1_ov = NextMem1Ov(d(w))
       /\ c'.mem1_write_en = (WriteHit(w) /\ InIdle)
       /\ c'.mem_write_en = (WriteHit(w) /\ ~InIdle /\ ~c.mem_write_en)
       /\ c'.active = (IF InIdle THEN core.addr ELSE c.active)
       /\ c'.ignore = NextIgnore(w, d(w))
  BY <1>11 DEF CacheEdge
<1>16. Cycle(accept, ack, w)
  BY <1>5, <1>6, <1>7, <1>8, <1>9, <1>10, <1>13, <1>14, <1>15 DEF Cycle
<1> QED
  BY <1>16

-----------------------------------------------------------------------------
(* The two RAMs in one cycle: what is read, and what is written.           *)

\* All that is known between two cycles, and the mode it holds in.
Known == CacheInv /\ IsASequence(pend) /\ DataInv /\ ~WriteThrough /\ ~Withdraws

\* Types, and what the second level has none of: a bypass.
LEMMA Basics ==
  ASSUME Known
  PROVE  /\ core.addr \in Nat /\ core.addr \in Reads \cup Writes
         /\ core.en \in BOOLEAN /\ core.we \in BOOLEAN /\ (core.we => core.en)
         /\ ~bypass /\ (en <=> core.en) /\ ~c.bypass_active
         /\ c.count \in 0 .. MaxCount /\ Gone \in 0 .. MaxCount /\ MaxCount - Gone = c.count
         /\ ~InIdle => c.active \in Nat
         /\ IndexOf(core.addr) \in Indices /\ (core.en => c.tag_init_complete)
         /\ c.state \in CacheStates
<1>1. IsUser(core) /\ c.count \in 0 .. MaxCount /\ (core.en => c.tag_init_complete) /\ c.state \in CacheStates
  BY DEF Known, CacheInv
<1>2. Reads \cup Writes \subseteq Nat
  BY WbCacheAssumption DEF WbCacheAssumption
<1>3. core.addr \in Nat /\ core.addr \in Reads \cup Writes
  BY <1>1, <1>2 DEF IsUser
<1>4. ~bypass
  BY <1>1, Constants DEF Known
<1>5. ~c.bypass_active
  <2>1. ~InIdle => ~c.bypass_active
    BY DEF Known, CacheInv
  <2>2. InIdle => ~c.bypass_active
    BY <1>4 DEF Known, CacheInv, WhileIdle
  <2> QED
    BY <2>1, <2>2
<1>6. Gone \in 0 .. MaxCount /\ MaxCount - Gone = c.count
  BY <1>1, MaxFacts DEF Gone
<1>7. ~InIdle => c.active \in Nat
  BY <1>2 DEF Known, DataInv, Phases
<1>8. core.en \in BOOLEAN /\ core.we \in BOOLEAN /\ (core.we => core.en)
  BY <1>1 DEF IsUser
<1>9. en <=> core.en
  BY <1>4, <1>8 DEF en
<1> QED
  BY <1>1, <1>3, <1>4, <1>5, <1>6, <1>7, <1>8, <1>9, IndexFacts

\* What the tag RAM reads for the user: the tag it has, or the same, dirty.
LEMMA TagRead ==
  ASSUME Known, NEW accept, NEW ack, NEW w, Cycle(accept, ack, w), c.tag_init_complete
  PROVE  LET i == IndexOf(core.addr)
         IN  /\ IsTag(w.tag_in) /\ IsTag(tags[i])
             /\ w.tag_in.valid = tags[i].valid /\ w.tag_in.line = tags[i].line
             /\ \/ w.tag_in = tags[i]
                \/ c.tag1_we /\ c.tag1_index = i /\ w.tag_in = c.tag1_out
                   /\ c.tag1_out = [tags[i] EXCEPT !.dirty = TRUE]
<1> DEFINE i == IndexOf(core.addr)
<1>1. i \in Indices
  BY Basics
<1>2. IsTag(tags[i]) /\ IsTag(c.tag1_out)
  BY <1>1 DEF Known, DataInv, Shapes
<1>3. w.tag_in = tags[i] \/ (c.tag1_we /\ c.tag1_index = i /\ w.tag_in = c.tag1_out)
  BY DEF Cycle, RamOut
<1>4. CASE w.tag_in = tags[i]
  BY <1>2, <1>4
<1>5. CASE c.tag1_we /\ c.tag1_index = i /\ w.tag_in = c.tag1_out
  <2>1. \/ c.tag1_out = [tags[i] EXCEPT !.dirty = TRUE]
        \/ c.tag1_out = NoTag /\ tags[i] = NoTag
    BY <1>5 DEF Known, DataInv, Tag1PortFits
  <2>2. CASE c.tag1_out = [tags[i] EXCEPT !.dirty = TRUE]
    <3>1. c.tag1_out = [line |-> tags[i].line, dirty |-> TRUE, valid |-> tags[i].valid]
      BY <2>2, <1>2 DEF IsTag
    <3>2. w.tag_in.valid = tags[i].valid /\ w.tag_in.line = tags[i].line
      BY <1>5, <3>1
    <3> QED
      BY <1>2, <1>5, <2>2, <3>2
  <2>3. CASE c.tag1_out = NoTag /\ tags[i] = NoTag
    BY <1>2, <1>5, <2>3
  <2> QED
    BY <2>1, <2>2, <2>3
<1> QED
  BY <1>3, <1>4, <1>5

\* The hit, what completes and what is written, without the wires.
LEMMA Wires ==
  ASSUME Known, NEW accept, NEW ack, NEW w, Cycle(accept, ack, w), c.tag_init_complete
  PROVE  /\ cache_hit(w) <=> Tagged(core.addr)
         /\ complete_o(w) <=> /\ core.en /\ ~line_active(c.we_1d) /\ Tagged(core.addr) /\ ~pending_write
                              /\ core.we => InIdle \/ c.mem_write_en
         /\ WriteHit(w) <=> Tagged(core.addr) /\ core.we /\ ~line_active(core.we)
         /\ wb_fetch(w) <=> core.en /\ ~pending_write /\ ~Tagged(core.addr) /\ ~w.tag_in.dirty
         /\ wb_writeback(w) <=> core.en /\ ~pending_write /\ ~Tagged(core.addr) /\ w.tag_in.dirty
         /\ InIdle => ~line_active(core.we) /\ ~line_active(c.we_1d)
<1>1. cache_hit(w) <=> Tagged(core.addr)
  BY TagRead DEF cache_hit, Tagged, IsFor
<1>2. ~bypass /\ (en <=> core.en) /\ ~c.bypass_active /\ ~WriteThrough
  BY Basics DEF Known
<1>3. w.inactive <=> core.en /\ ~line_active(c.we_1d)
  BY <1>2 DEF Cycle
<1>4. complete_o(w) <=> w.inactive /\ cache_hit(w) /\ ~pending_write /\ (core.we => InIdle \/ c.mem_write_en)
  BY <1>2 DEF complete_o
<1>5. InIdle => ~line_active(core.we) /\ ~line_active(c.we_1d)
  BY DEF line_active
<1>6. WriteHit(w) <=> Tagged(core.addr) /\ core.we /\ ~line_active(core.we)
  BY <1>1, <1>2 DEF WriteHit
<1>7. wb_fetch(w) <=> core.en /\ ~pending_write /\ ~Tagged(core.addr) /\ ~w.tag_in.dirty
  BY <1>1, <1>2 DEF wb_fetch
<1>8. wb_writeback(w) <=> core.en /\ ~pending_write /\ ~Tagged(core.addr) /\ w.tag_in.dirty
  BY <1>1, <1>2 DEF wb_writeback
<1> QED
  BY <1>1, <1>3, <1>4, <1>5, <1>6, <1>7, <1>8

\* The RAMs after the cycle: no two ports write one place.
Fills == c.state \in Fetching /\ c.ignore = 0
WordNow(x) == IF Fills /\ x = c.mem1_addr THEN mst.dout ELSE WordAfter(x)

\* The tag RAM after the middle of the cycle: the two ports never write one
\* tag.
LEMMA TagsWritten ==
  ASSUME Known, NEW accept, NEW ack, NEW w, Cycle(accept, ack, w)
  PROVE  /\ tags' = [i \in Indices |-> tags'[i]]
         /\ \A i \in Indices : tags'[i] = TagAfter(i)
<1> DEFINE j == IndexOf(core.addr)
           k == c.tag1_index
<1>1. j \in Indices /\ k \in Indices /\ tags = [i \in Indices |-> tags[i]]
  BY Basics DEF Known, DataInv, Shapes
<1>2. ~(c.tag_we /\ c.tag1_we) /\ c.tag_we \in BOOLEAN /\ c.tag1_we \in BOOLEAN
  BY DEF Known, DataInv, TagPortFits, Shapes
<1>3. \/ tags' = Write(Write(tags, c.tag_we, j, c.tag_out), c.tag1_we, k, c.tag1_out)
      \/ tags' = Write(Write(tags, c.tag1_we, k, c.tag1_out), c.tag_we, j, c.tag_out)
  BY DEF Cycle, TagsNext, RamNext
<1>4. tags' = IF c.tag_we THEN [tags EXCEPT ![j] = c.tag_out]
              ELSE IF c.tag1_we THEN [tags EXCEPT ![k] = c.tag1_out] ELSE tags
  BY <1>2, <1>3, Zenon DEF Write
<1> HIDE DEF j, k
<1>5. CASE c.tag_we
  <2>1. tags' = [tags EXCEPT ![j] = c.tag_out]
    BY <1>4, <1>5
  <2>2. \A i \in Indices : tags'[i] = IF i = j THEN c.tag_out ELSE tags[i]
    BY <2>1, <1>1
  <2>3. tags' = [i \in Indices |-> tags'[i]]
    BY <2>1, <1>1
  <2> QED
    BY <2>2, <2>3, <1>2, <1>5 DEF TagAfter, j
<1>6. CASE ~c.tag_we /\ c.tag1_we
  <2>1. tags' = [tags EXCEPT ![k] = c.tag1_out]
    BY <1>4, <1>6
  <2>2. \A i \in Indices : tags'[i] = IF i = k THEN c.tag1_out ELSE tags[i]
    BY <2>1, <1>1
  <2>3. tags' = [i \in Indices |-> tags'[i]]
    BY <2>1, <1>1
  <2> QED
    BY <2>2, <2>3, <1>2, <1>6 DEF TagAfter, k
<1>7. CASE ~c.tag_we /\ ~c.tag1_we
  <2>1. tags' = tags
    BY <1>4, <1>7
  <2> QED
    BY <2>1, <1>1, <1>7 DEF TagAfter
<1> QED
  BY <1>2, <1>5, <1>6, <1>7

\* The word of the user that is written in a fetch is not the one that comes.
LEMMA PortsApart ==
  ASSUME Known, c.mem_write_en, Fills
  PROVE  c.mem1_addr # CellOf(core.addr)
<1> SUFFICES ASSUME c.mem1_addr = CellOf(core.addr)
             PROVE  FALSE
  OBVIOUS
<1>1. /\ core.addr \in Nat /\ Gone \in 0 .. MaxCount /\ c.active \in Nat /\ ~InIdle
      /\ c.state \in Fetching
  BY Basics DEF Fills, InIdle, Fetching
<1>2. MyLine \in Nat /\ MyIndex = MyLine % NumberOfLines
  BY <1>1, AddressParts, IndexFacts DEF MyLine, MyIndex
<1>3. CellOf(core.addr) = CellOf(Around(c.active, MyLine, Gone))
  BY <1>1 DEF Known, DataInv, Places
<1>4. Ahead(c.active, core.addr) = Gone /\ IndexOf(core.addr) = MyIndex
  BY <1>1, <1>2, <1>3, AheadCell
<1>5. Ahead(c.active, core.addr) < Gone
  <2>1. \/ c.state \in Fetching /\ Ahead(c.active, core.addr) < Gone
        \/ c.state = "ST_WRITEBACK"
    BY <1>1, <1>4 DEF Known, DataInv, Port0Fits
  <2> QED
    BY <2>1, <1>1 DEF Fetching
<1> QED
  BY <1>1, <1>4, <1>5, MaxFacts

\* The word RAM after it: nor do they write one word.
LEMMA WordsWritten ==
  ASSUME Known, NEW accept, NEW ack, NEW w, Cycle(accept, ack, w)
  PROVE  /\ words' = [x \in CellNos |-> words'[x]]
         /\ \A x \in CellNos : words'[x] = WordNow(x)
<1> DEFINE j == CellOf(core.addr)
           k == c.mem1_addr
<1>1. j \in CellNos /\ words = [x \in CellNos |-> words[x]]
  BY Basics, CellFacts DEF Known, DataInv, Shapes
<1>2. c.mem_write_en \in BOOLEAN /\ c.mem1_write_en \in BOOLEAN
  BY DEF Known, DataInv, Shapes
<1>3. c.mem1_write_en => ~c.mem_write_en /\ InIdle /\ ~Fills
  <2>1. c.mem1_write_en => ~c.mem_write_en /\ InIdle
    BY DEF Known, DataInv, Port1Fits
  <2> QED
    BY <2>1 DEF InIdle, Fills, Fetching
<1>4. c.mem_write_en /\ Fills => j # k
  BY PortsApart
<1>5. (mem1_we <=> c.mem1_write_en \/ Fills) /\ mem1_we \in BOOLEAN
  BY <1>2 DEF mem1_we, Fills
<1>6. (Fills => mem1_din = mst.dout) /\ (c.mem1_write_en => mem1_din = c.mem_din)
  BY <1>3 DEF mem1_din, Fills, InIdle, Fetching
<1>7. \/ words' = Write(Write(words, c.mem_write_en, j, c.mem_din), mem1_we, k, mem1_din)
      \/ words' = Write(Write(words, mem1_we, k, mem1_din), c.mem_write_en, j, c.mem_din)
  BY DEF Cycle, WordsNext, RamNext
<1> HIDE DEF j, k
<1>8. /\ words' = [x \in CellNos |-> words'[x]]
      /\ \A x \in CellNos : words'[x] = IF c.mem_write_en /\ x = j THEN c.mem_din
                                        ELSE IF mem1_we /\ x = k THEN mem1_din ELSE words[x]
  <2>0. c.mem_write_en /\ mem1_we => j # k
    BY <1>3, <1>4, <1>5
  <2>1. CASE c.mem_write_en /\ mem1_we
    <3>1. \/ words' = [[words EXCEPT ![j] = c.mem_din] EXCEPT ![k] = mem1_din]
          \/ words' = [[words EXCEPT ![k] = mem1_din] EXCEPT ![j] = c.mem_din]
      BY <1>7, <2>1 DEF Write
    <3> QED
      BY <1>1, <2>0, <2>1, <3>1
  <2>2. CASE c.mem_write_en /\ ~mem1_we
    <3>1. words' = [words EXCEPT ![j] = c.mem_din]
      BY <1>7, <2>2 DEF Write
    <3> QED
      BY <1>1, <2>2, <3>1
  <2>3. CASE ~c.mem_write_en /\ mem1_we
    <3>1. words' = [words EXCEPT ![k] = mem1_din]
      BY <1>7, <2>3 DEF Write
    <3> QED
      BY <1>1, <2>3, <3>1
  <2>4. CASE ~c.mem_write_en /\ ~mem1_we
    <3>1. words' = words
      BY <1>7, <2>4 DEF Write
    <3> QED
      BY <1>1, <2>4, <3>1
  <2> QED
    BY <1>2, <1>5, <2>1, <2>2, <2>3, <2>4
<1>9. ASSUME NEW x \in CellNos
      PROVE  words'[x] = WordNow(x)
  <2>1. words'[x] = IF c.mem_write_en /\ x = j THEN c.mem_din
                    ELSE IF mem1_we /\ x = k THEN mem1_din ELSE words[x]
    BY <1>8
  <2>2. CASE Fills /\ x = k
    <3>1. words'[x] = mst.dout
      BY <2>1, <2>2, <1>4, <1>5, <1>6
    <3> QED
      BY <2>2, <3>1 DEF WordNow, k
  <2>3. CASE ~(Fills /\ x = k)
    <3>1. words'[x] = WordAfter(x)
      BY <2>1, <2>3, <1>5, <1>6 DEF WordAfter, j, k
    <3> QED
      BY <2>3, <3>1 DEF WordNow, k
  <2> QED
    BY <2>2, <2>3
<1> QED
  BY <1>8, <1>9

\* A write in the RAM is waited for by every request with its index.
LEMMA Waits ==
  ASSUME Known, c.mem1_write_en, IndexOf(core.addr) = MyIndex, ~c.pending_1d
  PROVE  pending_write
<1>1. InIdle /\ c.active \in Writes
  BY DEF Known, DataInv, Port1Fits
<1>2. c.active \in Nat /\ core.addr \in Nat
  BY <1>1, Basics, WbCacheAssumption DEF WbCacheAssumption
<1>3. line_addr_conflict
  BY <1>2, ConflictOfIndex DEF line_addr_conflict, MyIndex
<1> QED
  BY <1>1, <1>3 DEF pending_write

\* The user: it repeats a request that is not complete.
LEMMA Repeats ==
  ASSUME Known, NEW accept, NEW ack, NEW w, Cycle(accept, ack, w),
         core.en, ~complete_o(w)
  PROVE  core' = core
<1>1. Turn(accept, ack, w) /\ CacheInv /\ ~Withdraws
  BY DEF Cycle, Known
<1> QED
  BY <1>1, UserStep

\* A tag is set for a request that misses.
LEMMA SettingTag ==
  ASSUME Known, NEW accept, NEW ack, NEW w, Cycle(accept, ack, w), NEW d, SetsTag(w, d)
  PROVE  /\ c.tag_init_complete /\ core.en /\ ~Tagged(core.addr) /\ ~c.tag_we /\ ~complete_o(w)
         /\ core' = core
         /\ Untagged \/ (InIdle /\ wb_writeback(w))
<1>1. CASE c.state = "ST_FETCH" /\ d /\ c.count = MaxCount
  <2>1. Untagged
    BY <1>1 DEF Untagged
  <2>2. Asking /\ ~Tagged(c.active) /\ ~c.tag_we
    BY <2>1 DEF Known, DataInv, Phases
  <2>3. core.en /\ ~Tagged(core.addr)
    BY <2>2 DEF Asking
  <2>4. c.tag_init_complete
    BY <2>3, Basics
  <2>5. ~complete_o(w)
    BY <2>3, <2>4, Wires
  <2> QED
    BY <2>1, <2>2, <2>3, <2>4, <2>5, Repeats
<1>2. CASE InIdle /\ wb_writeback(w)
  <2>1. core.en /\ c.tag_init_complete
    BY <1>2, Basics DEF wb_writeback
  <2>2. ~Tagged(core.addr) /\ ~complete_o(w)
    BY <1>2, <2>1, Wires
  <2>3. ~c.tag_we
    BY <1>2 DEF Known, DataInv, TagPortFits, InIdle
  <2> QED
    BY <1>2, <2>1, <2>2, <2>3, Repeats
<1> QED
  BY <1>1, <1>2 DEF SetsTag

\* A tag that is not replaced stays, but for the mark.
LEMMA TagKept ==
  ASSUME Known, c.tag_init_complete, NEW i \in Indices
  PROVE  /\ IsTag(TagAfter(i)) /\ IsTag(tags[i])
         /\ ~(c.tag_we /\ i = IndexOf(core.addr)) =>
              /\ TagAfter(i).valid = tags[i].valid /\ TagAfter(i).line = tags[i].line
              /\ tags[i].dirty => TagAfter(i).dirty
<1>1. IsTag(tags[i]) /\ IsTag(c.tag_out) /\ IsTag(c.tag1_out)
  BY DEF Known, DataInv, Shapes
<1>2. CASE c.tag_we /\ i = IndexOf(core.addr)
  BY <1>1, <1>2 DEF TagAfter
<1>3. CASE ~(c.tag_we /\ i = IndexOf(core.addr)) /\ c.tag1_we /\ i = c.tag1_index
  <2>1. TagAfter(i) = c.tag1_out
    BY <1>3 DEF TagAfter
  <2>2. \/ c.tag1_out = [tags[i] EXCEPT !.dirty = TRUE]
        \/ c.tag1_out = NoTag /\ tags[i] = NoTag
    BY <1>3 DEF Known, DataInv, Tag1PortFits
  <2>3. CASE c.tag1_out = [tags[i] EXCEPT !.dirty = TRUE]
    <3>1. c.tag1_out = [line |-> tags[i].line, dirty |-> TRUE, valid |-> tags[i].valid]
      BY <2>3, <1>1 DEF IsTag
    <3> QED
      BY <1>1, <2>1, <3>1
  <2>4. CASE c.tag1_out = NoTag /\ tags[i] = NoTag
    BY <1>1, <2>1, <2>4
  <2> QED
    BY <2>2, <2>3, <2>4
<1>4. CASE ~(c.tag_we /\ i = IndexOf(core.addr)) /\ ~(c.tag1_we /\ i = c.tag1_index)
  BY <1>1, <1>4 DEF TagAfter
<1> QED
  BY <1>2, <1>3, <1>4

\* While no tag is written, what the user hits is what is held.
LEMMA HitIsHeld ==
  ASSUME Known, c.tag_init_complete, NEW a \in Nat, ~(c.tag_we /\ IndexOf(a) = IndexOf(core.addr))
  PROVE  Held(a) <=> Tagged(a)
<1>1. IndexOf(a) \in Indices
  BY IndexFacts
<1>2. TagAfter(IndexOf(a)).valid = tags[IndexOf(a)].valid /\ TagAfter(IndexOf(a)).line = tags[IndexOf(a)].line
  BY <1>1, TagKept
<1> QED
  BY <1>2 DEF Held, Tagged, IsFor

\* A hit comes with no tag being written.
LEMMA HitAlone ==
  ASSUME Known, Tagged(core.addr)
  PROVE  ~c.tag_we
BY DEF Known, DataInv, TagPortFits, Asking

\* A tag that is marked dirty.
LEMMA MarkedTag ==
  ASSUME NEW t, IsTag(t)
  PROVE  [t EXCEPT !.dirty = TRUE] = [line |-> t.line, dirty |-> TRUE, valid |-> t.valid]
<1>1. \A l, y, v, z : [[line |-> l, dirty |-> y, valid |-> v] EXCEPT !.dirty = z]
                       = [line |-> l, dirty |-> z, valid |-> v]
  OBVIOUS
<1>2. PICK l, v, y : l = t.line /\ v = t.valid /\ y = t.dirty
  OBVIOUS
<1>3. t = [line |-> l, dirty |-> y, valid |-> v]
  BY <1>2, Zenon DEF IsTag
<1>4. [[line |-> l, dirty |-> y, valid |-> v] EXCEPT !.dirty = TRUE]
        = [line |-> l, dirty |-> TRUE, valid |-> v]
  BY <1>1, Zenon
<1> QED
  BY <1>2, <1>3, <1>4, Zenon

\* The user marks a line dirty.
Marks == Tagged(core.addr) /\ core.we

\* What the tag RAM will hold, from one cycle to the next.
LEMMA TagStep ==
  ASSUME Known, NEW accept, NEW ack, NEW w, Cycle(accept, ack, w), c.tag_init_complete,
         NEW i \in Indices
  PROVE  TagAfter(i)' =
           IF SetsTag(w, dready(w, accept, ack)) /\ i = IndexOf(core.addr)
             THEN [line |-> LineOf(core.addr), dirty |-> core.we, valid |-> TRUE]
           ELSE IF Marks /\ i = IndexOf(core.addr) THEN [TagAfter(i) EXCEPT !.dirty = TRUE]
           ELSE TagAfter(i)
<1> DEFINE d == dready(w, accept, ack)
           j == IndexOf(core.addr)
           new == [line |-> LineOf(core.addr), dirty |-> core.we, valid |-> TRUE]
           S == SetsTag(w, d)
           r == Tag1Edge(w, {})
<1>1. tags'[i] = TagAfter(i)
  BY TagsWritten
<1>2. /\ c'.tag_we = S /\ c'.tag_out = IF S THEN new ELSE c.tag_out
      /\ c'.tag1_we = r.tag1_we /\ c'.tag1_out = r.tag1_out /\ c'.tag1_index = r.tag1_index
  BY DEF Cycle
<1>3. cache_hit(w) /\ core.we <=> Marks
  BY Wires DEF Marks
<1>4. Marks => /\ r.tag1_we = TRUE /\ r.tag1_index = j
               /\ r.tag1_out = [w.tag_in EXCEPT !.dirty = TRUE]
  BY <1>3 DEF Tag1Edge, Known
<1>5. ~Marks => r.tag1_we = FALSE
  BY <1>3 DEF Tag1Edge, Known
<1>6. TagAfter(i)' = IF c'.tag_we /\ i = IndexOf(core'.addr) THEN c'.tag_out
                     ELSE IF c'.tag1_we /\ i = c'.tag1_index THEN c'.tag1_out ELSE tags'[i]
  BY Zenon DEF TagAfter
<1>7. CASE S
  <2>1. core' = core /\ ~Tagged(core.addr)
    BY <1>7, SettingTag
  <2>2. ~Marks
    BY <2>1 DEF Marks
  <2>3. c'.tag_we /\ c'.tag_out = new /\ ~c'.tag1_we
    BY <1>2, <1>5, <1>7, <2>2
  <2> QED
    BY <1>1, <1>6, <1>7, <2>1, <2>2, <2>3
<1>8. CASE ~S /\ Marks
  <2>1. ~c'.tag_we /\ c'.tag1_we /\ c'.tag1_index = j /\ c'.tag1_out = [w.tag_in EXCEPT !.dirty = TRUE]
    BY <1>2, <1>4, <1>8, Zenon DEF Cycle, SetsTag
  <2>2. CASE i = j
    <3>1. ~c.tag_we
      BY <1>8, HitAlone DEF Marks
    <3>2. /\ IsTag(TagAfter(i)) /\ TagAfter(i).valid = tags[i].valid /\ TagAfter(i).line = tags[i].line
      BY <3>1, TagKept
    <3>3. IsTag(w.tag_in) /\ w.tag_in.valid = tags[i].valid /\ w.tag_in.line = tags[i].line
      BY <2>2, TagRead
    <3>4. [w.tag_in EXCEPT !.dirty = TRUE] = [line |-> tags[i].line, dirty |-> TRUE, valid |-> tags[i].valid]
      BY <3>3, MarkedTag
    <3>5. [TagAfter(i) EXCEPT !.dirty = TRUE] = [line |-> tags[i].line, dirty |-> TRUE, valid |-> tags[i].valid]
      BY <3>2, MarkedTag
    <3> QED
      BY <1>6, <1>8, <2>1, <2>2, <3>4, <3>5
  <2>3. CASE i # j
    BY <1>1, <1>6, <1>8, <2>1, <2>3
  <2> QED
    BY <2>2, <2>3
<1>9. CASE ~S /\ ~Marks
  <2>1. ~c'.tag_we /\ ~c'.tag1_we
    BY <1>2, <1>5, <1>9
  <2> QED
    BY <1>1, <1>6, <1>9, <2>1
<1> QED
  BY <1>7, <1>8, <1>9

\* The user writes a word through one of the ports.
Prepares == Tagged(core.addr) /\ core.we /\ ~line_active(core.we) /\ (InIdle \/ ~c.mem_write_en)

\* And what the word RAM will.
LEMMA WordStep ==
  ASSUME Known, NEW accept, NEW ack, NEW w, Cycle(accept, ack, w), c.tag_init_complete,
         NEW x \in CellNos
  PROVE  WordAfter(x)' = IF Prepares /\ x = CellOf(core.addr) THEN core.din ELSE WordNow(x)
<1>1. words'[x] = WordNow(x)
  BY WordsWritten
<1>2. /\ c'.mem_din = core.din
      /\ c'.mem1_write_en = (WriteHit(w) /\ InIdle)
      /\ c'.mem_write_en = (WriteHit(w) /\ ~InIdle /\ ~c.mem_write_en)
      /\ c'.mem1_addr = NextMem1Addr(w, dready(w, accept, ack))
  BY DEF Cycle
<1>3. WriteHit(w) <=> Tagged(core.addr) /\ core.we /\ ~line_active(core.we)
  BY Wires
<1>4. WordAfter(x)' = IF c'.mem_write_en /\ x = CellOf(core'.addr) THEN c'.mem_din
                      ELSE IF c'.mem1_write_en /\ x = c'.mem1_addr THEN c'.mem_din ELSE words'[x]
  BY Zenon DEF WordAfter
<1>5. CASE WriteHit(w) /\ InIdle
  <2>1. ~c'.mem_write_en /\ c'.mem1_write_en
    BY <1>2, <1>5
  <2>2. ~wb_writeback(w)
    BY <1>3, <1>5, Wires
  <2>3. c'.mem1_addr = CellOf(core.addr)
    BY <1>2, <1>5, <2>2 DEF NextMem1Addr, Advances
  <2> QED
    BY <1>1, <1>2, <1>3, <1>4, <1>5, <2>1, <2>3 DEF Prepares
<1>6. CASE WriteHit(w) /\ ~InIdle /\ ~c.mem_write_en
  <2>1. core.en
    BY <1>3, <1>6, Basics
  <2>2. ~complete_o(w)
    BY <1>3, <1>6, Wires
  <2>3. core' = core
    BY <2>1, <2>2, Repeats
  <2>4. ~c'.mem1_write_en /\ c'.mem_write_en
    BY <1>2, <1>6
  <2> QED
    BY <1>1, <1>2, <1>3, <1>4, <1>6, <2>3, <2>4 DEF Prepares
<1>7. CASE ~(WriteHit(w) /\ InIdle) /\ ~(WriteHit(w) /\ ~InIdle /\ ~c.mem_write_en)
  <2>1. ~c'.mem1_write_en /\ ~c'.mem_write_en
    BY <1>2, <1>7
  <2>2. ~Prepares
    BY <1>3, <1>7 DEF Prepares
  <2> QED
    BY <1>1, <1>4, <2>1, <2>2
<1> QED
  BY <1>5, <1>6, <1>7

\* The version a word has: the user writes it when its request is complete.
LEMMA NewestStep ==
  ASSUME Known, NEW accept, NEW ack, NEW w, Cycle(accept, ack, w), NEW a
  PROVE  Newest(a)' = IF complete_o(w) /\ Writing(a) THEN core.din ELSE Newest(a)
<1>1. /\ latest' = IF complete_o(w) /\ core.en /\ core.we /\ core.addr = watch THEN core.din[2] ELSE latest
      /\ watch' = watch
  BY DEF Cycle
<1>2. Newest(a)' = <<a, IF a = watch' THEN latest' ELSE 0>>
  BY Zenon DEF Newest, Value
<1>3. Newest(a) = <<a, IF a = watch THEN latest ELSE 0>>
  BY DEF Newest, Value
<1>4. CASE complete_o(w) /\ Writing(a)
  <2>1. core.en /\ core.we /\ core.addr = a
    BY <1>4 DEF Writing
  <2>2. PICK version \in Versions(a) : core.din = <<a, version>>
    BY <2>1 DEF Known, DataInv, Shapes, Value
  <2>3. core.din[2] = version
    BY <2>2
  <2>4. CASE a = watch
    BY <1>1, <1>2, <1>4, <2>1, <2>2, <2>3, <2>4
  <2>5. CASE a # watch
    <3>1. version = 0
      BY <2>2, <2>5 DEF Versions
    <3> QED
      BY <1>1, <1>2, <1>4, <2>2, <2>5, <3>1
  <2> QED
    BY <2>4, <2>5
<1>5. CASE ~(complete_o(w) /\ Writing(a))
  <2>1. a = watch => latest' = latest
    BY <1>1, <1>5 DEF Writing
  <2> QED
    BY <1>1, <1>2, <1>3, <1>5, <2>1
<1> QED
  BY <1>4, <1>5

-----------------------------------------------------------------------------
(* The wb_master in one cycle: the words and addresses it carries.         *)

\* What the cache gives its master.
LEMMA AskData ==
  ASSUME Known, NEW w
  PROVE  LET u == MasterInput(w)
         IN  /\ u.din = w.mem1_dout /\ u.en \in BOOLEAN /\ (u.en => u.burst = MaxCount)
             /\ c.state = "ST_WRITEBACK_PRE" =>
                  /\ u.en /\ u.we
                  /\ u.addr = (w.tag_in.line * WordsPerLine) + WordOf(core.addr)
             /\ InIdle => (u.en <=> wb_fetch(w)) /\ (u.en => ~u.we /\ u.addr = core.addr)
             /\ c.state \in {"ST_WRITEBACK", "ST_WRITEBACK_WAIT"} =>
                  (u.en <=> mst.complete) /\ (u.en => ~u.we /\ u.addr = c.active)
             /\ c.state \in Fetching => ~u.en /\ ~u.we
<1> DEFINE u == MasterInput(w)
<1>1. ~WriteThrough /\ ~bypass /\ mst.complete \in BOOLEAN
  BY Basics DEF Known, CacheInv, IsMaster
<1>2. wb_burst = MaxCount
  BY <1>1 DEF wb_burst
<1>3. CASE c.state = "ST_WRITEBACK_PRE"
  <2>1. u = Ask(TRUE, TRUE, w.tag_in.line * WordsPerLine + WordOf(core.addr), w.mem1_dout)
    BY <1>1, <1>3 DEF MasterInput
  <2>2. /\ u.din = w.mem1_dout /\ u.en = TRUE /\ u.we = TRUE /\ u.burst = MaxCount
        /\ u.addr = w.tag_in.line * WordsPerLine + WordOf(core.addr)
    BY <2>1, <1>2 DEF Ask
  <2> QED
    BY <2>2, <1>3 DEF InIdle, Fetching
<1>4. CASE c.state # "ST_WRITEBACK_PRE" /\ wb_fetch(w) /\ InIdle
  <2>1. u = Ask(TRUE, FALSE, core.addr, w.mem1_dout)
    BY <1>1, <1>4 DEF MasterInput
  <2>2. /\ u.din = w.mem1_dout /\ u.en = TRUE /\ u.we = FALSE /\ u.burst = MaxCount
        /\ u.addr = core.addr
    BY <2>1, <1>2 DEF Ask
  <2> QED
    BY <2>2, <1>4 DEF InIdle, Fetching
<1>5. CASE /\ c.state # "ST_WRITEBACK_PRE" /\ ~(wb_fetch(w) /\ InIdle)
           /\ mst.complete /\ c.state \in {"ST_WRITEBACK", "ST_WRITEBACK_WAIT"}
  <2>1. u = Ask(TRUE, FALSE, c.active, w.mem1_dout)
    BY <1>1, <1>5 DEF MasterInput
  <2>2. /\ u.din = w.mem1_dout /\ u.en = TRUE /\ u.we = FALSE /\ u.burst = MaxCount
        /\ u.addr = c.active
    BY <2>1, <1>2 DEF Ask
  <2> QED
    BY <2>2, <1>5 DEF InIdle, Fetching
<1>6. CASE /\ c.state # "ST_WRITEBACK_PRE" /\ ~(wb_fetch(w) /\ InIdle)
           /\ ~(mst.complete /\ c.state \in {"ST_WRITEBACK", "ST_WRITEBACK_WAIT"})
  <2>1. u = Ask(FALSE, FALSE, 0, w.mem1_dout)
    BY <1>1, <1>6 DEF MasterInput
  <2>2. u.din = w.mem1_dout /\ u.en = FALSE /\ u.we = FALSE
    BY <2>1 DEF Ask
  <2> QED
    BY <2>2, <1>6 DEF InIdle, Fetching
<1> QED
  BY <1>3, <1>4, <1>5, <1>6

\* The master in one cycle: data.
LEMMA MasterData ==
  ASSUME Known, NEW accept, NEW ack, NEW w, Cycle(accept, ack, w)
  PROVE  LET u == MasterInput(w)
         IN  /\ accept \in BOOLEAN /\ ack \in BOOLEAN /\ (accept => mst.stb /\ Working)
             /\ MasterMoves(accept, ack, u)
             /\ Working =>
                  /\ mst'.adr = (IF accept THEN WrapNext(mst.adr, mst.mask) ELSE mst.adr)
                  /\ mst'.dat = (IF accept THEN w.mem1_dout ELSE mst.dat)
                  /\ mst'.mask = mst.mask
                  /\ mst'.dout = (IF ack THEN Head(Answers(accept)) ELSE mst.dout)
                  /\ mst'.stb => mst.stb /\ ~(accept /\ mst.count = 0)
             /\ ~Working /\ u.en =>
                  /\ mst'.adr = u.addr /\ mst'.dat = u.din /\ mst'.mask = u.burst /\ mst'.stb
             /\ ~Working => Len(pend) = 0 /\ Len(pend') = 0
             /\ ~Working' => ~mst'.stb
<1> DEFINE u == MasterInput(w)
           in == Bus(accept, ack)
<1>1. /\ accept \in BOOLEAN /\ ack \in BOOLEAN /\ BusMay(accept, ack)
      /\ mst' = MasterEdge(mst, u, in)
      /\ pend' = IF ack THEN Tail(Answers(accept)) ELSE Answers(accept)
  BY DEF Cycle, Turn
<1>2. IsMaster(mst) /\ InStep(mst, Len(pend)) /\ IsASequence(pend) /\ IsUser(core)
  BY DEF Known, CacheInv
<1>3. MasterMoves(accept, ack, u)
  BY <1>1, <1>2, MasterStep
<1>4. ~Working => mst.state = "ST_IDLE"
  BY <1>2 DEF Working, IsMaster
<1>5. accept => mst.stb /\ Working
  BY <1>1, <1>2, <1>4 DEF BusMay, Asked, InStep
<1>6. in.ack = ack /\ in.stall = ~accept /\ in.err = FALSE
  BY DEF Bus
<1>7. ASSUME Working
      PROVE  /\ mst'.adr = (IF accept THEN WrapNext(mst.adr, mst.mask) ELSE mst.adr)
             /\ mst'.dat = (IF accept THEN w.mem1_dout ELSE mst.dat)
             /\ mst'.mask = mst.mask
             /\ mst'.dout = (IF ack THEN Head(Answers(accept)) ELSE mst.dout)
             /\ mst'.stb => mst.stb /\ ~(accept /\ mst.count = 0)
  <2>1. mst' = Pending(mst, u, in)
    BY <1>1, <1>7 DEF MasterEdge, Working
  <2>2. /\ mst'.adr = NextAdr(mst, in) /\ mst'.dat = (IF in.stall THEN mst.dat ELSE u.din)
        /\ mst'.mask = mst.mask
        /\ mst'.dout = (IF in.ack THEN in.dat ELSE mst.dout)
    BY <2>1 DEF Pending
  <2>3. mst'.stb = (mst.stb /\ ~LastRequest(mst, in) /\ ~Ends(mst, in))
    BY <2>1 DEF Pending
  <2>4. ack => in.dat = Head(Answers(accept))
    BY DEF Bus
  <2>5. u.din = w.mem1_dout
    BY AskData
  <2> QED
    BY <1>1, <1>6, <2>2, <2>3, <2>4, <2>5 DEF NextAdr, LastRequest
<1>8. ASSUME ~Working, u.en
      PROVE  mst'.adr = u.addr /\ mst'.dat = u.din /\ mst'.mask = u.burst /\ mst'.stb
  <2>1. mst' = Start(mst, u, in)
    BY <1>1, <1>4, <1>8 DEF MasterEdge
  <2>2. mst = [state |-> mst.state, adr |-> mst.adr, dat |-> mst.dat, we |-> mst.we, stb |-> mst.stb,
               cyc |-> mst.cyc, count |-> mst.count, count_ack |-> mst.count_ack, mask |-> mst.mask,
               dready_rd |-> mst.dready_rd, dout |-> mst.dout, complete |-> mst.complete, err |-> mst.err]
    BY <1>2, Zenon DEF IsMaster
  <2> QED
    BY <2>1, <2>2 DEF Start
<1>9. ~Working => Len(pend) = 0 /\ Len(pend') = 0
  <2> SUFFICES ASSUME ~Working PROVE Len(pend) = 0 /\ Len(pend') = 0
    OBVIOUS
  <2>1. Len(pend) = 0
    BY <1>2, <1>4 DEF InStep
  <2>2. ~accept
    BY <1>5
  <2>3. pend = <<>>
    BY <2>1, <1>2, LengthStep
  <2>4. ~ack /\ pend' = pend
    BY <1>1, <2>2, <2>3 DEF Answers, BusMay
  <2> QED
    BY <2>1, <2>4
<1>10. ~Working' => ~mst'.stb
  BY <1>3 DEF MasterMoves, InStep, IsMaster, Working
<1> QED
  BY <1>1, <1>3, <1>5, <1>7, <1>8, <1>9, <1>10

\* The registers of the cache in a transfer.
LEMMA BusyRegisters ==
  ASSUME Known, NEW accept, NEW ack, NEW w, Cycle(accept, ack, w), ~InIdle
  PROVE  LET d == dready(w, accept, ack)
         IN  /\ c'.active = c.active /\ c'.state = NextState(w, d)
             /\ c'.mem1_addr = (IF Advances(d) THEN WrapNext(c.mem1_addr, MaxCount) ELSE c.mem1_addr)
             /\ c'.mem1_ov = (IF Advances(d)
                                THEN (c.mem1_ov \/ WordOf(c.mem1_addr) = MaxCount)
                                       /\ ~(c.state = "ST_WRITEBACK" /\ c.count = 0)
                                ELSE c.mem1_ov)
             /\ c'.count = (IF ~Advances(d) THEN c.count ELSE IF c.count = 0 THEN MaxCount ELSE c.count - 1)
             /\ c'.ignore = (IF Advances(d) /\ c.state \in Fetching THEN 0 ELSE c.ignore)
             /\ SetsTag(w, d) <=> c.state = "ST_FETCH" /\ d /\ c.count = MaxCount
             /\ ~c'.mem1_write_en
<1> DEFINE d == dready(w, accept, ack)
<1>1. /\ c'.active = c.active /\ c'.state = NextState(w, d) /\ c'.count = NextWordCount(w, d)
      /\ c'.mem1_addr = NextMem1Addr(w, d) /\ c'.mem1_ov = NextMem1Ov(d) /\ c'.ignore = NextIgnore(w, d)
      /\ ~c'.mem1_write_en
  BY DEF Cycle, Turn
<1>2. c.count \in 0 .. MaxCount
  BY Basics
<1>3. c'.count = (IF ~Advances(d) THEN c.count ELSE IF c.count = 0 THEN MaxCount ELSE c.count - 1)
  BY <1>1, <1>2, CountStep
<1>4. c'.mem1_addr = (IF Advances(d) THEN WrapNext(c.mem1_addr, MaxCount) ELSE c.mem1_addr)
  BY <1>1 DEF NextMem1Addr
<1>5. c'.mem1_ov = (IF Advances(d)
                      THEN (c.mem1_ov \/ WordOf(c.mem1_addr) = MaxCount)
                             /\ ~(c.state = "ST_WRITEBACK" /\ c.count = 0)
                      ELSE c.mem1_ov)
  <2>1. c.mem1_ov \in BOOLEAN
    BY DEF Known, DataInv, Shapes
  <2> QED
    BY <1>1, <2>1 DEF NextMem1Ov
<1>6. c'.ignore = (IF Advances(d) /\ c.state \in Fetching THEN 0 ELSE c.ignore)
  BY <1>1 DEF NextIgnore
<1>7. SetsTag(w, d) <=> c.state = "ST_FETCH" /\ d /\ c.count = MaxCount
  BY DEF SetsTag
<1> QED
  BY <1>1, <1>3, <1>4, <1>5, <1>6, <1>7

\* What the phases of the cache say of the master.
LEMMA PhaseFacts ==
  ASSUME Known
  PROVE  /\ InIdle => ~Working /\ ~mst.complete
         /\ c.state = "ST_WRITEBACK_PRE" => ~Working /\ c.count = MaxCount
         /\ c.state = "ST_WRITEBACK" =>
              Working /\ mst.we /\ c.count + 1 = mst.count /\ mst.stb /\ ~mst.complete
         /\ c.state = "ST_WRITEBACK_WAIT" =>
              /\ c.count = MaxCount /\ ~mst.dready_rd
              /\ \/ Working /\ mst.we /\ mst.count = 0 /\ ~mst.complete
                 \/ ~Working /\ mst.complete /\ ~mst.stb
         /\ c.state \in Fetching =>
              \/ Working /\ ~mst.we /\ ~mst.complete
              \/ ~Working /\ mst.dready_rd /\ c.count = 0
<1>1. IsMaster(mst) /\ InStep(mst, Len(pend)) /\ ~WriteThrough /\ ~bypass /\ ~c.bypass_active
  BY Basics DEF Known, CacheInv
<1>2. Working => ~mst.complete /\ (mst.stb \/ mst.count = 0)
  BY <1>1 DEF Working, InStep
<1>3. Ending => ~Working /\ mst.complete /\ ~mst.stb
  BY <1>1 DEF Ending, Working, InStep
<1>4. Resting => ~Working /\ ~mst.complete
  BY DEF Resting, Working
<1>5. InIdle => Resting
  BY <1>1 DEF Known, CacheInv, WhileIdle
<1>6. c.state = "ST_WRITEBACK_PRE" => Resting /\ c.count = MaxCount
  BY DEF Known, CacheInv, WhileStarting
<1>7. c.state = "ST_WRITEBACK" => Working /\ mst.we /\ c.count + 1 = mst.count
  BY DEF Known, CacheInv, WhileWritingBack
<1>8. c.state = "ST_WRITEBACK" => mst.stb
  <2>1. c.count \in Nat
    BY Basics, MaxFacts
  <2>2. c.count + 1 # 0
    BY <2>1
  <2> QED
    BY <2>2, <1>2, <1>7
<1>9. c.state = "ST_WRITEBACK_WAIT" =>
        c.count = MaxCount /\ ((Working /\ mst.we /\ mst.count = 0) \/ (Ending /\ ~mst.dready_rd))
  BY DEF Known, CacheInv, WhileWaiting
<1>10. Working /\ mst.we => ~mst.dready_rd
  BY <1>1 DEF InStep, Working
<1>11. c.state \in Fetching =>
         \/ Working /\ ~mst.we
         \/ Ending /\ mst.dready_rd /\ c.count = 0
  BY <1>1 DEF Known, CacheInv, WhileFetching, LastWordMissed
<1> QED
  BY <1>2, <1>3, <1>4, <1>5, <1>6, <1>7, <1>8, <1>9, <1>10, <1>11

\* dready_o, phase by phase.
LEMMA TakenWord ==
  ASSUME Known, NEW accept, NEW ack, NEW w, Cycle(accept, ack, w)
  PROVE  LET d == dready(w, accept, ack)
         IN  /\ c.state = "ST_WRITEBACK_PRE" => d
             /\ c.state = "ST_WRITEBACK" => (d <=> accept)
             /\ c.state = "ST_WRITEBACK_WAIT" => ~d \/ mst.complete
             /\ c.state \in Fetching => (d <=> mst.dready_rd)
<1> DEFINE d == dready(w, accept, ack)
           u == MasterInput(w)
<1>1. accept \in BOOLEAN /\ IsMaster(mst)
  BY DEF Cycle, Turn, Known, CacheInv
<1>2. d <=> IF u.we /\ ~Working THEN u.en
            ELSE IF mst.we /\ Working /\ mst.count # 0 THEN accept ELSE mst.dready_rd
  BY <1>1, DReadyStep
<1>3. c.state = "ST_WRITEBACK_PRE" => d
  BY <1>2, PhaseFacts, AskData
<1>4. c.state = "ST_WRITEBACK" => (d <=> accept)
  <2> SUFFICES ASSUME c.state = "ST_WRITEBACK" PROVE d <=> accept
    OBVIOUS
  <2>1. Working /\ mst.we /\ c.count + 1 = mst.count /\ c.count \in 0 .. MaxCount
    BY PhaseFacts, Basics
  <2>2. mst.count # 0
    BY <2>1, MaxFacts
  <2> QED
    BY <1>2, <2>1, <2>2
<1>5. c.state = "ST_WRITEBACK_WAIT" => ~d \/ mst.complete
  BY <1>2, PhaseFacts
<1>6. c.state \in Fetching => (d <=> mst.dready_rd)
  BY <1>2, PhaseFacts, AskData
<1> QED
  BY <1>3, <1>4, <1>5, <1>6

\* ST_IDLE: nothing starts, a fetch does, or a write back.
IdleStays(w) == c'.state = "ST_IDLE" /\ ~wb_fetch(w) /\ ~wb_writeback(w)

Starting(w) ==
  /\ core.en /\ ~Tagged(core.addr) /\ ~pending_write /\ core' = core
  /\ c'.count = MaxCount /\ c'.ignore = (IF core.we THEN 1 ELSE 0) /\ ~c'.mem1_ov

FetchStarts(w) ==
  /\ wb_fetch(w) /\ ~wb_writeback(w) /\ Starting(w) /\ ~w.tag_in.dirty
  /\ c'.state = "ST_FETCH" /\ c'.mem1_addr = CellOf(core.addr)
  /\ mst'.adr = core.addr /\ mst'.mask = MaxCount /\ ~mst'.dready_rd
  /\ Working' /\ ~mst'.we /\ Len(pend') = 0

WriteBackStarts(w) ==
  /\ wb_writeback(w) /\ ~wb_fetch(w) /\ Starting(w) /\ w.tag_in.dirty
  /\ c'.state = "ST_WRITEBACK_PRE"
  /\ c'.mem1_addr = CellOf((w.tag_in.line * WordsPerLine) + WordOf(core.addr))
  /\ ~Working' /\ ~mst'.stb

\* ST_IDLE: nothing, a fetch, or a write back begins.
LEMMA IdleMoves ==
  ASSUME Known, NEW accept, NEW ack, NEW w, Cycle(accept, ack, w), InIdle, c.tag_init_complete
  PROVE  /\ IdleStays(w) \/ FetchStarts(w) \/ WriteBackStarts(w)
         /\ c'.active = core.addr
         /\ SetsTag(w, dready(w, accept, ack)) <=> wb_writeback(w)
         /\ mem' = mem
<1> DEFINE d == dready(w, accept, ack)
           u == MasterInput(w)
<1>1. /\ c'.state = NextState(w, d) /\ c'.count = NextWordCount(w, d) /\ c'.active = core.addr
      /\ c'.mem1_addr = NextMem1Addr(w, d) /\ c'.mem1_ov = NextMem1Ov(d) /\ c'.ignore = NextIgnore(w, d)
  BY DEF Cycle, Turn
<1>2. IsUser(core) /\ ~WriteThrough /\ IsMaster(mst) /\ c.state = "ST_IDLE"
  BY DEF Known, CacheInv, InIdle
<1>3. SetsTag(w, d) <=> wb_writeback(w)
  BY <1>2 DEF SetsTag, InIdle
<1>4. ~Working /\ ~mst.complete
  BY PhaseFacts
<1>5. mem' = mem
  <2>1. ~accept
    BY <1>4, MasterData
  <2>2. mem' = [a \in Addrs |-> mem[a]]
    BY <2>1 DEF Cycle
  <2> QED
    BY <2>2 DEF Known, DataInv, Shapes
<1>6. ~Advances(d) /\ ~c'.mem1_ov
  BY <1>1 DEF Advances, NextMem1Ov
<1>7. /\ MasterMoves(accept, ack, u)
      /\ u.en => mst'.adr = u.addr /\ mst'.dat = u.din /\ mst'.mask = u.burst /\ mst'.stb
      /\ Len(pend) = 0 /\ Len(pend') = 0
      /\ ~Working' => ~mst'.stb
  BY <1>4, MasterData
<1>8. ~(wb_writeback(w) /\ wb_fetch(w))
  BY DEF wb_writeback, wb_fetch
<1>9. c'.ignore = (IF (wb_writeback(w) \/ wb_fetch(w)) /\ core.we THEN 1 ELSE 0)
  BY <1>1 DEF NextIgnore, Starts
<1>10. ASSUME wb_writeback(w) \/ wb_fetch(w)
       PROVE  Starting(w)
  <2>1. core.en /\ ~Tagged(core.addr) /\ ~pending_write /\ ~complete_o(w)
    BY <1>10, Wires
  <2>2. core' = core
    BY <2>1, Repeats
  <2>3. c'.count = MaxCount
    BY <1>1, <1>2, <1>10, Leaving
  <2> QED
    BY <1>6, <1>9, <1>10, <2>1, <2>2, <2>3 DEF Starting
<1>11. CASE wb_fetch(w)
  <2>1. c'.state = "ST_FETCH" /\ ~w.tag_in.dirty /\ ~wb_writeback(w)
    BY <1>1, <1>2, <1>8, <1>11, Leaving, Wires
  <2>2. c'.mem1_addr = CellOf(core.addr)
    BY <1>1, <1>6, <2>1 DEF NextMem1Addr
  <2>3. u.en /\ ~u.we /\ u.addr = core.addr /\ u.burst = MaxCount
    BY <1>11, AskData
  <2>4. mst'.adr = core.addr /\ mst'.mask = MaxCount /\ Working' /\ ~mst'.we /\ ~mst'.dready_rd
    BY <1>4, <1>7, <2>3 DEF MasterMoves
  <2>5. FetchStarts(w)
    BY <1>7, <1>10, <1>11, <2>1, <2>2, <2>4 DEF FetchStarts
  <2> QED
    BY <1>1, <1>3, <1>5, <2>5
<1>12. CASE wb_writeback(w)
  <2>1. c'.state = "ST_WRITEBACK_PRE" /\ w.tag_in.dirty /\ ~wb_fetch(w)
    BY <1>1, <1>2, <1>8, <1>12, Leaving, Wires
  <2>2. c'.mem1_addr = CellOf(w.tag_in.line * WordsPerLine + WordOf(core.addr))
    BY <1>1, <1>6, <1>12 DEF NextMem1Addr
  <2>3. ~u.en
    BY <2>1, AskData
  <2>4. ~Working'
    BY <1>4, <1>7, <2>3 DEF MasterMoves, Resting, Working
  <2>5. WriteBackStarts(w)
    BY <1>7, <1>10, <1>12, <2>1, <2>2, <2>4 DEF WriteBackStarts
  <2> QED
    BY <1>1, <1>3, <1>5, <2>5
<1>13. CASE ~wb_fetch(w) /\ ~wb_writeback(w)
  <2>1. c'.state = "ST_IDLE"
    BY <1>1, <1>2, <1>13, Leaving
  <2> QED
    BY <1>1, <1>3, <1>5, <1>13, <2>1 DEF IdleStays
<1> QED
  BY <1>11, <1>12, <1>13

\* The write back takes its first word.
PreMove(w) ==
  /\ c'.state = "ST_WRITEBACK" /\ c'.count = MaxCount - 1
  /\ c'.mem1_addr = WrapNext(c.mem1_addr, MaxCount)
  /\ c'.mem1_ov = (c.mem1_ov \/ WordOf(c.mem1_addr) = MaxCount)
  /\ mst'.adr = (w.tag_in.line * WordsPerLine) + WordOf(core.addr)
  /\ mst'.dat = w.mem1_dout /\ mst'.mask = MaxCount /\ Working'
  /\ mem' = mem

\* A word is on the bus; it has been taken, and the next one is read; the last
\* one has been read.
SameMove ==
  /\ c'.state = c.state /\ c'.count = c.count
  /\ c'.mem1_addr = c.mem1_addr /\ c'.mem1_ov = c.mem1_ov
  /\ c'.ignore = c.ignore
WbHolds ==
  SameMove /\ mst'.adr = mst.adr /\ mst'.dat = mst.dat /\ mst'.mask = mst.mask /\ Working' /\ mem' = mem
WbTakes(w) ==
  /\ Working'
  /\ mst'.adr = WrapNext(mst.adr, mst.mask) /\ mst'.dat = w.mem1_dout /\ mst'.mask = mst.mask
  /\ mem' = [a \in Addrs |-> IF mst.adr = a THEN mst.dat ELSE mem[a]]
  /\ c'.mem1_addr = WrapNext(c.mem1_addr, MaxCount)
WbNext(w) ==
  /\ WbTakes(w) /\ c'.state = "ST_WRITEBACK" /\ c.count # 0 /\ c'.count = c.count - 1
  /\ c'.mem1_ov = (c.mem1_ov \/ WordOf(c.mem1_addr) = MaxCount)
WbLast(w) ==
  /\ WbTakes(w) /\ c'.state = "ST_WRITEBACK_WAIT" /\ c.count = 0 /\ c'.count = MaxCount /\ ~c'.mem1_ov

\* The last word is taken, or its answer is waited for.
WaitHolds(accept) ==
  /\ SameMove /\ Working
  /\ mem' = (IF accept THEN [a \in Addrs |-> IF mst.adr = a THEN mst.dat ELSE mem[a]] ELSE mem)
  /\ ~accept => mst'.adr = mst.adr /\ mst'.dat = mst.dat
  /\ mst'.stb => mst.stb /\ ~accept
  /\ mst'.mask = mst.mask
WaitEnds ==
  /\ c'.state = "ST_FETCH_AFTER_WB" /\ c'.count = c.count /\ c'.ignore = c.ignore
  /\ c'.mem1_addr = c.mem1_addr /\ c'.mem1_ov = c.mem1_ov
  /\ mst'.adr = c.active /\ mst'.mask = MaxCount /\ ~mst'.dready_rd /\ Working' /\ ~mst'.we
  /\ Len(pend') = 0 /\ mem' = mem /\ ~mst.stb /\ ~Working

\* What a cycle writes to the memory.
LEMMA MemoryStep ==
  ASSUME Known, NEW accept, NEW ack, NEW w, Cycle(accept, ack, w)
  PROVE  /\ ~accept \/ ~mst.we => mem' = mem
         /\ accept /\ mst.we => mem' = [a \in Addrs |-> IF mst.adr = a THEN mst.dat ELSE mem[a]]
<1>1. mem = [a \in Addrs |-> mem[a]]
  BY DEF Known, DataInv, Shapes
<1>2. mem' = [a \in Addrs |-> IF accept /\ mst.we /\ mst.adr = a THEN mst.dat ELSE mem[a]]
  BY DEF Cycle
<1>3. ASSUME ~accept \/ ~mst.we PROVE mem' = mem
  <2>1. mem' = [a \in Addrs |-> mem[a]]
    BY <1>2, <1>3
  <2> QED
    BY <1>1, <2>1
<1>4. ASSUME accept /\ mst.we PROVE mem' = [a \in Addrs |-> IF mst.adr = a THEN mst.dat ELSE mem[a]]
  BY <1>2, <1>4
<1> QED
  BY <1>3, <1>4

\* ST_WRITEBACK_PRE, ST_WRITEBACK and ST_WRITEBACK_WAIT: what one cycle does.
LEMMA WriteBackMoves ==
  ASSUME Known, NEW accept, NEW ack, NEW w, Cycle(accept, ack, w)
  PROVE  /\ c.state \in WritingBack =>
              /\ ~SetsTag(w, dready(w, accept, ack)) /\ c'.active = c.active /\ c'.ignore = c.ignore
              /\ ~InIdle /\ ~c'.mem1_write_en
         /\ c.state = "ST_WRITEBACK_PRE" => PreMove(w)
         /\ c.state = "ST_WRITEBACK" => WbHolds \/ WbNext(w) \/ WbLast(w)
         /\ c.state = "ST_WRITEBACK_WAIT" => WaitHolds(accept) \/ WaitEnds
<1> DEFINE d == dready(w, accept, ack)
           u == MasterInput(w)
<1>1. ASSUME c.state \in WritingBack
      PROVE  /\ ~InIdle /\ c.state \notin Fetching
             /\ ~SetsTag(w, d) /\ c'.active = c.active /\ c'.ignore = c.ignore /\ ~c'.mem1_write_en
  <2>1. ~InIdle /\ c.state \notin Fetching /\ c.state # "ST_FETCH"
    BY <1>1 DEF WritingBack, InIdle, Fetching
  <2> QED
    BY <2>1, BusyRegisters
<1>2. c.count \in 0 .. MaxCount
  BY Basics
<1>3. CASE c.state = "ST_WRITEBACK_PRE"
  <2>1. d /\ ~Working /\ c.count = MaxCount
    BY <1>3, TakenWord, PhaseFacts
  <2>2. Advances(d) /\ ~InIdle
    BY <2>1, <1>3 DEF Advances, InIdle
  <2>3. c'.state = "ST_WRITEBACK"
    BY <1>3, <2>1, <2>2, BusyRegisters DEF NextState, InIdle, Fetching
  <2>4. /\ c'.count = MaxCount - 1 /\ c'.mem1_addr = WrapNext(c.mem1_addr, MaxCount)
    <3>1. c'.mem1_addr = WrapNext(c.mem1_addr, MaxCount)
      BY <2>2, BusyRegisters
    <3>2. c'.count = (IF c.count = 0 THEN MaxCount ELSE c.count - 1)
      BY <2>2, BusyRegisters
    <3>3. c.count # 0
      BY <2>1, MaxFacts
    <3> QED
      BY <2>1, <3>1, <3>2, <3>3
  <2>5. c'.mem1_ov = (c.mem1_ov \/ WordOf(c.mem1_addr) = MaxCount)
    BY <1>3, <2>2, BusyRegisters DEF Known, DataInv, Shapes
  <2>6. /\ u.en /\ u.addr = w.tag_in.line * WordsPerLine + WordOf(core.addr)
        /\ u.din = w.mem1_dout /\ u.burst = MaxCount
    BY <1>3, AskData
  <2>7. /\ mst'.adr = w.tag_in.line * WordsPerLine + WordOf(core.addr)
        /\ mst'.dat = w.mem1_dout /\ mst'.mask = MaxCount /\ Working' /\ ~accept
    BY <2>1, <2>6, MasterData DEF MasterMoves
  <2>8. mem' = mem
    BY <2>7, MemoryStep
  <2>9. PreMove(w)
    BY <2>3, <2>4, <2>5, <2>7, <2>8 DEF PreMove
  <2> QED
    BY <1>1, <1>3, <2>9 DEF WritingBack
<1>4. CASE c.state = "ST_WRITEBACK"
  <2>1. (d <=> accept) /\ Working /\ mst.we /\ c.count + 1 = mst.count /\ ~mst.complete
    BY <1>4, TakenWord, PhaseFacts
  <2>2. (Advances(d) <=> accept) /\ ~InIdle
    BY <2>1, <1>4 DEF Advances, InIdle
  <2>3. Working'
    <3>1. mst.count > 0
      BY <1>2, <2>1, MaxFacts
    <3> QED
      BY <2>1, <3>1, MasterData DEF MasterMoves
  <2>4. /\ mst'.adr = (IF accept THEN WrapNext(mst.adr, mst.mask) ELSE mst.adr)
        /\ mst'.dat = (IF accept THEN w.mem1_dout ELSE mst.dat)
        /\ mst'.mask = mst.mask
    BY <2>1, MasterData
  <2>5. CASE ~accept
    <3>1. c'.state = "ST_WRITEBACK"
      BY <1>4, <2>1, <2>2, <2>5, BusyRegisters DEF NextState, InIdle, Fetching
    <3>2. SameMove
      BY <1>1, <1>4, <2>2, <2>5, <3>1, BusyRegisters DEF SameMove, WritingBack
    <3>3. mem' = mem
      BY <2>5, MemoryStep
    <3> QED
      BY <1>1, <1>4, <2>3, <2>4, <2>5, <3>2, <3>3 DEF WbHolds, WritingBack
  <2>6. CASE accept
    <3>1. /\ c'.mem1_addr = WrapNext(c.mem1_addr, MaxCount)
          /\ c'.count = (IF c.count = 0 THEN MaxCount ELSE c.count - 1)
          /\ c'.mem1_ov = ((c.mem1_ov \/ WordOf(c.mem1_addr) = MaxCount) /\ c.count # 0)
      BY <1>4, <2>2, <2>6, BusyRegisters
    <3>2. WbTakes(w)
      BY <2>1, <2>3, <2>4, <2>6, <3>1, MemoryStep DEF WbTakes
    <3>3. CASE c.count # 0
      <4>1. c'.state = "ST_WRITEBACK"
        BY <1>4, <2>1, <2>2, <2>6, <3>3, BusyRegisters DEF NextState, InIdle, Fetching
      <4>2. c'.mem1_ov = (c.mem1_ov \/ WordOf(c.mem1_addr) = MaxCount)
        BY <3>1, <3>3 DEF Known, DataInv, Shapes
      <4> QED
        BY <1>1, <1>4, <3>1, <3>2, <3>3, <4>1, <4>2 DEF WbNext, WritingBack
    <3>4. CASE c.count = 0
      <4>1. c'.state = "ST_WRITEBACK_WAIT"
        BY <1>4, <2>1, <2>2, <2>6, <3>4, BusyRegisters DEF NextState, InIdle, Fetching
      <4> QED
        BY <1>1, <1>4, <3>1, <3>2, <3>4, <4>1 DEF WbLast, WritingBack
    <3> QED
      BY <3>3, <3>4
  <2> QED
    BY <2>5, <2>6, MasterData
<1>5. CASE c.state = "ST_WRITEBACK_WAIT"
  <2>1. ~Advances(d)
    BY <1>5, TakenWord DEF Advances
  <2>2. ~InIdle
    BY <1>5 DEF InIdle
  <2>3. CASE Working /\ mst.we /\ mst.count = 0 /\ ~mst.complete
    <3>1. c'.state = "ST_WRITEBACK_WAIT"
      BY <1>5, <2>2, <2>3, BusyRegisters DEF NextState, InIdle, Fetching
    <3>2. SameMove
      BY <1>1, <1>5, <2>1, <2>2, <3>1, BusyRegisters DEF SameMove, WritingBack
    <3>3. /\ ~accept => mst'.adr = mst.adr /\ mst'.dat = mst.dat
          /\ mst'.stb => mst.stb /\ ~accept
          /\ mst'.mask = mst.mask
      BY <2>3, MasterData
    <3>4. WaitHolds(accept)
      BY <2>3, <3>2, <3>3, MemoryStep, MasterData DEF WaitHolds
    <3> QED
      BY <1>1, <1>5, <3>4 DEF WritingBack
  <2>4. CASE ~Working /\ mst.complete /\ ~mst.stb
    <3>1. c'.state = "ST_FETCH_AFTER_WB"
      BY <1>5, <2>2, <2>4, BusyRegisters DEF NextState, InIdle, Fetching
    <3>2. /\ c'.count = c.count /\ c'.mem1_addr = c.mem1_addr /\ c'.mem1_ov = c.mem1_ov
      BY <2>1, <2>2, BusyRegisters
    <3>3. u.en /\ ~u.we /\ u.addr = c.active /\ u.burst = MaxCount
      BY <1>5, <2>4, AskData
    <3>4. /\ mst'.adr = c.active /\ mst'.mask = MaxCount /\ ~mst'.dready_rd /\ Working' /\ ~mst'.we
          /\ Len(pend') = 0 /\ ~accept
      BY <2>4, <3>3, MasterData DEF MasterMoves
    <3>5. WaitEnds
      BY <1>1, <1>5, <2>4, <3>1, <3>2, <3>4, MemoryStep DEF WaitEnds, WritingBack
    <3> QED
      BY <1>1, <1>5, <3>5 DEF WritingBack
  <2> QED
    BY <1>5, <2>3, <2>4, PhaseFacts
<1>6. c.state \in WritingBack => c.state \in {"ST_WRITEBACK_PRE", "ST_WRITEBACK", "ST_WRITEBACK_WAIT"}
  BY DEF WritingBack
<1> QED
  BY <1>3, <1>4, <1>5, <1>6

\* A word has come, or not.
FetchHolds == SameMove /\ Working /\ ~mst.dready_rd
FetchTakes ==
  /\ mst.dready_rd /\ c.count # 0 /\ c'.state = c.state /\ c'.count = c.count - 1 /\ c'.ignore = 0
  /\ c'.mem1_addr = WrapNext(c.mem1_addr, MaxCount) /\ Working
  /\ c'.mem1_ov = (c.mem1_ov \/ WordOf(c.mem1_addr) = MaxCount)
FetchEnds == mst.dready_rd /\ c.count = 0 /\ c'.state = "ST_IDLE"

\* ST_FETCH and ST_FETCH_AFTER_WB: what one cycle does.
LEMMA FetchMoves ==
  ASSUME Known, NEW accept, NEW ack, NEW w, Cycle(accept, ack, w), c.state \in Fetching
  PROVE  /\ FetchHolds \/ FetchTakes \/ FetchEnds
         /\ c'.active = c.active /\ ~InIdle /\ ~c'.mem1_write_en
         /\ SetsTag(w, dready(w, accept, ack)) <=> Untagged /\ mst.dready_rd
         /\ mem' = mem
<1> DEFINE d == dready(w, accept, ack)
<1>1. ~InIdle
  BY DEF Fetching, InIdle
<1>2. d <=> mst.dready_rd
  BY TakenWord
<1>3. Advances(d) <=> d
  BY <1>1 DEF Advances, Fetching
<1>4. NextState(w, d) = IF d /\ c.count = 0 THEN "ST_IDLE" ELSE c.state
  <2>1. CASE c.state = "ST_FETCH"
    BY <2>1 DEF NextState, InIdle, Fetching
  <2>2. CASE c.state = "ST_FETCH_AFTER_WB"
    BY <2>2 DEF NextState, InIdle, Fetching
  <2> QED
    BY <2>1, <2>2 DEF Fetching
<1>5. mem' = mem
  BY MemoryStep, MasterData, PhaseFacts
<1>6. /\ c'.active = c.active /\ ~c'.mem1_write_en
      /\ SetsTag(w, d) <=> Untagged /\ mst.dready_rd
  BY <1>1, <1>2, BusyRegisters DEF Untagged
<1>7. (Working /\ ~mst.we) \/ (~Working /\ mst.dready_rd /\ c.count = 0)
  BY PhaseFacts
<1>8. CASE ~mst.dready_rd
  <2>1. SameMove
    BY <1>1, <1>2, <1>3, <1>4, <1>8, BusyRegisters DEF SameMove
  <2> QED
    BY <1>1, <1>5, <1>6, <1>7, <1>8, <2>1 DEF FetchHolds
<1>9. CASE mst.dready_rd /\ c.count # 0
  <2>1. c'.mem1_ov = (c.mem1_ov \/ WordOf(c.mem1_addr) = MaxCount)
    BY <1>1, <1>2, <1>3, <1>9, BusyRegisters DEF Fetching, Known, DataInv, Shapes
  <2>2. FetchTakes
    BY <1>1, <1>2, <1>3, <1>4, <1>7, <1>9, <2>1, BusyRegisters DEF FetchTakes
  <2> QED
    BY <1>1, <1>5, <1>6, <2>2
<1>10. CASE mst.dready_rd /\ c.count = 0
  <2>1. FetchEnds
    BY <1>1, <1>2, <1>4, <1>10, BusyRegisters DEF FetchEnds
  <2> QED
    BY <1>1, <1>5, <1>6, <2>1
<1> QED
  BY <1>8, <1>9, <1>10

-----------------------------------------------------------------------------
(* The parts of the invariant that are about types, and about the tags     *)
(* being cleared after a reset.                                            *)

\* What the next cycle finds held, and dirty.
LEMMA HeldStep ==
  ASSUME Known, NEW accept, NEW ack, NEW w, Cycle(accept, ack, w), c.tag_init_complete,
         NEW a \in Nat
  PROVE  LET new == SetsTag(w, dready(w, accept, ack)) /\ IndexOf(a) = IndexOf(core.addr)
         IN  /\ Held(a)' <=> IF new THEN LineOf(a) = LineOf(core.addr) ELSE Held(a)
             /\ MarkedDirty(a)' <=> IF new THEN core.we
                                    ELSE MarkedDirty(a) \/ (Marks /\ IndexOf(a) = IndexOf(core.addr))
<1> DEFINE S == SetsTag(w, dready(w, accept, ack))
<1>1. PICK i \in Indices : i = IndexOf(a)
  BY IndexFacts
<1>2. PICK t : t = TagAfter(i)
  OBVIOUS
<1>3. IsTag(t)
  BY <1>2, TagKept
<1>4. TagAfter(i)' = IF S /\ i = IndexOf(core.addr)
                       THEN [line |-> LineOf(core.addr), dirty |-> core.we, valid |-> TRUE]
                     ELSE IF Marks /\ i = IndexOf(core.addr) THEN [t EXCEPT !.dirty = TRUE] ELSE t
  BY <1>2, TagStep
<1>5. [t EXCEPT !.dirty = TRUE] = [line |-> t.line, dirty |-> TRUE, valid |-> t.valid]
  BY <1>3, MarkedTag
<1> HIDE DEF S
<1>6. /\ TagAfter(i)'.valid <=> (S /\ i = IndexOf(core.addr)) \/ t.valid
      /\ TagAfter(i)'.line = IF S /\ i = IndexOf(core.addr) THEN LineOf(core.addr) ELSE t.line
      /\ TagAfter(i)'.dirty <=> IF S /\ i = IndexOf(core.addr) THEN core.we
                                ELSE t.dirty \/ (Marks /\ i = IndexOf(core.addr))
  BY <1>4, <1>5
<1>7. /\ Held(a) <=> t.valid /\ t.line = LineOf(a)
      /\ MarkedDirty(a) <=> t.dirty
  BY <1>1, <1>2 DEF Held, MarkedDirty, IsFor
<1>8. /\ Held(a)' <=> TagAfter(i)'.valid /\ TagAfter(i)'.line = LineOf(a)
      /\ MarkedDirty(a)' <=> TagAfter(i)'.dirty
  BY <1>1 DEF Held, MarkedDirty, IsFor
<1> QED
  BY <1>1, <1>6, <1>7, <1>8 DEF S

\* The user stays a user.
LEMMA UserData ==
  ASSUME Known, NEW accept, NEW ack, NEW w, Cycle(accept, ack, w)
  PROVE  core'.we =>
           /\ core'.addr \in Writes
           /\ \E version \in (IF core'.addr = watch' THEN 0 .. 1 ELSE {0}) : core'.din = Value(core'.addr, version)
<1>1. core' \in CoreNext(complete_o(w)) /\ watch' = watch /\ ~Withdraws
  BY DEF Cycle, Turn, Known
<1>2. core' \in IdleCore => ~core'.we
  <2> SUFFICES ASSUME core' \in IdleCore PROVE ~core'.we
    OBVIOUS
  <2>1. PICK a \in Reads : core' = [en |-> FALSE, we |-> FALSE, addr |-> a, din |-> Junk]
    BY Zenon DEF IdleCore
  <2> QED
    BY <2>1
<1>3. core' \in Requests /\ core'.we =>
        core'.addr \in Writes /\ \E version \in Versions(core'.addr) : core'.din = Value(core'.addr, version)
  <2> SUFFICES ASSUME core' \in Requests, core'.we
               PROVE  core'.addr \in Writes /\ \E version \in Versions(core'.addr) : core'.din = Value(core'.addr, version)
    OBVIOUS
  <2>1. PICK r : r = core'
    OBVIOUS
  <2>2. r \notin {[en |-> TRUE, we |-> FALSE, addr |-> a, din |-> Junk] : a \in Reads}
    BY <2>1
  <2>3. r \in UNION {{[en |-> TRUE, we |-> TRUE, addr |-> a, din |-> Value(a, version)] :
                             version \in Versions(a)} : a \in Writes}
    BY <2>1, <2>2, Zenon DEF Requests
  <2>4. PICK a \in Writes : r \in {[en |-> TRUE, we |-> TRUE, addr |-> a, din |-> Value(a, version)] :
                                       version \in Versions(a)}
    BY <2>3, Zenon
  <2>5. PICK version \in Versions(a) : r = [en |-> TRUE, we |-> TRUE, addr |-> a, din |-> Value(a, version)]
    BY <2>4, Zenon
  <2>6. r.addr = a /\ r.din = Value(a, version)
    BY <2>5
  <2> QED
    BY <2>1, <2>4, <2>5, <2>6
<1>4. core' \in IdleCore \cup Requests \/ core' = core
  BY <1>1 DEF CoreNext
<1>5. core.we => core.addr \in Writes /\ \E version \in Versions(core.addr) : core.din = Value(core.addr, version)
  BY DEF Known, DataInv, Shapes
<1>6. core'.we => core'.addr \in Writes /\ \E version \in Versions(core'.addr) : core'.din = Value(core'.addr, version)
  BY <1>2, <1>3, <1>4, <1>5
<1> QED
  BY <1>1, <1>6 DEF Versions

\* A tag from its three parts.
LEMMA TagBuilt ==
  ASSUME NEW line, NEW dirty \in BOOLEAN, NEW valid \in BOOLEAN
  PROVE  IsTag([line |-> line, dirty |-> dirty, valid |-> valid])
BY DEF IsTag

\* Every cycle keeps the types.
LEMMA ShapesStep ==
  ASSUME Known, NEW accept, NEW ack, NEW w, Cycle(accept, ack, w)
  PROVE  Shapes'
<1> DEFINE d == dready(w, accept, ack)
           r == Tag1Edge(w, {})
<1>1. /\ c.tag_we \in BOOLEAN /\ c.tag1_we \in BOOLEAN /\ c.mem1_ov \in BOOLEAN
      /\ c.mem_write_en \in BOOLEAN /\ c.mem1_write_en \in BOOLEAN /\ c.pending_1d \in BOOLEAN
      /\ c.tag1_index \in Indices /\ IsTag(c.tag_out) /\ IsTag(c.tag1_out)
      /\ \A i \in Indices : IsTag(tags[i])
  BY DEF Known, DataInv, Shapes
<1>2. c'.tag_we \in BOOLEAN /\ c'.pending_1d \in BOOLEAN
  <2>1. c'.tag_we = SetsTag(w, d) /\ c'.pending_1d = pending_write
    BY DEF Cycle
  <2> QED
    BY <2>1 DEF SetsTag, pending_write
<1>3. c'.mem_write_en \in BOOLEAN /\ c'.mem1_write_en \in BOOLEAN
  BY DEF Cycle
<1>4. c'.mem1_ov \in BOOLEAN
  <2>1. c'.mem1_ov = NextMem1Ov(d)
    BY DEF Cycle
  <2> QED
    BY <1>1, <2>1 DEF NextMem1Ov
<1>5. IsTag(w.tag_in)
  <2>1. w.tag_in = tags[IndexOf(core.addr)] \/ w.tag_in = c.tag1_out
    BY DEF Cycle, RamOut
  <2> QED
    BY <1>1, <2>1, Basics
<1>6. /\ c'.tag1_we = r.tag1_we /\ c'.tag1_out = r.tag1_out /\ c'.tag1_index = r.tag1_index
      /\ c'.tag_out = IF SetsTag(w, d)
                    THEN [line |-> LineOf(core.addr), dirty |-> core.we, valid |-> TRUE] ELSE c.tag_out
  BY DEF Cycle
<1>7. IsTag(c'.tag_out)
  <2>1. core.we \in BOOLEAN
    BY Basics
  <2> QED
    BY <1>1, <1>6, <2>1, TagBuilt
<1>8. c'.tag1_we \in BOOLEAN /\ IsTag(c'.tag1_out) /\ c'.tag1_index \in Indices
  <2>1. CASE ~c.tag_init_complete
    <3>1. /\ r.tag1_we = TRUE /\ r.tag1_out = c.tag1_out
          /\ r.tag1_index = (c.tag1_index + 1) % NumberOfLines
      BY <2>1 DEF Tag1Edge
    <3>2. (c.tag1_index + 1) % NumberOfLines \in Indices
      <4>1. \A n \in Nat \ {0} : \A x \in 0 .. n - 1 : (x + 1) % n \in 0 .. n - 1
        OBVIOUS
      <4> QED
        BY <1>1, <4>1, SizeFacts
    <3> QED
      BY <1>1, <1>6, <3>1, <3>2
  <2>2. CASE c.tag_init_complete /\ cache_hit(w) /\ core.we
    <3>1. /\ r.tag1_we = TRUE /\ r.tag1_out = [w.tag_in EXCEPT !.dirty = TRUE]
          /\ r.tag1_index = IndexOf(core.addr)
      BY <2>2 DEF Tag1Edge, Known
    <3>2. r.tag1_out = [line |-> w.tag_in.line, dirty |-> TRUE, valid |-> w.tag_in.valid]
      BY <3>1, <1>5, MarkedTag
    <3>3. IsTag(r.tag1_out)
      <4>1. w.tag_in.valid \in BOOLEAN
        BY <1>5 DEF IsTag
      <4>2. IsTag([line |-> w.tag_in.line, dirty |-> TRUE, valid |-> w.tag_in.valid])
        BY <4>1, TagBuilt, Zenon
      <4> QED
        BY <3>2, <4>2
    <3> QED
      BY <1>6, <3>1, <3>3, Basics
  <2>3. CASE c.tag_init_complete /\ ~(cache_hit(w) /\ core.we)
    <3>1. r.tag1_we = FALSE /\ r.tag1_out = c.tag1_out /\ r.tag1_index = c.tag1_index
      BY <2>3 DEF Tag1Edge, Known
    <3> QED
      BY <1>1, <1>6, <3>1
  <2> QED
    BY <2>1, <2>2, <2>3
<1>9. tags' = [i \in Indices |-> tags'[i]] /\ \A i \in Indices : IsTag(tags'[i])
  <2>1. \A i \in Indices : tags'[i] \in {tags[i], c.tag_out, c.tag1_out}
    BY TagsWritten DEF TagAfter
  <2> QED
    BY <1>1, <2>1, TagsWritten
<1>10. words' = [x \in CellNos |-> words'[x]] /\ mem' = [a \in Addrs |-> mem'[a]]
  <2>1. mem' = [a \in Addrs |-> mem'[a]]
    BY DEF Cycle
  <2> QED
    BY <2>1, WordsWritten
<1>11. core'.we =>
         /\ core'.addr \in Writes
         /\ \E version \in (IF core'.addr = watch' THEN 0 .. 1 ELSE {0}) : core'.din = Value(core'.addr, version)
  BY UserData
<1> QED
  BY <1>2, <1>3, <1>4, <1>7, <1>8, <1>9, <1>10, <1>11 DEF Shapes, Versions

\* The addresses of the memory, and their lines.
LEMMA UsedWords ==
  ASSUME ~WriteThrough
  PROVE  /\ \A a \in Addrs : a \in Nat /\ LineOf(a) \in Lines
         /\ \A line \in Lines : line \in Nat
         /\ \A a \in Nat : LineOf(a) \in Lines => a \in Addrs
         /\ \A a \in Reads \cup Writes : a \in Addrs
<1>1. Others = {} /\ Reads \cup Writes \subseteq Nat
  BY WbCacheAssumption DEF WbCacheAssumption
<1>2. \A b \in Used : b \in Nat /\ LineOf(b) \in Nat
  <2>1. \A b \in Used : b \in Nat
    BY <1>1 DEF Used
  <2> QED
    BY <2>1, AddressParts
<1>3. ASSUME NEW a \in Addrs
      PROVE  \E b \in Used : \E i \in 0 .. MaxCount : a = (LineOf(b) * WordsPerLine) + i
  BY <1>3, Zenon DEF Addrs
<1>4. ASSUME NEW b \in Used, NEW i \in 0 .. MaxCount
      PROVE  (LineOf(b) * WordsPerLine) + i \in Addrs
  <2> DEFINE line(a) == {(LineOf(a) * WordsPerLine) + j : j \in 0 .. MaxCount}
  <2>1. Addrs = UNION {line(a) : a \in Used}
    BY Zenon DEF Addrs
  <2>2. (LineOf(b) * WordsPerLine) + i \in line(b)
    BY Zenon
  <2> HIDE DEF line
  <2> QED
    BY <2>1, <2>2
<1>5. \A a \in Addrs : a \in Nat /\ \E b \in Used : LineOf(a) = LineOf(b)
  <2> TAKE a \in Addrs
  <2>1. PICK b \in Used, i \in 0 .. MaxCount : a = (LineOf(b) * WordsPerLine) + i
    BY <1>3
  <2>2. a \in Nat /\ LineOf(a) = LineOf(b)
    BY <1>2, <2>1, FromParts, Zenon
  <2> QED
    BY <2>2
<1>6. \A a \in Addrs : LineOf(a) \in Lines
  BY DEF Lines
<1>7. \A line \in Lines : line \in Nat /\ \E b \in Used : line = LineOf(b)
  <2> TAKE line \in Lines
  <2>1. PICK a \in Addrs : line = LineOf(a)
    BY DEF Lines
  <2> QED
    BY <1>2, <1>5, <2>1
<1>8. \A a \in Nat : LineOf(a) \in Lines => a \in Addrs
  <2> SUFFICES ASSUME NEW a \in Nat, LineOf(a) \in Lines PROVE a \in Addrs
    OBVIOUS
  <2>1. PICK b \in Used : LineOf(a) = LineOf(b)
    BY <1>7
  <2>2. PICK i \in 0 .. MaxCount : i = WordOf(a)
    BY AddressParts
  <2>3. a = (LineOf(b) * WordsPerLine) + i
    BY <2>1, <2>2, AddressParts
  <2> QED
    BY <1>4, <2>3
<1>9. \A a \in Reads \cup Writes : a \in Addrs
  <2> TAKE a \in Reads \cup Writes
  <2>1. a \in Used /\ a \in Nat
    BY <1>1 DEF Used
  <2>2. PICK i \in 0 .. MaxCount : i = WordOf(a)
    BY <2>1, AddressParts
  <2>3. a = (LineOf(a) * WordsPerLine) + i
    BY <2>1, <2>2, AddressParts
  <2> QED
    BY <1>4, <2>1, <2>3
<1> QED
  BY <1>5, <1>6, <1>7, <1>8, <1>9

\* The tags are cleared, and the user has to wait.
LEMMA ClearingStep ==
  ASSUME Known, NEW accept, NEW ack, NEW w, Cycle(accept, ack, w), ~c.tag_init_complete
  PROVE  DataInv'
<1> DEFINE d == dready(w, accept, ack)
           r == Tag1Edge(w, {})
<1>1. /\ InIdle /\ c.tag1_we /\ c.tag1_out = NoTag /\ ~c.tag_we /\ ~c.mem_write_en /\ ~c.mem1_write_en
      /\ \A i \in Indices : i < c.tag1_index => tags[i] = NoTag
      /\ \A a \in Addrs : mem[a] = Newest(a)
  BY DEF Known, DataInv, TagsClear
<1>2. ~core.en /\ ~core.we /\ ~en
  BY Basics
<1>3. ~wb_fetch(w) /\ ~wb_writeback(w) /\ ~WriteHit(w) /\ ~SetsTag(w, d) /\ ~complete_o(w)
  BY <1>1, <1>2, Basics DEF wb_fetch, wb_writeback, WriteHit, SetsTag, complete_o, Known, Cycle, InIdle
<1>4. c'.state = "ST_IDLE"
  <2>1. IsUser(core)
    BY DEF Known, CacheInv
  <2> QED
    BY <1>1, <1>2, <1>3, <2>1, Leaving DEF Cycle, Turn
<1>5. ~c'.tag_we /\ ~c'.mem_write_en /\ ~c'.mem1_write_en
  BY <1>3 DEF Cycle
<1>6. c'.tag1_we /\ c'.tag1_out = NoTag /\ c'.tag1_index = (c.tag1_index + 1) % NumberOfLines
  <2>1. r.tag1_we = TRUE /\ r.tag1_out = c.tag1_out /\ r.tag1_index = (c.tag1_index + 1) % NumberOfLines
    BY DEF Tag1Edge
  <2> QED
    BY <1>1, <2>1 DEF Cycle
<1>7. c.tag1_index \in Indices
  BY DEF Known, DataInv, Shapes
<1>8. \A i \in Indices : i <= c.tag1_index => tags'[i] = NoTag
  <2> SUFFICES ASSUME NEW i \in Indices, i <= c.tag1_index PROVE tags'[i] = NoTag
    OBVIOUS
  <2>1. tags'[i] = IF i = c.tag1_index THEN c.tag1_out ELSE tags[i]
    BY <1>1, TagsWritten DEF TagAfter
  <2> QED
    BY <1>1, <1>7, <2>1, SizeFacts
<1>9. c'.tag_init_complete <=> c.tag1_index = NumberOfLines - 1
  BY DEF Cycle, Turn
<1>10. \A a \in Addrs : mem'[a] = Newest(a)'
  <2> SUFFICES ASSUME NEW a \in Addrs PROVE mem'[a] = Newest(a)'
    OBVIOUS
  <2>1. mem'[a] = mem[a]
    <3>1. ~accept
      BY <1>1, PhaseFacts, MasterData
    <3> QED
      BY <3>1 DEF Cycle
  <2>2. Newest(a)' = Newest(a)
    BY <1>3, NewestStep
  <2> QED
    BY <1>1, <2>1, <2>2
<1>11. CASE c.tag1_index # NumberOfLines - 1
  <2>1. c'.tag1_index = c.tag1_index + 1
    BY <1>6, <1>7, <1>11, SizeFacts
  <2>2. \A i \in Indices : i < c'.tag1_index => tags'[i] = NoTag
    BY <1>7, <1>8, <2>1, SizeFacts
  <2> QED
    BY <1>4, <1>5, <1>6, <1>9, <1>10, <1>11, <2>2, ShapesStep
    DEF DataInv, TagsClear, TagsFit, Port1Fits, Port0Fits, TagPortFits, Tag1PortFits,
        Phases, Places, FetchFits, WritesBack, EveryWord, InIdle, Untagged, WritingBack, Fetching, HasVictim
<1>12. CASE c.tag1_index = NumberOfLines - 1
  <2>1. c'.tag_init_complete
    BY <1>9, <1>12
  <2>2. \A i \in Indices : tags'[i] = NoTag
    BY <1>8, <1>12, SizeFacts
  <2>3. c'.tag1_index \in Indices
    BY ShapesStep DEF Shapes
  <2>4. NoTag.valid = FALSE /\ NoTag.dirty = FALSE
    BY DEF NoTag
  <2>5. Tag1PortFits'
    BY <1>6, <2>2, <2>3, <2>4 DEF Tag1PortFits
  <2>6. TagsFit'
    BY <2>2, <2>4 DEF TagsFit
  <2>7. ASSUME NEW a \in Addrs
        PROVE  ~Sits(a)'
    <3>1. a \in Nat
      BY UsedWords DEF Known
    <3>2. PICK i \in Indices : i = IndexOf(a)
      BY <3>1, IndexFacts
    <3>3. TagAfter(i)' = NoTag
      BY <1>5, <1>6, <2>2 DEF TagAfter
    <3> QED
      BY <2>4, <3>2, <3>3 DEF Sits, Held, IsFor
  <2>8. EveryWord'
    BY <1>10, <2>7 DEF EveryWord
  <2> QED
    BY <1>4, <1>5, <2>1, <2>5, <2>6, <2>8, ShapesStep
    DEF DataInv, TagsClear, Port1Fits, Port0Fits, TagPortFits,
        Phases, Places, FetchFits, WritesBack, InIdle, Untagged, WritingBack, Fetching, HasVictim
<1> QED
  BY <1>11, <1>12

-----------------------------------------------------------------------------
(* The parts of the invariant that are about tags and ports, after a cycle *)
(* in which the tags are no longer cleared.                                *)

\* A tag is for a line of its index, and only a valid one is dirty.
LEMMA TagsFitStep ==
  ASSUME Known, NEW accept, NEW ack, NEW w, Cycle(accept, ack, w), c.tag_init_complete
  PROVE  TagsFit'
<1> SUFFICES ASSUME NEW i \in Indices
             PROVE  /\ tags'[i].valid => tags'[i].line \in Lines /\ tags'[i].line % NumberOfLines = i
                    /\ tags'[i].dirty => tags'[i].valid
  BY DEF TagsFit
<1>1. tags'[i] = TagAfter(i)
  BY TagsWritten
<1>2. /\ tags[i].valid => tags[i].line \in Lines /\ tags[i].line % NumberOfLines = i
      /\ tags[i].dirty => tags[i].valid
  BY DEF Known, DataInv, TagsFit
<1>3. CASE c.tag_we /\ i = IndexOf(core.addr)
  <2>1. c.tag_out = [line |-> MyLine, dirty |-> core.we, valid |-> TRUE] /\ core.addr = c.active
    BY <1>3 DEF Known, DataInv, TagPortFits, Asking
  <2>2. LineOf(core.addr) \in Lines /\ i = LineOf(core.addr) % NumberOfLines
    BY <1>3, Basics, UsedWords, IndexFacts DEF Known
  <2> QED
    BY <1>1, <1>3, <2>1, <2>2 DEF TagAfter, MyLine
<1>4. CASE ~(c.tag_we /\ i = IndexOf(core.addr))
  <2>1. TagAfter(i).valid = tags[i].valid /\ TagAfter(i).line = tags[i].line
    BY <1>4, TagKept
  <2>2. TagAfter(i).dirty => TagAfter(i).valid
    <3>1. CASE c.tag1_we /\ i = c.tag1_index
      <4>1. tags[i].valid \/ c.tag1_out = NoTag
        BY <1>4, <3>1 DEF Known, DataInv, Tag1PortFits
      <4>2. TagAfter(i) = c.tag1_out
        BY <1>4, <3>1 DEF TagAfter
      <4> QED
        BY <2>1, <4>1, <4>2 DEF NoTag
    <3>2. CASE ~(c.tag1_we /\ i = c.tag1_index)
      BY <1>2, <1>4, <3>2 DEF TagAfter
    <3> QED
      BY <3>1, <3>2
  <2> QED
    BY <1>1, <1>2, <2>1, <2>2
<1> QED
  BY <1>3, <1>4

\* What the user hits now it hits in the next cycle too.
LEMMA HitStays ==
  ASSUME Known, NEW accept, NEW ack, NEW w, Cycle(accept, ack, w), Tagged(core.addr), c.tag_init_complete
  PROVE  /\ IsFor(tags'[IndexOf(core.addr)], core.addr)
         /\ tags'[IndexOf(core.addr)] = TagAfter(IndexOf(core.addr))
<1>1. PICK i \in Indices : i = IndexOf(core.addr)
  BY Basics
<1>2. tags'[i] = TagAfter(i)
  BY TagsWritten
<1>3. TagAfter(i).valid = tags[i].valid /\ TagAfter(i).line = tags[i].line
  BY HitAlone, TagKept
<1> QED
  BY <1>1, <1>2, <1>3 DEF Tagged, IsFor

\* A word written while nothing is fetched is the one asked for.
LEMMA Port1Step ==
  ASSUME Known, NEW accept, NEW ack, NEW w, Cycle(accept, ack, w), c.tag_init_complete
  PROVE  Port1Fits'
<1> SUFFICES ASSUME c'.mem1_write_en
             PROVE  /\ c'.state = "ST_IDLE" /\ ~c'.mem_write_en /\ c'.mem1_addr = CellOf(c'.active) /\ c'.active \in Writes
                    /\ c'.pending_1d => core'.en /\ core'.addr = c'.active /\ core'.we
                    /\ IsFor(tags'[IndexOf(c'.active)], c'.active)
  BY DEF Port1Fits, InIdle, Asking, MyIndex
<1>1. InIdle /\ WriteHit(w) /\ ~c'.mem_write_en
  BY DEF Cycle
<1>2. Tagged(core.addr) /\ core.we /\ core.en
  BY <1>1, Wires, Basics
<1>3. ~wb_fetch(w) /\ ~wb_writeback(w)
  BY <1>2, Wires
<1>4. c'.state = "ST_IDLE" /\ c'.active = core.addr
  BY <1>1, <1>3, IdleMoves DEF IdleStays, FetchStarts, WriteBackStarts
<1>5. c'.mem1_addr = CellOf(core.addr)
  <2>1. ~Advances(dready(w, accept, ack))
    BY <1>1 DEF Advances
  <2> QED
    BY <1>1, <1>3, <2>1 DEF Cycle, NextMem1Addr
<1>6. core.addr \in Writes
  BY <1>2 DEF Known, DataInv, Shapes
<1>7. c'.pending_1d => core' = core
  <2> SUFFICES ASSUME c'.pending_1d PROVE core' = core
    OBVIOUS
  <2>1. pending_write
    BY DEF Cycle
  <2> QED
    BY <1>2, <2>1, Wires, Repeats
<1> QED
  BY <1>1, <1>2, <1>4, <1>5, <1>6, <1>7, HitStays

\* The user's word has been passed.
LEMMA PassedFacts ==
  ASSUME Known, ~InIdle
  PROVE  Passed <=> Ahead(c.active, core.addr) < Gone
<1>1. core.addr \in Nat /\ c.active \in Nat /\ Gone \in 0 .. MaxCount
  BY Basics
<1>2. Position(addr_ov_bit, core.addr) = WordOf(c.active) + Ahead(c.active, core.addr)
  BY <1>1, PlaceOf DEF addr_ov_bit
<1>3. Position(c.mem1_ov, c.mem1_addr) = WordOf(c.active) + Gone
  BY DEF Known, DataInv, Places
<1>4. WordOf(c.active) \in 0 .. MaxCount /\ Ahead(c.active, core.addr) \in 0 .. MaxCount
  BY <1>1, AddressParts, AheadFacts
<1> QED
  BY <1>1, <1>2, <1>3, <1>4, MaxFacts DEF Passed

\* A request of the line under way that may go on.
LEMMA LineInactive ==
  ASSUME Known, ~InIdle, SameLine, NEW we \in BOOLEAN, ~line_active(we)
  PROVE  \/ c.state \in Fetching /\ Ahead(c.active, core.addr) < Gone
         \/ c.state = "ST_WRITEBACK" /\ core.addr = c.active /\ Gone = 1 /\ we
<1>1. Passed
  BY DEF line_active, Known
<1>2. Ahead(c.active, core.addr) < Gone
  BY <1>1, PassedFacts
<1>3. c.state \in Fetching \/ (c.state = "ST_WRITEBACK" /\ c.count = MaxCount - 1 /\ we)
  BY DEF line_active, Known
<1>4. CASE c.state = "ST_WRITEBACK" /\ c.count = MaxCount - 1 /\ we
  <2>1. Gone = 1
    BY <1>4, MaxFacts DEF Gone
  <2>2. Ahead(c.active, core.addr) \in 0 .. MaxCount /\ core.addr \in Nat /\ c.active \in Nat
    BY Basics, AheadFacts
  <2>3. Ahead(c.active, core.addr) = 0
    BY <1>2, <2>1, <2>2, MaxFacts
  <2>4. core.addr = c.active
    BY <2>2, <2>3, AheadFacts DEF SameLine
  <2> QED
    BY <1>4, <2>1, <2>4
<1> QED
  BY <1>2, <1>3, <1>4

\* What the user hits in the index of the transfer is its line.
LEMMA HitLine ==
  ASSUME Known, c.tag_init_complete, ~InIdle, Tagged(core.addr), IndexOf(core.addr) = MyIndex
  PROVE  SameLine /\ ~Untagged /\ Tagged(c.active)
<1>1. ~Untagged
  BY DEF Known, DataInv, Phases, Asking
<1>2. Held(c.active)
  BY <1>1 DEF Known, DataInv, Phases
<1>3. Tagged(c.active)
  BY <1>2, HitAlone, HitIsHeld, Basics
<1> QED
  BY <1>1, <1>3 DEF Tagged, IsFor, SameLine, MyIndex

\* A word written during a transfer has passed.
LEMMA Port0Step ==
  ASSUME Known, NEW accept, NEW ack, NEW w, Cycle(accept, ack, w), c.tag_init_complete
  PROVE  Port0Fits'
<1> SUFFICES ASSUME c'.mem_write_en
             PROVE  /\ core'.en /\ core'.we /\ c'.mem_din = core'.din
                    /\ IsFor(tags'[IndexOf(core'.addr)], core'.addr)
                    /\ c'.tag1_we /\ c'.tag1_index = IndexOf(core'.addr)
                    /\ (c'.state # "ST_IDLE" /\ IndexOf(core'.addr) = IndexOf(c'.active)) =>
                         \/ c'.state \in Fetching /\ Ahead(c'.active, core'.addr) < MaxCount - c'.count
                         \/ /\ c'.state = "ST_WRITEBACK" /\ core'.addr = c'.active
                            /\ MaxCount - c'.count \in {1, 2} /\ c'.ignore = 1
  BY DEF Port0Fits, InIdle, Tagged, MyIndex, Gone
<1>1. ~InIdle /\ WriteHit(w) /\ ~c.mem_write_en
  BY DEF Cycle
<1>2. Tagged(core.addr) /\ core.we /\ core.en /\ ~line_active(core.we) /\ ~complete_o(w)
  BY <1>1, Wires, Basics
<1>3. core' = core /\ c'.mem_din = core.din
  BY <1>2, Repeats DEF Cycle
<1>4. c'.tag1_we /\ c'.tag1_index = IndexOf(core.addr)
  <2>1. Tag1Edge(w, {}).tag1_we = TRUE /\ Tag1Edge(w, {}).tag1_index = IndexOf(core.addr)
    BY <1>2, Wires DEF Tag1Edge, Known
  <2> QED
    BY <2>1 DEF Cycle
<1>5. ASSUME c'.state # "ST_IDLE", IndexOf(core.addr) = IndexOf(c'.active)
      PROVE  \/ c'.state \in Fetching /\ Ahead(c'.active, core.addr) < MaxCount - c'.count
             \/ /\ c'.state = "ST_WRITEBACK" /\ core.addr = c'.active
                /\ MaxCount - c'.count \in {1, 2} /\ c'.ignore = 1
  <2>1. c'.active = c.active
    BY <1>1, BusyRegisters
  <2>2. SameLine
    BY <1>1, <1>2, <1>5, <2>1, HitLine DEF MyIndex
  <2>3. \/ c.state \in Fetching /\ Ahead(c.active, core.addr) < Gone
        \/ c.state = "ST_WRITEBACK" /\ core.addr = c.active /\ Gone = 1 /\ core.we
    BY <1>1, <1>2, <2>2, LineInactive, Basics
  <2>4. Ahead(c.active, core.addr) \in 0 .. MaxCount /\ c.count \in 0 .. MaxCount
    BY <1>1, Basics, AheadFacts
  <2>5. CASE c.state \in Fetching /\ Ahead(c.active, core.addr) < Gone
    <3>1. CASE FetchHolds
      BY <2>1, <2>5, <3>1 DEF FetchHolds, SameMove, Gone
    <3>2. CASE FetchTakes
      <4>1. c'.count = c.count - 1 /\ c'.state \in Fetching
        BY <2>5, <3>2 DEF FetchTakes
      <4> QED
        BY <2>1, <2>4, <2>5, <4>1, MaxFacts DEF Gone
    <3> QED
      BY <1>5, <2>5, <3>1, <3>2, FetchMoves DEF FetchEnds
  <2>6. CASE c.state = "ST_WRITEBACK" /\ core.addr = c.active /\ Gone = 1 /\ core.we
    <3>1. c.state \in WritingBack
      BY <2>6 DEF WritingBack
    <3>2. c'.ignore = c.ignore /\ c.ignore = 1
      BY <1>1, <2>6, <3>1, WriteBackMoves DEF Known, DataInv, Phases
    <3>3. c.count = MaxCount - 1 /\ c.count # 0
      BY <2>4, <2>6, MaxFacts DEF Gone
    <3>4. CASE WbHolds
      BY <2>1, <2>6, <3>2, <3>4 DEF WbHolds, SameMove, Gone
    <3>5. CASE WbNext(w)
      <4>1. c'.count = MaxCount - 2 /\ c'.state = "ST_WRITEBACK"
        BY <3>3, <3>5, MaxFacts DEF WbNext
      <4> QED
        BY <2>1, <2>6, <3>2, <4>1, MaxFacts
    <3> QED
      BY <2>6, <3>3, <3>4, <3>5, WriteBackMoves DEF WbLast
  <2> QED
    BY <2>3, <2>5, <2>6
<1> QED
  BY <1>2, <1>3, <1>4, <1>5, HitStays

\* The tag of a new line is written in the second cycle of its transfer.
LEMMA TagPortStep ==
  ASSUME Known, NEW accept, NEW ack, NEW w, Cycle(accept, ack, w), c.tag_init_complete
  PROVE  TagPortFits'
<1> DEFINE d == dready(w, accept, ack)
<1> SUFFICES ASSUME c'.tag_we
             PROVE  /\ core'.en /\ core'.addr = c'.active /\ ~c'.tag1_we /\ ~c'.mem_write_en
                    /\ ~IsFor(tags'[IndexOf(c'.active)], c'.active)
                    /\ c'.tag_out = [line |-> LineOf(c'.active), dirty |-> core'.we, valid |-> TRUE]
                    /\ \/ c'.state = "ST_WRITEBACK_PRE"
                       \/ c'.state = "ST_FETCH" /\ MaxCount - c'.count = 1
  BY DEF TagPortFits, Asking, Tagged, MyLine, Gone
<1>1. /\ SetsTag(w, d)
      /\ c'.tag_out = [line |-> LineOf(core.addr), dirty |-> core.we, valid |-> TRUE]
  BY DEF Cycle
<1>2. /\ core.en /\ ~Tagged(core.addr) /\ ~c.tag_we /\ core' = core
      /\ Untagged \/ (InIdle /\ wb_writeback(w))
  BY <1>1, SettingTag
<1>3. ~c'.tag1_we /\ ~c'.mem_write_en
  <2>1. Tag1Edge(w, {}).tag1_we = FALSE
    BY <1>2, Wires DEF Tag1Edge, Known
  <2> QED
    BY <1>2, <2>1, Wires DEF Cycle
<1>4. c'.active = core.addr
  BY <1>2 DEF Cycle, Known, DataInv, Phases, Asking
<1>5. ~IsFor(tags'[IndexOf(core.addr)], core.addr)
  <2>1. PICK i \in Indices : i = IndexOf(core.addr)
    BY Basics
  <2>2. tags'[i].valid = tags[i].valid /\ tags'[i].line = tags[i].line
    BY <1>2, <2>1, TagKept, TagsWritten
  <2> QED
    BY <1>2, <2>1, <2>2 DEF Tagged, IsFor
<1>6. CASE Untagged
  <2>1. c.state = "ST_FETCH" /\ c.count = MaxCount /\ ~InIdle /\ c.state \in Fetching
    BY <1>6 DEF Untagged, InIdle, Fetching
  <2>2. d
    BY <1>1, <2>1 DEF SetsTag
  <2>3. mst.dready_rd /\ c.count # 0
    BY <2>1, <2>2, TakenWord, MaxFacts
  <2>4. FetchTakes
    BY <2>1, <2>3, FetchMoves DEF FetchHolds, FetchEnds
  <2>5. c'.state = "ST_FETCH" /\ c'.count = MaxCount - 1
    BY <2>1, <2>4 DEF FetchTakes
  <2>6. MaxCount - c'.count = 1
    BY <2>5, MaxFacts
  <2> QED
    BY <1>1, <1>2, <1>3, <1>4, <1>5, <2>5, <2>6
<1>7. CASE InIdle /\ wb_writeback(w)
  <2>1. c'.state = "ST_WRITEBACK_PRE"
    BY <1>7, IdleMoves DEF IdleStays, FetchStarts, WriteBackStarts
  <2> QED
    BY <1>1, <1>2, <1>3, <1>4, <1>5, <2>1
<1> QED
  BY <1>2, <1>6, <1>7

\* A tag that is marked is that of a word being written.
LEMMA Tag1PortStep ==
  ASSUME Known, NEW accept, NEW ack, NEW w, Cycle(accept, ack, w), c.tag_init_complete
  PROVE  Tag1PortFits'
<1> SUFFICES ASSUME c'.tag1_we
             PROVE  /\ c'.tag1_out = [tags'[c'.tag1_index] EXCEPT !.dirty = TRUE]
                    /\ tags'[c'.tag1_index].valid
                    /\ ~tags'[c'.tag1_index].dirty =>
                         \/ c'.mem1_write_en /\ c'.tag1_index = IndexOf(c'.active)
                         \/ /\ core'.en /\ core'.we /\ c'.tag1_index = IndexOf(core'.addr)
                            /\ IsFor(tags'[IndexOf(core'.addr)], core'.addr)
  BY DEF Tag1PortFits, Writing, Tagged, MyIndex
<1>1. /\ Marks /\ c'.tag1_out = [w.tag_in EXCEPT !.dirty = TRUE]
      /\ c'.tag1_index = IndexOf(core.addr)
  <2>1. cache_hit(w) /\ core.we
    BY DEF Cycle, Tag1Edge, Known
  <2>2. /\ Tag1Edge(w, {}).tag1_out = [w.tag_in EXCEPT !.dirty = TRUE]
        /\ Tag1Edge(w, {}).tag1_index = IndexOf(core.addr)
    BY <2>1 DEF Tag1Edge, Known
  <2> QED
    BY <2>1, <2>2, Wires DEF Cycle, Marks
<1>2. PICK j \in Indices : j = IndexOf(core.addr)
  BY Basics
<1>3. ~c.tag_we /\ core.we /\ core.en /\ Tagged(core.addr)
  BY <1>1, HitAlone, Basics DEF Marks
<1>4. tags'[j] = TagAfter(j)
  BY TagsWritten
<1>5. /\ IsTag(TagAfter(j)) /\ TagAfter(j).valid = tags[j].valid /\ TagAfter(j).line = tags[j].line
  BY <1>3, TagKept
<1>6. /\ IsTag(w.tag_in) /\ w.tag_in.valid = tags[j].valid /\ w.tag_in.line = tags[j].line
  BY <1>2, TagRead
<1>7. [w.tag_in EXCEPT !.dirty = TRUE] = [line |-> tags[j].line, dirty |-> TRUE, valid |-> tags[j].valid]
  BY <1>6, MarkedTag
<1>8. [TagAfter(j) EXCEPT !.dirty = TRUE] = [line |-> tags[j].line, dirty |-> TRUE, valid |-> tags[j].valid]
  BY <1>5, MarkedTag
<1>9. tags[j].valid /\ c'.tag1_out = [tags'[j] EXCEPT !.dirty = TRUE] /\ tags'[j].valid
  BY <1>1, <1>2, <1>3, <1>4, <1>5, <1>7, <1>8 DEF Tagged, IsFor
<1>10. ASSUME ~tags'[j].dirty
       PROVE  \/ c'.mem1_write_en /\ j = IndexOf(c'.active)
              \/ /\ core'.en /\ core'.we /\ j = IndexOf(core'.addr)
                 /\ IsFor(tags'[IndexOf(core'.addr)], core'.addr)
  <2>1. CASE InIdle
    BY <1>2, <1>3, <2>1, Wires DEF Cycle
  <2>2. CASE ~InIdle /\ ~complete_o(w)
    <3>1. core' = core
      BY <1>3, <2>2, Repeats
    <3> QED
      BY <1>2, <1>3, <3>1, HitStays
  <2>3. CASE ~InIdle /\ complete_o(w)
    <3>1. c.mem_write_en
      BY <1>3, <2>3, Wires
    <3>2. c.tag1_we /\ c.tag1_index = j
      BY <1>2, <3>1 DEF Known, DataInv, Port0Fits
    <3>3. tags'[j] = c.tag1_out
      BY <1>3, <1>4, <3>2 DEF TagAfter
    <3>4. c.tag1_out = [tags[j] EXCEPT !.dirty = TRUE] \/ ~tags[j].valid
      BY <3>2 DEF Known, DataInv, Tag1PortFits, NoTag
    <3>5. c.tag1_out = [line |-> tags[j].line, dirty |-> TRUE, valid |-> tags[j].valid]
      BY <1>9, <3>4, TagKept, MarkedTag
    <3> QED
      BY <1>10, <3>3, <3>5
  <2> QED
    BY <2>1, <2>2, <2>3
<1> QED
  BY <1>1, <1>2, <1>9, <1>10

-----------------------------------------------------------------------------
(* The parts that are about the transfer: where it is, and what it is for. *)

\* The first word of a transfer.
LEMMA FirstAround ==
  ASSUME NEW a \in Nat, NEW line \in Nat
  PROVE  /\ Around(a, line, 0) = (line * WordsPerLine) + WordOf(a)
         /\ Around(a, LineOf(a), 0) = a
         /\ Position(FALSE, CellOf(a)) = WordOf(a) + 0
<1>1. PICK x \in 0 .. MaxCount : x = WordOf(a)
  BY AddressParts
<1>2. (x + 0) % WordsPerLine = x
  BY <1>1, GapRemainder, MaxFacts
<1>3. Around(a, line, 0) = (line * WordsPerLine) + WordOf(a)
  BY <1>1, <1>2 DEF Around
<1>4. Around(a, LineOf(a), 0) = a
  BY AheadFacts
<1>5. Position(FALSE, CellOf(a)) = WordOf(a) + 0
  BY <1>1, CellFacts, MaxFacts DEF Position
<1> QED
  BY <1>3, <1>4, <1>5

\* The line whose tag is dirty is one of the memory's, with the same index.
LEMMA DirtyLine ==
  ASSUME Known, NEW accept, NEW ack, NEW w, Cycle(accept, ack, w), c.tag_init_complete, w.tag_in.dirty
  PROVE  /\ w.tag_in.valid /\ w.tag_in.line \in Lines /\ w.tag_in.line \in Nat
         /\ w.tag_in.line % NumberOfLines = IndexOf(core.addr)
         /\ tags[IndexOf(core.addr)].valid /\ tags[IndexOf(core.addr)].line = w.tag_in.line
<1>1. PICK i \in Indices : i = IndexOf(core.addr)
  BY Basics
<1>2. w.tag_in.valid = tags[i].valid /\ w.tag_in.line = tags[i].line
  BY <1>1, TagRead
<1>3. /\ tags[i].valid => tags[i].line \in Lines /\ tags[i].line % NumberOfLines = i
      /\ tags[i].dirty => tags[i].valid
  BY DEF Known, DataInv, TagsFit
<1>4. tags[i].valid
  <2>1. CASE w.tag_in = tags[i]
    BY <1>3, <2>1
  <2>2. CASE c.tag1_we /\ c.tag1_index = i /\ c.tag1_out = [tags[i] EXCEPT !.dirty = TRUE] /\ w.tag_in = c.tag1_out
    <3>1. tags[i].valid \/ c.tag1_out = NoTag
      BY <2>2 DEF Known, DataInv, Tag1PortFits
    <3> QED
      BY <2>2, <3>1 DEF NoTag
  <2> QED
    BY <1>1, <2>1, <2>2, TagRead
<1> QED
  BY <1>1, <1>2, <1>3, <1>4, UsedWords DEF Known

\* The place of the transfer moves by one.
LEMMA PlaceMoves ==
  ASSUME Known, ~InIdle
  PROVE  /\ WrapNext(c.mem1_addr, MaxCount) = CellOf(Around(c.active, MyLine, Gone + 1))
         /\ Gone < MaxCount =>
              Position(c.mem1_ov \/ WordOf(c.mem1_addr) = MaxCount, CellOf(Around(c.active, MyLine, Gone + 1)))
                = WordOf(c.active) + (Gone + 1)
<1>1. c.active \in Nat /\ MyLine \in Nat /\ Gone \in 0 .. MaxCount /\ Gone \in Nat
  BY Basics, AddressParts, MaxFacts DEF MyLine
<1>2. /\ c.mem1_addr = CellOf(Around(c.active, MyLine, Gone))
      /\ Position(c.mem1_ov, c.mem1_addr) = WordOf(c.active) + Gone
      /\ c.mem1_ov \in BOOLEAN
  BY DEF Known, DataInv, Places, Shapes
<1> QED
  BY <1>1, <1>2, NextAround, NextPlace

\* mem1_addr and mem1_ov follow the count of words.
LEMMA PlacesStep ==
  ASSUME Known, NEW accept, NEW ack, NEW w, Cycle(accept, ack, w), c.tag_init_complete
  PROVE  Places'
<1> SUFFICES ASSUME c'.state # "ST_IDLE"
             PROVE  /\ c'.mem1_addr = CellOf(Around(c'.active, LineOf(c'.active), MaxCount - c'.count))
                    /\ Position(c'.mem1_ov, c'.mem1_addr) = WordOf(c'.active) + (MaxCount - c'.count)
  BY DEF Places, MyLine, Gone, InIdle
<1>1. CASE InIdle
  <2>1. core.addr \in Nat /\ LineOf(core.addr) \in Nat
    BY Basics, AddressParts
  <2>2. c'.active = core.addr /\ c'.count = MaxCount /\ ~c'.mem1_ov /\ c'.mem1_ov \in BOOLEAN
    <3>1. c'.mem1_ov \in BOOLEAN
      BY ShapesStep DEF Shapes
    <3> QED
      BY <1>1, <3>1, IdleMoves DEF IdleStays, FetchStarts, WriteBackStarts, Starting
  <2>3. MaxCount - c'.count = 0
    BY <2>2, MaxFacts
  <2>4. c'.mem1_addr = CellOf(core.addr)
    <3>1. CASE FetchStarts(w)
      BY <3>1 DEF FetchStarts
    <3>2. CASE WriteBackStarts(w)
      <4>1. w.tag_in.line \in Nat /\ w.tag_in.line % NumberOfLines = LineOf(core.addr) % NumberOfLines
        BY <3>2, DirtyLine, IndexFacts, <2>1 DEF WriteBackStarts
      <4>2. CellOf(Around(core.addr, w.tag_in.line, 0)) = CellOf(Around(core.addr, LineOf(core.addr), 0))
        BY <2>1, <4>1, AroundCell
      <4> QED
        BY <2>1, <3>2, <4>1, <4>2, FirstAround DEF WriteBackStarts
    <3> QED
      BY <1>1, <3>1, <3>2, IdleMoves DEF IdleStays
  <2> QED
    BY <2>1, <2>2, <2>3, <2>4, FirstAround
<1>2. CASE ~InIdle
  <2>1. /\ c.mem1_addr = CellOf(Around(c.active, MyLine, Gone))
        /\ Position(c.mem1_ov, c.mem1_addr) = WordOf(c.active) + Gone
    BY <1>2 DEF Known, DataInv, Places
  <2>2. c'.active = c.active /\ c.count \in 0 .. MaxCount /\ c.active \in Nat /\ MyLine \in Nat
    BY <1>2, BusyRegisters, Basics, AddressParts DEF MyLine
  <2>3. CASE c'.count = c.count /\ c'.mem1_addr = c.mem1_addr /\ c'.mem1_ov = c.mem1_ov
    BY <2>1, <2>2, <2>3 DEF Gone, MyLine
  <2>4. CASE /\ c.count # 0 /\ c'.count = c.count - 1
             /\ c'.mem1_addr = WrapNext(c.mem1_addr, MaxCount)
             /\ c'.mem1_ov = (c.mem1_ov \/ WordOf(c.mem1_addr) = MaxCount)
    <3>1. Gone < MaxCount /\ MaxCount - c'.count = Gone + 1
      BY <2>2, <2>4, MaxFacts DEF Gone
    <3> QED
      BY <1>2, <2>2, <2>4, <3>1, PlaceMoves DEF MyLine
  <2>5. CASE /\ c.count = 0 /\ c'.count = MaxCount
             /\ c'.mem1_addr = WrapNext(c.mem1_addr, MaxCount) /\ ~c'.mem1_ov
    <3>1. Gone + 1 = 0 + WordsPerLine /\ MaxCount - c'.count = 0
      BY <2>5, MaxFacts DEF Gone
    <3>2. Around(c.active, MyLine, 0 + WordsPerLine) = Around(c.active, MyLine, 0)
      BY <2>2, NextAround
    <3>3. c'.mem1_addr = CellOf(Around(c.active, MyLine, 0)) /\ Around(c.active, MyLine, 0) = c.active
      BY <1>2, <2>2, <2>5, <3>1, <3>2, PlaceMoves, FirstAround DEF MyLine
    <3>4. c'.mem1_ov = FALSE
      <4>1. c'.mem1_ov \in BOOLEAN
        BY ShapesStep DEF Shapes
      <4> QED
        BY <2>5, <4>1
    <3>5. Position(FALSE, CellOf(c.active)) = WordOf(c.active) + 0
      BY <2>2, FirstAround
    <3> QED
      BY <2>2, <3>1, <3>3, <3>4, <3>5 DEF MyLine
  <2>6. CASE c.state \in Fetching
    BY <2>3, <2>4, <2>6, FetchMoves DEF FetchHolds, FetchTakes, FetchEnds, SameMove
  <2>7. CASE c.state = "ST_WRITEBACK_PRE"
    <3>1. c.count = MaxCount /\ c.count # 0
      BY <2>7, PhaseFacts, MaxFacts
    <3> QED
      BY <2>4, <2>7, <3>1, WriteBackMoves DEF PreMove
  <2>8. CASE c.state = "ST_WRITEBACK"
    BY <2>3, <2>4, <2>5, <2>8, WriteBackMoves DEF WbHolds, WbNext, WbLast, WbTakes, SameMove
  <2>9. CASE c.state = "ST_WRITEBACK_WAIT"
    BY <2>3, <2>9, WriteBackMoves DEF WaitHolds, WaitEnds, SameMove
  <2>10. c.state # "ST_WRITE_TROUGH"
    BY DEF Known, CacheInv, WhileWriting
  <2> QED
    BY <1>2, <2>6, <2>7, <2>8, <2>9, <2>10, Basics DEF CacheStates, InIdle, Fetching
<1> QED
  BY <1>1, <1>2

\* The states of a transfer of this cache.
LEMMA BusyStates ==
  ASSUME Known
  PROVE  InIdle \/ c.state \in WritingBack \/ c.state \in Fetching
<1>1. c.state # "ST_WRITE_TROUGH"
  BY DEF Known, CacheInv, WhileWriting
<1> QED
  BY <1>1, Basics DEF CacheStates, InIdle, WritingBack

\* A miss writes nothing.
LEMMA MissWrites ==
  ASSUME Known, NEW accept, NEW ack, NEW w, Cycle(accept, ack, w), c.tag_init_complete,
         ~Tagged(core.addr)
  PROVE  /\ ~c'.tag1_we /\ ~c'.mem_write_en /\ ~c'.mem1_write_en /\ ~complete_o(w)
         /\ core.en => core' = core
<1>1. ~cache_hit(w) /\ ~WriteHit(w) /\ ~complete_o(w)
  BY Wires
<1>2. Tag1Edge(w, {}).tag1_we = FALSE
  BY <1>1 DEF Tag1Edge, Known
<1> QED
  BY <1>1, <1>2, Repeats DEF Cycle

\* The tag that has been read is the tag there is at the end of the cycle.
LEMMA StartTag ==
  ASSUME Known, NEW accept, NEW ack, NEW w, Cycle(accept, ack, w), c.tag_init_complete,
         InIdle, Starting(w)
  PROVE  LET i == IndexOf(core.addr)
         IN  /\ tags'[i].valid = tags[i].valid /\ tags'[i].line = tags[i].line
             /\ w.tag_in.dirty => tags'[i].dirty
             /\ ~w.tag_in.dirty => ~tags'[i].dirty
<1>1. PICK i \in Indices : i = IndexOf(core.addr)
  BY Basics
<1>2. ~c.tag_we
  BY DEF Known, DataInv, TagPortFits, InIdle
<1>3. tags'[i] = TagAfter(i) /\ tags'[i].valid = tags[i].valid /\ tags'[i].line = tags[i].line
      /\ (tags[i].dirty => tags'[i].dirty)
  BY <1>2, TagKept, TagsWritten
<1>4. ~Tagged(core.addr) /\ ~pending_write
  BY DEF Starting
<1>5. CASE c.tag1_we /\ c.tag1_index = i
  <2>1. tags'[i] = c.tag1_out
    BY <1>2, <1>3, <1>5 DEF TagAfter
  <2>2. \/ c.tag1_out = [tags[i] EXCEPT !.dirty = TRUE] /\ tags[i].valid
        \/ c.tag1_out = NoTag /\ tags[i] = NoTag
    BY <1>5 DEF Known, DataInv, Tag1PortFits
  <2>3. w.tag_in = tags[i] \/ w.tag_in = c.tag1_out
    BY <1>1, TagRead
  <2>4. CASE c.tag1_out = NoTag /\ tags[i] = NoTag
    BY <1>1, <1>3, <2>1, <2>3, <2>4
  <2>5. CASE c.tag1_out = [tags[i] EXCEPT !.dirty = TRUE] /\ tags[i].valid
    <3>1. tags[i].dirty
      <4> SUFFICES ASSUME ~tags[i].dirty PROVE FALSE
        OBVIOUS
      <4>1. \/ c.mem1_write_en /\ i = MyIndex
            \/ Tagged(core.addr)
        BY <1>5, <2>5 DEF Known, DataInv, Tag1PortFits
      <4>2. c.mem1_write_en /\ i = MyIndex
        BY <1>4, <4>1
      <4>3. c.pending_1d
        BY <1>1, <1>4, <4>2, Waits
      <4>4. core.addr = c.active /\ IsFor(tags[MyIndex], c.active)
        BY <4>2, <4>3 DEF Known, DataInv, Port1Fits, Asking
      <4> QED
        BY <1>4, <4>4 DEF Tagged, MyIndex
    <3>2. c.tag1_out = [line |-> tags[i].line, dirty |-> TRUE, valid |-> tags[i].valid]
      BY <2>5, TagKept, MarkedTag
    <3>3. w.tag_in.dirty
      BY <2>3, <3>1, <3>2
    <3> QED
      BY <1>1, <1>3, <3>1, <3>3
  <2> QED
    BY <2>2, <2>4, <2>5
<1>6. CASE ~(c.tag1_we /\ c.tag1_index = i)
  <2>1. w.tag_in = tags[i]
    BY <1>1, <1>6, TagRead
  <2>2. tags'[i] = tags[i]
    BY <1>2, <1>3, <1>6 DEF TagAfter
  <2> QED
    BY <1>1, <2>1, <2>2
<1> QED
  BY <1>5, <1>6

UntaggedPart ==
  Untagged => /\ Asking /\ ~Tagged(c.active) /\ ~tags[MyIndex].dirty
              /\ ~c.tag_we /\ ~c.tag1_we /\ ~c.mem_write_en
              /\ (c.ignore = 1 <=> core.we)

\* Until the first word of a fetch comes the request waits for its line.
LEMMA UntaggedStep ==
  ASSUME Known, NEW accept, NEW ack, NEW w, Cycle(accept, ack, w), c.tag_init_complete
  PROVE  UntaggedPart'
<1> DEFINE j == IndexOf(core.addr)
<1> SUFFICES ASSUME c'.state = "ST_FETCH", c'.count = MaxCount
             PROVE  /\ core'.en /\ core'.addr = c'.active
                    /\ ~IsFor(tags'[IndexOf(c'.active)], c'.active) /\ ~tags'[IndexOf(c'.active)].dirty
                    /\ ~c'.tag_we /\ ~c'.tag1_we /\ ~c'.mem_write_en
                    /\ (c'.ignore = 1 <=> core'.we)
  BY DEF UntaggedPart, Untagged, Asking, Tagged, MyIndex
<1>1. CASE InIdle
  <2>1. FetchStarts(w)
    BY <1>1, IdleMoves DEF IdleStays, WriteBackStarts
  <2>2. Starting(w) /\ ~w.tag_in.dirty /\ ~wb_writeback(w)
    BY <2>1 DEF FetchStarts
  <2>3. /\ core.en /\ core' = core /\ ~Tagged(core.addr) /\ c'.active = core.addr
        /\ c'.ignore = (IF core.we THEN 1 ELSE 0)
    BY <1>1, <2>2, IdleMoves DEF Starting
  <2>4. ~c'.tag_we
    BY <1>1, <2>2, IdleMoves DEF Cycle
  <2>5. ~IsFor(tags'[j], core.addr) /\ ~tags'[j].dirty
    BY <1>1, <2>2, <2>3, StartTag DEF Tagged, IsFor
  <2> QED
    BY <2>3, <2>4, <2>5, MissWrites
<1>2. CASE c.state \in Fetching
  <2>1. FetchHolds /\ Untagged
    <3>1. ~FetchTakes
      <4>1. FetchTakes => c'.count = c.count - 1 /\ c.count \in 0 .. MaxCount
        BY Basics DEF FetchTakes
      <4> QED
        BY <4>1, MaxFacts
    <3> QED
      BY <1>2, <3>1, FetchMoves DEF FetchEnds, FetchHolds, SameMove, Untagged
  <2>2. /\ Asking /\ ~Tagged(c.active) /\ ~tags[MyIndex].dirty
        /\ ~c.tag_we /\ ~c.tag1_we /\ ~c.mem_write_en
        /\ (c.ignore = 1 <=> core.we)
    BY <2>1 DEF Known, DataInv, Phases
  <2>3. core.en /\ core.addr = c.active /\ c'.active = c.active /\ c'.ignore = c.ignore /\ ~c'.tag_we
    BY <1>2, <2>1, <2>2, FetchMoves DEF Asking, FetchHolds, SameMove, Cycle
  <2>4. tags'[j] = tags[j]
    BY <2>2, TagsWritten, Basics DEF TagAfter
  <2> QED
    BY <2>2, <2>3, <2>4, MissWrites DEF Tagged, MyIndex
<1>3. CASE c.state \in WritingBack
  BY <1>3, WriteBackMoves DEF PreMove, WbHolds, WbNext, WbLast, WaitHolds, WaitEnds, SameMove, WritingBack
<1> QED
  BY <1>1, <1>2, <1>3, BusyStates

\* What the master is doing for the cache tells its next state.
LEMMA Afterwards ==
  ASSUME Known, NEW accept, NEW ack, NEW w, Cycle(accept, ack, w), c.tag_init_complete
  PROVE  /\ c'.state = "ST_WRITEBACK_PRE" => InIdle /\ WriteBackStarts(w)
         /\ c'.state \in WritingBack /\ ~InIdle => c.state \in WritingBack
         /\ c'.state \in Fetching /\ ~InIdle =>
              \/ c.state \in Fetching /\ (FetchHolds \/ FetchTakes)
              \/ c.state = "ST_WRITEBACK_WAIT" /\ WaitEnds
         /\ c'.state \in Fetching /\ InIdle => FetchStarts(w)
         /\ c'.state # "ST_IDLE" /\ InIdle => FetchStarts(w) \/ WriteBackStarts(w)
<1>1. CASE InIdle
  BY <1>1, IdleMoves DEF IdleStays, FetchStarts, WriteBackStarts, WritingBack, Fetching, InIdle
<1>2. CASE c.state \in Fetching
  <2>1. FetchHolds \/ FetchTakes \/ FetchEnds
    BY <1>2, FetchMoves
  <2>2. ~InIdle /\ c.state \notin WritingBack
    BY <1>2 DEF InIdle, Fetching, WritingBack
  <2>3. FetchEnds => c'.state \notin Fetching /\ c'.state \notin WritingBack /\ c'.state # "ST_WRITEBACK_PRE"
    BY DEF FetchEnds, Fetching, WritingBack
  <2>4. FetchHolds \/ FetchTakes => c'.state = c.state
    BY DEF FetchHolds, FetchTakes, SameMove
  <2> QED
    BY <1>2, <2>1, <2>2, <2>3, <2>4 DEF WritingBack
<1>3. CASE c.state \in WritingBack
  <2>1. ~InIdle
    BY <1>3 DEF InIdle, WritingBack
  <2>2. CASE c.state = "ST_WRITEBACK_PRE"
    BY <1>3, <2>1, <2>2, WriteBackMoves DEF PreMove, Fetching
  <2>3. CASE c.state = "ST_WRITEBACK"
    BY <1>3, <2>1, <2>3, WriteBackMoves DEF WbHolds, WbNext, WbLast, SameMove, Fetching
  <2>4. CASE c.state = "ST_WRITEBACK_WAIT"
    BY <1>3, <2>1, <2>4, WriteBackMoves DEF WaitHolds, WaitEnds, SameMove, Fetching
  <2> QED
    BY <1>3, <2>2, <2>3, <2>4 DEF WritingBack
<1> QED
  BY <1>1, <1>2, <1>3, BusyStates

\* And what the transfer is for stays known until it ends.
LEMMA PhasesStep ==
  ASSUME Known, NEW accept, NEW ack, NEW w, Cycle(accept, ack, w), c.tag_init_complete
  PROVE  Phases'
<1> DEFINE d == dready(w, accept, ack)
           j == IndexOf(core.addr)
<1>1. UntaggedPart'
  BY UntaggedStep
<1>2. ASSUME c'.state = "ST_WRITEBACK_PRE"
      PROVE  /\ core'.en /\ core'.addr = c'.active /\ c'.tag_we
             /\ tags'[IndexOf(c'.active)].valid /\ tags'[IndexOf(c'.active)].dirty
             /\ (c'.ignore = 1 <=> core'.we)
  <2>1. InIdle /\ WriteBackStarts(w)
    BY <1>2, Afterwards
  <2>2. Starting(w) /\ w.tag_in.dirty /\ wb_writeback(w)
    BY <2>1 DEF WriteBackStarts
  <2>3. /\ core.en /\ core' = core /\ c'.active = core.addr
        /\ c'.ignore = (IF core.we THEN 1 ELSE 0) /\ c'.tag_we
    BY <2>1, <2>2, IdleMoves DEF Starting, Cycle
  <2>4. tags'[j].valid /\ tags'[j].dirty
    BY <2>1, <2>2, StartTag, DirtyLine
  <2> QED
    BY <2>3, <2>4
<1>3. ASSUME c'.state \in WritingBack, c'.ignore = 0
      PROVE  core'.en /\ core'.addr = c'.active /\ ~core'.we /\ ~c'.we_1d
  <2>1. c'.we_1d = core.we
    BY DEF Cycle
  <2>2. CASE InIdle
    <3>1. c'.state # "ST_IDLE" /\ c'.state \notin Fetching
      BY <1>3 DEF WritingBack, Fetching
    <3>2. WriteBackStarts(w)
      BY <2>2, <3>1, Afterwards DEF FetchStarts, Fetching
    <3>3. Starting(w)
      BY <3>2 DEF WriteBackStarts
    <3> QED
      BY <1>3, <2>1, <2>2, <3>3, IdleMoves DEF Starting
  <2>3. CASE ~InIdle
    <3>1. c.state \in WritingBack /\ c.state \notin Fetching
      BY <1>3, <2>3, Afterwards DEF WritingBack, Fetching
    <3>2. c'.active = c.active /\ c'.ignore = c.ignore
      BY <3>1, WriteBackMoves
    <3>3. Asking /\ ~core.we /\ ~c.we_1d
      BY <1>3, <3>1, <3>2 DEF Known, DataInv, Phases
    <3>4. SameLine
      BY <3>3 DEF Asking, SameLine
    <3>5. line_active(c.we_1d)
      BY <2>3, <3>1, <3>3, <3>4 DEF line_active, Known
    <3>6. ~complete_o(w)
      BY <3>5, Wires
    <3> QED
      BY <2>1, <3>2, <3>3, <3>6, Repeats DEF Asking
  <2> QED
    BY <2>2, <2>3
<1>4. ASSUME c'.state # "ST_IDLE", ~(c'.state = "ST_FETCH" /\ c'.count = MaxCount)
      PROVE  Held(c.active)' /\ (c'.ignore = 1 => MarkedDirty(c.active)')
  <2>1. PICK a : a = c'.active
    OBVIOUS
  <2>2. (Held(c.active)' <=> Held(a)') /\ (MarkedDirty(c.active)' <=> MarkedDirty(a)')
    BY <2>1 DEF Held, MarkedDirty, IsFor
  <2>3. CASE InIdle
    <3>1. WriteBackStarts(w) /\ Starting(w)
      BY <1>4, <2>3, Afterwards DEF FetchStarts, Starting, WriteBackStarts
    <3>2. SetsTag(w, d) /\ a = core.addr /\ c'.ignore = (IF core.we THEN 1 ELSE 0)
      BY <2>1, <2>3, <3>1, IdleMoves DEF WriteBackStarts, Starting
    <3> QED
      BY <2>2, <3>2, HeldStep, Basics
  <2>4. CASE ~InIdle
    <3>1. a = c.active /\ a \in Nat /\ (c'.ignore = 1 => c.ignore = 1)
      BY <2>1, <2>4, BusyRegisters, Basics
    <3>2. CASE SetsTag(w, d)
      <4>1. Untagged /\ Asking
        BY <2>4, <3>2, SettingTag DEF Known, DataInv, Phases
      <4>2. c.state \in Fetching /\ ~FetchHolds /\ ~FetchEnds
        BY <1>4, <3>2, <4>1, SettingTag, FetchMoves DEF Untagged, Fetching, FetchHolds, FetchEnds
      <4>3. c'.ignore = 0
        BY <4>2, FetchMoves DEF FetchTakes
      <4>4. Held(a)'
        BY <3>1, <3>2, <4>1, HeldStep DEF Asking
      <4> QED
        BY <2>2, <4>3, <4>4
    <3>3. CASE ~SetsTag(w, d)
      <4>1. ~Untagged
        <5> SUFFICES ASSUME Untagged PROVE FALSE
          OBVIOUS
        <5>1. c.state \in Fetching
          BY DEF Untagged, Fetching
        <5>2. ~mst.dready_rd
          BY <3>3, <5>1, FetchMoves
        <5>3. FetchHolds
          BY <5>1, <5>2, FetchMoves DEF FetchTakes, FetchEnds
        <5> QED
          BY <1>4, <5>3 DEF FetchHolds, SameMove, Untagged
      <4>2. Held(a) /\ (c.ignore = 1 => MarkedDirty(a))
        BY <2>4, <3>1, <4>1 DEF Known, DataInv, Phases
      <4> QED
        BY <2>2, <3>1, <3>3, <4>2, HeldStep
    <3> QED
      BY <3>2, <3>3
  <2> QED
    BY <2>3, <2>4
<1>5. ASSUME c'.state # "ST_IDLE"
      PROVE  c'.active \in Reads \cup Writes /\ c'.ignore \in {0, 1}
  <2>1. CASE InIdle
    BY <1>5, <2>1, Afterwards, IdleMoves, Basics DEF FetchStarts, WriteBackStarts, Starting
  <2>2. CASE ~InIdle
    BY <2>2, BusyRegisters DEF Known, DataInv, Phases
  <2> QED
    BY <2>1, <2>2
<1>6. ASSUME c'.state \in Fetching, MaxCount - c'.count > 0
      PROVE  c'.ignore = 0
  <2>1. CASE InIdle
    <3>1. c'.count = MaxCount
      BY <1>6, <2>1, Afterwards DEF FetchStarts, Starting
    <3> QED
      BY <1>6, <3>1, MaxFacts
  <2>2. CASE c.state \in Fetching /\ FetchHolds
    BY <1>6, <2>2 DEF FetchHolds, SameMove, Known, DataInv, Phases, Gone
  <2>3. CASE c.state \in Fetching /\ FetchTakes
    BY <2>3 DEF FetchTakes
  <2>4. CASE c.state = "ST_WRITEBACK_WAIT" /\ WaitEnds
    <3>1. c'.count = MaxCount
      BY <2>4, PhaseFacts DEF WaitEnds
    <3> QED
      BY <1>6, <3>1, MaxFacts
  <2> QED
    BY <1>6, <2>1, <2>2, <2>3, <2>4, Afterwards
<1> QED
  BY <1>1, <1>2, <1>3, <1>4, <1>5, <1>6 DEF Phases, UntaggedPart, Untagged, Asking, MyIndex, Gone, InIdle

-----------------------------------------------------------------------------
(* The words of a fetch.                                                   *)

\* The elements of a sequence that grows, and of one that shrinks.
LEMMA AppendAt ==
  ASSUME NEW s, IsASequence(s), NEW x
  PROVE  \A j \in 1 .. Len(s) + 1 : Append(s, x)[j] = IF j <= Len(s) THEN s[j] ELSE x
<1>1. PICK S : s \in Seq(S)
  BY DEF IsASequence
<1> QED
  BY <1>1

\* A sequence that loses its first element.
LEMMA TailAt ==
  ASSUME NEW s, IsASequence(s), s # <<>>
  PROVE  Head(s) = s[1] /\ \A j \in 1 .. Len(Tail(s)) : Tail(s)[j] = s[j + 1]
<1>1. PICK S : s \in Seq(S)
  BY DEF IsASequence
<1> QED
  BY <1>1

\* The words of a fetch arrive in their order.
LEMMA FetchGoesOn ==
  ASSUME Known, NEW accept, NEW ack, NEW w, Cycle(accept, ack, w), c.state \in Fetching,
         FetchHolds \/ FetchTakes
  PROVE  LET B == Gone + Owed
             word(p) == mem[Around(c.active, MyLine, p)]
         IN  /\ MaxCount - c'.count = B
             /\ mst'.dready_rd => mst'.dout = word(B)
             /\ \A j \in 1 .. Len(pend') : pend'[j] = word(B + (IF mst'.dready_rd THEN 1 ELSE 0) + j - 1)
             /\ mst'.mask = MaxCount
             /\ mst'.stb =>
                  mst'.adr = Around(c.active, MyLine, B + (IF mst'.dready_rd THEN 1 ELSE 0) + Len(pend'))
<1> DEFINE word(p) == mem[Around(c.active, MyLine, p)]
           ans == Answers(accept)
<1>1. /\ Working /\ ~mst.we /\ c.active \in Nat /\ MyLine \in Nat /\ Gone \in 0 .. MaxCount
      /\ c.count \in 0 .. MaxCount
  <2>1. ~InIdle
    BY DEF InIdle, Fetching
  <2> QED
    BY <2>1, Basics, PhaseFacts, AddressParts DEF FetchHolds, FetchTakes, MyLine
<1>2. PICK B \in Nat : B = Gone + Owed
  BY <1>1, MaxFacts DEF Owed
<1>3. MaxCount - c'.count = B
  <2>1. CASE FetchHolds
    BY <1>1, <1>2, <2>1, MaxFacts DEF FetchHolds, SameMove, Owed, Gone
  <2>2. CASE FetchTakes
    <3>1. c'.count = c.count - 1 /\ Owed = 1
      BY <2>2 DEF FetchTakes, Owed
    <3> QED
      BY <1>1, <1>2, <3>1, MaxFacts DEF Gone
  <2> QED
    BY <2>1, <2>2
<1>4. /\ \A j \in 1 .. Len(pend) : pend[j] = word(B + j - 1)
      /\ mst.mask = MaxCount
      /\ mst.stb => mst.adr = Around(c.active, MyLine, B + Len(pend))
  <2>1. Busy
    BY <1>1 DEF Busy, Working
  <2> QED
    BY <1>2, <2>1 DEF Known, DataInv, FetchFits
<1>5. IsASequence(pend) /\ Len(pend) \in Nat
  BY LengthStep DEF Known
<1>6. accept \in BOOLEAN /\ ack \in BOOLEAN /\ (accept => mst.stb) /\ (ack => ans # <<>>)
  <2>1. ack => ans # <<>>
    BY DEF Cycle, Turn, BusMay
  <2> QED
    BY <2>1, MasterData
<1>7. /\ IsASequence(ans) /\ Len(ans) = Len(pend) + (IF accept THEN 1 ELSE 0)
      /\ \A j \in 1 .. Len(ans) : ans[j] = word(B + j - 1)
  <2>1. CASE accept
    <3>1. PICK x : x = mem[mst.adr]
      OBVIOUS
    <3>2. ans = Append(pend, x)
      BY <1>1, <2>1, <3>1 DEF Answers
    <3>3. x = word(B + Len(pend))
      BY <1>4, <1>6, <2>1, <3>1
    <3>4. IsASequence(ans) /\ Len(ans) = Len(pend) + 1
      BY <1>5, <3>2, AppendStep
    <3>5. \A j \in 1 .. Len(pend) + 1 : ans[j] = IF j <= Len(pend) THEN pend[j] ELSE x
      BY <1>5, <3>2, AppendAt
    <3>6. ASSUME NEW j \in 1 .. Len(pend) + 1
          PROVE  ans[j] = word(B + j - 1)
      <4>1. CASE j <= Len(pend)
        BY <1>4, <1>5, <3>5, <4>1
      <4>2. CASE ~(j <= Len(pend))
        <5>1. j = Len(pend) + 1 /\ B + j - 1 = B + Len(pend)
          BY <1>5, <1>2, <4>2
        <5> QED
          BY <3>3, <3>5, <4>2, <5>1
      <4> QED
        BY <4>1, <4>2
    <3> QED
      BY <2>1, <3>4, <3>6
  <2>2. CASE ~accept
    <3>1. ans = pend
      BY <2>2 DEF Answers
    <3> QED
      BY <1>4, <1>5, <2>2, <3>1
  <2> QED
    BY <2>1, <2>2
<1>8. mst.stb => (mst'.stb => mst'.adr = Around(c.active, MyLine, B + Len(ans)))
  <2> SUFFICES ASSUME mst.stb PROVE mst'.adr = Around(c.active, MyLine, B + Len(ans))
    OBVIOUS
  <2>1. mst'.adr = (IF accept THEN WrapNext(mst.adr, MaxCount) ELSE mst.adr)
    BY <1>1, <1>4, MasterData
  <2>2. PICK q \in Nat : q = B + Len(pend)
    BY <1>2, <1>5
  <2>3. WrapNext(Around(c.active, MyLine, q), MaxCount) = Around(c.active, MyLine, q + 1)
    BY <1>1, NextAround
  <2>4. B + Len(ans) = IF accept THEN q + 1 ELSE q
    BY <1>2, <1>5, <1>7, <2>2
  <2> QED
    BY <1>4, <2>1, <2>2, <2>3, <2>4
<1>9. /\ mst'.dready_rd = ack /\ mst'.mask = MaxCount
      /\ mst'.stb => mst.stb
      /\ ack => mst'.dout = Head(ans)
  <2>1. mst'.dready_rd = (~mst.we /\ ack)
    BY <1>1, MasterData DEF MasterMoves
  <2> QED
    BY <1>1, <1>4, <1>6, <2>1, MasterData
<1>10. pend' = IF ack THEN Tail(ans) ELSE ans
  BY DEF Cycle, Turn
<1> HIDE DEF ans
<1>11. CASE ack
  <2>1. /\ Head(ans) = ans[1] /\ Len(pend') = Len(ans) - 1
        /\ \A j \in 1 .. Len(pend') : pend'[j] = ans[j + 1]
    BY <1>6, <1>7, <1>10, <1>11, TailAt, TailStep
  <2>2. Len(ans) \in Nat /\ Len(ans) >= 1
    BY <1>6, <1>7, <1>11, LengthStep
  <2>3. Head(ans) = word(B)
    <3>1. ans[1] = word(B + 1 - 1) /\ B + 1 - 1 = B
      BY <1>2, <1>7, <2>2
    <3> QED
      BY <2>1, <3>1
  <2>4. ASSUME NEW j \in 1 .. Len(pend')
        PROVE  pend'[j] = word(B + 1 + j - 1)
    <3>1. j + 1 \in 1 .. Len(ans) /\ B + (j + 1) - 1 = B + 1 + j - 1
      BY <1>2, <2>1, <2>2
    <3> QED
      BY <1>7, <2>1, <3>1
  <2>5. B + Len(ans) = B + 1 + Len(pend')
    BY <1>2, <2>1, <2>2
  <2> QED
    BY <1>2, <1>3, <1>8, <1>9, <1>11, <2>3, <2>4, <2>5
<1>12. CASE ~ack
  <2>1. pend' = ans /\ Len(ans) \in Nat
    BY <1>7, <1>10, <1>12, LengthStep
  <2>2. \A j \in 1 .. Len(ans) : B + 0 + j - 1 = B + j - 1
    BY <1>2, <2>1
  <2>3. B + 0 + Len(ans) = B + Len(ans)
    BY <1>2, <2>1
  <2> QED
    BY <1>2, <1>3, <1>7, <1>8, <1>9, <1>12, <2>1, <2>2, <2>3
<1> QED
  BY <1>6, <1>11, <1>12

\* Every word the memory still owes, and the one that has come, is that of the
\* cell it will be written to.
LEMMA FetchFitsStep ==
  ASSUME Known, NEW accept, NEW ack, NEW w, Cycle(accept, ack, w), c.tag_init_complete
  PROVE  FetchFits'
<1> DEFINE B == MaxCount - c'.count
           O == IF mst'.dready_rd THEN 1 ELSE 0
           at(p) == Around(c'.active, LineOf(c'.active), p)
<1> SUFFICES ASSUME c'.state \in Fetching
             PROVE  /\ mst'.dready_rd => mst'.dout = mem'[at(B)]
                    /\ \A j \in 1 .. Len(pend') : pend'[j] = mem'[at(B + O + j - 1)]
                    /\ mst'.state = "ST_PENDING" => mst'.mask = MaxCount
                    /\ mst'.stb => mst'.adr = at(B + O + Len(pend'))
  BY DEF FetchFits, MyLine, Gone, Owed, Busy
<1>1. ASSUME ~mst'.dready_rd, Len(pend') = 0, mst'.mask = MaxCount, mst'.adr = c'.active,
             c'.count = MaxCount, c'.active \in Nat
      PROVE  /\ \A j \in 1 .. Len(pend') : pend'[j] = mem'[at(B + O + j - 1)]
             /\ mst'.adr = at(B + O + Len(pend'))
  <2>1. \A j \in 1 .. Len(pend') : FALSE
    BY <1>1
  <2>2. B + O + Len(pend') = 0
    BY <1>1, MaxFacts
  <2>3. at(0) = c'.active
    BY <1>1, FirstAround, AddressParts
  <2> QED
    BY <1>1, <2>1, <2>2, <2>3
<1>2. CASE InIdle
  <2>1. FetchStarts(w) /\ c'.active = core.addr /\ core.addr \in Nat
    BY <1>2, Afterwards, IdleMoves, Basics
  <2> QED
    BY <1>1, <2>1 DEF FetchStarts, Starting
<1>3. CASE c.state = "ST_WRITEBACK_WAIT" /\ WaitEnds
  <2>1. c.count = MaxCount /\ ~InIdle
    BY <1>3, PhaseFacts DEF InIdle
  <2>2. c'.active = c.active /\ c.active \in Nat
    BY <2>1, BusyRegisters, Basics
  <2> QED
    BY <1>1, <1>3, <2>1, <2>2 DEF WaitEnds
<1>4. CASE c.state \in Fetching /\ (FetchHolds \/ FetchTakes)
  <2>1. c'.active = c.active /\ mem' = mem
    BY <1>4, FetchMoves
  <2> QED
    BY <1>4, <2>1, FetchGoesOn DEF MyLine
<1> QED
  BY <1>2, <1>3, <1>4, Afterwards

-----------------------------------------------------------------------------
(* The words of a write back.                                              *)

\* The cells of the line that is written back, from the next word on, are left
\* alone, and so are its words.
LEMMA VictimKept ==
  ASSUME Known, NEW accept, NEW ack, NEW w, Cycle(accept, ack, w), c.tag_init_complete, HasVictim,
         NEW p \in 0 .. MaxCount, NEW a, a = Around(c.active, Victim, p)
  PROVE  /\ a \in Nat /\ LineOf(a) = Victim /\ IndexOf(a) = MyIndex
         /\ CellOf(a) = CellOf(Around(c.active, MyLine, p))
         /\ Newest(a)' = Newest(a)
         /\ p >= Gone => ~(c.mem_write_en /\ CellOf(core.addr) = CellOf(a))
                         /\ words'[CellOf(a)] = words[CellOf(a)]
<1>1. c.state \in WritingBack /\ ~InIdle /\ c.state \notin Fetching
  BY DEF HasVictim, WritingBack, InIdle, Fetching
<1>2. c.active \in Nat /\ core.addr \in Nat /\ MyLine \in Nat /\ MyIndex = MyLine % NumberOfLines
      /\ p \in Nat
  BY <1>1, Basics, AddressParts, IndexFacts, MaxFacts DEF MyLine, MyIndex
<1>3. Victim \in Nat /\ Victim # MyLine /\ Victim % NumberOfLines = MyIndex
  BY UsedWords DEF Known, DataInv, WritesBack
<1>4. a = Around(c.active, Victim, p)
  OBVIOUS
<1>5. a \in Nat /\ LineOf(a) = Victim /\ IndexOf(a) = MyIndex
  <2>1. PICK b \in Nat, line \in Nat : b = c.active /\ line = Victim
    BY <1>2, <1>3
  <2>2. PICK k : k = line % NumberOfLines
    OBVIOUS
  <2>3. Around(b, line, p) \in Nat /\ LineOf(Around(b, line, p)) = line /\ IndexOf(Around(b, line, p)) = k
    BY <1>2, <2>2, AroundFacts, Zenon
  <2>4. k = MyIndex
    BY <1>3, <2>1, <2>2
  <2> QED
    BY <1>4, <2>1, <2>3, <2>4
<1>6. CellOf(a) = CellOf(Around(c.active, MyLine, p))
  BY <1>2, <1>3, <1>4, AroundCell
<1>7. Newest(a)' = Newest(a)
  <2> SUFFICES ASSUME complete_o(w), Writing(a) PROVE FALSE
    BY NewestStep
  <2>1. Tagged(core.addr) /\ core.addr = a
    BY Wires DEF Writing
  <2>2. SameLine
    BY <1>1, <1>5, <2>1, HitLine
  <2> QED
    BY <1>3, <1>5, <2>1, <2>2 DEF SameLine, MyLine
<1>8. ASSUME p >= Gone
      PROVE  ~(c.mem_write_en /\ CellOf(core.addr) = CellOf(a))
  <2> SUFFICES ASSUME c.mem_write_en, CellOf(core.addr) = CellOf(a) PROVE FALSE
    OBVIOUS
  <2>1. Ahead(c.active, core.addr) = p /\ IndexOf(core.addr) = MyIndex
    BY <1>2, <1>3, <1>4, AheadCell
  <2>2. core.addr = c.active /\ Gone \in {1, 2}
    BY <1>1, <2>1 DEF Known, DataInv, Port0Fits
  <2>3. Ahead(c.active, core.addr) = 0
    BY <1>2, <2>2, AheadFacts
  <2> QED
    BY <1>8, <2>1, <2>2, <2>3
<1>9. p >= Gone => words'[CellOf(a)] = words[CellOf(a)]
  <2>1. CellOf(a) \in CellNos
    BY <1>5, CellFacts
  <2>2. ~c.mem1_write_en /\ ~Fills
    BY <1>1 DEF Known, DataInv, Port1Fits, Fills
  <2> QED
    BY <1>8, <2>1, <2>2, WordsWritten DEF WordNow, WordAfter
<1> QED
  BY <1>4, <1>5, <1>6, <1>7, <1>8, <1>9

\* What the master is to write next.
LEMMA NextWritten ==
  ASSUME Known, NEW accept, NEW ack, NEW w, Cycle(accept, ack, w), c.tag_init_complete,
         c.state \in {"ST_WRITEBACK_PRE", "ST_WRITEBACK"}
  PROVE  /\ w.mem1_dout = Newest(Around(c.active, Victim, Gone))
         /\ \A p \in Gone .. MaxCount : \A a :
              a = Around(c.active, Victim, p) => words'[CellOf(a)] = Newest(a)'
         /\ Gone \in 0 .. MaxCount /\ HasVictim
<1>1. HasVictim /\ c.state # "ST_WRITEBACK_WAIT" /\ Gone \in 0 .. MaxCount /\ ~InIdle
  BY Basics DEF HasVictim, InIdle
<1>2. \A p \in Gone .. MaxCount :
        words[CellOf(Around(c.active, Victim, p))] = Newest(Around(c.active, Victim, p))
  BY <1>1 DEF Known, DataInv, WritesBack
<1>3. ASSUME NEW p \in Gone .. MaxCount, NEW a, a = Around(c.active, Victim, p)
      PROVE  words'[CellOf(a)] = Newest(a)'
  <2>1. p \in 0 .. MaxCount /\ p >= Gone
    BY <1>1, MaxFacts
  <2>2. a = Around(c.active, Victim, p)
    BY <1>3
  <2>3. words'[CellOf(a)] = words[CellOf(a)] /\ Newest(a)' = Newest(a)
    BY <1>1, <2>1, <2>2, VictimKept
  <2>4. words[CellOf(a)] = Newest(a)
    BY <1>2, <2>2
  <2> QED
    BY <2>2, <2>3, <2>4
<1>4. Gone \in Gone .. MaxCount /\ Gone >= Gone
  BY <1>1, MaxFacts
<1>5. c.mem1_addr = CellOf(Around(c.active, MyLine, Gone))
  BY <1>1 DEF Known, DataInv, Places
<1>6. /\ c.mem1_addr = CellOf(Around(c.active, Victim, Gone))
      /\ ~(c.mem_write_en /\ CellOf(core.addr) = c.mem1_addr)
  BY <1>1, <1>4, <1>5, VictimKept
<1>7. w.mem1_dout = words[c.mem1_addr]
  BY <1>6 DEF Cycle, RamOut
<1> QED
  BY <1>1, <1>2, <1>3, <1>4, <1>6, <1>7

\* A request that is not the last, or not taken, is followed by one.
LEMMA StbStays ==
  ASSUME Known, NEW accept, NEW ack, NEW w, Cycle(accept, ack, w), Working, Working', mst.stb,
         ~(accept /\ mst.count = 0)
  PROVE  mst'.stb
<1> DEFINE in == Bus(accept, ack)
           u == MasterInput(w)
<1>1. mst' = Pending(mst, u, in)
  BY DEF Cycle, Turn, MasterEdge, Working
<1>2. mst'.stb = (mst.stb /\ ~LastRequest(mst, in) /\ ~Ends(mst, in))
      /\ mst'.state = (IF Ends(mst, in) THEN "ST_IDLE" ELSE "ST_PENDING")
  BY <1>1 DEF Pending
<1>3. ~Ends(mst, in)
  BY <1>2 DEF Working
<1>4. in.stall = ~accept
  BY DEF Bus
<1>5. ~LastRequest(mst, in)
  BY <1>4 DEF LastRequest, Cycle, Turn
<1> QED
  BY <1>2, <1>3, <1>5

\* The invariant of the line written back, from that line.
LEMMA WritesBackBy ==
  ASSUME NEW v \in Lines,
         v = (IF c'.state = "ST_WRITEBACK_PRE" THEN tags'[IndexOf(c'.active)].line
                                               ELSE LineOf(mst'.adr)),
         v # LineOf(c'.active), v % NumberOfLines = IndexOf(c'.active),
         mst'.state = "ST_PENDING" => mst'.mask = MaxCount,
         c'.state # "ST_WRITEBACK_WAIT" =>
           \A p \in MaxCount - c'.count .. MaxCount : \A a :
             a = Around(c'.active, v, p) => words'[CellOf(a)] = Newest(a)',
         mst'.stb => \A a : a = mst'.adr => mst'.dat = Newest(a)',
         c'.state = "ST_WRITEBACK" =>
           MaxCount - c'.count > 0 /\ mst'.adr = Around(c'.active, v, (MaxCount - c'.count) - 1),
         c'.state = "ST_WRITEBACK_WAIT" /\ mst'.stb => mst'.adr = Around(c'.active, v, MaxCount)
  PROVE  WritesBack'
<1>1. mst'.stb => mst'.dat = Value(mst'.adr, IF mst'.adr = watch' THEN latest' ELSE 0)
  BY DEF Newest
<1>2. c'.state # "ST_WRITEBACK_WAIT" =>
        \A p \in MaxCount - c'.count .. MaxCount :
          words'[CellOf(Around(c'.active, v, p))] =
            Value(Around(c'.active, v, p), IF Around(c'.active, v, p) = watch' THEN latest' ELSE 0)
  BY DEF Newest
<1>3. PICK t : t = v
  OBVIOUS
<1>4. \/ c'.state = "ST_WRITEBACK_PRE" /\ t = tags'[IndexOf(c'.active)].line
      \/ c'.state # "ST_WRITEBACK_PRE" /\ t = LineOf(mst'.adr)
  BY <1>3
<1>5. CASE c'.state = "ST_WRITEBACK_PRE"
  BY <1>1, <1>2, <1>5 DEF WritesBack, Victim, MyLine, MyIndex, Gone, Busy, Newest, HasVictim
<1>6. CASE c'.state # "ST_WRITEBACK_PRE"
  <2>1. v = LineOf(mst'.adr)
    BY <1>6
  <2> QED
    BY <1>1, <1>2, <1>6, <2>1 DEF WritesBack, Victim, MyLine, MyIndex, Gone, Busy, Newest, HasVictim
<1> QED
  BY <1>5, <1>6

\* ST_IDLE: a dirty line has to go, and its words are the newest.
LEMMA WriteBackBegins ==
  ASSUME Known, NEW accept, NEW ack, NEW w, Cycle(accept, ack, w), c.tag_init_complete,
         InIdle, WriteBackStarts(w)
  PROVE  WritesBack'
<1> DEFINE j == IndexOf(core.addr)
<1>1. /\ Starting(w) /\ w.tag_in.dirty /\ c'.active = core.addr /\ c'.count = MaxCount
      /\ c'.state = "ST_WRITEBACK_PRE" /\ ~Working' /\ ~mst'.stb /\ ~Tagged(core.addr)
  BY IdleMoves DEF WriteBackStarts, Starting
<1>2. core.addr \in Nat /\ j \in Indices
  BY Basics
<1>3. PICK v \in Lines : v = tags'[j].line
  BY <1>1, StartTag, DirtyLine
<1>4. /\ tags'[j].valid /\ v = tags[j].line /\ tags[j].valid /\ v % NumberOfLines = j /\ v \in Nat
  BY <1>1, <1>3, StartTag, DirtyLine
<1>5. v # LineOf(core.addr)
  BY <1>1, <1>4 DEF Tagged, IsFor
<1>6. MaxCount - c'.count = 0
  BY <1>1, MaxFacts
<1>7. ASSUME NEW p \in 0 .. MaxCount, NEW a, a = Around(core.addr, v, p)
      PROVE  words'[CellOf(a)] = Newest(a)'
  <2>1. p \in Nat
    BY MaxFacts
  <2>2. a \in Nat /\ LineOf(a) = v /\ IndexOf(a) = j
    <3>1. PICK b \in Nat : b = core.addr
      BY <1>2
    <3>2. PICK k : k = v % NumberOfLines
      OBVIOUS
    <3>3. Around(b, v, p) \in Nat /\ LineOf(Around(b, v, p)) = v /\ IndexOf(Around(b, v, p)) = k
      BY <1>4, <2>1, <3>2, AroundFacts, Zenon
    <3>4. k = j
      BY <1>4, <3>2
    <3> QED
      BY <1>7, <3>1, <3>3, <3>4
  <2>3. a \in Addrs /\ CellOf(a) \in CellNos
    BY <1>3, <2>2, UsedWords, CellFacts DEF Known
  <2>4. Held(a)
    <3>1. tags'[j] = TagAfter(j)
      BY <1>2, TagsWritten
    <3> QED
      BY <1>3, <1>4, <2>2, <3>1 DEF Held, IsFor
  <2>5. Good(a)
    BY <2>3, <2>4 DEF Sits, Known, DataInv, EveryWord
  <2>6. ~Writing(a) /\ ~complete_o(w)
    BY <1>1, <1>5, <2>2, MissWrites DEF Writing
  <2>7. words'[CellOf(a)] = WordAfter(CellOf(a))
    BY <2>3, WordsWritten DEF WordNow, Fills, InIdle, Fetching
  <2> QED
    BY <2>5, <2>6, <2>7, NewestStep DEF Good
<1>8. mst'.state # "ST_PENDING"
  BY <1>1 DEF Working
<1>9. \A p \in MaxCount - c'.count .. MaxCount : \A a :
        a = Around(c'.active, v, p) => words'[CellOf(a)] = Newest(a)'
  <2>1. \A p \in 0 .. MaxCount : \A a : a = Around(core.addr, v, p) => words'[CellOf(a)] = Newest(a)'
    BY <1>7
  <2> QED
    BY <1>1, <1>6, <2>1
<1> QED
  BY <1>1, <1>3, <1>4, <1>5, <1>8, <1>9, WritesBackBy

\* The line that is written back, and the word that is on the bus.
LEMMA OnTheBus ==
  ASSUME Known, c.state \in {"ST_WRITEBACK", "ST_WRITEBACK_WAIT"}, HasVictim, mst.stb
  PROVE  \E p \in 0 .. MaxCount :
           /\ mst.adr = Around(c.active, Victim, p)
           /\ c.state = "ST_WRITEBACK" => p + 1 = Gone
           /\ c.state = "ST_WRITEBACK_WAIT" => p = MaxCount
<1>1. Gone \in 0 .. MaxCount /\ MaxCount \in Nat
  BY Basics, MaxFacts
<1>2. CASE c.state = "ST_WRITEBACK"
  <2>1. Gone > 0 /\ mst.adr = Around(c.active, Victim, Gone - 1)
    BY <1>2 DEF Known, DataInv, WritesBack
  <2>2. Gone - 1 \in 0 .. MaxCount /\ (Gone - 1) + 1 = Gone
    BY <1>1, <2>1
  <2> QED
    BY <1>2, <2>1, <2>2
<1>3. CASE c.state = "ST_WRITEBACK_WAIT"
  <2>1. mst.adr = Around(c.active, Victim, MaxCount)
    BY <1>3 DEF Known, DataInv, WritesBack
  <2>2. MaxCount \in 0 .. MaxCount
    BY <1>1
  <2> QED
    BY <1>3, <2>1, <2>2
<1> QED
  BY <1>2, <1>3

\* The master is given a word.
LEMMA WriteBackTakes ==
  ASSUME Known, NEW accept, NEW ack, NEW w, Cycle(accept, ack, w), c.tag_init_complete,
         \/ c.state = "ST_WRITEBACK_PRE" /\ PreMove(w)
         \/ c.state = "ST_WRITEBACK" /\ (WbNext(w) \/ WbLast(w))
  PROVE  /\ WritesBack'
         /\ mst'.adr = Around(c.active, Victim, Gone) /\ mst'.stb /\ Working'
<1>1. /\ HasVictim /\ ~InIdle /\ Gone \in 0 .. MaxCount /\ c.active \in Nat /\ c'.active = c.active
      /\ c.count \in 0 .. MaxCount /\ MaxCount \in Nat
  <2>1. ~InIdle
    BY DEF InIdle
  <2> QED
    BY <2>1, Basics, BusyRegisters, MaxFacts DEF HasVictim
<1>2. PICK v \in Lines : v = Victim
  BY <1>1 DEF Known, DataInv, WritesBack
<1>3. v # MyLine /\ v % NumberOfLines = MyIndex /\ v \in Nat
  BY <1>1, <1>2, UsedWords DEF Known, DataInv, WritesBack
<1>4. /\ w.mem1_dout = Newest(Around(c.active, Victim, Gone))
      /\ \A p \in Gone .. MaxCount : \A a :
           a = Around(c.active, Victim, p) => words'[CellOf(a)] = Newest(a)'
  BY NextWritten
<1>5. PICK b : b = Around(c.active, v, Gone)
  OBVIOUS
<1>6. Newest(b)' = w.mem1_dout /\ LineOf(b) = v
  BY <1>1, <1>2, <1>4, <1>5, VictimKept
<1>7. mst'.adr = b
  <2>1. CASE c.state = "ST_WRITEBACK_PRE" /\ PreMove(w)
    <3>1. Gone = 0
      BY <2>1, PhaseFacts, MaxFacts DEF Gone
    <3>2. core.addr = c.active /\ v = tags[IndexOf(core.addr)].line
      BY <1>2, <2>1 DEF Known, DataInv, Phases, Asking, Victim, MyIndex
    <3>3. w.tag_in.line = v
      BY <3>2, TagRead
    <3>4. mst'.adr = (v * WordsPerLine) + WordOf(c.active)
      BY <2>1, <3>2, <3>3 DEF PreMove
    <3>5. Around(c.active, v, 0) = (v * WordsPerLine) + WordOf(c.active)
      BY <1>1, <1>3, FirstAround
    <3> QED
      BY <1>5, <3>1, <3>4, <3>5
  <2>2. CASE c.state = "ST_WRITEBACK" /\ (WbNext(w) \/ WbLast(w))
    <3>1. mst.stb /\ Busy
      BY <2>2, PhaseFacts DEF Busy, Working
    <3>2. mst.mask = MaxCount
      BY <1>1, <3>1 DEF Known, DataInv, WritesBack
    <3>3. PICK p \in 0 .. MaxCount : mst.adr = Around(c.active, v, p) /\ p + 1 = Gone
      BY <1>1, <1>2, <2>2, <3>1, OnTheBus
    <3>4. p \in Nat
      BY <1>1
    <3>5. mst'.adr = WrapNext(mst.adr, MaxCount)
      BY <2>2, <3>2 DEF WbNext, WbLast, WbTakes
    <3> QED
      BY <1>1, <1>3, <1>5, <3>3, <3>4, <3>5, NextAround
  <2> QED
    BY <2>1, <2>2
<1>8. mst'.dat = w.mem1_dout /\ mst'.mask = MaxCount /\ Working'
  <2>1. CASE c.state = "ST_WRITEBACK_PRE" /\ PreMove(w)
    BY <2>1 DEF PreMove
  <2>2. CASE c.state = "ST_WRITEBACK" /\ (WbNext(w) \/ WbLast(w))
    <3>1. mst.mask = MaxCount
      BY <1>1, <2>2, PhaseFacts DEF Known, DataInv, WritesBack, Busy, Working
    <3> QED
      BY <2>2, <3>1 DEF WbNext, WbLast, WbTakes
  <2> QED
    BY <2>1, <2>2
<1>9. mst'.stb
  <2>1. CASE c.state = "ST_WRITEBACK_PRE"
    <3>1. ~Working /\ MasterInput(w).en
      BY <2>1, PhaseFacts, AskData
    <3> QED
      BY <3>1, MasterData
  <2>2. CASE c.state = "ST_WRITEBACK"
    <3>1. Working /\ mst.stb /\ mst.count # 0
      BY <1>1, <2>2, PhaseFacts
    <3> QED
      BY <1>8, <3>1, StbStays
  <2> QED
    BY <2>1, <2>2
<1>10. CASE c'.state = "ST_WRITEBACK" /\ c'.count = c.count - 1 /\ c.count # 0
  <2>1. MaxCount - c'.count = Gone + 1 /\ (MaxCount - c'.count) - 1 = Gone /\ MaxCount - c'.count > 0
    BY <1>1, <1>10 DEF Gone
  <2>2. \A p \in Gone + 1 .. MaxCount : p \in Gone .. MaxCount
    BY <1>1
  <2>3. \A p \in MaxCount - c'.count .. MaxCount : \A a :
        a = Around(c'.active, v, p) => words'[CellOf(a)] = Newest(a)'
    BY <1>1, <1>2, <1>4, <2>1, <2>2
  <2>4. v = LineOf(mst'.adr) /\ c'.state # "ST_WRITEBACK_PRE"
    BY <1>6, <1>7, <1>10
  <2>5. \A a : a = mst'.adr => mst'.dat = Newest(a)'
    <3> TAKE a
    <3>1. ASSUME a = mst'.adr PROVE mst'.dat = Newest(a)'
      <4>1. a = b
        BY <1>7, <3>1
      <4> QED
        BY <1>6, <1>8, <4>1
    <3> QED
      BY <3>1
  <2>6. WritesBack'
    BY <1>1, <1>3, <1>5, <1>7, <1>8, <1>10, <2>1, <2>3, <2>4, <2>5, WritesBackBy DEF MyLine, MyIndex
  <2> QED
    BY <1>2, <1>5, <1>7, <1>8, <1>9, <2>6
<1>11. CASE c'.state = "ST_WRITEBACK_WAIT" /\ c.count = 0
  <2>1. Gone = MaxCount
    BY <1>1, <1>11 DEF Gone
  <2>2. v = LineOf(mst'.adr)
    BY <1>6, <1>7
  <2>3. \A a : a = mst'.adr => mst'.dat = Newest(a)'
    <3> TAKE a
    <3>1. ASSUME a = mst'.adr PROVE mst'.dat = Newest(a)'
      <4>1. a = b
        BY <1>7, <3>1
      <4> QED
        BY <1>6, <1>8, <4>1
    <3> QED
      BY <3>1
  <2>4. WritesBack'
    BY <1>1, <1>3, <1>5, <1>7, <1>8, <1>11, <2>1, <2>2, <2>3, WritesBackBy DEF MyLine, MyIndex
  <2> QED
    BY <1>2, <1>5, <1>7, <1>8, <1>9, <2>4
<1>12. c.state = "ST_WRITEBACK_PRE" => c.count = MaxCount /\ c.count # 0
  BY PhaseFacts, MaxFacts
<1> QED
  BY <1>10, <1>11, <1>12 DEF PreMove, WbNext, WbLast

\* A word stays on the bus, or its answer is waited for.
LEMMA WriteBackHolds ==
  ASSUME Known, NEW accept, NEW ack, NEW w, Cycle(accept, ack, w), c.tag_init_complete,
         HasVictim, HasVictim',
         \/ c.state = "ST_WRITEBACK" /\ WbHolds
         \/ c.state = "ST_WRITEBACK_WAIT" /\ WaitHolds(accept)
  PROVE  WritesBack'
<1>1. /\ ~InIdle /\ Gone \in 0 .. MaxCount /\ c.active \in Nat /\ c'.active = c.active
      /\ c.count \in 0 .. MaxCount /\ MaxCount \in Nat /\ c'.state = c.state /\ c'.count = c.count
      /\ c'.state # "ST_WRITEBACK_PRE" /\ c.state # "ST_WRITEBACK_PRE"
  <2>1. ~InIdle
    BY DEF InIdle
  <2> QED
    BY <2>1, Basics, BusyRegisters, MaxFacts DEF WbHolds, WaitHolds, SameMove
<1>2. PICK v \in Lines : v = Victim
  BY DEF Known, DataInv, WritesBack
<1>3. v # MyLine /\ v % NumberOfLines = MyIndex /\ v \in Nat /\ v = LineOf(mst.adr)
  BY <1>1, <1>2, UsedWords DEF Known, DataInv, WritesBack, Victim
<1>4. Working /\ mst.mask = MaxCount /\ mst'.mask = MaxCount
  <2>1. Working
    BY PhaseFacts DEF WaitHolds
  <2> QED
    BY <2>1 DEF Known, DataInv, WritesBack, Busy, Working, WbHolds, WaitHolds
<1>5. c.state = "ST_WRITEBACK" =>
        \A p \in Gone .. MaxCount : \A a :
           a = Around(c.active, v, p) => words'[CellOf(a)] = Newest(a)'
  BY <1>2, NextWritten
<1>6. mst'.stb => mst.stb
  BY <1>4, MasterData
<1>7. ASSUME mst'.stb, NEW a, a = mst'.adr
      PROVE  mst'.dat = Newest(a)' /\ mst'.adr = mst.adr
  <2>1. mst'.adr = mst.adr /\ mst'.dat = mst.dat
    BY <1>7 DEF WbHolds, WaitHolds
  <2>2. PICK p \in 0 .. MaxCount : a = Around(c.active, Victim, p)
    BY <1>6, <1>7, <2>1, OnTheBus
  <2>3. Newest(a)' = Newest(a)
    BY <2>2, VictimKept
  <2>4. mst.dat = Newest(a)
    BY <1>6, <1>7, <2>1 DEF Known, DataInv, WritesBack
  <2> QED
    BY <2>1, <2>3, <2>4
<1>8. LineOf(mst'.adr) = v
  <2>1. CASE mst'.adr = mst.adr
    BY <1>3, <2>1
  <2>2. CASE accept /\ c.state = "ST_WRITEBACK_WAIT"
    <3>1. mst.stb /\ mst'.adr = WrapNext(mst.adr, MaxCount)
      BY <1>4, <2>2, MasterData
    <3>2. mst.adr = Around(c.active, v, MaxCount)
      BY <1>2, <2>2, <3>1 DEF Known, DataInv, WritesBack
    <3>3. mst'.adr = Around(c.active, v, MaxCount + 1)
      BY <1>1, <1>3, <3>1, <3>2, NextAround
    <3>4. PICK q \in Nat : q = MaxCount + 1
      BY MaxFacts
    <3>5. PICK b \in Nat : b = c.active
      BY <1>1
    <3>6. PICK l \in Nat : l = v
      BY <1>3
    <3>7. LineOf(Around(b, l, q)) = l
      BY AroundFacts, Zenon
    <3>8. mst'.adr = Around(b, l, q)
      BY <3>3, <3>4, <3>5, <3>6, Zenon
    <3> QED
      BY <3>6, <3>7, <3>8, Zenon
  <2> QED
    BY <2>1, <2>2 DEF WbHolds, WaitHolds
<1>9. c'.state # "ST_WRITEBACK_WAIT" =>
        \A p \in MaxCount - c'.count .. MaxCount : \A a :
          a = Around(c'.active, v, p) => words'[CellOf(a)] = Newest(a)'
  BY <1>1, <1>5 DEF Gone
<1>10. c'.state = "ST_WRITEBACK" =>
         MaxCount - c'.count > 0 /\ mst'.adr = Around(c'.active, v, (MaxCount - c'.count) - 1)
  <2> SUFFICES ASSUME c'.state = "ST_WRITEBACK"
               PROVE  MaxCount - c'.count > 0 /\ mst'.adr = Around(c'.active, v, (MaxCount - c'.count) - 1)
    OBVIOUS
  <2>1. c.state = "ST_WRITEBACK" /\ mst'.adr = mst.adr
    BY <1>1 DEF WbHolds
  <2>2. Gone > 0 /\ mst.adr = Around(c.active, v, Gone - 1)
    BY <1>2, <2>1 DEF Known, DataInv, WritesBack
  <2> QED
    BY <1>1, <2>1, <2>2 DEF Gone
<1>11. c'.state = "ST_WRITEBACK_WAIT" /\ mst'.stb => mst'.adr = Around(c'.active, v, MaxCount)
  <2> SUFFICES ASSUME c'.state = "ST_WRITEBACK_WAIT", mst'.stb
               PROVE  mst'.adr = Around(c'.active, v, MaxCount)
    OBVIOUS
  <2>1. mst'.adr = mst.adr
    BY <1>7
  <2> QED
    BY <1>1, <1>2, <1>6, <2>1 DEF Known, DataInv, WritesBack
<1>12. mst'.stb => \A a : a = mst'.adr => mst'.dat = Newest(a)'
  BY <1>7
<1> QED
  BY <1>1, <1>3, <1>4, <1>8, <1>9, <1>10, <1>11, <1>12, WritesBackBy DEF MyLine, MyIndex

\* Every cycle keeps what is known of a write back.
LEMMA WritesBackStep ==
  ASSUME Known, NEW accept, NEW ack, NEW w, Cycle(accept, ack, w), c.tag_init_complete
  PROVE  WritesBack'
<1>1. CASE ~HasVictim'
  BY <1>1 DEF WritesBack
<1>2. CASE HasVictim' /\ InIdle
  <2>1. c'.state # "ST_IDLE" /\ c'.state \notin Fetching
    BY <1>2 DEF HasVictim, Fetching
  <2>2. WriteBackStarts(w)
    BY <1>2, <2>1, Afterwards DEF FetchStarts, Fetching
  <2> QED
    BY <1>2, <2>2, WriteBackBegins
<1>3. CASE HasVictim' /\ ~InIdle
  <2>1. c.state \in WritingBack
    BY <1>3, Afterwards DEF HasVictim, WritingBack
  <2>2. CASE c.state = "ST_WRITEBACK_PRE"
    BY <2>2, WriteBackMoves, WriteBackTakes
  <2>3. CASE c.state = "ST_WRITEBACK"
    <3>1. HasVictim
      BY <2>3 DEF HasVictim
    <3>2. CASE WbHolds
      BY <1>3, <2>3, <3>1, <3>2, WriteBackHolds
    <3>3. CASE WbNext(w) \/ WbLast(w)
      BY <2>3, <3>3, WriteBackTakes
    <3> QED
      BY <2>3, <3>2, <3>3, WriteBackMoves
  <2>4. CASE c.state = "ST_WRITEBACK_WAIT"
    <3>1. ~WaitEnds
      BY <1>3 DEF WaitEnds, HasVictim
    <3>2. WaitHolds(accept)
      BY <2>4, <3>1, WriteBackMoves
    <3>3. HasVictim
      BY <2>4, <3>2 DEF WaitHolds, HasVictim, Busy, Working
    <3> QED
      BY <1>3, <2>4, <3>2, <3>3, WriteBackHolds
  <2> QED
    BY <2>1, <2>2, <2>3, <2>4 DEF WritingBack
<1> QED
  BY <1>1, <1>2, <1>3

-----------------------------------------------------------------------------
(* Where the newest version of a word is after a cycle.                    *)

\* A transfer in one cycle: it writes back, begins to fetch, waits for a word,
\* gets one, or gets the last one.
GoesOnBack  == c.state \in WritingBack /\ c'.state \in WritingBack /\ c'.ignore = c.ignore
BeginsFetch ==
  /\ c.state \in WritingBack /\ c'.state \in Fetching
  /\ c'.count = MaxCount /\ c'.ignore = c.ignore
AwaitsWord ==
  /\ c.state \in Fetching /\ ~mst.dready_rd
  /\ c'.state = c.state /\ c'.count = c.count /\ c'.ignore = c.ignore
GetsWord ==
  /\ c.state \in Fetching /\ mst.dready_rd /\ c.count # 0
  /\ c'.state = c.state /\ c'.count = c.count - 1 /\ c'.ignore = 0
GetsLast    == c.state \in Fetching /\ c'.state = "ST_IDLE" /\ c.count = 0 /\ mst.dready_rd

\* A transfer does one of these.
LEMMA TransferMoves ==
  ASSUME Known, NEW accept, NEW ack, NEW w, Cycle(accept, ack, w), ~InIdle
  PROVE  /\ c'.active = c.active /\ MyLine' = MyLine /\ MyIndex' = MyIndex
         /\ c.state \in WritingBack => GoesOnBack \/ BeginsFetch
         /\ c.state \in Fetching => AwaitsWord \/ GetsWord \/ GetsLast
         /\ c.state \in WritingBack \/ c.state \in Fetching
<1>1. c.state \in WritingBack \/ c.state \in Fetching
  BY BusyStates
<1>2. ASSUME c.state \in WritingBack
      PROVE  c'.active = c.active /\ (GoesOnBack \/ BeginsFetch)
  <2>1. c'.active = c.active /\ c'.ignore = c.ignore
    BY <1>2, WriteBackMoves
  <2>2. CASE c.state = "ST_WRITEBACK_PRE"
    BY <1>2, <2>1, <2>2, WriteBackMoves DEF PreMove, WritingBack, GoesOnBack
  <2>3. CASE c.state = "ST_WRITEBACK"
    BY <1>2, <2>1, <2>3, WriteBackMoves DEF WbHolds, SameMove, WbNext, WbLast, WritingBack, GoesOnBack
  <2>4. CASE c.state = "ST_WRITEBACK_WAIT"
    BY <1>2, <2>1, <2>4, WriteBackMoves, PhaseFacts
       DEF WaitHolds, SameMove, WaitEnds, WritingBack, Fetching, GoesOnBack, BeginsFetch
  <2> QED
    BY <1>2, <2>2, <2>3, <2>4 DEF WritingBack
<1>3. ASSUME c.state \in Fetching
      PROVE  c'.active = c.active /\ (AwaitsWord \/ GetsWord \/ GetsLast)
  BY <1>3, FetchMoves
     DEF FetchHolds, SameMove, FetchTakes, FetchEnds, AwaitsWord, GetsWord, GetsLast
<1> QED
  BY <1>1, <1>2, <1>3 DEF MyLine, MyIndex

\* A word that has arrived stays.
LEMMA ArrivedStays ==
  ASSUME Known, NEW accept, NEW ack, NEW w, Cycle(accept, ack, w), ~InIdle,
         NEW a \in Nat, Arrived(a)
  PROVE  InIdle' \/ Arrived(a)'
<1>1. /\ c.active \in Nat /\ Gone \in 0 .. MaxCount /\ c.count \in 0 .. MaxCount /\ MaxCount \in Nat
      /\ MaxCount > 2 /\ Gone = MaxCount - c.count
  BY Basics, MaxFacts DEF Gone
<1>2. Ahead(c.active, a) \in 0 .. MaxCount /\ (a = c.active => Ahead(c.active, a) = 0)
  BY <1>1, AheadFacts
<1>3. c.state \in Fetching /\ Gone > 0 => c.ignore = 0
  BY DEF Known, DataInv, Phases
<1>4. c'.active = c.active
  BY TransferMoves
<1>5. CASE c.state \in WritingBack
  <2>1. a = c.active /\ c.ignore = 1
    BY <1>5 DEF Arrived, WritingBack, Fetching
  <2> QED
    BY <1>4, <1>5, <2>1, TransferMoves DEF Arrived, GoesOnBack, BeginsFetch
<1>6. CASE AwaitsWord
  BY <1>4, <1>6 DEF AwaitsWord, Arrived, Gone
<1>7. CASE GetsWord
  <2>1. Ahead(c.active, a) < Gone + 1 /\ MaxCount - c'.count = Gone + 1
    BY <1>1, <1>2, <1>3, <1>7 DEF GetsWord, Arrived
  <2> QED
    BY <1>4, <1>7, <2>1 DEF GetsWord, Arrived, Gone
<1>8. CASE GetsLast
  BY <1>8 DEF GetsLast, InIdle
<1> QED
  BY <1>5, <1>6, <1>7, <1>8, TransferMoves

\* The line of a word in the cache while a transfer that has set its tag goes
\* on is that of the transfer, if the index is.
LEMMA HeldTogether ==
  ASSUME Known, ~InIdle, ~Untagged, NEW a \in Nat, IndexOf(a) = MyIndex, Held(a)
  PROVE  LineOf(a) = MyLine
<1>1. Held(c.active)
  BY DEF Known, DataInv, Phases
<1> QED
  BY <1>1 DEF Held, IsFor, MyIndex, MyLine

\* A write that completes is in the cache, and the line is dirty.
LEMMA WriteCompletes ==
  ASSUME Known, NEW accept, NEW ack, NEW w, Cycle(accept, ack, w), c.tag_init_complete,
         NEW a \in Addrs, complete_o(w), Writing(a)
  PROVE  WordAfter(CellOf(a))' = Newest(a)' /\ Sits(a)' /\ MarkedDirty(a)'
<1>1. a \in Nat /\ CellOf(a) \in CellNos /\ core.addr = a /\ core.en /\ core.we /\ core.we \in BOOLEAN
  BY UsedWords, CellFacts, Basics DEF Known, Writing
<1>2. Tagged(core.addr) /\ ~line_active(c.we_1d) /\ (InIdle \/ c.mem_write_en)
  BY <1>1, Wires
<1>3. Newest(a)' = core.din
  BY NewestStep
<1>4. WordAfter(CellOf(a))' = core.din
  <2>1. CASE InIdle
    <3>1. Prepares
      BY <1>1, <1>2, <2>1, Wires DEF Prepares
    <3> QED
      BY <1>1, <3>1, WordStep
  <2>2. CASE ~InIdle
    <3>1. c.mem_write_en /\ ~Prepares
      BY <1>2, <2>2 DEF Prepares
    <3>2. c.mem_din = core.din
      BY <3>1 DEF Known, DataInv, Port0Fits
    <3>3. ~(Fills /\ CellOf(a) = c.mem1_addr)
      BY <1>1, <3>1, PortsApart
    <3>4. WordAfter(CellOf(a))' = WordNow(CellOf(a))
      BY <1>1, <3>1, WordStep
    <3> QED
      BY <1>1, <3>1, <3>2, <3>3, <3>4 DEF WordNow, WordAfter
  <2> QED
    BY <2>1, <2>2
<1>5. ~c.tag_we /\ ~SetsTag(w, dready(w, accept, ack))
  <2>1. ~SetsTag(w, dready(w, accept, ack))
    <3>1. SUFFICES ASSUME SetsTag(w, dready(w, accept, ack)) PROVE FALSE
      OBVIOUS
    <3>2. ~Tagged(core.addr)
      BY <3>1, SettingTag
    <3> QED
      BY <1>2, <3>2
  <2> QED
    BY <1>2, <2>1, HitAlone
<1>6. Held(a)' /\ MarkedDirty(a)'
  <2>1. Held(a)
    BY <1>1, <1>2, <1>5, HitIsHeld
  <2>2. Marks
    BY <1>1, <1>2 DEF Marks
  <2> QED
    BY <1>1, <1>5, <2>1, <2>2, HeldStep
<1>7. InIdle' \/ IndexOf(a) # MyIndex' \/ Arrived(a)'
  <2>1. CASE InIdle
    <3>1. ~Starting(w)
      BY <1>1, <1>2 DEF Starting
    <3>2. IdleStays(w)
      BY <2>1, <3>1, IdleMoves DEF FetchStarts, WriteBackStarts
    <3> QED
      BY <3>2 DEF IdleStays, InIdle
  <2>2. CASE ~InIdle /\ IndexOf(a) # MyIndex
    BY <2>2, TransferMoves
  <2>3. CASE ~InIdle /\ IndexOf(a) = MyIndex
    <3>1. SameLine
      BY <1>1, <1>2, <2>3, HitLine
    <3>2. \/ c.state \in Fetching /\ Ahead(c.active, core.addr) < Gone
          \/ c.state = "ST_WRITEBACK" /\ core.addr = c.active
      <4>1. PICK we \in BOOLEAN : we <=> c.we_1d
        OBVIOUS
      <4>2. ~line_active(we)
        BY <1>2, <4>1 DEF line_active
      <4> QED
        BY <2>3, <3>1, <4>2, LineInactive
    <3>3. c.state = "ST_WRITEBACK" => c.ignore = 1
      BY <1>1, <2>3 DEF Known, DataInv, Phases, WritingBack
    <3>4. Arrived(a)
      BY <1>1, <3>2, <3>3 DEF Arrived
    <3> QED
      BY <1>1, <2>3, <3>4, ArrivedStays
  <2> QED
    BY <2>1, <2>2, <2>3
<1> QED
  BY <1>3, <1>4, <1>6, <1>7 DEF Sits

\* A write that is prepared for the word of an address that is held is one to
\* this address, and if it is not complete it has been prepared in this cycle.
LEMMA PreparedWord ==
  ASSUME Known, NEW accept, NEW ack, NEW w, Cycle(accept, ack, w), c.tag_init_complete,
         NEW a \in Addrs, Prepares, CellOf(a) = CellOf(core.addr), Held(a)',
         ~(complete_o(w) /\ Writing(a))
  PROVE  Writing(a)' /\ Late'
<1>1. /\ a \in Nat /\ core.addr \in Nat /\ core.we /\ core.en /\ Tagged(core.addr)
      /\ ~line_active(core.we) /\ (InIdle \/ ~c.mem_write_en)
  BY UsedWords, Basics DEF Prepares, Known
<1>2. IndexOf(a) = IndexOf(core.addr) /\ WordOf(a) = WordOf(core.addr)
  BY <1>1, SameCell
<1>3. ~c.tag_we /\ ~SetsTag(w, dready(w, accept, ack))
  <2>1. ~SetsTag(w, dready(w, accept, ack))
    <3>1. SUFFICES ASSUME SetsTag(w, dready(w, accept, ack)) PROVE FALSE
      OBVIOUS
    <3>2. ~Tagged(core.addr)
      BY <3>1, SettingTag
    <3> QED
      BY <1>1, <3>2
  <2> QED
    BY <1>1, <2>1, HitAlone
<1>4. Held(a)
  BY <1>1, <1>3, HeldStep
<1>5. Tagged(a)
  BY <1>1, <1>3, <1>4, HitIsHeld
<1>6. LineOf(a) = LineOf(core.addr)
  BY <1>1, <1>2, <1>5 DEF Tagged, IsFor
<1>7. a = core.addr
  BY <1>1, <1>2, <1>6, SameCell
<1>8. Writing(a) /\ ~complete_o(w)
  BY <1>1, <1>7 DEF Writing
<1>9. core' = core
  BY <1>1, <1>8, Repeats
<1>10. Late'
  <2>1. WriteHit(w)
    BY <1>1, Wires
  <2>2. CASE ~InIdle
    <3>1. c'.mem_write_en
      BY <1>1, <2>1, <2>2 DEF Cycle
    <3> QED
      BY <3>1 DEF Late
  <2>3. CASE InIdle
    <3>1. pending_write
      BY <1>1, <1>8, <2>3, Wires
    <3>2. c'.pending_1d /\ c'.mem1_write_en
      BY <2>1, <2>3, <3>1 DEF Cycle
    <3> QED
      BY <3>2 DEF Late
  <2> QED
    BY <2>2, <2>3
<1> QED
  BY <1>8, <1>9, <1>10 DEF Writing

\* A word that the fetch writes in this cycle is the newest.
LEMMA FilledWord ==
  ASSUME Known, NEW accept, NEW ack, NEW w, Cycle(accept, ack, w), c.tag_init_complete,
         NEW a \in Addrs, Fills, CellOf(a) = c.mem1_addr, Sits(a)'
  PROVE  mst.dout = Newest(a)
<1>1. /\ a \in Nat /\ ~InIdle /\ c.active \in Nat /\ Gone \in 0 .. MaxCount /\ c.state \in Fetching
      /\ c.ignore = 0 /\ MaxCount \in Nat
  BY UsedWords, Basics, MaxFacts DEF Fills, Known, InIdle, Fetching
<1>2. PICK b \in Nat : b = c.active
  BY <1>1
<1>3. PICK l \in Nat : l = MyLine
  BY <1>1, AddressParts DEF MyLine
<1>4. PICK g \in 0 .. MaxCount : g = Gone
  BY <1>1
<1>5. CellOf(a) = CellOf(Around(b, l, g))
  BY <1>1, <1>2, <1>3, <1>4 DEF Known, DataInv, Places
<1>6. Ahead(b, a) = g /\ IndexOf(a) = l % NumberOfLines
  BY <1>1, <1>5, AheadCell
<1>7. IndexOf(a) = MyIndex /\ Ahead(c.active, a) = Gone
  BY <1>1, <1>2, <1>3, <1>4, <1>6, IndexFacts DEF MyIndex, MyLine
<1>8. ~Sits(a) /\ ~HasVictim
  BY <1>1, <1>7 DEF Sits, Arrived, HasVictim, Fetching, Gone
<1>9. mem[a] = Newest(a)
  BY <1>8 DEF Known, DataInv, EveryWord, ToWrite
<1>10. c'.active = c.active /\ (AwaitsWord \/ GetsWord \/ GetsLast)
  BY <1>1, TransferMoves
<1>11. mst.dready_rd
  <2>1. ~AwaitsWord
    <3>1. SUFFICES ASSUME AwaitsWord PROVE FALSE
      OBVIOUS
    <3> QED
      BY <1>1, <1>7, <1>10, <3>1 DEF Sits, AwaitsWord, Arrived, InIdle, MyIndex, Gone
  <2> QED
    BY <1>10, <2>1 DEF GetsWord, GetsLast
<1>12. Held(a)'
  BY DEF Sits
<1>13. LineOf(a) = MyLine
  <2>1. CASE Untagged
    <3>1. SetsTag(w, dready(w, accept, ack)) /\ core.addr = c.active
      BY <1>1, <1>11, <2>1, FetchMoves DEF Known, DataInv, Phases, Asking
    <3> QED
      BY <1>1, <1>7, <1>12, <3>1, HeldStep DEF MyIndex, MyLine
  <2>2. CASE ~Untagged
    <3>1. ~SetsTag(w, dready(w, accept, ack))
      BY <1>1, <2>2, FetchMoves
    <3>2. Held(a)
      BY <1>1, <1>12, <3>1, HeldStep
    <3> QED
      BY <1>1, <1>7, <2>2, <3>2, HeldTogether
  <2> QED
    BY <2>1, <2>2
<1>14. Around(b, LineOf(a), Ahead(b, a)) = a
  BY <1>1, AheadFacts
<1>15. mst.dout = mem[Around(c.active, MyLine, Gone)]
  BY <1>1, <1>11 DEF Known, DataInv, FetchFits
<1>16. mst.dout = mem[a]
  BY <1>2, <1>4, <1>6, <1>13, <1>14, <1>15
<1> QED
  BY <1>9, <1>16

\* A write to a word that is held, and that is not complete, is still waited
\* for in the next cycle.
LEMMA WriteWaits ==
  ASSUME Known, NEW accept, NEW ack, NEW w, Cycle(accept, ack, w), c.tag_init_complete,
         NEW a \in Addrs, Sits(a), Writing(a), Late, ~complete_o(w), ~Prepares
  PROVE  Writing(a)' /\ Late'
<1>1. /\ a \in Nat /\ core.addr = a /\ core.en /\ core.we /\ core.we \in BOOLEAN /\ core.addr \in Nat
      /\ c.count \in 0 .. MaxCount /\ Gone = MaxCount - c.count /\ MaxCount \in Nat /\ MaxCount > 2
  BY UsedWords, Basics, MaxFacts DEF Known, Writing, Gone
<1>2. core' = core
  BY <1>1, Repeats
<1>3. Writing(a)'
  BY <1>1, <1>2 DEF Writing
<1>4. c'.state \in WritingBack => Late'
  BY DEF Late
<1>5. c'.state \in Fetching /\ MaxCount - c'.count <= 2 => Late'
  BY DEF Late, Gone
<1>6. CASE c.state \in WritingBack
  <2>1. GoesOnBack \/ BeginsFetch
    BY <1>6, TransferMoves DEF WritingBack, InIdle
  <2> QED
    BY <1>1, <1>3, <1>4, <1>5, <2>1 DEF GoesOnBack, BeginsFetch
<1>7. CASE c.mem_write_en
  <2>1. Tagged(core.addr)
    BY <1>7 DEF Known, DataInv, Port0Fits
  <2>2. ~pending_write
    BY <1>7 DEF pending_write, Known, DataInv, Port1Fits
  <2>3. line_active(c.we_1d)
    BY <1>1, <1>7, <2>1, <2>2, Wires
  <2>4. ~InIdle /\ SameLine /\ ~(Passed /\ c.state \in Fetching)
    BY <2>3 DEF line_active
  <2>5. IndexOf(core.addr) = MyIndex
    BY <2>4 DEF SameLine, MyIndex, IndexOf
  <2>6. c.state = "ST_WRITEBACK"
    BY <1>7, <2>4, <2>5, PassedFacts DEF Known, DataInv, Port0Fits
  <2> QED
    BY <1>6, <2>6 DEF WritingBack
<1>8. CASE c.mem1_write_en /\ c.pending_1d
  <2>1. InIdle /\ core.addr = c.active /\ Tagged(core.addr)
    BY <1>8 DEF Known, DataInv, Port1Fits, Asking, Tagged, MyIndex
  <2>2. ~pending_write
    BY <1>8 DEF pending_write
  <2> QED
    BY <1>1, <2>1, <2>2, Wires
<1>9. CASE c.state \in Fetching /\ Gone <= 2
  <2>1. ~InIdle /\ (AwaitsWord \/ GetsWord \/ GetsLast)
    BY <1>9, TransferMoves DEF Fetching, InIdle
  <2>2. CASE AwaitsWord \/ (GetsWord /\ Gone <= 1)
    BY <1>1, <1>3, <1>5, <1>9, <2>2 DEF AwaitsWord, GetsWord
  <2>3. CASE GetsWord /\ Gone = 2
    <3>1. ~c.tag_we
      BY <1>9, <2>3 DEF Known, DataInv, TagPortFits, Fetching
    <3>2. Tagged(a)
      BY <1>1, <3>1, HitIsHeld DEF Sits
    <3>3. c.ignore = 0
      BY <1>9, <2>3 DEF Known, DataInv, Phases
    <3>4. ~line_active(core.we)
      <4>1. IndexOf(a) = MyIndex => Ahead(c.active, a) < Gone
        BY <2>1, <3>3 DEF Sits, Arrived
      <4>2. SameLine => IndexOf(a) = MyIndex
        BY <1>1 DEF SameLine, MyIndex, IndexOf
      <4>3. SameLine => Passed
        BY <1>1, <2>1, <4>1, <4>2, PassedFacts
      <4> QED
        BY <1>9, <4>3 DEF line_active
    <3>5. c.mem_write_en
      BY <1>1, <3>2, <3>4 DEF Prepares
    <3> QED
      BY <1>7, <3>5
  <2>4. ~GetsLast
    BY <1>1, <1>9 DEF GetsLast
  <2> QED
    BY <1>1, <1>9, <2>1, <2>2, <2>3, <2>4
<1> QED
  BY <1>6, <1>7, <1>8, <1>9 DEF Late

\* A word that comes to be held without being written in this cycle is the one
\* that a write waits for.
LEMMA NewcomerTag ==
  ASSUME Known, NEW accept, NEW ack, NEW w, Cycle(accept, ack, w), c.tag_init_complete,
         NEW a \in Addrs, Sits(a)', SetsTag(w, dready(w, accept, ack)),
         IndexOf(a) = IndexOf(core.addr), ~(Fills /\ CellOf(a) = c.mem1_addr)
  PROVE  Writing(a)' /\ Late'
<1>1. /\ a \in Nat /\ core.addr \in Nat /\ core.we \in BOOLEAN /\ (core.we => core.en)
      /\ c.count \in 0 .. MaxCount /\ Gone = MaxCount - c.count /\ MaxCount \in Nat /\ MaxCount > 2
  BY UsedWords, Basics, MaxFacts DEF Known, Gone
<1>2. core' = core /\ (Untagged \/ (InIdle /\ wb_writeback(w)))
  BY SettingTag
<1>3. LineOf(a) = LineOf(core.addr)
  BY <1>1, HeldStep DEF Sits
<1>4. CASE InIdle /\ wb_writeback(w)
  <2>1. WriteBackStarts(w) /\ c'.active = core.addr
    BY <1>4, IdleMoves DEF IdleStays, FetchStarts
  <2>2. Arrived(a)'
    BY <1>1, <2>1 DEF Sits, WriteBackStarts, InIdle, MyIndex
  <2>3. a = core.addr /\ core.we
    BY <1>1, <2>1, <2>2 DEF WriteBackStarts, Starting, Arrived, Fetching
  <2> QED
    BY <1>1, <1>2, <2>1, <2>3 DEF WriteBackStarts, Writing, Late, WritingBack
<1>5. CASE Untagged
  <2>1. /\ c.state = "ST_FETCH" /\ c.count = MaxCount /\ core.addr = c.active
        /\ (c.ignore = 1 <=> core.we) /\ ~InIdle /\ c.ignore \in {0, 1}
    BY <1>5 DEF Known, DataInv, Phases, Untagged, Asking, InIdle
  <2>2. GetsWord /\ c'.active = c.active
    <3>1. mst.dready_rd
      BY <2>1, FetchMoves DEF Fetching
    <3> QED
      BY <1>1, <2>1, <3>1, TransferMoves DEF AwaitsWord, GetsLast, Fetching
  <2>3. c'.state = "ST_FETCH" /\ MaxCount - c'.count = 1 /\ c'.ignore = 0
    BY <1>1, <2>1, <2>2 DEF GetsWord
  <2>4. Arrived(a)'
    BY <2>1, <2>2, <2>3 DEF Sits, InIdle, MyIndex
  <2>5. Ahead(c.active, a) < 1
    BY <2>2, <2>3, <2>4 DEF Arrived, Gone
  <2>6. a = core.addr
    <3>1. PICK b \in Nat : b = c.active
      BY <1>1, <2>1
    <3>2. /\ Ahead(b, a) \in 0 .. MaxCount
          /\ Ahead(b, a) = 0 /\ LineOf(b) = LineOf(a) => b = a
      BY <1>1, AheadFacts, Zenon
    <3>3. Ahead(b, a) < 1
      BY <2>5, <3>1
    <3>4. LineOf(b) = LineOf(a)
      BY <1>3, <2>1, <3>1
    <3>5. Ahead(b, a) = 0
      BY <1>1, <3>2, <3>3
    <3> QED
      BY <2>1, <3>1, <3>2, <3>4, <3>5
  <2>7. c.mem1_addr = CellOf(a)
    <3>1. PICK b \in Nat : b = c.active
      BY <1>1, <2>1
    <3>2. Gone = 0
      BY <1>1, <2>1
    <3>3. c.mem1_addr = CellOf(Around(b, LineOf(b), 0))
      BY <2>1, <3>1, <3>2 DEF Known, DataInv, Places, MyLine
    <3>4. Around(b, LineOf(b), 0) = b
      BY FirstAround, AddressParts
    <3> QED
      BY <2>1, <2>6, <3>1, <3>3, <3>4
  <2>8. core.we
    BY <2>1, <2>7 DEF Fills, Fetching
  <2> QED
    BY <1>1, <1>2, <2>3, <2>6, <2>8 DEF Writing, Late, Fetching, Gone
<1> QED
  BY <1>2, <1>4, <1>5

\* Otherwise none comes.
LEMMA NewcomerWord ==
  ASSUME Known, NEW accept, NEW ack, NEW w, Cycle(accept, ack, w), c.tag_init_complete,
         NEW a \in Addrs, Sits(a)',
         ~(SetsTag(w, dready(w, accept, ack)) /\ IndexOf(a) = IndexOf(core.addr)),
         ~(Fills /\ CellOf(a) = c.mem1_addr)
  PROVE  Sits(a)
<1>1. /\ a \in Nat /\ core.addr \in Nat
      /\ c.count \in 0 .. MaxCount /\ Gone = MaxCount - c.count /\ MaxCount \in Nat /\ MaxCount > 2
  BY UsedWords, Basics, MaxFacts DEF Known, Gone
<1>2. Held(a)
  BY <1>1, HeldStep DEF Sits
<1>3. SUFFICES ASSUME ~InIdle, IndexOf(a) = MyIndex PROVE Arrived(a)
  BY <1>2 DEF Sits
<1>4. c'.active = c.active /\ MyIndex' = MyIndex /\ c.active \in Nat
      /\ c.ignore \in {0, 1} /\ (c.state \in Fetching /\ Gone > 0 => c.ignore = 0)
  BY <1>3, TransferMoves, Basics DEF Known, DataInv, Phases
<1>5. Ahead(c.active, a) \in 0 .. MaxCount
      /\ (Ahead(c.active, a) = 0 /\ LineOf(a) = MyLine => a = c.active)
  BY <1>1, <1>4, AheadFacts DEF MyLine
<1>6. InIdle' \/ Arrived(a)'
  BY <1>3, <1>4 DEF Sits
<1>7. ASSUME c.state \in Fetching, mst.dready_rd, Ahead(c.active, a) = Gone
      PROVE  Arrived(a)
  <2>1. LineOf(a) = MyLine
    <3>1. CASE Untagged
      <4>1. SetsTag(w, dready(w, accept, ack)) /\ core.addr = c.active
        BY <1>7, <3>1, FetchMoves DEF Known, DataInv, Phases, Asking
      <4> QED
        BY <1>3, <4>1 DEF MyIndex
    <3> QED
      BY <1>1, <1>2, <1>3, <3>1, HeldTogether
  <2>2. CellOf(a) = c.mem1_addr
    <3>1. PICK b \in Nat : b = c.active
      BY <1>4
    <3>2. Around(b, LineOf(a), Ahead(b, a)) = a
      BY <1>1, AheadFacts
    <3>3. a = Around(c.active, MyLine, Gone)
      BY <1>7, <2>1, <3>1, <3>2
    <3>4. c.mem1_addr = CellOf(Around(c.active, MyLine, Gone))
      BY <1>3 DEF Known, DataInv, Places
    <3> QED
      BY <3>3, <3>4
  <2>3. c.ignore = 1
    BY <1>4, <1>7, <2>2 DEF Fills
  <2>4. Gone = 0
    BY <1>1, <1>4, <1>7, <2>3
  <2> QED
    BY <1>5, <1>7, <2>1, <2>3, <2>4 DEF Arrived
<1>8. CASE c.state \in WritingBack
  <2>1. CASE GoesOnBack
    BY <1>4, <1>6, <2>1 DEF GoesOnBack, WritingBack, InIdle, Fetching, Arrived
  <2>2. CASE BeginsFetch
    <3>1. MaxCount - c'.count = 0 /\ c'.state # "ST_IDLE"
      BY <1>1, <2>2 DEF BeginsFetch, Fetching
    <3>2. ~(Ahead(c.active, a) < 0)
      BY <1>5, <1>1
    <3> QED
      BY <1>4, <1>6, <2>2, <3>1, <3>2 DEF BeginsFetch, InIdle, Arrived, Gone
  <2> QED
    BY <1>3, <1>8, <2>1, <2>2, TransferMoves
<1>9. CASE AwaitsWord
  BY <1>4, <1>6, <1>9 DEF AwaitsWord, InIdle, Fetching, Arrived, Gone
<1>10. CASE GetsWord
  <2>1. MaxCount - c'.count = Gone + 1 /\ c'.state # "ST_IDLE" /\ c'.ignore = 0
    BY <1>1, <1>10 DEF GetsWord, Fetching
  <2>2. Ahead(c.active, a) < Gone + 1
    BY <1>4, <1>6, <2>1 DEF InIdle, Arrived, Gone
  <2> QED
    BY <1>1, <1>5, <1>7, <1>10, <2>2 DEF GetsWord, Arrived
<1>11. CASE GetsLast
  <2>1. Gone = MaxCount
    BY <1>1, <1>11 DEF GetsLast
  <2> QED
    BY <1>1, <1>5, <1>7, <1>11, <2>1 DEF GetsLast, Arrived
<1> QED
  BY <1>3, <1>8, <1>9, <1>10, <1>11, TransferMoves

\* Every word that is held is the newest, or waited for, in the next cycle.
LEMMA GoodStep ==
  ASSUME Known, NEW accept, NEW ack, NEW w, Cycle(accept, ack, w), c.tag_init_complete,
         NEW a \in Addrs, Sits(a)'
  PROVE  Good(a)'
<1>1. a \in Nat /\ CellOf(a) \in CellNos
  BY UsedWords, CellFacts DEF Known
<1>2. CASE complete_o(w) /\ Writing(a)
  BY <1>2, WriteCompletes DEF Good
<1>3. CASE ~(complete_o(w) /\ Writing(a))
  <2>1. Newest(a)' = Newest(a)
    BY <1>3, NewestStep
  <2>2. CASE Prepares /\ CellOf(a) = CellOf(core.addr)
    <3>1. Held(a)'
      BY DEF Sits
    <3> QED
      BY <1>3, <2>2, <3>1, PreparedWord DEF Good
  <2>3. CASE ~(Prepares /\ CellOf(a) = CellOf(core.addr)) /\ Fills /\ CellOf(a) = c.mem1_addr
    <3>1. WordAfter(CellOf(a))' = mst.dout
      BY <1>1, <2>3, WordStep DEF WordNow
    <3>2. mst.dout = Newest(a)
      BY <2>3, FilledWord
    <3> QED
      BY <2>1, <3>1, <3>2 DEF Good
  <2>4. CASE ~(Prepares /\ CellOf(a) = CellOf(core.addr)) /\ ~(Fills /\ CellOf(a) = c.mem1_addr)
    <3>1. WordAfter(CellOf(a))' = WordAfter(CellOf(a))
      BY <1>1, <2>4, WordStep DEF WordNow
    <3>2. CASE Sits(a)
      <4>1. Good(a)
        BY <3>2 DEF Known, DataInv, EveryWord
      <4>2. CASE WordAfter(CellOf(a)) = Newest(a)
        BY <2>1, <3>1, <4>2 DEF Good
      <4>3. CASE Writing(a) /\ Late
        <5>1. ~complete_o(w) /\ ~Prepares
          BY <1>3, <2>4, <4>3 DEF Writing
        <5> QED
          BY <3>2, <4>3, <5>1, WriteWaits DEF Good
      <4> QED
        BY <4>1, <4>2, <4>3 DEF Good
    <3>3. CASE ~Sits(a)
      <4>1. SetsTag(w, dready(w, accept, ack)) /\ IndexOf(a) = IndexOf(core.addr)
        BY <2>4, <3>3, NewcomerWord
      <4> QED
        BY <2>4, <4>1, NewcomerTag DEF Good
    <3> QED
      BY <3>2, <3>3
  <2> QED
    BY <2>2, <2>3, <2>4
<1> QED
  BY <1>2, <1>3

\* What a write back puts into the memory is the newest.
LEMMA MemoryNewest ==
  ASSUME Known, NEW accept, NEW ack, NEW w, Cycle(accept, ack, w),
         NEW a \in Addrs
  PROVE  /\ accept /\ mst.we /\ mst.adr = a => mem'[a] = Newest(a)
         /\ mem[a] = Newest(a) => mem'[a] = Newest(a)
<1>1. accept \in BOOLEAN /\ (accept => mst.stb /\ Working)
  BY MasterData
<1>2. ASSUME accept, mst.we, mst.adr = a
      PROVE  mem'[a] = Newest(a)
  <2>1. HasVictim
    <3>1. ~InIdle /\ c.state # "ST_WRITEBACK_PRE" /\ c.state \notin Fetching
      BY <1>1, <1>2, PhaseFacts
    <3> QED
      BY <1>1, <1>2, <3>1, BusyStates DEF HasVictim, WritingBack, Busy, Working
  <2>2. mst.dat = Newest(mst.adr)
    BY <1>1, <1>2, <2>1 DEF Known, DataInv, WritesBack
  <2>3. mem' = [b \in Addrs |-> IF mst.adr = b THEN mst.dat ELSE mem[b]]
    BY <1>2, MemoryStep
  <2> QED
    BY <1>2, <2>2, <2>3
<1>3. ASSUME ~(accept /\ mst.we /\ mst.adr = a)
      PROVE  mem'[a] = mem[a]
  <2>1. CASE accept /\ mst.we
    BY <1>3, <2>1, MemoryStep
  <2>2. CASE ~(accept /\ mst.we)
    BY <2>2, MemoryStep
  <2> QED
    BY <2>1, <2>2
<1> QED
  BY <1>2, <1>3

\* A dirty word stays in the cache, or its line is to be written back.
LEMMA DirtyStep ==
  ASSUME Known, NEW accept, NEW ack, NEW w, Cycle(accept, ack, w), c.tag_init_complete,
         NEW a \in Addrs, Sits(a), MarkedDirty(a)
  PROVE  (Sits(a)' /\ MarkedDirty(a)') \/ ToWrite(a)'
<1>1. /\ a \in Nat /\ core.addr \in Nat /\ IndexOf(a) \in Indices
  BY UsedWords, Basics, IndexFacts DEF Known
<1>2. Held(a)
  BY DEF Sits
<1>3. CASE SetsTag(w, dready(w, accept, ack)) /\ IndexOf(a) = IndexOf(core.addr)
  <2>1. Untagged \/ (InIdle /\ wb_writeback(w))
    BY <1>3, SettingTag
  <2>2. ~Untagged
    <3>1. SUFFICES ASSUME Untagged PROVE FALSE
      OBVIOUS
    <3>2. ~c.tag_we /\ ~c.tag1_we /\ ~tags[MyIndex].dirty /\ IndexOf(a) = MyIndex
      BY <1>3, <3>1 DEF Known, DataInv, Phases, Asking, MyIndex
    <3> QED
      BY <3>2 DEF MarkedDirty, TagAfter
  <2>3. WriteBackStarts(w) /\ c'.active = core.addr
    BY <2>1, <2>2, IdleMoves DEF IdleStays, FetchStarts
  <2>4. tags'[IndexOf(a)].line = LineOf(a)
    BY <1>1, <1>2, TagsWritten DEF Held, IsFor
  <2> QED
    BY <1>3, <2>3, <2>4 DEF ToWrite, HasVictim, Victim, WriteBackStarts, MyIndex
<1>4. CASE ~(SetsTag(w, dready(w, accept, ack)) /\ IndexOf(a) = IndexOf(core.addr))
  <2>1. Held(a)' /\ MarkedDirty(a)'
    BY <1>1, <1>2, <1>4, HeldStep
  <2>2. InIdle' \/ IndexOf(a) # MyIndex' \/ Arrived(a)'
    <3>1. CASE ~InIdle
      <4>1. IndexOf(a) # MyIndex \/ Arrived(a)
        BY <3>1 DEF Sits
      <4> QED
        BY <1>1, <3>1, <4>1, TransferMoves, ArrivedStays
    <3>2. CASE InIdle /\ IdleStays(w)
      BY <3>2 DEF IdleStays, InIdle
    <3>3. CASE InIdle /\ ~IdleStays(w) /\ IndexOf(a) # IndexOf(core.addr)
      BY <3>3, IdleMoves DEF MyIndex
    <3>4. CASE InIdle /\ ~IdleStays(w) /\ IndexOf(a) = IndexOf(core.addr)
      <4>1. FetchStarts(w)
        BY <1>4, <3>4, IdleMoves DEF WriteBackStarts
      <4>2. ~tags'[IndexOf(a)].dirty
        BY <3>4, <4>1, StartTag DEF FetchStarts
      <4>3. tags'[IndexOf(a)] = TagAfter(IndexOf(a))
        BY <1>1, TagsWritten
      <4> QED
        BY <4>2, <4>3 DEF MarkedDirty
    <3> QED
      BY <3>1, <3>2, <3>3, <3>4
  <2> QED
    BY <2>1, <2>2 DEF Sits
<1> QED
  BY <1>3, <1>4

\* A word of the line that is written back is written, or stays one.
LEMMA ToWriteStep ==
  ASSUME Known, NEW accept, NEW ack, NEW w, Cycle(accept, ack, w), c.tag_init_complete,
         NEW a \in Addrs, ToWrite(a)
  PROVE  mem'[a] = Newest(a) \/ ToWrite(a)'
<1>1. /\ a \in Nat /\ HasVictim /\ LineOf(a) = Victim /\ Victim \in Nat /\ ~InIdle
      /\ c.count \in 0 .. MaxCount /\ Gone = MaxCount - c.count /\ MaxCount \in Nat /\ c.active \in Nat
      /\ Gone \in 0 .. MaxCount
  <2>1. HasVictim /\ LineOf(a) = Victim
    BY DEF ToWrite
  <2>2. ~InIdle
    BY <2>1 DEF HasVictim, InIdle
  <2>3. Victim \in Lines
    BY <2>1 DEF Known, DataInv, WritesBack
  <2> QED
    BY <2>1, <2>2, <2>3, UsedWords, Basics, MaxFacts DEF Known, Gone
<1>2. PICK b \in Nat : b = c.active
  BY <1>1
<1>3. PICK v \in Nat : v = Victim
  BY <1>1
<1>4. PICK g \in 0 .. MaxCount : g = Gone
  BY <1>1
<1>5. Ahead(b, a) \in 0 .. MaxCount /\ Around(b, v, Ahead(b, a)) = a
  BY <1>1, <1>3, AheadFacts
<1>6. c'.active = c.active
  BY <1>1, TransferMoves
<1>7. LineOf(Around(b, v, g)) = v
  BY <1>4, AroundFacts
<1>8. ASSUME \/ c.state = "ST_WRITEBACK_PRE" /\ PreMove(w)
             \/ c.state = "ST_WRITEBACK" /\ (WbNext(w) \/ WbLast(w))
      PROVE  mst'.stb /\ Working' /\ mst'.adr = Around(b, v, g) /\ LineOf(mst'.adr) = v
  <2>1. mst'.adr = Around(c.active, Victim, Gone) /\ mst'.stb /\ Working'
    BY <1>8, WriteBackTakes
  <2>2. mst'.adr = Around(b, v, g)
    BY <1>2, <1>3, <1>4, <2>1
  <2> QED
    BY <1>7, <2>1, <2>2
<1>9. CASE c.state = "ST_WRITEBACK_PRE"
  <2>1. PreMove(w) /\ Gone = 0
    BY <1>1, <1>9, PhaseFacts, WriteBackMoves
  <2>2. mst'.stb /\ mst'.adr = Around(b, v, g) /\ LineOf(mst'.adr) = v
    BY <1>8, <1>9, <2>1
  <2>3. c'.state = "ST_WRITEBACK" /\ MaxCount - c'.count = 1
    BY <1>1, <2>1 DEF PreMove
  <2>4. CASE Ahead(b, a) = 0
    BY <1>1, <1>3, <1>4, <1>5, <2>1, <2>2, <2>3, <2>4 DEF ToWrite, HasVictim, Victim
  <2>5. CASE Ahead(b, a) # 0
    <3>1. Ahead(b, a) >= 1
      BY <1>1, <1>5, <2>5
    <3> QED
      BY <1>1, <1>2, <1>3, <1>6, <2>2, <2>3, <3>1 DEF ToWrite, HasVictim, Victim, Gone
  <2> QED
    BY <2>4, <2>5
<1>10. CASE c.state = "ST_WRITEBACK" /\ WbHolds
  <2>1. Working /\ mst.stb /\ mst.count # 0
    BY <1>1, <1>10, PhaseFacts
  <2>2. mst'.stb
    BY <1>10, <2>1, StbStays DEF WbHolds
  <2> QED
    BY <1>1, <1>6, <1>10, <2>2 DEF WbHolds, SameMove, ToWrite, HasVictim, Victim, Gone
<1>11. CASE c.state = "ST_WRITEBACK" /\ (WbNext(w) \/ WbLast(w))
  <2>1. mst'.stb /\ Working' /\ mst'.adr = Around(b, v, g) /\ LineOf(mst'.adr) = v
    BY <1>8, <1>11
  <2>2. accept /\ mst.we
    <3>1. mst.we /\ mst.stb /\ mst.count # 0
      BY <1>1, <1>11, PhaseFacts
    <3>2. c'.count # c.count
      BY <1>1, <1>11, MaxFacts DEF WbNext, WbLast
    <3>3. dready(w, accept, ack)
      BY <1>1, <3>2, BusyRegisters DEF Advances
    <3> QED
      BY <1>11, <3>1, <3>3, TakenWord
  <2>3. CASE mst.adr = a
    BY <2>2, <2>3, MemoryNewest
  <2>4. CASE mst.adr # a
    <3>1. Ahead(b, a) >= g
      BY <1>2, <1>4, <1>11, <2>4 DEF ToWrite
    <3>2. CASE Ahead(b, a) = g
      <4>1. a = mst'.adr
        BY <1>5, <2>1, <3>2
      <4>2. HasVictim' /\ Victim' = v
        BY <1>11, <2>1 DEF HasVictim, Victim, WbNext, WbLast, Busy, Working
      <4> QED
        BY <1>1, <1>3, <2>1, <4>1, <4>2 DEF ToWrite
    <3>3. CASE Ahead(b, a) # g
      <4>1. Ahead(b, a) >= g + 1 /\ g # MaxCount
        BY <1>1, <1>5, <3>1, <3>3
      <4>2. c'.state = "ST_WRITEBACK" /\ MaxCount - c'.count = g + 1
        BY <1>1, <1>4, <1>11, <4>1 DEF WbNext, WbLast
      <4> QED
        BY <1>1, <1>2, <1>3, <1>6, <2>1, <4>1, <4>2 DEF ToWrite, HasVictim, Victim, Gone
    <3> QED
      BY <3>2, <3>3
  <2> QED
    BY <2>3, <2>4
<1>12. CASE c.state = "ST_WRITEBACK_WAIT"
  <2>1. mst.stb /\ mst.adr = a
    BY <1>12 DEF ToWrite
  <2>2. WaitHolds(accept)
    BY <1>12, <2>1, WriteBackMoves DEF WaitEnds
  <2>3. mst.we /\ Working
    BY <1>12, <2>2, PhaseFacts DEF WaitHolds
  <2>4. CASE accept
    BY <2>1, <2>3, <2>4, MemoryNewest
  <2>5. CASE ~accept
    <3>1. Working'
      <4>1. SUFFICES ASSUME ~Working' PROVE FALSE
        OBVIOUS
      <4>2. ack /\ mst.count_ack = 0
        BY <2>3, <4>1, MasterData DEF MasterMoves
      <4>3. /\ mst.count_ack + 1 = mst.count + 1 + Len(pend) /\ mst.count \in Nat
            /\ IsASequence(pend)
        BY <2>1, <2>3 DEF Known, CacheInv, InStep, IsMaster, Working
      <4>4. Len(pend) \in Nat /\ (pend # <<>> => Len(pend) >= 1)
        BY <4>3, LengthStep
      <4>5. pend = <<>>
        BY <4>2, <4>3, <4>4
      <4> QED
        BY <2>5, <4>2, <4>5 DEF Cycle, Turn, BusMay, Answers
    <3>2. mst'.stb
      BY <2>1, <2>3, <2>5, <3>1, StbStays
    <3> QED
      BY <1>1, <1>12, <2>1, <2>2, <2>5, <3>1, <3>2
         DEF WaitHolds, SameMove, ToWrite, HasVictim, Victim, Busy, Working
  <2> QED
    BY <2>4, <2>5
<1> QED
  BY <1>1, <1>9, <1>10, <1>11, <1>12, WriteBackMoves DEF HasVictim

\* In the next cycle every word is where it should be, too.
LEMMA EveryWordStep ==
  ASSUME Known, NEW accept, NEW ack, NEW w, Cycle(accept, ack, w), c.tag_init_complete
  PROVE  EveryWord'
<1>1. ASSUME NEW a \in Addrs
      PROVE  mem'[a] = Newest(a)' \/ (Sits(a)' /\ MarkedDirty(a)') \/ ToWrite(a)'
  <2>1. CASE complete_o(w) /\ Writing(a)
    BY <2>1, WriteCompletes
  <2>2. CASE ~(complete_o(w) /\ Writing(a))
    <3>1. Newest(a)' = Newest(a)
      BY <2>2, NewestStep
    <3>2. mem[a] = Newest(a) \/ (Sits(a) /\ MarkedDirty(a)) \/ ToWrite(a)
      BY DEF Known, DataInv, EveryWord
    <3>3. CASE mem[a] = Newest(a)
      BY <3>1, <3>3, MemoryNewest
    <3>4. CASE Sits(a) /\ MarkedDirty(a)
      BY <3>4, DirtyStep
    <3>5. CASE ToWrite(a)
      BY <3>1, <3>5, ToWriteStep
    <3> QED
      BY <3>2, <3>3, <3>4, <3>5
  <2> QED
    BY <2>1, <2>2
<1>2. \A a \in Addrs : Sits(a)' => Good(a)'
  BY GoodStep
<1> QED
  BY <1>1, <1>2 DEF EveryWord

\* Every cycle keeps what is known of the data.
LEMMA DataStep ==
  ASSUME Known, NEW accept, NEW ack, NEW w, Cycle(accept, ack, w)
  PROVE  DataInv'
<1>1. CASE ~c.tag_init_complete
  BY <1>1, ClearingStep
<1>2. CASE c.tag_init_complete
  <2>1. TagsClear'
    BY <1>2 DEF TagsClear, Cycle, Turn
  <2> QED
    BY <1>2, <2>1, ShapesStep, TagsFitStep, Port1Step, Port0Step, TagPortStep, Tag1PortStep,
       PhasesStep, PlacesStep, FetchFitsStep, WritesBackStep, EveryWordStep DEF DataInv
<1> QED
  BY <1>1, <1>2

\* A read that completes finds its word, and nothing else.
LEMMA ReadStep ==
  ASSUME Known, NEW accept, NEW ack, NEW w, Cycle(accept, ack, w)
  PROVE  ReadsAreCurrent'
<1> DEFINE a == core.addr
           x == CellOf(a)
<1>1. CASE ~(core.en /\ complete_o(w))
  BY <1>1 DEF Cycle, NotDone, ReadsAreCurrent
<1>2. CASE core.en /\ complete_o(w) /\ core.we
  <2>1. got' = [NotDone EXCEPT !.on = TRUE]
    BY <1>2 DEF Cycle, Done
  <2>2. got'.val = Junk /\ got'.want = Junk
    BY <2>1 DEF NotDone
  <2> QED
    BY <2>2 DEF ReadsAreCurrent
<1>3. ASSUME core.en, complete_o(w), ~core.we
      PROVE  w.mem_dout = Newest(a)
  <2>1. a \in Nat /\ a \in Addrs /\ c.tag_init_complete /\ x \in CellNos
    BY <1>3, Basics, UsedWords, CellFacts DEF Known
  <2>2. Tagged(a) /\ ~line_active(c.we_1d) /\ ~pending_write
    BY <1>3, <2>1, Wires
  <2>3. Held(a)
    BY <2>1, <2>2, HitAlone, HitIsHeld
  <2>4. ~InIdle /\ IndexOf(a) = MyIndex =>
          /\ Arrived(a)
          /\ c.state \in Fetching => Ahead(c.active, a) < Gone
    <3> SUFFICES ASSUME ~InIdle, IndexOf(a) = MyIndex
                 PROVE  Arrived(a) /\ (c.state \in Fetching => Ahead(c.active, a) < Gone)
      OBVIOUS
    <3>1. SameLine
      BY <2>1, <2>2, HitLine
    <3>2. \/ c.state \in Fetching /\ Ahead(c.active, core.addr) < Gone
          \/ c.state = "ST_WRITEBACK" /\ core.addr = c.active /\ c.we_1d
      <4>1. PICK we \in BOOLEAN : we <=> c.we_1d
        OBVIOUS
      <4>2. ~line_active(we)
        BY <2>2, <4>1 DEF line_active
      <4> QED
        BY <3>1, <4>1, <4>2, LineInactive
    <3>3. c.state = "ST_WRITEBACK" /\ c.we_1d => c.ignore = 1
      BY DEF Known, DataInv, Phases, WritingBack
    <3> QED
      BY <3>2, <3>3 DEF Arrived, Fetching
  <2>5. WordAfter(x) = Newest(a)
    <3>1. Sits(a)
      BY <2>3, <2>4 DEF Sits
    <3>2. Good(a)
      BY <2>1, <3>1 DEF Known, DataInv, EveryWord
    <3> QED
      BY <1>3, <3>2 DEF Good, Writing
  <2>6. ~c.mem_write_en
    BY <1>3 DEF Known, DataInv, Port0Fits
  <2>7. ~(c.mem1_write_en /\ x = c.mem1_addr)
    <3> SUFFICES ASSUME c.mem1_write_en, x = c.mem1_addr PROVE FALSE
      OBVIOUS
    <3>1. /\ c.mem1_addr = CellOf(c.active) /\ c.active \in Writes
          /\ ~c.pending_1d
      BY <1>3 DEF Known, DataInv, Port1Fits
    <3>2. c.active \in Nat
      BY <3>1, UsedWords DEF Known
    <3>3. IndexOf(a) = MyIndex
      BY <2>1, <3>1, <3>2, SameCell DEF MyIndex
    <3> QED
      BY <2>2, <3>1, <3>3, Waits
  <2>8. ~(Fills /\ x = c.mem1_addr)
    <3> SUFFICES ASSUME Fills, x = c.mem1_addr PROVE FALSE
      OBVIOUS
    <3>1. ~InIdle /\ c.active \in Nat /\ Gone \in 0 .. MaxCount /\ c.state \in Fetching /\ MaxCount \in Nat
      BY Basics, MaxFacts DEF Fills, InIdle, Fetching
    <3>2. PICK b \in Nat : b = c.active
      BY <3>1
    <3>3. PICK l \in Nat : l = MyLine
      BY <3>1, AddressParts DEF MyLine
    <3>4. PICK g \in 0 .. MaxCount : g = Gone
      BY <3>1
    <3>5. x = CellOf(Around(b, l, g))
      BY <3>1, <3>2, <3>3, <3>4 DEF Known, DataInv, Places
    <3>6. Ahead(b, a) = g /\ IndexOf(a) = l % NumberOfLines
      BY <2>1, <3>5, AheadCell
    <3>7. IndexOf(a) = MyIndex
      BY <3>1, <3>3, <3>6, IndexFacts DEF MyIndex, MyLine
    <3> QED
      BY <2>4, <3>1, <3>2, <3>4, <3>6, <3>7
  <2>9. ~(mem1_we /\ x = c.mem1_addr)
    BY <2>7, <2>8 DEF mem1_we, Fills
  <2>10. w.mem_dout = words[x]
    BY <2>9 DEF Cycle, RamOut
  <2> QED
    BY <2>5, <2>6, <2>7, <2>10 DEF WordAfter
<1>4. CASE core.en /\ complete_o(w) /\ ~core.we
  <2>1. ~c.bypass_active
    BY Basics
  <2>2. got' = Done(w) /\ dout_o(w) = w.mem_dout
    BY <1>4, <2>1 DEF Cycle, dout_o
  <2>3. got'.val = w.mem_dout /\ got'.want = Newest(a)
    BY <1>4, <2>2 DEF Done, Newest
  <2> QED
    BY <1>3, <1>4, <2>3 DEF ReadsAreCurrent
<1> QED
  BY <1>1, <1>2, <1>4

\* At first the memory has everything and the cache nothing.
LEMMA InitData == Init => DataInv /\ ReadsAreCurrent
<1> SUFFICES ASSUME Init PROVE DataInv /\ ReadsAreCurrent
  OBVIOUS
<1>1. /\ c = CacheReset /\ mst = MasterReset(Junk) /\ pend = <<>> /\ core \in IdleCore
      /\ tags = [i \in Indices |-> OldTag] /\ words = [i \in CellNos |-> Junk]
      /\ mem = [a \in Addrs |-> Value(a, 0)] /\ latest = 0 /\ got = NotDone
  BY DEF Init
<1>2. /\ c.state = "ST_IDLE" /\ ~c.tag_init_complete /\ c.tag_we = FALSE /\ c.tag1_we = TRUE
      /\ c.mem1_ov = FALSE /\ c.mem_write_en = FALSE /\ c.mem1_write_en = FALSE /\ c.pending_1d = FALSE
      /\ c.tag1_index = 0 /\ c.tag_out = NoTag /\ c.tag1_out = NoTag
  BY <1>1 DEF CacheReset
<1>3. ~core.we
  <2>1. PICK a \in Reads : core = [en |-> FALSE, we |-> FALSE, addr |-> a, din |-> Junk]
    BY <1>1, Zenon DEF IdleCore
  <2> QED
    BY <2>1
<1>4. IsTag(NoTag) /\ IsTag(OldTag)
  BY TagBuilt DEF NoTag, OldTag
<1>5. Shapes
  <2>1. 0 \in Indices
    BY SizeFacts
  <2>2. /\ tags = [i \in Indices |-> tags[i]] /\ \A i \in Indices : IsTag(tags[i])
        /\ words = [i \in CellNos |-> words[i]] /\ mem = [a \in Addrs |-> mem[a]]
    BY <1>1, <1>4
  <2> QED
    BY <1>2, <1>3, <1>4, <2>1, <2>2 DEF Shapes
<1>6. TagsClear
  <2>1. \A i \in Indices : ~(i < 0)
    BY SizeFacts
  <2>2. \A a \in Addrs : mem[a] = Newest(a)
    BY <1>1 DEF Newest
  <2> QED
    BY <1>2, <2>1, <2>2 DEF TagsClear, InIdle
<1>7. /\ TagsFit /\ Port1Fits /\ Port0Fits /\ TagPortFits /\ Tag1PortFits
      /\ Phases /\ Places /\ FetchFits /\ WritesBack /\ EveryWord
  BY <1>2 DEF TagsFit, Port1Fits, Port0Fits, TagPortFits, Tag1PortFits, Phases, Places, FetchFits,
     WritesBack, EveryWord, HasVictim, Untagged, InIdle, Fetching, WritingBack
<1>8. ReadsAreCurrent
  BY <1>1 DEF ReadsAreCurrent, NotDone
<1> QED
  BY <1>5, <1>6, <1>7, <1>8 DEF DataInv

-----------------------------------------------------------------------------
(* The theorems.                                                           *)

\* A step that changes nothing keeps it all.
LEMMA DataUnchanged ==
  ASSUME DataInv, ReadsAreCurrent, UNCHANGED vars
  PROVE  DataInv' /\ ReadsAreCurrent'
<1>1. /\ c' = c /\ mst' = mst /\ tags' = tags /\ words' = words /\ core' = core /\ mem' = mem
      /\ pend' = pend /\ watch' = watch /\ latest' = latest /\ got' = got
  BY DEF vars
<1>2. Shapes' /\ TagsClear' /\ TagsFit' /\ Port1Fits' /\ Port0Fits'
  <2>1. Shapes'
    BY <1>1 DEF DataInv, Shapes, Versions
  <2>2. TagsClear'
    BY <1>1 DEF DataInv, TagsClear, InIdle, Newest
  <2>3. TagsFit'
    BY <1>1 DEF DataInv, TagsFit
  <2>4. Port1Fits'
    BY <1>1 DEF DataInv, Port1Fits, InIdle, MyIndex, Asking
  <2>5. Port0Fits'
    BY <1>1 DEF DataInv, Port0Fits, InIdle, MyIndex, Tagged, Gone
  <2> QED
    BY <2>1, <2>2, <2>3, <2>4, <2>5
<1>3. TagPortFits' /\ Tag1PortFits' /\ Phases' /\ Places' /\ FetchFits'
  <2>1. TagPortFits'
    BY <1>1 DEF DataInv, TagPortFits, Asking, Tagged, MyLine, Gone
  <2>2. Tag1PortFits'
    BY <1>1 DEF DataInv, Tag1PortFits, InIdle, MyIndex, Writing, Tagged
  <2>3. Phases'
    BY <1>1 DEF DataInv, Phases, Untagged, Asking, Tagged, MyIndex, InIdle, Held, TagAfter, MarkedDirty, Gone
  <2>4. Places'
    BY <1>1 DEF DataInv, Places, InIdle, MyLine, Gone
  <2>5. FetchFits'
    BY <1>1 DEF DataInv, FetchFits, MyLine, Gone, Owed, Busy
  <2> QED
    BY <2>1, <2>2, <2>3, <2>4, <2>5
<1>4. WritesBack'
  BY <1>1 DEF DataInv, WritesBack, HasVictim, Victim, MyLine, MyIndex, Gone, Busy, Newest
<1>5. EveryWord'
  BY <1>1 DEF DataInv, EveryWord, Sits, Held, TagAfter, InIdle, MyIndex, Arrived, Gone, Good, WordAfter,
     Newest, Writing, Late, MarkedDirty, ToWrite, HasVictim, Victim, Busy
<1>6. ReadsAreCurrent'
  BY <1>1 DEF ReadsAreCurrent
<1> QED
  BY <1>2, <1>3, <1>4, <1>5, <1>6 DEF DataInv

\* Without write through, and with a user that takes back no read, what is
\* known of the data stays true.
THEOREM DataInductive ==
  ~WriteThrough /\ ~Withdraws => (Spec => [](Known /\ ReadsAreCurrent))
<1> SUFFICES ASSUME ~WriteThrough, ~Withdraws PROVE Spec => [](Known /\ ReadsAreCurrent)
  OBVIOUS
<1> DEFINE Inv == Known /\ ReadsAreCurrent
<1>1. Init => Inv
  BY InitCounts, InitData DEF Known
<1>2. Inv /\ [Next]_vars => Inv'
  <2> SUFFICES ASSUME Inv, [Next]_vars PROVE Inv'
    OBVIOUS
  <2>1. CASE Next
    <3>1. PICK accept, ack, w : Cycle(accept, ack, w)
      BY <2>1, NextCycles
    <3>2. Turn(accept, ack, w)
      BY <3>1 DEF Cycle
    <3>3. CacheInv' /\ IsASequence(pend)'
      BY <3>2, TurnCounts DEF Known
    <3>4. DataInv' /\ ReadsAreCurrent'
      BY <3>1, DataStep, ReadStep
    <3> QED
      BY <3>3, <3>4 DEF Known
  <2>2. CASE UNCHANGED vars
    <3>1. DataInv' /\ ReadsAreCurrent'
      BY <2>2, DataUnchanged DEF Known
    <3>2. CacheInv' /\ IsASequence(pend)'
      BY <2>2, CountsUnchanged DEF Known
    <3> QED
      BY <3>1, <3>2 DEF Known
  <2> QED
    BY <2>1, <2>2
<1> QED
  BY <1>1, <1>2, PTL DEF Spec

\* A read of the second level returns the last value written, whatever is
\* being fetched or written back: the property of wb_cache.vhd that a program
\* relies on.
THEOREM CurrentKept == ~WriteThrough /\ ~Withdraws => (Spec => []ReadsAreCurrent)
<1>1. Known /\ ReadsAreCurrent => ReadsAreCurrent
  OBVIOUS
<1> QED
  BY <1>1, DataInductive, PTL

\* And no write of it is lost: what the cache holds is the newest, and what
\* the memory lacks is in a dirty line.
THEOREM WritesKept == ~WriteThrough /\ ~Withdraws => (Spec => []NoWriteIsLost)
<1>1. Known => NoWriteIsLost
  <2> SUFFICES ASSUME Known, Quiet, NEW a \in Addrs
               PROVE  /\ Holds(a) => words[CellOf(a)] = Newest(a)
                      /\ (Holds(a) /\ IsDirty(a)) \/ mem[a] = Newest(a)
    BY DEF NoWriteIsLost
  <2>1. a \in Nat /\ c.tag_init_complete
    BY UsedWords DEF Known, DataInv, TagsClear, Quiet
  <2>2. (Holds(a) <=> Held(a)) /\ (IsDirty(a) <=> MarkedDirty(a))
    BY DEF Quiet, Holds, Held, IsFor, TagAfter, IsDirty, MarkedDirty
  <2>3. ~Late /\ ~HasVictim
    BY DEF Quiet, Late, InIdle, WritingBack, Fetching, HasVictim
  <2>4. WordAfter(CellOf(a)) = words[CellOf(a)]
    BY DEF Quiet, WordAfter
  <2>5. Sits(a) <=> Held(a)
    BY DEF Quiet, Sits
  <2>6. /\ Sits(a) => Good(a)
        /\ mem[a] = Newest(a) \/ (Sits(a) /\ MarkedDirty(a)) \/ ToWrite(a)
    BY <2>1 DEF Known, DataInv, EveryWord
  <2> QED
    BY <2>2, <2>3, <2>4, <2>5, <2>6 DEF Good, ToWrite
<1> QED
  BY <1>1, DataInductive, PTL
=============================================================================
