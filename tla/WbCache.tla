------------------------------ MODULE WbCache ------------------------------
(***************************************************************************)
(* The direct-mapped cache (VHDL/wishbone/wb_cache.vhd) between one user   *)
(* and a wb_master: write back (the second level in front of the SDRAM) or *)
(* write through with snooping and a bypass range (the caches of a core).  *)
(*                                                                         *)
(* One step is one cycle of clk_i.  The RAMs of tags and words             *)
(* (VHDL/sl_dpram.vhd) and two registers work on the other edge, in the    *)
(* middle of the cycle: there the addresses of this cycle are read and the *)
(* writes prepared at the last edge are done.  What follows in the second  *)
(* half, from hit to complete_o, is a function of what was read, the       *)
(* record w below, and is latched at the end of the cycle.                 *)
(*                                                                         *)
(* Addresses are word addresses.  A tag is the number of the line it is    *)
(* for, with a dirty and a valid bit.  Data is the address a word belongs  *)
(* to with a version; only the words in Watched have more than one.        *)
(***************************************************************************)
EXTENDS WbMaster, Sequences

CONSTANTS
  WordsPerLine, NumberOfLines, WriteThrough,
  BypassBase,     \* first address of the bypass range (EnableBypass)
  Reads, Writes,  \* the addresses the user reads and writes
  Watched,        \* one of them is watched
  Others,         \* addresses other masters write, seen by snooping
  Withdraws       \* the user may take back a read that is not complete

ASSUME WbCacheAssumption ==
  /\ WordsPerLine \in {4, 8, 16, 32, 64}
  /\ NumberOfLines \in {2, 4, 8, 16, 32, 64, 128, 256, 512, 1024, 2048, 4096}
  /\ WriteThrough => NumberOfLines % WordsPerLine = 0
  /\ \A b \in {WriteThrough, Withdraws} : b \in BOOLEAN
  /\ Reads \cup Writes \subseteq Nat /\ BypassBase \in Nat
  \* The second level has no bypass (VHDL/top/top.vhd:172).
  /\ ~WriteThrough => Others = {} /\ \A a \in Reads \cup Writes : a < BypassBase

VARIABLES
  c,        \* registers of the cache
  mst,      \* registers of its wb_master
  tags,     \* the tag RAM
  words,    \* the word RAM
  core,     \* what the user drives: [en, we, addr, din]
  mem,      \* the memory behind the master
  pend,     \* its answers to accepted requests, oldest first
  snooped,  \* a write of somebody was snooped in the last cycle
  watch,    \* the watched address
  latest,   \* the version the watched word has for its users (history)
  fresh,    \* cycles since another master wrote the watched word (history)
  got       \* the read completed in the last cycle (history)

vars == <<c, mst, tags, words, core, mem, pend, snooped, watch, latest, fresh, got>>

-----------------------------------------------------------------------------
(* Addresses, tags and data.                                               *)

LineOf(a)  == a \div WordsPerLine
WordOf(a)  == a % WordsPerLine
IndexOf(a) == LineOf(a) % NumberOfLines
CellOf(a)  == a % (NumberOfLines * WordsPerLine)

MaxCount == WordsPerLine - 1
Indices  == 0 .. NumberOfLines - 1
CellNos  == 0 .. NumberOfLines * WordsPerLine - 1

Used  == Reads \cup Writes \cup Others
Addrs == UNION {{LineOf(a) * WordsPerLine + i : i \in 0 .. MaxCount} : a \in Used}
Lines == {LineOf(a) : a \in Addrs}

Value(a, version) == <<a, version>>
Junk == <<0, 2>>   \* no word of the memory
Data == {Value(a, version) : a \in Addrs, version \in 0 .. 1} \cup {Junk}

NoTag  == [line |-> 0, dirty |-> FALSE, valid |-> FALSE]
OldTag == [line |-> 0, dirty |-> TRUE, valid |-> TRUE]   \* from before a reset

Fetching == {"ST_FETCH", "ST_FETCH_AFTER_WB"}

CacheReset ==
  [state |-> "ST_IDLE", count |-> 0, tag_init_complete |-> FALSE,
   tag_out |-> NoTag, tag_we |-> FALSE, snoop_read |-> FALSE,
   tag1_out |-> NoTag, tag1_we |-> TRUE, tag1_index |-> 0, inv_addr |-> 0,
   mem_din |-> Junk, mem1_addr |-> 0, mem1_ov |-> FALSE, mem_write_en |-> FALSE,
   mem1_write_en |-> FALSE, active |-> 0, ignore |-> 0, pending_1d |-> FALSE,
   bypass_pending |-> FALSE, bypass_active |-> FALSE, we_1d |-> FALSE]

-----------------------------------------------------------------------------
(* Wires that do not depend on what the RAMs read.                         *)

InIdle    == c.state = "ST_IDLE"
bypass    == core.addr >= BypassBase
en        == core.en /\ ~bypass
SameLine  == LineOf(core.addr) = LineOf(c.active)

\* Compares the address bits from WordsPerLine up to NumberOfLines: part of
\* the index, or nothing at all.
line_addr_conflict ==
  NumberOfLines > WordsPerLine =>
    (LineOf(core.addr) - LineOf(c.active)) % (NumberOfLines \div WordsPerLine) = 0

\* Nothing waits for the port; what waits never ends waiting.
BugNothingPends == FALSE
BugPendsForEver == InIdle /\ c.mem1_write_en /\ line_addr_conflict

pending_write == InIdle /\ ~c.pending_1d /\ c.mem1_write_en /\ line_addr_conflict

\* The words of a line as the transfer takes them, from that of c.active on and
\* around: overflow bit and word number.
Position(ov, a) == (IF ov THEN WordsPerLine ELSE 0) + WordOf(a)
addr_ov_bit == WordOf(c.active) > WordOf(core.addr)
Passed == Position(addr_ov_bit, core.addr) < Position(c.mem1_ov, c.mem1_addr)

\* The line of the user is under way and its word has not been passed; we is
\* we_1d.  A write to the first word may go on while the rest of the old line
\* is written back.
line_active(we) ==
  /\ ~InIdle /\ SameLine
  /\ ~(WriteThrough /\ c.state = "ST_WRITE_TROUGH")
  /\ ~(Passed /\ c.state \in Fetching)
  /\ ~(Passed /\ ~WriteThrough /\ c.state = "ST_WRITEBACK" /\ c.count = MaxCount - 1 /\ we)

-----------------------------------------------------------------------------
(* The middle of the cycle: two RAMs with two ports each.  A port reads    *)
(* what was there before its own write.  What it reads of a word that the  *)
(* other port writes, and which of two writes stays, is not defined.       *)

RamOut(ram, i, we, j, new) == {ram[i]} \cup (IF we /\ i = j THEN {new} ELSE {})

Write(ram, we, i, new) == IF we THEN [ram EXCEPT ![i] = new] ELSE ram
RamNext(ram, we, i, new, we1, j, new1) ==
  {Write(Write(ram, we, i, new), we1, j, new1), Write(Write(ram, we1, j, new1), we, i, new)}

mem1_we  == c.mem1_write_en \/ (c.state \in Fetching /\ c.ignore = 0)
mem1_din == IF c.state \in Fetching THEN mst.dout ELSE c.mem_din

\* The word the user reads is being written through the other port.
Collides == mem1_we /\ c.mem1_addr = CellOf(core.addr)

\* What the RAMs read, and en_and_line_inactive.
MidEdge ==
  [tag_in    : RamOut(tags, IndexOf(core.addr), c.tag1_we, c.tag1_index, c.tag1_out),
   tag1_in   : RamOut(tags, c.tag1_index, c.tag_we, IndexOf(core.addr), c.tag_out),
   mem_dout  : RamOut(words, CellOf(core.addr), mem1_we, c.mem1_addr, mem1_din),
   mem1_dout : RamOut(words, c.mem1_addr, c.mem_write_en, CellOf(core.addr), c.mem_din),
   inactive  : {en /\ ~line_active(c.we_1d)}]

TagsNext  == RamNext(tags, c.tag_we, IndexOf(core.addr), c.tag_out,
                     c.tag1_we, c.tag1_index, c.tag1_out)
WordsNext == RamNext(words, c.mem_write_en, CellOf(core.addr), c.mem_din,
                     mem1_we, c.mem1_addr, mem1_din)

-----------------------------------------------------------------------------
(* The second half of the cycle.                                           *)

cache_hit(w) == w.tag_in.valid /\ w.tag_in.line = LineOf(core.addr)

wb_fetch(w) ==
  IF WriteThrough THEN en /\ ~core.we /\ ~cache_hit(w)
                  ELSE en /\ ~pending_write /\ ~cache_hit(w) /\ ~w.tag_in.dirty
wb_writeback(w) ==
  ~WriteThrough /\ en /\ ~pending_write /\ ~cache_hit(w) /\ w.tag_in.dirty

\* What the cache asks its wb_master for.
wb_burst == IF bypass \/ (WriteThrough /\ core.we) THEN 0 ELSE MaxCount
Ask(on, we, a, data) ==
  [en |-> on, we |-> we, addr |-> a, din |-> data, burst |-> wb_burst, hold |-> bypass /\ core.en]

MasterInput(w) ==
  IF bypass
    THEN Ask(core.en /\ InIdle /\ ~c.bypass_pending /\ ~mst.complete, core.we, core.addr, core.din)
  ELSE IF WriteThrough /\ en /\ core.we
    THEN Ask(TRUE, TRUE, core.addr, core.din)
  ELSE IF ~WriteThrough /\ c.state = "ST_WRITEBACK_PRE"
    THEN Ask(TRUE, TRUE, w.tag_in.line * WordsPerLine + WordOf(core.addr), w.mem1_dout)
  ELSE IF wb_fetch(w) /\ InIdle
    THEN Ask(TRUE, FALSE, core.addr, w.mem1_dout)
  ELSE IF mst.complete /\ c.state \in {"ST_WRITEBACK", "ST_WRITEBACK_WAIT"}
    THEN Ask(TRUE, FALSE, c.active, w.mem1_dout)
  ELSE Ask(FALSE, FALSE, 0, w.mem1_dout)

complete_o(w) ==
  IF c.bypass_active THEN mst.complete
  ELSE IF WriteThrough
    THEN w.inactive /\ IF core.we THEN InIdle ELSE cache_hit(w) /\ ~pending_write
    ELSE w.inactive /\ cache_hit(w) /\ ~pending_write /\ (core.we => InIdle \/ c.mem_write_en)

dout_o(w) == IF c.bypass_active THEN mst.dout ELSE w.mem_dout

-----------------------------------------------------------------------------
(* The registers at the end of the cycle; dready is wb_dready.             *)

\* A word of a transfer has been taken, or has arrived.
Advances(dready) ==
  dready /\ ~InIdle /\ ~(mst.complete /\ c.state \in {"ST_WRITE_TROUGH", "ST_WRITEBACK_WAIT"})

NextState(w, dready) ==
  CASE InIdle /\ wb_writeback(w) -> "ST_WRITEBACK_PRE"
    [] InIdle /\ wb_fetch(w)     -> "ST_FETCH"
    [] InIdle /\ WriteThrough /\ en /\ core.we -> "ST_WRITE_TROUGH"
    [] c.state = "ST_WRITE_TROUGH" /\ mst.complete   -> "ST_IDLE"
    [] c.state = "ST_WRITEBACK_WAIT" /\ mst.complete -> "ST_FETCH_AFTER_WB"
    [] c.state = "ST_WRITEBACK_PRE" /\ dready        -> "ST_WRITEBACK"
    [] c.state = "ST_WRITEBACK" /\ dready /\ c.count = 0 -> "ST_WRITEBACK_WAIT"
    [] c.state \in Fetching /\ dready /\ c.count = 0 -> "ST_IDLE"
    [] OTHER -> c.state

Starts(w) == InIdle /\ (wb_writeback(w) \/ wb_fetch(w))

\* One word too few is counted.
BugOneShort(w, dready) ==
  CASE Starts(w) -> MaxCount - 1
    [] Advances(dready) -> (c.count + WordsPerLine - 1) % WordsPerLine
    [] OTHER -> c.count

NextWordCount(w, dready) ==
  CASE Starts(w) -> MaxCount
    [] Advances(dready) -> (c.count + WordsPerLine - 1) % WordsPerLine
    [] OTHER -> c.count

NextMem1Addr(w, dready) ==
  CASE InIdle /\ wb_writeback(w) -> CellOf(w.tag_in.line * WordsPerLine + WordOf(core.addr))
    [] InIdle /\ ~wb_writeback(w) -> CellOf(core.addr)
    [] Advances(dready) -> WrapNext(c.mem1_addr, MaxCount)
    [] OTHER -> c.mem1_addr

NextMem1Ov(dready) ==
  IF Advances(dready)
    THEN (c.mem1_ov \/ WordOf(c.mem1_addr) = MaxCount) /\ ~(c.state = "ST_WRITEBACK" /\ c.count = 0)
    ELSE c.mem1_ov /\ ~InIdle

\* The fetch brings back the word just written.
BugFetchesTheWritten(w, dready) == 0

\* A write miss leaves out the first word of the fetch.
NextIgnore(w, dready) ==
  IF InIdle THEN IF Starts(w) /\ core.we THEN 1 ELSE 0
          ELSE IF Advances(dready) /\ c.state \in Fetching THEN 0 ELSE c.ignore

\* The word of the user is written, at once or, with the port busy, in a
\* cycle of its own.
WriteHit(w) == cache_hit(w) /\ core.we /\ ~line_active(core.we) /\ ~bypass

SetsTag(w, dready) ==
  \/ c.state = "ST_FETCH" /\ dready /\ c.count = MaxCount
  \/ InIdle /\ wb_writeback(w)

\* A line that somebody else has written stays.
BugNeverMatches(w) == FALSE

\* The second port of the tag RAM: cleared after reset, then used to mark a
\* line dirty or to invalidate a line that somebody else has written.
SnoopHit(w) == (w.tag1_in.line * WordsPerLine) \div NumberOfLines = c.inv_addr

Tag1Edge(w, snoop) ==
  LET r == [tag1_we |-> FALSE, tag1_out |-> c.tag1_out, tag1_index |-> c.tag1_index,
            snoop_read |-> c.snoop_read, inv_addr |-> c.inv_addr]
  IN  CASE ~c.tag_init_complete ->
             [r EXCEPT !.tag1_we = TRUE, !.tag1_index = (@ + 1) % NumberOfLines]
        [] c.tag_init_complete /\ WriteThrough /\ c.snoop_read ->
             [r EXCEPT !.tag1_we = SnoopHit(w), !.snoop_read = FALSE]
        [] c.tag_init_complete /\ WriteThrough /\ ~c.snoop_read /\ snoop # {} ->
             LET a == CHOOSE a \in snoop : TRUE
             IN  [r EXCEPT !.inv_addr = a \div NumberOfLines, !.tag1_index = IndexOf(a),
                           !.tag1_out = NoTag, !.snoop_read = TRUE]
        [] c.tag_init_complete /\ ~WriteThrough /\ cache_hit(w) /\ core.we ->
             [r EXCEPT !.tag1_out = [w.tag_in EXCEPT !.dirty = TRUE],
                       !.tag1_we = TRUE, !.tag1_index = IndexOf(core.addr)]
        [] OTHER -> r

CacheEdge(w, ask, dready, snoop) ==
  LET tag1 == Tag1Edge(w, snoop) IN
  [state |-> NextState(w, dready), count |-> NextWordCount(w, dready),
   tag_init_complete |-> c.tag_init_complete \/ c.tag1_index = NumberOfLines - 1,
   tag_out |-> IF SetsTag(w, dready)
                 THEN [line |-> LineOf(core.addr), dirty |-> core.we, valid |-> TRUE] ELSE c.tag_out,
   tag_we |-> SetsTag(w, dready),
   tag1_we |-> tag1.tag1_we, tag1_out |-> tag1.tag1_out, tag1_index |-> tag1.tag1_index,
   snoop_read |-> tag1.snoop_read, inv_addr |-> tag1.inv_addr,
   mem_din |-> core.din,
   mem1_addr |-> NextMem1Addr(w, dready), mem1_ov |-> NextMem1Ov(dready),
   mem1_write_en |-> WriteHit(w) /\ InIdle,
   mem_write_en |-> WriteHit(w) /\ ~InIdle /\ ~c.mem_write_en,
   active |-> IF InIdle THEN core.addr ELSE c.active,
   ignore |-> NextIgnore(w, dready),
   pending_1d |-> pending_write,
   bypass_pending |-> bypass /\ mst.complete,
   bypass_active |-> (bypass /\ ask.en) \/ (c.bypass_active /\ ~mst.complete),
   we_1d |-> core.we]

-----------------------------------------------------------------------------
(* The memory and the other masters that write it.                         *)

Asked == mst.stb /\ mst.cyc

\* The answers owed, with that to a request accepted in this cycle.
Answers(accept) ==
  IF accept THEN Append(pend, IF mst.we THEN Junk ELSE mem[mst.adr]) ELSE pend

Bus(accept, ack) ==
  [ack |-> ack, err |-> FALSE, stall |-> ~accept, dat |-> IF ack THEN Head(Answers(accept)) ELSE Junk]

\* Accepted now or before, requests are acknowledged in order, in the same
\* cycle at the earliest.  Acknowledged writes of all masters are snooped, and
\* the arbiter leaves a cycle between two of them.
BusMay(accept, ack) ==
  /\ accept => Asked
  /\ ack => Answers(accept) # <<>>
  /\ ack /\ mst.we /\ WriteThrough => ~snooped

\* Another master gets at the memory only between two of our commands.
OthersMay(accept, ack) ==
  pend = <<>> /\ ~accept /\ ~(mst.stb /\ mst.count # mst.mask) /\ ~snooped

OwnSnoop(ack) == IF WriteThrough /\ ack /\ mst.we /\ mst.adr < BypassBase THEN {mst.adr} ELSE {}

MemEdge(accept, other) ==
  [a \in Addrs |->
     IF accept /\ mst.we /\ mst.adr = a THEN mst.dat
     ELSE IF other.on /\ other.addr = a THEN Value(a, other.version)
     ELSE mem[a]]

-----------------------------------------------------------------------------
(* The user and what it can tell.                                          *)

Versions(a) == IF a = watch THEN 0 .. 1 ELSE {0}
IdleCore == {[en |-> FALSE, we |-> FALSE, addr |-> a, din |-> Junk] : a \in Reads}
Requests ==
  {[en |-> TRUE, we |-> FALSE, addr |-> a, din |-> Junk] : a \in Reads} \cup
  UNION {{[en |-> TRUE, we |-> TRUE, addr |-> a, din |-> Value(a, version)] :
            version \in Versions(a)} : a \in Writes}

\* A request stays until it is complete, and none is made before the tags are
\* cleared.  A core that flushes its pipeline takes back a read.
CoreNext(complete) ==
  CASE ~c.tag_init_complete -> IdleCore
    [] c.tag_init_complete /\ core.en /\ ~complete ->
         {core} \cup (IF Withdraws /\ ~core.we THEN {[core EXCEPT !.en = FALSE]} ELSE {})
    [] OTHER -> IdleCore \cup Requests

NoOther == [on |-> FALSE, addr |-> 0, version |-> 0]
OtherWrites == {[on |-> TRUE, addr |-> a, version |-> version] :
                  a \in Others, version \in 0 .. 1}

\* Snooping takes two cycles, in which a copy that is out of date may be read.
SnoopDelay == 2

\* A write of ours to the watched word that the memory will see later.
Posted == mst.stb /\ mst.we /\ mst.adr = watch

NextLatest(complete, other) ==
  IF complete /\ core.en /\ core.we /\ core.addr = watch THEN core.din[2]
  ELSE IF other.on /\ other.addr = watch /\ ~Posted THEN other.version
  ELSE latest

NotDone == [on |-> FALSE, val |-> Junk, want |-> Junk, settled |-> FALSE, raced |-> FALSE]
Done(w) ==
  IF core.we THEN [NotDone EXCEPT !.on = TRUE]
  ELSE [on |-> TRUE, val |-> dout_o(w),
        want    |-> Value(core.addr, IF core.addr = watch THEN latest ELSE 0),
        settled |-> core.addr = watch => fresh = SnoopDelay,
        raced   |-> Collides]

Init ==
  /\ c = CacheReset
  /\ mst = MasterReset(Junk)
  /\ tags = [i \in Indices |-> OldTag]
  /\ words = [i \in CellNos |-> Junk]
  /\ core \in IdleCore
  /\ mem = [a \in Addrs |-> Value(a, 0)]
  /\ pend = <<>> /\ snooped = FALSE
  /\ watch \in Watched /\ latest = 0 /\ fresh = SnoopDelay
  /\ got = NotDone

Clock(accept, ack, other) ==
  /\ BusMay(accept, ack)
  /\ other.on => OthersMay(accept, ack) /\ OwnSnoop(ack) = {}
  /\ other.on /\ other.addr # watch => other.version = 0
  /\ \E w \in MidEdge :
       LET ask      == MasterInput(w)
           in       == Bus(accept, ack)
           complete == complete_o(w)
           snoop    == OwnSnoop(ack) \cup (IF other.on THEN {other.addr} ELSE {})
       IN  /\ c' = CacheEdge(w, ask, DReady(mst, ask, in), snoop)
           /\ mst' = MasterEdge(mst, ask, in)
           /\ snooped' = (snoop # {})
           /\ core' \in CoreNext(complete)
           /\ latest' = NextLatest(complete, other)
           /\ got' = IF core.en /\ complete THEN Done(w) ELSE NotDone
  /\ tags' \in TagsNext
  /\ words' \in WordsNext
  /\ mem' = MemEdge(accept, other)
  /\ pend' = IF ack THEN Tail(Answers(accept)) ELSE Answers(accept)
  /\ fresh' = IF other.on /\ other.addr = watch /\ ~Posted THEN 0
              ELSE IF fresh < SnoopDelay THEN fresh + 1 ELSE fresh
  /\ watch' = watch

Next == \E accept, ack \in BOOLEAN, other \in OtherWrites \cup {NoOther} :
          Clock(accept, ack, other)

Spec == Init /\ [][Next]_vars

\* The clock runs, and the memory accepts and acknowledges in the end: weak
\* fairness of the two, with what enables each and how it shows in the master.
Accepted == Asked /\ <<mst'.adr, mst'.stb>> # <<mst.adr, mst.stb>>
Acked    == mst.state = "ST_PENDING" /\ mst'.count_ack # mst.count_ack

FairSpec ==
  /\ Spec /\ WF_vars(Next)
  /\ []<>~Asked \/ []<><<Accepted>>_vars
  /\ []<>(pend = <<>>) \/ []<><<Acked>>_vars

-----------------------------------------------------------------------------
(* Properties.                                                             *)

Newest(a) == Value(a, IF a = watch THEN latest ELSE 0)

\* A read returns the last value written: not that of another line with the
\* same index, of a word the fetch has not brought yet, or of memory while the
\* newer one waits to be written back.
ReadsAreCurrent == got.on /\ got.settled => got.val = got.want

\* The same but for a read through one port of the RAM in the cycle in which
\* the word is written through the other.
ReadsAreCurrentUnlessRaced == ~got.raced => ReadsAreCurrent

\* Nothing is under way.
Quiet ==
  /\ InIdle /\ mst.state = "ST_IDLE"
  /\ ~c.mem_write_en /\ ~c.mem1_write_en /\ ~c.tag_we /\ ~c.tag1_we /\ ~c.snoop_read

Holds(a)   == tags[IndexOf(a)].valid /\ tags[IndexOf(a)].line = LineOf(a)
IsDirty(a) == tags[IndexOf(a)].dirty

\* No write is lost: with nothing under way, a word that the cache holds is
\* the newest, and memory has it as well unless the line is dirty, that is,
\* will be written back.
NoWriteIsLost ==
  Quiet /\ fresh = SnoopDelay =>
    \A a \in Addrs :
      /\ Holds(a) => words[CellOf(a)] = Newest(a)
      /\ (Holds(a) /\ IsDirty(a)) \/ mem[a] = Newest(a)

\* A write beyond the cached range waits while the last word of a fetch
\* arrives.  It drives wb_we without wb_en, so that the master answers the
\* write that it has not been asked for (dready_o) instead of handing over the
\* word: the fetch never ends (see the README).
LastWordMissed == core.en /\ core.we /\ bypass /\ c.count = 0

\* The two assertions of the code.  wb_cache.vhd:197: the first word of a
\* write back is taken at once.  wb_cache.vhd:259: the cache and its master
\* count the same words.  And what they are for: a fetch has words to come, or
\* the last one is there.
CountsAgree ==
  /\ c.state = "ST_WRITEBACK_PRE" => mst.state = "ST_IDLE"
  /\ c.state \in Fetching /\ mst.dready_rd => (c.count = 0 <=> mst.complete)
  /\ c.state \in Fetching => mst.state = "ST_PENDING" \/ mst.complete \/ LastWordMissed

\* Every request is answered in the end, whatever else is under way: a line
\* still being fetched, a write back, the port of the word RAM, a bypass.
Answered == core.en ~> got.on

=============================================================================
