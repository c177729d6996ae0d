# Verification of sl_processor

This directory holds TLA+ models of sl_processor, the TLC configurations that
check them on small instances, and proofs that TLAPS checks for every value of
the constants.  The reference is the code under `src/`; every definition that
models code is listed with its lines in `PROJECT.json` ("map").

    tlc -workers 2 -config MCWbFabric.cfg MCWbFabric     # one run
    tlapm BusGrantProofs.tla                             # the proofs
    tlapm WbFabricProofs.tla
    tlapm WbSdramProofs.tla
    tlapm SLDecodeProofs.tla
    tlapm SLCoreProofs.tla
    tlapm WbCacheProofs.tla
    tlapm DebugLinkProofs.tla
    tlapm AllocatorProofs.tla

## 1. The system

sl_processor is a small floating point processor with a toolchain.  The
hardware (`src/VHDL`) is a cluster of four cores with caches, an SDRAM
controller, peripherals and a debug controller on a Wishbone interconnect.  The
software is an assembler with a small language (`src/Assembler`), a
cycle-accurate simulator (`src/ProcessorSim`), which the tests compare with the
hardware, and a debugger (`src/Debugger`) that talks to the debug controller
over a UART.

| Component | State it keeps | Operations | Talks to |
|---|---|---|---|
| Interconnect (`wishbone/wb_ixs*.vhd`, `wishbone_p.vhd`) | per slave: round mask, selected master, selection valid | decode an address, select a master, pass its signals, answer with an error where no slave is | masters and slaves, by wires |
| Master (`wishbone/wb_master.vhd`) | IDLE/PENDING, address, data, request and acknowledge counters, cyc, stb | take a command, issue a wrapping burst, count acknowledges, report the end, hold cyc | its user (cache, debug controller); interconnect |
| Slaves and adapters (`wb_mem.vhd`, `adapter/*.vhd`) | a registered request or an APB state | answer at once, a cycle later or by SETUP/ENABLE | interconnect; memory, cache, peripheral |
| SDRAM controller (`wb_sdram.vhd`) | state, timers, open row, latched request, read pipeline, refresh flags | initialise, open and close rows, read and write two half words, refresh | one Wishbone master; the device |
| Cache (`wb_cache.vhd`) | tags, lines, one line under fetch or write-back, pending invalidation | hit, fetch, write back or write through, bypass, snoop | core port; a wb_master; other writers of the memory |
| Processor core (`sl_processor/`) | pipeline registers, address registers, loop counter, whether an operation is started | decode, address update, execute, branch, stall on memory | local memory, FPU, a code cache and a data cache |
| Cluster (`sl_cluster.vhd`) | none of its own | four cores, each with two caches, as masters of one bus; enable and reset of each | cores, caches, interconnect |
| Debug controller (`top/wb_debug_ctrl.vhd`, `uart.vhd`) | command state, byte assembly, transfer length, core reset and enable | read and write the bus, start, stop and reset cores, answer the host | UART; interconnect |
| Host side (`Debugger/SystemControl.h`, `UartInterface.h`) | the enabled cores | read, write, acknowledge | UART |
| Peripherals (`peripherals/`) | I2C and sample FIFO state, generator state | register access | interconnect |
| Simulator (`ProcessorSim/`) | pipeline registers of fetch, DECEX and EXEC, address registers, loop counter, results under way | update one cycle, write back, stall, flush | the debugger and the tests; reference for the core |
| Parser, scanner (`RTParser.cpp`, `Stream.cpp`) | place in the text, function table | recursive descent in one pass, inlining | code generator |
| Code generator (`CodeGen.*`) | instructions, label references, symbol scopes, loop frames, places of arrays | emit, label, move code, assign storage, patch | parser, symbol map, allocator |
| Symbol map (`SymbolMap.*`) | symbols with their last access | create, look up, append | code generator |
| Local memory allocator (`Assembler/Alloc.h`) | block bitmap and two hints | allocate, release | storage pass |
| Disassembler (`DisAsm.h`) | none | list a word | debugger, tests |

Where it is hard:

- *Interconnect.*  Several masters meet at one slave while others go on; the
  selection is registered and acts a cycle late; a master is taken out of the
  round while it still transfers.  Correct means: a burst is not cut or mixed,
  acknowledges reach the right master, nobody waits for ever.
- *Master and slaves.*  Requests are pipelined: two counters run against a
  slave that stalls and answers at times of its own.  Correct means: as many
  acknowledges as requests, each word once and in order, the reported result is
  the true one.
- *SDRAM controller.*  Timing margins are spread over states and timers; reads
  answer out of a pipeline and writes at once; a refresh must come through
  under load.  Correct means: the device's timing is kept, the bus has one
  driver, order and data of the answers, a deadline for refreshes.
- *Cache.*  A line is fetched or written back while the core goes on with words
  of the same line; RAMs work on the other clock edge; snooped writes arrive at
  any time.  Correct means: a read returns the last write; no dirty word is lost.
- *Allocator.*  Masks at block boundaries, hints that may lie, bookkeeping
  after a failure.  Correct means: no cell is given to two, none leaks, no room is
  overlooked.
- *Core and simulator.*  Three instructions are under way at a time, operations
  have different latency, memories are busy, jumps flush what was fetched and a
  hardware loop counts with the goto that closes it.  Correct means: every
  instruction has the effect it has alone, and no stall lasts for ever.
- *Debug link.*  Nobody has a time limit, and bytes arrive while words are on the bus.  Correct means:
  the two sides agree on the place in the transfer.
- *Parser and code generator.*  One pass emits code while it reads; operands
  share one RESULT register; whether a loop can use the hardware counter, whether
  a function is inlined and where a temporary is filled is decided when the code is
  there already, which is then moved, with jump targets, life times and
  addresses recorded before.  Correct means: what runs is what the text says, and
  nothing the processor does not do is emitted.

`PROJECT.json` lists all components and, under "hazards", each of these places
with its line and the properties that cover it; a hazard that no property
covers yet names its reason.

## 2. Modules

| Module | Models |
|---|---|
| `WbArbiter` | `wb_ixs_arbiter.vhd`: registers as a record, the combinational process as `MasterSelValid`, `MasterSel`, `Connected`, the clocked one as `ArbiterEdge` |
| `BusGrant` | one arbiter and the cyc lines of its masters; the module the proofs are about |
| `BusGrantProofs` | theorems about `BusGrant` |
| `WbMaster` | `wb_master.vhd`: `Start`, `Pending`, `Idle`, `DReady`, `MasterEdge` |
| `WbDecode` | `wb_ixs_decode.vhd` and the functions of `wishbone_p.vhd`: which slave an address selects, which port of its arbiter a master has |
| `WbSlaves` | `wb_mem.vhd`, `wb_cache_adapter.vhd`, `wb_abp_bridge.vhd` as registers, answer and edge |
| `WbFabric` | `wb_ixs.vhd` with masters and slaves as `top.vhd` connects them; composes the four modules above |
| `WbFabricProofs` | theorems about `WbFabric` and the masters in it, and that it implements `BusMemory` |
| `BusMemory` | what the interconnect promises: one memory, bursts in order and unbroken |
| `WbSdram` | `wb_sdram.vhd` together with the device it drives |
| `WbSdramProofs` | theorems about the commands, the data and the deadlines of `WbSdram` |
| `WbCache` | `wb_cache.vhd` with its two `sl_dpram`s and its `WbMaster`, between one user and a memory that other masters write too |
| `WbCacheProofs` | theorems about the counts of `WbCache`, in both modes, and its data in write-back mode |
| `Allocator` | `Alloc.h`, called as `CodeGen::storageAllocationPass` calls it |
| `AllocatorProofs` | theorems about `Allocator` |
| `SLCode` | the 16 bit words: how `SLCodeDef.h` makes them, how `DisAsm.h` lists them, the questions `_Instr` of `CodeGen.cpp` asks of them |
| `SLArithUnit` | `SLArithUnit.cpp`: operations, their latency, the ring of results |
| `SLIsa` | what an instruction means on its own: the sequential machine the pipeline is compared with and the compiler's output runs on; the instructions the code generator emits (`Instructions`) and which of them are allowed where |
| `SLDecode` | `sl_dec.vhd`: the fields of a word; `decodeInstr` of the simulator computes the same |
| `SLProcessor` | `SLProcessor.cpp`: `update()` as one step, with `SLIsa` beside it |
| `SLCore` | `sl_core.vhd` with `sl_dec_ex.vhd`, `sl_execute.vhd`, `sl_control.vhd`, `sl_state.vhd`, and what `sl_processor.vhd` and `sl_cluster.vhd` put around it: local memory, start and end of an operation, data port and code port; one rising edge as one step (`CoreEdge`), with `SLIsa` beside it |
| `SLDecodeProofs` | what `SLDecode` makes of the word of an instruction |
| `SLCoreProofs` | theorems about `SLCore`, and that it does what `SLIsa` says |
| `MCPrograms` | the menus of instructions both processors run |
| `SymbolMap` | `SymbolMap.cpp` as operators on a list of symbols |
| `CodeGen` | `CodeGen.cpp`, `Operand.h`: every operation as an operator from state to state |
| `RTParser` | `RTParser.cpp` over the tokens of `Stream.cpp`: the same, one operator per rule |
| `RTLang` | what a program means, by an interpreter of syntax trees, and the tokens written for a tree |
| `Compiler` | a program through parser, code generator, storage pass and instruction set, compared with `RTLang` |
| `DebugCtrl` | `wb_debug_ctrl.vhd`: registers as a record, the clocked process as `CtrlEdge` (`Shifted`, `FsmStep`, `WordDone` in the order of the code), what it asks of its master as `Ask` |
| `DebugLink` | the calls of `SystemControl.h`, a UART byte by byte, `DebugCtrl`, its `WbMaster`, and an interconnect that lets it wait |
| `DebugLinkProofs` | theorems about `DebugLink`, and that it implements `DebugService` |
| `DebugService` | what the calls promise the debugger: their accesses in order and no others, success, the words read |
| other `MC*` | constants for TLC, families of programs |

Conventions.  In the hardware modules one step is one rising edge of `clk_i`:
the operators over unprimed registers are the wires of the cycle before the
edge, the primed registers what is latched.  All registers of a system step at
once; what is chosen freely in a step is what lies outside the model (which
commands a user issues, when a cache completes, whether a user holds cyc).
VHDL's "last assignment wins" becomes one expression per register in which the
later assignment is tested first.  In `Allocator` one step is one call, in
`SLProcessor` one call of `update()`, in `Compiler` one statement of the program
read, then the storage pass, then one instruction executed at a time.

`SLIsa` and `RTLang` are specifications, not models: they say what an instruction
and a program mean without a pipeline and without a compiler, and no line of the
code corresponds to them.  The instruction set is what joins the parts:
`processor` and `core` show that the simulator and the hardware do what `SLIsa` says for
instructions that `Allowed` admits, and `compiler` shows that everything the compiler emits is
admitted and computes, by `SLIsa`, what `RTLang` says.

History variables, which the code does not have, record what properties speak
of: `overtaken` (BusGrant), `txn` (WbFabric), `owed`, `quiet`, `amem`
(WbSdram), `live` (Allocator), `watch`, `latest`, `fresh` and `got` (WbCache),
`isa`, `lost`, `stalls` and `quiet` (SLProcessor and SLCore), `asked` and `sought` (SLCore).

Abstractions.

- Data is a pair of a command's value and a word index (WbFabric), one value or
  blank (WbSdram): enough to see a word doubled, lost or mixed.
- Byte selects: every user in `top.vhd` drives "1111", so they are left out;
  for the same reason the SDRAM's byte masks are.
- `wb_mem` runs its RAM on a second, anti-phase clock between two edges of
  `clk_i`; the access is one with the edge at which the request is registered.
- The adapter's `err` comes from a cache or controller that never asserts it.
- A cache behind an adapter is, in WbFabric, anything that completes at some
  time; the SDRAM controller, which `top.vhd` puts behind it, has its own module.
- WbCache: data is the address a word belongs to with a version; one word at a
  time (`watch`, chosen at the start) has two versions, so a lost write of any
  word shows in the behaviours that watch it.  Its step is still one cycle; the
  falling edge, at which the RAMs and two registers work, comes first in the
  step, and `MidEdge` is what they read.  Where two ports of a RAM meet in a
  word, what is read, or stays, is one of the two (both processes of
  `sl_dpram.vhd` access one shared variable).  The narrow tag is exact for the
  cached range; that a write beyond it may invalidate a line without need is
  left out.  The tags begin as a reset finds them, not cleared.
- `word addresses`: burst addresses count words of the bus, as in the code.
- The 32-bit wrap of the allocator is kept, with a narrower word (`WordValues`).
- Numbers (qfp32 in the code) are naturals below `Mod`.  Addition, subtraction
  and multiplication are exact modulo `Mod`; division, logarithm and shift are some
  fixed function, since nothing depends on what they compute but on whose operands
  they get.  A loaded constant comes in up to three fragments of `LoadBase` values
  instead of 12, 11 and 9 bits.
- Code words are exact in all 16 bits where something reads them back: the
  decoder, the disassembler and the patches work on the number.  In `CodeGen` an
  instruction is the tuple of `SLIsa`, and `SLCode` ties the two together.
- `SLProcessor`: the program is chosen from a menu while it is fetched, so all
  programs of a menu are run.  Stalls of the memory and of the fetch come from
  outside, at any time, up to `MaxStalls` cycles.  The 16 bits of its address
  registers (`SLProcessorStructs.h:92`) and the faults the simulator raises for an `irs_` above 512 or an address
  outside its memory are left out; no menu gets there.
- The listing of a load shows the fragments up to the third one instead of the number
  they make, and takes what has been fetched so far for the whole code.
- The APB bridge returns the low 8 bits of what a peripheral holds
  (`wb_abp_bridge.vhd:149`); the words of WbFabric only tell which write they come
  from, and the cut is left out.
- `CodeGen`: a constant takes at most two loads, so `Rebase` looks at two fragments.
- `SLCore`: the floating point unit, whose sources are not here, is used as
  `sl_processor.vhd` uses it: an operation takes one of `Latencies` cycles and
  shows its result in the last one; a multiply-accumulate takes none.  Both caches
  answer at any time.  A disabled core asks the code cache for nothing
  (`sl_cluster.vhd:137`).  Where port 0 of the local memory writes the word
  port 1 reads, the old or the new one is read, as in WbCache.  Waits, of either cache or
  for the core to be enabled, are at most `MaxStalls` cycles in all.
- `RTParser` reads tokens.  Characters, comments and the forms of numbers
  are left out, and so is the one place where white space matters: the text has no
  blank before the bracket that closes a condition.  Error texts and the mapping of
  lines to code have no effect on the code emitted.
- `DebugLink`: a byte takes `ByteTime` cycles on a line, and the receiver shows it
  at the end; start and stop bits and the sampling are left out.  Lines lose nothing
  and alter nothing.  Host and hardware interleave freely, so the gaps between bytes,
  and the time until the host reads one, have any length.  `rstate` and `wstate`, masks
  of ones in the code, are numbers of bytes.  A word is its four bytes in the order
  sent; `main.cpp` swaps them on both ways (`swap32`) so that the first is the most
  significant one.  One object of `SystemControl` makes all calls; `main.cpp` makes a
  new one for each command line, but uses only calls that do not look at `coreEn_`.
  The interconnect is one access at a time with at most `MaxWait` cycles of waiting,
  an error where no slave is; `WbFabric` has the real one.
- Any error ends the compilation (`g.err`), as the exception of `Error::expect` does.

## 3. What is checked

| Run | Instance | Shows |
|---|---|---|
| `bus_grant` | 4 masters | nobody connected is cut off (`NoPreemption`), nobody is overtaken more than twice by the same master (`BoundedOvertaking`), everybody is served (`StarvationFree`); the inductive invariant `GrantInv` |
| `fabric` | 2 masters, 3 slaves, one of each kind | the interconnect implements `BusMemory` (`ImplementsMemory`); `AnswersAreRight`, `AcksAreAccounted`, `RequestsHoldStill`; `WaitersKeepCyc`, which `BusGrant` assumes |
| `fabric_live` | the same, fewer commands | every command completes (`CommandsComplete`) |
| `sdram` | 2 words in different rows of different banks | `TimingIsKept`, `BusIsSingleDriven`, `AcksAreInOrder`, `RefreshIsInTime`, `ProgressIsInTime` |
| `allocator` | 3 blocks, sizes below, at and above a block, and one that never fits | `BitmapIsExact`, `FirstFitMissesNothing`, `LastUsedCovers` |
| `cache_write_back` | 2 lines with one index, 3 words written, 3 read | `ReadsAreCurrent`, `NoWriteIsLost`, `CountsAgree` |
| `cache_live` | the same, fewer words | every request is answered (`Answered`) |
| `cache_write_through` | 2 lines with one index, reads and writes beyond the cached range, another master | `ReadsAreCurrentUnlessRaced`, `CountsAgree` |
| `processor` | 6 menus of programs of up to 8 instructions, 2 stalled cycles anywhere | `RetiresLikeIsa`, `NeverStuck`, `ListingIsRight` |
| `core` | the same menus, operations of 1 and 3 cycles, 2 cycles of waiting anywhere | `RetiresLikeIsa`, `NeverStuck`, `FetchIsSteady`, `RequestsStay` |
| `compiler` | 6 families, several hundred programs, with and without inlining | `RunsAsWritten`, `EmittedIsAllowed`, `NothingIsPending`, `EveryProgramEnds` |
| `debug_link` | 9 calls: writes and reads of two words, ping, and the four that set cores | the calls implement `DebugService` (`ImplementsService`), `NoByteIsDropped`, `CallsReturn` |

How the pieces hold together.  `BusGrant` reduces masters to their cyc lines and
assumes that a master lowers cyc only while it is connected; `WaitersKeepCyc`
checks this of the real `wb_master` behind decoders and arbiters.  `ImplementsMemory`
is a refinement: the mapping gives `BusMemory` the cells behind all slaves as
one memory, and the transactions as they are.  `RequestsHoldStill` and `RequestsStay`
are what the cache needs of its user on either side of it: its own master's request, and
the core's.

### Bounds, and why they are enough

- *bus_grant*: four masters is what `sl_cluster.vhd` puts in front of a slave,
  and leaves room for a served, a masked, a connected and a waiting one.
- *fabric*: bursts of one and two words.  Two is the least at which requests and
  acknowledges overlap, a burst wraps in its line, and another master could come
  between.  Two masters contend at the cached line and at the memory; the third
  one of `top.vhd` (code) reaches less than the data cache does.  One slave
  stalls for any time, one never, one for a cycle.  One address has no slave.
  Commands are few, but each may be issued at any time and any number of times.
- *fabric_live*: fewer commands, as the graph must be kept for liveness.
- *sdram*: two addresses in two rows give hits and misses; more rows or banks
  add no behaviour, since one row is open at a time.  Timings are those of the
  default generics in order (`RAS > RCD`, CAS latency 3), with tRAS and tWR longer
  than at 50 MHz so that their timers still run when a row is to be closed.
  20 cycles between refreshes is short enough to hit every state, and 24 cycles of waiting for
  the device make an interval end in the first idle cycle, the case in which the latency is reached.
- *allocator*: three blocks give an allocation that begins in one, fills the
  next and ends in the third, and a hole between two.

- *cache_\**: lines of four words, the shortest in which a fetch can begin in the
  middle, wrap around and have passed some words and not others; the code's own
  tests use the same.  Two lines that share an index evict each other on every
  miss.  In write-through mode the number of lines is at least that of the words
  in a line, since the code takes the snooped tag from that bit on
  (`wb_cache.vhd:308,313`).  The memory stalls and answers at any time.  In the
  passing runs a request stays until it is complete (`Withdraws = FALSE`);
  `RequestsHoldStill` shows this of the bus side, the findings say what happens when
  a core does not keep to it.
- *processor*: a menu holds, behind the instructions that set up registers,
  three or four places with up to a dozen instructions each: two in the pipeline
  and the ones whose effects they wait for.  The six are about memory accesses behind
  writes of words and registers, operations of different latency, jumps and
  skips, jumps over reads of external words, hardware loops, and words read
  behind one address register while the other is written.  Two stalled cycles are enough for one in
  each of two stages or for both in one.  A division takes 5 cycles instead of 30:
  longer than everything else, and long enough for the pipeline to fill behind it.
  Local memory has 4 words, so addresses on both sides of the boundary occur.
- *core*: the same menus.  An operation of one cycle ends before the pipeline is full
  behind it, one of three after; both are chosen anew for each operation.  Two waits are enough
  for a data request and the fetch, or for a wait and a disabled cycle.
- *compiler*: families are products of small shapes (expressions of three
  operands, comparisons and connected conditions, loops two deep with break,
  continue and index, functions of up to three parameters that call each other,
  structs and pointers to them).  Each is run with no inlining (threshold 0), the ones
  with functions also with all (100) and with short ones inlined (18).  Memory has
  128 cells.  Constants are numbers that occur, and results stay below `Mod` (8000),
  so no two different results look the same.  The programs are ones a user may write;
  shapes that show one of the findings below are left out by name.

- *debug_link*: two words are the shortest transfer in which one is on the bus while
  the bytes of the next arrive, or is sent while the next is read.  They lie on both sides of a
  carry of the address (255, 256), or the second has no slave (257).
  A byte takes 5 cycles; at 50 MHz and 115200 baud it takes 4340.  What matters
  is only that a word is on the bus and done with before the next byte is there, which
  `DebugLinkAssumption` states (`ByteTime >= MaxWait + 4`); a cluster that kept the bus for a
  byte's time would break it.  No call has size 0, see the findings.

The bounds that appear in modules are `SnoopDelay` in WbCache (two cycles between
a foreign write and the end of its invalidation, in which a copy may be out of
date), `RefreshLatency` and `ProgressLatency` in WbSdram, `OvertakenCap` in BusGrant, `MaxBurst` in
WbFabric, `MaxStalls` in SLProcessor and SLCore, `ByteTime` and `MaxWait` in DebugLink, and `LongAgo` and `NoRefresh` in WbSdram; the
last two only cap counters that nothing looks at beyond.

### Fairness

- The clock runs: `WF_vars(Next)`.
- `BusGrant`: `WF_vars(Release(m))`, a connected master ends its cycle.  In the
  code it does when the last acknowledge arrives, and `fabric_live` shows that
  this arrives.
- `WbFabric`: `WF_vars(Serve(s))`, a cache or controller behind an adapter
  completes a request that stays; `ProgressIsInTime` shows this, with a number,
  for the SDRAM controller.
- `WbFabric`: `SF_vars(LetGo(m))`, for a master whose user raises `hold_i`.
  `wb_cache.vhd` drives it as `bypass and en_i`: a core that strings bypass accesses
  without a gap keeps cyc, and the others wait as long.  A program that does so
  for ever starves them; this assumption excludes it.
- `WbCache`: the memory accepts and acknowledges in the end; written out as
  "infinitely often not asked, or infinitely often accepted", which is weak
  fairness of the two.  `fabric_live` and `ProgressIsInTime` show this of what is
  behind a cache.
- `Compiler`: the assembler and the processor go on while they can, written out as
  "infinitely often at an end, or infinitely often a step"; `EveryProgramEnds` needs it.
- `DebugLink`: the clock runs; the host's UART sends what it was given
  (`WF_vars(Clock(TRUE))`: the line does not stay idle for ever with bytes waiting); a call that
  can read a byte or return does (`WF` of `HostReads`, `HostReturns`), as `read()` of
  the device blocks until then.
- No fairness is put on users: nobody has to issue commands.

### Findings

All runs pass.  Each finding is a shape or a case that a run leaves out by name, and
was seen when it did not: without the exclusion the run fails.
`PROJECT.json` quotes the line each one disagrees with.

In the simulator and the core:

- `SLProcessor.cpp:378`: a goto right behind the one that closes
  a hardware loop is in DECEX while the counter still shows the last round, and is
  dropped with it.  `while(..) loop(2) .. end end` compiles to this.  The VHDL
  (`sl_dec_ex.vhd:63`) does the same.  `RetiresLikeIsa` excludes it (`lost`).
- `SLProcessor.cpp:485` ("goto cannot stall!"): a jump or a skip in EXEC is lost when
  the instruction behind it stalls in that cycle.  `RetiresLikeIsa` excludes it (`lost`).
  In the hardware (`sl_core.vhd:172`) a read of an external word behind the jump is enough.
- `sl_core.vhd:182`: an operation or a multiply-accumulate right behind a compare that
  holds leaves EXEC without having been started; the simulator runs it, the
  compiler never writes it.  `RetiresLikeIsa` of `SLCore` excludes it (`lost = "unstarted"`).
- `sl_processor.vhd:156`: while a core is disabled its local memory reads on, and the
  instruction in EXEC resumes with the operands of the one behind it.  Excluded as
  `lost = "disabled"`.
- `DisAsm.h:229`: of two addressed words the first is listed by the wrong bit, an
  increment is not shown, and the multiply-accumulate commands are "unused" (`ListedAs`).

In the compiler:

- `CodeGen.cpp:534`: a computed first operand of a condition
  is overwritten by a second one that is a constant or computed: `if(x+1 > 4)`.
- `RTParser.cpp:415`: `y-(-x*2)` and `a - -b*c` come out as `(a+b)*c`;
  `(x+2)*-y` loses its first factor (`CodeGen.cpp:440`), and so do `shft(x+1,y+1)` and
  `mac(x+1,y+1)`.
- `CodeGen.cpp:1261`: moving an inner loop lets go of the cells of variables that
  were made in it, one round too early; likewise for an inlined function with a loop.
- `RTParser.cpp:743`: a loop that is left by a break and whose number of rounds is a
  `def` runs once; with a variable it reads the variable anew in every round.
- `RTParser.cpp:1248`: a function that ends in `if .. return x; end` gets no return.
- `CodeGen.cpp:579`: a `while` inside `buslock` is accepted.
- Inlining (`RTParser.cpp:1010-1038`, `1086-1110`): a function with a local
  variable may take it for a parameter; one that calls another function returns to
  the wrong place; one without parameters whose body has an `if` leaves a goto in a
  hardware loop.
- Arrays of the main program must come after all functions (`CodeGen.cpp:877-882`).

In the hardware and the allocator:

- `wb_debug_ctrl.vhd:170`: a transfer of length 0 counts down from 0 and serves 65536
  words.  `main.cpp` makes such calls (a read of length 0, a write from an empty list): a write
  then waits for ever, a read takes a byte of data for its acknowledge.
- `wb_cache.vhd:287`: `sl_core.vhd:144` holds the program counter while a line is
  fetched ("temporarily fix for problem with cache when addr changes while fetch is
  in progress").  Data reads lack this: a flushed instruction asserts a read for a
  cycle (`sl_core.vhd:103` has no enable), the cache begins to fetch, and takes the
  tag from the address that is there when the first word arrives.
  A line is then kept under the tag of another one (`Withdraws = TRUE`); and a read beyond the
  cached range that is taken back leaves its word to the next cached read (`bypass_active`).  `RequestsStay`
  shows for the core which requests are taken back (`GivenUp`): a read that is flushed, a read
  behind a write of a1, which gives its address, and one behind a write of a0 when
  a0 says that it is external (`sl_dec.vhd` looks at the register of the word, the
  address is always that of a1).  The third was found by the proof of `RequestsKept`.
- `wb_cache.vhd:375`: a write beyond the cached range that waits while a line is fetched stops
  the data cache for ever.  When the last word is there, the master is idle, and the waiting
  write drives `wb_we` without `wb_en`; `dready_o` then shows the write's answer, none,
  in place of the word's.  The word is not counted, the cache stays in ST_FETCH, and the write waits for
  ST_IDLE.  The test of this sequence (`wb_cache/test.py:679`) has a read in place of the
  write.  It was found by the proof of `CountsAgree`, which leaves the case out by name
  (`LastWordMissed`).
- `wb_cache.vhd:411`: the delay of a read behind a write of the same word
  asks for `ST_IDLE`, which a write-through cache has just
  left; the read meets the write in the RAM (`got.raced`).
- `Alloc.h:63`: `lastUsedBlock_` is to be the last block in use.  When an
  allocation fails, the bookkeeping is still gone through: the address is
  0xFFFFFFFF, the sum with the size wraps, and for a size beyond the whole memory the
  hint lies behind the bitmap; the next `release` reads `blocks_` there.
- `Alloc.h:50`: an array asked to begin on a block (`alignBlock`) may begin
  inside one.  The flag moves only the start of the search, which then continues with
  partly used blocks.

Seen by reading only: the debug controller leaves `err_o` open
(`wb_debug_ctrl.vhd:98`), so an access to an address without a slave is reported as success
and a read hands over the word read before (`DebugService` allows any word there); the copy constructor of `Memory::Port` (`SLProcessor.cpp:50`)
copies `wAddr_` from `wData_`; `removeBreakpoint` (`Simulator.h:45`) does not return
when another breakpoint is set; the storage pass does not test for a failed
allocation (`CodeGen.cpp:773`); `getGotoTarget` takes the sign from bit 9
(`CodeGen.cpp:164-168`), inside the field of the distance.

Two disagreements of comments that no run is about: `cocotb/sdram_model.py:6-8`
says the controller always closes the row before the next access, while
`wb_sdram.vhd:11-16` keeps it open, and so does the code; `sl_structs_p.vhd:154`
says what `buslock{}` is for, but behind the adapter cyc follows the access.

## 4. What is proved

`BusGrantProofs` proves, for every number of masters greater than zero (the
only assumption, `NumMasterAssumption`, the VHDL generic being `positive`):

| Theorem | Statement |
|---|---|
| `TypeCorrect` | `Spec => []TypeOK` |
| `GrantInvariant` | `Spec => []GrantInv` |
| `NeverPreempts` | `Spec => NoPreemption` |
| `FairRounds` | `Spec => []BoundedOvertaking` |

The argument.  `NoPreemption` is not inductive: the arbiter takes the owner out of
the round (clears its mask bit) as soon as another master asks, while the owner
still transfers; if after that no unmasked master asked, `master_sel_valid`
would fall and with it the owner's connection.  `MaskedOwnerIsBacked`
says why this cannot happen: when the owner is masked, an unmasked waiter
exists, and a waiter never lowers cyc.  `BoundedOvertaking` needs the rounds:
`RoundsAreCounted` ties the number of grants a waiter has seen to its own mask
bit and to the mask bits of those granted.  Both together are `GrantInv`.  The
module first states lemmas on the selection (`MasterSel` is a candidate, and
the least), then one lemma per conjunct of the invariant for one clock edge.

`WbFabricProofs` proves for any number of masters and slaves, any wiring and slave map,
any commands and bursts of up to 64 words

| Theorem | Statement |
|---|---|
| `TypeCorrect` | `Spec => []TypeOK` |
| `AcksAccounted` | `Spec => []AcksAreAccounted` |
| `AnswersRight` | `Spec => []AnswersAreRight` |
| `RequestsHold` | `Spec => RequestsHoldStill` |
| `WaitersKeepTheirCyc` | `Spec => WaitersKeepCyc` |
| `Refinement` | `Spec => ImplementsMemory` |

from `SlaveMapAssumption`, which is what the code asserts of its configuration (sizes are not
zero and at most 2^30, the list is sorted and does not overlap, nobody is unconnected), and
`FabricAssumption`: a burst is a power of two long, and stays inside one slave and inside the
words that are modelled of it.  The code checks neither; its users keep to both, since a cache fetches
lines of its memory and the debug controller single words.  `Refinement` covers safety: that
every command is performed in the end is `CommandsComplete`, a run.

The argument.  All the properties are about one command, which master, arbiter, decoder and
slave know by parts, each a cycle apart.  The invariant `FabricInv` says for every master
(`MasterInv`) how these parts fit.  `Bursts` and `Asks`: the request on the bus is the word of the line
that the request counter says, with the data of that word (`WrapWalks`: the address register
goes round the line; `Gives`: the user of a write is one word ahead).  `Counts`: acknowledges
expected are requests to come plus the word in flight, and the words performed are those
acknowledged, plus one if a synchronous memory has performed what it has not acknowledged yet.
`Reads`: the words read are with the user, in the master or in the slave's register, in this
order.  `Bridges`: the APB bridge holds the word that is due.  `Told` is what remains when the
command is over.  `Keeps` says why a burst is not torn: once a word is performed the master
owns the slave, which it can only lose by lowering cyc.  That it does not lose it when the arbiter
takes it out of the round is `Backed`, the same as `MaskedOwnerIsBacked` above but over the
real cyc lines, which a waiter does not lower (`WaitersKeep`).  `Serves` says that what a slave has
in flight belongs to the master it is connected to.  The
proof goes by the balance of a slave over one cycle (`Ledger`: accepted, acknowledged, performed, for each
kind of slave) and then takes the cases of a master: it loses (no slave), goes on,
ends, starts, or stays idle.

`WaitersKeepTheirCyc` is the assumption that `BusGrant` makes of its masters, so the
theorems of `BusGrantProofs` hold of every arbiter of the interconnect.

`WbSdramProofs` proves for every value of the generics, any set of addresses and
any values

| Theorem | Statement |
|---|---|
| `TimingKept` | `Spec => []TimingIsKept` |
| `SingleDriver` | `Spec => []BusIsSingleDriven` |
| `AcksOrdered` | `Spec => []AcksAreInOrder` |

from `SdramAssumption`: the times are at least one cycle (`wb_sdram.vhd` rounds the
device's times up, and `InitCycles-1`, `RefreshCycles-1` and the like are bounds of its
signals), the latency is 2 or 3 (the range of the generic), and there is an address.
It needs nothing of how long one time is against another; the run `sdram` has
one choice of them.

The argument.  `TimingIsKept` speaks of the cycle of a command, and what makes it
true was done many cycles and several states before.  The invariant `SdramInv` says
in every state what is still missing of each time and what accounts for it:
`chip.act + ras_timer` and `chip.wrt + wr_timer` cover tRAS and tWR in all states,
as the timers outlive the state that loads them; for tRCD, tRP and tRFC, which have
no timer, the count of the wait state makes up (`RcdLeft`, `RpLeft`, `RfcLeft`),
and the FSM reaches no command that needs the time without having waited.
`RowsFit` adds that `row_open` and the row registers mirror the device, that
all rows are closed in the states that need it, and that the row of the latched
request is open where a column follows, in ST_DRAIN too while no refresh is pending.
`PipesAgree` says that `rd_pipe` covers the reads under way in the device, is empty
wherever a row changes or a write drives the lines, and is not empty in the second
column of a read, which is why a write taken there goes to ST_DRAIN.  The module has
lemmas on the commands and on one edge of each register, then lemmas on how each
kind of state is reached (`ToClosed`, `ToOpen`, `ToDrain`...), then one lemma for
each part of the invariant.

`AcksAreInOrder` speaks of the cycle of an acknowledge, and the queue `owed` of
what was accepted long before.  `OwedFits` says where each entry of the queue is: the one
acknowledged in this cycle, then the reads whose second half is in the pipeline (latest place
first), then the request that is served, and no other; so no order can change, and the queue never
gets longer than the pipeline and the state allow.  `PairsFit` ties the two markers of a read
together, the low half one place ahead of the high half, with equal data on the way out and in
`read_low` in between; a write that drove the lines in this time would be taken for
that data, which is why the proof needs `BusIsSingleDriven`.  `CellsFit` says that
the device holds what the accepted requests have written but for the write under way, and
`RefreshFits` that a refresh is only taken when no request is.

Of the deadlines it proves for the same values

| Theorem | Statement |
|---|---|
| `RefreshKept` | `Spec => []RefreshIsInTime` |
| `ProgressInTime` | `Spec => []ProgressIsInTime` |

from `RefreshAssumption` too: an interval is longer than two refreshes with what comes
between them, and than the last refresh of the initialisation with the mode command behind it.  At
50 MHz an interval has some 390 cycles and a refresh three; without the first part the second
refresh may find a third one due, and the master waits longer.

The argument.  Both bounds are ways through the FSM that cross several requests' timers.
`DrainedIn(n)` says that the row may be closed after `n` edges, `DrainFits` that this is
never more than `DrainCycles` once no column follows.  From this `RefreshWithin(n)` says for every
state how many cycles there are to the refresh command: the columns of the request that
is served, what drains behind them, its row closed, and before it the row of the request before.
`WithinStep` shows that each edge is one cycle less of it.  `DeadlineKept` ties the way that is left to the
device's count, `TimerAhead` the count to the interval timer: the timer is ahead, so that
a refresh falls due before the interval is over, unless one is under way already.  The last clause
of `TimerAhead` is for the end of an interval in the cycle in which the idle
controller takes the flag of the one before (`wb_sdram.vhd:384` clears it then): that end is
lost, and the timer starts while the refresh is still to come.  This is what made the
latency one cycle longer than the path through the FSM.
For the master the same way leads to the acknowledge (`ServingKept`), as its columns are as
far away.  `PhaseKept` is about refreshes: one begins when nobody has waited yet
(`PhaseBegins`, where `OwedFits` says that who is owed something is about to get it), and has room for one more.  If the
interval ends meanwhile the room is used up (`Round`), and it does not end again before the second
refresh is over.

`WbCacheProofs` proves for every size of lines and cache, both modes, and any addresses read
and written,

| Theorem | Statement |
|---|---|
| `CountsKept` | `~Withdraws => (Spec => []CountsAgree)` |

from `WbCacheAssumption`: the sizes are powers of two in the range of the generics and, in
write-back mode, nothing lies beyond the cached range (`top.vhd:172` leaves `EnableBypass` out).
`~Withdraws` says that the user takes back no read; the findings have what happens when it does.

The argument.  Words are counted twice.  `wb_master` counts requests and acknowledges, the
cache counts what `dready_o` reports, and `dready_o` means another thing in each state: that a
command is taken, that a word of a write is, or that a word has been read a cycle ago.
`InStep` is the balance of the master: acknowledges expected are requests to come
and answers owed.  `CacheInv` says for each state of the cache what the master is doing and how
its counts relate (`WhileIdle`, `WhileFetching`...): one word behind while a line is fetched, one
word ahead while it is written back.  ST_IDLE needs the most: the master is at rest, works for
a bypass, or has been given a write in the last cycle of the fetch or write before.
There is one lemma per state for what the step does (`FromIdle`...), and one per state
for what has to hold to be there (`ToIdle`...).  Trying this for `WhileFetching` is what showed
`LastWordMissed`.

The second half of `WbCacheProofs` proves for the same sizes and addresses, in write-back mode,

| Theorem | Statement |
|---|---|
| `CurrentKept` | `~WriteThrough /\ ~Withdraws => (Spec => []ReadsAreCurrent)` |
| `WritesKept` | `~WriteThrough /\ ~Withdraws => (Spec => []NoWriteIsLost)` |

from `WbCacheAssumption`.  That is the second level, in front of the SDRAM.  Its user is a cache adapter,
where a request stays until it is complete (`RequestsHold` of `WbFabricProofs`), hence `~Withdraws`.

The argument.  `NoWriteIsLost` only speaks of a cache that is at rest, `ReadsAreCurrent` of one
cycle.  `DataInv` says for every word of the memory, in every cycle, where its newest version is
(`EveryWord`): in the cache, where it is only the word of the address if it `Sits` there; in the
memory; or still to be written back (`ToWrite`).  All three speak of the two RAMs as they
will be at the next edge (`TagAfter`, `WordAfter`), since a write takes
a cycle and a half: what is prepared at one edge is written in the middle of the next cycle.
Whether a word sits depends on how far its line has been fetched, so that the invariant has to know
where the transfer is: `Around` is the word at a distance from the first one, around the end
of the line, `Ahead` its inverse, and `Places` ties `mem1_addr` and `mem1_ov` to the count of words.
`Passed`, which the code computes from the two, is then the statement that the fetch has gone by
(`PassedFacts`).  `FetchFits` says which word the memory owes at each place of the queue, and
`WritesBack` that the words of the old line from the next one on are still in the RAM, and the one
before is on the bus.  `Port0Fits`, `Port1Fits`, `TagPortFits` and `Tag1PortFits` say what
may be written at the next edge in each state, which is why the two ports of a RAM never
write one cell (`PortsApart`).

Three places make the proof long, and each is a decision of the code.  On a write miss the fetch
leaves out the first word of the line (`ignore_mem1_write`), because the user's word is written there once
that word has passed; with a write back before it, this happens while the old line is still being written back:
hence `Arrived` has two cases, and `Late` is the
write that is prepared, or about to be, and not complete.  The victim leaves by the word
that is replaced first, so that a write to this word may go on before the write back has ended
(the last case of `line_active`); `VictimKept` shows that its cell has been read by then.  And a
dirty bit set at one edge is seen by a tag that is read at the next one only if the RAM
returns the new value; the old one is read as well (`RamOut`), and `TagRead` shows that the two
differ in this bit alone, `StartTag` that a line taken for clean is clean.
`~Withdraws` is used in `Repeats`: the request is the same until it is complete.

`AllocatorProofs` proves for any number of blocks and any set of sizes

| Theorem | Statement |
|---|---|
| `BitmapKept` | `Spec => []BitmapIsExact` |
| `FirstFitKept` | `Spec => []FirstFitMissesNothing` |
| `LastUsedKept` | `Spec => []LastUsedCovers` |

from `AllocatorAssumption`: sizes are not zero (the code refuses 0 at once) and an address plus a
size is less than a word can hold.  Memory has at least one block.

The argument.  `FirstBlock` is a recursive function.  That it exists (`SearchExists`) and what it
returns (`SearchEnds`, and in `FirstFit` that it ends no later than a given place) is shown by
taking the last block at which the claim fails: every step of the search asks for a later block
(`StopIs`).  `CellsByBlock` says which bits of which blocks the cells of an allocation are, with
an allocation that begins behind bit 7 of a block among the cases, and both `AllocationIsMarked`
and `ReleaseIsCleared` rest on it.  The invariant `AllocatorInv` adds to the properties
`HintHolds`: below `firstFreeBlock_` the last cell of every block is used.  It is what first fit
needs, since a place begins behind the used cells of a block, and it is what the
two updates of the hint keep: the hint moves by `size/8` blocks, each of which has its last
cell in the allocation, although the block in which that ends may have free cells.  `FirstFit` then
shows that a block passed over before the first place would have fitted itself if the inner loop
had reached beyond that place.  With `BitmapIsExact` the check of `release` for a free first cell
(`Alloc.h:74`) never holds.

`DebugLinkProofs` proves for every set of calls, every memory, and every time of a byte and limit
of a wait

| Theorem | Statement |
|---|---|
| `BytesTaken` | `Spec => NoByteIsDropped` |
| `Refinement` | `Spec => ImplementsService` |

from `DebugLinkAssumption`: a transfer has 1 to 65535 words and its addresses fit into 32 bits
(what is sent of them; the findings have what a length of 0 does), and a byte takes
`MaxWait + 4` cycles at least, which is what an access takes at most, from the byte that
completes its word to the end: one cycle to ask, `MaxWait` and two on the bus, one to
use the word up.  The bound is sharp: on a line faster by one cycle (TLC finds it) the next byte is
there in the cycle in which the word is used up, where `wb_debug_ctrl.vhd:116` still finds `rdata`
full and drops it.

The argument.  No register says how far a call is; the bytes do.  The request is described byte
by byte (`RequestByte`) and the reply too (`ReplyByte`), for any number of words.  `Receiving`
says that what the state has used up, what `rdata` holds, the byte on the line and what the host
has left are together the request, and each in its place; `Replying` the same of the reply, from
`wdata` over the line to what the host has got.  `Serving` ties the number of accesses done to
`len`, `Commanded` the registers to the call.  `Accessing` says that at most one access is under
way, the one of `addr`, in one of three phases, and that the controller stands still meanwhile.
`WrittenInTime` is the race between the bus and the line, as a count of the cycles each has left
(`ToGo`); `UsedInTime` says that a state which has its last byte has no other one coming in
the next cycle, which the decision of ST_IDLE also needs, as it looks at
`uart_rx_data` and not at `rdata` (`wb_debug_ctrl.vhd:131`).  `LinkInv` is a call that is not
acknowledged yet (`UnderWay`), one that is (`Acknowledged`), or none (`AtRest`).  The step of the
clock is proved once for the controller (`CtrlFields`), once for the access (`AccessStep`), once
for each direction of the line, and then state by state (`StepIdle`, `StepAddr`...).

`SLCoreProofs` proves for every menu of programs, every set of latencies and any
number of waits

| Theorem | Statement |
|---|---|
| `FetchSteady` | `Spec => []FetchIsSteady` |
| `RequestsKept` | `Spec => []RequestsStay` |
| `PipelineMoves` | `Spec => []NeverStuck` |
| `CoreRetiresLikeIsa` | `Spec => []RetiresLikeIsa` |

from `MenuAssumption` (a program has 16 bit addresses and consists of `Instructions`, the set the
code generator writes, which `EmittedIsAllowed` checks of the compiler), `LatencyAssumption` (an
operation takes at least one cycle), `MemoryAssumption` (local memory is a part of the address
space, three fragments fit into a word) and `NumbersAssumption`.  A menu gives several instructions
to choose from for each address, so this is every program.

The argument for the first three.  A request is made of wires, so that it stays is a fact about
everything the wires come from: `WriteHolds` and `ReadHolds` show from the control that a
request without its answer holds its stage, `HeldRegisters` and `DecodingStays` that what is
held decodes to the same request.  For a write one fact of the decoder is needed, that no
word both jumps and writes (`DecodedFields`): a jump would flush it.
`NeverStuck` bounds a count that runs over several instructions; the invariant `InTime`
says how far the count may be for each filling of the pipeline: every empty stage, an
instruction that is to be skipped and each cycle left of the operation under way is
a cycle still to come.  `BusyForExec` says that the unit only works for the
instruction in EXEC, which has started it and will not start it again, and that this is no jump
and no write; `Starting` what the stages hold out of reset, where they are enabled
with nothing in them.  `EnabledEdge` goes through what may become of the
instruction in EXEC.

`RetiresLikeIsa` compares registers and memories after every edge with those of the sequential
machine `isa`, which does an instruction when it leaves EXEC.  What `SLDecode` makes of
a word is the first half of the way: `Decoded` of `SLDecodeProofs` says for each of the
`Instructions` that its word asks the stages for what the instruction is
(`OperandsDecoded`, `EffectDecoded`), and for nothing else.  The bits are digits by division
(`WordBits`), and each family of words has a lemma.
`StepsIs` is the same for the machine: what `IsaStep` changes, part by part.

The inductive invariant is `InStep`, as long as `lost = "no"`.  It says for each stage where it
is ahead of the machine.  `Position`: FETCH and DECEX hold the one or two instructions
behind the machine's `pc`, wherever a jump or a skip is on its way (`Following`).  `ExecHolds`:
EXEC has the decoding of the instruction at `pc`, or it is empty.  `AddrFits`: an address register
is one ahead if that instruction counts it up, because the increment is done in DECEX.
`MemFits`: a store may have been written already while its instruction still waits in EXEC
for the code cache, and is then written again.  `ValuesFit`: the sum of the unit is taken
when the operation begins.  `Working` is what EXEC works with, prepared by DECEX a cycle earlier: whether a goto
jumps or closes a loop, the address of a store, the operands before an operation begins and its
outcome afterwards.

Every edge is one of four.  The instruction in EXEC leaves (`RetiredIsDone`), or there is none
(`NoneIsDone`): then the machine and the registers are equal but for what the next one does in
DECEX, and `Advanced` shows for the instruction that enters EXEC that what was prepared for
it is right.  This is where the hazards of the pipeline are: `EntersSecond` and `EntersFirst` have the
operands that are read while the instruction in front of it still writes, where `Allowed` of `SLIsa`
excludes the cell stored just before; `EntersGoto` has the jump that is taken for the end of a hardware
loop, where `Allowed` excludes every other jump inside the loop; `EntersWithRegisters`
has the address registers that are written back in the same cycle.  Or the
instruction stays in EXEC (`Waited`), which needs `UnitWorks` and that a second write of the same
word changes nothing (`MemoryKept`); or the core is disabled (`Halted`).

`Instructions` is smaller than what the encoder takes.  An operation whose first word is behind
a1 would read it through the port that sees local memory only; the code generator loads such a
word first (`CodeGen.cpp:312`).

Only model-checked: liveness (`StarvationFree`, `CommandsComplete`, `Answered`,
`CallsReturn`, `EveryProgramEnds`), which needs ENABLED; the data of the cache in write-through mode
(`ReadsAreCurrentUnlessRaced`); the simulator (`RetiresLikeIsa` and `NeverStuck` of `SLProcessor`, for which
the invariant of `SLCore` would be the pattern, and `ListingIsRight`); the compiler, whose parser and
interpreter recurse over programs with RECURSIVE operators.

## 5. Not modelled yet, and the plan

In order:

1. `SLCore` together with a bus: error answers, which `sl_processor.vhd:262` repeats for
   ever, and `buslock{}`, whose cyc ends at the cache adapter; the debug port of the local memory.
2. `WbCache`, further: error answers of the interconnect, and a cluster of
   several caches on one bus (`sl_cluster.vhd`).
3. `DebugLink` over lines that lose a byte, and with a debugger that is killed in the
   middle of a call: the code has no remedy for either, neither a time limit nor a byte
   that brings the controller back to `ST_IDLE`, so there is no promise to check yet.

Proofs: the data of `WbCache` in write-through mode, and `RetiresLikeIsa` of the simulator.

Not to be modelled: `sl_code_mem.vhd`, `wb_avalon_bridge.vhd` and the peripherals, which
no entity of the top level instantiates; the UART's sampling, PLL and pin wiring, I2C bit timing
(electrical or wall-clock behaviour); the characters of input texts; the user
interface of the debugger; the floating point unit, whose sources are not in this
repository (empty submodule).
