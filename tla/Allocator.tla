----------------------------- MODULE Allocator -----------------------------
(***************************************************************************)
(* The allocator of local memory that the assembler's storage pass uses    *)
(* (Assembler/Alloc.h): a bitmap of blocks of eight cells, first fit, with *)
(* a hint where free blocks begin and one where used blocks end.           *)
(*                                                                         *)
(* blocks_[b] is the set of used cells of block b.  live is a history      *)
(* variable: the allocations that CodeGen::storageAllocationPass has been  *)
(* given and has not released, each with its address and its size.         *)
(***************************************************************************)
EXTENDS Naturals, FiniteSets, FiniteSetsExt

CONSTANTS numBlocks_,  \* number of blocks
          Sizes,       \* the sizes asked for
          WordValues   \* number of values of a uint32_t

ASSUME AllocatorAssumption ==
  /\ numBlocks_ \in Nat \ {0}
  /\ Sizes \subseteq Nat \ {0}
  /\ WordValues \in Nat
  /\ \A size \in Sizes : numBlocks_ * 8 + size < WordValues

VARIABLES blocks_, firstFreeBlock_, lastUsedBlock_, live

vars == <<blocks_, firstFreeBlock_, lastUsedBlock_, live>>

Blocks == 0 .. numBlocks_ - 1
Bits   == 0 .. 7
Invalid == WordValues - 1    \* 0xFFFFFFFF

Cells(addr, size) == addr .. addr + size - 1
UsedCells == UNION {{b * 8 + i : i \in blocks_[b]} : b \in Blocks}

Init ==
  /\ blocks_ = [b \in Blocks |-> {}]
  /\ firstFreeBlock_ = 0
  /\ lastUsedBlock_ = 0
  /\ live = {}

-----------------------------------------------------------------------------
(* allocateFrom.                                                           *)

\* log2 of the source: one past the highest used cell.
Top(used) == IF used = {} THEN 0 ELSE Max(used) + 1

Smaller(a, b) == IF a < b THEN a ELSE b

\* An allocation that begins in block i: the cells it still needs after block
\* i, in whole blocks and in a rest.
Remaining(i, size) == size - Smaller(8 - Top(blocks_[i]), size)
FullBlocks(i, size) == Remaining(i, size) \div 8
Rest(i, size) == Remaining(i, size) % 8

\* Where the inner loop stops: behind the whole blocks, at a used one, or at
\* the end of memory.
Stop(i, size) ==
  Min({Smaller(numBlocks_, i + 1 + FullBlocks(i, size))}
        \cup {j \in Blocks : j > i /\ blocks_[j] # {}})

\* A block that takes the rest even if its first cells are used.
BugFits(i, size) == Stop(i, size) = i + 1 + FullBlocks(i, size)

Fits(i, size) ==
  LET j == Stop(i, size) IN
    /\ j = i + 1 + FullBlocks(i, size)
    /\ Rest(i, size) # 0 => j < numBlocks_ /\ blocks_[j] \cap 0 .. Rest(i, size) - 1 = {}

\* After a failure the search skips the block at which the inner loop stopped.
BugFirstBlock(first, size) ==
  LET search[i \in 0 .. numBlocks_] ==
        IF i = numBlocks_ THEN numBlocks_
        ELSE IF blocks_[i] = Bits THEN search[i + 1]
        ELSE IF Fits(i, size) THEN i
        ELSE search[Smaller(Stop(i, size) + 1, numBlocks_)]
  IN  IF first < numBlocks_ THEN search[first] ELSE numBlocks_

\* The block in which the search from block `first' ends; numBlocks_ if it
\* runs out of memory.  After a failure it goes on where the inner loop stopped.
FirstBlock(first, size) ==
  LET search[i \in 0 .. numBlocks_] ==
        IF i = numBlocks_ THEN numBlocks_
        ELSE IF blocks_[i] = Bits THEN search[i + 1]
        ELSE IF Fits(i, size) THEN i
        ELSE search[Stop(i, size)]
  IN  IF first < numBlocks_ THEN search[first] ELSE numBlocks_

AddrIn(i) == IF i = numBlocks_ THEN Invalid ELSE i * 8 + Top(blocks_[i])

\* The cells that are marked as used.
Marked(i, size) ==
  LET j == Stop(i, size) IN
    [b \in Blocks |->
       CASE b = i -> blocks_[b] \cup
                     (Bits \cap Cells(Top(blocks_[b]), Smaller(size, 8)))
         [] i < b /\ b < j -> Bits
         [] b = j /\ b # i -> blocks_[b] \cup Cells(0, Rest(i, size))
         [] OTHER -> blocks_[b]]

-----------------------------------------------------------------------------

\* Where the search begins.
StartBlock(highestAddr, alignBlock) ==
  LET start == IF highestAddr THEN lastUsedBlock_ ELSE firstFreeBlock_
      empty == {b \in Blocks : b >= start /\ blocks_[b] = {}}
  IN  IF ~alignBlock THEN start
      ELSE Min({numBlocks_} \cup empty)

\* The hint moves over the blocks just filled and on over full ones.
NextFirstFree(addr, size, blk) ==
  IF addr \div 8 # firstFreeBlock_
    THEN firstFreeBlock_
    ELSE Min({numBlocks_} \cup
             {b \in Blocks : b >= firstFreeBlock_ + size \div 8 /\ blk[b] # Bits})

\* Only the block an allocation begins in counts as used.
BugLastUsedAtStart(addr, size) ==
  IF addr \div 8 > lastUsedBlock_ THEN addr \div 8 ELSE lastUsedBlock_

\* Also after a failure, when addr is Invalid and the sum wraps.
NextLastUsed(addr, size) ==
  LET lastAllocBlock == ((addr + size - 1) % WordValues) \div 8
  IN  IF lastAllocBlock > lastUsedBlock_ THEN lastAllocBlock ELSE lastUsedBlock_

Allocate(size, highestAddr, alignBlock) ==
  LET i    == FirstBlock(StartBlock(highestAddr, alignBlock), size)
      addr == AddrIn(i)
  IN  /\ blocks_' = IF i = numBlocks_ THEN blocks_ ELSE Marked(i, size)
      /\ firstFreeBlock_' = NextFirstFree(addr, size, blocks_')
      /\ lastUsedBlock_' = NextLastUsed(addr, size)
      /\ live' = IF i = numBlocks_ THEN live
                   ELSE live \cup {[addr |-> addr, size |-> size]}

\* The blocks without the cells of an allocation.
Cleared(addr, size) ==
  LET first == Smaller(8 - (addr % 8), size)
      full  == (size - first) \div 8
      rest  == (size - first) % 8
      base  == addr \div 8
  IN  [b \in Blocks |->
         CASE b = base -> blocks_[b] \ Cells(addr % 8, first)
           [] base < b /\ b <= base + full -> {}
           [] b = base + full + 1 -> blocks_[b] \ Cells(0, rest)
           [] OTHER -> blocks_[b]]

\* The loop that takes lastUsedBlock_ back to the last block in use.  Beyond
\* the array it reads whatever is there: it may stop anywhere.
LastUsedFrom(last, blk) ==
  (numBlocks_ .. last) \cup
  {Max({0} \cup {b \in Blocks : b <= last /\ blk[b] # {}})}

\* release, called with the address and the size of an allocation.
Release(a) ==
  /\ a \in live
  /\ blocks_' = Cleared(a.addr, a.size)
  /\ firstFreeBlock_' = Smaller(firstFreeBlock_, a.addr \div 8)
  /\ lastUsedBlock_' \in LastUsedFrom(lastUsedBlock_, blocks_')
  /\ live' = live \ {a}

Next ==
  \/ \E size \in Sizes, highestAddr, alignBlock \in BOOLEAN :
       Allocate(size, highestAddr, alignBlock)
  \/ \E a \in live : Release(a)

Spec == Init /\ [][Next]_vars

-----------------------------------------------------------------------------
(* Properties.                                                             *)

\* No two variables of the program share a cell, and the bitmap holds exactly
\* the cells that somebody owns: nothing leaks and nothing is free by mistake.
BitmapIsExact ==
  /\ \A a, b \in live : a # b => Cells(a.addr, a.size) \cap Cells(b.addr, b.size) = {}
  /\ UsedCells = UNION {Cells(a.addr, a.size) : a \in live}

\* The addresses at which size cells are free from behind the used cells of
\* the block on.  (Cells below a used one are not given away.)
Room(size) ==
  {a \in {b * 8 + Top(blocks_[b]) : b \in {c \in Blocks : 7 \notin blocks_[c]}} :
     Cells(a, size) \subseteq Cells(0, numBlocks_ * 8) \ UsedCells}

\* Neither the hint firstFreeBlock_ nor the jumps of the search skip a place:
\* an allocation fails only if there is none, and gets no later one than the
\* first, so memory does not fragment upwards.
FirstFitMissesNothing ==
  \A size \in Sizes :
    Room(size) # {} => AddrIn(FirstBlock(firstFreeBlock_, size)) <= Min(Room(size))

\* lastUsedBlock_, where allocations for the highest address start, is not
\* below a block in use (a temporary would get a place among the variables).
LastUsedCovers == \A b \in Blocks : blocks_[b] # {} => b <= lastUsedBlock_

=============================================================================
