--------------------------- MODULE AllocatorProofs ---------------------------
(***************************************************************************)
(* Proofs about Allocator: the bitmap holds exactly the cells that         *)
(* somebody owns, the two hints are right, and the search is first fit.    *)
(*                                                                         *)
(* The search is a recursive function.  What it returns is shown by taking *)
(* the last block at which a claim fails: every step asks for a later one. *)
(***************************************************************************)
EXTENDS Allocator, WellFoundedInduction, TLAPS

-----------------------------------------------------------------------------
(* Numbers, and sets of numbers.                                           *)

LEMMA Eighths == \A c \in Nat : /\ c \div 8 \in Nat /\ c % 8 \in 0 .. 7
                                /\ c = 8 * (c \div 8) + (c % 8)
  OBVIOUS

LEMMA EighthOf == \A b \in Nat, x \in 0 .. 7 : (8 * b + x) \div 8 = b /\ (8 * b + x) % 8 = x
  OBVIOUS

LEMMA LeastOf ==
  ASSUME NEW T, T \subseteq Nat, T # {}
  PROVE  \E x \in T : \A y \in T : x <= y
<1>1. PICK x \in T : \A y \in T : ~ (<<y, x>> \in OpToRel(<, Nat))
  BY NatLessThanWellFounded, WFMin, Zenon
<1>2. \A y \in T : x \in Nat /\ y \in Nat /\ ~(y < x)
  BY <1>1, Zenon DEF OpToRel
<1>3. \A y \in T : x <= y
  BY <1>2
<1> QED BY <1>3

LEMMA GreatestOf ==
  ASSUME NEW n \in Nat, NEW T, T \subseteq 0 .. n, T # {}
  PROVE  \E x \in T : \A y \in T : y <= x
<1> DEFINE D == {z \in 0 .. n : n - z \in T}
<1>1. D \subseteq Nat
  OBVIOUS
<1>2. PICK t \in T : TRUE
  OBVIOUS
<1>3. n - t \in 0 .. n /\ n - (n - t) = t
  OBVIOUS
<1>4. D # {}
  BY <1>2, <1>3
<1>5. PICK d \in D : \A z \in D : d <= z
  BY <1>1, <1>4, LeastOf, Zenon
<1>6. n - d \in T
  BY <1>5
<1>7. ASSUME NEW y \in T
      PROVE  y <= n - d
  <2>1. y \in 0 .. n /\ n - y \in 0 .. n /\ n - (n - y) = y
    OBVIOUS
  <2>2. n - y \in D
    BY <2>1
  <2>3. d <= n - y /\ d \in 0 .. n
    BY <2>2, <1>5
  <2> HIDE DEF D
  <2> QED BY <2>1, <2>3
<1> QED BY <1>6, <1>7

\* One step of the search at block i, when f says where it ends from the others.
SearchStep(f, i, size) ==
  IF i = numBlocks_ THEN numBlocks_
  ELSE IF blocks_[i] = Bits THEN f[i + 1]
  ELSE IF Fits(i, size) THEN i
  ELSE f[Stop(i, size)]

\* The function that FirstBlock defines.
Search(size) == CHOOSE f : f = [i \in 0 .. numBlocks_ |-> SearchStep(f, i, size)]

LEMMA FirstBlockIs ==
  ASSUME NEW first, NEW size
  PROVE  FirstBlock(first, size) =
           IF first < numBlocks_ THEN Search(size)[first] ELSE numBlocks_
  BY DEF FirstBlock, Search, SearchStep

LEMMA MinIs ==
  ASSUME NEW T, T \subseteq Nat, T # {}
  PROVE  Min(T) \in T /\ \A y \in T : Min(T) <= y
<1>1. \E x \in T : \A y \in T : x <= y
  BY LeastOf
<1> QED BY <1>1 DEF Min

LEMMA MaxIs ==
  ASSUME NEW n \in Nat, NEW T, T \subseteq 0 .. n, T # {}
  PROVE  Max(T) \in T /\ \A y \in T : y <= Max(T)
<1>1. \E x \in T : \A y \in T : x >= y
  <2>1. PICK x \in T : \A y \in T : y <= x
    BY GreatestOf
  <2>2. \A y \in T : x >= y
    BY <2>1
  <2> QED BY <2>2
<1>2. Max(T) \in T /\ \A y \in T : Max(T) >= y
  BY <1>1 DEF Max
<1> QED BY <1>2

-----------------------------------------------------------------------------
(* Types, cells and the pieces of an allocation.                           *)

BlocksType == blocks_ \in [Blocks -> SUBSET Bits]

\* The types, and that live allocations lie in memory.
TypeOK ==
  /\ BlocksType
  /\ firstFreeBlock_ \in 0 .. numBlocks_
  /\ lastUsedBlock_ \in Nat
  /\ \A a \in live : /\ a.addr \in Nat /\ a.size \in Sizes
                     /\ a.addr + a.size <= 8 * numBlocks_

\* Cell c of memory is used.
UsedAt(blk, c) == c % 8 \in blk[c \div 8]

LEMMA Memory ==
  /\ numBlocks_ \in Nat /\ numBlocks_ > 0
  /\ \A size \in Sizes : size \in Nat /\ size > 0
BY AllocatorAssumption DEF AllocatorAssumption

\* A cell is a bit of a block.
LEMMA CellAt ==
  /\ \A c \in 0 .. 8 * numBlocks_ - 1 :
       c \div 8 \in Blocks /\ c % 8 \in Bits /\ c = 8 * (c \div 8) + (c % 8)
  /\ \A b \in Blocks, x \in Bits :
       /\ 8 * b + x \in 0 .. 8 * numBlocks_ - 1
       /\ (8 * b + x) \div 8 = b /\ (8 * b + x) % 8 = x
<1>1. \A c \in 0 .. 8 * numBlocks_ - 1 : 
         c \in Nat /\ c < 8 * numBlocks_
  BY Memory
<1>2. ASSUME NEW c \in Nat, c < 8 * numBlocks_
      PROVE  c \div 8 \in Blocks /\ c % 8 \in Bits /\ c = 8 * (c \div 8) + (c % 8)
  <2>1. PICK q \in Nat, r \in 0 .. 7 : q = c \div 8 /\ r = c % 8 /\ c = 8 * q + r
    BY Eighths
  <2>2. q < numBlocks_
    BY <1>2, <2>1, Memory
  <2> QED BY <2>1, <2>2, Memory DEF Blocks, Bits
<1>3. ASSUME NEW b \in Blocks, NEW x \in Bits
      PROVE  8 * b + x \in 0 .. 8 * numBlocks_ - 1
  BY Memory DEF Blocks, Bits
<1>4. \A b \in Blocks : b \in Nat
  BY DEF Blocks
<1> QED BY <1>1, <1>2, <1>3, <1>4, EighthOf DEF Bits

LEMMA TopIs ==
  ASSUME NEW used \in SUBSET Bits
  PROVE  /\ Top(used) \in 0 .. 8
         /\ \A x \in used : x < Top(used)
         /\ used = {} => Top(used) = 0
         /\ Top(used) = 8 <=> 7 \in used
<1>1. CASE used = {}
  BY <1>1 DEF Top
<1>2. CASE used # {}
  <2>1. Max(used) \in used /\ \A y \in used : y <= Max(used)
    BY <1>2, MaxIs DEF Bits
  <2>2. Top(used) = Max(used) + 1
    BY <1>2 DEF Top
  <2>3. used \subseteq 0 .. 7
    BY DEF Bits
  <2>4. PICK m \in 0 .. 7 : m = Max(used)
    BY <2>1, <2>3
  <2>5. m \in used /\ \A y \in used : y \in 0 .. 7 /\ y <= m
    BY <2>1, <2>3, <2>4
  <2>6. Top(used) = m + 1
    BY <2>2, <2>4
  <2>7. /\ m + 1 \in 0 .. 8 /\ \A x \in used : x < m + 1
        /\ m + 1 = 8 <=> 7 \in used
    BY <2>5
  <2> QED BY <1>2, <2>6, <2>7
<1> QED BY <1>1, <1>2

LEMMA PartsOf ==
  ASSUME BlocksType, NEW i \in Blocks, NEW size \in Nat
  PROVE  /\ Remaining(i, size) \in Nat
         /\ FullBlocks(i, size) \in Nat
         /\ Rest(i, size) \in 0 .. 7
         /\ Remaining(i, size) = 8 * FullBlocks(i, size) + Rest(i, size)
         /\ Remaining(i, size) <= size
         /\ Remaining(i, size) > 0 => Remaining(i, size) = size - (8 - Top(blocks_[i]))
         /\ Remaining(i, size) = 0 => Top(blocks_[i]) + size <= 8
<1>1. Top(blocks_[i]) \in 0 .. 8
  BY TopIs DEF BlocksType
<1>2. /\ Remaining(i, size) \in Nat /\ Remaining(i, size) <= size
      /\ Remaining(i, size) > 0 => Remaining(i, size) = size - (8 - Top(blocks_[i]))
      /\ Remaining(i, size) = 0 => Top(blocks_[i]) + size <= 8
  <2> DEFINE t == Top(blocks_[i])
  <2>1. Remaining(i, size) = size - (IF 8 - t < size THEN 8 - t ELSE size)
    BY DEF Remaining, Smaller
  <2>2. t \in 0 .. 8
    BY <1>1
  <2> HIDE DEF t
  <2>3. /\ Remaining(i, size) \in Nat /\ Remaining(i, size) <= size
        /\ Remaining(i, size) > 0 => Remaining(i, size) = size - (8 - t)
        /\ Remaining(i, size) = 0 => t + size <= 8
    BY <2>1, <2>2
  <2> QED BY <2>3 DEF t
<1>3. /\ FullBlocks(i, size) \in Nat /\ Rest(i, size) \in 0 .. 7
      /\ Remaining(i, size) = 8 * FullBlocks(i, size) + Rest(i, size)
  BY <1>2, Eighths DEF FullBlocks, Rest
<1> QED BY <1>2, <1>3

\* The inner loop passes over empty blocks only.
LEMMA StopIs ==
  ASSUME BlocksType, NEW i \in Blocks, NEW size \in Nat
  PROVE  /\ Stop(i, size) \in i + 1 .. numBlocks_
         /\ Stop(i, size) <= i + 1 + FullBlocks(i, size)
         /\ \A b \in Blocks : i < b /\ b < Stop(i, size) => blocks_[b] = {}
         /\ \/ Stop(i, size) \in Blocks /\ blocks_[Stop(i, size)] # {}
            \/ Stop(i, size) = numBlocks_
            \/ Stop(i, size) = i + 1 + FullBlocks(i, size)
<1> DEFINE full == FullBlocks(i, size)
           end  == Smaller(numBlocks_, i + 1 + full)
           T    == {end} \cup {j \in Blocks : j > i /\ blocks_[j] # {}}
<1>1. full \in Nat /\ i \in Nat /\ i < numBlocks_ /\ numBlocks_ \in Nat
  BY PartsOf, Memory DEF Blocks
<1> HIDE DEF full
<1>2. end \in i + 1 .. numBlocks_ /\ end <= i + 1 + full
      /\ (end = numBlocks_ \/ end = i + 1 + full)
  BY <1>1 DEF Smaller
<1> HIDE DEF end
<1>3. T \subseteq i + 1 .. numBlocks_ /\ T \subseteq Nat /\ T # {}
  BY <1>1, <1>2 DEF Blocks
<1>4. Min(T) \in T /\ \A y \in T : Min(T) <= y
  BY <1>3, MinIs
<1>5. Stop(i, size) = Min(T)
  BY DEF Stop, T, end, full
<1>6. PICK m \in i + 1 .. numBlocks_ : m = Min(T)
  BY <1>3, <1>4
<1>7. m \in T /\ \A y \in T : m <= y
  BY <1>4, <1>6
<1>8. /\ end \in T
      /\ \A b \in Blocks : b > i /\ blocks_[b] # {} => b \in T
      /\ \A y \in T : y = end \/ (y \in Blocks /\ blocks_[y] # {})
  OBVIOUS
<1>9. Stop(i, size) = m
  BY <1>5, <1>6
<1> HIDE DEF T
<1>10. m <= i + 1 + full
  BY <1>1, <1>2, <1>7, <1>8
<1>11. ASSUME NEW b \in Blocks, i < b, b < m
       PROVE  blocks_[b] = {}
  <2>1. b \in Nat /\ b > i /\ ~(m <= b)
    BY <1>1, <1>11 DEF Blocks
  <2> QED BY <2>1, <1>7, <1>8
<1>12. m = end \/ (m \in Blocks /\ blocks_[m] # {})
  BY <1>7, <1>8
<1>13. full = FullBlocks(i, size)
  BY DEF full
<1> QED
  BY <1>2, <1>9, <1>10, <1>11, <1>12, <1>13
-----------------------------------------------------------------------------
(* The search ends, and where.                                             *)

\* The search from block m on: each step asks for a later block.
SearchFrom(f, m, size) ==
  /\ f \in [m .. numBlocks_ -> 0 .. numBlocks_]
  /\ \A i \in m .. numBlocks_ : f[i] = SearchStep(f, i, size)

LEMMA SearchGoesOn ==
  ASSUME BlocksType, NEW size \in Nat, NEW m \in Blocks, NEW f, SearchFrom(f, m + 1, size)
  PROVE  \E g : SearchFrom(g, m, size)
<1> DEFINE g == [i \in m .. numBlocks_ |-> IF i = m THEN SearchStep(f, m, size) ELSE f[i]]
<1>1. /\ numBlocks_ \in Nat /\ m \in 0 .. numBlocks_ - 1 /\ m + 1 \in m + 1 .. numBlocks_
      /\ m # numBlocks_ /\ m \in 0 .. numBlocks_
  BY Memory DEF Blocks
<1>2. \A i \in m .. numBlocks_ : i # m => i \in m + 1 .. numBlocks_
  BY <1>1
<1>3. \A i \in Blocks : Stop(i, size) \in i + 1 .. numBlocks_
  BY StopIs
<1>4. \A i \in m + 1 .. numBlocks_ : f[i] \in 0 .. numBlocks_ /\ f[i] = SearchStep(f, i, size)
  BY DEF SearchFrom
<1>5. SearchStep(f, m, size) \in 0 .. numBlocks_
  <2>1. Stop(m, size) \in m + 1 .. numBlocks_
    BY <1>3
  <2> QED BY <1>1, <1>4, <2>1 DEF SearchStep
<1>6. g \in [m .. numBlocks_ -> 0 .. numBlocks_]
  BY <1>2, <1>4, <1>5
<1>7. \A k \in m + 1 .. numBlocks_ : g[k] = f[k]
  BY <1>1
<1> HIDE DEF g
<1>8. ASSUME NEW i \in m .. numBlocks_
      PROVE  g[i] = SearchStep(g, i, size)
  <2>1. SearchStep(g, i, size) = SearchStep(f, i, size)
    <3>1. CASE i = numBlocks_
      BY <3>1 DEF SearchStep
    <3>2. CASE i # numBlocks_
      <4>1. i \in Blocks /\ i + 1 \in m + 1 .. numBlocks_
        BY <1>1, <3>2 DEF Blocks
      <4>2. Stop(i, size) \in i + 1 .. numBlocks_
        BY <1>3, <4>1
      <4>3. Stop(i, size) \in m + 1 .. numBlocks_
        BY <1>1, <4>1, <4>2
      <4>4. g[i + 1] = f[i + 1] /\ g[Stop(i, size)] = f[Stop(i, size)]
        BY <1>7, <4>1, <4>3
      <4> QED BY <3>2, <4>4 DEF SearchStep
    <3> QED BY <3>1, <3>2
  <2>2. g[i] = SearchStep(f, i, size)
    BY <1>2, <1>4 DEF g
  <2> QED BY <2>1, <2>2
<1> QED BY <1>6, <1>8 DEF SearchFrom

LEMMA SearchExists ==
  ASSUME BlocksType, NEW size \in Nat
  PROVE  \E f : SearchFrom(f, 0, size)
<1> DEFINE T == {m \in 0 .. numBlocks_ : ~ \E f : SearchFrom(f, m, size)}
<1>1. SUFFICES ASSUME 0 \in T PROVE FALSE
  BY Memory
<1>2. PICK m \in T : \A k \in T : k <= m
  BY <1>1, Memory, GreatestOf
<1>3. CASE m = numBlocks_
  <2>1. [i \in numBlocks_ .. numBlocks_ |-> numBlocks_]
          \in [numBlocks_ .. numBlocks_ -> 0 .. numBlocks_]
    BY Memory
  <2>2. SearchFrom([i \in numBlocks_ .. numBlocks_ |-> numBlocks_], numBlocks_, size)
    BY <2>1, Memory DEF SearchFrom, SearchStep
  <2> QED BY <1>3, <2>2
<1>4. CASE m # numBlocks_
  <2>1. m \in Blocks /\ m + 1 \in 0 .. numBlocks_ /\ ~(m + 1 <= m)
    BY <1>4, Memory DEF Blocks
  <2>2. m + 1 \notin T
    BY <1>2, <2>1
  <2>3. PICK f : SearchFrom(f, m + 1, size)
    BY <2>1, <2>2
  <2>4. \E g : SearchFrom(g, m, size)
    BY <2>1, <2>3, SearchGoesOn
  <2> QED BY <2>4
<1> QED BY <1>3, <1>4

LEMMA SearchIs ==
  ASSUME BlocksType, NEW size \in Nat
  PROVE  SearchFrom(Search(size), 0, size)
<1>1. PICK f : SearchFrom(f, 0, size)
  BY SearchExists
<1>2. f = [i \in 0 .. numBlocks_ |-> SearchStep(f, i, size)]
  BY <1>1 DEF SearchFrom
<1>3. Search(size) = [i \in 0 .. numBlocks_ |-> SearchStep(Search(size), i, size)]
  BY <1>2, Zenon DEF Search
<1> DEFINE s == Search(size)
<1>4. \A i \in 0 .. numBlocks_ : s[i] = SearchStep(s, i, size)
  BY <1>3, Zenon
<1>5. DOMAIN s = 0 .. numBlocks_
  BY <1>3
<1> HIDE DEF s
<1> DEFINE T == {i \in 0 .. numBlocks_ : s[i] \notin 0 .. numBlocks_}
<1>6. T = {}
  <2>1. SUFFICES ASSUME T # {} PROVE FALSE
    OBVIOUS
  <2>2. PICK m \in T : \A k \in T : k <= m
    BY <2>1, Memory, GreatestOf
  <2>3. CASE m = numBlocks_
    BY <1>4, <2>2, <2>3, Memory DEF SearchStep
  <2>4. CASE m # numBlocks_
    <3>1. m \in Blocks /\ m \in 0 .. numBlocks_ /\ m + 1 \in 0 .. numBlocks_
      BY <2>4, Memory DEF Blocks
    <3>2. Stop(m, size) \in m + 1 .. numBlocks_
      BY <3>1, StopIs
    <3>3. /\ m + 1 \notin T
          /\ Stop(m, size) \notin T /\ Stop(m, size) \in 0 .. numBlocks_
      BY <2>2, <3>1, <3>2, Memory
    <3>4. s[m + 1] \in 0 .. numBlocks_ /\ s[Stop(m, size)] \in 0 .. numBlocks_
      BY <3>1, <3>3
    <3>5. s[m] \in 0 .. numBlocks_
      BY <1>4, <2>4, <3>1, <3>4 DEF SearchStep
    <3> QED BY <2>2, <3>5
  <2> QED BY <2>3, <2>4
<1>7. s = [i \in 0 .. numBlocks_ |-> SearchStep(s, i, size)]
  BY <1>3, Zenon DEF s
<1>8. s \in [0 .. numBlocks_ -> 0 .. numBlocks_]
  BY <1>4, <1>6, <1>7
<1> QED BY <1>4, <1>8 DEF SearchFrom, s

\* The search ends at a block that takes the allocation, or at the end of memory.
LEMMA SearchEnds ==
  ASSUME BlocksType, NEW size \in Nat, NEW first \in 0 .. numBlocks_
  PROVE  LET r == Search(size)[first] IN
           /\ r \in 0 .. numBlocks_
           /\ r = numBlocks_ \/ (r \in Blocks /\ blocks_[r] # Bits /\ Fits(r, size))
<1> DEFINE s == Search(size)
           Ends(r) == r = numBlocks_ \/ (r \in Blocks /\ blocks_[r] # Bits /\ Fits(r, size))
           T == {i \in 0 .. numBlocks_ : ~ Ends(s[i])}
<1>1. \A i \in 0 .. numBlocks_ : s[i] = SearchStep(s, i, size) /\ s[i] \in 0 .. numBlocks_
  BY SearchIs DEF SearchFrom
<1> HIDE DEF s
<1>2. T = {}
  <2>1. SUFFICES ASSUME T # {} PROVE FALSE
    OBVIOUS
  <2>2. PICK m \in T : \A k \in T : k <= m
    BY <2>1, Memory, GreatestOf
  <2>3. CASE m = numBlocks_
    BY <1>1, <2>2, <2>3, Memory DEF SearchStep
  <2>4. CASE m # numBlocks_
    <3>1. m \in Blocks /\ m \in 0 .. numBlocks_ /\ m + 1 \in 0 .. numBlocks_
      BY <2>4, Memory DEF Blocks
    <3>2. Stop(m, size) \in m + 1 .. numBlocks_
      BY <3>1, StopIs
    <3>3. /\ m + 1 \notin T
          /\ Stop(m, size) \notin T /\ Stop(m, size) \in 0 .. numBlocks_
      BY <2>2, <3>1, <3>2, Memory
    <3>4. Ends(s[m + 1]) /\ Ends(s[Stop(m, size)])
      BY <3>1, <3>3
    <3>5. Ends(m) \/ blocks_[m] = Bits \/ ~Fits(m, size)
      BY <3>1
    <3> HIDE DEF Ends
    <3>6. Ends(s[m])
      BY <1>1, <2>4, <3>1, <3>4, <3>5 DEF SearchStep
    <3> QED BY <2>2, <3>6
  <2> QED BY <2>3, <2>4
<1>3. Ends(s[first])
  BY <1>2
<1> QED BY <1>1, <1>3 DEF s
-----------------------------------------------------------------------------
(* What an allocation marks.                                               *)

\* The cells of an allocation, by block: the top of block i, whole blocks, a rest.
LEMMA CellsByBlock ==
  ASSUME NEW i \in Nat, NEW t \in 0 .. 8, NEW size \in Nat,
         NEW full \in Nat, NEW rest \in 0 .. 7, NEW remaining \in Nat,
         remaining = 8 * full + rest,
         remaining > 0 => remaining = size - (8 - t),
         remaining = 0 => t + size <= 8,
         NEW b \in Nat, NEW x \in 0 .. 7
  PROVE  8 * i + t <= 8 * b + x /\ 8 * b + x < 8 * i + t + size
         <=> \/ b = i /\ t <= x /\ x < t + size
             \/ i < b /\ b < i + 1 + full
             \/ b = i + 1 + full /\ x < rest
<1>1. CASE b < i
  <2>1. 8 * b + x < 8 * i
    BY <1>1
  <2> QED BY <1>1, <2>1
<1>2. CASE b = i
  BY <1>2
<1>3. CASE b > i
  <2>1. PICK d \in Nat : b = i + 1 + d
    <3>1. b - i - 1 \in Nat /\ b = i + 1 + (b - i - 1)
      BY <1>3
    <3> QED BY <3>1
  <2>2. 8 * i + t <= 8 * b + x
    BY <2>1
  <2>3. 8 * b + x < 8 * i + t + size <=> 8 * d + x < 8 * full + rest
    <3>1. CASE remaining > 0
      BY <2>1, <3>1
    <3>2. CASE remaining = 0
      BY <2>1, <3>2
    <3> QED BY <3>1, <3>2
  <2>4. 8 * d + x < 8 * full + rest <=> d < full \/ (d = full /\ x < rest)
    <3>1. CASE d < full
      BY <3>1
    <3>2. CASE d >= full
      BY <3>2
    <3> QED BY <3>1, <3>2
  <2>5. (d < full <=> b < i + 1 + full) /\ (d = full <=> b = i + 1 + full)
    BY <2>1
  <2> QED BY <1>3, <2>2, <2>3, <2>4, <2>5
<1> QED BY <1>1, <1>2, <1>3

LEMMA AddressOf ==
  ASSUME BlocksType, NEW i \in Blocks
  PROVE  /\ AddrIn(i) = 8 * i + Top(blocks_[i])
         /\ AddrIn(i) \in Nat
         /\ Top(blocks_[i]) \in 0 .. 8
<1>1. Top(blocks_[i]) \in 0 .. 8
  BY TopIs DEF BlocksType
<1>2. i \in Nat /\ i # numBlocks_
  BY Memory DEF Blocks
<1> QED BY <1>1, <1>2 DEF AddrIn

LEMMA InAllocation ==
  ASSUME BlocksType, NEW i \in Blocks, NEW size \in Nat,
         NEW b \in Blocks, NEW x \in Bits
  PROVE  8 * b + x \in Cells(AddrIn(i), size)
         <=> \/ b = i /\ Top(blocks_[i]) <= x /\ x < Top(blocks_[i]) + size
             \/ i < b /\ b < i + 1 + FullBlocks(i, size)
             \/ b = i + 1 + FullBlocks(i, size) /\ x < Rest(i, size)
<1>1. /\ i \in Nat /\ b \in Nat /\ x \in 0 .. 7
      /\ AddrIn(i) = 8 * i + Top(blocks_[i]) /\ Top(blocks_[i]) \in 0 .. 8
  BY AddressOf DEF Blocks, Bits
<1> DEFINE t == Top(blocks_[i])
<1>2. 8 * b + x \in Cells(AddrIn(i), size)
      <=> 8 * i + t <= 8 * b + x /\ 8 * b + x < 8 * i + t + size
  <2>1. PICK a \in Nat : a = AddrIn(i) /\ a = 8 * i + t
    BY <1>1
  <2>2. 8 * b + x \in Nat
    BY <1>1
  <2> QED BY <2>1, <2>2 DEF Cells
<1> HIDE DEF t
<1>3. t \in 0 .. 8 /\ t = Top(blocks_[i])
  BY <1>1 DEF t
<1>4. PICK remaining \in Nat, full \in Nat, rest \in 0 .. 7 :
        /\ full = FullBlocks(i, size) /\ rest = Rest(i, size)
        /\ remaining = 8 * full + rest
        /\ remaining > 0 => remaining = size - (8 - t)
        /\ remaining = 0 => t + size <= 8
  BY <1>3, PartsOf
<1>5. 8 * i + t <= 8 * b + x /\ 8 * b + x < 8 * i + t + size
      <=> \/ b = i /\ t <= x /\ x < t + size
          \/ i < b /\ b < i + 1 + full
          \/ b = i + 1 + full /\ x < rest
  <2>1. i \in Nat /\ b \in Nat /\ x \in 0 .. 7 /\ t \in 0 .. 8
    BY <1>1, <1>3
  <2> QED BY <1>4, <2>1, CellsByBlock
<1> QED BY <1>2, <1>3, <1>4, <1>5

\* What is given away was free, and is memory.
LEMMA AllocationIsFree ==
  ASSUME BlocksType, NEW i \in Blocks, NEW size \in Nat, Fits(i, size)
  PROVE  /\ AddrIn(i) + size <= 8 * numBlocks_
         /\ \A c \in Cells(AddrIn(i), size) :
              c \in 0 .. 8 * numBlocks_ - 1 /\ ~UsedAt(blocks_, c)
<1> DEFINE full == FullBlocks(i, size)
           rest == Rest(i, size)
           t    == Top(blocks_[i])
<1>1. /\ Stop(i, size) = i + 1 + full
      /\ rest # 0 => i + 1 + full < numBlocks_ /\ blocks_[i + 1 + full] \cap 0 .. rest - 1 = {}
  BY DEF Fits
<1>2. /\ Stop(i, size) \in i + 1 .. numBlocks_
      /\ \A b \in Blocks : i < b /\ b < Stop(i, size) => blocks_[b] = {}
  BY StopIs
<1>3. /\ full \in Nat /\ rest \in 0 .. 7 /\ t \in 0 .. 8 /\ i \in Nat /\ i < numBlocks_
      /\ numBlocks_ \in Nat /\ AddrIn(i) = 8 * i + t /\ AddrIn(i) \in Nat
      /\ Remaining(i, size) = 8 * full + rest
      /\ Remaining(i, size) > 0 => Remaining(i, size) = size - (8 - t)
      /\ Remaining(i, size) = 0 => t + size <= 8
  BY PartsOf, AddressOf, Memory DEF Blocks
<1>4. \A x \in blocks_[i] : x < t
  BY TopIs DEF BlocksType
<1>5. \A b \in Blocks, x \in Bits :
        8 * b + x \in Cells(AddrIn(i), size)
        => \/ b = i /\ t <= x
           \/ i < b /\ b < i + 1 + full
           \/ b = i + 1 + full /\ x < rest
  BY InAllocation
<1> HIDE DEF full, rest, t
<1>6. i + 1 + full <= numBlocks_ /\ (rest # 0 => i + 1 + full < numBlocks_)
  BY <1>1, <1>2, <1>3
<1>7. AddrIn(i) + size <= 8 * numBlocks_
  <2>1. CASE Remaining(i, size) > 0
    <3>1. AddrIn(i) + size = 8 * (i + 1 + full) + rest
      BY <1>3, <2>1
    <3> QED BY <3>1, <1>3, <1>6
  <2>2. CASE Remaining(i, size) = 0
    BY <1>3, <2>2
  <2> QED BY <2>1, <2>2, <1>3
<1>8. ASSUME NEW c \in Cells(AddrIn(i), size)
      PROVE  c \in 0 .. 8 * numBlocks_ - 1 /\ ~UsedAt(blocks_, c)
  <2>1. c \in 0 .. 8 * numBlocks_ - 1
    BY <1>3, <1>7 DEF Cells
  <2>2. PICK b \in Blocks, x \in Bits : b = c \div 8 /\ x = c % 8 /\ c = 8 * b + x
    BY <2>1, CellAt
  <2>3. b \in Nat /\ x \in 0 .. 7
    BY DEF Blocks, Bits
  <2>4. CASE b = i /\ t <= x
    <3>1. x \notin blocks_[b]
      BY <1>3, <1>4, <2>3, <2>4
    <3> QED BY <2>1, <2>2, <3>1 DEF UsedAt
  <2>5. CASE i < b /\ b < i + 1 + full
    <3>1. blocks_[b] = {}
      BY <1>1, <1>2, <2>5
    <3> QED BY <2>1, <2>2, <3>1 DEF UsedAt
  <2>6. CASE b = i + 1 + full /\ x < rest
    <3>1. rest # 0 /\ x \in 0 .. rest - 1
      BY <1>3, <2>3, <2>6
    <3>2. x \notin blocks_[b]
      BY <1>1, <2>6, <3>1
    <3> QED BY <2>1, <2>2, <3>2 DEF UsedAt
  <2> QED BY <1>5, <2>2, <2>4, <2>5, <2>6
<1> QED BY <1>7, <1>8

\* What is given away is what is marked.
LEMMA AllocationIsMarked ==
  ASSUME BlocksType, NEW i \in Blocks, NEW size \in Nat, Fits(i, size)
  PROVE  /\ Marked(i, size) \in [Blocks -> SUBSET Bits]
         /\ \A c \in 0 .. 8 * numBlocks_ - 1 :
              UsedAt(Marked(i, size), c)
              <=> UsedAt(blocks_, c) \/ c \in Cells(AddrIn(i), size)
<1> DEFINE full == FullBlocks(i, size)
           rest == Rest(i, size)
           t    == Top(blocks_[i])
           m    == Marked(i, size)
           j    == i + 1 + full
<1>1. Stop(i, size) = j
  BY DEF Fits
<1>2. /\ full \in Nat /\ rest \in 0 .. 7 /\ t \in 0 .. 8 /\ i \in Nat /\ numBlocks_ \in Nat
  BY PartsOf, AddressOf, Memory DEF Blocks
<1>3. \A b \in Blocks, x \in Bits :
        8 * b + x \in Cells(AddrIn(i), size)
        <=> \/ b = i /\ t <= x /\ x < t + size
            \/ i < b /\ b < j
            \/ b = j /\ x < rest
  BY InAllocation
<1>4. m = [b \in Blocks |->
             CASE b = i -> blocks_[b] \cup (Bits \cap Cells(Top(blocks_[b]), Smaller(size, 8)))
               [] i < b /\ b < j -> Bits
               [] b = j /\ b # i -> blocks_[b] \cup Cells(0, rest)
               [] OTHER -> blocks_[b]]
  BY <1>1 DEF Marked
<1>5. j \in Nat /\ j > i
  BY <1>2
<1> HIDE DEF full, rest, t, m, j
<1>6. \A x \in Bits : x \in Cells(t, Smaller(size, 8)) <=> t <= x /\ x < t + size
  <2> SUFFICES ASSUME NEW x \in Bits
               PROVE  x \in Cells(t, Smaller(size, 8)) <=> t <= x /\ x < t + size
    OBVIOUS
  <2>1. x \in 0 .. 7
    BY DEF Bits
  <2>2. CASE size < 8
    BY <1>2, <2>1, <2>2 DEF Cells, Smaller
  <2>3. CASE size >= 8
    BY <1>2, <2>1, <2>3 DEF Cells, Smaller
  <2> QED BY <1>2, <2>2, <2>3
<1>7. Cells(0, rest) \subseteq Bits /\ \A x \in Bits : x \in Cells(0, rest) <=> x < rest
  BY <1>2 DEF Cells, Bits
<1>8. ASSUME NEW b \in Blocks
      PROVE  /\ m[b] \in SUBSET Bits
             /\ \A x \in Bits : x \in m[b] <=> x \in blocks_[b]
                                               \/ 8 * b + x \in Cells(AddrIn(i), size)
  <2>1. b \in Nat /\ blocks_[b] \in SUBSET Bits
    BY DEF BlocksType, Blocks
  <2>2. CASE b = i
    <3>1. ~(i < b) /\ b # j
      BY <1>2, <1>5, <2>2
    <3>2. m[b] = blocks_[b] \cup (Bits \cap Cells(t, Smaller(size, 8)))
      BY <1>4, <2>2, <3>1 DEF t
    <3> QED BY <1>3, <1>6, <2>1, <2>2, <3>1, <3>2
  <2>3. CASE i < b /\ b < j
    <3>1. b # i /\ b # j
      BY <1>2, <1>5, <2>3, <2>1
    <3>2. m[b] = Bits
      BY <1>4, <2>3, <3>1
    <3> QED BY <1>3, <2>1, <2>3, <3>2
  <2>4. CASE b = j
    <3>1. b # i /\ ~(i < b /\ b < j)
      BY <1>2, <1>5, <2>4
    <3>2. m[b] = blocks_[b] \cup Cells(0, rest)
      BY <1>4, <2>4, <3>1
    <3> QED BY <1>3, <1>7, <2>1, <2>4, <3>1, <3>2
  <2>5. CASE b # i /\ ~(i < b /\ b < j) /\ b # j
    <3>1. m[b] = blocks_[b]
      BY <1>4, <2>5
    <3> QED BY <1>3, <2>1, <2>5, <3>1
  <2> QED BY <2>2, <2>3, <2>4, <2>5
<1>9. m \in [Blocks -> SUBSET Bits]
  BY <1>4, <1>8
<1>10. ASSUME NEW c \in 0 .. 8 * numBlocks_ - 1
       PROVE  UsedAt(m, c) <=> UsedAt(blocks_, c) \/ c \in Cells(AddrIn(i), size)
  <2>1. PICK b \in Blocks, x \in Bits : b = c \div 8 /\ x = c % 8 /\ c = 8 * b + x
    BY CellAt
  <2> QED BY <1>8, <2>1 DEF UsedAt
<1> QED BY <1>9, <1>10 DEF m
-----------------------------------------------------------------------------
(* What a release clears.                                                  *)

\* Cleared for the parts of an allocation.
ClearedBy(base, t, first, full, rest) ==
  [b \in Blocks |->
     CASE b = base -> blocks_[b] \ Cells(t, first)
       [] base < b /\ b <= base + full -> {}
       [] b = base + full + 1 -> blocks_[b] \ Cells(0, rest)
       [] OTHER -> blocks_[b]]

LEMMA ReleaseIsCleared ==
  ASSUME BlocksType, NEW addr \in Nat, NEW size \in Nat
  PROVE  /\ Cleared(addr, size) \in [Blocks -> SUBSET Bits]
         /\ \A b \in Blocks : Cleared(addr, size)[b] \subseteq blocks_[b]
         /\ \A b \in Blocks : b < addr \div 8 => Cleared(addr, size)[b] = blocks_[b]
         /\ \A c \in 0 .. 8 * numBlocks_ - 1 :
              UsedAt(Cleared(addr, size), c)
              <=> UsedAt(blocks_, c) /\ c \notin Cells(addr, size)
<1>1. PICK base \in Nat, t \in 0 .. 7 : base = addr \div 8 /\ t = addr % 8 /\ addr = 8 * base + t
  BY Eighths
<1>2. PICK first \in Nat : first = Smaller(8 - t, size)
  BY DEF Smaller
<1>3. first <= size /\ first <= 8 - t /\ (first = 8 - t \/ first = size)
  BY <1>2 DEF Smaller
<1>4. PICK remaining \in Nat : remaining = size - first
  BY <1>3
<1>5. PICK full \in Nat, rest \in 0 .. 7 :
        /\ full = (size - first) \div 8 /\ rest = (size - first) % 8
        /\ remaining = 8 * full + rest
  BY <1>4, Eighths
<1>6. (remaining > 0 => remaining = size - (8 - t)) /\ (remaining = 0 => t + size <= 8)
  BY <1>3, <1>4
<1> DEFINE m == Cleared(addr, size)
           j == base + full + 1
<1>7. m = [b \in Blocks |->
             CASE b = base -> blocks_[b] \ Cells(t, first)
               [] base < b /\ b <= base + full -> {}
               [] b = j -> blocks_[b] \ Cells(0, rest)
               [] OTHER -> blocks_[b]]
  <2>1. m = ClearedBy(addr \div 8, addr % 8, Smaller(8 - (addr % 8), size),
                      (size - Smaller(8 - (addr % 8), size)) \div 8,
                      (size - Smaller(8 - (addr % 8), size)) % 8)
    BY Zenon DEF Cleared, ClearedBy
  <2> HIDE DEF m
  <2>2. m = ClearedBy(base, t, first, full, rest)
    BY <1>1, <1>2, <1>5, <2>1
  <2> QED BY <2>2 DEF ClearedBy
<1>8. j \in Nat /\ j > base /\ j > base + full
  OBVIOUS
<1> HIDE DEF m
<1>9. ASSUME NEW b \in Nat, NEW x \in Bits
      PROVE  8 * b + x \in Cells(addr, size)
             <=> \/ b = base /\ t <= x /\ x < t + size
                 \/ base < b /\ b <= base + full
                 \/ b = j /\ x < rest
  <2>1. x \in 0 .. 7
    BY DEF Bits
  <2>2. 8 * b + x \in Cells(addr, size)
        <=> 8 * base + t <= 8 * b + x /\ 8 * b + x < 8 * base + t + size
    BY <1>1, <2>1 DEF Cells
  <2>3. 8 * base + t <= 8 * b + x /\ 8 * b + x < 8 * base + t + size
        <=> \/ b = base /\ t <= x /\ x < t + size
            \/ base < b /\ b < base + 1 + full
            \/ b = base + 1 + full /\ x < rest
    <3>1. t \in 0 .. 8
      OBVIOUS
    <3> QED BY <1>5, <1>6, <2>1, <3>1, CellsByBlock
  <2>4. (b < base + 1 + full <=> b <= base + full) /\ base + 1 + full = j
    OBVIOUS
  <2> QED BY <2>2, <2>3, <2>4
<1> HIDE DEF j
<1>10. \A x \in Bits : x \in Cells(t, first) <=> t <= x /\ x < t + size
  BY <1>3 DEF Cells, Bits
<1>11. \A x \in Bits : x \in Cells(0, rest) <=> x < rest
  BY DEF Cells, Bits
<1>12. ASSUME NEW b \in Blocks
       PROVE  /\ m[b] \in SUBSET Bits /\ m[b] \subseteq blocks_[b]
              /\ b < base => m[b] = blocks_[b]
              /\ \A x \in Bits : x \in m[b] <=> x \in blocks_[b]
                                                /\ 8 * b + x \notin Cells(addr, size)
  <2>1. b \in Nat /\ blocks_[b] \in SUBSET Bits
    BY DEF BlocksType, Blocks
  <2>2. CASE b = base
    <3>1. ~(base < b) /\ b # j /\ ~(b < base)
      BY <1>8, <2>2
    <3>2. m[b] = blocks_[b] \ Cells(t, first)
      BY <1>7, <2>2, <3>1
    <3> QED BY <1>9, <1>10, <2>1, <2>2, <3>1, <3>2
  <2>3. CASE base < b /\ b <= base + full
    <3>1. b # base /\ b # j /\ ~(b < base)
      BY <1>8, <2>1, <2>3
    <3>2. m[b] = {}
      BY <1>7, <2>3, <3>1
    <3> QED BY <1>9, <2>1, <2>3, <3>1, <3>2
  <2>4. CASE b = j
    <3>1. b # base /\ ~(b <= base + full) /\ ~(b < base)
      BY <1>8, <2>4
    <3>2. m[b] = blocks_[b] \ Cells(0, rest)
      BY <1>7, <2>4, <3>1
    <3> QED BY <1>9, <1>11, <2>1, <2>4, <3>1, <3>2
  <2>5. CASE b # base /\ ~(base < b /\ b <= base + full) /\ b # j
    <3>1. m[b] = blocks_[b]
      BY <1>7, <2>5
    <3> QED BY <1>9, <2>1, <2>5, <3>1
  <2> QED BY <2>2, <2>3, <2>4, <2>5
<1>13. m \in [Blocks -> SUBSET Bits]
  BY <1>7, <1>12
<1>14. ASSUME NEW c \in 0 .. 8 * numBlocks_ - 1
       PROVE  UsedAt(m, c) <=> UsedAt(blocks_, c) /\ c \notin Cells(addr, size)
  <2>1. PICK b \in Blocks, x \in Bits : b = c \div 8 /\ x = c % 8 /\ c = 8 * b + x
    BY CellAt
  <2> QED BY <1>12, <2>1 DEF UsedAt
<1> QED BY <1>1, <1>12, <1>13, <1>14 DEF m

-----------------------------------------------------------------------------
(* First fit.                                                              *)

LEMMA UsedCellsAre ==
  ASSUME BlocksType
  PROVE  UsedCells = {c \in 0 .. 8 * numBlocks_ - 1 : UsedAt(blocks_, c)}
<1>1. ASSUME NEW c \in UsedCells
      PROVE  c \in 0 .. 8 * numBlocks_ - 1 /\ UsedAt(blocks_, c)
  <2>1. PICK b \in Blocks : c \in {b * 8 + x : x \in blocks_[b]}
    BY DEF UsedCells
  <2>4. PICK x \in blocks_[b] : c = b * 8 + x
    BY <2>1
  <2>2. x \in Bits
    BY DEF BlocksType
  <2>3. b * 8 + x = 8 * b + x
    BY <2>2 DEF Blocks, Bits
  <2> QED BY <2>2, <2>3, <2>4, CellAt DEF UsedAt
<1>2. ASSUME NEW c \in 0 .. 8 * numBlocks_ - 1, UsedAt(blocks_, c)
      PROVE  c \in UsedCells
  <2>1. PICK b \in Blocks, x \in Bits : b = c \div 8 /\ x = c % 8 /\ c = 8 * b + x
    BY CellAt
  <2>2. c = b * 8 + x
    BY <2>1 DEF Blocks, Bits
  <2>3. x \in blocks_[b]
    BY <1>2, <2>1 DEF UsedAt
  <2> QED BY <2>2, <2>3 DEF UsedCells
<1> QED BY <1>1, <1>2

\* A block fits if the cells an allocation needs behind it are free.
LEMMA FreeRunFits ==
  ASSUME BlocksType, NEW i \in Blocks, NEW size \in Nat,
         \A k \in Nat : k < Remaining(i, size)
           => /\ 8 * (i + 1) + k < 8 * numBlocks_
              /\ ~UsedAt(blocks_, 8 * (i + 1) + k)
  PROVE  Fits(i, size)
<1>1. PICK remaining \in Nat, full \in Nat, rest \in 0 .. 7 :
        /\ remaining = Remaining(i, size)
        /\ full = FullBlocks(i, size) /\ rest = Rest(i, size) /\ remaining = 8 * full + rest
  BY PartsOf
<1>2. \A k \in Nat : k < remaining
        => 8 * (i + 1) + k < 8 * numBlocks_ /\ ~UsedAt(blocks_, 8 * (i + 1) + k)
  BY <1>1
<1>3. i \in Nat /\ i < numBlocks_ /\ numBlocks_ \in Nat
  BY Memory DEF Blocks
<1>4. i + 1 + full <= numBlocks_
  <2>1. CASE full = 0
    BY <1>3, <2>1
  <2>2. CASE full > 0
    <3>1. 8 * full - 1 \in Nat /\ 8 * full - 1 < remaining
      BY <1>1, <2>2
    <3>2. 8 * (i + 1) + (8 * full - 1) < 8 * numBlocks_
      BY <1>2, <3>1
    <3> QED BY <1>3, <3>2
  <2> QED BY <2>1, <2>2
<1>5. ASSUME NEW b \in Blocks, NEW x \in Bits, x \in blocks_[b], i < b
      PROVE  ~(8 * b + x < 8 * (i + 1) + remaining)
  <2>1. x \in Bits /\ x \in Nat /\ b \in Nat
    BY DEF BlocksType, Bits, Blocks
  <2>2. UsedAt(blocks_, 8 * b + x)
    BY <1>5, <2>1, CellAt DEF UsedAt
  <2>3. 8 * b + x - 8 * (i + 1) \in Nat
        /\ 8 * (i + 1) + (8 * b + x - 8 * (i + 1)) = 8 * b + x
    BY <1>3, <1>5, <2>1
  <2>4. ~(8 * b + x - 8 * (i + 1) < remaining)
    BY <1>2, <2>2, <2>3
  <2> QED BY <1>3, <2>1, <2>4
<1>6. PICK j \in i + 1 .. numBlocks_ : j = Stop(i, size)
  BY StopIs
<1>7. j = i + 1 + full
  <2>1. /\ j <= i + 1 + full
        /\ (j \in Blocks /\ blocks_[j] # {}) \/ j = numBlocks_ \/ j = i + 1 + full
    BY <1>1, <1>6, StopIs
  <2>2. SUFFICES ASSUME j < i + 1 + full PROVE FALSE
    BY <1>3, <2>1
  <2>3. PICK x \in blocks_[j] : j \in Blocks
    BY <1>3, <1>4, <2>1, <2>2
  <2>4. x \in Bits /\ x \in 0 .. 7
    BY <2>3 DEF BlocksType, Bits
  <2>5. 8 * j + x < 8 * (i + 1) + remaining
    BY <1>1, <1>3, <2>2, <2>4
  <2>6. i < j
    BY <1>3, <1>6
  <2> QED BY <1>5, <2>3, <2>4, <2>5, <2>6
<1>8. ASSUME rest # 0
      PROVE  j < numBlocks_ /\ blocks_[j] \cap 0 .. rest - 1 = {}
  <2>1. 8 * full \in Nat /\ 8 * full < remaining
    BY <1>1, <1>8
  <2>2. 8 * (i + 1) + 8 * full < 8 * numBlocks_
    BY <1>2, <2>1
  <2>3. j < numBlocks_
    BY <1>3, <1>7, <2>2
  <2>4. j \in Blocks /\ i < j
    BY <1>3, <2>3 DEF Blocks
  <2>5. ASSUME NEW x \in blocks_[j], x \in 0 .. rest - 1
        PROVE  FALSE
    <3>2. x \in Bits
      BY <2>4 DEF BlocksType
    <3>1. 8 * j + x < 8 * (i + 1) + remaining
      BY <1>1, <1>3, <1>7, <2>5
    <3> QED BY <1>5, <2>4, <3>1, <3>2
  <2> QED BY <2>3, <2>5
<1> QED BY <1>1, <1>6, <1>7, <1>8 DEF Fits
\* No full block is below the hint.
HintHolds == \A b \in Blocks : b < firstFreeBlock_ => 7 \in blocks_[b]

LEMMA RoomIs ==
  ASSUME BlocksType, NEW size \in Nat, size > 0
  PROVE  /\ Room(size) \subseteq Nat
         /\ \A a \in Room(size) : \E b \in Blocks :
              /\ 7 \notin blocks_[b] /\ a = 8 * b + Top(blocks_[b])
              /\ a + size <= 8 * numBlocks_
              /\ \A c \in Nat : a <= c /\ c < a + size => ~UsedAt(blocks_, c)
<1>1. ASSUME NEW a \in Room(size)
      PROVE  a \in Nat /\ \E b \in Blocks :
               /\ 7 \notin blocks_[b] /\ a = 8 * b + Top(blocks_[b])
               /\ a + size <= 8 * numBlocks_
               /\ \A c \in Nat : a <= c /\ c < a + size => ~UsedAt(blocks_, c)
  <2>1. /\ a \in {b * 8 + Top(blocks_[b]) : b \in {k \in Blocks : 7 \notin blocks_[k]}}
        /\ Cells(a, size) \subseteq Cells(0, numBlocks_ * 8) \ UsedCells
    BY DEF Room
  <2>2. PICK b \in Blocks : 7 \notin blocks_[b] /\ a = b * 8 + Top(blocks_[b])
    BY <2>1
  <2>3. PICK t \in 0 .. 8 : t = Top(blocks_[b])
    BY TopIs DEF BlocksType
  <2>4. b \in Nat /\ a = 8 * b + t /\ a \in Nat
    BY <2>2, <2>3 DEF Blocks
  <2>5. ASSUME NEW c \in Nat, a <= c, c < a + size
        PROVE  c \in 0 .. 8 * numBlocks_ - 1 /\ ~UsedAt(blocks_, c)
    <3>1. c \in Cells(a, size)
      BY <2>4, <2>5 DEF Cells
    <3>2. c \in Cells(0, numBlocks_ * 8) /\ c \notin UsedCells
      BY <2>1, <3>1
    <3>3. c \in 0 .. 8 * numBlocks_ - 1
      BY <3>2, Memory DEF Cells
    <3> QED BY <3>2, <3>3, UsedCellsAre
  <2>6. a + size <= 8 * numBlocks_
    <3>1. a + size - 1 \in 0 .. 8 * numBlocks_ - 1
      BY <2>4, <2>5
    <3> QED BY <3>1, <2>4, Memory
  <2> QED BY <2>2, <2>3, <2>4, <2>5, <2>6
<1> QED BY <1>1

\* With a right hint the search gives the first place there is.
LEMMA FirstFit ==
  ASSUME BlocksType, firstFreeBlock_ \in 0 .. numBlocks_, HintHolds,
         NEW size \in Sizes, Room(size) # {}
  PROVE  AddrIn(FirstBlock(firstFreeBlock_, size)) <= Min(Room(size))
<1>1. size \in Nat /\ size > 0 /\ numBlocks_ \in Nat
  BY Memory
<1>2. PICK a \in Nat : a = Min(Room(size)) /\ a \in Room(size)
  BY <1>1, RoomIs, MinIs
<1>3. PICK b \in Blocks :
        /\ 7 \notin blocks_[b] /\ a = 8 * b + Top(blocks_[b]) /\ a + size <= 8 * numBlocks_
        /\ \A c \in Nat : a <= c /\ c < a + size => ~UsedAt(blocks_, c)
  BY <1>1, <1>2, RoomIs
<1>4. PICK t \in 0 .. 8 : t = Top(blocks_[b])
  BY TopIs DEF BlocksType
<1>5. b \in Nat /\ b < numBlocks_ /\ a = 8 * b + t
  BY <1>1, <1>3, <1>4 DEF Blocks
<1>6. firstFreeBlock_ <= b
  BY <1>3, <1>5 DEF HintHolds
\* The room is a place for the allocation.
<1>7. Fits(b, size)
  <2>1. PICK remaining \in Nat :
          /\ remaining = Remaining(b, size)
          /\ remaining > 0 => remaining = size - (8 - t)
    BY <1>1, <1>4, PartsOf
  <2>2. ASSUME NEW k \in Nat, k < remaining
        PROVE  8 * (b + 1) + k < 8 * numBlocks_ /\ ~UsedAt(blocks_, 8 * (b + 1) + k)
    <3>1. 8 * (b + 1) + k \in Nat /\ a <= 8 * (b + 1) + k /\ 8 * (b + 1) + k < a + size
      BY <1>1, <1>5, <2>1, <2>2
    <3>2. ~UsedAt(blocks_, 8 * (b + 1) + k)
      BY <1>3, <3>1
    <3>3. a + size <= 8 * numBlocks_
      BY <1>3
    <3> QED BY <1>1, <3>1, <3>2, <3>3
  <2> QED BY <1>1, <2>1, <2>2, FreeRunFits
\* The search does not jump over it: a block before it that could not take the
\* allocation is stopped by a used one.
<1>8. ASSUME NEW i \in Blocks, i < b, ~Fits(i, size)
      PROVE  Stop(i, size) <= b
  <2>1. PICK j \in i + 1 .. numBlocks_ : j = Stop(i, size)
    BY <1>1, StopIs
  <2>2. i \in Nat
    BY DEF Blocks
  <2>3. SUFFICES ASSUME b < j PROVE FALSE
    BY <1>5, <2>1, <2>2
  <2>4. \A k \in Blocks : i < k /\ k < j => blocks_[k] = {}
    BY <1>1, <2>1, StopIs
  <2>5. blocks_[b] = {}
    BY <1>8, <2>3, <2>4
  <2>6. t = 0
    BY <1>4, <2>5 DEF Top
  <2>7. PICK remaining \in Nat : remaining = Remaining(i, size) /\ remaining <= size
    BY <1>1, PartsOf
  <2>8. ASSUME NEW k \in Nat, k < remaining
        PROVE  8 * (i + 1) + k < 8 * numBlocks_ /\ ~UsedAt(blocks_, 8 * (i + 1) + k)
    <3>1. PICK c \in Nat : c = 8 * (i + 1) + k
      BY <2>2
    <3>2. c < 8 * b + size /\ c >= 8 * (i + 1)
      BY <1>1, <1>5, <1>8, <2>2, <2>7, <2>8, <3>1
    <3>3. a + size <= 8 * numBlocks_ /\ a = 8 * b
      BY <1>3, <1>5, <2>6
    <3>4. c < 8 * numBlocks_
      BY <1>1, <1>5, <3>2, <3>3
    <3>5. CASE a <= c
      <4>1. ~UsedAt(blocks_, c)
        BY <1>3, <3>2, <3>3, <3>5
      <4> QED BY <3>1, <3>4, <4>1
    <3>6. CASE c < a
      <4>1. PICK d \in Blocks, x \in Bits : d = c \div 8 /\ x = c % 8 /\ c = 8 * d + x
        BY <1>1, <3>4, CellAt
      <4>2. i < d /\ d < b
        <5>1. d \in Nat /\ x \in 0 .. 7
          BY DEF Blocks, Bits
        <5> QED BY <1>5, <2>2, <3>2, <3>3, <3>6, <4>1, <5>1
      <4>3. d < j
        BY <1>5, <2>1, <2>2, <2>3, <4>2 DEF Blocks
      <4>4. ~UsedAt(blocks_, c)
        BY <2>4, <4>1, <4>2, <4>3 DEF UsedAt
      <4> QED BY <3>1, <3>4, <4>4
    <3> QED BY <1>2, <3>5, <3>6
  <2> QED BY <1>1, <1>8, <2>7, <2>8, FreeRunFits
<1> DEFINE s == Search(size)
           T == {i \in 0 .. b : ~ (s[i] <= b)}
<1>9. \A i \in 0 .. numBlocks_ : s[i] = SearchStep(s, i, size) /\ s[i] \in 0 .. numBlocks_
  BY <1>1, SearchIs DEF SearchFrom
<1> HIDE DEF s
<1>10. T = {}
  <2>1. SUFFICES ASSUME T # {} PROVE FALSE
    OBVIOUS
  <2>2. PICK m \in T : \A k \in T : k <= m
    BY <1>5, <2>1, GreatestOf
  <2>3. m \in 0 .. b /\ m \in Blocks /\ m # numBlocks_ /\ m \in 0 .. numBlocks_
    <3>1. m \in 0 .. b
      OBVIOUS
    <3> QED BY <1>1, <1>5, <3>1 DEF Blocks
  <2>4. s[m] = SearchStep(s, m, size)
    BY <1>9, <2>3
  <2>5. blocks_[b] # Bits
    BY <1>3 DEF Bits
  <2>6. CASE m = b
    <3>1. s[m] = m
      BY <1>7, <2>3, <2>4, <2>5, <2>6 DEF SearchStep
    <3> QED BY <2>2, <2>3, <3>1
  <2>7. CASE m < b
    <3>1. \A k \in m + 1 .. b : s[k] <= b
      BY <2>2, <2>3
    <3>2. m + 1 \in m + 1 .. b
      BY <1>5, <2>3, <2>7
    <3>3. CASE blocks_[m] = Bits
      <4>1. s[m] = s[m + 1]
        BY <2>3, <2>4, <3>3 DEF SearchStep
      <4> QED BY <2>2, <3>1, <3>2, <4>1
    <3>4. CASE blocks_[m] # Bits /\ Fits(m, size)
      <4>1. s[m] = m
        BY <2>3, <2>4, <3>4 DEF SearchStep
      <4> QED BY <2>2, <2>3, <4>1
    <3>5. CASE blocks_[m] # Bits /\ ~Fits(m, size)
      <4>1. s[m] = s[Stop(m, size)]
        BY <2>3, <2>4, <3>5 DEF SearchStep
      <4>2. Stop(m, size) <= b
        BY <1>8, <2>3, <2>7, <3>5
      <4>3. Stop(m, size) \in m + 1 .. numBlocks_
        BY <1>1, <2>3, StopIs
      <4>4. Stop(m, size) \in m + 1 .. b
        BY <1>5, <2>3, <4>2, <4>3
      <4> QED BY <2>2, <3>1, <4>1, <4>4
    <3> QED BY <3>3, <3>4, <3>5
  <2> QED BY <1>5, <2>3, <2>6, <2>7
<1>11. PICK r \in 0 .. numBlocks_ : r = FirstBlock(firstFreeBlock_, size) /\ r <= b
  <2>1. firstFreeBlock_ \in 0 .. b /\ firstFreeBlock_ < numBlocks_
    BY <1>1, <1>5, <1>6
  <2>2. FirstBlock(firstFreeBlock_, size) = s[firstFreeBlock_]
    BY <2>1, FirstBlockIs DEF s
  <2>3. s[firstFreeBlock_] <= b
    BY <1>10, <2>1
  <2> QED BY <1>9, <2>2, <2>3
<1>12. r \in Blocks /\ r \in Nat
  BY <1>1, <1>5, <1>11 DEF Blocks
<1>13. PICK u \in 0 .. 8 : u = Top(blocks_[r]) /\ AddrIn(r) = 8 * r + u
  BY <1>12, AddressOf
<1>14. 8 * r + u <= a
  <2>1. CASE r = b
    BY <1>4, <1>5, <1>13, <2>1
  <2>2. CASE r < b
    BY <1>5, <1>12, <2>2
  <2> QED BY <1>5, <1>11, <1>12, <2>1, <2>2
<1> QED BY <1>2, <1>11, <1>13, <1>14
-----------------------------------------------------------------------------
(* The inductive invariant.                                                *)

\* No two allocations share a cell.
Apart ==
  \A a, b \in live : a # b => Cells(a.addr, a.size) \cap Cells(b.addr, b.size) = {}

\* A cell is used if and only if somebody owns it.
Owned ==
  \A c \in 0 .. 8 * numBlocks_ - 1 :
    UsedAt(blocks_, c) <=> \E a \in live : c \in Cells(a.addr, a.size)

AllocatorInv == TypeOK /\ Apart /\ Owned /\ HintHolds /\ LastUsedCovers

LEMMA OwnedIsExact == AllocatorInv => BitmapIsExact
<1> SUFFICES ASSUME AllocatorInv PROVE BitmapIsExact
  OBVIOUS
<1>1. UsedCells = {c \in 0 .. 8 * numBlocks_ - 1 : UsedAt(blocks_, c)}
  BY UsedCellsAre DEF AllocatorInv, TypeOK
<1>2. \A a \in live : Cells(a.addr, a.size) \subseteq 0 .. 8 * numBlocks_ - 1
  <2> SUFFICES ASSUME NEW a \in live, NEW c \in Cells(a.addr, a.size)
               PROVE  c \in 0 .. 8 * numBlocks_ - 1
    OBVIOUS
  <2>1. a.addr \in Nat /\ a.size \in Nat /\ a.addr + a.size <= 8 * numBlocks_
    BY Memory DEF AllocatorInv, TypeOK
  <2> QED BY <2>1, Memory DEF Cells
<1>3. ASSUME NEW c
      PROVE  c \in UsedCells <=> \E a \in live : c \in Cells(a.addr, a.size)
  BY <1>1, <1>2 DEF AllocatorInv, Owned
<1>4. UsedCells = UNION {Cells(a.addr, a.size) : a \in live}
  BY <1>3
<1> QED BY <1>4 DEF AllocatorInv, Apart, BitmapIsExact

LEMMA StartsInvariant == Init => AllocatorInv
<1> SUFFICES ASSUME Init PROVE AllocatorInv
  OBVIOUS
<1>1. TypeOK
  BY Memory DEF Init, TypeOK, BlocksType
<1>2. Owned
  <2>1. \A c \in 0 .. 8 * numBlocks_ - 1 : ~UsedAt(blocks_, c)
    BY CellAt DEF Init, UsedAt
  <2> QED BY <2>1 DEF Owned, Init
<1>3. Apart
  BY DEF Init, Apart
<1>4. HintHolds
  BY Memory DEF Init, HintHolds, Blocks
<1>5. LastUsedCovers
  BY DEF Init, LastUsedCovers
<1> QED BY <1>1, <1>2, <1>3, <1>4, <1>5 DEF AllocatorInv

LEMMA NextFirstFreeIs ==
  ASSUME firstFreeBlock_ \in 0 .. numBlocks_, NEW addr \in Nat, NEW size \in Nat, NEW blk
  PROVE  /\ NextFirstFree(addr, size, blk) \in 0 .. numBlocks_
         /\ \A b \in Blocks : b < NextFirstFree(addr, size, blk) =>
              \/ b < firstFreeBlock_
              \/ /\ addr \div 8 = firstFreeBlock_
                 /\ b < firstFreeBlock_ + size \div 8 \/ blk[b] = Bits
<1>1. CASE addr \div 8 # firstFreeBlock_
  BY <1>1 DEF NextFirstFree
<1>2. CASE addr \div 8 = firstFreeBlock_
  <2> DEFINE T == {numBlocks_} \cup
                  {b \in Blocks : b >= firstFreeBlock_ + size \div 8 /\ blk[b] # Bits}
  <2>1. T \subseteq 0 .. numBlocks_ /\ T # {}
    BY Memory DEF Blocks
  <2>2. T \subseteq Nat
    BY <2>1
  <2>3. \A b \in Blocks : b >= firstFreeBlock_ + size \div 8 /\ blk[b] # Bits => b \in T
    OBVIOUS
  <2>4. NextFirstFree(addr, size, blk) = Min(T)
    BY <1>2 DEF NextFirstFree
  <2> HIDE DEF T
  <2>5. PICK m \in 0 .. numBlocks_ : m = Min(T) /\ \A y \in T : m <= y
    BY <2>1, <2>2, MinIs
  <2>6. ASSUME NEW b \in Blocks, b < m
        PROVE  b < firstFreeBlock_ + size \div 8 \/ blk[b] = Bits
    <3>1. b \in Nat /\ size \div 8 \in Nat
      BY Eighths DEF Blocks
    <3>2. ~(m <= b)
      BY <2>6, <3>1
    <3>3. b \notin T
      BY <2>5, <3>2
    <3>4. b < firstFreeBlock_ + size \div 8 \/ b >= firstFreeBlock_ + size \div 8
      BY <3>1
    <3> QED BY <2>3, <3>3, <3>4
  <2> QED BY <1>2, <2>4, <2>5, <2>6
<1> QED BY <1>1, <1>2

\* Where an allocation ends up: a block that takes it, or nowhere.
LEMMA FirstBlockEnds ==
  ASSUME BlocksType, NEW first, NEW size \in Nat, first \in Nat
  PROVE  \/ FirstBlock(first, size) = numBlocks_
         \/ FirstBlock(first, size) \in Blocks /\ Fits(FirstBlock(first, size), size)
<1>1. CASE first < numBlocks_
  <2>1. first \in 0 .. numBlocks_
    BY <1>1, Memory
  <2> QED BY <1>1, <2>1, FirstBlockIs, SearchEnds
<1>2. CASE ~(first < numBlocks_)
  BY <1>2, FirstBlockIs
<1> QED BY <1>1, <1>2

LEMMA StartBlockIs ==
  ASSUME TypeOK, NEW highestAddr \in BOOLEAN, NEW alignBlock \in BOOLEAN
  PROVE  StartBlock(highestAddr, alignBlock) \in Nat
<1> DEFINE start == IF highestAddr THEN lastUsedBlock_ ELSE firstFreeBlock_
           T == {numBlocks_} \cup {b \in Blocks : b >= start /\ blocks_[b] = {}}
<1>1. start \in Nat
  BY DEF TypeOK
<1>2. T \subseteq Nat /\ T # {}
  BY Memory DEF Blocks
<1>3. Min(T) \in Nat
  BY <1>2, MinIs
<1>4. StartBlock(highestAddr, alignBlock) = IF ~alignBlock THEN start ELSE Min(T)
  BY DEF StartBlock
<1> QED BY <1>1, <1>3, <1>4
LEMMA AllocationKeeps ==
  ASSUME AllocatorInv, NEW size \in Sizes,
         NEW highestAddr \in BOOLEAN, NEW alignBlock \in BOOLEAN,
         Allocate(size, highestAddr, alignBlock)
  PROVE  AllocatorInv'
<1>1. /\ BlocksType /\ firstFreeBlock_ \in 0 .. numBlocks_ /\ lastUsedBlock_ \in Nat
      /\ \A a \in live : a.addr \in Nat /\ a.size \in Sizes /\ a.addr + a.size <= 8 * numBlocks_
      /\ Apart /\ Owned /\ HintHolds /\ LastUsedCovers
  BY DEF AllocatorInv, TypeOK
<1>2. /\ size \in Nat /\ size > 0 /\ numBlocks_ \in Nat /\ numBlocks_ > 0
      /\ WordValues \in Nat /\ 8 * numBlocks_ + size < WordValues
  BY Memory, AllocatorAssumption DEF AllocatorAssumption
<1> DEFINE i == FirstBlock(StartBlock(highestAddr, alignBlock), size)
           addr == AddrIn(i)
<1>3. /\ blocks_' = IF i = numBlocks_ THEN blocks_ ELSE Marked(i, size)
      /\ firstFreeBlock_' = NextFirstFree(addr, size, blocks_')
      /\ lastUsedBlock_' = NextLastUsed(addr, size)
      /\ live' = IF i = numBlocks_ THEN live
                   ELSE live \cup {[addr |-> addr, size |-> size]}
  BY DEF Allocate
<1>4. i = numBlocks_ \/ (i \in Blocks /\ Fits(i, size))
  <2>1. StartBlock(highestAddr, alignBlock) \in Nat
    BY <1>1, StartBlockIs DEF AllocatorInv
  <2> QED BY <1>1, <1>2, <2>1, FirstBlockEnds
<1> HIDE DEF i
<1>5. addr \in Nat
  <2>1. CASE i = numBlocks_
    BY <1>2, <2>1 DEF AddrIn, Invalid
  <2>2. CASE i \in Blocks
    BY <1>1, <2>2, AddressOf
  <2> QED BY <1>4, <2>1, <2>2
<1> HIDE DEF addr
<1>6. /\ firstFreeBlock_' \in 0 .. numBlocks_
      /\ \A b \in Blocks : b < firstFreeBlock_' =>
           \/ b < firstFreeBlock_
           \/ /\ addr \div 8 = firstFreeBlock_
              /\ b < firstFreeBlock_ + size \div 8 \/ blocks_'[b] = Bits
  BY <1>1, <1>2, <1>3, <1>5, NextFirstFreeIs, Zenon
<1> DEFINE lastAllocBlock == ((addr + size - 1) % WordValues) \div 8
<1>7. /\ lastUsedBlock_' \in Nat
      /\ lastUsedBlock_' >= lastUsedBlock_ /\ lastUsedBlock_' >= lastAllocBlock
  <2>1. lastAllocBlock \in Nat
    <3>1. addr + size - 1 \in Nat
      BY <1>2, <1>5
    <3>2. (addr + size - 1) % WordValues \in Nat
      BY <1>2, <3>1
    <3> QED BY <3>2, Eighths
  <2>2. lastUsedBlock_' = IF lastAllocBlock > lastUsedBlock_ THEN lastAllocBlock
                          ELSE lastUsedBlock_
    BY <1>3 DEF NextLastUsed
  <2> HIDE DEF lastAllocBlock
  <2>3. PICK last \in Nat : last = lastUsedBlock_' /\ last >= lastUsedBlock_ /\ last >= lastAllocBlock
    BY <1>1, <2>1, <2>2
  <2> QED BY <2>3
\* No block takes it: the hints move, nothing else does.
<1>8. CASE i = numBlocks_
  <2>1. blocks_' = blocks_ /\ live' = live
    BY <1>3, <1>8
  <2>2. TypeOK'
    BY <1>1, <1>6, <1>7, <2>1 DEF TypeOK, BlocksType
  <2>3. Apart' /\ Owned'
    BY <1>1, <2>1 DEF Apart, Owned
  <2>4. HintHolds'
    <3>1. ASSUME NEW b \in Blocks, b < firstFreeBlock_'
          PROVE  7 \in blocks_[b]
      <4>1. CASE b < firstFreeBlock_
        BY <1>1, <4>1 DEF HintHolds
      <4>2. CASE addr \div 8 = firstFreeBlock_ /\ b < firstFreeBlock_ + size \div 8
                 /\ ~(b < firstFreeBlock_)
        <5>1. addr = WordValues - 1
          BY <1>8 DEF addr, AddrIn, Invalid
        <5>2. PICK q \in Nat, x \in 0 .. 7 : q = addr \div 8 /\ addr = 8 * q + x
          BY <1>5, Eighths
        <5>3. q = firstFreeBlock_ /\ b \in 0 .. numBlocks_ - 1
          BY <4>2, <5>2 DEF Blocks
        <5> QED BY <1>1, <1>2, <4>2, <5>1, <5>2, <5>3
      <4>3. CASE blocks_'[b] = Bits
        BY <2>1, <4>3 DEF Bits
      <4>4. b < firstFreeBlock_ \/ ~(b < firstFreeBlock_)
        OBVIOUS
      <4> QED BY <1>6, <3>1, <4>1, <4>2, <4>3, <4>4
    <3> QED BY <2>1, <3>1 DEF HintHolds
  <2>5. LastUsedCovers'
    <3>1. ASSUME NEW b \in Blocks, blocks_[b] # {}
          PROVE  b <= lastUsedBlock_'
      <4>1. b <= lastUsedBlock_ /\ b \in Nat
        BY <1>1, <3>1 DEF LastUsedCovers, Blocks
      <4> QED BY <1>1, <1>7, <4>1
    <3> QED BY <2>1, <3>1 DEF LastUsedCovers
  <2> QED BY <2>2, <2>3, <2>4, <2>5 DEF AllocatorInv
<1>9. CASE i # numBlocks_
  <2>1. /\ blocks_' = Marked(i, size) /\ i \in Blocks /\ Fits(i, size)
        /\ live' = live \cup {[addr |-> addr, size |-> size]}
    BY <1>3, <1>4, <1>9
  <2>2. /\ addr + size <= 8 * numBlocks_
        /\ \A c \in Cells(addr, size) :
             c \in 0 .. 8 * numBlocks_ - 1 /\ ~UsedAt(blocks_, c)
    BY <1>1, <1>2, <2>1, AllocationIsFree DEF addr
  <2>3. /\ blocks_' \in [Blocks -> SUBSET Bits]
        /\ \A c \in 0 .. 8 * numBlocks_ - 1 :
             UsedAt(blocks_', c) <=> UsedAt(blocks_, c) \/ c \in Cells(addr, size)
    BY <1>1, <1>2, <2>1, AllocationIsMarked DEF addr
  <2> DEFINE new == [addr |-> addr, size |-> size]
  <2>4. new.addr = addr /\ new.size = size
    OBVIOUS
  <2> HIDE DEF new
  <2>5. live' = live \cup {new}
    BY <2>1 DEF new
  <2>6. TypeOK'
    <3>1. \A a \in live' : a.addr \in Nat /\ a.size \in Sizes /\ a.addr + a.size <= 8 * numBlocks_
      BY <1>1, <1>5, <2>2, <2>4, <2>5
    <3> QED BY <1>6, <1>7, <2>3, <3>1 DEF TypeOK, BlocksType
  <2>7. Owned'
    <3>1. ASSUME NEW c \in 0 .. 8 * numBlocks_ - 1
          PROVE  UsedAt(blocks_', c) <=> \E a \in live' : c \in Cells(a.addr, a.size)
      <4>1. UsedAt(blocks_, c) <=> \E a \in live : c \in Cells(a.addr, a.size)
        BY <1>1 DEF Owned
      <4> QED BY <2>3, <2>4, <2>5, <4>1
    <3> QED BY <3>1 DEF Owned
  <2>8. Apart'
    <3>1. ASSUME NEW a \in live, NEW c, c \in Cells(a.addr, a.size), c \in Cells(addr, size)
          PROVE  FALSE
      BY <1>1, <2>2, <3>1 DEF Owned
    <3>2. \A a \in live : Cells(a.addr, a.size) \cap Cells(addr, size) = {}
      BY <3>1
    <3> QED BY <1>1, <2>4, <2>5, <3>2 DEF Apart
  <2>9. HintHolds'
    <3>1. ASSUME NEW b \in Blocks, b < firstFreeBlock_'
          PROVE  7 \in blocks_'[b]
      <4>1. PICK c \in 0 .. 8 * numBlocks_ - 1 : c = 8 * b + 7 /\ c \div 8 = b /\ c % 8 = 7
        <5>1. 7 \in Bits
          BY DEF Bits
        <5> QED BY <5>1, CellAt
      <4>2. b \in Nat
        BY DEF Blocks
      <4>3. CASE b < firstFreeBlock_
        BY <1>1, <2>3, <4>1, <4>3 DEF HintHolds, UsedAt
      <4>4. CASE addr \div 8 = firstFreeBlock_ /\ b < firstFreeBlock_ + size \div 8
                 /\ ~(b < firstFreeBlock_)
        <5>1. PICK q \in Nat, x \in 0 .. 7 : q = addr \div 8 /\ addr = 8 * q + x
          BY <1>5, Eighths
        <5>2. PICK k \in Nat, y \in 0 .. 7 : k = size \div 8 /\ size = 8 * k + y
          BY <1>2, Eighths
        <5>3. q <= b /\ b < q + k
          BY <1>1, <4>2, <4>4, <5>1, <5>2
        <5>4. addr <= 8 * b + 7 /\ 8 * b + 7 < addr + size
          BY <4>2, <5>1, <5>2, <5>3
        <5>5. c \in Cells(addr, size)
          BY <1>5, <1>2, <4>1, <5>4 DEF Cells
        <5> QED BY <2>3, <4>1, <5>5 DEF UsedAt
      <4>5. CASE blocks_'[b] = Bits
        BY <4>5 DEF Bits
      <4>6. b < firstFreeBlock_ \/ ~(b < firstFreeBlock_)
        OBVIOUS
      <4> QED BY <1>6, <3>1, <4>3, <4>4, <4>5, <4>6
    <3> QED BY <3>1 DEF HintHolds
  <2>10. LastUsedCovers'
    <3>1. ASSUME NEW b \in Blocks, blocks_'[b] # {}
          PROVE  b <= lastUsedBlock_'
      <4>1. PICK x \in Bits : x \in blocks_'[b]
        BY <2>3, <3>1
      <4>2. PICK c \in 0 .. 8 * numBlocks_ - 1 : c = 8 * b + x /\ c \div 8 = b /\ c % 8 = x
        BY CellAt
      <4>3. UsedAt(blocks_', c) /\ b \in Nat /\ x \in 0 .. 7
        BY <4>1, <4>2 DEF UsedAt, Blocks, Bits
      <4>4. CASE UsedAt(blocks_, c)
        <5>1. b <= lastUsedBlock_
          BY <1>1, <4>2, <4>4 DEF UsedAt, LastUsedCovers
        <5> QED BY <1>1, <1>7, <4>3, <5>1
      <4>5. CASE c \in Cells(addr, size)
        <5>1. PICK e \in Nat : e = addr + size - 1 /\ e < WordValues /\ c <= e
          BY <1>2, <1>5, <2>2, <4>5 DEF Cells
        <5>2. PICK q \in Nat, y \in 0 .. 7 : q = e \div 8 /\ e = 8 * q + y
          BY Eighths
        <5>3. lastAllocBlock = q
          <6>1. e % WordValues = e
            BY <1>2, <5>1
          <6> QED BY <5>1, <5>2, <6>1
        <5> HIDE DEF lastAllocBlock
        <5>4. b <= q
          BY <4>2, <4>3, <5>1, <5>2
        <5>5. PICK last \in Nat : last = lastUsedBlock_' /\ last >= lastAllocBlock
          BY <1>7
        <5>6. b <= last
          BY <4>3, <5>3, <5>4, <5>5
        <5> QED BY <5>5, <5>6
      <4> QED BY <2>3, <4>3, <4>4, <4>5
    <3> QED BY <3>1 DEF LastUsedCovers
  <2> QED BY <2>6, <2>7, <2>8, <2>9, <2>10 DEF AllocatorInv
<1> QED BY <1>8, <1>9
LEMMA ReleaseKeeps ==
  ASSUME AllocatorInv, NEW a \in live, Release(a)
  PROVE  AllocatorInv'
<1>1. /\ BlocksType /\ firstFreeBlock_ \in 0 .. numBlocks_ /\ lastUsedBlock_ \in Nat
      /\ \A e \in live : e.addr \in Nat /\ e.size \in Sizes /\ e.addr + e.size <= 8 * numBlocks_
      /\ Apart /\ Owned /\ HintHolds /\ LastUsedCovers
  BY DEF AllocatorInv, TypeOK
<1>2. a.addr \in Nat /\ a.size \in Nat /\ a.size > 0 /\ a.addr + a.size <= 8 * numBlocks_
      /\ numBlocks_ \in Nat
  BY <1>1, Memory
<1>3. /\ blocks_' = Cleared(a.addr, a.size)
      /\ firstFreeBlock_' = Smaller(firstFreeBlock_, a.addr \div 8)
      /\ lastUsedBlock_' \in LastUsedFrom(lastUsedBlock_, blocks_')
      /\ live' = live \ {a}
  BY DEF Release
<1>4. /\ blocks_' \in [Blocks -> SUBSET Bits]
      /\ \A b \in Blocks : blocks_'[b] \subseteq blocks_[b]
      /\ \A b \in Blocks : b < a.addr \div 8 => blocks_'[b] = blocks_[b]
      /\ \A c \in 0 .. 8 * numBlocks_ - 1 :
           UsedAt(blocks_', c) <=> UsedAt(blocks_, c) /\ c \notin Cells(a.addr, a.size)
  BY <1>1, <1>2, <1>3, ReleaseIsCleared
<1>5. PICK hint \in 0 .. numBlocks_ :
        /\ hint = firstFreeBlock_' /\ hint <= firstFreeBlock_ /\ hint <= a.addr \div 8
  <2>1. a.addr \div 8 \in Nat
    BY <1>2, Eighths
  <2> QED BY <1>1, <1>2, <1>3, <2>1 DEF Smaller
\* The loop stops at the last block in use, or beyond the array.
<1>6. /\ lastUsedBlock_' \in Nat
      /\ \A b \in Blocks : blocks_'[b] # {} => b <= lastUsedBlock_'
  <2> DEFINE T == {0} \cup {b \in Blocks : b <= lastUsedBlock_ /\ blocks_'[b] # {}}
  <2>1. T \subseteq 0 .. numBlocks_ /\ T # {}
    BY <1>2, Memory DEF Blocks
  <2>2. PICK m \in 0 .. numBlocks_ : m = Max(T) /\ \A y \in T : y <= m
    BY <1>2, <2>1, MaxIs
  <2>3. LastUsedFrom(lastUsedBlock_, blocks_') = (numBlocks_ .. lastUsedBlock_) \cup {Max(T)}
    BY DEF LastUsedFrom
  <2>4. \A b \in Blocks : b <= lastUsedBlock_ /\ blocks_'[b] # {} => b \in T
    OBVIOUS
  <2> HIDE DEF T
  <2>5. PICK last : last = lastUsedBlock_' /\ (last \in numBlocks_ .. lastUsedBlock_ \/ last = m)
    BY <1>3, <2>2, <2>3
  <2>6. last \in Nat
    BY <1>1, <1>2, <2>5
  <2>7. ASSUME NEW b \in Blocks, blocks_'[b] # {}
        PROVE  b <= last
    <3>1. b \in Nat /\ b < numBlocks_
      BY <1>2 DEF Blocks
    <3>2. b <= lastUsedBlock_
      BY <1>1, <1>4, <2>7 DEF LastUsedCovers
    <3>3. CASE last = m
      BY <2>2, <2>4, <2>7, <3>2, <3>3
    <3>4. CASE last \in numBlocks_ .. lastUsedBlock_
      BY <1>1, <1>2, <3>1, <3>4
    <3> QED BY <2>5, <3>3, <3>4
  <2> QED BY <2>5, <2>6, <2>7
<1>7. TypeOK'
  <2>1. \A e \in live' : e.addr \in Nat /\ e.size \in Sizes /\ e.addr + e.size <= 8 * numBlocks_
    BY <1>1, <1>3
  <2> QED BY <1>4, <1>5, <1>6, <2>1 DEF TypeOK, BlocksType
<1>8. Apart'
  BY <1>1, <1>3 DEF Apart
<1>9. Owned'
  <2>1. ASSUME NEW c \in 0 .. 8 * numBlocks_ - 1
        PROVE  UsedAt(blocks_', c) <=> \E e \in live' : c \in Cells(e.addr, e.size)
    <3>1. UsedAt(blocks_, c) <=> \E e \in live : c \in Cells(e.addr, e.size)
      BY <1>1 DEF Owned
    <3>2. c \in Cells(a.addr, a.size) =>
            \A e \in live : e # a => c \notin Cells(e.addr, e.size)
      BY <1>1 DEF Apart
    <3> QED BY <1>3, <1>4, <3>1, <3>2
  <2> QED BY <2>1 DEF Owned
<1>10. HintHolds'
  <2>1. ASSUME NEW b \in Blocks, b < hint
        PROVE  7 \in blocks_'[b]
    <3>1. b \in Nat /\ a.addr \div 8 \in Nat
      BY <1>2, Eighths DEF Blocks
    <3>2. b < firstFreeBlock_ /\ b < a.addr \div 8
      BY <1>1, <1>2, <1>5, <2>1, <3>1
    <3> QED BY <1>1, <1>4, <3>2 DEF HintHolds
  <2> QED BY <1>5, <2>1 DEF HintHolds
<1>11. LastUsedCovers'
  BY <1>6 DEF LastUsedCovers
<1> QED BY <1>7, <1>8, <1>9, <1>10, <1>11 DEF AllocatorInv

LEMMA NextKeeps == AllocatorInv /\ [Next]_vars => AllocatorInv'
<1> SUFFICES ASSUME AllocatorInv, [Next]_vars PROVE AllocatorInv'
  OBVIOUS
<1>1. ASSUME NEW size \in Sizes, NEW highestAddr \in BOOLEAN, NEW alignBlock \in BOOLEAN,
             Allocate(size, highestAddr, alignBlock)
      PROVE  AllocatorInv'
  BY <1>1, AllocationKeeps
<1>2. ASSUME NEW a \in live, Release(a)
      PROVE  AllocatorInv'
  BY <1>2, ReleaseKeeps
<1>3. CASE UNCHANGED vars
  BY <1>3 DEF vars, AllocatorInv, TypeOK, BlocksType, Apart, Owned, HintHolds, LastUsedCovers
<1> QED BY <1>1, <1>2, <1>3 DEF Next

\* The allocator keeps its bitmap, its hints and its books together.
THEOREM AllocatorKept == Spec => []AllocatorInv
<1>1. Init => AllocatorInv
  BY StartsInvariant
<1>2. AllocatorInv /\ [Next]_vars => AllocatorInv'
  BY NextKeeps
<1> QED BY <1>1, <1>2, PTL DEF Spec

\* No two variables share a cell, and no cell is lost.
THEOREM BitmapKept == Spec => []BitmapIsExact
<1>1. AllocatorInv => BitmapIsExact
  BY OwnedIsExact
<1> QED BY <1>1, AllocatorKept, PTL

\* An allocation for the highest address never starts below a block in use.
THEOREM LastUsedKept == Spec => []LastUsedCovers
<1>1. AllocatorInv => LastUsedCovers
  BY DEF AllocatorInv
<1> QED BY <1>1, AllocatorKept, PTL

\* Neither the hint nor a jump of the search passes over a place.
THEOREM FirstFitKept == Spec => []FirstFitMissesNothing
<1>1. AllocatorInv => FirstFitMissesNothing
  BY FirstFit DEF AllocatorInv, TypeOK, FirstFitMissesNothing
<1> QED BY <1>1, AllocatorKept, PTL
=============================================================================
