----------------------------- MODULE SymbolMap ------------------------------
(***************************************************************************)
(* The symbol tables of the assembler (SymbolMap.cpp).  A map is its list  *)
(* of symbols, in the order they were made, and the code address where its *)
(* scope begins; a reference is an index from 0.  The hash chains are seen *)
(* as what they compute: the symbol of a name.  A temporary and a symbol   *)
(* taken over from another map are in no chain and have no name here.      *)
(***************************************************************************)
EXTENDS Integers, Sequences

NoRef  == 65535     \* InvalidLink, NoRef
NoType == ""        \* a struct type is known by its name
Never  == -1        \* lastAccess_ of a symbol that is not to be released

BlankSymbol ==
    [name |-> "", flagAllocated |-> FALSE, flagConst |-> FALSE, flagIsArray |-> FALSE,
     flagStayAllocated |-> FALSE, flagsAllocateHighest |-> FALSE, flagIsStructRef |-> FALSE,
     loopIndexScope |-> 0, allocatedSize |-> 0, allocatedAddr |-> 0, lastAccess |-> 0,
     constValue |-> 0, structTypeId |-> NoType]

NewMap(startAddr) == [symbols |-> <<>>, startAddr |-> startAddr]

FindSymbol(m, name) ==
    LET found == {r \in 0 .. Len(m.symbols) - 1 : m.symbols[r + 1].name = name}
    IN  IF found = {} THEN NoRef ELSE CHOOSE r \in found : \A q \in found : q <= r

\* A size above 0 makes an array.
InsertSymbol(m, sym, size) ==
    [m EXCEPT !.symbols = Append(@, [sym EXCEPT !.flagIsArray = size > 0,
                                                !.allocatedSize = IF size > 0 THEN size ELSE 1])]

CreateSymbol(m, name, size) == InsertSymbol(m, [BlankSymbol EXCEPT !.name = name], size)

CreateSymbolNoToken(m, size, allocateHighest) ==
    InsertSymbol(m, [BlankSymbol EXCEPT !.flagsAllocateHighest = allocateHighest], size)

CreateConst(m, name, value) ==
    InsertSymbol(m, [BlankSymbol EXCEPT !.name = name, !.flagConst = TRUE, !.constValue = value], 0)

CreateReference(m, name, irsOffset) ==
    InsertSymbol(m, [BlankSymbol EXCEPT !.name = name, !.flagAllocated = TRUE,
                                        !.flagStayAllocated = TRUE, !.allocatedAddr = irsOffset], 0)

\* Arrays of the last size of a temporary storage; nothing else is resized.
ChangeArraySize(m, ref, size) ==
    [m EXCEPT !.symbols[ref + 1].flagIsArray = size # 0,
              !.symbols[ref + 1].allocatedSize = IF size = 0 THEN 1 ELSE size]

\* append: the symbols of another map from skip on, out of reach by name.
AppendMap(m, other, skip) ==
    [m EXCEPT !.symbols = @ \o [n \in 1 .. Len(other.symbols) - skip |->
                                    [other.symbols[n + skip] EXCEPT !.name = ""]]]
=============================================================================
