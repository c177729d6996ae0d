---------------------------- MODULE DebugService ----------------------------
(***************************************************************************)
(* What the calls of SystemControl promise the debugger: one call at a     *)
(* time, the words of a call are written or read one after the other at    *)
(* the addresses asked for and no others, the lines of the cores change as *)
(* asked, and when the call returns all of that has happened, the call     *)
(* reports success, and a read hands over the words in their order.  An    *)
(* address nobody answers to takes any word and reads as any word.         *)
(***************************************************************************)
EXTENDS Naturals, Sequences

CONSTANTS
  Calls,     \* the calls the debugger makes
  AnyWords,  \* what a word may be
  Blank      \* what the memory holds at first

NoCall  == [op |-> "none"]
CoreOps == {"enable", "select", "disable", "reset"}

VARIABLES
  call,    \* the call under way, or NoCall
  done,    \* its accesses so far
  words,   \* the words read so far, or what the last call handed over
  ok,      \* what the last call has reported
  mem,     \* the memory
  cores    \* the enable and reset lines: [en, reset_n]

vars == <<call, done, words, ok, mem, cores>>

Init == /\ call = NoCall /\ done = 0 /\ words = <<>> /\ ok = FALSE
        /\ cores = [en |-> {}, reset_n |-> {}]
        /\ mem = [a \in DOMAIN mem |-> Blank]

-----------------------------------------------------------------------------

Begin == /\ call = NoCall
         /\ call' \in Calls
         /\ done' = 0 /\ words' = <<>>
         /\ UNCHANGED <<ok, mem, cores>>

Here == call.addr + done

WriteWord == /\ call.op = "write" /\ done < Len(call.data)
             /\ mem' = IF Here \in DOMAIN mem THEN [mem EXCEPT ![Here] = call.data[done + 1]] ELSE mem
             /\ done' = done + 1
             /\ UNCHANGED <<call, words, ok, cores>>

ReadWord == /\ call.op = "read" /\ done < call.size
            /\ \E w \in IF Here \in DOMAIN mem THEN {mem[Here]} ELSE AnyWords : words' = Append(words, w)
            /\ done' = done + 1
            /\ UNCHANGED <<call, ok, mem, cores>>

\* The cores that run after the call; a core that is reset does not.
Enabled == CASE call.op = "enable" -> cores.en \cup call.mask
             [] call.op = "select" -> call.mask
             [] call.op \in {"disable", "reset"} -> cores.en \ call.mask

SetCores == /\ call.op \in CoreOps /\ done = 0
            /\ cores' = [en |-> Enabled,
                         reset_n |-> (0 .. 3) \ (IF call.op = "reset" THEN call.mask ELSE {})]
            /\ done' = 1
            /\ UNCHANGED <<call, words, ok, mem>>

Accesses == CASE call.op = "write"    -> Len(call.data)
              [] call.op = "read"     -> call.size
              [] call.op \in CoreOps -> 1
              [] call.op = "ping"     -> 0

Return == /\ call # NoCall /\ done = Accesses
          /\ call' = NoCall /\ ok' = TRUE
          /\ UNCHANGED <<done, words, mem, cores>>

Next == Begin \/ WriteWord \/ ReadWord \/ SetCores \/ Return

Spec == Init /\ [][Next]_vars

=============================================================================
