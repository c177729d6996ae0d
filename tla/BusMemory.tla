----------------------------- MODULE BusMemory -----------------------------
(***************************************************************************)
(* What the interconnect promises its masters: the slaves are one memory,  *)
(* the words of a command are read or written in the order of the burst,   *)
(* each exactly once, and the words of a burst are not interleaved with    *)
(* the accesses of another master to the same slave.  Commands of          *)
(* different masters run in parallel; a step is one clock edge, in which   *)
(* several masters may advance.                                            *)
(*                                                                         *)
(* txn[m] is the command master m executes, the number of words done, and  *)
(* the words read so far.  SlaveOf(m, a) is the slave master m reaches     *)
(* with address a, or NoSlave; DataOf(val, k) is word k of a write         *)
(* command, AdrOf(a, b, k) the address of word k of a burst.               *)
(***************************************************************************)
EXTENDS Naturals, Sequences

CONSTANTS Masters, Commands, NoSlave,
          SlaveOf(_, _), AdrOf(_, _, _), DataOf(_, _)

VARIABLES mem, txn

Words(t) == t.cmd.burst + 1
Slave(m) == SlaveOf(m, txn[m].cmd.adr)

\* The command has started at its slave and is not through.
InBurst(t) == t.busy /\ 0 < t.done /\ t.done < Words(t)

Fresh(cmd) == [busy |-> TRUE, cmd |-> cmd, done |-> 0, res |-> <<>>]

Init == \A m \in Masters : ~txn[m].busy

-----------------------------------------------------------------------------

\* All words are done, or no slave answers to the address.
Finished(m) == txn[m].done = Words(txn[m]) \/ Slave(m) = NoSlave

\* Master m issues a command, perhaps in the cycle in which it is told that
\* the previous one is complete.
Issue(m) ==
  /\ txn[m].busy => Finished(m)
  /\ \E cmd \in Commands : txn'[m] = Fresh(cmd)

\* Word txn[m].done of the command of m reaches the memory.
Accesses(m) == txn[m].busy /\ txn'[m].busy /\ txn'[m].done = txn[m].done + 1

Address(m) == AdrOf(txn[m].cmd.adr, txn[m].cmd.burst, txn[m].done)

Access(m) ==
  /\ Accesses(m)
  /\ txn[m].done < Words(txn[m])
  /\ Slave(m) # NoSlave
  /\ txn'[m].cmd = txn[m].cmd
  /\ txn'[m].res = IF txn[m].cmd.we THEN <<>>
                     ELSE Append(txn[m].res, mem[Address(m)])
  /\ \A n \in Masters \ {m} :
       InBurst(txn[n]) \/ Accesses(n) => Slave(n) # Slave(m)

\* The command of m is reported complete.
Complete(m) ==
  /\ txn[m].busy /\ Finished(m)
  /\ txn'[m] = [txn[m] EXCEPT !.busy = FALSE]

\* The memory changes by the writes of this step and by nothing else.
Writes(m, a) == Accesses(m) /\ txn[m].cmd.we /\ Address(m) = a

MemoryStep ==
  \A a \in DOMAIN mem :
    \/ \E m \in Masters : Writes(m, a) /\ mem'[a] = DataOf(txn[m].cmd.val, txn[m].done)
    \/ (\A m \in Masters : ~Writes(m, a)) /\ mem'[a] = mem[a]

Next ==
  /\ \A m \in Masters :
       txn'[m] = txn[m] \/ Issue(m) \/ Access(m) \/ Complete(m)
  /\ DOMAIN mem' = DOMAIN mem
  /\ MemoryStep

Spec == Init /\ [][Next]_<<mem, txn>>

=============================================================================
