------------------------------ MODULE Compiler ------------------------------
(***************************************************************************)
(* A program through the assembler and the instruction set: the parser     *)
(* reads one statement of the program after the other (parseStatements),   *)
(* the storage pass gives every symbol its cells, and the machine of SLIsa *)
(* runs what was emitted, one instruction a step.  Meaning of RTLang says  *)
(* what should come out.                                                   *)
(***************************************************************************)
EXTENDS RTParser, RTLang

CONSTANTS Programs,       \* trees of programs, each with a threshold for inlining
          Words           \* external addresses the programs use

ASSUME ProgramsAssumption == Words \subseteq External

VARIABLES program, gen, machine, stage

vars == <<program, gen, machine, stage>>

InitWords == [a \in Words |-> (7 * a + 3) % 50]
NoMemory  == [a \in Local |-> 0]

Init ==
    /\ program \in Programs
    /\ gen = ParseBegin(ProgramText(program[1]), program[2])
    /\ machine = IsaReset(NoMemory, InitWords)
    /\ stage = "parse"

ReadStatement ==
    /\ stage = "parse" /\ StartsStatement(gen)
    /\ gen' = ParseStatement(gen)
    /\ UNCHANGED <<program, machine, stage>>

Allocation ==
    /\ stage = "parse" /\ ~StartsStatement(gen)
    /\ gen' = StorageAllocationPass(ParseEnd(gen), 0)
    /\ stage' = IF gen'.err THEN "refused" ELSE "run"
    /\ UNCHANGED <<program, machine>>

Instr == At(gen, machine.pc).i
Halted == machine.pc = Addr(gen)

\* A jump to itself does not go on.
MayGoOn == \/ stage = "parse"
           \/ /\ stage = "run" /\ machine.pc \in 0 .. Addr(gen) - 1
              /\ Defined(machine, Instr) /\ IsaStep(machine, Instr) # machine

Execute ==
    /\ stage = "run" /\ MayGoOn
    /\ machine' = IsaStep(machine, Instr)
    /\ UNCHANGED <<program, gen, stage>>

Next == ReadStatement \/ Allocation \/ Execute

\* The assembler and the processor go on while they can: weak fairness of Next,
\* written out with what enables it.
Fairness == []<>~MayGoOn \/ []<><<TRUE>>_vars

Spec == Init /\ [][Next]_vars /\ Fairness

-----------------------------------------------------------------------------
(* Properties.                                                             *)

\* The program is accepted, and when it ends the external words are what its text
\* means: expressions, conditions, loops, calls, inlining, storage and jumps all
\* have to be right for that.
RunsAsWritten ==
    /\ stage # "refused"
    /\ stage = "run" /\ Halted => machine.ext = Meaning(program[1], InitWords)

\* Every instruction that is reached is one the processor does as the instruction
\* set says: no jump inside a running hardware loop, no use of a word by the
\* instruction just behind its store, no address outside the memory; and one that the
\* pipelines are proved for.  (A constant is one fragment here, as large as it is.)
EmittedIsAllowed ==
    stage = "run" /\ ~Halted =>
        machine.pc < Addr(gen) /\ Allowed(machine, Instr) /\ (Instr[1] = "load" \/ Instr \in Instructions)

\* When the assembler is done no label, loop frame, scope, array or reference is
\* left open, and every jump stays in the program.
NothingIsPending ==
    stage = "run" =>
        /\ gen.labels = <<>> /\ gen.loops = <<>> /\ gen.outer = <<>> /\ gen.arrays = {}
        /\ \A n \in 0 .. Addr(gen) - 1 :
               /\ At(gen, n).ref \in {NoRef, RefLoad}
               /\ At(gen, n).i[1] = "goto" =>
                      At(gen, n).i[2] # 0 /\ n + At(gen, n).i[2] \in EntryVectorSize .. Addr(gen)

\* Every program of the runs ends: no jump and no return goes astray.
EveryProgramEnds == <>(stage = "run" /\ Halted)
=============================================================================
