------------------------------- MODULE RTLang -------------------------------
(***************************************************************************)
(* What a program of the assembler's language means, independent of how it *)
(* is translated: syntax trees, the tokens a programmer writes for one,    *)
(* and an interpreter.  A tree is a tuple that begins with what it is.     *)
(*                                                                         *)
(*   expressions  num n | var x | cell x k | field x f | mem "[a0]" ...    *)
(*                index "i" ... | neg e | bin op l r | call f args         *)
(*                intr f args | size x                                     *)
(*   conditions   cmp op l r | and c d | or c d                            *)
(*   statements   set target e | reg "a0" e | if c s s | loop e s |        *)
(*                while c s | break | continue | return e | def x n |      *)
(*                array x n | list x es | struct t fs | new t x es |       *)
(*                ptr t x e | function f ps s | do call | mac e e |        *)
(*                lock s                                                   *)
(***************************************************************************)
EXTENDS SLArithUnit, SequencesExt

Comma(texts) == IF texts = <<>> THEN <<>>
                ELSE Head(texts) \o FlattenSeq([n \in 1 .. Len(texts) - 1 |-> <<",">> \o texts[n + 1]])
Bracketed(text) == <<"(">> \o text \o <<")">>

Additive == {"+", "-"}
IsBin(e, ops) == e[1] = "bin" /\ e[2] \in ops
AllOps == {"+", "-", "*", "/"}

RECURSIVE Text(_)
\* The text of an expression, with the brackets that its operators need.
Text(e) ==
    LET inBrackets(x, ops) == IF IsBin(x, ops) THEN Bracketed(Text(x)) ELSE Text(x)
        args(es) == Bracketed(Comma([n \in DOMAIN es |-> Text(es[n])]))
    IN  IF e[1] = "num"   THEN <<ToString(e[2])>>
        ELSE IF e[1] \in {"var", "mem", "index"} THEN <<e[2]>>
        ELSE IF e[1] = "cell" THEN <<e[2], "(", ToString(e[3]), ")">>
        ELSE IF e[1] = "field" THEN <<e[2], ".", e[3]>>
        ELSE IF e[1] = "neg" THEN <<"-">> \o inBrackets(e[2], AllOps)
        ELSE IF e[1] = "bin" /\ e[2] \in Additive THEN Text(e[3]) \o <<e[2]>> \o inBrackets(e[4], Additive)
        ELSE IF e[1] = "bin" THEN inBrackets(e[3], Additive) \o <<e[2]>> \o inBrackets(e[4], AllOps)
        ELSE IF e[1] \in {"call", "intr"} THEN <<e[2]>> \o args(e[3])
        ELSE <<"sizeof", "(", e[2], ")">>

RECURSIVE CondText(_)
CondText(c) ==
    LET part(d) == IF d[1] = "cmp" \/ d[1] = c[1] THEN CondText(d) ELSE Bracketed(CondText(d))
    IN  IF c[1] = "cmp" THEN Text(c[3]) \o <<c[2]>> \o Text(c[4])
        ELSE part(c[2]) \o <<c[1]>> \o (IF c[3][1] = "cmp" THEN CondText(c[3]) ELSE Bracketed(CondText(c[3])))

RECURSIVE StatementText(_)
ProgramText(ss) == FlattenSeq([n \in DOMAIN ss |-> StatementText(ss[n])])
StatementText(s) ==
    LET list(es) == <<"{">> \o Comma([n \in DOMAIN es |-> Text(es[n])]) \o <<"}">>
        names(ps) == Bracketed(Comma([n \in DOMAIN ps |-> ps[n]]))
    IN  CASE s[1] = "set"    -> Text(s[2]) \o <<"=">> \o Text(s[3]) \o <<";">>
          [] s[1] = "reg"    -> <<s[2], "=">> \o Text(s[3]) \o <<";">>
          [] s[1] = "if"     -> <<"if">> \o Bracketed(CondText(s[2])) \o ProgramText(s[3])
                                    \o (IF s[4] = <<>> THEN <<>> ELSE <<"else">> \o ProgramText(s[4])) \o <<"end">>
          [] s[1] = "loop"   -> <<"loop">> \o Bracketed(Text(s[2])) \o ProgramText(s[3]) \o <<"end">>
          [] s[1] = "while"  -> <<"while">> \o Bracketed(CondText(s[2])) \o ProgramText(s[3]) \o <<"end">>
          [] s[1] = "return" -> <<"return">> \o Text(s[2]) \o <<";">>
          [] s[1] \in {"def", "array"} -> <<s[1], s[2], ToString(s[3]), ";">>
          [] s[1] = "list"   -> <<s[2]>> \o list(s[3]) \o <<";">>
          [] s[1] = "struct" -> <<"struct", s[2], "{">> \o FlattenSeq([n \in DOMAIN s[3] |-> <<s[3][n], ";">>])
                                    \o <<"}", ";">>
          [] s[1] = "new"    -> <<s[2], s[3]>> \o list(s[4]) \o <<";">>
          [] s[1] = "ptr"    -> <<"ref", s[2], s[3], "=">> \o Text(s[4]) \o <<";">>
          [] s[1] = "function" -> <<"function", s[2]>> \o names(s[3]) \o ProgramText(s[4]) \o <<"end">>
          [] s[1] = "do"     -> Text(s[2]) \o <<";">>
          [] s[1] = "mac"    -> <<"mac">> \o Bracketed(Comma(<<Text(s[2]), Text(s[3])>>)) \o <<";">>
          [] s[1] = "lock"   -> <<"buslock", "{">> \o ProgramText(s[2]) \o <<"}">>
          [] OTHER           -> <<s[1], ";">>

-----------------------------------------------------------------------------
(* The interpreter.  val is the value of the expression evaluated last,    *)
(* sig is "go" or what ends the statements under way.  Arrays lie at        *)
(* addresses of their own, and so do functions.                            *)

FirstArray == 4000
FirstFunction == 6000

Start(external) ==
    [vars |-> <<>>, consts |-> <<>>, structs |-> <<>>, types |-> <<>>, functions |-> <<>>,
     mem |-> external, regs |-> [a0 |-> 0, a1 |-> 0], next |-> FirstArray,
     index |-> <<>>, acc |-> 0, val |-> 0, sig |-> "go"]

RegOf(tok) == IF tok \in {"[a0]", "[a0++]"} THEN "a0" ELSE "a1"
Advance(tok) == IF tok \in {"[a0++]", "[a1++]"} THEN 1 ELSE 0
FieldAt(env, x, f) ==
    LET fields == env.structs[env.types[x]]
    IN  env.vars[x] + (CHOOSE n \in DOMAIN fields : fields[n] = f) - 1
Operation == ("+" :> CMD_ADD) @@ ("-" :> CMD_SUB) @@ ("*" :> CMD_MUL) @@ ("/" :> CMD_DIV)
Depth == ("i" :> 1) @@ ("j" :> 2) @@ ("k" :> 3)

RECURSIVE Eval(_, _), EvalAll(_, _, _), Exec(_, _)
EvalAll(env, es, vals) ==
    IF es = <<>> THEN [env EXCEPT !.val = vals]
    ELSE LET v == Eval(env, Head(es)) IN EvalAll(v, Tail(es), Append(vals, v.val))

\* A call: the function sees its arguments and the constants.
Call(env, f, vals) ==
    LET fn == env.functions[f]
        bind(x) == vals[CHOOSE n \in DOMAIN fn.params : fn.params[n][Len(fn.params[n])] = x]
        names == {fn.params[n][Len(fn.params[n])] : n \in DOMAIN fn.params}
        in   == [env EXCEPT !.vars = <<>> @@ [x \in names |-> bind(x)], !.index = <<>>, !.val = 0,
                            !.types = [x \in names |-> (CHOOSE p \in Range(fn.params) : p[Len(p)] = x)[1]]]
        out  == Exec(in, fn.body)
    IN  [out EXCEPT !.vars = env.vars, !.types = env.types, !.index = env.index, !.sig = "go",
                    !.val = IF out.sig = "return" THEN @ ELSE 0]

Eval(env, e) ==
    LET give(v) == [env EXCEPT !.val = v]
        args == EvalAll(env, e[3], <<>>)
        l == Eval(env, e[3])
        r == Eval(l, e[4])
        target == IF e[2] \in DOMAIN env.functions THEN e[2]
                  ELSE CHOOSE f \in DOMAIN env.functions : env.functions[f].at = env.vars[e[2]]
    IN  IF e[1] = "num"   THEN give(e[2])
        ELSE IF e[1] = "var" THEN give(CASE e[2] \in DOMAIN env.vars -> env.vars[e[2]]
                                      [] e[2] \in DOMAIN env.functions -> env.functions[e[2]].at
                                      [] OTHER -> env.consts[e[2]])
        ELSE IF e[1] = "cell" THEN give(env.mem[env.vars[e[2]] + e[3]])
        ELSE IF e[1] = "field" THEN give(env.mem[FieldAt(env, e[2], e[3])])
        ELSE IF e[1] = "mem" THEN [give(env.mem[env.regs[RegOf(e[2])]])
                                   EXCEPT !.regs[RegOf(e[2])] = @ + Advance(e[2])]
        ELSE IF e[1] = "index" THEN give(env.index[Depth[e[2]]])
        ELSE IF e[1] = "neg" THEN LET v == Eval(env, e[2]) IN [v EXCEPT !.val = Negated(@)]
        ELSE IF e[1] = "bin" THEN [r EXCEPT !.val = Calc(Operation[e[2]], l.val, @)]
        ELSE IF e[1] = "call" THEN Call(args, target, args.val)
        ELSE IF e[1] = "intr" /\ e[2] = "log2" THEN [args EXCEPT !.val = Calc(CMD_LOG2, @[1], 0)]
        ELSE IF e[1] = "intr" /\ e[2] = "int" THEN [args EXCEPT !.val = Truncated(@[1])]
        ELSE IF e[1] = "intr" /\ e[2] = "shft" THEN [args EXCEPT !.val = Calc(CMD_SHFT, @[1], @[2])]
        ELSE IF e[1] = "intr" THEN [env EXCEPT !.val = env.acc, !.acc = 0]
        ELSE give(IF e[2] \in DOMAIN env.structs THEN Len(env.structs[e[2]])
                           ELSE env.consts["size " \o e[2]])

RECURSIVE Test(_, _)
\* A condition; the value is a truth value, and what is not needed is not evaluated.
Test(env, c) ==
    LET l == Eval(env, c[3])
        r == Eval(l, c[4])
        d == Test(env, c[2])
        holds == CASE c[2] = "<" -> l.val < r.val [] c[2] = "<=" -> l.val <= r.val [] c[2] = ">" -> l.val > r.val
                   [] c[2] = ">=" -> l.val >= r.val [] c[2] = "==" -> l.val = r.val [] OTHER -> l.val # r.val
    IN  IF c[1] = "cmp" THEN [r EXCEPT !.val = holds]
        ELSE IF d.val = (c[1] = "or") THEN d
        ELSE Test(d, c[3])

NewCells(env, x, vals) ==
    [env EXCEPT !.vars = (x :> env.next) @@ @, !.next = @ + 100,
                !.consts = ("size " \o x :> Len(vals)) @@ @,
                !.mem = @ @@ [a \in env.next .. env.next + Len(vals) - 1 |-> vals[a - env.next + 1]]]

RECURSIVE Rounds(_, _, _), While(_, _)
\* A loop runs at least once; the index of each loop counts its rounds.
Rounds(env, n, body) ==
    LET out  == Exec(env, body)
        done == [out EXCEPT !.sig = IF @ = "return" THEN @ ELSE "go", !.index = Front(@)]
        next == [out EXCEPT !.sig = "go", !.index[Len(env.index)] = @ + 1]
    IN  IF out.sig \in {"break", "return"} \/ Last(env.index) + 1 >= n THEN done ELSE Rounds(next, n, body)
While(env, s) ==
    LET t == Test(env, s[2])
        out == Exec(t, s[3])
    IN  IF ~t.val THEN [t EXCEPT !.index = Front(@)]
        ELSE IF out.sig \in {"break", "return"} THEN
                 [out EXCEPT !.sig = IF @ = "return" THEN @ ELSE "go", !.index = Front(@)]
        ELSE While([out EXCEPT !.sig = "go"], s)

Assign(env, target, v) ==
    LET r == RegOf(target[2])
    IN  CASE target[1] = "var"   -> [env EXCEPT !.vars = (target[2] :> v) @@ @]
          [] target[1] = "cell"  -> [env EXCEPT !.mem[env.vars[target[2]] + target[3]] = v]
          [] target[1] = "field" -> [env EXCEPT !.mem[FieldAt(env, target[2], target[3])] = v]
          [] OTHER -> [env EXCEPT !.mem = (env.regs[r] :> v) @@ @, !.regs[r] = @ + Advance(target[2])]

Do(env, s) ==
    LET v == Eval(env, IF s[1] = "ptr" THEN s[4] ELSE s[3])
        n == Eval(env, s[2])
        t == Test(env, s[2])
        pair == EvalAll(env, <<s[2], s[3]>>, <<>>)
    IN  CASE s[1] = "set"   -> Assign(v, s[2], v.val)
          [] s[1] = "reg"   -> [v EXCEPT !.regs[s[2]] = v.val]
          [] s[1] = "if"    -> Exec(t, IF t.val THEN s[3] ELSE s[4])
          [] s[1] = "loop"  -> Rounds([n EXCEPT !.index = Append(@, 0)], n.val, s[3])
          [] s[1] = "while" -> While([env EXCEPT !.index = Append(@, 0)], s)
          [] s[1] \in {"break", "continue"} -> [env EXCEPT !.sig = s[1]]
          [] s[1] = "return" -> [n EXCEPT !.sig = "return"]
          [] s[1] = "def"   -> [env EXCEPT !.consts = (s[2] :> s[3]) @@ @]
          [] s[1] = "array" -> NewCells(env, s[2], [k \in 1 .. s[3] |-> 0])
          [] s[1] = "list"  -> LET q == EvalAll(env, s[3], <<>>) IN NewCells(q, s[2], q.val)
          [] s[1] = "struct" -> [env EXCEPT !.structs = (s[2] :> s[3]) @@ @]
          [] s[1] = "new"   -> LET q == EvalAll(env, s[4], <<>>)
                               IN  [NewCells(q, s[3], q.val) EXCEPT !.types = (s[3] :> s[2]) @@ @]
          [] s[1] = "ptr"   -> [v EXCEPT !.vars = (s[3] :> v.val) @@ @, !.types = (s[3] :> s[2]) @@ @]
          [] s[1] = "function" ->
                 [env EXCEPT !.functions = (s[2] :> [params |-> s[3], body |-> s[4],
                                                     at |-> FirstFunction + Cardinality(DOMAIN @)]) @@ @]
          [] s[1] = "do"    -> n
          [] s[1] = "mac"   -> [pair EXCEPT !.acc = (@ + pair.val[1] * pair.val[2]) % Mod]
          [] OTHER          -> Exec(env, s[2])

Exec(env, ss) == IF ss = <<>> \/ env.sig # "go" THEN env ELSE Exec(Do(env, Head(ss)), Tail(ss))

\* The external words a program leaves behind.
Meaning(program, external) ==
    LET end == Exec(Start(external), program) IN [a \in DOMAIN external |-> end.mem[a]]
=============================================================================
