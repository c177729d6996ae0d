----------------------------- MODULE MCCompiler -----------------------------
(***************************************************************************)
(* Programs for Compiler: families, each a product of what may stand in    *)
(* the places of a shape.  A program declares its structs and functions,   *)
(* makes two variables and an array, does what its family is about, and    *)
(* writes the variables to external words.  Left out of the families are   *)
(* the shapes of the findings, and two increments of one address register  *)
(* in an expression, whose order the language leaves open.                 *)
(***************************************************************************)
EXTENDS Compiler

N(n) == <<"num", n>>
V(x) == <<"var", x>>
CellOf(x, k) == <<"cell", x, k>>
Field(x, f) == <<"field", x, f>>
M(tok) == <<"mem", tok>>
Ix(tok) == <<"index", tok>>
Neg(e) == <<"neg", e>>
Bin(op, a, b) == <<"bin", op, a, b>>
Plus(a, b) == Bin("+", a, b)
CallOf(f, es) == <<"call", f, es>>
Intr(f, es) == <<"intr", f, es>>
Set(x, e) == <<"set", V(x), e>>
Inc(x) == Set(x, Plus(V(x), N(1)))
Reg(a, e) == <<"reg", a, e>>
Cmp(op, a, b) == <<"cmp", op, a, b>>
And(c, d) == <<"and", c, d>>
Or(c, d) == <<"or", c, d>>
If(c, s, t) == <<"if", c, s, t>>
Loop(e, s) == <<"loop", e, s>>
WhileS(c, s) == <<"while", c, s>>
Fn(f, ps, s) == <<"function", f, ps, s>>
Return(e) == <<"return", e>>

Prologue == << Set("x", N(3)), Set("y", N(5)), <<"list", "arr", <<N(7), V("x"), N(9)>>>> >>
Epilogue == << Reg("a1", N(200)), <<"set", M("[a1++]"), V("x")>>, <<"set", M("[a1++]"), V("y")>> >>
IsDeclaration(s) == s[1] \in {"function", "struct"}
InProgram(s) ==
    SelectSeq(s, IsDeclaration) \o Prologue \o SelectSeq(s, LAMBDA t : ~IsDeclaration(t)) \o Epilogue
With(family, thresholds) == {<<InProgram(s), t>> : s \in family, t \in thresholds}

MCNumerals == <<>> @@ [t \in {ToString(k) : k \in 0 .. 9 \cup {200}} |->
                           CHOOSE k \in 0 .. 9 \cup {200} : ToString(k) = t]
MCWords == 200 .. 202

-----------------------------------------------------------------------------
(* Expressions.                                                            *)

Atoms == {V("x"), N(2), CellOf("arr", 1)}
\* x tells where a0 stands after the expression.
Assigned(e) == << Reg("a0", V("arr")), Set("y", e), Set("x", M("[a0]")) >>
Shapes(a, b, c) ==
    {Bin(o, a, Bin(p, b, c)) : o \in {"-", "*"}, p \in {"+", "/"}}
    \cup {Bin("-", Bin("-", a, b), c), Bin("*", Bin("-", a, b), c),
          Bin("*", Plus(a, b), Bin("-", c, V("y"))), Plus(Bin("*", a, b), Bin("*", b, c)),
          Bin("-", a, Bin("*", Plus(b, c), Bin("-", c, V("y"))))}
Expressions ==
    UNION {Shapes(a, b, c) : a \in {V("x"), Neg(V("y")), M("[a0++]")}, b \in Atoms, c \in {N(2), V("y")}}
    \cup {Bin(o, Plus(a, N(1)), M("[a0++]")) : o \in {"+", "-", "*", "/"}, a \in Atoms}
    \cup {Intr("int", <<Bin("/", a, N(2))>>) : a \in Atoms} \cup {Intr("log2", <<a>>) : a \in Atoms}
    \cup {Intr("shft", <<a, b>>) : a \in Atoms, b \in {N(1), V("x"), Neg(N(1))}}
    \cup {<<"size", "arr">>}
ExpressionFamily ==
    {Assigned(e) : e \in Expressions}
    \cup {<< <<"mac", a, b>>, <<"mac", V("x"), b>>, Set("y", Intr("macres", <<>>)) >> : a \in Atoms, b \in Atoms}
    \cup {<< <<"def", "K", 4>>, Set("y", Plus(V("K"), V("x"))), <<"array", "z", 3>>,
             <<"set", CellOf("z", 2), V("y")>>, Set("x", CellOf("z", 2)) >>}

-----------------------------------------------------------------------------
(* Conditions and loops.                                                   *)

Comparisons == {"<", "<=", ">", ">=", "==", "!="}
Branches(c) == << If(c, <<Set("y", N(1))>>, <<Set("x", N(2))>>) >>
Connected(a, b, c) ==
    LET p == Cmp("<", a, b)  q == Cmp(">", b, c)  r == Cmp("==", a, c)
    IN  {And(p, q), Or(p, q), And(Or(p, q), r), Or(r, And(p, q)), Or(And(p, r), And(q, r)),
         And(Or(p, Or(q, r)), Or(And(p, q), r))}
ConditionFamily ==
    {Branches(Cmp(op, a, V("x"))) : op \in Comparisons, a \in {N(2), N(3), N(4)}}
    \cup {Branches(Cmp(op, Plus(V("x"), N(2)), V("y"))) : op \in Comparisons}
    \cup {Branches(Cmp(op, V("y"), Plus(V("x"), N(1)))) : op \in Comparisons}
    \cup UNION {{Branches(d) : d \in Connected(a, V("x"), c)} : a \in {N(2), V("y")}, c \in Atoms}

Guarded(s) == << If(Cmp(">", V("x"), N(4)), <<s>>, <<>>) >>
Bodies == {<<Inc("x")>> \o e \o <<Inc("y")>> : e \in {<<>>, Guarded(<<"break">>), Guarded(<<"continue">>)}}
IndexBody == <<Set("y", Plus(V("y"), Ix("i"))), Inc("x")>>
LoopFamily ==
    {<<Loop(n, s)>> : n \in {N(1), N(3), Plus(V("y"), N(1))}, s \in Bodies \cup {IndexBody}}
    \cup {<<Loop(V("x"), s)>> : s \in {<<Inc("y")>>, Guarded(<<"break">>) \o <<Inc("y")>>}}
    \cup {<<WhileS(Cmp("<", V("x"), N(6)), s)>> : s \in Bodies}
    \cup {<<Loop(N(2), <<Loop(N(3), s), Inc("y")>>)>> : s \in Bodies \cup {IndexBody}}
    \cup {<<Loop(N(3), <<WhileS(Cmp("<", V("x"), Plus(V("y"), Ix("i"))), <<Inc("x")>>), Inc("y")>>)>>,
          <<Loop(N(2), <<Loop(N(2), <<Set("y", Plus(V("y"), Bin("*", Ix("i"), Ix("j"))))>>)>>)>>}
    \cup {<< <<"lock", <<Set("y", a), Inc("x")>>>> >> : a \in Atoms}

-----------------------------------------------------------------------------
(* Functions and structs.                                                  *)

P(n) == SubSeq(<< <<"p">>, <<"q">>, <<"r">> >>, 1, n)
Calls(es) ==
    LET f == CallOf("f", es)
    IN  {<<Set("y", f)>>, <<Set("y", Bin("-", V("y"), Bin("*", f, f)))>>,
         <<Loop(N(2), <<Set("y", f), Inc("x")>>)>>, Branches(Cmp("<", V("x"), f))}
Bodies1 ==
    {<<Return(Plus(V("p"), N(1)))>>, <<Set("p", Plus(V("p"), N(2))), Return(V("p"))>>,
     <<Set("t", Bin("*", V("p"), N(2))), Return(Bin("-", V("t"), V("p")))>>,
     <<If(Cmp("<", V("p"), N(4)), <<Return(N(1))>>, <<>>), Return(Plus(V("p"), V("p")))>>,
     <<Loop(N(3), <<If(Cmp(">", V("p"), N(6)), <<Return(V("p"))>>, <<>>), Inc("p")>>), Return(N(0))>>}
Bodies2 ==
    {<<Return(Bin("-", V("p"), V("q")))>>,
     <<If(Cmp("<", V("p"), V("q")), <<Set("p", V("q"))>>, <<>>), Return(Plus(V("p"), V("q")))>>}
Callers ==
    {<<Return(Plus(CallOf("f", <<V("p")>>), V("p")))>>,
     <<Set("u", CallOf("f", <<Plus(V("p"), N(1))>>)), Return(Bin("*", V("u"), N(2)))>>}
FunctionFamily ==
    UNION {{<<Fn("f", P(1), s)>> \o c : c \in Calls(<<a>>)} : s \in Bodies1, a \in {V("x"), Plus(V("y"), N(1))}}
    \cup UNION {{<<Fn("f", P(2), s)>> \o c : c \in Calls(<<N(4), b>>)} :
                    s \in Bodies2, b \in {V("y"), CallOf("f", <<V("x"), N(1)>>)}}
    \cup {<<Fn("f", P(3), <<Return(Plus(Bin("*", V("p"), V("q")), V("r")))>>)>> \o c :
              c \in Calls(<<V("x"), N(2), Plus(V("y"), N(1))>>)}
    \cup {<<Fn("f", <<>>, <<Return(N(4))>>)>> \o c : c \in Calls(<<>>)}
    \cup {<<Fn("f", P(1), s), Fn("g", P(1), t), Loop(N(2), <<Set("y", CallOf("g", <<V("y")>>))>>)>> :
              s \in Bodies1, t \in Callers}
    \cup {<<Fn("f", P(1), << <<"list", "loc", <<V("p"), N(5), N(6)>>>>, Reg("a0", V("loc")),
                             Return(Plus(CellOf("loc", 1), M("[a0]"))) >>)>> \o c : c \in Calls(<<V("x")>>)}
PointerFamily ==
    {<<Fn("f", P(1), s), Set("h", V("f")), Set("y", CallOf("h", <<V("x")>>))>> : s \in Bodies1}

Object == << <<"struct", "T", <<"u", "v">>>>, <<"new", "T", "o", <<N(4), V("x")>>>> >>
Pointer == Object \o << <<"ptr", "T", "w", V("o")>> >>
Put2(x, f, e) == <<"set", Field(x, f), e>>
Method(s) == Pointer \o <<Fn("f", << <<"T", "p">> >>, s), Set("y", CallOf("f", <<V("w")>>))>>
StructFamily ==
    {Object \o <<Put2("o", "v", Plus(Field("o", "u"), N(1))), Set("y", Plus(Field("o", "v"), Field("o", "u")))>>,
     Object \o <<Set("y", Plus(<<"size", "T">>, V("x")))>>,
     Pointer \o <<Set("y", Plus(Field("w", "v"), Field("w", "u")))>>,
     Pointer \o <<Put2("w", "v", Plus(Field("w", "u"), N(1))), Set("y", Field("o", "v"))>>,
     Pointer \o <<Put2("w", "u", N(8)), Set("y", Bin("*", Field("w", "u"), Field("o", "v")))>>,
     Pointer \o <<If(Cmp("<", Field("w", "u"), V("y")), <<Set("x", N(1))>>, <<>>)>>,
     Method(<<Return(Field("p", "v"))>>),
     Method(<<Put2("p", "u", N(9)), Return(Plus(Field("p", "u"), Field("p", "v")))>>)}

MCPrograms ==
    With(ExpressionFamily \cup ConditionFamily \cup LoopFamily \cup PointerFamily, {0})
    \cup With(FunctionFamily \cup StructFamily, {0, 100})
    \* With 18 the shorter ones of the functions are inlined.
    \cup With({s \in FunctionFamily : s[2][1] = "function"}, {18})
=============================================================================
