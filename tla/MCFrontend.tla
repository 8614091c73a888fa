----------------------------- MODULE MCFrontend -----------------------------
EXTENDS MCDiskDiscovery, Frontend

(***************************************************************************)
(* Programs: families around each place the operators look at.             *)
(***************************************************************************)
MCVariables == {"a", "b", "c", "i", "n", "p", "q", "v", "x", "y"}
MCFields == {"f", "g"}

Start(over) ==
    [z \in MCVariables \cup MCFields |-> IF z \in DOMAIN over THEN over[z] ELSE 0]
Starts(zs, values) == {Start(over) : over \in [zs -> values]}

a == Ident("a")
b == Ident("b")
i == Ident("i")
n == Ident("n")
p == Ident("p")
q == Ident("q")
v == Ident("v")
x == Ident("x")
f == Sel(Ident("s"), "f")
g == Sel(Ident("s"), "g")
int == Ident("int")
next == Call(Ident("next"), <<>>)
Record(e) == ExprStmt(Call(Ident("record"), <<e>>))
Do(name) == ExprStmt(Call(Ident(name), <<>>))
Set1(e, value) == Assign("=", <<e>>, <<value>>)
When(cond, body) == If(Absent, cond, Block(body), Absent)

Local == [exported |-> {}, linked |-> {}, complete |-> TRUE]
Program(funcs, starts, enabled) ==
    [tree |-> Node("File", "", funcs), pkg |-> Local, starts |-> starts,
     enabled |-> enabled]
Entry(results, body) == Func("entry", <<>>, results, body)
Alone(body, starts, enabled) == Program(<<Entry(<<>>, body)>>, starts, enabled)

(* A guard, what it returns, and what comes before the comparison.         *)
Guarded ==
    {Program(<<Entry(<<int>>,
                 <<If(Absent, guard, Block(before \o <<Returns(<<cmp>>)>>), Absent),
                   Returns(<<Lit(2)>>)>>)>>,
             Starts({"a", "b", "f"}, {0, 1}), {"boundary"}) :
       guard \in {Bin("!=", l, r) : l \in {a, f, next}, r \in {b, next}}
                 \cup {Bin("==", a, b), Paren(Bin("!=", a, b)),
                       Bin("||", Bin("!=", a, b), Bin("!=", f, b))},
       cmp \in {Bin(op, l, r) : op \in {"<", ">="}, l \in {a, f}, r \in {b, next}}
               \cup {Bin("<=", b, a), Bin(">", Bin("+", a, Lit(0)), b)},
       before \in {<<>>, <<Set1(b, a)>>}}

(* A flag, the statement after it, and a look at it.                       *)
Values == {p, Unary("!", v), Bin("||", v, p), next}
Overwrites ==
    {Set1(v, e) : e \in Values}
    \cup {If(Absent, cond, Block(<<Set1(v, e)>>), else) :
            cond \in {p, v}, e \in {p, Bin("||", v, p)},
            else \in {Absent, Block(<<Set1(v, q)>>), Block(<<Record(v), Set1(v, q)>>),
                      If(Absent, q, Block(<<Set1(v, q)>>), Absent)}}
DeadStores ==
    {Alone(<<Assign(":=", <<v>>, <<Ident(lit)>>)>> \o between \o <<over, Record(v)>>,
           Starts({"p", "q"}, {0, 1}), {"boolean"}) :
       lit \in {"true", "false"}, over \in Overwrites, between \in {<<>>, <<Record(v)>>}}

(* A function with one or two results, and who takes them.                 *)
Uses == {ExprStmt(Call(Ident("h"), <<>>)), Set1(Ident("_"), Call(Ident("h"), <<>>)),
         Set1(v, Call(Ident("h"), <<>>)), Record(Call(Ident("h"), <<>>))}
Pairs == {Assign("=", <<l, r>>, <<Call(Ident("h"), <<>>)>>) :
            l \in {Ident("_"), v}, r \in {Ident("_"), x}}
Discarded ==
    {[Program(<<Func("h", <<>>, [k \in DOMAIN es |-> int],
                     <<Record(Lit(1)), Returns(es)>>),
                Entry(<<>>, <<u, w, Record(v), Record(x)>>)>>,
              Starts({"n"}, {0, 1}), {"returnvalue"})
        EXCEPT !.pkg = [exported |-> e, linked |-> l, complete |-> c]] :
       es \in {<<Bin("+", n, Lit(1))>>, <<Bin("&^", Lit(3), Bin("|", n, Lit(2)))>>,
               <<next>>}, u \in Uses, w \in Uses,
       e \in SUBSET {"h"}, l \in SUBSET {"h"}, c \in BOOLEAN}
    \cup {Program(<<Func("h", <<>>, <<int, int>>, <<Returns(<<Bin("+", n, Lit(1)), n>>)>>),
                    Entry(<<>>, <<u, w, Record(v), Record(x)>>)>>,
                  Starts({"n"}, {0, 1}), {"returnvalue"}) : u \in Pairs, w \in Pairs}

(* Loops: a header and one or two statements.                              *)
Ending == {"condition", "connective", "statement", "bounds", "relational",
           "literal", "assignment"}
Zero == Assign(":=", <<i>>, <<Lit(0)>>)
Headers ==
    {<<Zero, Bin("<", i, n), IncDec("++", i)>>,
     <<Zero, Bin("<", i, n), Assign("+=", <<i>>, <<Lit(1)>>)>>,
     <<Zero, Bin("!=", i, n), IncDec("++", i)>>,
     <<Zero, Bin("&&", Bin("<", i, n), p), IncDec("++", i)>>,
     <<Absent, Bin("<", f, n), Absent>>,
     <<Absent, Bin("<", f, n), Assign("=", <<x>>, <<f>>)>>,
     <<Absent, Absent, Absent>>}
Steps ==
    {IncDec("++", f), IncDec("++", i), IncDec("++", g),
     Set1(f, Slice(f, Lit(0), Bin("+", f, n))),
     Set1(x, Bin("&&", p, q)),
     When(p, <<IncDec("++", g)>>),
     When(p, <<IncDec("--", i)>>),
     When(Bin("&&", p, q), <<IncDec("--", i)>>),
     When(Bin("||", p, Bin("<", n, f)), <<Branch("break")>>),
     When(Unary("!", p), <<Branch("continue")>>)}
Bodies == {<<s>> : s \in Steps} \cup {<<s, t>> : s \in Steps, t \in Steps}
LoopStarts == Starts({"n"}, {0, 2}) \cup {Start([n |-> 1, p |-> 1, q |-> k]) : k \in 0..1}
Loops ==
    {Alone(<<For(h[1], h[2], h[3], Block(body)), Record(x)>>, LoopStarts, Ending) :
       h \in Headers, body \in Bodies}
    \cup {Alone(<<RangeOver(Lit(times), Block(<<s, t>>))>>, LoopStarts, Ending) :
            times \in {-1, 2}, s \in Steps, t \in Steps}

(* Waiting, recursion and goto.                                            *)
Signals ==
    {Do("Done"), Go(Call(Ident("Done"), <<>>)), When(p, <<Do("Done")>>),
     Go(Call(FuncLit(<<IncDec("++", g), Do("Done")>>), <<>>)),
     If(Absent, Bin("&&", p, q), Block(<<>>), Block(<<Do("Done")>>)),
     When(Bin("||", p, q), <<Go(Call(Ident("Done"), <<>>))>>)}
Waits == {Alone(<<s, t, Do("Wait")>>, Starts({"p", "q"}, {0, 1}), Ending) :
            s \in Signals, t \in Signals \cup {When(p, <<IncDec("++", g)>>)}}
Again == {Do("h"), Branch("goto")}
Recursions ==
    {Program(<<Func("h", <<>>, <<>>,
                    <<When(cond, <<Returns(<<>>)>>), IncDec("--", f),
                      Record(Slice(g, f, n)), again>>),
               Entry(<<>>, <<When(p, <<Do("h")>>)>>)>>,
             {Start([p |-> 1, f |-> k]) : k \in 0..2}, Ending) :
       cond \in {Bin("<=", f, Lit(0)), Bin("||", Bin("<", f, Lit(1)), q)},
       again \in Again}

(* Names read once, twice or by what is deleted, and an import.            *)
Strings(args) == Call(Sel(Ident("strings"), "Join"), args)
Lines == {Set1(f, x), Set1(f, v), Record(x), Set1(g, Bin("+", x, v)),
          Set1(g, Strings(<<x>>)), ExprStmt(Strings(<<>>)), Set1(f, n),
          Set1(Paren(x), n), ExprStmt(Call(Sel(Ident("s"), "Add"), <<Lit(1)>>)),
          ExprStmt(Call(Sel(Ident("s"), "Add"), <<Str(1)>>)),
          ExprStmt(Call(Ident("visit"), <<FuncLit(<<Assign(":=", <<i>>, <<x>>), Record(i)>>)>>))}

Orphans ==
    {Program(<<Node("Import", "strings", <<Str(1)>>),
               Func("h", <<n>>, <<int>>,
                    <<Assign(":=", <<x>>, <<next>>), Assign(":=", <<v>>, <<Lit(1)>>)>>
                    \o body \o <<Returns(<<e>>)>>)>>,
             {}, {"statement", "returnvalue"}) :
       body \in {<<s>> : s \in Lines} \cup {<<s, t>> : s \in Lines, t \in Lines},
       e \in {x, Bin("+", x, v), n, Strings(<<v>>), Lit(1)}} 

(* Bounds that name a variable, a constant of the file, or both.           *)
Bounding ==
    {Program(<<Const("c", k), Entry(<<>>, <<Set1(f, Slice(f, low, high))>>)>>,
             {}, {"bounds"}) :
       k \in {0, 1}, low \in {Absent, Lit(0), n},
       high \in {Ident("c"), n, Lit(1), Bin("+", Ident("c"), n),
                 Bin("-", Ident("c"), Lit(1))}}

(* Conditions that several operators could change.                         *)
All == Ending \cup {"boundary", "boolean", "arithmetic", "errorreturn", "switch",
                    "loop", "returnvalue", "channel"}
Conditions ==
    {Program(<<Entry(<<Node("SliceType", "", <<>>)>>,
                 <<If(Absent, cond, Block(<<Returns(<<a>>)>>), Absent),
                   Switch(p, <<Case(<<a>>, <<Record(a)>>), Case(<<>>, <<Record(b)>>)>>),
                   Returns(<<Ident("nil")>>)>>)>>, {Start(<<>>)}, enabled) :
       cond \in {Bin("==", a, b), Bin("!=", a, Ident("nil")), Unary("!", p), Paren(p),
                 Ident("true"), Bin("&&", p, p), Bin("||", f, Paren(f)),
                 Bin("&&", next, next), Bin("&&", p, q),
                 Bin("||", Bin("==", a, b), Unary("!", p)), Bin("<", a, b),
                 Paren(Bin("!=", a, b)), Unary("!", Paren(Bin("==", a, b))),
                 Unary("!", Paren(Unary("!", Paren(Bin("!=", a, b))))),
                 Unary("!", Paren(Bin("&&", Bin("==", a, b), p)))},
       enabled \in {All, All \ {"boolean"}, All \ {"relational"}, All \ {"connective"},
                    All \ {"boolean", "relational"}}}

Channels ==
    {Program(<<Entry(<<>>,
                 <<Node("Select", "", [k \in 1..cases |->
                      Node("Comm", "", <<Absent, Block(<<Record(Lit(k))>>)>>)]),
                   ExprStmt(Call(Ident("make"), <<Node("ChanType", "", <<>>), Lit(k1)>>))>>)>>,
             {}, {"channel"}) : cases \in {1, 2}, k1 \in {0, 3}}

MCPrograms ==
    Guarded \cup DeadStores \cup Discarded \cup Loops \cup Waits \cup Recursions
    \cup Orphans \cup Bounding \cup Conditions \cup Channels

(***************************************************************************)
(* Modules: the mutant is in a, at the root of module "m"; b and c may     *)
(* depend on it, and it on b.  A file of c has the same name as a's.  Two  *)
(* tests have one name.                                                    *)
(***************************************************************************)
Key == <<"m", "x">>
Other == <<"m", "c", "x">>

Unit(pkg, name, kind, external, effects) ==
    {{}} \cup {{[pkg |-> pkg, name |-> name, kind |-> kind, external |-> external,
                reaches |-> e[1], notices |-> e[2]]} : e \in effects}

Blind == <<{}, FALSE>>
Reaching == <<{Key}, FALSE>>
Elsewhere == <<{Other}, FALSE>>
Noticing == <<{Key}, TRUE>>
NoticingUnseen == <<{}, TRUE>>    \* by a case expression, or an initializer

Suites ==
    {ta \cup tb \cup tx \cup tc :
       ta \in Unit("a", "TestA", "Test", FALSE, {Reaching, Noticing, NoticingUnseen}),
       tb \in Unit("b", "TestB", "Test", FALSE, {Blind}),
       tx \in Unit("b", "TestX", "Test", TRUE, {Elsewhere, Noticing}),
       tc \in Unit("c", "TestB", "Test", FALSE, {Elsewhere, Noticing})
               \cup Unit("c", "ExampleC", "Example", FALSE, {Noticing})}

Graph(ofA, ofB, ofC) ==
    [z \in {"a", "b", "c"} |-> CASE z = "a" -> ofA [] z = "b" -> ofB [] z = "c" -> ofC]
None == Graph({}, {}, {})

MCModules ==
    {m \in {[imports |-> imports, internal |-> None, external |-> Graph({}, ofX, {}),
             files |-> {[key |-> Key, pkg |-> "a", blocks |-> blocks],
                        [key |-> Other, pkg |-> "c", blocks |-> TRUE]},
             mutated |-> [pkg |-> "a", file |-> <<"x">>, key |-> Key],
             tests |-> tests] :
               imports \in {Graph(ofA, {}, ofC) : ofA \in {{}, {"b"}}, ofC \in {{}, {"a"}, {"b"}}}
                            \cup {Graph({}, {"a"}, ofC) : ofC \in {{}, {"b"}}},
               ofX \in {{}, {"a"}, {"c"}},
               blocks \in BOOLEAN,
               tests \in Suites} :
       \A t \in m.tests : t.notices => "a" \in Linked(m, t.pkg)}
=============================================================================
