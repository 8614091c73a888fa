------------------------------ MODULE GoSyntax ------------------------------
(***************************************************************************)
(* What internal/frontend takes from go/ast and from the language: source  *)
(* files as trees, places in them, and, as the reference the mutation      *)
(* operators are judged by, what running a program means.                  *)
(*                                                                         *)
(* A node has a kind, a text, a number and children, which stand at fixed  *)
(* places (an absent one is Absent), so that a place is a path of child    *)
(* positions.  Integers have no width.                                     *)
(***************************************************************************)
EXTENDS Integers, Sequences, FiniteSets, Bitwise

Node(k, v, c) == [k |-> k, v |-> v, n |-> 0, c |-> c]

Absent == Node("Absent", "", <<>>)
Empty == Node("Empty", "", <<>>)         \* what is left of a deleted statement
Ident(v) == Node("Ident", v, <<>>)
Lit(n) == [Node("Lit", "int", <<>>) EXCEPT !.n = n]
Str(n) == [Node("Lit", "string", <<>>) EXCEPT !.n = n]
Paren(x) == Node("Paren", "", <<x>>)
Unary(op, x) == Node("Unary", op, <<x>>)
Bin(op, x, y) == Node("Bin", op, <<x, y>>)
Sel(x, name) == Node("Sel", "", <<x, Ident(name)>>)
Call(f, args) == Node("Call", "", <<f>> \o args)
Slice(x, low, high) == Node("Slice", "", <<x, low, high>>)
List(xs) == Node("List", "", xs)

Assign(tok, lhs, rhs) == Node("Assign", tok, <<List(lhs), List(rhs)>>)
IncDec(tok, x) == Node("IncDec", tok, <<x>>)
ExprStmt(x) == Node("ExprStmt", "", <<x>>)
Block(list) == Node("Block", "", list)
If(init, cond, body, else) == Node("If", "", <<init, cond, body, else>>)
For(init, cond, post, body) == Node("For", "", <<init, cond, post, body>>)
RangeOver(x, body) == Node("Range", "", <<x, body>>)
Returns(xs) == Node("Return", "", xs)
Branch(tok) == Node("Branch", tok, <<>>)
Go(call) == Node("Go", "", <<call>>)
Switch(tag, cases) == Node("Switch", "", <<tag>> \o cases)
Case(xs, body) == Node("Case", "", <<List(xs), Block(body)>>)
Const(name, n) == Node("Const", name, <<Lit(n)>>)
Func(name, params, results, body) ==
    Node("Func", name, <<List(params), List(results), Block(body)>>)
FuncLit(body) == Node("FuncLit", "", <<List(<<>>), List(<<>>), Block(body)>>)

Init_ == 1
Cond_ == 2
Post_ == 3
Body_ == 4

-----------------------------------------------------------------------------
(* Places. *)

RECURSIVE At(_, _)
At(t, p) == IF p = <<>> THEN t ELSE At(t.c[Head(p)], Tail(p))

RECURSIVE Put(_, _, _)
Put(t, p, x) ==
    IF p = <<>> THEN x ELSE [t EXCEPT !.c[Head(p)] = Put(@, Tail(p), x)]

RECURSIVE Paths(_)
Paths(t) == {<<>>} \cup UNION {{<<i>> \o p : p \in Paths(t.c[i])} : i \in DOMAIN t.c}

Nodes(t) == {At(t, p) : p \in Paths(t)}
Names(t) == {x.v : x \in {y \in Nodes(t) : y.k = "Ident"}}
Kinds(t) == {x.k : x \in Nodes(t)}

Above(p) == {SubSeq(p, 1, i) : i \in 0..Len(p) - 1}
Parent(p) == SubSeq(p, 1, Len(p) - 1)
Position(p) == p[Len(p)]

(* The child of the node at q under which p lies.                          *)
Side(q, p) == p[Len(q) + 1]

RECURSIVE unwrapParen(_)
unwrapParen(x) == IF x.k = "Paren" THEN unwrapParen(x.c[1]) ELSE x

(* Two programs that differ in parentheses, in a double negation, in a     *)
(* negated equality or in a connective of a read with itself are one.      *)
RECURSIVE Normal(_)
Normal(t) ==
    LET u == [t EXCEPT !.c = [i \in DOMAIN t.c |-> Normal(t.c[i])]]
        x == u.c[1]
    IN  IF u.k = "Paren" THEN x
        ELSE IF u.k = "Unary" /\ u.v = "!" /\ x.k = "Unary" /\ x.v = "!" THEN x.c[1]
        ELSE IF u.k = "Unary" /\ u.v = "!" /\ x.k = "Bin" /\ x.v \in {"==", "!="}
             THEN [x EXCEPT !.v = IF x.v = "==" THEN "!=" ELSE "=="]
        ELSE IF u.k = "Bin" /\ u.v \in {"&&", "||"} /\ x = u.c[2] /\ "Call" \notin Kinds(x)
             THEN x
        ELSE u

-----------------------------------------------------------------------------
(* Running a program.  A run has the values of its names, what it did that *)
(* others can see, the values last returned, how the statement before      *)
(* ended, and how many turns and calls it may still take.  Truth is 1.     *)
(* Bits are taken of numbers that are not negative.                        *)

CONSTANTS
    Variables,       \* names of locals
    Fields           \* names of fields, which outlive a call

Truth(b) == IF b THEN 1 ELSE 0

Arith(op, x, y) ==
    LET both == x & y IN
    CASE op = "+" -> x + y
      [] op = "-" -> x - y
      [] op = "*" -> x * y
      [] op = "/" -> IF y = 0 THEN 0 ELSE x \div y
      [] op = "&" -> both
      [] op = "|" -> x + y - both
      [] op = "^" -> x + y - 2 * both
      [] op = "&^" -> x - both
      [] op = "<" -> Truth(x < y)
      [] op = "<=" -> Truth(x <= y)
      [] op = ">" -> Truth(x > y)
      [] op = ">=" -> Truth(x >= y)
      [] op = "==" -> Truth(x = y)
      [] op = "!=" -> Truth(x # y)

FuncNamed(s, name) == CHOOSE f \in s.funcs : f.v = name
IsFunc(s, name) == \E f \in s.funcs : f.v = name
Result(s) == IF s.ret = <<>> THEN 0 ELSE s.ret[1]
FieldOf(x) == x.c[2].v

RECURSIVE Eval(_, _), EvalAll(_, _), Exec(_, _), ExecAll(_, _), Loop(_, _),
          Turns(_, _, _), Apply(_, _, _), Clauses(_, _, _)

(* The value of an expression, left in "val", with its effects.            *)
Eval(e, s) ==
    LET a == Eval(e.c[1], s)
        b == Eval(e.c[2], a)
    IN
    IF s.out # "next" THEN s ELSE
    CASE e.k = "Ident" ->
           [s EXCEPT !.val = IF e.v \in Variables THEN s.env[e.v]
                             ELSE Truth(e.v = "true")]
      [] e.k = "Lit" -> [s EXCEPT !.val = e.n]
      [] e.k = "Paren" -> a
      [] e.k = "Unary" ->
           [a EXCEPT !.val = CASE e.v = "!" -> 1 - @ [] e.v = "+" -> @
                               [] e.v = "^" -> -1 - @ [] OTHER -> 0 - @]
      [] e.k = "Bin" /\ e.v = "&&" -> IF a.val = 0 THEN a ELSE b
      [] e.k = "Bin" /\ e.v = "||" -> IF a.val = 0 THEN b ELSE a
      [] e.k = "Bin" /\ e.v \notin {"&&", "||"} ->
           [b EXCEPT !.val = Arith(e.v, a.val, b.val)]
      [] e.k = "Sel" -> [s EXCEPT !.val = s.env[FieldOf(e)]]
      [] e.k = "Slice" ->
           LET c == Eval(e.c[3], b) IN [c EXCEPT !.val = c.val - b.val]
      [] e.k = "Absent" -> [s EXCEPT !.val = 0]
      [] e.k = "Call" ->
           LET args == EvalAll(Tail(e.c), [s EXCEPT !.vals = <<>>])
               f == e.c[1]
               body == Exec(f.c[3], args)
           IN  IF f.k = "FuncLit"
               THEN [body EXCEPT !.out = IF @ = "hang" THEN @ ELSE "next"]
               ELSE Apply(IF f.k = "Sel" THEN FieldOf(f) ELSE f.v, args.vals, args)

EvalAll(es, s) ==
    IF es = <<>> THEN s
    ELSE LET h == Eval(Head(es), s)
         IN  EvalAll(Tail(es), [h EXCEPT !.vals = Append(s.vals, h.val)])

(* A call: a function of the program, one of the few primitives that can   *)
(* stop it, a source of new values, or something others can see.           *)
Apply(f, args, s) ==
    IF s.out # "next" THEN s
    ELSE IF s.fuel = 0 THEN [s EXCEPT !.out = "hang"]
    ELSE IF IsFunc(s, f)
    THEN LET fn == FuncNamed(s, f)
             params == [i \in DOMAIN fn.c[1].c |-> fn.c[1].c[i].v]
             entry == [x \in DOMAIN s.env |->
                         IF \E i \in DOMAIN params : params[i] = x
                         THEN args[CHOOSE i \in DOMAIN params : params[i] = x]
                         ELSE s.env[x]]
             r == Exec(fn.c[3], [s EXCEPT !.env = entry, !.ret = <<>>, !.fuel = @ - 1])
             again == r.out = "goto"
             end == IF again THEN Apply(f, args, [r EXCEPT !.out = "next"])
                    ELSE IF r.out = "next" THEN [r EXCEPT !.ret = <<>>] ELSE r
         IN  [end EXCEPT
                 !.env = [x \in DOMAIN s.env |-> IF x \in Fields THEN end.env[x]
                                                 ELSE s.env[x]],
                 !.out = IF @ = "hang" THEN @ ELSE "next",
                 !.val = Result(end)]
    ELSE IF f = "Wait" /\ ~\E i \in DOMAIN s.trace : s.trace[i][1] = "Done"
    THEN [s EXCEPT !.out = "hang"]
    ELSE IF f = "next"
    THEN [s EXCEPT !.val = s.fresh, !.fresh = 1 - @]
    ELSE IF f = "len" THEN [s EXCEPT !.val = args[1]]
    ELSE [s EXCEPT !.trace = Append(@, <<f, args>>), !.val = 0]

Store(x, value, s) ==
    LET y == unwrapParen(x)
        name == IF y.k = "Sel" THEN FieldOf(y) ELSE y.v
    IN  IF name = "_" \/ s.out # "next" THEN s ELSE [s EXCEPT !.env[name] = value]

ExecAll(list, s) ==
    IF list = <<>> \/ s.out # "next" THEN s ELSE ExecAll(Tail(list), Exec(Head(list), s))

(* A loop with a condition: turns until it is false, a break or a return.  *)
Loop(loop, s) ==
    LET test == Eval(loop.c[Cond_], s)
        goes == loop.c[Cond_].k = "Absent" \/ test.val = 1
        body == Exec(loop.c[Body_], [test EXCEPT !.fuel = @ - 1])
        turn == [body EXCEPT !.out = IF @ = "continue" THEN "next" ELSE @]
    IN  IF test.out # "next" \/ ~goes THEN test
        ELSE IF s.fuel = 0 THEN [s EXCEPT !.out = "hang"]
        ELSE IF turn.out = "break" THEN [turn EXCEPT !.out = "next"]
        ELSE IF turn.out # "next" THEN turn
        ELSE Loop(loop, Exec(loop.c[Post_], turn))

(* A range: so many turns, or turns without end over an open channel.      *)
Turns(body, left, s) ==
    LET r == Exec(body, [s EXCEPT !.fuel = @ - 1])
    IN  IF left = 0 \/ s.out # "next" THEN s
        ELSE IF s.fuel = 0 THEN [s EXCEPT !.out = "hang"]
        ELSE IF r.out = "break" THEN [r EXCEPT !.out = "next"]
        ELSE IF r.out \notin {"next", "continue"} THEN r
        ELSE Turns(body, left - 1, [r EXCEPT !.out = "next"])

Clauses(tag, cases, s) ==
    IF cases = <<>> THEN s
    ELSE IF Head(cases).k # "Empty"
            /\ \/ Head(cases).c[1].c = <<>>
               \/ \E i \in DOMAIN Head(cases).c[1].c :
                     Eval(Head(cases).c[1].c[i], s).val = tag
    THEN Exec(Head(cases).c[2], s)
    ELSE Clauses(tag, Tail(cases), s)

Exec(st, s) ==
    IF s.out # "next" THEN s ELSE
    CASE st.k \in {"Empty", "Absent"} -> s
      [] st.k = "Block" -> ExecAll(st.c, s)
      [] st.k = "ExprStmt" -> Eval(st.c[1], s)
      [] st.k = "Go" -> Eval(st.c[1], s)
      [] st.k = "Branch" -> [s EXCEPT !.out = st.v]
      [] st.k = "Return" ->
           LET r == EvalAll(st.c, [s EXCEPT !.vals = <<>>])
           IN  IF r.out # "next" THEN r ELSE [r EXCEPT !.out = "return", !.ret = r.vals]
      [] st.k = "If" ->
           LET c == Eval(st.c[Cond_], Exec(st.c[Init_], s))
           IN  Exec(IF c.val = 1 THEN st.c[3] ELSE st.c[4], c)
      [] st.k = "For" -> Loop(st, Exec(st.c[Init_], s))
      [] st.k = "Range" -> LET x == Eval(st.c[1], s) IN Turns(st.c[2], x.val, x)
      [] st.k = "Switch" -> LET x == Eval(st.c[1], s)
                                IN  Clauses(IF st.c[1].k = "Absent" THEN 1 ELSE x.val,
                                            Tail(st.c), x)
      [] st.k = "IncDec" ->
           LET x == Eval(st.c[1], s)
           IN  Store(st.c[1], IF st.v = "++" THEN x.val + 1 ELSE x.val - 1, x)
      [] st.k = "Assign" ->
           LET lhs == st.c[1].c
               x == Eval(lhs[1], s)
               y == Eval(st.c[2].c[1], s)
               results == IF Len(lhs) = 1 THEN <<y.val>> ELSE y.ret
           IN  IF st.v \in {"=", ":="}
               THEN LET one == Store(lhs[1], results[1], y)
                    IN  IF Len(lhs) = 1 THEN one ELSE Store(lhs[2], results[2], one)
               ELSE Store(lhs[1],
                          Arith(CASE st.v = "+=" -> "+" [] st.v = "-=" -> "-"
                                  [] st.v = "*=" -> "*" [] st.v = "/=" -> "/",
                                x.val, y.val), y)

(* A call of the function "entry" of a program, from given values.         *)
RunFrom(program, entry, env, fuel) ==
    Apply(entry, <<>>,
          [funcs |-> {program.c[i] : i \in DOMAIN program.c}, env |-> env,
           val |-> 0, vals |-> <<>>, ret |-> <<>>, trace |-> <<>>, fresh |-> 0,
           out |-> "next", fuel |-> fuel])

(* What others see of a run.                                               *)
Seen(s) == <<s.out, s.ret, s.trace, [x \in Fields |-> s.env[x]]>>
Ends(s) == s.out # "hang"
=============================================================================
