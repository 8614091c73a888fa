------------------------- MODULE MutationOperators -------------------------
(***************************************************************************)
(* The mutants of a file: discoverFileEmit of internal/frontend/frontend.go*)
(* and the proof of discarded results in discarded.go.                     *)
(*                                                                         *)
(* The walk of the source visits the file in pre-order and fills maps of   *)
(* marked nodes before it reaches the nodes they mark.  Here a mark is     *)
(* a condition on the place of a node and on what stands above it.         *)
(***************************************************************************)
EXTENDS GoSyntax

CONSTANTS
    UnsafeCallNames,   \* calls whose loss hangs or ends the run
    LoggingCallNames,
    Numeric            \* the predeclared numeric types

-----------------------------------------------------------------------------
(* Shapes. *)

IsIdent(x, names) == x.k = "Ident" /\ x.v \in names
Connectives == {"&&", "||"}
IsConnective(x) == x.k = "Bin" /\ x.v \in Connectives

RECURSIVE isSideEffectFreeOperand(_), sameOperand(_, _), pureResultExpr(_)

isSideEffectFreeOperand(e) ==
    LET x == unwrapParen(e) IN
    \/ x.k \in {"Ident", "Lit"}
    \/ x.k = "Sel" /\ isSideEffectFreeOperand(x.c[1])
    \/ x.k = "Index" /\ isSideEffectFreeOperand(x.c[1]) /\ isSideEffectFreeOperand(x.c[2])
    \/ x.k = "Star" /\ isSideEffectFreeOperand(x.c[1])

sameOperand(a, b) ==
    LET x == unwrapParen(a) y == unwrapParen(b) IN
    /\ x.k = y.k /\ x.v = y.v /\ x.n = y.n
    /\ x.k \in {"Ident", "Lit", "Sel", "Index", "Star"}
    /\ \A i \in DOMAIN x.c : sameOperand(x.c[i], y.c[i])

pureResultExpr(e) ==
    \/ e.k \in {"Ident", "Lit"}
    \/ e.k = "Paren" /\ pureResultExpr(e.c[1])
    \/ e.k = "Unary" /\ e.v \in {"+", "-", "!", "^"} /\ pureResultExpr(e.c[1])
    \/ /\ e.k = "Bin"
       /\ e.v \in {"+", "-", "*", "&", "|", "^", "&^", "<", "<=", ">", ">="} \cup Connectives
       /\ pureResultExpr(e.c[1]) /\ pureResultExpr(e.c[2])

CallName(call) == IF call.c[1].k = "Sel" THEN FieldOf(call.c[1]) ELSE call.c[1].v

touchesConcurrency(t) ==
    \E x \in Nodes(t) :
        \/ x.k \in {"Send", "Select", "Go"}
        \/ x.k = "Unary" /\ x.v = "<-"
        \/ x.k = "Call" /\ CallName(x) \in UnsafeCallNames

containsGoto(t) == \E x \in Nodes(t) : x.k = "Branch" /\ x.v = "goto"

selfRecursive(f) ==
    \E x \in Nodes(f.c[3]) : x.k = "Call" /\ x.c[1].k = "Ident" /\ x.c[1].v = f.v

loopHeaderNames(loop) == UNION {Names(loop.c[i]) : i \in {Init_, Cond_, Post_}}

-----------------------------------------------------------------------------
(* Marks. *)

Enclosing(t, p, kind) == {q \in Above(p) : At(t, q).k = kind}
InBody(t, p, kind, body) == {q \in Enclosing(t, p, kind) : Side(q, p) = body}

(* Seeded fault: only loops without a header keep their bodies. *)
MayEndLoop_HeaderOnly(t, p) ==
    \E q \in InBody(t, p, "For", Body_) :
        At(t, q).c[Cond_] = Absent \/ At(t, q).c[Post_] = Absent

(* What the node at p does may be what ends a loop around it: any node of  *)
(* a loop without condition or post statement, and in a counted loop one   *)
(* that mentions a name of the header.                                     *)
MayEndLoop(t, p) ==
    \E q \in InBody(t, p, "For", Body_) :
        LET loop == At(t, q) IN
        \/ loop.c[Cond_] = Absent
        \/ loop.c[Post_] = Absent
        \/ Names(At(t, p)) \cap loopHeaderNames(loop) # {}

InGo(t, p) == Enclosing(t, p, "Go") # {}
InLoopTest(t, p) == InBody(t, p, "For", Cond_) # {}
InLoopPost(t, p) == InBody(t, p, "For", Post_) # {}

InGotoFunction(t, p) ==
    \E q \in Enclosing(t, p, "Func") \cup Enclosing(t, p, "FuncLit") :
        containsGoto(At(t, q).c[3])
InRecursiveFunction(t, p) ==
    \E q \in Enclosing(t, p, "Func") : selfRecursive(At(t, q))

(* A break in a range may be the only way out of a channel.                *)
BreaksRange(t, p) ==
    /\ InBody(t, p, "Range", 2) # {}
    /\ \E x \in Nodes(At(t, p)) : x.k = "Branch" /\ x.v = "break"

condNoNegate(t, p) ==
    \/ InGotoFunction(t, p) \/ InRecursiveFunction(t, p)
    \/ MayEndLoop(t, p) \/ BreaksRange(t, p)

IfTouchesConcurrency(x) == \E i \in {Cond_, 3, 4} : touchesConcurrency(x.c[i])

connNoSwap(t, p) ==
    \/ InGotoFunction(t, p) \/ InRecursiveFunction(t, p)
    \/ MayEndLoop(t, p)
    \/ \E q \in InBody(t, p, "If", Cond_) :
          condNoNegate(t, q) \/ IfTouchesConcurrency(At(t, q))

sliceNoShift(t, p) == InGo(t, p) \/ InGotoFunction(t, p) \/ MayEndLoop(t, p)
stmtNoDelete(t, p) == InGo(t, p) \/ MayEndLoop(t, p)

-----------------------------------------------------------------------------
(* Uses: whether a name is left without a read. *)

Declared(t) ==
    UNION {{x.c[1].c[i].v : i \in DOMAIN x.c[1].c} :
             x \in {y \in Nodes(t) : y.k = "Assign" /\ y.v = ":="}}
Imported(t) == {x.v : x \in {y \in Nodes(t) : y.k = "Import"}}

(* Names that an assignment or ++ writes, in parentheses or not, are not   *)
(* reads.                                                                  *)
RECURSIVE Written(_, _)
Written(t, p) ==
    LET up == Parent(p) IN
    /\ p # <<>>
    /\ \/ At(t, up).k = "Paren" /\ Written(t, up)
       \/ At(t, up).k = "IncDec"
       \/ Len(p) > 1 /\ At(t, Parent(up)).k = "Assign" /\ Position(up) = 1
countUses(t, name) ==
    Cardinality({p \in Paths(t) : IsIdent(At(t, p), {name}) /\ ~Written(t, p)})

orphans(t, p) ==
    LET gone == At(t, p) IN
    \E name \in (Declared(t) \ Declared(gone)) \cup Imported(t) :
        /\ countUses(gone, name) > 0
        /\ countUses(t, name) = countUses(gone, name)

-----------------------------------------------------------------------------
(* Equivalence. *)

Boundary == [op \in {"<", "<=", ">", ">="} |->
    CASE op = "<" -> "<=" [] op = "<=" -> "<" [] op = ">" -> ">=" [] op = ">=" -> ">"]

GuardedBy(guard, cmp) ==
    /\ isSideEffectFreeOperand(guard.c[1]) /\ isSideEffectFreeOperand(guard.c[2])
    /\ \/ sameOperand(guard.c[1], cmp.c[1]) /\ sameOperand(guard.c[2], cmp.c[2])
       \/ sameOperand(guard.c[1], cmp.c[2]) /\ sameOperand(guard.c[2], cmp.c[1])

(* The comparison at p is all that an if returns whose condition is that   *)
(* its operands differ: if ... != ... { return ... }.                      *)
detectGuardedComparison(t, p) ==
    /\ Len(p) >= 3
    /\ LET q == SubSeq(p, 1, Len(p) - 3)
           x == At(t, q)
           guard == unwrapParen(x.c[Cond_])
       IN  /\ x.k = "If" /\ x.c[Init_] = Absent
           /\ Side(q, p) = 3 /\ Len(x.c[3].c) = 1
           /\ At(t, Parent(p)).k = "Return" /\ Len(At(t, Parent(p)).c) = 1
           /\ guard.k = "Bin" /\ guard.v = "!="
           /\ GuardedBy(guard, At(t, p))

isOverwrite(st, name) ==
    /\ st.k = "Assign" /\ st.v = "=" /\ Len(st.c[1].c) = 1
    /\ IsIdent(st.c[1].c[1], {name})
    /\ name \notin Names(st.c[2])
isSoleOverwrite(b, name) == Len(b.c) = 1 /\ isOverwrite(b.c[1], name)

(* The literal at p is the whole value of a declaration that the very next *)
(* statement overwrites, on every path, without reading it.                *)
detectDeadStoreLiteral(t, p) ==
    /\ Len(p) >= 3
    /\ LET q == SubSeq(p, 1, Len(p) - 2)
           decl == At(t, q)
           list == At(t, Parent(q))
           name == decl.c[1].c[1].v
           next == list.c[Position(q) + 1]
       IN  /\ decl.k = "Assign" /\ decl.v = ":=" /\ Side(q, p) = 2
           /\ Len(decl.c[1].c) = 1 /\ name # "_"
           /\ list.k = "Block" /\ Position(q) < Len(list.c)
           /\ \/ isOverwrite(next, name)
              \/ /\ next.k = "If" /\ next.c[Init_] = Absent
                 /\ name \notin Names(next.c[Cond_])
                 /\ next.c[4].k = "Block"
                 /\ isSoleOverwrite(next.c[3], name) /\ isSoleOverwrite(next.c[4], name)

(* What discarded.go knows of a package besides its files.  "linked" are   *)
(* the names that assembly, cgo, exports or linknames may reach.           *)
eligibleDiscardDecl(f, exported) ==
    /\ f.k = "Func" /\ f.v \notin {"init", "main", "_"} \cup exported
    /\ f.c[2].c # <<>>

(* A call whose result i nobody takes: a statement of its own, or an       *)
(* assignment of all n that gives it to the blank name.                    *)
DiscardsAt(t, p, i, n) ==
    LET up == Parent(p)
        list == Parent(up)
        asg == At(t, Parent(list))
    IN  /\ At(t, up).k = "Call" /\ Position(p) = 1
        /\ \/ At(t, Parent(up)).k = "ExprStmt"
           \/ /\ asg.k = "Assign" /\ Position(list) = 2
              /\ Len(asg.c[2].c) = 1 /\ Len(asg.c[1].c) = n
              /\ IsIdent(asg.c[1].c[i], {"_"})

resultDiscarded(t, name, i, n) ==
    LET uses == {p \in Paths(t) : IsIdent(At(t, p), {name})} IN
    uses # {} /\ \A p \in uses : DiscardsAt(t, p, i, n)

(* The function a return belongs to, and none inside a function literal.   *)
FuncOf(t, p) ==
    CHOOSE q \in Enclosing(t, p, "Func") \cup Enclosing(t, p, "FuncLit") :
        \A r \in Enclosing(t, p, "Func") \cup Enclosing(t, p, "FuncLit") :
            Len(r) <= Len(q)

(* Seeded fault: a call in the package's own files is all that counts.     *)
discardReason_NoLinks(t, pkg, q, p, i) ==
    LET f == At(t, q) IN
    /\ eligibleDiscardDecl(f, pkg.exported) /\ pureResultExpr(At(t, p))
    /\ resultDiscarded(t, f.v, i, Len(f.c[2].c))

discardReason(t, pkg, q, p, i) ==
    LET f == At(t, q) IN
    /\ eligibleDiscardDecl(f, pkg.exported) /\ pureResultExpr(At(t, p))
    /\ pkg.complete /\ f.v \notin pkg.linked
    /\ resultDiscarded(t, f.v, i, Len(f.c[2].c))

-----------------------------------------------------------------------------
(* The operators.  A mutant says what stands at its place instead, and why *)
(* nobody could notice, if that is known.                                  *)

Mutant(op, p, put, reason) == [op |-> op, at |-> p, put |-> put, reason |-> reason]
Plain(op, p, put) == Mutant(op, p, put, "")

OfKind(t, k) == {p \in Paths(t) : At(t, p).k = k}
Texts(t, k, vs) == {p \in OfKind(t, k) : At(t, p).v \in vs}
Swapped(t, op, places, to) ==
    {Plain(op, p, [At(t, p) EXCEPT !.v = to[@]]) : p \in places}

boundary(t) ==
    {Mutant("boundary", p, [At(t, p) EXCEPT !.v = Boundary[@]],
            IF detectGuardedComparison(t, p) THEN "guarded" ELSE "") :
       p \in Texts(t, "Bin", DOMAIN Boundary)}

boolean(t) ==
    {Plain("boolean", p, Paren(At(t, p).c[i])) :
       p \in Texts(t, "Bin", Connectives), i \in {1, 2}}
    \cup {Plain("boolean", p, Paren(At(t, p).c[1])) : p \in Texts(t, "Unary", {"!"})}
    \cup {Mutant("boolean", p, Ident(IF At(t, p).v = "true" THEN "false" ELSE "true"),
                 IF detectDeadStoreLiteral(t, p) THEN "dead store" ELSE "") :
            p \in Texts(t, "Ident", {"true", "false"})}

SameProgram(x) == sameOperand(x.c[1], x.c[2]) /\ isSideEffectFreeOperand(x.c[1])

connective(t) ==
    Swapped(t, "connective",
            {p \in Texts(t, "Bin", Connectives) :
               ~InLoopTest(t, p) /\ ~connNoSwap(t, p) /\ ~SameProgram(At(t, p))},
            [op \in Connectives |-> IF op = "&&" THEN "||" ELSE "&&"])

arithmeticReplacement ==
    [op \in {"+", "-", "*", "/"} |->
       CASE op = "+" -> "-" [] op = "-" -> "+" [] op = "*" -> "/" [] op = "/" -> "*"]
arithmetic(t) ==
    Swapped(t, "arithmetic", Texts(t, "Bin", DOMAIN arithmeticReplacement),
            arithmeticReplacement)

relational(t) ==
    Swapped(t, "relational", {p \in Texts(t, "Bin", {"==", "!="}) : ~InLoopTest(t, p)},
            [op \in {"==", "!="} |-> IF op = "==" THEN "!=" ELSE "=="])

assignment(t) ==
    Swapped(t, "assignment",
            {p \in Texts(t, "IncDec", {"++", "--"}) : ~InLoopPost(t, p)},
            [op \in {"++", "--"} |-> IF op = "++" THEN "--" ELSE "++"])
    \cup Swapped(t, "assignment",
            {p \in Texts(t, "Assign", {"+=", "-=", "*=", "/="}) : ~InLoopPost(t, p)},
            [op \in {"+=", "-=", "*=", "/="} |->
               CASE op = "+=" -> "-=" [] op = "-=" -> "+="
                 [] op = "*=" -> "/=" [] op = "/=" -> "*="])

Literals(t, kind) ==
    {p \in Texts(t, "Lit", {kind}) : ~InLoopTest(t, p) /\ ~InLoopPost(t, p)}
literal(t) ==
    {Plain("literal", p, Lit(At(t, p).n + d)) : p \in Literals(t, "int"), d \in {1, -1}}
    \cup {Plain("literal", p, Str(0)) :
            p \in {q \in Literals(t, "string") : Enclosing(t, q, "Import") = {}}}

(* Seeded fault: an equality is negated although relational inverts it.    *)
OtherOperatorInverts_Boolean(cond, enabled) ==
    \/ IsIdent(cond, {"true", "false"})
    \/ cond.k = "Unary" /\ cond.v = "!" /\ "boolean" \in enabled

OtherOperatorInverts(cond, enabled) ==
    \/ IsIdent(cond, {"true", "false"})
    \/ cond.k = "Unary" /\ cond.v = "!" /\ "boolean" \in enabled
    \/ cond.k = "Bin" /\ cond.v \in {"==", "!="} /\ "relational" \in enabled

negatableCondition(t, q, enabled) ==
    LET x == At(t, q) IN
    /\ ~condNoNegate(t, q)
    /\ ~OtherOperatorInverts(unwrapParen(x.c[Cond_]), enabled)
    /\ ~IfTouchesConcurrency(x)

condition(t, enabled) ==
    {Plain("condition", Append(q, Cond_), Unary("!", Paren(At(t, q).c[Cond_]))) :
       q \in {r \in OfKind(t, "If") : negatableCondition(t, r, enabled)}}

(* Places of the values returned by the statements of an if's body that    *)
(* end in the name the condition found not nil.                            *)
notNilOperand(cond) ==
    LET c == unwrapParen(cond)
        isNil(i) == IsIdent(unwrapParen(c.c[i]), {"nil"})
    IN  IF c.k # "Bin" \/ c.v # "!=" THEN Absent
        ELSE IF isNil(2) /\ ~isNil(1) THEN unwrapParen(c.c[1])
        ELSE IF isNil(1) /\ ~isNil(2) THEN unwrapParen(c.c[2]) ELSE Absent
errorreturn(t) ==
    {Plain("errorreturn", p, Ident("nil")) :
       p \in {r \in OfKind(t, "Ident") :
                /\ Len(r) >= 3
                /\ LET x == At(t, SubSeq(r, 1, Len(r) - 3))
                       ret == At(t, Parent(r))
                   IN  /\ x.k = "If" /\ r[Len(r) - 2] = 3
                       /\ ret.k = "Return" /\ Position(r) = Len(ret.c)
                       /\ notNilOperand(x.c[Cond_]) = At(t, r)}}

deletableCall(call) ==
    LET f == call.c[1] IN
    /\ f.k \in {"Ident", "Sel"}
    /\ CallName(call) \notin UnsafeCallNames
    /\ f.k = "Sel" =>
          /\ FieldOf(f) \notin LoggingCallNames
          /\ ~(FieldOf(f) = "Add" /\ Len(call.c) = 2
               /\ call.c[2].k = "Lit" /\ call.c[2].v = "int")
          /\ ~IsIdent(f.c[1], {"log", "slog"})

StoresOnly(x) == unwrapParen(x).k \in {"Sel", "Index", "Star"}
deletableStatement(st) ==
    \/ st.k = "Assign" /\ st.v # ":=" /\ \A i \in DOMAIN st.c[1].c : StoresOnly(st.c[1].c[i])
    \/ st.k = "IncDec" /\ StoresOnly(st.c[1])
    \/ st.k = "ExprStmt" /\ st.c[1].k = "Call" /\ deletableCall(st.c[1])

statement(t) ==
    {Plain("statement", p, Empty) :
       p \in {q \in Paths(t) :
                /\ q # <<>> /\ At(t, Parent(q)).k = "Block"
                /\ deletableStatement(At(t, q))
                /\ ~stmtNoDelete(t, q)
                /\ ~orphans(t, q)}}

Constants(t) == {x.v : x \in {y \in Nodes(t) : y.k = "Const"}}

(* A bound that names something, and no constant of the file.              *)
shiftableBound(t, e) == Names(e) # {} /\ Names(e) \cap Constants(t) = {}
Shifts(t, i, op) ==
    {Plain("bounds", Append(q, i), Bin(op, At(t, q).c[i], Lit(1))) :
       q \in {r \in OfKind(t, "Slice") :
                ~sliceNoShift(t, r) /\ shiftableBound(t, At(t, r).c[i])}}
bounds(t) == Shifts(t, 3, "-") \cup Shifts(t, 2, "+")

switch(t) ==
    {Plain("switch", p, Empty) : p \in {q \in OfKind(t, "Case") : At(t, q).c[2].c # <<>>}}

loop(t) ==
    LET withoutTest == {q \in OfKind(t, "For") : At(t, q).c[Cond_] = Absent} IN
    {Plain("loop", Append(q, Cond_), Ident("false")) : q \in OfKind(t, "For") \ withoutTest}
    \cup {Plain("loop", p, Branch("break")) :
            p \in {q \o <<Body_, 1>> : q \in {r \in withoutTest : At(t, r).c[Body_].c # <<>>}}
             \cup {q \o <<2, 1>> : q \in {r \in OfKind(t, "Range") : At(t, r).c[2].c # <<>>}}}

(* Seeded fault: a value whose loss leaves a name unused is zeroed.        *)
Zeroable_Any(t, p) == TRUE

Zeroable(t, p) == ~orphans(t, p)

zeroValue(type) ==
    IF IsIdent(type, Numeric) THEN Lit(0)
    ELSE IF IsIdent(type, {"string"}) THEN Str(0)
    ELSE IF type.k \in {"SliceType", "MapType"} THEN Ident("nil") ELSE Absent
trivialResult(e) ==
    LET x == unwrapParen(e) IN
    \/ x.k = "Lit" \/ IsIdent(x, {"nil", "true", "false"})
    \/ x.k = "Unary" /\ unwrapParen(x.c[1]).k = "Lit"
    \/ x.k = "Composite" /\ x.c = <<>>
    \/ x.k = "Call" /\ IsIdent(x.c[1], {"make"})

returnvalue(t, pkg) ==
    {Mutant("returnvalue", p, zeroValue(At(t, FuncOf(t, p)).c[2].c[Position(p)]),
            IF discardReason(t, pkg, FuncOf(t, p), p, Position(p)) THEN "discarded" ELSE "") :
       p \in {q \in Paths(t) :
                /\ q # <<>> /\ At(t, Parent(q)).k = "Return"
                /\ LET types == At(t, FuncOf(t, q)).c[2].c IN
                   /\ Len(types) = Len(At(t, Parent(q)).c)
                   /\ zeroValue(types[Position(q)]) # Absent
                /\ ~trivialResult(At(t, q))
                /\ Zeroable(t, q)}}

channel(t) ==
    {Plain("channel", p, Empty) :
       p \in {q \in OfKind(t, "Comm") :
                Len(At(t, Parent(q)).c) > 1 /\ At(t, q).c[2].c # <<>>}}
    \cup {Plain("channel", Append(q, 3), Lit(0)) :
            q \in {r \in OfKind(t, "Call") :
                     /\ IsIdent(At(t, r).c[1], {"make"}) /\ Len(At(t, r).c) = 3
                     /\ At(t, r).c[2].k = "ChanType"}}

(* The mutants of a file under the operators enabled, without those that   *)
(* would change nothing.                                                   *)
Candidates(t, pkg, enabled) ==
    {m \in boundary(t) \cup boolean(t) \cup connective(t) \cup arithmetic(t)
           \cup relational(t) \cup assignment(t) \cup literal(t)
           \cup condition(t, enabled) \cup errorreturn(t) \cup statement(t)
           \cup bounds(t) \cup switch(t) \cup loop(t) \cup returnvalue(t, pkg)
           \cup channel(t) :
       m.op \in enabled /\ At(t, m.at) # m.put}

Mutated(t, m) == Put(t, m.at, m.put)
=============================================================================
