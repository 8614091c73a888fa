------------------------------ MODULE Frontend ------------------------------
(***************************************************************************)
(* The way of a mutant to its tests, in three questions that share no      *)
(* state: which mutants a file has (MutationOperators), how they are       *)
(* collected in bounded memory (DiskDiscovery), and which tests one of     *)
(* them is run against (TestSelection).  A behaviour follows one of them.  *)
(***************************************************************************)
EXTENDS DiskDiscovery, MutationOperators, TestSelection

CONSTANTS
    Programs,    \* packages: a tree, what surrounds it, where runs enter it
    Fuel         \* turns and calls an original may take

VARIABLES
    mode,        \* "collect", "walk" or "select"
    subject,     \* in "walk": the program
    mutant       \* in "walk": the mutant emitted last

frontend == <<mode, subject, mutant>>
allVars == <<vars, selection, frontend>>

NoMutant == Mutant("none", <<>>, Empty, "")

Idle ==
    /\ input = <<>> /\ pc = "done" /\ result = "error"
    /\ file = 1 /\ pos = 1 /\ candidates = <<>> /\ levels = <<>>
    /\ carry = 0 /\ level = 1 /\ chunks = <<>> /\ merged = <<>>
    /\ store = [n \in {} |-> NewSpool] /\ fresh = 2
    /\ count = 0 /\ ids = <<>> /\ idsThere = FALSE
    /\ idRuns = <<>> /\ idMerged = <<>> /\ idPos = 1

SelectIdle == setting = 0 /\ per = {} /\ unprofiled = {} /\ verdict = "none"

FrontInit ==
    /\ mutant = NoMutant
    /\ \/ mode = "collect" /\ Init /\ SelectIdle /\ subject = 0
       \/ mode = "walk" /\ Idle /\ SelectIdle /\ subject \in Programs
       \/ mode = "select" /\ Idle /\ SelectInit /\ subject = 0

Collect == mode = "collect" /\ Next /\ UNCHANGED <<selection, frontend>>

MutantsOf(p) == Candidates(p.tree, p.pkg, p.enabled)

Emit ==
    /\ mode = "walk" /\ mutant = NoMutant
    /\ mutant' \in MutantsOf(subject)
    /\ UNCHANGED <<vars, selection, mode, subject>>

Select == mode = "select" /\ SelectNext /\ UNCHANGED <<vars, frontend>>

Finished ==
    /\ \/ mode = "walk" /\ (mutant # NoMutant \/ MutantsOf(subject) = {})
       \/ mode = "select" /\ verdict # "none"
    /\ UNCHANGED allVars

FrontNext == Collect \/ Emit \/ Select \/ Finished

FrontSpec == FrontInit /\ [][FrontNext]_allVars

-----------------------------------------------------------------------------
(* Properties of the operators.  A mutant is judged by what its program    *)
(* does from every start the original has.                                 *)

Emitting == mode = "walk" /\ mutant # NoMutant
Run(program, entry, env) ==
    RunFrom(IF program = "original" THEN subject.tree ELSE Mutated(subject.tree, mutant),
            entry, env, IF program = "original" THEN Fuel ELSE 4 * Fuel)
Runs(entry, env) ==
    [program \in {"original", "mutant"} |-> Run(program, entry, env)]
SeenTheSame(run) == Seen(run["original"]) = Seen(run["mutant"])
EndsLikewise(run) == Ends(run["original"]) => Ends(run["mutant"])

(* Functions that code outside the package's own files may call.           *)
CalledElsewhere(p) ==
    IF p.pkg.complete THEN p.pkg.linked \cup p.pkg.exported
    ELSE {p.tree.c[i].v : i \in DOMAIN p.tree.c}

(* A mutant reported equivalent, which no test is ever run against, does   *)
(* what its original does, seen from the package's own entry and from      *)
(* whoever else may call its functions (frontend.go:710-723, 838-895,      *)
(* discarded.go:406-424; analysis.go:731-740).                             *)
EquivalentIsEquivalent ==
    Emitting /\ mutant.reason # "" =>
        \A env \in subject.starts :
            \A entry \in {"entry"} \cup CalledElsewhere(subject) :
                SeenTheSame(Runs(entry, env))

Assigned(t) ==
    UNION {Names(x.c[1]) : x \in {y \in Nodes(t) : y.k \in {"Assign", "IncDec"}}}
Ifs(t) == {x \in Nodes(t) : x.k = "If"}
Stores(t) == {x \in Nodes(t) : x.k \in {"Assign", "IncDec"}}
BreaksOut(t) == \E x \in Nodes(t) : x.k = "Branch" /\ x.v = "break"
Continues(t) == \E x \in Nodes(t) : x.k = "Branch" /\ x.v = "continue"
Fors(t) == {x \in Nodes(t) : x.k = "For"}

(* Nothing a loop's body computes, and no continue, decides how the body   *)
(* changes the names of its header or leaves it; nothing computed decides  *)
(* whether a range breaks or a waiter is signalled; a range is left early  *)
(* by break alone.  The marks follow names and no data, and know of no     *)
(* other way out, so their claim ends here.                                *)
Settled(t) ==
    /\ \A x \in Fors(t) :
          LET header == loopHeaderNames(x)
              written == Assigned(x.c[Body_])
              computed == written \ header
          IN  /\ Continues(x) => written \cap header = {} /\ ~BreaksOut(x)
              /\ \A y \in Ifs(x.c[Body_]) \cup Stores(x.c[Body_]) :
                    Names(y) \cap header # {} =>
                     (IF y.k = "If" THEN Names(y.c[Cond_]) ELSE Names(y))
                        \cap computed = {}
    /\ \A y \in Ifs(t) :
          touchesConcurrency(y) \/ BreaksOut(y) =>
             Names(y.c[Cond_]) \cap Assigned(t) = {}
    /\ \A x \in Nodes(t) : x.k = "Range" =>
          "Return" \notin Kinds(x) /\ ~Continues(x)

(* Every loop counts by its header alone, and, towards a limit, compares   *)
(* its counter by order.                                                   *)
Counted(t) ==
    /\ \A x \in Fors(t) :
          /\ x.c[Cond_] # Absent /\ x.c[Post_] # Absent
          /\ loopHeaderNames(x) \cap Assigned(x.c[Body_]) = {}
    /\ \A x \in Nodes(t) : x.k = "Range" => ~BreaksOut(x)
TowardsLimit(t) ==
    \A x \in Fors(t) : \A y \in Nodes(x.c[Cond_]) :
        ~(y.k = "Bin" /\ y.v \in {"==", "!="})

(* Statements, literals and assignments are marked for loops alone, bounds *)
(* for loops and gotos.                                                    *)
Protected(t, m) ==
    LET recursive == InRecursiveFunction(t, m.at)
        repeated == recursive \/ InGotoFunction(t, m.at)
    IN  \/ m.op \in {"condition", "connective"} /\ Settled(t)
        \/ m.op = "bounds" /\ Settled(t) /\ ~recursive
        \/ m.op = "statement" /\ Settled(t) /\ ~repeated
        \/ m.op = "relational" /\ Counted(t) /\ ~repeated
        \/ m.op \in {"literal", "assignment"} /\ Counted(t) /\ TowardsLimit(t) /\ ~repeated

(* A mutant of the operators that mark loops, recursion, gotos and waits   *)
(* ends wherever its original ends: the exclusions are enough, and not     *)
(* only each in its place (frontend.go:1084-1104, 1244-1270, 1529-1542,    *)
(* 1595-1622, 521-546).                                                    *)
MutantsEnd ==
    Emitting /\ Protected(subject.tree, mutant) =>
        \A env \in subject.starts : EndsLikewise(Runs("entry", env))

(* What the compiler takes for a use: a name whose value is read.          *)
RECURSIVE Reads(_)
ReadsOf(xs) == UNION {Reads(xs[i]) : i \in DOMAIN xs}
TargetReads(x) == IF unwrapParen(x).k = "Ident" THEN {} ELSE Reads(x)
Reads(x) ==
    CASE x.k = "Ident" -> {x.v}
      [] x.k = "Sel" -> Reads(x.c[1])
      [] x.k = "IncDec" -> TargetReads(x.c[1])
      [] x.k = "Assign" ->
           UNION {TargetReads(x.c[1].c[i]) : i \in DOMAIN x.c[1].c} \cup Reads(x.c[2])
      [] OTHER -> ReadsOf(x.c)

(* The value of a bound that is a constant expression.                     *)
RECURSIVE ConstantValue(_, _)
ConstantValue(t, e) ==
    CASE e.k = "Lit" -> e.n
      [] e.k = "Ident" -> (CHOOSE y \in Nodes(t) : y.k = "Const" /\ y.v = e.v).c[1].n
      [] e.k = "Paren" -> ConstantValue(t, e.c[1])
      [] e.k = "Unary" -> 0 - ConstantValue(t, e.c[1])
      [] e.k = "Bin" -> Arith(e.v, ConstantValue(t, e.c[1]), ConstantValue(t, e.c[2]))
      [] e.k = "Absent" -> 0

(* What the compiler asks of what the operators may take away or shift: a  *)
(* variable and an import are used, and a bound is not a constant below 0. *)
Compiles(t) ==
    /\ Declared(t) \cup Imported(t) \subseteq Reads(t)
    /\ \A x \in Nodes(t) : x.k = "Slice" =>
          \A i \in {2, 3} :
              Names(x.c[i]) \subseteq Constants(t) => ConstantValue(t, x.c[i]) >= 0

(* A deleted statement or a zeroed result leaves no variable and no import *)
(* unused, however often and wherever it was used, and a shifted bound is  *)
(* no constant that becomes negative (frontend.go:1154-1242, 1606-1611).   *)
MutantsCompile ==
    Emitting /\ mutant.op \in {"statement", "returnvalue", "bounds"}
             /\ Compiles(subject.tree) =>
        Compiles(Mutated(subject.tree, mutant))

(* What is left of a condition without its negations.                      *)
RECURSIVE Negated(_)
Negated(x) ==
    IF x.k = "Paren" \/ (x.k = "Unary" /\ x.v = "!") THEN Negated(x.c[1]) ELSE x

(* The negation of an equality, where boolean does not own the negation    *)
(* and relational changes the equality inside.                             *)
NegatesEquality(p, m) ==
    /\ m.op = "condition"
    /\ {"boolean", "relational"} \cap p.enabled = {"relational"}
    /\ LET cond == unwrapParen(At(p.tree, m.at)) IN
       cond.k = "Unary" /\ Negated(cond).k = "Bin" /\ Negated(cond).v \in {"==", "!="}

(* A negated condition or a swapped connective is never the program it     *)
(* came from.  It is one that another enabled operator makes as well in    *)
(* one case alone: of !(x == y) with relational and without boolean, the   *)
(* exclusions look at the outer operator, so that !(!(x == y)) runs beside *)
(* !(x != y) (frontend.go:1266-1289, 1540-1542).                           *)
NoDuplicateRuns ==
    Emitting /\ mutant.op \in {"condition", "connective"} =>
        LET same(t) == Normal(t) = Normal(Mutated(subject.tree, mutant)) IN
        /\ ~same(subject.tree)
        /\ (\E m \in MutantsOf(subject) \ {mutant} : same(Mutated(subject.tree, m)))
              <=> NegatesEquality(subject, mutant)
=============================================================================
