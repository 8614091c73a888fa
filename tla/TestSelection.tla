--------------------------- MODULE TestSelection ---------------------------
(***************************************************************************)
(* Which tests a mutant runs against: TestScopes of internal/workspace,    *)
(* the coverage maps of internal/coverage, and mutantTestScope,            *)
(* mutantTestRun and buildPerTestCoverage of internal/analysis.            *)
(*                                                                         *)
(* A module m is packages with the imports of their sources and of their   *)
(* two kinds of tests, files, and tests.  A file has a key (the import     *)
(* path and name a profile gives it), and whether it holds any statement   *)
(* a profile can count.  A test says of which files it runs the lines the  *)
(* mutant's span has there, and whether it would notice the mutant.        *)
(***************************************************************************)
EXTENDS Naturals, Sequences, FiniteSets, SequencesExt

CONSTANT
    Modules      \* the modules, each with the mutant it is asked about

VARIABLES
    setting,     \* the module, and whether each of the two options is on
    per,         \* the tests profiled so far
    unprofiled,  \* those still to profile
    verdict      \* "none", "killed" or "survived"

selection == <<setting, per, unprofiled, verdict>>

-----------------------------------------------------------------------------
(* The package graph, as go list sees it. *)

(* A chain of imports is no longer than there are packages.                *)
Closure(m, pkgs) ==
    LET within[n \in Nat] ==
          IF n = 0 THEN pkgs
          ELSE LET less == within[n - 1]
               IN  less \cup UNION {m.imports[p] : p \in less}
    IN  within[Cardinality(DOMAIN m.imports)]

HasTests(m, b) == \E t \in m.tests : t.pkg = b

(* What the test binary of b is built from.                                *)
Linked(m, b) == Closure(m, {b} \cup m.internal[b] \cup m.external[b])

(* Internal tests make b another package than the one others import, and   *)
(* whatever depends on b is compiled again for this binary: go list names  *)
(* both in brackets.                                                       *)
InternalTests(m, b) == \E t \in m.tests : t.pkg = b /\ ~t.external
Recompiled(m, b) ==
    IF InternalTests(m, b) THEN {c \in Linked(m, b) : b \in Closure(m, {c})} ELSE {}

(* depsByTarget: the names without a bracket, and b itself.                *)
PlainDeps(m, b) == {b} \cup (Linked(m, b) \ Recompiled(m, b))

TestScopes(m, pkg) == {b \in DOMAIN m.imports : HasTests(m, b) /\ pkg \in PlainDeps(m, b)}

(* The key of the mutated file is its own, and ends in the path the mutant *)
(* is looked up by; a test notices only what its binary is built from.     *)
ASSUME SelectionAssumption ==
    \A m \in Modules :
        /\ IsFiniteSet(m.files)
        /\ IsSuffix(m.mutated.file, m.mutated.key)
        /\ \A f \in m.files : f.key = m.mutated.key => f.pkg = m.mutated.pkg
        /\ \A t \in m.tests : t.notices => m.mutated.pkg \in Linked(m, t.pkg)

-----------------------------------------------------------------------------
(* Coverage. *)

(* The profile of one test run: the files of the instrumented packages in  *)
(* its binary, and which of them it reached within the span's lines.       *)
Profile(m, t) ==
    [k \in {f.key : f \in {g \in m.files : g.blocks /\ g.pkg \in Linked(m, t.pkg)}} |->
        k \in t.reaches]

(* Seeded fault: a suffix belongs to whichever file claimed it first. *)
Owners_First(profile, file) ==
    LET keys == {k \in DOMAIN profile : IsSuffix(file, k)}
    IN  IF keys = {} THEN {}
        ELSE {CHOOSE k \in keys : \A l \in keys : Len(l) <= Len(k)}

(* The files whose key ends in the path asked for.                         *)
Owners(profile, file) == {k \in DOMAIN profile : IsSuffix(file, k)}

(* Covered: whether the span was reached, and whether that is known.       *)
Covered(profile, file) ==
    LET owners == Owners(profile, file)
        known == Cardinality(owners) = 1
    IN  [known |-> known, yes |-> known /\ \A k \in owners : profile[k]]

(* CoveringTestsForPackages: unknown unless every package that may observe *)
(* the mutant has profiles, all of which know the file.                    *)
CoveringTests(profiles, file, possible) ==
    LET mine == {r \in profiles : r.pkg \in possible} IN
    IF \/ profiles = {} \/ possible = {}
       \/ \E r \in mine : ~Covered(r.profile, file).known
       \/ \E b \in possible : \A r \in mine : r.pkg # b
    THEN [known |-> FALSE, names |-> {}]
    ELSE [known |-> TRUE,
          names |-> {r.name : r \in {s \in mine : Covered(s.profile, file).yes}}]

-----------------------------------------------------------------------------
(* What a mutant of m.mutated is run with. *)

Patterns(m) == DOMAIN m.imports

mutantTestScope(m, narrow) ==
    LET scope == TestScopes(m, m.mutated.pkg) IN
    IF narrow /\ scope # {} THEN scope ELSE Patterns(m)

(* Examples and fuzz targets have no profile of their own.                 *)
AlwaysRun(m, possible) ==
    {t.name : t \in {u \in m.tests : u.kind # "Test" /\ u.pkg \in possible}}

Narrows(found) == found.known /\ found.names # {}

(* The names -run admits; without coverage every name.                     *)
mutantTestRun(m, profiles, select) ==
    LET possible == TestScopes(m, m.mutated.pkg)
        found == CoveringTests(profiles, m.mutated.file, possible)
    IN  IF ~select \/ ~Narrows(found)
        THEN {t.name : t \in m.tests}
        ELSE found.names \cup AlwaysRun(m, possible)

(* Whether some test of the run notices the mutant.                        *)
Killed(m, scope, names) ==
    \E t \in m.tests : t.pkg \in scope /\ t.name \in names /\ t.notices

-----------------------------------------------------------------------------
(* Profiling the tests, and running the mutant. *)

Profilable(m) == {t \in m.tests : t.kind = "Test"}

SelectInit ==
    /\ setting \in [m : Modules, narrow : BOOLEAN, select : BOOLEAN]
    /\ per = {} /\ verdict = "none"
    /\ unprofiled = IF setting.select THEN Profilable(setting.m) ELSE {}

Profiled(m, t) == [pkg |-> t.pkg, name |-> t.name, profile |-> Profile(m, t)]

(* buildPerTestCoverage: one test alone after another.                     *)
ProfileTest ==
    /\ \E t \in unprofiled :
          /\ unprofiled' = unprofiled \ {t}
          /\ per' = per \cup {Profiled(setting.m, t)}
    /\ UNCHANGED <<setting, verdict>>

(* One test that fails alone, or cannot be profiled, ends the attempt.     *)
ProfileFails ==
    /\ unprofiled # {}
    /\ unprofiled' = {}
    /\ per' = {}
    /\ UNCHANGED <<setting, verdict>>

RunMutant ==
    /\ unprofiled = {} /\ verdict = "none"
    /\ verdict' = IF Killed(setting.m, mutantTestScope(setting.m, setting.narrow),
                            mutantTestRun(setting.m, per, setting.select))
                  THEN "killed" ELSE "survived"
    /\ UNCHANGED <<setting, per, unprofiled>>

SelectNext == ProfileTest \/ ProfileFails \/ RunMutant

SelectSpec == SelectInit /\ [][SelectNext]_selection

-----------------------------------------------------------------------------
(* Properties of test selection. *)

KilledByAll(m) == Killed(m, Patterns(m), {t.name : t \in m.tests})

ScopesTell(m) ==
    \A b \in Patterns(m) :
        m.mutated.pkg \in Linked(m, b) => m.mutated.pkg \in PlainDeps(m, b)
ProfilesTell(m) ==
    /\ \E f \in m.files : f.key = m.mutated.key /\ f.blocks
    /\ \A t \in m.tests : t.notices => m.mutated.key \in t.reaches

(* Narrowing loses no kill: wherever go list names the mutated package     *)
(* plainly and every test that notices the mutant has run a counted line   *)
(* of it, the selected tests give the verdict of all of them, with any of  *)
(* the two options, duplicate names, missing or ambiguous profiles, tests  *)
(* that fail alone, and examples (analysis.go:216-289, 532-551;            *)
(* pertest.go:64-71).                                                      *)
NarrowingKeepsVerdict ==
    verdict = "survived" /\ ScopesTell(setting.m)
        /\ (setting.select => ProfilesTell(setting.m))
        => ~KilledByAll(setting.m)

(* The same without a condition, as docs/performance.md:193 has it:        *)
(* "narrowing can never produce a false SURVIVED".                         *)
NoFalseSurvived == verdict = "survived" => ~KilledByAll(setting.m)

(* Either profiling goes on or all profiles are there, or none is; and a   *)
(* mutant survives what it was run with then.                              *)
SelectionInv ==
    /\ setting \in [m : Modules, narrow : BOOLEAN, select : BOOLEAN]
    /\ unprofiled \subseteq Profilable(setting.m)
    /\ \A r \in per : \E t \in Profilable(setting.m) : r = Profiled(setting.m, t)
    /\ per = {} => unprofiled \in {{}, Profilable(setting.m)}
    /\ per # {} => \A t \in Profilable(setting.m) \ unprofiled : Profiled(setting.m, t) \in per
    /\ verdict = "survived" =>
          /\ unprofiled = {}
          /\ ~Killed(setting.m, mutantTestScope(setting.m, setting.narrow),
                     mutantTestRun(setting.m, per, setting.select))
=============================================================================
