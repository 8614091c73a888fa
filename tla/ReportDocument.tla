--------------------------- MODULE ReportDocument ---------------------------
(***************************************************************************)
(* A JSON report as the analyzer writes it and as compare and record       *)
(* import it: summarize and the bounds of internal/analysis/analysis.go,   *)
(* DecodeReport and ValidateReport of internal/model/validate.go.          *)
(*                                                                         *)
(* A document is a record.  Fields whose only role is to be present or     *)
(* well formed are two sets: "missing" names the objects that lack a       *)
(* required field, "blank" the fields that are there but empty, zero or    *)
(* negative.  A score is a fraction killed/of, which is what the           *)
(* comparison with a tolerance tells apart for counts this small.          *)
(***************************************************************************)
EXTENDS Integers, Sequences, FiniteSets, FiniteSetsExt

SchemaVersion == "mutation-judge.report/v1"
Verdicts == {"KILLED", "SURVIVED", "INVALID", "TIMEOUT", "UNKNOWN",
             "UNSUPPORTED", "EQUIVALENT"}
Bounds == {"discovered_before_bound", "retained_after_bound", "completed_mutants"}

CountOf(results, v) == Cardinality({i \in DOMAIN results : results[i].verdict = v})

(* Killed over killed and survived; nothing scoreable has a score of 0.    *)
ScoreOf(counts) ==
    LET den == counts["KILLED"] + counts["SURVIVED"]
    IN  IF den = 0 THEN [killed |-> 0, of |-> 1, text |-> "n/a"]
        ELSE [killed |-> counts["KILLED"], of |-> den, text |-> "percent"]

summarize(results) ==
    LET counts == [v \in Verdicts |-> CountOf(results, v)]
    IN  [generated |-> Len(results), counts |-> counts, score |-> ScoreOf(counts)]

Integer(n) == [kind |-> "integer", n |-> n]

(* The report of a run that found "discovered" mutants, kept "retained" of *)
(* them and has these results.  It is complete if that is all of them and  *)
(* the context had not ended when the run looked last: a signal or the     *)
(* deadline may come when every result is there.                           *)
Produced(results, discovered, retained, ended) ==
    [syntax   |-> "object",
     version  |-> SchemaVersion,
     missing  |-> {},
     blank    |-> {},
     bounds   |-> [b \in Bounds |->
                     Integer(CASE b = "discovered_before_bound" -> discovered
                               [] b = "retained_after_bound" -> retained
                               [] OTHER -> Len(results))],
     complete |-> ~ended /\ Len(results) = retained,
     results  |-> results,
     summary  |-> summarize(results)]

(* What a document is made of, whatever it says: a list of results, three  *)
(* numbers, and a score that is a fraction.                                *)
IsDocument(doc) ==
    /\ doc.results \in Seq({doc.results[i] : i \in DOMAIN doc.results})
    /\ \A b \in Bounds : doc.bounds[b].n \in Int
    /\ doc.summary.score.killed \in Int /\ doc.summary.score.of \in Nat \ {0}

-----------------------------------------------------------------------------
(* Seeded faults: what a plausible slip would make of a definition below.  *)

(* A report with all its results has to be complete. *)
BoundsAgree_Iff(doc) ==
    LET n(b) == doc.bounds[b].n IN
    /\ n("discovered_before_bound") >= n("retained_after_bound")
    /\ n("retained_after_bound") >= n("completed_mutants")
    /\ n("completed_mutants") = Len(doc.results)
    /\ doc.complete <=> n("retained_after_bound") = n("completed_mutants")

(* The verdict counts are believed. *)
SummaryAgrees_Believed(doc) == doc.summary.generated = Len(doc.results)

-----------------------------------------------------------------------------
(* The checks of DecodeReport, in its order.                               *)

(* One object and nothing after it.                                        *)
OneObject(doc) == doc.syntax = "object"

ValidateSchemaVersion(doc) == doc.version = SchemaVersion

(* requireFields, at every level.                                          *)
validateStructure(doc) == doc.missing = {}

exactBounds(doc) ==
    \A b \in Bounds : doc.bounds[b].kind = "integer" /\ doc.bounds[b].n >= 0

(* More cannot be retained than was discovered, or completed than retained.*)
BoundsAgree(doc) ==
    LET n(b) == doc.bounds[b].n IN
    /\ n("discovered_before_bound") >= n("retained_after_bound")
    /\ n("retained_after_bound") >= n("completed_mutants")
    /\ n("completed_mutants") = Len(doc.results)
    /\ doc.complete => n("retained_after_bound") = n("completed_mutants")

(* Every result has an identity of its own, a known verdict and a place.   *)
ResultsValid(doc) ==
    /\ \A i, j \in DOMAIN doc.results :
          doc.results[i].id = doc.results[j].id => i = j
    /\ \A i \in DOMAIN doc.results :
          doc.results[i].verdict \in Verdicts /\ doc.results[i].flaw = "none"

(* The counts and the score are those of the results, computed anew.       *)
SummaryAgrees(doc) ==
    LET n(v) == CountOf(doc.results, v)
        s == doc.summary
        den == s.counts["KILLED"] + s.counts["SURVIVED"]
    IN  /\ s.generated = Len(doc.results)
        /\ \A v \in Verdicts : s.counts[v] = n(v)
        /\ s.score.text = IF den > 0 THEN "percent" ELSE "n/a"
        /\ s.score.killed * (IF den > 0 THEN den ELSE 1) = n("KILLED") * s.score.of

ValidateReport(doc) ==
    /\ ValidateSchemaVersion(doc)
    /\ doc.blank = {}
    /\ BoundsAgree(doc)
    /\ ResultsValid(doc)
    /\ SummaryAgrees(doc)

DecodeReport(doc) ==
    /\ OneObject(doc)
    /\ ValidateSchemaVersion(doc)
    /\ validateStructure(doc)
    /\ exactBounds(doc)
    /\ ValidateReport(doc)
=============================================================================
