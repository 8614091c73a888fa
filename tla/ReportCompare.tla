---------------------------- MODULE ReportCompare ----------------------------
(***************************************************************************)
(* The comparison of two reports, mutant by mutant: Compare of             *)
(* internal/compare/compare.go and findLikelyShifts of shift.go.  A side   *)
(* is a function from the identities it has to their verdicts.  Lists are  *)
(* sets here: their order is a matter of display.                          *)
(***************************************************************************)
EXTENDS Naturals, FiniteSets

CONSTANTS Ids, shiftFingerprint   \* what a mutant shares with its relocation

ASSUME FingerprintAssumption == DOMAIN shiftFingerprint = Ids

Actionable(v) == v \in {"SURVIVED", "TIMEOUT", "UNKNOWN"}
isConfirmedSurvivor(v) == v = "SURVIVED"

-----------------------------------------------------------------------------
(* Seeded faults: what a plausible slip would make of a definition below.  *)

(* A mutant that was open before cannot be new. *)
Promoted_Never(b, c) == FALSE

(* Whatever is no longer open was fixed. *)
Fixed_AnyClosed(b, c) == Actionable(b) /\ ~Actionable(c)

-----------------------------------------------------------------------------
(* An inconclusive verdict that became a demonstrated gap.                 *)
Promoted(b, c) == isConfirmedSurvivor(c) /\ ~isConfirmedSurvivor(b)

Fixed(b, c) == Actionable(b) /\ c = "KILLED"

(* The bucket of an identity of either side.                               *)
Bucket(id, baseline, current) ==
    LET hasB == id \in DOMAIN baseline
        bActionable == hasB /\ Actionable(baseline[id])
    IN  IF id \notin DOMAIN current THEN "removed"
        ELSE LET c == current[id] IN
             CASE ~bActionable /\ Actionable(c) -> "new"
               [] bActionable /\ Actionable(c) /\ baseline[id] # c ->
                     IF Promoted(baseline[id], c) THEN "new" ELSE "open"
               [] bActionable /\ ~Actionable(c) ->
                     IF Fixed(baseline[id], c) THEN "fixed" ELSE "reclassified"
               [] OTHER -> "unchanged"

Unambiguous(group) == Cardinality(group) = 1

(* A removed mutant and one with a new identity are paired when each is    *)
(* the only one of its side with their fingerprint.                        *)
findLikelyShifts(removed, introduced) ==
    LET Same(ids, id) == {x \in ids : shiftFingerprint[x] = shiftFingerprint[id]}
    IN  {p \in removed \X introduced :
            /\ shiftFingerprint[p[1]] = shiftFingerprint[p[2]]
            /\ Unambiguous(Same(removed, p[1]))
            /\ Unambiguous(Same(introduced, p[1]))}

Compare(baseline, current) ==
    LET ids == DOMAIN baseline \cup DOMAIN current
        In(b) == {id \in ids : Bucket(id, baseline, current) = b}
    IN  [newSurvivors |-> In("new"),   fixedSurvivors |-> In("fixed"),
         stillOpen    |-> In("open"),  reclassified   |-> In("reclassified"),
         removed      |-> In("removed"),
         unchanged    |-> Cardinality(In("unchanged")),
         likelyShifted |-> findLikelyShifts(In("removed"), In("new") \ DOMAIN baseline)]
=============================================================================
