----------------------------- MODULE MCCommands -----------------------------
EXTENDS Commands

(* Three places of one file that only differ in where they are.            *)
MCFingerprint == [id \in 1..3 |-> "same"]

Results(f) == [i \in 1..Cardinality(DOMAIN f) |->
                 LET id == SetToSortSeq(DOMAIN f, <)[i]
                 IN  [id |-> id, verdict |-> f[id], flaw |-> "none"]]
Whole(f) == LET r == Results(f) IN Produced(r, Len(r), Len(r), FALSE)

(* One mutant with every verdict, two of which either may be missing, and  *)
(* two others that may be what a removed one became.                       *)
World(ids, verdicts) == UNION {[s -> verdicts] : s \in SUBSET ids}
Worlds == World({1}, Verdicts) \cup World({1, 2}, {"KILLED", "SURVIVED"})
          \cup {2 :> "SURVIVED" @@ 3 :> "SURVIVED"}

Two == Results(1 :> "KILLED" @@ 2 :> "SURVIVED")
Good == Produced(Two, 2, 2, FALSE)
Interrupted == Produced(SubSeq(Two, 1, 1), 2, 2, TRUE)
Late == Produced(Two, 2, 2, TRUE)
Bounded == Produced(SubSeq(Two, 1, 1), 2, 1, FALSE)

(* What goes wrong with a report on its way, one thing at a time.          *)
Damaged ==
    {[Good EXCEPT !.syntax = s] : s \in {"truncated", "trailing", "null"}}
    \cup {[Good EXCEPT !.version = "other"], [Good EXCEPT !.blank = {"patterns"}],
          [Good EXCEPT !.missing = {"span"}],
          [Good EXCEPT !.results[2].id = 1],
          [Good EXCEPT !.results[2].verdict = "PASSED"],
          [Good EXCEPT !.results[2].flaw = "span"],
          [Good EXCEPT !.results = SubSeq(Two, 1, 1)],
          [Interrupted EXCEPT !.complete = TRUE],
          [Good EXCEPT !.summary.generated = 3],
          [Good EXCEPT !.summary.counts["KILLED"] = 2],
          [Good EXCEPT !.summary.score.killed = 2],
          [Whole(1 :> "TIMEOUT") EXCEPT !.summary.score.killed = 1]}
    \cup {[Good EXCEPT !.bounds[b] = [kind |-> k, n |-> n]] :
             b \in Bounds, k \in {"integer", "fraction"}, n \in {0 - 1, 1, 3}}

Bad == [Good EXCEPT !.syntax = "truncated"]
MCJobs == 1..3
MCLogInputs ==
    {[j \in MCJobs |-> IF j = 3 THEN d ELSE Good] : d \in {Good, Bad}}
    \cup {[j \in MCJobs |-> IF j = 1 THEN d ELSE Bad] :
             d \in Damaged \cup {Interrupted, Late, Bounded} \cup {Whole(f) : f \in Worlds}}
MCOptions ==
    {[failOnNew |-> TRUE, failExitCode |-> code, allowIncompatible |-> FALSE] :
       code \in {10, 256}}
    \cup {[failOnNew |-> asked, failExitCode |-> 10, allowIncompatible |-> TRUE] :
       asked \in BOOLEAN}
MCGateInputs == {Whole(f) : f \in Worlds} \cup {Interrupted, Late, Bounded, Bad}
=============================================================================
