----------------------------- MODULE Experiment -----------------------------
(***************************************************************************)
(* What every executor of mutants promises, also the ones that keep their  *)
(* results in memory and fill the report in any order: at most one result  *)
(* per mutant, and one of three endings.                                   *)
(*                                                                         *)
(*   complete   every discovered mutant has its own, uninterrupted result; *)
(*   partial    the caller's context ended and nothing else went wrong;    *)
(*   error      something other than a test outcome failed.                *)
(*                                                                         *)
(* ResultLog is the same promise with the results in discovery order.      *)
(***************************************************************************)
EXTENDS Naturals

CONSTANT Count    \* number of discovered mutants

VARIABLES
    results,    \* the results obtained so far, one record per mutant
    cancelled,  \* the caller's context has ended
    fault,      \* something other than a test outcome has failed
    outcome     \* how the experiment ended, or "running"

vars == <<results, cancelled, fault, outcome>>

Init ==
    /\ results = {}
    /\ cancelled \in BOOLEAN
    /\ fault = FALSE
    /\ outcome = "running"

Report ==
    /\ outcome = "running"
    /\ \E i \in 0..Count - 1, k \in {"verdict", "interrupted"} :
          /\ \A r \in results : r.index # i
          /\ k = "interrupted" => cancelled \/ fault
          /\ results' = results \cup {[index |-> i, kind |-> k]}
    /\ UNCHANGED <<cancelled, fault, outcome>>

Cancel ==
    /\ outcome = "running"
    /\ cancelled' = TRUE
    /\ UNCHANGED <<results, fault, outcome>>

Fail ==
    /\ outcome = "running"
    /\ fault' = TRUE
    /\ UNCHANGED <<results, cancelled, outcome>>

Finish ==
    /\ outcome = "running"
    /\ \/ /\ ~fault
          /\ \A i \in 0..Count - 1 :
                [index |-> i, kind |-> "verdict"] \in results
          /\ outcome' = "complete"
       \/ /\ ~fault
          /\ cancelled
          /\ outcome' = "partial"
       \/ /\ fault
          /\ outcome' = "error"
    /\ UNCHANGED <<results, cancelled, fault>>

Next == Report \/ Cancel \/ Fail \/ Finish

Spec == Init /\ [][Next]_vars
=============================================================================
