----------------------------- MODULE ResultLog -----------------------------
(***************************************************************************)
(* What a mutation run promises its caller, whatever pool of workers       *)
(* carries it out: results reach the report one at a time and in discovery *)
(* order, and the run ends in exactly one of three ways.                   *)
(*                                                                         *)
(*   complete   every discovered mutant is in the report and none of the   *)
(*              results was produced by an interrupted run;                *)
(*   partial    the caller's context ended (signal or total deadline) and  *)
(*              nothing else went wrong; the report is a prefix;           *)
(*   error      something other than a test outcome failed.                *)
(*                                                                         *)
(* OrderedWindow, the streaming executor, is shown to implement this.      *)
(***************************************************************************)
EXTENDS Naturals, Sequences

CONSTANT Count    \* number of discovered mutants

VARIABLES
    log,        \* results persisted so far, in order
    cancelled,  \* the caller's context has ended
    fault,      \* something other than a test outcome has failed
    outcome     \* how the run ended, or "running"

vars == <<log, cancelled, fault, outcome>>

(* A result is the verdict of its mutant, or what was left of a run that   *)
(* was cut short.                                                          *)
ResultKind == {"verdict", "interrupted"}

Init ==
    /\ log = <<>>
    /\ cancelled \in BOOLEAN
    /\ fault = FALSE
    /\ outcome = "running"

(***************************************************************************)
(* The next result in discovery order is persisted.  A result of an        *)
(* interrupted test process can only exist once the run is being stopped.  *)
(***************************************************************************)
Commit ==
    /\ outcome = "running"
    /\ Len(log) < Count
    /\ \E k \in ResultKind :
          /\ k = "interrupted" => cancelled \/ fault
          /\ log' = Append(log, [index |-> Len(log), kind |-> k])
    /\ UNCHANGED <<cancelled, fault, outcome>>

Cancel ==
    /\ outcome = "running"
    /\ cancelled' = TRUE
    /\ UNCHANGED <<log, fault, outcome>>

Fail ==
    /\ outcome = "running"
    /\ fault' = TRUE
    /\ UNCHANGED <<log, cancelled, outcome>>

FinishComplete ==
    /\ ~fault
    /\ Len(log) = Count
    /\ \A k \in 1..Len(log) : log[k].kind = "verdict"
    /\ outcome' = "complete"

FinishPartial ==
    /\ cancelled
    /\ ~fault
    /\ outcome' = "partial"

FinishError ==
    /\ fault
    /\ outcome' = "error"

Finish ==
    /\ outcome = "running"
    /\ FinishComplete \/ FinishPartial \/ FinishError
    /\ UNCHANGED <<log, cancelled, fault>>

Next == Commit \/ Cancel \/ Fail \/ Finish

Spec == Init /\ [][Next]_vars
=============================================================================
