--------------------------- MODULE SequentialRun ---------------------------
(***************************************************************************)
(* The in-memory executor with one worker: executeMutantsSequential in     *)
(* internal/analysis/analysis.go.  One loop, which another goroutine can   *)
(* only influence by cancelling the context between any two of its steps.  *)
(***************************************************************************)
EXTENDS Naturals, Sequences

CONSTANT Count    \* number of discovered mutants

RunKind == {"verdict", "interrupted", "hard"}

VARIABLES
    ctxDone,     \* the caller's context: signal or total deadline
    pc,          \* where the loop is
    results,     \* the slice of results
    hardErr,     \* what the last run returned as its error
    complete,    \* the flag the function returns
    outcome      \* how the call ended

vars == <<ctxDone, pc, results, hardErr, complete, outcome>>

Result == [index : 0..Count, kind : {"verdict", "interrupted"}]

TypeOK ==
    /\ ctxDone \in BOOLEAN
    /\ pc \in {"head", "run", "check", "return", "done"}
    /\ results \in Seq(Result)
    /\ Len(results) <= Count
    /\ hardErr \in {"none", "run"}
    /\ complete \in BOOLEAN
    /\ outcome \in {"running", "complete", "partial", "error"}

Init ==
    /\ ctxDone \in BOOLEAN
    /\ pc = "head"
    /\ results = <<>>
    /\ hardErr = "none"
    /\ complete = TRUE
    /\ outcome = "running"

CtxDone ==
    /\ ~ctxDone
    /\ pc # "done"
    /\ ctxDone' = TRUE
    /\ UNCHANGED <<pc, results, hardErr, complete, outcome>>

LoopTop ==
    /\ pc = "head"
    /\ IF Len(results) < Count
       THEN IF ctxDone
            THEN pc' = "return" /\ complete' = FALSE
            ELSE pc' = "run" /\ UNCHANGED complete
       ELSE pc' = "return" /\ UNCHANGED complete
    /\ UNCHANGED <<ctxDone, results, hardErr, outcome>>

RunResult(k) ==
    /\ pc = "run"
    /\ k = "interrupted" => ctxDone
    /\ results' = Append(results, [index |-> Len(results), kind |-> k])
    /\ pc' = "check"
    /\ UNCHANGED <<ctxDone, hardErr, complete, outcome>>

RunError ==
    /\ pc = "run"
    /\ hardErr' = "run"
    /\ pc' = "return"
    /\ UNCHANGED <<ctxDone, results, complete, outcome>>

CheckAfter ==
    /\ pc = "check"
    /\ IF ctxDone
       THEN pc' = "return" /\ complete' = FALSE
       ELSE pc' = "head" /\ UNCHANGED complete
    /\ UNCHANGED <<ctxDone, results, hardErr, outcome>>

Return ==
    /\ pc = "return"
    /\ outcome' = IF hardErr # "none" THEN "error"
                  ELSE IF complete THEN "complete" ELSE "partial"
    /\ pc' = "done"
    /\ UNCHANGED <<ctxDone, results, hardErr, complete>>

Terminated == pc = "done" /\ UNCHANGED vars

Step ==
    \/ LoopTop
    \/ \E k \in {"verdict", "interrupted"} : RunResult(k)
    \/ RunError
    \/ CheckAfter
    \/ Return

Next == CtxDone \/ Step \/ Terminated

Spec == Init /\ [][Next]_vars

-----------------------------------------------------------------------------
(* Properties. *)

(* What every step of the loop keeps: the results are those of the first   *)
(* mutants in discovery order, only the last may have been cut short, and  *)
(* the loop neither goes on after such a result nor calls the run complete *)
(* although all results are there (analysis.go:807-833).                   *)
LoopInv ==
    /\ TypeOK
    /\ \A k \in 1..Len(results) :
          /\ results[k].index = k - 1
          /\ results[k].kind = "interrupted" =>
                ctxDone /\ pc \notin {"head", "run"}
                        /\ (pc \in {"return", "done"} => ~complete)
    /\ pc = "run" => Len(results) < Count
    /\ hardErr # "none" => pc \in {"return", "done"}
    /\ ~complete => pc \in {"return", "done"} /\ ctxDone
    /\ pc \in {"return", "done"} /\ complete /\ hardErr = "none" =>
          Len(results) = Count
    /\ pc = "done" <=> outcome # "running"
=============================================================================
