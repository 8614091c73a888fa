---------------------------- MODULE ParallelPool ----------------------------
(***************************************************************************)
(* The in-memory executor with several workers: executeMutantsParallel in  *)
(* internal/analysis/analysis.go.  A dispatcher hands indices to workers   *)
(* over an unbuffered channel; a worker stores its result at its index;    *)
(* the main goroutine waits for the workers and merges what is there.      *)
(*                                                                         *)
(* A send on the unbuffered channel and its receive are one step.  A       *)
(* result is the kind of ending its run had.  Cache-write bookkeeping and  *)
(* the progress callback are left out.                                     *)
(***************************************************************************)
EXTENDS Integers, FiniteSets

CONSTANTS
    Count,         \* number of discovered mutants
    WorkerLimit    \* configured workers, more than one

ASSUME PoolAssumption ==
    /\ Count \in Nat
    /\ WorkerLimit \in Nat \ {0, 1}

Index == 0 .. Count - 1

Workers == 1 .. (IF WorkerLimit > Count THEN Count ELSE WorkerLimit)

RunKind == {"verdict", "interrupted", "hard"}

VARIABLES
    ctxDone,         \* the caller's context: signal or total deadline
    innerCancelled,  \* cancelInner() was called
    pc,              \* where the main goroutine is
    dpc,             \* where the dispatcher is
    next,            \* index the dispatcher offers next
    wpc,             \* where each worker is
    hand,            \* index each worker works on
    got,             \* what the worker's run returned
    results,         \* the slots, "nil" until a worker fills one
    hardErr,         \* the first error that is not a test outcome
    complete,        \* the second value returned
    outcome,         \* how the call ended
    failed           \* history: mutants whose run returned an error

mvars == <<pc, complete, outcome>>
dvars == <<dpc, next>>
wvars == <<wpc, hand, got, failed>>
vars == <<ctxDone, innerCancelled, mvars, dvars, wvars, results, hardErr>>

InnerErr == ctxDone \/ innerCancelled

TypeOK ==
    /\ ctxDone \in BOOLEAN
    /\ innerCancelled \in BOOLEAN
    /\ pc \in {"start", "wait", "check", "merge", "done"}
    /\ dpc \in {"idle", "send", "closed"}
    /\ next \in 0..Count
    /\ wpc \in [Workers -> {"idle", "taken", "running", "ran", "failed",
                            "exited"}]
    /\ hand \in [Workers -> 0..Count]
    /\ got \in [Workers -> RunKind]
    /\ results \in [Index -> {"nil", "verdict", "interrupted"}]
    /\ hardErr \in {"none", "worker"}
    /\ complete \in BOOLEAN
    /\ outcome \in {"running", "complete", "partial", "error"}
    /\ failed \in SUBSET Index

Init ==
    /\ ctxDone \in BOOLEAN
    /\ innerCancelled = FALSE
    /\ pc = "start"
    /\ dpc = "idle"
    /\ next = 0
    /\ wpc = [w \in Workers |-> "idle"]
    /\ hand = [w \in Workers |-> 0]
    /\ got = [w \in Workers |-> "verdict"]
    /\ results = [i \in Index |-> "nil"]
    /\ hardErr = "none"
    /\ complete = FALSE
    /\ outcome = "running"
    /\ failed = {}

-----------------------------------------------------------------------------
(* Seeded faults: what a plausible slip would make of a definition below.  *)

(* Results are stored in completion order, at the next free slot. *)
Record_CompletionOrder(w) ==
    /\ wpc[w] = "ran"
    /\ got[w] # "hard"
    /\ LET free == {i \in Index : results[i] = "nil"}
       IN  results' = [results EXCEPT
              ![CHOOSE i \in free : \A j \in free : i <= j] = got[w]]
    /\ wpc' = [wpc EXCEPT ![w] = "idle"]
    /\ UNCHANGED <<ctxDone, innerCancelled, mvars, dvars, hand, got, failed,
                   hardErr>>

(* A worker does not notice that the channel is closed and receives zeros. *)
Exit_IgnoresClosed(w) ==
    /\ wpc[w] = "idle"
    /\ dpc = "closed"
    /\ hand' = [hand EXCEPT ![w] = 0]
    /\ wpc' = [wpc EXCEPT ![w] = "taken"]
    /\ UNCHANGED <<ctxDone, innerCancelled, mvars, dvars, got, failed,
                   results, hardErr>>

(* Completeness is judged by the results alone. *)
ReadContext_Ignored ==
    /\ pc = "check"
    /\ hardErr = "none"
    /\ complete' = TRUE
    /\ pc' = "merge"
    /\ UNCHANGED <<ctxDone, innerCancelled, outcome, dvars, wvars,
                   results, hardErr>>

-----------------------------------------------------------------------------
CtxDone ==
    /\ ~ctxDone
    /\ pc # "done"
    /\ ctxDone' = TRUE
    /\ UNCHANGED <<innerCancelled, mvars, dvars, wvars, results, hardErr>>

(* Nothing to do is a complete run, whatever the context says. *)
Start ==
    /\ pc = "start"
    /\ IF Count = 0
       THEN /\ complete' = TRUE
            /\ outcome' = "complete"
            /\ pc' = "done"
            /\ UNCHANGED dpc
       ELSE /\ pc' = "wait"
            /\ dpc' = "send"
            /\ UNCHANGED <<complete, outcome>>
    /\ UNCHANGED <<ctxDone, innerCancelled, next, wvars, results, hardErr>>

(* work <- i meets a worker that is ranging over the channel.  The select  *)
(* may take this branch although the context is done.                      *)
Dispatch(w) ==
    /\ dpc = "send"
    /\ next < Count
    /\ wpc[w] = "idle"
    /\ hand' = [hand EXCEPT ![w] = next]
    /\ wpc' = [wpc EXCEPT ![w] = "taken"]
    /\ next' = next + 1
    /\ UNCHANGED <<ctxDone, innerCancelled, mvars, dpc, got, failed, results,
                   hardErr>>

(* All sent, or the context is done: the deferred close(work) runs. *)
StopDispatch ==
    /\ dpc = "send"
    /\ next = Count \/ InnerErr
    /\ dpc' = "closed"
    /\ UNCHANGED <<ctxDone, innerCancelled, mvars, next, wvars, results, hardErr>>

Drain(w) ==
    /\ wpc[w] = "taken"
    /\ InnerErr
    /\ wpc' = [wpc EXCEPT ![w] = "idle"]
    /\ UNCHANGED <<ctxDone, innerCancelled, mvars, dvars, hand, got, failed,
                   results, hardErr>>

StartRun(w) ==
    /\ wpc[w] = "taken"
    /\ ~InnerErr
    /\ wpc' = [wpc EXCEPT ![w] = "running"]
    /\ UNCHANGED <<ctxDone, innerCancelled, mvars, dvars, hand, got, failed,
                   results, hardErr>>

FinishRun(w, k) ==
    /\ wpc[w] = "running"
    /\ k = "interrupted" => InnerErr
    /\ got' = [got EXCEPT ![w] = k]
    /\ wpc' = [wpc EXCEPT ![w] = "ran"]
    /\ failed' = IF k = "hard" THEN failed \cup {hand[w]} ELSE failed
    /\ UNCHANGED <<ctxDone, innerCancelled, mvars, dvars, hand, results, hardErr>>

Record(w) ==
    /\ wpc[w] = "ran"
    /\ got[w] # "hard"
    /\ results' = [results EXCEPT ![hand[w]] = got[w]]
    /\ wpc' = [wpc EXCEPT ![w] = "idle"]
    /\ UNCHANGED <<ctxDone, innerCancelled, mvars, dvars, hand, got, failed,
                   hardErr>>

ReportError(w) ==
    /\ wpc[w] = "ran"
    /\ got[w] = "hard"
    /\ hardErr' = "worker"
    /\ wpc' = [wpc EXCEPT ![w] = "failed"]
    /\ UNCHANGED <<ctxDone, innerCancelled, mvars, dvars, hand, got, failed,
                   results>>

CancelInner(w) ==
    /\ wpc[w] = "failed"
    /\ innerCancelled' = TRUE
    /\ wpc' = [wpc EXCEPT ![w] = "idle"]
    /\ UNCHANGED <<ctxDone, mvars, dvars, hand, got, failed, results, hardErr>>

Exit(w) ==
    /\ wpc[w] = "idle"
    /\ dpc = "closed"
    /\ wpc' = [wpc EXCEPT ![w] = "exited"]
    /\ UNCHANGED <<ctxDone, innerCancelled, mvars, dvars, hand, got, failed,
                   results, hardErr>>

Wait ==
    /\ pc = "wait"
    /\ \A w \in Workers : wpc[w] = "exited"
    /\ pc' = "check"
    /\ UNCHANGED <<ctxDone, innerCancelled, complete, outcome, dvars,
                   wvars, results, hardErr>>

ReturnError ==
    /\ pc = "check"
    /\ hardErr # "none"
    /\ outcome' = "error"
    /\ pc' = "done"
    /\ UNCHANGED <<ctxDone, innerCancelled, complete, dvars, wvars,
                   results, hardErr>>

ReadContext ==
    /\ pc = "check"
    /\ hardErr = "none"
    /\ complete' = ~ctxDone
    /\ pc' = "merge"
    /\ UNCHANGED <<ctxDone, innerCancelled, outcome, dvars, wvars,
                   results, hardErr>>

(* The empty slots make the run incomplete and are skipped. *)
Merge ==
    /\ pc = "merge"
    /\ LET ok == complete /\ \A i \in Index : results[i] # "nil"
       IN  /\ complete' = ok
           /\ outcome' = IF ok THEN "complete" ELSE "partial"
    /\ pc' = "done"
    /\ UNCHANGED <<ctxDone, innerCancelled, dvars, wvars, results, hardErr>>

Terminated == pc = "done" /\ UNCHANGED vars

-----------------------------------------------------------------------------
WorkerStep(w) ==
    \/ Drain(w) \/ StartRun(w) \/ Record(w) \/ ReportError(w)
    \/ CancelInner(w) \/ Exit(w)

Dispatcher == StopDispatch \/ \E w \in Workers : Dispatch(w)

Main == Start \/ Wait \/ ReturnError \/ ReadContext \/ Merge

Run(w) == \E k \in RunKind : FinishRun(w, k)

Next ==
    \/ CtxDone
    \/ Main
    \/ Dispatcher
    \/ \E w \in Workers : WorkerStep(w) \/ Run(w)
    \/ Terminated

Spec == Init /\ [][Next]_vars

(* Runnable goroutines run, and every run() returns (its test process has  *)
(* a timeout and is killed on cancellation).                               *)
FairSpec ==
    /\ Spec
    /\ WF_vars(Main)
    /\ WF_vars(Dispatcher)
    /\ \A w \in Workers : WF_vars(WorkerStep(w)) /\ WF_vars(Run(w))

-----------------------------------------------------------------------------
(* Properties. *)

AtWork == {"taken", "running", "ran"}

(* Why work may be left undone or a result be cut short.                   *)
Stopped == ctxDone \/ failed # {}

(* The slots and hardErr are read without the mutex at the end: no worker  *)
(* may still be at work then (analysis.go:932-948).                        *)
MergeIsAlone ==
    pc \in {"check", "merge", "done"} =>
        \A w \in Workers : wpc[w] = "exited" \/ Count = 0

(* A slot belongs to the worker that was handed its index: nobody else     *)
(* works on it, it is empty until that worker stores its result, and an    *)
(* index the dispatcher has not offered yet has no result                  *)
(* (analysis.go:871, 905-906).                                             *)
SlotOwnership ==
    /\ \A w \in Workers : wpc[w] \in AtWork =>
          /\ results[hand[w]] = "nil"
          /\ hand[w] < next
          /\ \A v \in Workers \ {w} : wpc[v] \in AtWork => hand[v] # hand[w]
    /\ \A i \in Index : i >= next => results[i] = "nil"

(* A worker's error is what the call returns, also when its cancellation   *)
(* stops the others first and when several workers fail                    *)
(* (analysis.go:897-903, 934-936).                                         *)
ErrorNotLost == (outcome # "running" /\ failed # {}) => outcome = "error"

(* Where the parts of the pool are while others are where they are: the    *)
(* workers end after close(work), and the merge comes after the check of   *)
(* hardErr (analysis.go:926-948).                                          *)
ControlInv ==
    /\ pc = "start" => dpc = "idle"
    /\ \A w \in Workers : wpc[w] = "exited" => dpc = "closed"
    /\ pc = "done" <=> outcome # "running"
    /\ pc = "merge" => hardErr = "none" /\ (complete \/ ctxDone)
    /\ pc = "done" /\ outcome # "error" => hardErr = "none"

(* An error is kept or on its way; the inner cancellation and a result     *)
(* that was cut short have a cause, which the merge knows                  *)
(* (analysis.go:886-906, 937).                                             *)
FaultInv ==
    /\ failed # {} =>
          hardErr # "none" \/ \E w \in Workers : wpc[w] = "ran" /\ got[w] = "hard"
    /\ hardErr # "none" \/ innerCancelled => failed # {}
    /\ \A w \in Workers :
          /\ wpc[w] = "ran" /\ got[w] = "hard" => failed # {}
          /\ wpc[w] = "ran" /\ got[w] = "interrupted" => Stopped
          /\ wpc[w] = "failed" => hardErr # "none"
    /\ \A i \in Index : results[i] = "interrupted" => Stopped
    /\ pc = "merge" /\ complete => \A i \in Index : results[i] # "interrupted"

(* An index that was handed out has its result or is being worked on,      *)
(* unless something stopped the pool; only then is one never handed out    *)
(* (analysis.go:876-884, 921-930).                                         *)
PlaceInv ==
    /\ \A i \in Index : i < next =>
          \/ results[i] # "nil"
          \/ Stopped
          \/ \E w \in Workers : wpc[w] \in AtWork /\ hand[w] = i
    /\ dpc = "closed" => next = Count \/ Stopped

(* All of it: what every interleaving of the pool keeps.                   *)
PoolInv ==
    /\ TypeOK /\ SlotOwnership /\ MergeIsAlone
    /\ ControlInv /\ FaultInv /\ PlaceInv

Indexed == {[index |-> i, kind |-> results[i]] :
                i \in {j \in Index : results[j] # "nil"}}

(* The call returns and leaves no goroutine behind: the dispatcher does    *)
(* not stay at its send when the workers stop (analysis.go:921-932).       *)
Termination == <>[](pc = "done" /\ dpc # "send")
=============================================================================
