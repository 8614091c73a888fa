----------------------------- MODULE Executors -----------------------------
(***************************************************************************)
(* executeMutants in internal/analysis/analysis.go: the in-memory run is   *)
(* carried out by the pool when more than one worker is configured and by  *)
(* the sequential loop otherwise.  Both work under the caller's context,   *)
(* ctxDone; the loop has its own locals.  WorkerLimit bounds the pool and  *)
(* is at least two; one worker is the mode "sequential".                   *)
(***************************************************************************)
EXTENDS ParallelPool, Sequences

VARIABLES
    mode,        \* which executor was called
    seqPc,       \* the loop's position and locals, as in SequentialRun
    seqResults,
    seqHardErr,
    seqComplete,
    seqOutcome

seqVars == <<seqPc, seqResults, seqHardErr, seqComplete, seqOutcome>>
poolVars == <<innerCancelled, mvars, dvars, wvars, results, hardErr>>
allVars == <<mode, seqVars, vars>>

Loop == INSTANCE SequentialRun WITH
            pc <- seqPc, results <- seqResults, hardErr <- seqHardErr,
            complete <- seqComplete, outcome <- seqOutcome

ExecutorsInit ==
    /\ mode \in {"parallel", "sequential"}
    /\ Init
    /\ Loop!Init

Parallel ==
    /\ mode = "parallel"
    /\ Next
    /\ UNCHANGED <<mode, seqVars>>

Sequential ==
    /\ mode = "sequential"
    /\ Loop!Next
    /\ UNCHANGED <<mode, poolVars>>

ExecutorsNext == Parallel \/ Sequential

ExecutorsSpec == ExecutorsInit /\ [][ExecutorsNext]_allVars

(* Runnable goroutines run and every run() returns, as for the pool.       *)
ExecutorsFairSpec ==
    /\ ExecutorsSpec
    /\ WF_allVars(mode = "parallel" /\ Main /\ UNCHANGED <<mode, seqVars>>)
    /\ WF_allVars(mode = "parallel" /\ Dispatcher /\ UNCHANGED <<mode, seqVars>>)
    /\ \A w \in Workers :
          /\ WF_allVars(mode = "parallel" /\ WorkerStep(w)
                           /\ UNCHANGED <<mode, seqVars>>)
          /\ WF_allVars(mode = "parallel" /\ Run(w)
                           /\ UNCHANGED <<mode, seqVars>>)
    /\ WF_allVars(mode = "sequential" /\ Loop!Step /\ UNCHANGED <<mode, poolVars>>)

-----------------------------------------------------------------------------
(* Properties. *)

(* What every interleaving keeps: in the pool a slot is its worker's, the  *)
(* merge is alone, an error is kept or on its way and a result cut short   *)
(* has a cause; in the loop results are in order and none follows one that *)
(* was cut short (analysis.go:783-958).                                    *)
ExecutorsInv ==
    /\ mode \in {"parallel", "sequential"}
    /\ mode = "parallel" => PoolInv
    /\ mode = "sequential" => Loop!LoopInv

SeqIndexed == {seqResults[k] : k \in 1..Len(seqResults)}

AnyExp == INSTANCE Experiment WITH
    results <- IF mode = "parallel" THEN Indexed ELSE SeqIndexed,
    cancelled <- ctxDone,
    fault <- IF mode = "parallel" THEN failed # {} ELSE seqHardErr # "none",
    outcome <- IF mode = "parallel" THEN outcome ELSE seqOutcome

(* Either executor is an experiment: complete only with every mutant's own *)
(* result, partial only when the caller cancelled (analysis.go:783-788,    *)
(* 934-948).                                                               *)
ImplementsAnyExperiment == AnyExp!Spec

(* The call returns and leaves no goroutine behind: the dispatcher does    *)
(* not stay at its send when the workers stop, and the loop ends           *)
(* (analysis.go:807-833, 921-932).                                         *)
ExecutorsTermination ==
    /\ mode = "parallel" => Termination
    /\ mode = "sequential" => <>[](seqPc = "done")
=============================================================================
