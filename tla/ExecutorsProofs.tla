--------------------------- MODULE ExecutorsProofs ---------------------------
(***************************************************************************)
(* The in-memory executors for every number of mutants and every limit on  *)
(* workers: their invariant, and that either is an experiment.             *)
(***************************************************************************)
EXTENDS Executors, TLAPS

-----------------------------------------------------------------------------
(* The pool.                                                               *)

(* There is a worker whenever there is something to do. *)
LEMMA SomeWorker == Count # 0 => 1 \in Workers
BY PoolAssumption DEF Workers

(* The first state satisfies every part. *)
LEMMA PoolInit == Init => PoolInv
<1> SUFFICES ASSUME Init PROVE PoolInv
  OBVIOUS
<1>1. TypeOK
  <2>1. 0 \in 0..Count
    BY PoolAssumption
  <2>2. hand \in [Workers -> 0..Count]
    BY <2>1 DEF Init
  <2> QED
    BY <2>1, <2>2 DEF Init, TypeOK, RunKind
<1>2. SlotOwnership /\ MergeIsAlone
  BY DEF Init, SlotOwnership, MergeIsAlone, AtWork
<1>3. ControlInv /\ FaultInv
  BY DEF Init, ControlInv, FaultInv
<1>4. PlaceInv
  BY PoolAssumption DEF Init, PlaceInv, Index
<1> QED
  BY <1>1, <1>2, <1>3, <1>4 DEF PoolInv

-----------------------------------------------------------------------------
(* Every step keeps every part. *)

(* A cancellation by the caller adds a cause and disturbs nothing else. *)
LEMMA CtxDoneStep ==
    ASSUME PoolInv, CtxDone
    PROVE  PoolInv'
<1> USE PoolAssumption DEF PoolInv, CtxDone, mvars, dvars, wvars
<1>1. TypeOK'
  BY DEF TypeOK, RunKind
<1>2. SlotOwnership'
  BY DEF TypeOK, SlotOwnership, AtWork, Index
<1>3. MergeIsAlone'
  BY DEF TypeOK, MergeIsAlone, ControlInv
<1>4. ControlInv'
  BY DEF TypeOK, ControlInv
<1>5. FaultInv'
  BY DEF TypeOK, FaultInv, Stopped
<1>6. PlaceInv'
  BY DEF TypeOK, PlaceInv, Stopped, AtWork, Index
<1> QED
  BY <1>1, <1>2, <1>3, <1>4, <1>5, <1>6

(* The call starts its workers on no work, or returns for no mutants. *)
LEMMA StartStep ==
    ASSUME PoolInv, Start
    PROVE  PoolInv'
<1> USE PoolAssumption DEF PoolInv, Start, mvars, dvars, wvars
<1>1. TypeOK'
  BY DEF TypeOK, RunKind
<1>2. SlotOwnership'
  BY DEF TypeOK, SlotOwnership, AtWork, Index
<1>3. MergeIsAlone'
  BY DEF TypeOK, MergeIsAlone, ControlInv
<1>4. ControlInv'
  <2>1. CASE Count = 0
    <3>1. failed = {}
      BY <2>1 DEF TypeOK, Index
    <3>2. hardErr = "none"
      BY <3>1 DEF TypeOK, FaultInv
    <3> QED
      BY <2>1, <3>2 DEF TypeOK, ControlInv
  <2>2. CASE Count # 0
    BY <2>2 DEF TypeOK, ControlInv
  <2> QED
    BY <2>1, <2>2
<1>5. FaultInv'
  BY DEF TypeOK, FaultInv, Stopped
<1>6. PlaceInv'
  BY DEF TypeOK, PlaceInv, Stopped, AtWork, Index
<1> QED
  BY <1>1, <1>2, <1>3, <1>4, <1>5, <1>6

(* The call waits until the dispatcher and the workers are gone. *)
LEMMA WaitStep ==
    ASSUME PoolInv, Wait
    PROVE  PoolInv'
<1> USE PoolAssumption DEF PoolInv, Wait, mvars, dvars, wvars
<1>1. TypeOK'
  BY DEF TypeOK, RunKind
<1>2. SlotOwnership'
  BY DEF TypeOK, SlotOwnership, AtWork, Index
<1>3. MergeIsAlone'
  BY DEF TypeOK, MergeIsAlone, ControlInv
<1>4. ControlInv'
  BY DEF TypeOK, ControlInv
<1>5. FaultInv'
  BY DEF TypeOK, FaultInv, Stopped
<1>6. PlaceInv'
  BY DEF TypeOK, PlaceInv, Stopped, AtWork, Index
<1> QED
  BY <1>1, <1>2, <1>3, <1>4, <1>5, <1>6

(* Returning the error, the call knows one. *)
LEMMA ReturnErrorStep ==
    ASSUME PoolInv, ReturnError
    PROVE  PoolInv'
<1> USE PoolAssumption DEF PoolInv, ReturnError, mvars, dvars, wvars
<1>1. TypeOK'
  BY DEF TypeOK, RunKind
<1>2. SlotOwnership'
  BY DEF TypeOK, SlotOwnership, AtWork, Index
<1>3. MergeIsAlone'
  BY DEF TypeOK, MergeIsAlone, ControlInv
<1>4. ControlInv'
  BY DEF TypeOK, ControlInv
<1>5. FaultInv'
  BY DEF TypeOK, FaultInv, Stopped
<1>6. PlaceInv'
  BY DEF TypeOK, PlaceInv, Stopped, AtWork, Index
<1> QED
  BY <1>1, <1>2, <1>3, <1>4, <1>5, <1>6

(* The context read before the merge covers every run cut short. *)
LEMMA ReadContextStep ==
    ASSUME PoolInv, ReadContext
    PROVE  PoolInv'
<1> USE PoolAssumption DEF PoolInv, ReadContext, mvars, dvars, wvars
<1>1. TypeOK'
  BY DEF TypeOK, RunKind
<1>2. SlotOwnership'
  BY DEF TypeOK, SlotOwnership, AtWork, Index
<1>3. MergeIsAlone'
  BY DEF TypeOK, MergeIsAlone, ControlInv
<1>4. ControlInv'
  BY DEF TypeOK, ControlInv
<1>5. FaultInv'
  BY DEF TypeOK, FaultInv, Stopped, MergeIsAlone, Index
<1>6. PlaceInv'
  BY DEF TypeOK, PlaceInv, Stopped, AtWork, Index
<1> QED
  BY <1>1, <1>2, <1>3, <1>4, <1>5, <1>6

(* The merge works alone: nobody is left to write a slot. *)
LEMMA MergeStep ==
    ASSUME PoolInv, Merge
    PROVE  PoolInv'
<1> USE PoolAssumption DEF PoolInv, Merge, mvars, dvars, wvars
<1>1. TypeOK'
  BY DEF TypeOK, RunKind
<1>2. SlotOwnership'
  BY DEF TypeOK, SlotOwnership, AtWork, Index
<1>3. MergeIsAlone'
  BY DEF TypeOK, MergeIsAlone, ControlInv
<1>4. ControlInv'
  BY DEF TypeOK, ControlInv
<1>5. FaultInv'
  BY DEF TypeOK, FaultInv, Stopped
<1>6. PlaceInv'
  BY DEF TypeOK, PlaceInv, Stopped, AtWork, Index
<1> QED
  BY <1>1, <1>2, <1>3, <1>4, <1>5, <1>6

(* The dispatcher stops only for the context or for want of work. *)
LEMMA StopDispatchStep ==
    ASSUME PoolInv, StopDispatch
    PROVE  PoolInv'
<1> USE PoolAssumption DEF PoolInv, StopDispatch, mvars, dvars, wvars
<1>1. TypeOK'
  BY DEF TypeOK, RunKind
<1>2. SlotOwnership'
  BY DEF TypeOK, SlotOwnership, AtWork, Index
<1>3. MergeIsAlone'
  BY DEF TypeOK, MergeIsAlone, ControlInv
<1>4. ControlInv'
  BY DEF TypeOK, ControlInv
<1>5. FaultInv'
  BY DEF TypeOK, FaultInv, Stopped
<1>6. PlaceInv'
  BY DEF TypeOK, PlaceInv, FaultInv, Stopped, InnerErr, AtWork, Index
<1> QED
  BY <1>1, <1>2, <1>3, <1>4, <1>5, <1>6

(* A handed-out index was nowhere else. *)
LEMMA DispatchStep ==
    ASSUME PoolInv, NEW w \in Workers, Dispatch(w)
    PROVE  PoolInv'
<1> USE PoolAssumption DEF PoolInv, Dispatch, mvars, dvars, wvars
<1>1. TypeOK'
  BY DEF TypeOK, RunKind
<1>2. SlotOwnership'
  BY DEF TypeOK, SlotOwnership, AtWork, Index
<1>3. MergeIsAlone'
  BY DEF TypeOK, MergeIsAlone, ControlInv
<1>4. ControlInv'
  BY DEF TypeOK, ControlInv
<1>5. FaultInv'
  BY DEF TypeOK, FaultInv, Stopped
<1>6. PlaceInv'
  BY DEF TypeOK, PlaceInv, Stopped, AtWork, Index
<1> QED
  BY <1>1, <1>2, <1>3, <1>4, <1>5, <1>6

(* After the close, a worker with empty hands leaves. *)
LEMMA DrainStep ==
    ASSUME PoolInv, NEW w \in Workers, Drain(w)
    PROVE  PoolInv'
<1> USE PoolAssumption DEF PoolInv, Drain, mvars, dvars, wvars
<1>1. TypeOK'
  BY DEF TypeOK, RunKind
<1>2. SlotOwnership'
  BY DEF TypeOK, SlotOwnership, AtWork, Index
<1>3. MergeIsAlone'
  BY DEF TypeOK, MergeIsAlone, ControlInv
<1>4. ControlInv'
  BY DEF TypeOK, ControlInv
<1>5. FaultInv'
  BY DEF TypeOK, FaultInv, Stopped
<1>6. PlaceInv'
  BY DEF TypeOK, PlaceInv, FaultInv, Stopped, InnerErr, AtWork, Index
<1> QED
  BY <1>1, <1>2, <1>3, <1>4, <1>5, <1>6

(* A worker looks at the context and runs the index it holds. *)
LEMMA StartRunStep ==
    ASSUME PoolInv, NEW w \in Workers, StartRun(w)
    PROVE  PoolInv'
<1> USE PoolAssumption DEF PoolInv, StartRun, mvars, dvars, wvars
<1>1. TypeOK'
  BY DEF TypeOK, RunKind
<1>2. SlotOwnership'
  BY DEF TypeOK, SlotOwnership, AtWork, Index
<1>3. MergeIsAlone'
  BY DEF TypeOK, MergeIsAlone, ControlInv
<1>4. ControlInv'
  BY DEF TypeOK, ControlInv
<1>5. FaultInv'
  BY DEF TypeOK, FaultInv, Stopped
<1>6. PlaceInv'
  BY DEF TypeOK, PlaceInv, Stopped, AtWork, Index
<1> QED
  BY <1>1, <1>2, <1>3, <1>4, <1>5, <1>6

(* A result goes into the holder's own slot, which nobody else writes. *)
LEMMA RecordStep ==
    ASSUME PoolInv, NEW w \in Workers, Record(w)
    PROVE  PoolInv'
<1> USE PoolAssumption DEF PoolInv, Record, mvars, dvars, wvars
<1>1. TypeOK'
  BY DEF TypeOK, RunKind
<1>2. SlotOwnership'
  BY DEF TypeOK, SlotOwnership, AtWork, Index
<1>3. MergeIsAlone'
  BY DEF TypeOK, MergeIsAlone, ControlInv
<1>4. ControlInv'
  BY DEF TypeOK, ControlInv
<1>5. FaultInv'
  <2>1. hand[w] \in Index /\ Count # 0
    BY DEF TypeOK, SlotOwnership, AtWork, Index
  <2>2. pc \notin {"check", "merge", "done"}
    BY <2>1 DEF MergeIsAlone
  <2>3. got[w] = "interrupted" => Stopped
    BY DEF FaultInv
  <2>4. \A i \in Index : results'[i] = IF i = hand[w] THEN got[w] ELSE results[i]
    BY <2>1 DEF TypeOK
  <2> QED
    BY <2>2, <2>3, <2>4 DEF TypeOK, FaultInv, Stopped
<1>6. PlaceInv'
  <2>1. hand[w] \in Index
    BY DEF TypeOK, SlotOwnership, AtWork, Index
  <2>2. \A i \in Index : results'[i] = IF i = hand[w] THEN got[w] ELSE results[i]
    BY <2>1 DEF TypeOK
  <2>3. got[w] # "nil"
    BY DEF TypeOK, RunKind
  <2> QED
    BY <2>2, <2>3 DEF TypeOK, PlaceInv, Stopped, AtWork
<1> QED
  BY <1>1, <1>2, <1>3, <1>4, <1>5, <1>6

(* The first error is kept, later ones only mark their runs. *)
LEMMA ReportErrorStep ==
    ASSUME PoolInv, NEW w \in Workers, ReportError(w)
    PROVE  PoolInv'
<1> USE PoolAssumption DEF PoolInv, ReportError, mvars, dvars, wvars
<1>1. TypeOK'
  BY DEF TypeOK, RunKind
<1>2. SlotOwnership'
  BY DEF TypeOK, SlotOwnership, AtWork, Index
<1>3. MergeIsAlone'
  BY DEF TypeOK, MergeIsAlone, ControlInv
<1>4. ControlInv'
  <2>1. hand[w] \in Index /\ Count # 0
    BY DEF TypeOK, SlotOwnership, AtWork, Index
  <2>2. pc \notin {"check", "merge", "done"}
    BY <2>1 DEF MergeIsAlone
  <2> QED
    BY <2>2 DEF TypeOK, ControlInv
<1>5. FaultInv'
  BY DEF TypeOK, FaultInv, Stopped
<1>6. PlaceInv'
  BY DEF TypeOK, PlaceInv, FaultInv, Stopped
<1> QED
  BY <1>1, <1>2, <1>3, <1>4, <1>5, <1>6

(* The inner cancellation has an error as its cause. *)
LEMMA CancelInnerStep ==
    ASSUME PoolInv, NEW w \in Workers, CancelInner(w)
    PROVE  PoolInv'
<1> USE PoolAssumption DEF PoolInv, CancelInner, mvars, dvars, wvars
<1>1. TypeOK'
  BY DEF TypeOK, RunKind
<1>2. SlotOwnership'
  BY DEF TypeOK, SlotOwnership, AtWork, Index
<1>3. MergeIsAlone'
  BY DEF TypeOK, MergeIsAlone, ControlInv
<1>4. ControlInv'
  BY DEF TypeOK, ControlInv
<1>5. FaultInv'
  BY DEF TypeOK, FaultInv, Stopped
<1>6. PlaceInv'
  BY DEF TypeOK, PlaceInv, Stopped, AtWork, Index
<1> QED
  BY <1>1, <1>2, <1>3, <1>4, <1>5, <1>6

(* A worker leaves with empty hands. *)
LEMMA ExitStep ==
    ASSUME PoolInv, NEW w \in Workers, Exit(w)
    PROVE  PoolInv'
<1> USE PoolAssumption DEF PoolInv, Exit, mvars, dvars, wvars
<1>1. TypeOK'
  BY DEF TypeOK, RunKind
<1>2. SlotOwnership'
  BY DEF TypeOK, SlotOwnership, AtWork, Index
<1>3. MergeIsAlone'
  BY DEF TypeOK, MergeIsAlone, ControlInv
<1>4. ControlInv'
  BY DEF TypeOK, ControlInv
<1>5. FaultInv'
  BY DEF TypeOK, FaultInv, Stopped
<1>6. PlaceInv'
  BY DEF TypeOK, PlaceInv, Stopped, AtWork, Index
<1> QED
  BY <1>1, <1>2, <1>3, <1>4, <1>5, <1>6

(* A run ends in one of the three ways. *)
LEMMA FinishRunStep ==
    ASSUME PoolInv, NEW w \in Workers, NEW k \in RunKind, FinishRun(w, k)
    PROVE  PoolInv'
<1> USE PoolAssumption DEF PoolInv, FinishRun, mvars, dvars, wvars
<1>1. TypeOK'
  <2>1. hand[w] \in Index
    BY DEF TypeOK, SlotOwnership, AtWork, Index
  <2> QED
    BY <2>1 DEF TypeOK
<1>2. SlotOwnership'
  BY DEF TypeOK, SlotOwnership, AtWork, Index
<1>3. MergeIsAlone'
  BY DEF TypeOK, MergeIsAlone, ControlInv
<1>4. ControlInv'
  BY DEF TypeOK, ControlInv
<1>5. FaultInv'
  <2>1. k = "interrupted" => Stopped
    BY DEF FaultInv, Stopped, InnerErr
  <2>2. k = "hard" => failed' # {} /\ wpc'[w] = "ran" /\ got'[w] = "hard"
    BY DEF TypeOK
  <2>3. failed \subseteq failed' /\ (k # "hard" => failed' = failed)
    OBVIOUS
  <2>4. \A v \in Workers \ {w} : wpc'[v] = wpc[v] /\ got'[v] = got[v]
    BY DEF TypeOK
  <2>5. wpc'[w] = "ran" /\ got'[w] = k
    BY DEF TypeOK
  <2> QED
    BY <2>1, <2>2, <2>3, <2>4, <2>5 DEF FaultInv, Stopped
<1>6. PlaceInv'
  BY DEF TypeOK, PlaceInv, Stopped, AtWork, Index
<1> QED
  BY <1>1, <1>2, <1>3, <1>4, <1>5, <1>6

-----------------------------------------------------------------------------
(* Every step of the pool keeps its invariant. *)
LEMMA PoolStep == PoolInv /\ [Next]_vars => PoolInv'
<1> SUFFICES ASSUME PoolInv, [Next]_vars PROVE PoolInv'
  OBVIOUS
<1>1. CASE UNCHANGED vars
  BY <1>1 DEF vars, mvars, dvars, wvars, PoolInv, TypeOK, SlotOwnership,
              MergeIsAlone, ControlInv, FaultInv, PlaceInv, Stopped
<1>2. CASE CtxDone \/ Main \/ StopDispatch
  BY <1>2, CtxDoneStep, StartStep, WaitStep, ReturnErrorStep, ReadContextStep,
     MergeStep, StopDispatchStep DEF Main
<1>3. ASSUME NEW w \in Workers, Dispatch(w) \/ WorkerStep(w) \/ Run(w)
      PROVE  PoolInv'
  BY <1>3, DispatchStep, DrainStep, StartRunStep, RecordStep, ReportErrorStep,
     CancelInnerStep, ExitStep, FinishRunStep DEF WorkerStep, Run
<1> QED
  BY <1>1, <1>2, <1>3 DEF Next, Dispatcher, Terminated

-----------------------------------------------------------------------------
(* The loop.                                                               *)

(* The loop's first state satisfies its invariant. *)
LEMMA LoopInit == Loop!Init => Loop!LoopInv
BY PoolAssumption DEF Loop!Init, Loop!LoopInv, Loop!TypeOK, Loop!Result

(* A step of the loop, or of its context, keeps it. *)
LEMMA LoopStep ==
    ASSUME Loop!LoopInv, Loop!Next \/ UNCHANGED Loop!vars
    PROVE  Loop!LoopInv'
<1> USE PoolAssumption DEF Loop!LoopInv, Loop!TypeOK
<1>1. CASE Loop!CtxDone
  BY <1>1 DEF Loop!CtxDone
<1>2. CASE Loop!LoopTop
  <2>1. \A k \in 1..Len(seqResults) : seqResults[k].kind # "interrupted"
    BY <1>2 DEF Loop!LoopTop
  <2>2. seqPc = "head" /\ seqComplete = TRUE /\ UNCHANGED <<ctxDone, seqResults, seqHardErr, seqOutcome>>
    BY <1>2 DEF Loop!LoopTop
  <2>3. CASE seqPc' = "run" /\ seqComplete' = seqComplete
    BY <1>2, <2>1, <2>2, <2>3 DEF Loop!LoopTop
  <2>4. CASE seqPc' = "return" /\ ctxDone /\ seqComplete' = FALSE
    BY <2>1, <2>2, <2>4
  <2>5. CASE seqPc' = "return" /\ seqComplete' = seqComplete
    <3>1. Len(seqResults) = Count
      BY <1>2, <2>2, <2>5 DEF Loop!LoopTop
    <3> QED
      BY <1>2, <2>1, <2>2, <2>5, <3>1 DEF Loop!LoopTop
  <2> QED
    BY <1>2, <2>3, <2>4, <2>5 DEF Loop!LoopTop
<1>3. ASSUME NEW k \in {"verdict", "interrupted"}, Loop!RunResult(k)
      PROVE  Loop!LoopInv'
  <2> DEFINE r == [index |-> Len(seqResults), kind |-> k]
  <2>1. r \in Loop!Result /\ Len(seqResults) < Count
    BY <1>3 DEF Loop!RunResult, Loop!Result
  <2>2. /\ seqResults' = Append(seqResults, r)
        /\ seqPc = "run" /\ seqPc' = "check"
        /\ UNCHANGED <<ctxDone, seqHardErr, seqComplete, seqOutcome>>
    BY <1>3 DEF Loop!RunResult
  <2>3. seqResults' \in Seq(Loop!Result) /\ Len(seqResults') = Len(seqResults) + 1
    BY <2>1, <2>2
  <2>4. \A j \in 1..Len(seqResults') :
            seqResults'[j] = IF j = Len(seqResults) + 1 THEN r ELSE seqResults[j]
    BY <2>1, <2>2
  <2>5. k = "interrupted" => ctxDone
    BY <1>3 DEF Loop!RunResult
  <2> QED
    BY <2>1, <2>2, <2>3, <2>4, <2>5
<1>4. CASE Loop!RunError
  BY <1>4 DEF Loop!RunError
<1>5. CASE Loop!CheckAfter
  BY <1>5 DEF Loop!CheckAfter
<1>6. CASE Loop!Return
  BY <1>6 DEF Loop!Return
<1>7. CASE UNCHANGED Loop!vars
  BY <1>7 DEF Loop!vars
<1> QED
  BY <1>1, <1>2, <1>3, <1>4, <1>5, <1>6, <1>7 DEF Loop!Next, Loop!Step, Loop!Terminated

(* Whichever executor runs, its invariant holds (analysis.go:783-958). *)
THEOREM ExecutorsInvariance == ExecutorsSpec => []ExecutorsInv
<1>1. ExecutorsInit => ExecutorsInv
  BY PoolInit, LoopInit DEF ExecutorsInit, ExecutorsInv
<1>2. ExecutorsInv /\ [ExecutorsNext]_allVars => ExecutorsInv'
  <2> SUFFICES ASSUME ExecutorsInv, [ExecutorsNext]_allVars PROVE ExecutorsInv'
    OBVIOUS
  <2>1. CASE Parallel
    BY <2>1, PoolStep DEF Parallel, ExecutorsInv
  <2>2. CASE Sequential
    BY <2>2, LoopStep DEF Sequential, ExecutorsInv
  <2>3. CASE UNCHANGED allVars
    BY <2>3, PoolStep, LoopStep DEF allVars, seqVars, vars, Loop!vars, ExecutorsInv
  <2> QED
    BY <2>1, <2>2, <2>3 DEF ExecutorsNext
<1> QED
  BY <1>1, <1>2, PTL DEF ExecutorsSpec

-----------------------------------------------------------------------------
(* Only a mutant's run can fail. *)
LEMMA FaultNeedsMutant == PoolInv /\ failed # {} => Count # 0
<1> SUFFICES ASSUME PoolInv, failed # {} PROVE Count # 0
  OBVIOUS
<1>1. PICK i \in failed : i \in Index
  BY DEF PoolInv, TypeOK
<1> QED
  BY <1>1, PoolAssumption DEF Index

(* When the call has returned, a worker's error is what it returned: the   *)
(* cancellation it causes overtakes it nowhere (analysis.go:897-936).      *)
LEMMA ErrorIsReturned == PoolInv => ErrorNotLost
<1> SUFFICES ASSUME PoolInv, outcome # "running", failed # {}
             PROVE  outcome = "error"
  BY DEF ErrorNotLost
<1>1. pc = "done" /\ Count # 0
  BY FaultNeedsMutant DEF PoolInv, ControlInv
<1>2. hardErr # "none"
  BY <1>1 DEF PoolInv, MergeIsAlone, FaultInv
<1> QED
  BY <1>1, <1>2 DEF PoolInv, ControlInv

(* No error of a worker is lost by the parallel executor. *)
THEOREM PoolErrorNotLost == ExecutorsSpec => [](mode = "parallel" => ErrorNotLost)
<1>1. ExecutorsInv => (mode = "parallel" => ErrorNotLost)
  BY ErrorIsReturned DEF ExecutorsInv
<1> QED
  BY <1>1, ExecutorsInvariance, PTL

-----------------------------------------------------------------------------
(* Either executor is an experiment: the pool's steps first. *)

(* What an experiment sees of the pool. *)
LEMMA PoolStutters ==
    ASSUME mode = "parallel", UNCHANGED <<mode, ctxDone, results, failed, outcome>>
    PROVE  UNCHANGED AnyExp!vars
BY DEF AnyExp!vars, Indexed

(* At the merge no error is left: the pool then ends complete or partial.  *)
LEMMA NoFaultAtMerge == PoolInv /\ pc = "merge" => failed = {}
<1> SUFFICES ASSUME PoolInv, pc = "merge", failed # {} PROVE FALSE
  OBVIOUS
<1>1. Count # 0
  BY FaultNeedsMutant
<1> QED
  BY <1>1 DEF PoolInv, ControlInv, FaultInv, MergeIsAlone

(* An empty slot at the merge means that the caller cancelled: with all    *)
(* workers gone and no error, nothing else leaves work undone.             *)
LEMMA EmptySlotIsCancelled ==
    ASSUME PoolInv, pc = "merge", NEW i \in Index, results[i] = "nil"
    PROVE  ctxDone
<1>1. failed = {}
  BY NoFaultAtMerge
<1>2. Count # 0
  BY PoolAssumption DEF Index
<1>3. \A w \in Workers : wpc[w] = "exited"
  BY <1>2 DEF PoolInv, MergeIsAlone
<1>4. dpc = "closed"
  BY <1>2, <1>3, SomeWorker DEF PoolInv, ControlInv
<1>5. next = Count => i < next
  BY PoolAssumption DEF Index
<1> QED
  BY <1>1, <1>3, <1>4, <1>5 DEF PoolInv, PlaceInv, AtWork, Stopped

(* A result is stored once, and one cut short has a cause. *)
LEMMA RecordReports ==
    ASSUME mode = "parallel", PoolInv, UNCHANGED mode, NEW w \in Workers, Record(w)
    PROVE  AnyExp!Report
<1> DEFINE i == hand[w]
           r == [index |-> i, kind |-> got[w]]
<1>1. /\ i \in Index /\ results[i] = "nil" /\ Count # 0
      /\ got[w] \in {"verdict", "interrupted"}
  BY PoolAssumption
     DEF Record, PoolInv, TypeOK, RunKind, SlotOwnership, AtWork, Index
<1>2. outcome = "running"
  BY <1>1 DEF Record, PoolInv, MergeIsAlone, ControlInv
<1>3. got[w] = "interrupted" => ctxDone \/ failed # {}
  BY DEF Record, PoolInv, FaultInv, Stopped
<1>4. \A j \in Index : results'[j] = IF j = i THEN got[w] ELSE results[j]
  BY <1>1 DEF Record, PoolInv, TypeOK
<1>5. \A s \in Indexed : s.index # i
  BY <1>1 DEF Indexed
<1>6. Indexed' = Indexed \cup {r}
  BY <1>1, <1>4 DEF Indexed
<1>7. UNCHANGED <<mode, ctxDone, failed, outcome>>
  BY DEF Record, mvars
<1> QED
  BY <1>1, <1>2, <1>3, <1>5, <1>6, <1>7 DEF AnyExp!Report, Index

(* A step of the pool is one of the experiment, or invisible to it. *)
LEMMA PoolRefines ==
    ASSUME mode = "parallel", PoolInv, Next \/ UNCHANGED vars, UNCHANGED mode
    PROVE  AnyExp!Next \/ UNCHANGED AnyExp!vars
<1>0. outcome = "running" <=> pc # "done"
  BY DEF PoolInv, ControlInv
<1>1. CASE CtxDone
  BY <1>0, <1>1 DEF CtxDone, AnyExp!Next, AnyExp!Cancel, Indexed, mvars, wvars
<1>2. CASE Start
  <2>1. CASE Count = 0
    <3>1. Index = {} /\ failed = {}
      BY <2>1 DEF PoolInv, TypeOK, Index
    <3>2. outcome = "running" /\ outcome' = "complete"
          /\ UNCHANGED <<ctxDone, results, failed>>
      BY <1>0, <1>2, <2>1 DEF Start, wvars
    <3> QED
      BY <2>1, <3>1, <3>2 DEF AnyExp!Next, AnyExp!Finish, Indexed
  <2>2. CASE Count # 0
    BY <1>2, <2>2, PoolStutters DEF Start, wvars
  <2> QED
    BY <2>1, <2>2
<1>3. CASE Wait \/ ReadContext \/ StopDispatch
  BY <1>3, PoolStutters DEF Wait, ReadContext, StopDispatch, wvars, mvars
<1>4. CASE ReturnError
  <2>1. failed # {} /\ outcome = "running" /\ outcome' = "error"
        /\ UNCHANGED <<ctxDone, results, failed>>
    BY <1>0, <1>4 DEF ReturnError, PoolInv, FaultInv, wvars
  <2> QED
    BY <2>1 DEF AnyExp!Next, AnyExp!Finish, Indexed
<1>5. CASE Merge
  <2>1. failed = {} /\ outcome = "running" /\ UNCHANGED <<ctxDone, results, failed>>
    BY <1>0, <1>5, NoFaultAtMerge DEF Merge, wvars
  <2>2. CASE complete /\ \A i \in Index : results[i] # "nil"
    <3>1. \A i \in Index : results[i] = "verdict"
      BY <1>5, <2>2 DEF Merge, PoolInv, TypeOK, FaultInv
    <3>2. \A i \in 0..Count - 1 : [index |-> i, kind |-> "verdict"] \in Indexed
      BY <3>1 DEF Indexed, Index
    <3>3. outcome' = "complete"
      BY <1>5, <2>2 DEF Merge
    <3> QED
      BY <2>1, <3>2, <3>3 DEF AnyExp!Next, AnyExp!Finish, Indexed
  <2>3. CASE ~(complete /\ \A i \in Index : results[i] # "nil")
    <3>1. ctxDone /\ outcome' = "partial"
      BY <1>5, <2>3, EmptySlotIsCancelled DEF Merge, PoolInv, ControlInv
    <3> QED
      BY <2>1, <3>1 DEF AnyExp!Next, AnyExp!Finish, Indexed
  <2> QED
    BY <2>2, <2>3
<1>6. ASSUME NEW w \in Workers, Dispatch(w) \/ WorkerStep(w)
      PROVE  AnyExp!Next \/ UNCHANGED AnyExp!vars
  <2>1. CASE Record(w)
    BY <2>1, RecordReports DEF AnyExp!Next
  <2>2. CASE ~Record(w)
    BY <1>6, <2>2, PoolStutters
       DEF Dispatch, WorkerStep, Drain, StartRun, ReportError, CancelInner, Exit, mvars
  <2> QED
    BY <2>1, <2>2
<1>7. ASSUME NEW w \in Workers, NEW k \in RunKind, FinishRun(w, k)
      PROVE  AnyExp!Next \/ UNCHANGED AnyExp!vars
  <2>1. CASE k = "hard"
    <3>1. failed' # {} /\ UNCHANGED <<ctxDone, results, outcome>>
      BY <1>7, <2>1 DEF FinishRun, mvars
    <3>2. Count # 0
      BY <1>7, PoolAssumption DEF FinishRun, PoolInv, TypeOK, SlotOwnership, AtWork
    <3>3. outcome = "running"
      BY <1>0, <1>7, <3>2 DEF FinishRun, PoolInv, MergeIsAlone
    <3> QED
      BY <3>1, <3>3 DEF AnyExp!Next, AnyExp!Fail, Indexed
  <2>2. CASE k # "hard"
    BY <1>7, <2>2, PoolStutters DEF FinishRun, mvars
  <2> QED
    BY <2>1, <2>2
<1>8. CASE UNCHANGED vars
  BY <1>8, PoolStutters DEF vars, mvars, wvars
<1> QED
  BY <1>1, <1>2, <1>3, <1>4, <1>5, <1>6, <1>7, <1>8
     DEF Next, Main, Dispatcher, Run, Terminated

-----------------------------------------------------------------------------
(* The loop's steps. *)

(* What an experiment sees of the loop. *)
LEMMA LoopStutters ==
    ASSUME mode = "sequential",
           UNCHANGED <<mode, ctxDone, seqResults, seqHardErr, seqOutcome>>
    PROVE  UNCHANGED AnyExp!vars
BY DEF AnyExp!vars, SeqIndexed

(* A run's result is the next one in discovery order. *)
LEMMA RunResultReports ==
    ASSUME mode = "sequential", UNCHANGED mode, Loop!LoopInv,
           NEW k \in {"verdict", "interrupted"}, Loop!RunResult(k)
    PROVE  AnyExp!Report
<1> DEFINE n == Len(seqResults)
           r == [index |-> n, kind |-> k]
<1>1. n \in 0..Count - 1 /\ seqResults \in Seq(Loop!Result) /\ seqOutcome = "running"
  BY PoolAssumption DEF Loop!RunResult, Loop!LoopInv, Loop!TypeOK
<1>2. /\ seqResults' = Append(seqResults, r)
      /\ UNCHANGED <<mode, ctxDone, seqHardErr, seqOutcome>>
      /\ k = "interrupted" => ctxDone
  BY DEF Loop!RunResult
<1>3. \A j \in 1..n : seqResults[j].index = j - 1
  BY DEF Loop!LoopInv
<1>4. \A s \in SeqIndexed : s.index # n
  BY <1>1, <1>3 DEF SeqIndexed
<1>5. SeqIndexed' = SeqIndexed \cup {r}
  <2>1. Len(seqResults') = n + 1 /\ seqResults'[n + 1] = r
        /\ \A j \in 1..n : seqResults'[j] = seqResults[j]
    BY <1>1, <1>2
  <2>2. 1..n + 1 = 1..n \cup {n + 1}
    BY <1>1
  <2> QED
    BY <2>1, <2>2 DEF SeqIndexed
<1> QED
  BY <1>1, <1>2, <1>4, <1>5 DEF AnyExp!Report

(* A step of the loop is one of the experiment, or invisible to it. *)
LEMMA LoopRefines ==
    ASSUME mode = "sequential", Loop!LoopInv, Loop!Next \/ UNCHANGED Loop!vars,
           UNCHANGED mode
    PROVE  AnyExp!Next \/ UNCHANGED AnyExp!vars
<1>0. seqOutcome = "running" <=> seqPc # "done"
  BY DEF Loop!LoopInv
<1>1. CASE Loop!CtxDone
  BY <1>0, <1>1 DEF Loop!CtxDone, AnyExp!Next, AnyExp!Cancel, SeqIndexed
<1>2. CASE Loop!LoopTop \/ Loop!CheckAfter
  BY <1>2, LoopStutters DEF Loop!LoopTop, Loop!CheckAfter
<1>3. ASSUME NEW k \in {"verdict", "interrupted"}, Loop!RunResult(k)
      PROVE  AnyExp!Next
  BY <1>3, RunResultReports DEF AnyExp!Next
<1>4. CASE Loop!RunError
  BY <1>0, <1>4 DEF Loop!RunError, AnyExp!Next, AnyExp!Fail, SeqIndexed
<1>5. CASE Loop!Return
  <2>1. seqOutcome = "running" /\ UNCHANGED <<ctxDone, seqResults, seqHardErr>>
    BY <1>0, <1>5 DEF Loop!Return
  <2>2. CASE seqHardErr # "none"
    BY <1>5, <2>1, <2>2 DEF Loop!Return, AnyExp!Next, AnyExp!Finish, SeqIndexed
  <2>3. CASE seqHardErr = "none" /\ ~seqComplete
    BY <1>5, <2>1, <2>3
       DEF Loop!Return, Loop!LoopInv, AnyExp!Next, AnyExp!Finish, SeqIndexed
  <2>4. CASE seqHardErr = "none" /\ seqComplete
    <3>1. Len(seqResults) = Count /\ seqResults \in Seq(Loop!Result)
      BY <1>5, <2>4 DEF Loop!Return, Loop!LoopInv, Loop!TypeOK
    <3>2. \A j \in 1..Count : seqResults[j] = [index |-> j - 1, kind |-> "verdict"]
      <4> TAKE j \in 1..Count
      <4>1. seqResults[j] \in Loop!Result
        BY <3>1
      <4>2. seqResults[j].index = j - 1 /\ seqResults[j].kind # "interrupted"
        BY <1>5, <2>4, <3>1 DEF Loop!Return, Loop!LoopInv
      <4> QED
        BY <4>1, <4>2 DEF Loop!Result
    <3>3. \A i \in 0..Count - 1 : [index |-> i, kind |-> "verdict"] \in SeqIndexed
      <4> TAKE i \in 0..Count - 1
      <4>1. i + 1 \in 1..Count /\ i = (i + 1) - 1
        BY PoolAssumption
      <4> QED
        BY <3>1, <3>2, <4>1 DEF SeqIndexed
    <3> QED
      BY <1>5, <2>1, <2>4, <3>3
         DEF Loop!Return, AnyExp!Next, AnyExp!Finish, SeqIndexed
  <2> QED
    BY <2>2, <2>3, <2>4
<1>6. CASE UNCHANGED Loop!vars
  BY <1>6, LoopStutters DEF Loop!vars
<1> QED
  BY <1>1, <1>2, <1>3, <1>4, <1>5, <1>6, LoopStutters
     DEF Loop!Next, Loop!Step, Loop!Terminated, Loop!vars

-----------------------------------------------------------------------------
(* Whichever executor is called, its caller sees an experiment: complete   *)
(* with every mutant's own result, partial only after a cancellation, an   *)
(* error whenever something failed (analysis.go:783-958).                  *)
THEOREM ExecutorsRefinement == ExecutorsSpec => ImplementsAnyExperiment
<1>1. ExecutorsInit => AnyExp!Init
  BY DEF ExecutorsInit, Init, Loop!Init, AnyExp!Init, Indexed, SeqIndexed
<1>2. ExecutorsInv /\ [ExecutorsNext]_allVars => [AnyExp!Next]_(AnyExp!vars)
  <2> SUFFICES ASSUME ExecutorsInv, [ExecutorsNext]_allVars
               PROVE  AnyExp!Next \/ UNCHANGED AnyExp!vars
    OBVIOUS
  <2>1. CASE mode = "parallel"
    <3>1. UNCHANGED mode /\ (Next \/ UNCHANGED vars)
      BY <2>1 DEF ExecutorsNext, Parallel, Sequential, allVars
    <3> QED
      BY <2>1, <3>1, PoolRefines DEF ExecutorsInv
  <2>2. CASE mode = "sequential"
    <3>1. UNCHANGED mode /\ (Loop!Next \/ UNCHANGED Loop!vars)
      BY <2>2 DEF ExecutorsNext, Parallel, Sequential, allVars, vars, seqVars, Loop!vars
    <3> QED
      BY <2>2, <3>1, LoopRefines DEF ExecutorsInv
  <2> QED
    BY <2>1, <2>2 DEF ExecutorsInv
<1> QED
  BY <1>1, <1>2, ExecutorsInvariance, PTL
     DEF ExecutorsSpec, AnyExp!Spec, ImplementsAnyExperiment
=============================================================================
