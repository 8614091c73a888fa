------------------------ MODULE RunLifecycleProofs ------------------------
(***************************************************************************)
(* What RunLifecycle says of one invocation, for every number of mutants   *)
(* and of signals: the inductive invariant LifecycleInv, and the two       *)
(* promises about the end of the process that follow from it.              *)
(***************************************************************************)
EXTENDS RunLifecycle, TLAPS

(* Before the first step nothing has happened (main.go:196-199).           *)
LEMMA LifecycleInit == Init => LifecycleInv
<1> SUFFICES ASSUME Init
             PROVE  LifecycleInv
  OBVIOUS
<1>1. TypeOK
  <2>1. /\ handled \in BOOLEAN /\ cancelled \in BOOLEAN /\ prepExpired \in BOOLEAN
        /\ late \in BOOLEAN /\ interrupted \in BOOLEAN /\ rendered \in BOOLEAN
    BY Zenon DEF Init
  <2>2. sent \in Seq(Signal) /\ journal \in Seq(Entry) /\ results \in 0..Mutants
    BY LifecycleAssumption DEF Init
  <2> QED
    BY <2>1, <2>2 DEF Init, TypeOK
<1>2. SignalKnown /\ InterruptedKeepsReport
  BY DEF Init, SignalKnown, InterruptedKeepsReport
<1>3. SignalInv
  BY DEF Init, SignalInv
<1>4. ReportInv
  BY DEF Init, ReportInv, Analysed, InPreparation
<1>5. FilesInv
  BY DEF Init, FilesInv, Analysed
<1> QED
  BY <1>1, <1>2, <1>3, <1>4, <1>5 DEF LifecycleInv

-----------------------------------------------------------------------------
(* Every step keeps every part; one lemma for each group of Next.          *)


(* A signal is delivered to the handler or, without one, ends a process    *)
(* that has nothing left on disk (main.go:196-218).                        *)
LEMMA SignalsStep == LifecycleInv /\ Signals => LifecycleInv'
<1> SUFFICES ASSUME LifecycleInv, Signals
             PROVE  LifecycleInv'
  OBVIOUS
<1> USE LifecycleAssumption
    DEF LifecycleInv, sigvars, ctxvars, outvars, Goto, Exited, InAnalyze,
        InPreparation, PrepDone, Analysed, Received, Decided, Signal, File
<1>1. ASSUME NEW s \in Signal, Deliver(s)
      PROVE  LifecycleInv'
  BY <1>1 DEF Deliver, TypeOK, Entry, SignalKnown,
       InterruptedKeepsReport, SignalInv, ReportInv, FilesInv
<1>2. ASSUME NEW s \in Signal, Killed(s)
      PROVE  LifecycleInv'
  BY <1>2 DEF Killed, TypeOK, Entry, SignalKnown,
       InterruptedKeepsReport, SignalInv, ReportInv, FilesInv
<1> QED
  BY <1>1, <1>2 DEF Signals

(* The goroutine hands the signal over before it cancels: the order of its *)
(* three steps is what SignalInv records (main.go:200-207).                *)
LEMMA SignalGoroutineStep == LifecycleInv /\ SignalGoroutine => LifecycleInv'
<1> SUFFICES ASSUME LifecycleInv, SignalGoroutine
             PROVE  LifecycleInv'
  OBVIOUS
<1> USE LifecycleAssumption
    DEF LifecycleInv, sigvars, ctxvars, outvars, Goto, Exited, InAnalyze,
        InPreparation, PrepDone, Analysed, Received, Decided, Signal, File
<1>1. ASSUME ReceiveSignal
      PROVE  LifecycleInv'
  BY <1>1 DEF ReceiveSignal, TypeOK, Entry, SignalKnown,
       InterruptedKeepsReport, SignalInv, ReportInv, FilesInv
<1>2. ASSUME SendCaught
      PROVE  LifecycleInv'
  BY <1>2 DEF SendCaught, TypeOK, Entry, SignalKnown,
       InterruptedKeepsReport, SignalInv, ReportInv, FilesInv
<1>3. ASSUME CancelContext
      PROVE  LifecycleInv'
  BY <1>3 DEF CancelContext, TypeOK, Entry, SignalKnown,
       InterruptedKeepsReport, SignalInv, ReportInv, FilesInv
<1>4. ASSUME PropagateCancel
      PROVE  LifecycleInv'
  BY <1>4 DEF PropagateCancel, TypeOK, Entry, SignalKnown,
       InterruptedKeepsReport, SignalInv, ReportInv, FilesInv
<1> QED
  BY <1>1, <1>2, <1>3, <1>4 DEF SignalGoroutine

(* A deadline ends the context of the analysis and nothing else            *)
(* (analysis.go:102-106, 124-126).                                         *)
LEMMA DeadlinesStep == LifecycleInv /\ Deadlines => LifecycleInv'
<1> SUFFICES ASSUME LifecycleInv, Deadlines
             PROVE  LifecycleInv'
  OBVIOUS
<1> USE LifecycleAssumption
    DEF LifecycleInv, sigvars, ctxvars, outvars, Goto, Exited, InAnalyze,
        InPreparation, PrepDone, Analysed, Received, Decided, Signal, File
<1>1. ASSUME TotalDeadline
      PROVE  LifecycleInv'
  BY <1>1 DEF TotalDeadline, TypeOK, Entry, SignalKnown,
       InterruptedKeepsReport, SignalInv, ReportInv, FilesInv
<1>2. ASSUME PrepDeadline
      PROVE  LifecycleInv'
  BY <1>2 DEF PrepDeadline, TypeOK, Entry, SignalKnown,
       InterruptedKeepsReport, SignalInv, ReportInv, FilesInv
<1> QED
  BY <1>1, <1>2 DEF Deadlines

(* The preparation leaves the same files on every path to the same point   *)
(* (analysis.go:325-330).                                                  *)
LEMMA PrepareStep == LifecycleInv /\ Prepare => LifecycleInv'
<1> SUFFICES ASSUME LifecycleInv, Prepare
             PROVE  LifecycleInv'
  OBVIOUS
<1> USE LifecycleAssumption
    DEF LifecycleInv, sigvars, ctxvars, outvars, Goto, Exited, InAnalyze,
        InPreparation, PrepDone, Analysed, Received, Decided, Signal, File
<1>1. ASSUME OpenSpool
      PROVE  LifecycleInv'
  BY <1>1 DEF OpenSpool, TypeOK, Entry, SignalKnown,
       InterruptedKeepsReport, SignalInv, ReportInv, FilesInv
<1>2. ASSUME DetectToolchain
      PROVE  LifecycleInv'
  BY <1>2 DEF DetectToolchain, TypeOK, Entry, SignalKnown,
       InterruptedKeepsReport, SignalInv, ReportInv, FilesInv
<1>3. ASSUME CaptureBase
      PROVE  LifecycleInv'
  BY <1>3 DEF CaptureBase, TypeOK, Entry, SignalKnown,
       InterruptedKeepsReport, SignalInv, ReportInv, FilesInv
<1>4. ASSUME CopySnapshot
      PROVE  LifecycleInv'
  BY <1>4 DEF CopySnapshot, TypeOK, Entry, SignalKnown,
       InterruptedKeepsReport, SignalInv, ReportInv, FilesInv
<1>5. ASSUME Discover
      PROVE  LifecycleInv'
  BY <1>5 DEF Discover, TypeOK, Entry, SignalKnown,
       InterruptedKeepsReport, SignalInv, ReportInv, FilesInv
<1>6. ASSUME Prepared
      PROVE  LifecycleInv'
  BY <1>6 DEF Prepared, TypeOK, Entry, SignalKnown,
       InterruptedKeepsReport, SignalInv, ReportInv, FilesInv
<1>7. ASSUME PrepareFails
      PROVE  LifecycleInv'
  BY <1>7 DEF PrepareFails, TypeOK, Entry, SignalKnown,
       InterruptedKeepsReport, SignalInv, ReportInv, FilesInv
<1> QED
  BY <1>1, <1>2, <1>3, <1>4, <1>5, <1>6, <1>7 DEF Prepare

(* A test run gives its sandbox back, whether it passes or fails           *)
(* (analysis.go:478-505, 751-755).                                         *)
LEMMA TestRunStep == LifecycleInv /\ TestRun => LifecycleInv'
<1> SUFFICES ASSUME LifecycleInv, TestRun
             PROVE  LifecycleInv'
  OBVIOUS
<1> USE LifecycleAssumption
    DEF LifecycleInv, sigvars, ctxvars, outvars, Goto, Exited, InAnalyze,
        InPreparation, PrepDone, Analysed, Received, Decided, Signal, File
<1>1. ASSUME BaselinePasses
      PROVE  LifecycleInv'
  BY <1>1 DEF BaselinePasses, TypeOK, Entry, SignalKnown,
       InterruptedKeepsReport, SignalInv, ReportInv, FilesInv
<1>2. ASSUME BaselineFails
      PROVE  LifecycleInv'
  BY <1>2 DEF BaselineFails, TypeOK, Entry, SignalKnown,
       InterruptedKeepsReport, SignalInv, ReportInv, FilesInv
<1>3. ASSUME CoverageRuns
      PROVE  LifecycleInv'
  BY <1>3 DEF CoverageRuns, TypeOK, Entry, SignalKnown,
       InterruptedKeepsReport, SignalInv, ReportInv, FilesInv
<1>4. ASSUME MutantRuns
      PROVE  LifecycleInv'
  BY <1>4 DEF MutantRuns, TypeOK, Entry, SignalKnown,
       InterruptedKeepsReport, SignalInv, ReportInv, FilesInv
<1>5. ASSUME ExecutionFails
      PROVE  LifecycleInv'
  BY <1>5 DEF ExecutionFails, TypeOK, Entry, SignalKnown,
       InterruptedKeepsReport, SignalInv, ReportInv, FilesInv
<1> QED
  BY <1>1, <1>2, <1>3, <1>4, <1>5 DEF TestRun

(* Execution ends with a report whose incompleteness has a cause           *)
(* (analysis.go:184-203).                                                  *)
LEMMA AnalysisStep == LifecycleInv /\ Analysis => LifecycleInv'
<1> SUFFICES ASSUME LifecycleInv, Analysis
             PROVE  LifecycleInv'
  OBVIOUS
<1> USE LifecycleAssumption
    DEF LifecycleInv, sigvars, ctxvars, outvars, Goto, Exited, InAnalyze,
        InPreparation, PrepDone, Analysed, Received, Decided, Signal, File
<1>1. ASSUME CopySandbox
      PROVE  LifecycleInv'
  BY <1>1 DEF CopySandbox, TypeOK, Entry, SignalKnown,
       InterruptedKeepsReport, SignalInv, ReportInv, FilesInv
<1>2. ASSUME CoverageUnavailable
      PROVE  LifecycleInv'
  BY <1>2 DEF CoverageUnavailable, TypeOK, Entry, SignalKnown,
       InterruptedKeepsReport, SignalInv, ReportInv, FilesInv
<1>3. ASSUME ExecutionReturns
      PROVE  LifecycleInv'
  BY <1>3 DEF ExecutionReturns, TypeOK, Entry, SignalKnown,
       InterruptedKeepsReport, SignalInv, ReportInv, FilesInv
<1>4. ASSUME CheckDeadline
      PROVE  LifecycleInv'
  BY <1>4 DEF CheckDeadline, TypeOK, Entry, SignalKnown,
       InterruptedKeepsReport, SignalInv, ReportInv, FilesInv
<1>5. ASSUME Cleanup
      PROVE  LifecycleInv'
  BY <1>5 DEF Cleanup, TypeOK, Entry, SignalKnown,
       InterruptedKeepsReport, SignalInv, ReportInv, FilesInv
<1> QED
  BY <1>1, <1>2, <1>3, <1>4, <1>5 DEF Analysis

(* The end of run: what it decides after reading the context stays decided *)
(* (main.go:222-303).                                                      *)
LEMMA FinishStep == LifecycleInv /\ Finish => LifecycleInv'
<1> SUFFICES ASSUME LifecycleInv, Finish
             PROVE  LifecycleInv'
  OBVIOUS
<1> USE LifecycleAssumption
    DEF LifecycleInv, sigvars, ctxvars, outvars, Goto, Exited, InAnalyze,
        InPreparation, PrepDone, Analysed, Received, Decided, Signal, File
<1>1. ASSUME ReadInterrupted
      PROVE  LifecycleInv'
  BY <1>1 DEF ReadInterrupted, TypeOK, Entry, SignalKnown,
       InterruptedKeepsReport, SignalInv, ReportInv, FilesInv
<1>2. ASSUME ReceiveCaught
      PROVE  LifecycleInv'
  BY <1>2 DEF ReceiveCaught, TypeOK, Entry, SignalKnown,
       InterruptedKeepsReport, SignalInv, ReportInv, FilesInv
<1>3. ASSUME Render
      PROVE  LifecycleInv'
  BY <1>3 DEF Render, TypeOK, Entry, SignalKnown,
       InterruptedKeepsReport, SignalInv, ReportInv, FilesInv
<1>4. ASSUME RenderFails
      PROVE  LifecycleInv'
  BY <1>4 DEF RenderFails, TypeOK, Entry, SignalKnown,
       InterruptedKeepsReport, SignalInv, ReportInv, FilesInv
<1>5. ASSUME WriteJournal
      PROVE  LifecycleInv'
  <2> DEFINE e == [signal |-> IF signal = "none" THEN "unknown" ELSE signal,
                   phase  |-> IF err # "none" THEN "baseline" ELSE "mutants"]
  <2>1. /\ pc = "journal" /\ pc' = "closespool" /\ journal' = Append(journal, e)
        /\ exit' = "interrupted"
        /\ UNCHANGED <<config, sigvars, ctxvars, files, err, results, report,
                       late, interrupted, signal, rendered>>
    BY <1>5 DEF WriteJournal
  <2>2. e \in Entry /\ e.signal = sent[1] /\ sent # <<>>
    <3>1. signal = sent[1] /\ interrupted /\ Received
      BY <2>1 DEF SignalInv
    <3>2. sent # <<>>
      BY <3>1 DEF SignalInv
    <3>3. sent \in Seq(Signal)
      BY DEF TypeOK
    <3>4. sent[1] \in Signal
      BY <3>2, <3>3
    <3> QED
      BY <3>1, <3>2, <3>4 DEF Entry
  <2> HIDE DEF e
  <2>3. /\ journal' \in Seq(Entry) /\ Len(journal') = Len(journal) + 1
        /\ \A k \in 1..Len(journal') :
              journal'[k] = e \/ (k \in 1..Len(journal) /\ journal'[k] = journal[k])
    <3>1. journal \in Seq(Entry)
      BY DEF TypeOK
    <3>2. ASSUME NEW S, NEW q \in Seq(S), NEW x \in S
          PROVE  /\ Append(q, x) \in Seq(S) /\ Len(Append(q, x)) = Len(q) + 1
                 /\ \A k \in 1..Len(Append(q, x)) :
                       \/ Append(q, x)[k] = x
                       \/ k \in 1..Len(q) /\ Append(q, x)[k] = q[k]
      OBVIOUS
    <3>3. e \in Entry
      BY <2>2
    <3>4. /\ Append(journal, e) \in Seq(Entry)
          /\ Len(Append(journal, e)) = Len(journal) + 1
          /\ \A k \in 1..Len(Append(journal, e)) :
                \/ Append(journal, e)[k] = e
                \/ k \in 1..Len(journal) /\ Append(journal, e)[k] = journal[k]
      BY <3>1, <3>2, <3>3
    <3>5. journal' = Append(journal, e)
      BY <2>1
    <3> DEFINE longer == Append(journal, e)
    <3> HIDE DEF longer
    <3>6. journal' = longer
      BY <3>5 DEF longer
    <3>7. /\ longer \in Seq(Entry) /\ Len(longer) = Len(journal) + 1
          /\ \A k \in 1..Len(longer) :
                longer[k] = e \/ (k \in 1..Len(journal) /\ longer[k] = journal[k])
      BY <3>4 DEF longer
    <3> QED
      BY <3>6, <3>7
  <2>4. TypeOK'
    BY <2>1, <2>3 DEF TypeOK
  <2>5. SignalKnown'
    <3>1. sent' = sent /\ \A k \in 1..Len(journal) : journal[k].signal = sent[1]
      BY <2>1 DEF SignalKnown
    <3> QED
      BY <2>2, <2>3, <3>1 DEF SignalKnown
  <2>6. SignalInv' /\ InterruptedKeepsReport'
    BY <2>1, <2>2 DEF SignalInv, InterruptedKeepsReport, ReportInv
  <2>7. ReportInv' /\ FilesInv'
    BY <2>1 DEF ReportInv, FilesInv
  <2> QED
    BY <2>4, <2>5, <2>6, <2>7
<1>6. ASSUME JournalFails
      PROVE  LifecycleInv'
  BY <1>6 DEF JournalFails, TypeOK, Entry, SignalKnown,
       InterruptedKeepsReport, SignalInv, ReportInv, FilesInv
<1>7. ASSUME CloseSpool
      PROVE  LifecycleInv'
  BY <1>7 DEF CloseSpool, TypeOK, Entry, SignalKnown,
       InterruptedKeepsReport, SignalInv, ReportInv, FilesInv
<1>8. ASSUME StopSignals
      PROVE  LifecycleInv'
  <2>1. handled' \in BOOLEAN
    BY <1>8, Zenon DEF StopSignals
  <2>2. /\ pc = "stopsignals" /\ pc' = "exiting" /\ handled' = FALSE
        /\ UNCHANGED <<config, sent, sigCh, caught, gpc, ctxvars, files, err,
                       results, outvars>>
    BY <1>8 DEF StopSignals
  <2>3. TypeOK'
    BY <2>1, <2>2 DEF TypeOK
  <2> QED
    BY <2>2, <2>3 DEF TypeOK, Entry, SignalKnown,
       InterruptedKeepsReport, SignalInv, ReportInv, FilesInv
<1>9. ASSUME Exit
      PROVE  LifecycleInv'
  BY <1>9 DEF Exit, TypeOK, Entry, SignalKnown,
       InterruptedKeepsReport, SignalInv, ReportInv, FilesInv
<1> QED
  BY <1>1, <1>2, <1>3, <1>4, <1>5, <1>6, <1>7, <1>8, <1>9 DEF Finish

-----------------------------------------------------------------------------
(* At every step of every run the first signal is where main will find it, *)
(* the report, the error and the exit code belong together, and the files  *)
(* are those of the phase (main.go:196-303, analysis.go:137-203).          *)
THEOREM LifecycleInvariance == Spec => []LifecycleInv
<1>1. LifecycleInv /\ [Next]_vars => LifecycleInv'
  <2> SUFFICES ASSUME LifecycleInv, [Next]_vars
               PROVE  LifecycleInv'
    OBVIOUS
  <2>1. CASE Next
    <3>1. CASE Terminated
      BY <3>1 DEF Terminated, vars, sigvars, ctxvars, outvars, LifecycleInv,
         TypeOK, SignalKnown, InterruptedKeepsReport, SignalInv, ReportInv,
         FilesInv, Exited, InPreparation, Analysed, Received, Decided
    <3> QED
      BY <2>1, <3>1, SignalsStep, SignalGoroutineStep, DeadlinesStep,
         PrepareStep, TestRunStep, AnalysisStep, FinishStep DEF Next
  <2>2. CASE UNCHANGED vars
    BY <2>2 DEF vars, sigvars, ctxvars, outvars, LifecycleInv, TypeOK,
       SignalKnown, InterruptedKeepsReport, SignalInv, ReportInv, FilesInv,
       Exited, InPreparation, Analysed, Received, Decided
  <2> QED
    BY <2>1, <2>2
<1> QED
  BY <1>1, LifecycleInit, PTL DEF Spec

(* A score is judged, and success reported, only when every discovered     *)
(* mutant has a result: GateOnlyComplete is inductive beside LifecycleInv, *)
(* because the exit code is chosen once, in Render (main.go:295-303).      *)
THEOREM GateOnlyCompleteHolds == Spec => []GateOnlyComplete
<1>1. Init => GateOnlyComplete
  BY DEF Init, GateOnlyComplete
<1>2. LifecycleInv /\ GateOnlyComplete /\ [Next]_vars => GateOnlyComplete'
  <2> SUFFICES ASSUME LifecycleInv, GateOnlyComplete, [Next]_vars
               PROVE  GateOnlyComplete'
    OBVIOUS
  <2>1. CASE Render
    <3>1. err = "none" /\ report # "none"
      BY <2>1 DEF LifecycleInv, ReportInv, Render, Analysed
    <3>2. ~late /\ ~interrupted => report = "complete" /\ results = Mutants
      BY <2>1, <3>1 DEF LifecycleInv, TypeOK, ReportInv, Render, Analysed
    <3>3. exit' \in {"ok", "gate"} => ~late /\ ~interrupted
      BY <2>1 DEF Render, LifecycleInv, ReportInv, Decided
    <3> QED
      BY <2>1, <3>2, <3>3 DEF Render, GateOnlyComplete, ctxvars, sigvars
  <2>2. CASE ~Render
    <3>1. exit' \in {"ok", "gate"} => exit' = exit
      BY <2>2 DEF Next, Signals, SignalGoroutine, Deadlines, Prepare, TestRun,
           Analysis, Finish, Deliver, Killed, ReceiveSignal, SendCaught,
           CancelContext, PropagateCancel, TotalDeadline, PrepDeadline, OpenSpool,
           DetectToolchain, CaptureBase, CopySnapshot, Discover, Prepared,
           PrepareFails, CopySandbox, BaselinePasses, BaselineFails, CoverageRuns,
           CoverageUnavailable, MutantRuns, ExecutionFails, ExecutionReturns,
           CheckDeadline, Cleanup, ReadInterrupted, ReceiveCaught, RenderFails,
           WriteJournal, JournalFails, CloseSpool, StopSignals, Exit, Terminated,
           Goto, vars, sigvars, ctxvars, outvars
    <3>2. exit # "none" => UNCHANGED <<report, results>>
      BY DEF LifecycleInv, ReportInv, Decided, InAnalyze, InPreparation,
       Render, Next, Signals, SignalGoroutine, Deadlines, Prepare, TestRun,
           Analysis, Finish, Deliver, Killed, ReceiveSignal, SendCaught,
           CancelContext, PropagateCancel, TotalDeadline, PrepDeadline, OpenSpool,
           DetectToolchain, CaptureBase, CopySnapshot, Discover, Prepared,
           PrepareFails, CopySandbox, BaselinePasses, BaselineFails, CoverageRuns,
           CoverageUnavailable, MutantRuns, ExecutionFails, ExecutionReturns,
           CheckDeadline, Cleanup, ReadInterrupted, ReceiveCaught, RenderFails,
           WriteJournal, JournalFails, CloseSpool, StopSignals, Exit, Terminated,
           Goto, vars, sigvars, ctxvars, outvars
    <3> QED
      BY <3>1, <3>2 DEF GateOnlyComplete
  <2> QED
    BY <2>1, <2>2
<1> QED
  BY <1>1, <1>2, LifecycleInvariance, PTL DEF Spec

(* Whenever the process ends, by itself or by a signal after the handler   *)
(* is gone, nothing that it created is left on disk (main.go:208-218).     *)
THEOREM NothingLeftHolds == Spec => []NothingLeft
<1>1. LifecycleInv => NothingLeft
  BY DEF LifecycleInv, FilesInv, NothingLeft, Exited
<1> QED
  BY <1>1, LifecycleInvariance, PTL
=============================================================================
