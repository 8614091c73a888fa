---------------------------- MODULE RunLifecycle ----------------------------
(***************************************************************************)
(* One invocation of the program, from the installation of the signal      *)
(* handler to the exit code: run in cmd/mutation-judge/main.go; in         *)
(* internal/analysis/analysis.go AnalyzeSpool and analyze, and what        *)
(* prepareContextMode and runBaseline acquire and release on every path.   *)
(*                                                                         *)
(* Actors: the operating system, which delivers signals; the goroutine     *)
(* that turns the first signal into a cancellation; the timers of the      *)
(* total and the preparation deadline; the main goroutine.                 *)
(*                                                                         *)
(* Abstractions.  How mutants are executed is left to the executors'       *)
(* modules: here execution counts results and returns as they promise.     *)
(* Per-test coverage, whose failures are only warnings, is left out.       *)
(* Errors of the same step are one error.  A spool counts as a file from   *)
(* its creation, before it may spill.                                      *)
(***************************************************************************)
EXTENDS Naturals, Sequences

CONSTANTS
    Mutants,       \* number of discovered mutants
    MaxSignals     \* bound: signals delivered during the run

ASSUME LifecycleAssumption ==
    /\ Mutants \in Nat \ {0}
    /\ MaxSignals \in Nat

Signal == {"interrupt", "terminated"}

(* Things on disk that must not outlive the process.                       *)
File == {"gitbase", "snapshot", "mutspool", "resspool", "sandbox"}

VARIABLES
    config,      \* options that change the control flow
    sent,        \* history: the signals delivered, in order
    handled,     \* the handler is installed
    sigCh,       \* channel of the runtime's signal delivery, capacity one
    caught,      \* channel from the goroutine to main, capacity one
    gpc,         \* where the signal goroutine is
    cancelled,   \* Err() of the signal context
    ctxErr,      \* Err() of the context analyze works with
    prepExpired, \* the preparation deadline has passed
    pc,          \* where the main goroutine is
    files,       \* what exists on disk
    err,         \* the error analyze is returning
    results,     \* mutants with a result
    report,      \* the report's completeness, or "none"
    late,        \* the report's analysis_deadline_exceeded bound
    interrupted, \* the local variable of run
    signal,      \* caughtSignal
    rendered,    \* the report has been written
    journal,     \* entries appended to the journal
    exit         \* the exit code, "none" before

sigvars == <<sent, handled, sigCh, caught, gpc>>
ctxvars == <<cancelled, ctxErr, prepExpired>>
outvars == <<report, late, interrupted, signal, rendered, journal, exit>>
vars == <<config, sigvars, ctxvars, pc, files, err, results, outvars>>

Entry == [signal : Signal \cup {"unknown"}, phase : {"baseline", "mutants"}]

Exited == pc = "exited"

(* The phases that run under analyze's deferred cancellations.             *)
InAnalyze == pc \in {"toolchain", "gitbase", "snapshot", "discover",
                     "prepared", "baseline", "coverage", "execute",
                     "deadline", "cleanup"}

InPreparation == pc \in {"toolchain", "gitbase", "snapshot", "discover",
                         "prepared"}

PrepDone == ctxErr # "none" \/ prepExpired

TypeOK ==
    /\ config \in [total : BOOLEAN, prep : BOOLEAN, stream : BOOLEAN,
                   changed : BOOLEAN]
    /\ sent \in Seq(Signal)
    /\ handled \in BOOLEAN
    /\ sigCh \in Signal \cup {"none"}
    /\ caught \in Signal \cup {"none"}
    /\ gpc \in {"wait", "send", "cancel", "propagate", "gone"}
    /\ cancelled \in BOOLEAN
    /\ ctxErr \in {"none", "canceled", "deadline"}
    /\ prepExpired \in BOOLEAN
    /\ pc \in {"start", "toolchain", "gitbase", "snapshot", "discover",
               "prepared", "baseline", "coverage", "execute", "deadline",
               "cleanup", "returned", "receive", "render", "journal",
               "closespool", "stopsignals", "exiting", "exited"}
    /\ files \in SUBSET File
    /\ err \in {"none", "prepare", "baseline", "execute"}
    /\ results \in 0..Mutants
    /\ report \in {"none", "complete", "incomplete"}
    /\ late \in BOOLEAN
    /\ interrupted \in BOOLEAN
    /\ signal \in Signal \cup {"none"}
    /\ rendered \in BOOLEAN
    /\ journal \in Seq(Entry)
    /\ exit \in {"none", "ok", "gate", "input", "internal", "interrupted",
                 "killed"}

Init ==
    /\ config \in [total : BOOLEAN, prep : BOOLEAN, stream : BOOLEAN,
                   changed : BOOLEAN]
    /\ sent = <<>>
    /\ handled = TRUE
    /\ sigCh = "none"
    /\ caught = "none"
    /\ gpc = "wait"
    /\ cancelled = FALSE
    /\ ctxErr = "none"
    /\ prepExpired = FALSE
    /\ pc = "start"
    /\ files = {}
    /\ err = "none"
    /\ results = 0
    /\ report = "none"
    /\ late = FALSE
    /\ interrupted = FALSE
    /\ signal = "none"
    /\ rendered = FALSE
    /\ journal = <<>>
    /\ exit = "none"

-----------------------------------------------------------------------------
(* Seeded faults: what a plausible slip would make of a definition below.  *)

(* The channel caught has no buffer: the send waits for main's receive.    *)
SendCaught_Unbuffered ==
    /\ gpc = "send"
    /\ pc = "receive"
    /\ caught' = sigCh
    /\ sigCh' = "none"
    /\ gpc' = "cancel"
    /\ UNCHANGED <<config, sent, handled, ctxvars, pc, files, err, results,
                   outvars>>

(* The total deadline is not looked at after execution.                    *)
CheckDeadline_Ignored ==
    /\ pc = "deadline"
    /\ pc' = "cleanup"
    /\ UNCHANGED <<config, sigvars, ctxvars, files, err, results, outvars>>

(* The deferred function only removes the snapshot.                        *)
Cleanup_LeaksSpool ==
    /\ pc = "cleanup"
    /\ files' = files \ (IF err = "none" THEN {"snapshot"}
                         ELSE {"snapshot", "resspool"})
    /\ pc' = "returned"
    /\ UNCHANGED <<config, sigvars, ctxvars, err, results, outvars>>

-----------------------------------------------------------------------------
(* Signals and deadlines. *)

(* The runtime delivers without blocking: a full channel drops the signal. *)
Deliver(s) ==
    /\ Len(sent) < MaxSignals
    /\ ~Exited
    /\ handled
    /\ sent' = Append(sent, s)
    /\ sigCh' = IF sigCh = "none" THEN s ELSE sigCh
    /\ UNCHANGED <<config, handled, caught, gpc, ctxvars, pc, files, err,
                   results, outvars>>

(* Without a handler the default disposition ends the process at once.     *)
Killed(s) ==
    /\ Len(sent) < MaxSignals
    /\ ~Exited
    /\ ~handled
    /\ sent' = Append(sent, s)
    /\ exit' = "killed"
    /\ pc' = "exited"
    /\ UNCHANGED <<config, handled, sigCh, caught, gpc, ctxvars, files, err,
                   results, report, late, interrupted, signal, rendered, journal>>

ReceiveSignal ==
    /\ gpc = "wait"
    /\ ~Exited
    /\ sigCh # "none"
    /\ gpc' = "send"
    /\ UNCHANGED <<config, sent, handled, sigCh, caught, ctxvars, pc, files,
                   err, results, outvars>>

(* caught <- sig: the value is in the channel before the context ends.     *)
SendCaught ==
    /\ gpc = "send"
    /\ ~Exited
    /\ caught' = sigCh
    /\ sigCh' = "none"
    /\ gpc' = "cancel"
    /\ UNCHANGED <<config, sent, handled, ctxvars, pc, files, err, results,
                   outvars>>

(* cancel() first ends the signal context and then its children.           *)
CancelContext ==
    /\ gpc = "cancel"
    /\ ~Exited
    /\ cancelled' = TRUE
    /\ ctxErr' = IF ~config.total THEN "canceled" ELSE ctxErr
    /\ gpc' = "propagate"
    /\ UNCHANGED <<config, sent, handled, sigCh, caught, prepExpired, pc,
                   files, err, results, outvars>>

(* A child that has already ended keeps its first error.                   *)
PropagateCancel ==
    /\ gpc = "propagate"
    /\ ~Exited
    /\ ctxErr' = IF ctxErr = "none" THEN "canceled" ELSE ctxErr
    /\ gpc' = "gone"
    /\ UNCHANGED <<config, sent, handled, sigCh, caught, cancelled,
                   prepExpired, pc, files, err, results, outvars>>

TotalDeadline ==
    /\ config.total
    /\ InAnalyze
    /\ ctxErr = "none"
    /\ ctxErr' = "deadline"
    /\ UNCHANGED <<config, sigvars, cancelled, prepExpired, pc, files, err,
                   results, outvars>>

PrepDeadline ==
    /\ config.prep
    /\ InPreparation
    /\ ~prepExpired
    /\ prepExpired' = TRUE
    /\ UNCHANGED <<config, sigvars, cancelled, ctxErr, pc, files, err,
                   results, outvars>>

-----------------------------------------------------------------------------
(* The main goroutine: preparation. *)

Goto(p) == pc' = p

OpenSpool ==
    /\ pc = "start"
    /\ files' = IF config.stream THEN {"resspool"} ELSE {}
    /\ Goto("toolchain")
    /\ UNCHANGED <<config, sigvars, ctxvars, err, results, outvars>>

DetectToolchain ==
    /\ pc = "toolchain"
    /\ Goto("gitbase")
    /\ UNCHANGED <<config, sigvars, ctxvars, files, err, results, outvars>>

CaptureBase ==
    /\ pc = "gitbase"
    /\ files' = IF config.changed THEN files \cup {"gitbase"} ELSE files
    /\ Goto("snapshot")
    /\ UNCHANGED <<config, sigvars, ctxvars, err, results, outvars>>

CopySnapshot ==
    /\ pc = "snapshot"
    /\ files' = files \cup {"snapshot"}
    /\ Goto("discover")
    /\ UNCHANGED <<config, sigvars, ctxvars, err, results, outvars>>

Discover ==
    /\ pc = "discover"
    /\ files' \in {files} \cup (IF config.stream THEN {files \cup {"mutspool"}}
                                             ELSE {})
    /\ Goto("prepared")
    /\ UNCHANGED <<config, sigvars, ctxvars, err, results, outvars>>

(* The last look at the preparation context; the deferred Close of the git *)
(* base runs, the other deferred clean-ups see preparedOK.                 *)
Prepared ==
    /\ pc = "prepared"
    /\ ~PrepDone
    /\ files' = files \ {"gitbase"}
    /\ Goto("baseline")
    /\ UNCHANGED <<config, sigvars, ctxvars, err, results, outvars>>

(* Any step of the preparation fails, of itself or because its context has *)
(* ended.                                                                  *)
PrepareFails ==
    /\ InPreparation
    /\ err' = "prepare"
    /\ files' = files \ {"gitbase", "snapshot", "mutspool"}
    /\ Goto("cleanup")
    /\ UNCHANGED <<config, sigvars, ctxvars, results, outvars>>

-----------------------------------------------------------------------------
(* The main goroutine: baseline. *)

CopySandbox ==
    /\ \/ pc \in {"baseline", "coverage"}
       \/ pc = "execute" /\ results < Mutants /\ ctxErr = "none"
    /\ "sandbox" \notin files
    /\ files' = files \cup {"sandbox"}
    /\ UNCHANGED <<config, sigvars, ctxvars, pc, err, results, outvars>>

BaselinePasses ==
    /\ pc = "baseline"
    /\ "sandbox" \in files
    /\ ctxErr = "none"
    /\ files' = files \ {"sandbox"}
    /\ Goto("coverage")
    /\ UNCHANGED <<config, sigvars, ctxvars, err, results, outvars>>

(* The sandbox cannot be made, the tests do not pass, or the context has   *)
(* ended.                                                                  *)
BaselineFails ==
    /\ pc = "baseline"
    /\ err' = "baseline"
    /\ files' = files \ {"sandbox"}
    /\ Goto("cleanup")
    /\ UNCHANGED <<config, sigvars, ctxvars, results, outvars>>

CoverageRuns ==
    /\ pc = "coverage"
    /\ "sandbox" \in files
    /\ files' = files \ {"sandbox"}
    /\ IF ctxErr = "none"
       THEN Goto("execute") /\ UNCHANGED err
       ELSE Goto("cleanup") /\ err' = "baseline"
    /\ UNCHANGED <<config, sigvars, ctxvars, results, outvars>>

(* No sandbox for the profile: a warning unless the context has ended.     *)
CoverageUnavailable ==
    /\ pc = "coverage"
    /\ "sandbox" \notin files
    /\ IF ctxErr = "none"
       THEN Goto("execute") /\ UNCHANGED err
       ELSE Goto("cleanup") /\ err' = "baseline"
    /\ UNCHANGED <<config, sigvars, ctxvars, files, results, outvars>>

-----------------------------------------------------------------------------
(* The main goroutine: execution (what Experiment promises) and the end of *)
(* analyze.                                                                *)

MutantRuns ==
    /\ pc = "execute"
    /\ "sandbox" \in files
    /\ files' = files \ {"sandbox"}
    /\ results' = results + 1
    /\ UNCHANGED <<config, sigvars, ctxvars, pc, err, outvars>>

ExecutionFails ==
    /\ pc = "execute"
    /\ err' = "execute"
    /\ files' = files \ {"sandbox"}
    /\ Goto("cleanup")
    /\ UNCHANGED <<config, sigvars, ctxvars, results, outvars>>

ExecutionReturns ==
    /\ pc = "execute"
    /\ "sandbox" \notin files
    /\ results = Mutants \/ ctxErr # "none"
    /\ report' = IF ctxErr = "none" THEN "complete" ELSE "incomplete"
    /\ Goto("deadline")
    /\ UNCHANGED <<config, sigvars, ctxvars, files, err, results, late,
                   interrupted, signal, rendered, journal, exit>>

CheckDeadline ==
    /\ pc = "deadline"
    /\ late' = (config.total /\ ctxErr = "deadline")
    /\ report' = IF late' THEN "incomplete" ELSE report
    /\ Goto("cleanup")
    /\ UNCHANGED <<config, sigvars, ctxvars, files, err, results, interrupted,
                   signal, rendered, journal, exit>>

(* analyze's deferred clean-ups; AnalyzeSpool closes its spool on error.   *)
Cleanup ==
    /\ pc = "cleanup"
    /\ files' = files \ (IF err = "none" THEN {"snapshot", "mutspool"}
                         ELSE {"snapshot", "mutspool", "resspool"})
    /\ Goto("returned")
    /\ UNCHANGED <<config, sigvars, ctxvars, err, results, outvars>>

-----------------------------------------------------------------------------
(* The main goroutine: after the analysis. *)

ReadInterrupted ==
    /\ pc = "returned"
    /\ interrupted' = cancelled
    /\ Goto("receive")
    /\ UNCHANGED <<config, sigvars, ctxvars, files, err, results, report,
                   late, signal, rendered, journal, exit>>

(* The non-blocking receive from caught, and what follows an error.        *)
ReceiveCaught ==
    /\ pc = "receive"
    /\ IF interrupted
       THEN signal' = caught /\ caught' = "none"
       ELSE UNCHANGED <<signal, caught>>
    /\ IF err = "none" THEN Goto("render") /\ UNCHANGED exit
       ELSE IF interrupted THEN Goto("journal") /\ UNCHANGED exit
       ELSE Goto("closespool") /\ exit' = "input"
    /\ UNCHANGED <<config, sent, handled, sigCh, gpc, ctxvars, files, err,
                   results, report, late, interrupted, rendered, journal>>

(* The exit code of a run that was not interrupted: a missed deadline is   *)
(* an input error, the score may fail the gate.                            *)
Render ==
    /\ pc = "render"
    /\ rendered' = TRUE
    /\ IF interrupted
       THEN Goto("journal") /\ UNCHANGED exit
       ELSE /\ Goto("closespool")
            /\ exit' \in IF late THEN {"input"} ELSE {"ok", "gate"}
    /\ UNCHANGED <<config, sigvars, ctxvars, files, err, results, report,
                   late, interrupted, signal, journal>>

(* The output cannot be created or written.                                *)
RenderFails ==
    /\ pc = "render"
    /\ exit' \in {"input", "internal"}
    /\ Goto("closespool")
    /\ UNCHANGED <<config, sigvars, ctxvars, files, err, results, report,
                   late, interrupted, signal, rendered, journal>>

WriteJournal ==
    /\ pc = "journal"
    /\ journal' = Append(journal,
          [signal |-> IF signal = "none" THEN "unknown" ELSE signal,
           phase  |-> IF err # "none" THEN "baseline" ELSE "mutants"])
    /\ exit' = "interrupted"
    /\ Goto("closespool")
    /\ UNCHANGED <<config, sigvars, ctxvars, files, err, results, report,
                   late, interrupted, signal, rendered>>

(* A journal that cannot be written is a warning.                          *)
JournalFails ==
    /\ pc = "journal"
    /\ exit' = "interrupted"
    /\ Goto("closespool")
    /\ UNCHANGED <<config, sigvars, ctxvars, files, err, results, report,
                   late, interrupted, signal, rendered, journal>>

(* run's deferred calls, the last registered first.                        *)
CloseSpool ==
    /\ pc = "closespool"
    /\ files' = files \ {"resspool"}
    /\ Goto("stopsignals")
    /\ UNCHANGED <<config, sigvars, ctxvars, err, results, outvars>>

StopSignals ==
    /\ pc = "stopsignals"
    /\ handled' = FALSE
    /\ Goto("exiting")
    /\ UNCHANGED <<config, sent, sigCh, caught, gpc, ctxvars, files, err,
                   results, outvars>>

Exit ==
    /\ pc = "exiting"
    /\ Goto("exited")
    /\ UNCHANGED <<config, sigvars, ctxvars, files, err, results, outvars>>

Terminated == Exited /\ UNCHANGED vars

-----------------------------------------------------------------------------
Signals == \E s \in Signal : Deliver(s) \/ Killed(s)

(* Seeded fault: the goroutine cancels before it sends the signal.         *)
CancelFirst ==
    /\ gpc = "send"
    /\ ~Exited
    /\ cancelled' = TRUE
    /\ ctxErr' = IF ctxErr = "none" THEN "canceled" ELSE ctxErr
    /\ gpc' = "cancel"
    /\ UNCHANGED <<config, sent, handled, sigCh, caught, prepExpired, pc,
                   files, err, results, outvars>>

SendLast ==
    /\ gpc = "cancel"
    /\ ~Exited
    /\ caught' = sigCh
    /\ sigCh' = "none"
    /\ gpc' = "gone"
    /\ UNCHANGED <<config, sent, handled, ctxvars, pc, files, err, results,
                   outvars>>

SignalGoroutine_CancelFirst == ReceiveSignal \/ CancelFirst \/ SendLast

SignalGoroutine ==
    ReceiveSignal \/ SendCaught \/ CancelContext \/ PropagateCancel

Deadlines == TotalDeadline \/ PrepDeadline

Prepare ==
    \/ OpenSpool \/ DetectToolchain \/ CaptureBase \/ CopySnapshot
    \/ Discover \/ Prepared \/ PrepareFails

(* The steps in which a child process runs the project's tests.            *)
TestRun ==
    \/ BaselinePasses \/ BaselineFails \/ CoverageRuns
    \/ MutantRuns \/ ExecutionFails

Analysis ==
    \/ CopySandbox \/ CoverageUnavailable
    \/ ExecutionReturns \/ CheckDeadline \/ Cleanup

Finish ==
    \/ ReadInterrupted \/ ReceiveCaught \/ Render \/ RenderFails
    \/ WriteJournal \/ JournalFails \/ CloseSpool \/ StopSignals \/ Exit

Next ==
    \/ Signals \/ SignalGoroutine \/ Deadlines
    \/ Prepare \/ TestRun \/ Analysis \/ Finish
    \/ Terminated

Spec == Init /\ [][Next]_vars

(* The process is scheduled and its own steps end.  A test run is only     *)
(* known to end once its context has: its process group is then killed.    *)
FairSpec ==
    /\ Spec
    /\ WF_vars(SignalGoroutine)
    /\ WF_vars(Prepare)
    /\ WF_vars(Analysis)
    /\ WF_vars(Finish)
    /\ WF_vars(TestRun /\ ctxErr # "none")

-----------------------------------------------------------------------------
(* Properties. *)

(* A journal entry always names the signal that ended the run, the first   *)
(* one delivered: the receive that does not block finds it although it     *)
(* races with the goroutine that sends it (main.go:192-195).               *)
SignalKnown ==
    \A k \in 1..Len(journal) : journal[k].signal = sent[1]

(* A score is only ever judged, and success only reported, when every      *)
(* discovered mutant has a result and neither a signal nor the deadline    *)
(* had ended the analysis: an incomplete report always has an interruption *)
(* or a deadline that takes the exit code (main.go:280-303,                *)
(* analysis.go:199-203).                                                   *)
GateOnlyComplete ==
    exit \in {"ok", "gate"} => report = "complete" /\ results = Mutants

(* Whenever the process ends, by itself or by a signal after the handler   *)
(* is gone, everything it created on disk is gone (analysis.go:137-142,    *)
(* 325-330, main.go:208-218).                                              *)
NothingLeft == Exited => files = {}

(* An interrupted run keeps what it achieved: the report is on disk before *)
(* the process says that it was interrupted, unless there is none          *)
(* (main.go:280-294).                                                      *)
InterruptedKeepsReport ==
    exit = "interrupted" => sent # <<>> /\ (rendered \/ report = "none")

(* What the main goroutine has behind it. *)
Analysed == pc \in {"returned", "receive", "render", "journal", "closespool",
                    "stopsignals", "exiting", "exited"}
Received == Analysed /\ pc \notin {"returned", "receive"}
Decided  == pc \in {"closespool", "stopsignals", "exiting", "exited"}

(* Where the first signal is: in the runtime's channel, in caught, or with *)
(* main.  The context ends after caught has the signal, so that a main     *)
(* goroutine which sees the context ended finds it (main.go:196-229).      *)
SignalInv ==
    /\ handled <=> pc \notin {"exiting", "exited"}
    /\ gpc = "wait" /\ sigCh = "none" /\ ~Exited => sent = <<>>
    /\ gpc = "send" => sigCh # "none"
    /\ gpc \in {"wait", "send"} /\ sigCh # "none" =>
          sent # <<>> /\ sigCh = sent[1]
    /\ gpc \in {"cancel", "propagate", "gone"} =>
          /\ sent # <<>>
          /\ caught = sent[1] \/ (interrupted /\ Received)
    /\ cancelled <=> gpc \in {"propagate", "gone"}
    /\ ctxErr = "canceled" => cancelled
    /\ ctxErr = "deadline" => config.total
    /\ interrupted => cancelled
    /\ interrupted /\ Received => signal = sent[1]
    /\ pc = "journal" \/ journal # <<>> => interrupted /\ Received

(* The report, the error and the exit code belong together: an error       *)
(* leaves no report, an incomplete report has a cause that is still known  *)
(* when the exit code is chosen (analysis.go:184-203, main.go:222-303).    *)
ReportInv ==
    /\ ~(pc = "cleanup" \/ Analysed) => err = "none"
    /\ ~(pc \in {"deadline", "cleanup"} \/ Analysed) => report = "none"
    /\ pc = "deadline" => report # "none"
    /\ pc = "cleanup" \/ Analysed => (err = "none" <=> report # "none")
    /\ pc = "render" => err = "none"
    /\ rendered => err = "none" /\ Received
    /\ pc = "journal" => rendered \/ err # "none"
    /\ pc \in {"baseline", "coverage"} \/ InPreparation \/ pc = "start" =>
          results = 0
    /\ report = "complete" => results = Mutants
    /\ report = "incomplete" =>
          /\ pc = "deadline" => ctxErr # "none"
          /\ pc # "deadline" => late \/ cancelled
          /\ Analysed /\ pc # "returned" => late \/ interrupted
    /\ exit # "none" => Decided

(* What exists on disk at each point, the same on every path that leads    *)
(* there (analysis.go:137-142, 325-330, main.go:208-218).                  *)
FilesInv ==
    /\ pc \in {"start", "stopsignals", "exiting", "exited"} => files = {}
    /\ pc \in {"toolchain", "gitbase"} \/ Analysed => files \subseteq {"resspool"}
    /\ pc = "snapshot" => files \subseteq {"resspool", "gitbase"}
    /\ pc = "discover" => files \subseteq {"resspool", "gitbase", "snapshot"}
    /\ pc \in {"baseline", "coverage", "execute"} => "gitbase" \notin files
    /\ pc \in {"deadline", "cleanup"} =>
          files \subseteq {"resspool", "snapshot", "mutspool"}
    /\ "sandbox" \in files => pc \in {"baseline", "coverage", "execute"}
    /\ "sandbox" \in files /\ pc = "execute" => results < Mutants

(* What an interruption leaves, a journal entry that names its signal and, *)
(* unless nothing was achieved, a report (main.go:280-294), with what      *)
(* holds at every step and makes it so.                                    *)
LifecycleInv ==
    /\ TypeOK
    /\ SignalKnown
    /\ InterruptedKeepsReport
    /\ SignalInv
    /\ ReportInv
    /\ FilesInv

(* A signal ends the run even when the tests of the baseline or of a       *)
(* mutant hang (main.go:178-183).                                          *)
SignalEndsRun == (sent # <<>> /\ ~Exited) ~> Exited

-----------------------------------------------------------------------------
(* What documents say of the program, and the code does not do.            *)

(* The journal says in which phase the run was interrupted, baseline or    *)
(* mutant execution (journal.go:21, CHANGELOG.md:129).                     *)
JournalPhase ==
    \A k \in 1..Len(journal) :
        journal[k].phase = "baseline" => results = 0 /\ err # "execute"
=============================================================================
