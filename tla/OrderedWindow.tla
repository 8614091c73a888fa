--------------------------- MODULE OrderedWindow ---------------------------
(***************************************************************************)
(* The streaming executor: internal/analysis/ordered_window.go and the     *)
(* part of internal/analysis/stream.go (executeMutantsSpool) that decides  *)
(* how the run ended.  One coordinator reads candidates and persists       *)
(* results; the workers run mutants.  They share a FIFO channel of jobs, a *)
(* channel of outcomes and a context (inner) derived from the caller's.    *)
(*                                                                         *)
(* Abstractions.  The jobs channel carries the indices in the order the    *)
(* coordinator queued them, so its content is the interval                 *)
(* taken..queued-1.  The outcomes channel is a set: a receive takes any    *)
(* element, which allows more orders than the FIFO channel does.  A result *)
(* is its mutant's index and whether its run was cut short by a            *)
(* cancellation.  The progress callback and its mutex are left out.        *)
(***************************************************************************)
EXTENDS Integers, Sequences, FiniteSets

CONSTANTS
    Count,          \* number of discovered mutants
    Workers,        \* worker goroutines, already clamped to 1..Count
    WindowFactor    \* outstanding mutants per worker: 4 in the source

ASSUME ConstantsAssumption ==
    /\ Count \in Nat \ {0}
    /\ IsFiniteSet(Workers)
    /\ Workers # {}
    /\ WindowFactor \in Nat \ {0}

Index == 0 .. Count - 1

Window == IF WindowFactor * Cardinality(Workers) > Count
          THEN Count
          ELSE WindowFactor * Cardinality(Workers)

Slot == 0 .. Window - 1

(* What run() returned: a verdict, a verdict cut short by the cancellation *)
(* of the context it ran under, or an error that is not a test outcome.    *)
RunKind == {"verdict", "interrupted", "hard"}

Outcome == [index : Index, kind : RunKind \cup {"absent"}]

Absent == [index |-> 0, kind |-> "absent"]      \* the zero value outcome{}

Present(o) == o.kind # "absent"

VARIABLES
    ctxDone,         \* the caller's context: signal or total deadline
    innerCancelled,  \* cancel() was called on the derived context
    pc,              \* where the coordinator is
    active,          \* the coordinator's loop flag
    queued,          \* jobs sent so far
    committed,       \* results persisted so far
    firstErr,        \* the error the run will return
    pending,         \* ring of received, not yet persisted outcomes
    persisted,       \* the result spool
    jobsClosed,      \* close(jobs) was called
    taken,           \* jobs received by workers so far
    outcomes,        \* content of the outcomes channel
    wpc,             \* where each worker is
    hand,            \* the job and outcome each worker holds
    complete,        \* what orderedWindow returned as its first value
    outcome,         \* how executeMutantsSpool ended
    failed           \* history: mutants whose run() returned an error

cvars == <<pc, active, queued, committed, firstErr, pending, persisted,
           jobsClosed, complete, outcome>>
wvars == <<taken, wpc, hand, failed>>
vars == <<ctxDone, innerCancelled, pc, active, queued, committed, firstErr,
          pending, persisted, jobsClosed, taken, outcomes, wpc, hand,
          complete, outcome, failed>>

InnerErr == ctxDone \/ innerCancelled

Head0 == pending[committed % Window]    \* the slot the next commit reads

TypeOK ==
    /\ ctxDone \in BOOLEAN
    /\ innerCancelled \in BOOLEAN
    /\ pc \in {"loop", "fill", "select", "commit", "close", "cancel", "wait",
               "reap", "returned", "tail", "done"}
    /\ active \in BOOLEAN
    /\ queued \in 0..Count
    /\ committed \in 0..Count
    /\ taken \in 0..Count
    /\ firstErr \in {"none", "read", "worker", "ring", "record", "tail"}
    /\ pending \in [Slot -> Outcome]
    /\ persisted \in Seq(Outcome)
    /\ jobsClosed \in BOOLEAN
    /\ outcomes \in SUBSET Outcome
    /\ wpc \in [Workers -> {"idle", "taken", "running", "sending", "failed",
                            "exited"}]
    /\ hand \in [Workers -> Outcome]
    /\ complete \in BOOLEAN
    /\ outcome \in {"running", "complete", "partial", "error"}
    /\ failed \in SUBSET Index

Init ==
    /\ ctxDone \in BOOLEAN
    /\ innerCancelled = FALSE
    /\ pc = "loop"
    /\ active = TRUE
    /\ queued = 0
    /\ committed = 0
    /\ taken = 0
    /\ firstErr = "none"
    /\ pending = [s \in Slot |-> Absent]
    /\ persisted = <<>>
    /\ jobsClosed = FALSE
    /\ outcomes = {}
    /\ wpc = [w \in Workers |-> "idle"]
    /\ hand = [w \in Workers |-> Absent]
    /\ complete = FALSE
    /\ outcome = "running"
    /\ failed = {}

-----------------------------------------------------------------------------
(***************************************************************************)
(* Seeded faults.  Each has the parameters of a definition below and is    *)
(* what a plausible slip in that code would make of it; no specification   *)
(* uses them.                                                              *)
(***************************************************************************)

(* The window is compared with <= instead of <. *)
MayFill_OffByOne ==
    /\ queued < Count
    /\ queued - committed <= Window
    /\ ~InnerErr

(* Fixed batches: nothing is queued until the whole batch is persisted. *)
MayFill_Batch ==
    /\ queued < Count
    /\ queued - committed < Window
    /\ committed % Window = 0
    /\ ~InnerErr

(* The outer loop tests only the number of results. *)
LoopHead_IgnoresActive ==
    /\ pc = "loop"
    /\ pc' = IF committed < Count THEN "fill" ELSE "close"
    /\ UNCHANGED <<ctxDone, innerCancelled, active, queued, committed, firstErr,
                   pending, persisted, jobsClosed, complete, outcome, wvars,
                   outcomes>>

(* A received result goes to the slot that is committed next. *)
ReceiveResult_NextSlot(o) ==
    /\ pc = "select"
    /\ o.kind # "hard"
    /\ outcomes' = outcomes \ {o}
    /\ pending' = [pending EXCEPT ![committed % Window] = o]
    /\ pc' = "commit"
    /\ UNCHANGED <<ctxDone, innerCancelled, active, queued, committed, firstErr,
                   persisted, jobsClosed, complete, outcome, wvars>>

(* A result that could not be persisted is counted and skipped. *)
CommitError_Skips ==
    /\ pc = "commit"
    /\ Present(Head0)
    /\ pending' = [pending EXCEPT ![committed % Window] = Absent]
    /\ committed' = committed + 1
    /\ UNCHANGED <<ctxDone, innerCancelled, pc, active, queued, firstErr,
                   persisted, jobsClosed, complete, outcome, wvars, outcomes>>

-----------------------------------------------------------------------------
(* The caller's context ends. *)
CtxDone ==
    /\ ~ctxDone
    /\ pc # "done"
    /\ ctxDone' = TRUE
    /\ UNCHANGED <<innerCancelled, cvars, wvars, outcomes>>

-----------------------------------------------------------------------------
(* Workers. *)

Take(w) ==
    /\ wpc[w] = "idle"
    /\ taken < queued
    /\ taken' = taken + 1
    /\ hand' = [hand EXCEPT ![w] = [index |-> taken, kind |-> "absent"]]
    /\ wpc' = [wpc EXCEPT ![w] = "taken"]
    /\ UNCHANGED <<ctxDone, innerCancelled, cvars, outcomes, failed>>

(* A job received after the cancellation is dropped without an outcome. *)
Drop(w) ==
    /\ wpc[w] = "taken"
    /\ InnerErr
    /\ wpc' = [wpc EXCEPT ![w] = "idle"]
    /\ UNCHANGED <<ctxDone, innerCancelled, cvars, outcomes, taken, hand, failed>>

StartRun(w) ==
    /\ wpc[w] = "taken"
    /\ ~InnerErr
    /\ wpc' = [wpc EXCEPT ![w] = "running"]
    /\ UNCHANGED <<ctxDone, innerCancelled, cvars, outcomes, taken, hand, failed>>

(* A run that sees the cancellation may still finish with its own verdict  *)
(* (a cache hit, an equivalent mutant, a test that was already over).      *)
FinishRun(w, k) ==
    /\ wpc[w] = "running"
    /\ k = "interrupted" => InnerErr
    /\ hand' = [hand EXCEPT ![w].kind = k]
    /\ wpc' = [wpc EXCEPT ![w] = "sending"]
    /\ failed' = IF k = "hard" THEN failed \cup {hand[w].index} ELSE failed
    /\ UNCHANGED <<ctxDone, innerCancelled, cvars, outcomes, taken>>

SendOutcome(w) ==
    /\ wpc[w] = "sending"
    /\ Cardinality(outcomes) < Window
    /\ outcomes' = outcomes \cup {hand[w]}
    /\ wpc' = [wpc EXCEPT ![w] = IF hand[w].kind = "hard" THEN "failed"
                                                          ELSE "idle"]
    /\ UNCHANGED <<ctxDone, innerCancelled, cvars, taken, hand, failed>>

(* The worker cancels only after its error is in the channel. *)
CancelAfterError(w) ==
    /\ wpc[w] = "failed"
    /\ innerCancelled' = TRUE
    /\ wpc' = [wpc EXCEPT ![w] = "idle"]
    /\ UNCHANGED <<ctxDone, cvars, outcomes, taken, hand, failed>>

ExitWorker(w) ==
    /\ wpc[w] = "idle"
    /\ jobsClosed
    /\ taken = queued
    /\ wpc' = [wpc EXCEPT ![w] = "exited"]
    /\ UNCHANGED <<ctxDone, innerCancelled, cvars, outcomes, taken, hand, failed>>

-----------------------------------------------------------------------------
(* The coordinator. *)

Stop(err) ==
    /\ firstErr' = err
    /\ innerCancelled' = TRUE
    /\ active' = FALSE

LoopHead ==
    /\ pc = "loop"
    /\ pc' = IF active /\ committed < Count THEN "fill" ELSE "close"
    /\ UNCHANGED <<ctxDone, innerCancelled, active, queued, committed, firstErr,
                   pending, persisted, jobsClosed, complete, outcome, wvars,
                   outcomes>>

(* The condition of the fill loop: the window is measured from the last    *)
(* persisted result.                                                       *)
MayFill ==
    /\ queued < Count
    /\ queued - committed < Window
    /\ ~InnerErr

Fill ==
    /\ pc = "fill"
    /\ MayFill
    /\ queued - taken < Window            \* capacity of the jobs channel
    /\ queued' = queued + 1
    /\ UNCHANGED <<ctxDone, innerCancelled, pc, active, committed, firstErr,
                   pending, persisted, jobsClosed, complete, outcome, wvars,
                   outcomes>>

FillReadError ==
    /\ pc = "fill"
    /\ MayFill
    /\ Stop("read")
    /\ pc' = "close"
    /\ UNCHANGED <<ctxDone, queued, committed, pending, persisted, jobsClosed,
                   complete, outcome, wvars, outcomes>>

FillDone ==
    /\ pc = "fill"
    /\ ~MayFill
    /\ pc' = IF queued = committed THEN "close" ELSE "select"
    /\ UNCHANGED <<ctxDone, innerCancelled, active, queued, committed, firstErr,
                   pending, persisted, jobsClosed, complete, outcome, wvars,
                   outcomes>>

ReceiveError(o) ==
    /\ pc = "select"
    /\ o.kind = "hard"
    /\ outcomes' = outcomes \ {o}
    /\ Stop("worker")
    /\ pc' = "loop"
    /\ UNCHANGED <<ctxDone, queued, committed, pending, persisted, jobsClosed,
                   complete, outcome, wvars>>

OutOfWindow(o) ==
    \/ o.index < committed
    \/ o.index >= queued
    \/ Present(pending[o.index % Window])

ReceiveResult(o) ==
    /\ pc = "select"
    /\ o.kind # "hard"
    /\ outcomes' = outcomes \ {o}
    /\ IF OutOfWindow(o)
       THEN /\ Stop("ring")
            /\ pc' = "loop"
            /\ UNCHANGED pending
       ELSE /\ pending' = [pending EXCEPT ![o.index % Window] = o]
            /\ pc' = "commit"
            /\ UNCHANGED <<innerCancelled, active, firstErr>>
    /\ UNCHANGED <<ctxDone, queued, committed, persisted, jobsClosed, complete,
                   outcome, wvars>>

SeeCancelled ==
    /\ pc = "select"
    /\ InnerErr
    /\ active' = FALSE
    /\ pc' = "loop"
    /\ UNCHANGED <<ctxDone, innerCancelled, queued, committed, firstErr, pending,
                   persisted, jobsClosed, complete, outcome, wvars, outcomes>>

ReleaseSlot == pending' = [pending EXCEPT ![committed % Window] = Absent]

CommitResult ==
    /\ pc = "commit"
    /\ Present(Head0)
    /\ ReleaseSlot
    /\ persisted' = Append(persisted, Head0)
    /\ committed' = committed + 1
    /\ UNCHANGED <<ctxDone, innerCancelled, pc, active, queued, firstErr,
                   jobsClosed, complete, outcome, wvars, outcomes>>

CommitError ==
    /\ pc = "commit"
    /\ Present(Head0)
    /\ ReleaseSlot
    /\ Stop("record")
    /\ pc' = "loop"
    /\ UNCHANGED <<ctxDone, queued, committed, persisted, jobsClosed, complete,
                   outcome, wvars, outcomes>>

CommitDone ==
    /\ pc = "commit"
    /\ ~Present(Head0)
    /\ pc' = "loop"
    /\ UNCHANGED <<ctxDone, innerCancelled, active, queued, committed, firstErr,
                   pending, persisted, jobsClosed, complete, outcome, wvars,
                   outcomes>>

CloseJobs ==
    /\ pc = "close"
    /\ jobsClosed' = TRUE
    /\ pc' = "cancel"
    /\ UNCHANGED <<ctxDone, innerCancelled, active, queued, committed, firstErr,
                   pending, persisted, complete, outcome, wvars, outcomes>>

CancelRest ==
    /\ pc = "cancel"
    /\ innerCancelled' = TRUE
    /\ pc' = "wait"
    /\ UNCHANGED <<ctxDone, active, queued, committed, firstErr, pending,
                   persisted, jobsClosed, complete, outcome, wvars, outcomes>>

WaitWorkers ==
    /\ pc = "wait"
    /\ \A w \in Workers : wpc[w] = "exited"
    /\ pc' = "reap"
    /\ UNCHANGED <<ctxDone, innerCancelled, active, queued, committed, firstErr,
                   pending, persisted, jobsClosed, complete, outcome, wvars,
                   outcomes>>

Reap(o) ==
    /\ pc = "reap"
    /\ outcomes' = outcomes \ {o}
    /\ firstErr' = IF o.kind = "hard" /\ firstErr = "none" THEN "worker"
                                                           ELSE firstErr
    /\ UNCHANGED <<ctxDone, innerCancelled, pc, active, queued, committed,
                   pending, persisted, jobsClosed, complete, outcome, wvars>>

(* orderedWindow returns. *)
Return ==
    /\ pc = "reap"
    /\ outcomes = {}
    /\ complete' = (firstErr = "none" /\ ~ctxDone /\ committed = Count)
    /\ pc' = "returned"
    /\ UNCHANGED <<ctxDone, innerCancelled, active, queued, committed, firstErr,
                   pending, persisted, jobsClosed, outcome, wvars, outcomes>>

-----------------------------------------------------------------------------
(* executeMutantsSpool, after orderedWindow returned. *)

FinishUnlessComplete ==
    /\ pc = "returned"
    /\ firstErr # "none" \/ ctxDone \/ ~complete
    /\ outcome' = IF firstErr # "none" THEN "error" ELSE "partial"
    /\ pc' = "done"
    /\ UNCHANGED <<ctxDone, innerCancelled, active, queued, committed, firstErr,
                   pending, persisted, jobsClosed, complete, wvars, outcomes>>

ReadTail ==
    /\ pc = "returned"
    /\ firstErr = "none"
    /\ ~ctxDone
    /\ complete
    /\ pc' = "tail"
    /\ UNCHANGED <<ctxDone, innerCancelled, active, queued, committed, firstErr,
                   pending, persisted, jobsClosed, complete, outcome, wvars,
                   outcomes>>

TailIsEOF ==
    /\ pc = "tail"
    /\ outcome' = "complete"
    /\ pc' = "done"
    /\ UNCHANGED <<ctxDone, innerCancelled, active, queued, committed, firstErr,
                   pending, persisted, jobsClosed, complete, wvars, outcomes>>

(* The spool holds more mutants than discovery counted, or is damaged. *)
TailError ==
    /\ pc = "tail"
    /\ firstErr' = "tail"
    /\ pc' = "returned"
    /\ UNCHANGED <<ctxDone, innerCancelled, active, queued, committed, pending,
                   persisted, jobsClosed, complete, outcome, wvars, outcomes>>

Terminated == pc = "done" /\ UNCHANGED vars

-----------------------------------------------------------------------------
Receive == \E o \in outcomes : ReceiveError(o) \/ ReceiveResult(o)

(* The steps the coordinator takes without waiting for anyone. *)
Coordinate ==
    \/ LoopHead \/ Fill \/ FillReadError \/ FillDone
    \/ Receive \/ SeeCancelled
    \/ CommitResult \/ CommitError \/ CommitDone
    \/ CloseJobs \/ CancelRest \/ WaitWorkers
    \/ (\E o \in outcomes : Reap(o)) \/ Return
    \/ FinishUnlessComplete \/ ReadTail \/ TailIsEOF \/ TailError

(* The steps of a worker outside run(). *)
WorkerStep(w) ==
    \/ Take(w) \/ Drop(w) \/ StartRun(w)
    \/ SendOutcome(w) \/ CancelAfterError(w) \/ ExitWorker(w)

Run(w) == \E k \in RunKind : FinishRun(w, k)

Next ==
    \/ CtxDone
    \/ \E w \in Workers : WorkerStep(w) \/ Run(w)
    \/ Coordinate
    \/ Terminated

Spec == Init /\ [][Next]_vars

(* Goroutines that can run do run.  run() itself is not assumed to return. *)
SchedulerFairness ==
    /\ WF_vars(Coordinate)
    /\ \A w \in Workers : WF_vars(WorkerStep(w))

(* Every run() returns: each test process has a timeout, after which its   *)
(* process group is killed, and cancellation kills it too.                 *)
RunFairness == \A w \in Workers : WF_vars(Run(w))

FairSpec == Spec /\ SchedulerFairness

-----------------------------------------------------------------------------
(* Properties. *)

(* Discovery order: whatever order the workers finish in, the k-th result  *)
(* in the spool is the result of the k-th discovered mutant, so a report   *)
(* is always a prefix without gaps (ordered_window.go:11-15).              *)
OrderedPrefix ==
    /\ Len(persisted) = committed
    /\ \A k \in 1..Len(persisted) : persisted[k].index = k - 1

(* A worker never blocks when it reports: the outcomes channel, as large   *)
(* as the window, still has room whenever a worker is about to send        *)
(* (ordered_window.go:71-72).  A blocked worker could not see close(jobs)  *)
(* and the coordinator would wait for it forever.                          *)
SendNeverBlocks ==
    \A w \in Workers : wpc[w] = "sending" => Cardinality(outcomes) < Window

(* The defensive branch for a duplicate or out-of-window result is never   *)
(* taken: no two unpersisted results claim one slot of the ring, although  *)
(* the slots are reused (ordered_window.go:110-115).                       *)
NoSpuriousRingError == firstErr # "ring"

(* An error of any worker reaches the caller even when its cancellation    *)
(* overtook it (ordered_window.go:135-137).                                *)
ErrorNotLost == (outcome # "running" /\ failed # {}) => outcome = "error"

(* Only a caller's cancellation makes a run partial; and a complete run    *)
(* has every mutant's own, uninterrupted result (stream.go:107-124).       *)
EndsHonestly ==
    /\ outcome = "partial" => ctxDone /\ firstErr = "none"
    /\ outcome = "complete" =>
          /\ Len(persisted) = Count
          /\ \A k \in 1..Count : persisted[k].kind = "verdict"

(* Something other than a test outcome has failed, reported or not yet.    *)
Fault == firstErr # "none" \/ failed # {}

RL == INSTANCE ResultLog WITH
        log <- persisted, cancelled <- ctxDone, fault <- Fault

(* Every behaviour of the executor is one of the abstract result log: the  *)
(* window, the ring and the channels are invisible to the caller           *)
(* (ordered_window.go:11-15, 135-148).                                     *)
ImplementsResultLog == RL!Spec

(* The report so far, whatever the order its entries came in. *)
Reported == {persisted[k] : k \in 1..Len(persisted)}

AnyExp == INSTANCE Experiment WITH
            results <- Reported, cancelled <- ctxDone, fault <- Fault

(* The streaming executor keeps the promise of the parallel and of the     *)
(* sequential one: at most one result per mutant, and one of the three     *)
(* endings (stream.go:75-124, analysis.go:783-788).                        *)
ImplementsAnyExperiment == AnyExp!Spec

(* Whatever happens, the executor returns if every run() returns: nobody   *)
(* waits for a channel, a slot or a goroutine that will never come         *)
(* (ordered_window.go:132-134).                                            *)
Termination == RunFairness => <>(pc = "done")

(* The window slides: when there is room behind the oldest unpersisted     *)
(* mutant, the next mutant is queued (or the run is stopped) even if none  *)
(* of the running tests ever returns (ordered_window.go:12-13).            *)
Replenish ==
    \A q \in 0..Count - 1 :
        (queued = q /\ q - committed < Window)
            ~> (queued > q \/ InnerErr \/ pc = "done")

-----------------------------------------------------------------------------
(* The inductive invariant. *)

(* Worker w is answerable for a job it has not yet reported. *)
Holds(w) == wpc[w] \in {"taken", "running", "sending"}

InFlight(i) == committed <= i /\ i < taken

Cursors ==
    /\ committed <= taken
    /\ taken <= queued
    /\ queued - committed <= Window

HandInv ==
    \A w \in Workers :
        /\ Holds(w) => InFlight(hand[w].index)
        /\ wpc[w] = "sending" => Present(hand[w])
        /\ \A v \in Workers :
              (Holds(w) /\ Holds(v) /\ hand[w].index = hand[v].index) => w = v

OutcomesInv ==
    \A o \in outcomes :
        /\ Present(o)
        /\ InFlight(o.index)
        /\ \A p \in outcomes : o.index = p.index => o = p
        /\ \A w \in Workers : Holds(w) => hand[w].index # o.index

PendingInv ==
    \A s \in Slot :
        Present(pending[s]) =>
            /\ pending[s].kind # "hard"
            /\ InFlight(pending[s].index)
            /\ pending[s].index % Window = s
            /\ \A o \in outcomes : o.index # pending[s].index
            /\ \A w \in Workers : Holds(w) => hand[w].index # pending[s].index

(* Each unpersisted job is in exactly one place: the jobs channel, one     *)
(* worker's hands, the outcomes channel, its own slot of the ring -- or it *)
(* was dropped after a cancellation.                                       *)
PlaceInv ==
    /\ Cursors
    /\ HandInv
    /\ OutcomesInv
    /\ PendingInv
    /\ OrderedPrefix
    /\ NoSpuriousRingError

(* Something other than the normal end of the run has happened. *)
Disturbed == ctxDone \/ Fault

Finished == {"returned", "tail", "done"}

(* Where an error is between the worker that met it and firstErr. *)
ErrorInv ==
    /\ failed # {} =>
          \/ firstErr # "none"
          \/ \E o \in outcomes : o.kind = "hard"
          \/ \E w \in Workers : wpc[w] = "sending" /\ hand[w].kind = "hard"
    /\ \A w \in Workers :
          \/ wpc[w] = "failed"
          \/ wpc[w] = "sending" /\ hand[w].kind = "hard"
          => failed # {}

ControlInv ==
    /\ pc \in {"fill", "select", "commit"} => active
    /\ pc \in {"fill", "select"} => committed < Count
    /\ ~active => Disturbed
    /\ pc \notin {"loop", "fill", "select", "commit"} =>
          committed = Count \/ Disturbed
    /\ innerCancelled => committed = Count \/ Disturbed
    /\ pc \in Finished \cup {"reap"} => \A w \in Workers : wpc[w] = "exited"
    /\ pc \in Finished => outcomes = {}

InterruptedInv ==
    ((\E w \in Workers : wpc[w] = "sending" /\ hand[w].kind = "interrupted")
       \/ (\E o \in outcomes : o.kind = "interrupted")
       \/ (\E s \in Slot : pending[s].kind = "interrupted")
       \/ (\E k \in 1..Len(persisted) : persisted[k].kind # "verdict"))
    => Disturbed

OutcomeInv ==
    /\ outcome # "running" <=> pc = "done"
    /\ complete =>
          /\ pc \in Finished
          /\ committed = Count
          /\ failed = {}
          /\ \A k \in 1..Len(persisted) : persisted[k].kind = "verdict"
    /\ pc = "returned" /\ ~complete => Disturbed
    /\ pc = "tail" => complete /\ firstErr = "none"
    /\ outcome = "complete" => complete /\ firstErr = "none"
    /\ outcome = "partial" => ctxDone /\ firstErr = "none" /\ failed = {}
    /\ outcome = "error" => firstErr # "none"

(* Every error is on its way to the caller, every early stop and every     *)
(* interrupted result has a cause that decides how the run ends.           *)
FateInv ==
    /\ ErrorInv
    /\ ControlInv
    /\ InterruptedInv
    /\ OutcomeInv

IInv == TypeOK /\ PlaceInv /\ FateInv
=============================================================================
