# mutation_judge: specifications, checks and proofs

TLA+ specifications of mutation_judge, a mutation tester for Go modules: it
copies a module into a snapshot, discovers mutants, runs `go test` on a sandbox
per mutant, and reports which mutants the tests detected. What can be wrong in
such a tool without anybody noticing is not one mutant but the *experiment*: a
result attributed to another mutant, a partial run that looks complete, a
verdict drawn from a process the tool killed itself, a cached verdict of another
program, an "equivalent" mutant that is not, a test left out that would have
killed, a regression that passes the gate. The specifications are about these.
All paths below are relative to the repository.

## 1. The system

| Component | State | Operations | Talks to | Correct when |
|---|---|---|---|---|
| `cmd/mutation-judge/main.go`, `journal.go` | signal channels, context, exit code, journal file | `run`, signal goroutine | engine, spools | exit code, report and journal agree on how the run ended; nothing stays on disk |
| `internal/analysis` preparation (`prepareContextMode`, `runBaseline`, `analyze`) | snapshot, git base, mutant spool, deadlines | ordered acquisition, release on each early return | workspace, gitdiff, frontend, runner | every path releases what it acquired |
| `internal/analysis` executors (`orderedWindow` + `executeMutantsSpool`, `executeMutantsParallel`, `executeMutantsSequential`) | job and outcome channels, ring or slots, derived context | read, run, persist, drain | spools, runner, cache | own result for each mutant; complete / partial / error tell the truth; no goroutine stays behind |
| `internal/runner` | tracking maps, limits, contexts | `GoTest.Run`, `jsonEventStream` | proc, `go test -json` | the verdict follows from what the process said, or is inconclusive |
| `internal/cache` | a directory of entries | `Get`, `PutContext` | executors of this and other processes | a hit is what running the mutant would give |
| `internal/proc` | process group or job object | run, cancel, bounded capture | operating system | no descendant survives; cut output is an error; the call returns |
| `internal/workspace` copy and verification | temporary trees | copy (workers), verify | host tree | a snapshot is one state of the host; no worker outlives the copy |
| `internal/gitdiff` | frozen index, metadata | capture, verify | git | selection uses the snapshot's bytes and the frozen index |
| `internal/mutantspool`, `resultspool` | records in memory or in a file | append, read, close | discovery, executors, report | order, count and content are kept; the file goes |
| `internal/frontend` (disk discovery) | sorted runs | add, carry, merge, duplicate check | mutant spool | what discovery in memory gives, or an error, and no file |
| `internal/frontend` (operators, `discarded.go`) | none | AST visitor | `go/types` | mutants compile and end, equivalent ones are equivalent, none is run twice |
| `internal/coverage`, test scopes | coverage maps, suffix index | lookups | executors | no test that could detect a mutant is left out |
| `internal/model`, `internal/compare` | none | validate, compare | reports | only evidence is believed; every mutant of both reports is accounted for once |
| `internal/history`, `record`, `trend`, `compare` commands | a log file | append, read, gate | each other, through files | a broken log is noticed; no regression passes the gate |
| `internal/config`, `internal/report`, local replacements, reflink | none | parsing, formatting, rewriting, one system call | | |

How they interact in a run: `run` installs the signal handler and calls
`AnalyzeSpool`/`Analyze`; preparation pins the git index, copies and verifies the
module and discovers mutants into a spool; the baseline and (optionally) the
coverage run execute the unmodified tests; an executor takes mutants from the
spool, each worker asks the cache, otherwise copies the snapshot, applies the
mutation and runs `go test` on the tests selected for it; results go to a result
spool or to slots; `analyze` decides whether the report is complete; `run`
renders it, journals an interruption and picks the exit code. Later commands
read the report: `record` and `trend` keep a log, `compare` gates a change. One
context runs through an analysis: cancelled by the first signal, bounded by the
total deadline, and derived again by each executor and each test process.

The hard parts are concurrency (signal goroutine, workers, several processes on
one cache or one log, the host's owner), cancellation that overtakes errors,
failures half-way, limits that drop information, crashes, and the meaning of Go
programs. `PROJECT.json` lists each at its line under `hazards`.

## 2. Modules

| Module | Models | Abstracts |
|---|---|---|
| `ResultLog` | what an in-order executor promises (no code of its own) | |
| `Experiment` | what any executor promises, results in any order | |
| `OrderedWindow` | `ordered_window.go`, `executeMutantsSpool` | outcomes channel as a set (more orders than FIFO), a result as index and kind, score counters |
| `ParallelPool`, `SequentialRun`, `Executors` | `executeMutantsParallel`, `executeMutantsSequential`, and the choice between them | counters behind the warning text |
| `RunLifecycle` | `run`, `analyze`, what `prepareContextMode` and `runBaseline` acquire and release, signals, both deadlines | execution as a count of results; per-test coverage |
| `TestVerdict` | `GoTest.Run` after the process, `jsonEventStream` | texts; evidence samples |
| `ResultCache` | `Store.Get`, `PutContext`, their use in `runOneMutant` | the key as the tracked inputs; contents as a schema and a verdict |
| `CopyPool` | the walk, its bounded channel, the copy workers and their join in `workspace.go` | contents as one stamp per buffer; directories, modes |
| `SnapshotCapture` | extends `CopyPool`: pinning the index, verification of copy and index, release | what follows the capture, as one step |
| `ProcessGroup` | `internal/proc` on Unix, Windows and elsewhere, with `os/exec` as external | output as pieces of one stream |
| `Spool` | both spools, as a value | encodings |
| `DiskDiscovery` | `DiscoverToDisk`, `discoveryRuns`, the disk check of identities, and `DiscoverLimited` to compare with | a candidate as an offset and an identity |
| `GoSyntax` | trees, places, and an interpreter: the reference for the meaning of a program | integers without width |
| `MutationOperators` | `discoverFileEmit`, `discarded.go` | positions as paths; identities, diffs, descriptions |
| `TestSelection` | `TestScopes`, coverage maps, `mutantTestScope`, `mutantTestRun`, `buildPerTestCoverage` | a profile as "reached or not" per file for one span |
| `Frontend` | puts the last four side by side: a behaviour collects, walks a program, or selects tests | |
| `ReportDocument`, `ReportCompare` | `summarize`, `DecodeReport`, `ValidateReport`; `Compare`, `findLikelyShifts` | field contents as present, blank or well formed; lists as sets |
| `Commands` | `record`, `trend`, `compare` and `internal/history`, run by several jobs and along a branch | an entry as pieces of a line |
| `OrderedWindowProofs`, `ExecutorsProofs`, `RunLifecycleProofs`, `RunnerProofs`, `MutantRunProofs`, `SnapshotCaptureProofs`, `DiskDiscoveryProofs`, `CommandsProofs` | theorems (section 5) | |
| `MC*` | instances for TLC | |

Correspondence of state and actions:

* **OrderedWindow.** `pc` is the coordinator's position in the loop of
  `ordered_window.go:84-150` and then in `stream.go:111-124`; `queued`,
  `committed`, `pending`, `active`, `firstErr` are its locals. The jobs channel
  is FIFO with consecutive indices and so is the interval `taken..queued-1`.
  `wpc` and `hand` are the workers. Errors are sent *before* the worker cancels
  (`SendOutcome`, `CancelAfterError`: two steps, as in lines 73-76), so the
  coordinator may see the cancellation without the error. `WindowFactor` is the
  constant 4 of line 33.
* **ParallelPool, SequentialRun, Executors.** The dispatcher goroutine, its
  rendezvous with a worker (`Dispatch`), the drain, the slots, the mutex sections
  as single steps, and the final merge, which reads the context before it reads
  the slots. `mode` is the executor `analyze` picks from the worker limit.
* **RunLifecycle.** `sigCh` and `caught` are the buffered channels of
  `main.go:196-207`; the goroutine's send and cancel are separate steps, and the
  cancellation of the derived context a third. `files` is what is on disk; each
  step may fail after its predecessors created something. A signal without
  handler kills the process.
* **TestVerdict.** Packages and their tests proceed in any interleaving, may
  crash, fail to build or hit go test's timeout; each event is observed, lost or
  dropped for its identity; a map at its limit stays as it is. `stderr` is what
  the other stream says: nothing, a build failure, or the panic of go test's
  timeout. Then the three decisions of `Run` in their order, with both contexts
  still able to end in between. Without a single event the failed tests are names
  found in free text, which may be any.
* **ResultCache.** Inputs are split into what the key covers and what it does
  not (`cacheSafe`). `disk`, `temps` outlive jobs. Kills strike at any step;
  a power failure may tear entries that were not written back, since nothing is
  synced. So a key can lose its entry: a writer that looked before the entry was
  there replaces it by one that is not written back, and the power fails.
* **CopyPool, SnapshotCapture.** A path of the host has a kind and a stamp per
  buffer; the editor writes, creates, removes and retypes paths and rewrites a
  file buffer by buffer *while* it is read. A copier's open, read, write and
  error are separate steps; the first error cancels, later ones are echoes of
  it. The verification walks the host again and compares; then the index and its
  metadata are compared with the pinned ones. `moment` records tree and index
  when the copy was joined.
* **ProcessGroup.** `Run` is the calling goroutine from `Start` to the return,
  `Watcher` the goroutine of `os/exec`; processes fork, write, exit or hang. On
  Windows the suspended start, the assignment to the job and the resumption are
  separate steps that may fail, and the context may end between them.
* **DiskDiscovery.** `levels` are the runs of `discoveryRuns.add`; a carry, a
  merge of `FanIn` runs, the last merges and the check of identities are steps
  that touch a disk and may fail; `store` has the spools that are open, by name,
  and every error path removes what it closes from it.
* **Frontend, MutationOperators.** One step per emitted mutant. The maps of
  marked nodes that the visitor fills before it reaches a node are conditions on
  the node's place. `TestSelection` is operators and a few steps: a profiled
  test is one because each may fail on its own.
* **Commands.** A job validates, builds its entry, opens the log and appends in
  pieces; a full disk or a kill may stop it between pieces. A branch takes
  changes whose comparison exits with 0, and each merged report is the next
  baseline.

Most modules have a section of *seeded faults*: variants of a definition as a
slip would make it. No specification uses them; each property is known to fail
with one of them in place of the original, which shows that it depends on the
code. A module has one invariant for its types, folded with the named parts that
strengthen it (`IInv`, `PoolInv`, `LoopInv`, `LifecycleInv`, `ReaderInv`,
`EvidenceInv`, `CopyInv`, `JobInv`, `DiscoveryInv`, `LogInv`).

## 3. Runs

| Run | Bounds | Shows |
|---|---|---|
| `window` | 5 mutants, 2 workers, window 2; 48,000 states | the inductive invariant, room in the channel, refinement of `ResultLog` (order and contiguity, errors not lost, honest endings), termination, the window slides |
| `executors` | 5 mutants, at most 2 workers; 27,000 states | slot ownership, merge alone, every index and error accounted for, refinement of `Experiment`, termination without a goroutine left |
| `lifecycle` | 2 mutants, 2 signals, all option combinations | the inductive invariant (the journal names the first signal), gate only on complete reports, nothing left on disk, a signal ends the run |
| `verdict` | 2 packages, 2 test names, maps of 2 | the inductive invariant of the reader, agreement with the whole event list, inconclusive after loss, own kills never scored |
| `cache` | 2 jobs, 2 executions each, 2 tracked × 2 untracked inputs | the inductive invariant of the directory (only evidence is stored), fresh hits, a settled entry (written back, no writer under way that missed it) stays, any other is lost to a power failure alone; 1.6 million states up to the exchange of the jobs |
| `snapshot` | 4 paths, 1 or 2 copiers, queue of 1, 2 edits; 1.9 million states | the inductive invariant of pool, trees, moment and verification; what is handed out is tree and index of one moment; copiers joined; the cause of a failure is returned, not its echo; the preparation ends |
| `process` | 4 processes, 3 pieces of output, 2 kept | the inductive invariant (on Windows nothing runs outside the job); no survivor; cut output is an error; the call returns |
| `discovery` | runs of 1, merges of 2, identities by 2, spools of 2 records; some 60 small programs; modules of up to 3 packages; 78,000 states | the inductive invariant of collection; disk and memory agree and no file stays; equivalent mutants are equivalent, protected ones end, deletions, zeroed results and shifted bounds compile, duplicates in one known case alone; narrowing keeps the verdict |
| `commands` | 3 jobs with lines of up to 3 pieces, a branch of up to 3 reports over at most 3 mutants, exit codes 10 and 256; 317,000 states | the inductive invariant (the log is what the jobs sent, and only validated evidence), no silent gap in a trend, own reports accepted (whole, cut short, or ended after the last result), a regression is visible in the exit code, also over several merges, buckets are honest |
| `journal_phase`, `in_flight_is_trusted`, `scope_is_safe` | small | documentation or intention and code disagree (section 6) |

Why the bounds are enough for what they are to show. The ring needs more mutants
than its window and at least two workers for results to be out of order and
slots to be reused: 5 > 2. The pool needs more mutants than workers so that each
worker serves twice. Two signals show the one that is handled and the one that
comes during handling; more change nothing once the handler is gone. Two
packages with two tests each exceed maps of two entries, so that the limit is met
while both packages are under way; the real limit is 8192. Two jobs with two
executions each give every pair of writers, a reader after a writer, and a
leftover of an earlier crash. In the snapshot a file fills two buffers, so that
it can be torn; there is a link, a path that appears, and a queue that is full
while a copier fails; two edits are one for each side of the verification. Four
processes are a child, a grandchild, one that outlives its parent and one forked
during the kill. Seven candidates make three levels of runs and more runs at the
end than one merge takes. The theorems of section 5 remove the bounds for all
modules but those of the run `discovery`.

The bounds of the counters are in the invariants' types. Symmetry is used in
`verdict` and `cache`, whose properties treat the permuted values alike and look
at states and steps.
`commands` alone does not check deadlock: its jobs and its branch come to an end.
Every other module has an explicit step in its final states.

`MutantsCompile` does not ask the code's own count of uses. `Compiles` is the
compiler's rule, stated over the names whose value is read (`Reads`) and the
value of constant bounds, and the programs that violate it before the mutation
are left out.

What the programs and modules of `discovery` are. `MCFrontend` lists them: each
exercises one operator or exclusion with the neighbouring case the exclusion
must not catch, and `Fuel` bounds the turns an original may take, so that a
mutant that exceeds it by far does not end. `MutantsEnd` is stated for the
operators whose exclusions are there to keep mutants finite (deletions, loop
exits, channel and lock operations), not for boundary, arithmetic, boolean and
loop-control mutants, which the code leaves to the timeout.

## 4. Fairness

* `OrderedWindow!FairSpec`: runnable goroutines run (weak fairness of the
  coordinator and of each worker outside `run`). `Termination` additionally
  assumes in its statement that every `run` returns. The code justifies both: Go's
  scheduler, and the timeout and cancellation that kill each test's process
  group. `Replenish` does *not* assume that runs return.
* `ExecutorsFairSpec`: the same for both in-memory executors, with runs that
  return.
* `RunLifecycle!FairSpec`: the process is scheduled and its own steps end. A test
  run is only known to end once its context has. No fairness for signals or
  deadlines: they may never come.
* `SnapshotCapture!FairSpec`: the caller, the walk and each copier run; nothing
  is assumed of the user who edits.
* `ProcessGroup!GroupFairSpec`: the calling goroutine, `os/exec`'s watcher and reader
  run and the grace period expires; nothing is assumed of the processes, which
  may hang for ever.

`verdict`, `cache`, `discovery`, `commands` assume nothing.

## 5. Proofs

`OrderedWindowProofs` proves, for every number of mutants, every finite non-empty
set of workers and every positive window factor (`ConstantsAssumption`):

* `Invariance`: `Spec => []IInv`
* `TypeCorrect`, `OrderedPrefixHolds`, `RingErrorUnreachable`,
  `ErrorNotLostHolds`, `EndsHonestlyHolds`, `SendNeverBlocksHolds`
* `Refinement`: the executor implements `ResultLog`;
* `ExperimentRefinement`: it implements `Experiment` too, the promise of the
  other two executors. This follows from the first and `OrderedPrefix`: an ordered
  log reports no mutant twice, and one of full length reports all of them
  (`LogStepIsExperimentStep`).

None of the properties is inductive: that results are persisted in order follows
only from what is known of the results *not yet* persisted. `IInv` adds

* `PlaceInv`: every unpersisted index is in one place (queue, one worker's hand,
  channel, or its own slot of the ring), and the indices in flight lie within one
  window. Two distinct indices within a window have distinct slots
  (`RingDistinct`), so the ring never mixes them up;
* `FateInv`: an error is in `firstErr` or on its way to it; an early stop, a
  cancellation and an interrupted result each have a cause, which decides how the
  run may end.

`SendNeverBlocks` is a counting argument: the indices in the channel and the one
in the sender's hand are different and lie in an interval of at most `Window`
elements, so the channel holds fewer than `Window`. The refinement maps the
persisted list to the log and any error, reported or not, to the fault; each step
that touches neither is a stutter.

`ExecutorsProofs` proves, for every number of mutants and
every worker limit (`PoolAssumption`):

* `ExecutorsInvariance`: `ExecutorsSpec => []ExecutorsInv`
* `PoolErrorNotLost`: a worker's error is what the parallel executor returns
* `ExecutorsRefinement`: both executors implement `Experiment`.

For the pool, that a run called complete has every result needs an account of
every index: `PlaceInv` (a handed-out index has its result or its worker, unless
something stopped the pool), `FaultInv` (an error is in `hardErr` or in a
worker's hands; an inner cancellation or a result cut short has a cause), and
`ControlInv` (who is where). The subtle case is the merge: an empty slot there
means that the *caller* cancelled, because with no worker left an error would be
in `hardErr` and the merge not reached (`EmptySlotIsCancelled`,
`NoFaultAtMerge`). `SlotOwnership` is what makes `Record` a report of a new
result in the abstract experiment. `PoolStep` has a lemma per action, each with a
step per part. `LoopInv` does the same for the sequential loop, where only the
last result may have been cut short.

`RunLifecycleProofs` proves, for every number of mutants and of signals
(`LifecycleAssumption`), `LifecycleInvariance`, `GateOnlyCompleteHolds` and
`NothingLeftHolds`. `LifecycleInv` adds to the two statements about the journal

* `SignalInv`: where the first signal is (the runtime's channel, `caught`, or
  with main). The context is cancelled after `caught` has the signal, so a main
  goroutine that sees the context ended finds it there;
* `ReportInv`: an error leaves no report, and an incomplete report has a cause
  that is still known when the exit code is chosen;
* `FilesInv`: what exists on disk at each point, the same on every path there.

`MutantRunProofs` holds the proofs about `ResultCache` and `TestSelection`, the two
ways `runOneMutant` saves test runs. For every finite set of jobs and any snapshots,
untracked inputs and rounds (`CacheAssumption`) it proves `EvidenceInvariance`,
`HitIsFreshHolds`, `EntryIsKeptHolds` and `SettledIsKeptHolds`. That only
evidence is renamed into place needs `WriterInv` (a writer has a definitive
result of tracked inputs alone, and at the rename its context had not ended) and
`TempInv` (a temporary file belongs to one call and is whole from the write to
the rename). `HitIsFresh` rests on them: the entry a lookup takes is evidence of
the key it was found under, and neither it nor the inputs of the execution change
before the next one begins.

`EntryIsKept` says how long an entry lasts. Of every entry only this holds: no
step but a power failure leaves its key without one, since a rename replaces it by
a whole entry (`TempInv`, `AvailableStep`), which however is not synced. An entry
is *settled* when it is written back and every job that missed it is gone. Then
each later job of its inputs finds it and does not write, and a job whose inputs
the key does not see neither looks nor writes; so nothing renames over it
(`NobodyMisses`, `OnlyRenameWrites`), a power failure tears only what was not
written back (`PowerLossKeeps`), and it stays settled (`SettledStep`). As that
holds at every step, a settled entry is there for ever: `SettledIsKeptHolds` is
this statement about whole behaviours.

For every set of modules it proves `NarrowingKeepsVerdictHolds`.
`SelectionAssumption` asks of a module that its files are finite in number, that
the path of the mutated file is an end of its profile key, which names its
package, and that a test notices only what its binary is built from; the last is
a fact about Go, the others hold of what `go list` and `-coverprofile` write.
The invariant `SelectionInv` says that the profiles are those of all tests that
were run alone, or none: one test that fails alone takes the others' with it.
`ProfileTells` is the point of the coverage maps: when a lookup is known at all,
the one file that answers is the mutated one, so that a test that reached it
cannot count as uncovered, however many files share its name. `SelectedNotices`
goes through the fallbacks. The premises of the property are needed: without
`ScopesTell` the run `scope_is_safe` has the counterexample.

`RunnerProofs` holds the proofs about `TestVerdict` and `ProcessGroup`, the two
sides of one test command. For any finite sets of packages and names and any
limit of the maps (`VerdictAssumption`) it proves `ReaderInvariance`,
`FaithfulVerdictHolds` and `SelfKillNotScoredHolds`. `MapsInv` ties the maps to
what happened as long as nothing was lost, in every interleaving of packages;
`EndInv` says how process and contexts ended. `TrackBounded` and its corollaries
are the lemmas on the bounded maps. For any number of processes, pieces of
output and any limit (`ProcAssumption`) it proves `JobInvariance`,
`NoSurvivorHolds` and `WholeOrErrorHolds`. `ChildInv` says how far the child is
at each step of `Run`; from it follows that the last kill (`Close`: the job on
Windows, the group on Unix) meets every process that is alive. `OutputInv`
accounts for every piece: in the pipe, in the capture, or lost and marked.

`CommandsProofs` proves, for every finite set of jobs, all documents and all
options (`CommandsAssumption`):

* `LogInvariance` and `NoSilentGapHolds`. `PiecesInv` says that a job's pieces
  are in the log once and in order, `ProgressInv` ties a job's position to what
  it has sent, `EntriesInv` ties what a trend shows to places of the log.
  `GoodLogReads` is not inductive: that a log in which nothing was lost reads
  follows from these three (`WholeLogReads`), by following each line to where it
  ends. The lines of a log are therefore given by the places where they end, not
  by a recursion over the pieces;
* `OwnReportsAcceptedHolds`: the conditions of `ValidateReport` hold of what
  `summarize` computes, whatever the results, and also of a report that has them
  all and is not complete, because a signal or the deadline came after the last
  one (`Produced`; `analysis.go:199-202, 938-941`, `stream.go:114`);
* `RegressionIsVisibleHolds` and `GatingIsTransitiveHolds`: the second by
  induction over the merges, with `NoRegressionIsTransitive` for one of them;
* `BucketsAreHonestHolds`: the buckets of `Compare` are disjoint and, with the
  unchanged mutants, count each identity of both reports once; a relocation pairs
  one removed mutant with one new one.

`SnapshotCaptureProofs` proves, for any number of paths and of buffers per file,
any number of edits, every set of worker counts and every queue
(`CopyAssumption`), `CopyInvariance`, `CauseNotEchoHolds` and
`PreparedIsAMomentHolds`. `CopyInv` adds to what it promises

* `PoolInv` and `CauseInv`: who is at work on which path, and what an error says.
  A worker leaves the queue only after a cancellation or when the walk is over
  and no job is left, so a copy that was joined without an error has copied every
  path (`JoinedCopy`). Only the caller or a worker that failed cancels, which is
  `CauseNotEcho`;
* `TreeInv`: nothing in host or copy is from the future; a copied file that
  nobody works on is not empty and, if it begins as the host's does, as long; a
  path of the first tree that the walk has passed is in the copy, queued, or with
  a copier. Every path has it (`PathInv`), so a step is proved for the path it
  touches and for the others;
* `MomentInv`: a buffer of the host that is not newer than the moment of the join
  is that moment's, and so are length and kind of a path that begins with one
  (`EditedPaths`: what one edit does to every path);
* `VerifyInv`: what the verification has met is as it was at the moment. A buffer
  equal in host and copy is not newer than the copy, hence the moment's
  (`SameLink`, `SameFile`); a path it passed without meeting it did not appear
  before the moment, and if it was there at first it is in the copy, which the
  second pass would notice;
* `GitInv`: numbers of the pinned index and ignore files between those of the
  start and those of the moment, which are equal once they were compared.

The walk's and the copiers' steps are first reduced to what they do to the shared
state (`WalkEffects`, `CopierEffects`), and the parts of `CopyInv` are proved from
these.

`DiskDiscoveryProofs` proves, for any inputs, positive sizes of chunks, a fan-in
of at least 2 and any limits of the buffers (`DiscoveryAssumption`),
`DiscoveryInvariance`, `StorageHolds`, `NoTempLeftHolds` and
`SameAsInMemoryHolds`. `DiscoveryInv` has two halves. `ResourceInv` is inductive on
its own, and adds to the limits that the code promises

* `OwnInv`: the open spools are the result, the runs of all levels, the run being
  added, and both sides of a round; no spool is in two places, so that a merge
  that closes the runs of one level closes nothing else (`CarryRuns`). An exit
  therefore only has to close what it owns, and each does;
* `PhaseInv`: which of these places are empty at which point;
* `BufferInv`: every spool holds candidates, within its limits and readable,
  after any number of appends (`AppendRecordOK`, `SpooledIs`), and so is what
  sorts and merges give (`SortedIs`, `MergeRunsType`);
* `LevelInv`: every chunk but the last of a file is full. A carry replaces
  `FanIn` runs by one of the next level, which stands for as many chunks
  (`CarryHeld`), so that a run of level n exists only after `FanIn`^(n-1) chunks:
  the runs on disk are a logarithm of the candidates;
* `CountInv`: the counter is what the visited files have emitted.

`FoundInv`, the other half, says where every candidate is. `SameAsInMemory` speaks
of the end only; to be inductive it needs what each place holds on the way:

* `FileInv`: the candidates in memory are the last ones the visitor emitted, in
  their order;
* `ContentInv`: the result is the files that are done with, each sorted, one after
  the other. The runs of the current file are each in order and without
  repetition, no two share a candidate, and together they hold what was emitted
  and is not in memory (`RunsHold`). In the middle of a round these are the merged
  runs and the chunks that are left (`Live`);
* `NamesInv`: no run is named twice in a level or a round, for a run that a merge
  read twice would double its candidates although every file exists;
* `IdsInv`: the sorted runs of the check hold as many identities as were read, and
  the same ones. `InLive` and sets of members do not see repetitions, which the
  check is there to find; so it is the number of identities, with their set, that
  a merge must keep.

The argument has four parts. A step of a merge moves one head and keeps the output
in order (`TakeLeastIs`, `MergeIs`); this rests on the orders being total and strict
on what they compare (`BeforeIs`), which for candidates is byte offset and then
identity. So a merge of a group keeps the content of the runs (`MergedRuns`) and a
carry does. Two sequences in order, without repetition and with the same members
are equal (`OneInOrder`), so that the last merge of a file writes exactly the
file sorted, whichever way its candidates went. And the heap of the in-memory
discovery, which drops the latest of the candidates above its limit, keeps the
first ones in this order (`SelectedIs`), for every limit at once. A candidate that
occurs twice in one file has one identity twice: then `NoTwins` fails, nothing is
claimed of the content, and `IdsInv` refuses the input.

The merges and joins are recursive functions of a number. That such a function
exists, and what holds of its values, is proved once by induction on the number
(`Least`, `UpToN`, `Recursion`), from which `JoiningIs`, `HeldIs`, `SizesIs` and
the facts about merges follow.

An attempt to prove `OwnReportsAccepted` showed that the model left out what
`ValidateReport` says of a score when no mutant is scoreable: it must then be 0
(`validate.go` compares the score with 0). `SummaryAgrees` says so now, and a
document that violates it is among the instances.

Only model-checked, because the proof system does not handle it: liveness
(`Termination`, `Replenish`, `ExecutorsTermination`, `SignalEndsRun`, `Returns`)
and what rests on recursive operators, which are the interpreter and the mutation
operators (the properties of `Frontend`).

## 6. Where documents and code disagree

* `journal_phase`: an interrupted run whose executor fails is journaled with
  phase `baseline`, although mutants have results (`main.go:234` against
  `journal.go:21`).
* `in_flight_is_trusted`: after a lost pass event the test counts as in flight
  and is named as responsible for a kill (`stream.go:197` against
  `stream_test.go:114`).
* `scope_is_safe`: `--narrow-test-scope` leaves out a test binary that recompiles
  the mutated package: `go list` names the package there only as `a [b.test]`,
  which the scope drops (`workspace.go:316` against `performance.md:193`).
  `NarrowingKeepsVerdict` shows that narrowing is sound where no package is
  recompiled for a test.

Noted, and not made into runs:

* A signal between the executor's last look at the context and `main.go:222`
  gives an interrupted run with a report that says complete, which it is; a
  signal after that line, or before a report that cannot be written, leaves no
  journal entry.
* With coverage-based test selection, the expressions of case clauses are in no
  block of a profile, so a mutant in one is taken as uncovered by tests that
  evaluate it; and a file that no profile names may be resolved by its suffix to
  another file (`coverage.go:135-145`). Both are excluded from
  `NarrowingKeepsVerdict` by its condition `ProfilesTell` and are among the
  instances of `MCFrontend`.
* The comment at `frontend.go:505-508` on boundary mutants does not hold for an
  unsigned counter (`i > 0` to `i >= 0`), which the model's unbounded integers
  cannot show.
* Some pairs of operators give the same program at one place: a buffer of 1
  decremented to 0 and unbuffered, the two operators on returned errors,
  `x && x` reduced to either side. `NoDuplicateRuns` is stated for negated
  conditions and swapped connectives, where the code excludes duplicates.
* Also there one case is left. `negatableCondition` looks at the outer operator
  (`frontend.go:1271-1289`), so with `relational` and without `boolean` the
  condition `!(x == y)` gives `!(!(x == y))` beside `!(x != y)`: one program, run
  twice. `docs/semantics.md:85` promises to avoid duplicates and line 91 lists the
  exclusions as the code has them. `NoDuplicateRuns` names the case
  (`NegatesEquality`) and says that it is the only one.

## 7. Not modelled, and why

* *Local replacements*: the text of `go.mod` rewritten through the go command,
  sequentially, without state between calls. Their effect on the cache, inputs
  outside the snapshot, is in `ResultCache`.
* *Rendering* (`internal/report`): pure formatting.
* *Configuration* and option parsing: one pass over one file and the flags. The
  exit code that a lost gate is configured to give is in `Commands`.
* *Copy-on-write clones*: one system call with a fallback to copying bytes; in
  both cases `CopyPool` sees one file copied.
* *Mutant identities, diffs, changed lines, generated files*: hashing and text.
  Identities are distinct values given by place, duplicates included where the
  disk check is about them.
* *Toolchain discovery and evidence texts* in the runner; *diff parsing* in
  `gitdiff`; *path confinement, digest and byte-level application* in
  `workspace`.

What the modelled parts leave out:

* `CopyPool`: the editor never brings a path back to a former state (the
  verification compares contents and cannot see an undone change); a file
  replaced while it is open is read like one rewritten in place; a link read
  twice (`workspace.go:665`) is read once.
* `ProcessGroup`: no descendant leaves its group, and a pid is not reused
  between the end of a group and the last kill.
* `Commands`: the compatibility check `CompareReports` is called by the code but
  not in the repository, and external; log lines longer than the reader's buffer;
  a report left over from an earlier, failed analysis; a power failure after an
  append, which is not synced (`history.go:94-97`).
* `MutationOperators`: 64-bit edges of literals, methods and named results, data
  flow between variables; a constant is one of the file's own (`Const`), as
  `shiftableBound` can know no other. Constants have no scopes.

## 8. Plan

Done: executors, lifecycle, verdicts, cache; copy and capture; processes; spools
and disk discovery; operators; test selection; reports, comparison and history;
proofs for the three executors, the lifecycle, the verdicts, the cache, the
processes, the copy and the capture, the log and the gate, disk discovery and
test selection.

Left: proofs for the properties of `Frontend`. They speak of trees and of an
interpreter, which are recursive operators, and would be inductions over trees.
