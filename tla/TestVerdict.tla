---------------------------- MODULE TestVerdict ----------------------------
(***************************************************************************)
(* How one go test process becomes a verdict: the bounded reader of its    *)
(* JSON events (internal/runner/stream.go) and the decisions of GoTest.Run *)
(* after the process has ended (internal/runner/runner.go).                *)
(*                                                                         *)
(* The process itself is external.  It is modelled by what its protocol    *)
(* can say: packages fail to build, run tests, crash with tests in flight, *)
(* hit go test's own timeout; it ends by itself or is killed when the      *)
(* runner's context ends.  An event is read when it is written, because    *)
(* only the state at the end is used; a line may be malformed or oversized *)
(* and an identity too long to keep.  Output text, evidence samples and    *)
(* assertions are left out.                                                *)
(***************************************************************************)
EXTENDS Naturals, FiniteSets

CONSTANTS
    Packages,     \* packages of the test command
    Names,        \* test names, which recur in several packages
    MaxTracked    \* entries a tracking map may hold: 8192 in the source

ASSUME VerdictAssumption ==
    /\ IsFiniteSet(Packages)
    /\ IsFiniteSet(Names)
    /\ MaxTracked \in Nat

Key == Packages \X Names

VARIABLES
    \* the go test process
    pkg,            \* what became of each package
    test,           \* what became of each test
    process,        \* how the process ended
    stderr,         \* what the process says there, as far as it is looked for
    \* the contexts
    parentErr,      \* Err() of the caller's context
    ctxErr,         \* Err() of the context with the mutant's own timeout
    \* the reader
    long,           \* tests whose identity exceeds maxIdentityBytes
    seen,           \* eventCount > 0
    incomplete, timeoutHeader, started, failed, pkgRan, pkgBuildFailed,
    noisy,          \* stderr exceeded its preview
    \* Run
    pc, verdict, tests

world == <<pkg, test, process, stderr>>
ctxs == <<parentErr, ctxErr>>
reader == <<seen, incomplete, timeoutHeader, started, failed, pkgRan,
            pkgBuildFailed>>
fixed == <<long, noisy>>
result == <<pc, verdict, tests>>
vars == <<world, ctxs, reader, fixed, result>>

TypeOK ==
    /\ pkg \in [Packages -> {"new", "running", "buildfailed", "passed",
                             "failed"}]
    /\ test \in [Key -> {"new", "running", "passed", "failed"}]
    /\ process \in {"running", "nil", "exit", "killed", "other"}
    /\ stderr \in {"none", "build", "plain", "timeout"}
    /\ parentErr \in {"none", "deadline", "canceled"}
    /\ ctxErr \in {"none", "deadline", "canceled"}
    /\ long \in SUBSET Key
    /\ seen \in BOOLEAN
    /\ incomplete \in BOOLEAN
    /\ timeoutHeader \in BOOLEAN
    /\ noisy \in BOOLEAN
    /\ started \in SUBSET Key /\ Cardinality(started) <= MaxTracked
    /\ failed \in SUBSET Key /\ Cardinality(failed) <= MaxTracked
    /\ pkgRan \in SUBSET Packages /\ Cardinality(pkgRan) <= MaxTracked
    /\ pkgBuildFailed \in SUBSET Packages
    /\ Cardinality(pkgBuildFailed) <= MaxTracked
    /\ pc \in {"run", "ctx", "parent", "judge", "done"}
    /\ verdict \in {"none", "KILLED", "SURVIVED", "INVALID", "TIMEOUT",
                    "UNKNOWN"}
    /\ tests \in SUBSET Names

Init ==
    /\ pkg = [p \in Packages |-> "new"]
    /\ test = [k \in Key |-> "new"]
    /\ process = "running"
    /\ stderr = "none"
    /\ parentErr = "none"
    /\ ctxErr = "none"
    /\ long \in SUBSET Key
    /\ seen = FALSE
    /\ incomplete = FALSE
    /\ timeoutHeader = FALSE
    /\ started = {}
    /\ failed = {}
    /\ pkgRan = {}
    /\ pkgBuildFailed = {}
    /\ noisy \in BOOLEAN
    /\ pc = "run"
    /\ verdict = "none"
    /\ tests = {}

-----------------------------------------------------------------------------
(* The reader. *)

(* Adding to a tracking map that is full changes nothing.                  *)
HasRoom(m, x) == x \in m \/ Cardinality(m) < MaxTracked

Track(m, x) == IF HasRoom(m, x) THEN m \cup {x} ELSE m

(* A line that cannot be decoded, or is longer than maxJSONEventBytes.     *)
LoseLine ==
    /\ incomplete' = TRUE
    /\ UNCHANGED <<seen, timeoutHeader, started, failed, pkgRan,
                   pkgBuildFailed>>

(* An event whose identity is too long is counted but not observed.        *)
DropIdentity ==
    /\ seen' = TRUE
    /\ incomplete' = TRUE
    /\ UNCHANGED <<timeoutHeader, started, failed, pkgRan, pkgBuildFailed>>

ObserveRun(k) ==
    /\ seen' = TRUE
    /\ started' = Track(started, k)
    /\ pkgRan' = Track(pkgRan, k[1])
    /\ incomplete' = (\/ incomplete
                      \/ ~HasRoom(started, k)
                      \/ ~HasRoom(pkgRan, k[1]))
    /\ UNCHANGED <<timeoutHeader, failed, pkgBuildFailed>>

(* pass and skip *)
ObservePass(k) ==
    /\ seen' = TRUE
    /\ started' = started \ {k}
    /\ UNCHANGED <<incomplete, timeoutHeader, failed, pkgRan, pkgBuildFailed>>

ObserveFail(k) ==
    /\ seen' = TRUE
    /\ started' = started \ {k}
    /\ failed' = Track(failed, k)
    /\ incomplete' = (incomplete \/ ~HasRoom(failed, k))
    /\ UNCHANGED <<timeoutHeader, pkgRan, pkgBuildFailed>>

ObserveBuildFailure(p) ==
    /\ seen' = TRUE
    /\ pkgBuildFailed' = Track(pkgBuildFailed, p)
    /\ incomplete' = (incomplete \/ ~HasRoom(pkgBuildFailed, p))
    /\ UNCHANGED <<timeoutHeader, started, failed, pkgRan>>

ObserveTimeout ==
    /\ seen' = TRUE
    /\ timeoutHeader' = TRUE
    /\ UNCHANGED <<incomplete, started, failed, pkgRan, pkgBuildFailed>>

ObserveOutput ==
    /\ seen' = TRUE
    /\ UNCHANGED <<incomplete, timeoutHeader, started, failed, pkgRan,
                   pkgBuildFailed>>

TestEvent(k, Observe) ==
    \/ LoseLine
    \/ IF k \in long THEN DropIdentity ELSE Observe

PackageEvent(Observe) == LoseLine \/ Observe

-----------------------------------------------------------------------------
(* The go test process (external). *)

Live == process = "running"

Step(p, q) == pkg' = [pkg EXCEPT ![p] = q]

StartTest(k) ==
    /\ Live
    /\ pkg[k[1]] \in {"new", "running"}
    /\ test[k] = "new"
    /\ Step(k[1], "running")
    /\ test' = [test EXCEPT ![k] = "running"]
    /\ TestEvent(k, ObserveRun(k))
    /\ UNCHANGED <<process, stderr, ctxs, fixed, result>>

PassTest(k) ==
    /\ Live
    /\ pkg[k[1]] = "running"
    /\ test[k] = "running"
    /\ test' = [test EXCEPT ![k] = "passed"]
    /\ TestEvent(k, ObservePass(k))
    /\ UNCHANGED <<pkg, process, stderr, ctxs, fixed, result>>

FailTest(k) ==
    /\ Live
    /\ pkg[k[1]] = "running"
    /\ test[k] = "running"
    /\ test' = [test EXCEPT ![k] = "failed"]
    /\ TestEvent(k, ObserveFail(k))
    /\ UNCHANGED <<pkg, process, stderr, ctxs, fixed, result>>

(* FAIL <pkg> [<reason>] before any of the package's tests could run.      *)
BuildFails(p) ==
    /\ Live
    /\ pkg[p] = "new"
    /\ Step(p, "buildfailed")
    /\ PackageEvent(ObserveBuildFailure(p))
    /\ UNCHANGED <<test, process, stderr, ctxs, fixed, result>>

(* A panic in init, a TestMain that exits, a crash with tests in flight.   *)
Crash(p) ==
    /\ Live
    /\ pkg[p] \in {"new", "running"}
    /\ Step(p, "failed")
    /\ PackageEvent(ObserveOutput)
    /\ UNCHANGED <<test, process, stderr, ctxs, fixed, result>>

(* The -timeout of go test fires inside the test binary.                   *)
InnerTimeout(p) ==
    /\ Live
    /\ pkg[p] = "running"
    /\ Step(p, "failed")
    /\ PackageEvent(ObserveTimeout)
    /\ UNCHANGED <<test, process, stderr, ctxs, fixed, result>>

EndPackage(p) ==
    /\ Live
    /\ pkg[p] \in {"new", "running"}
    /\ \A n \in Names : test[p, n] # "running"
    /\ Step(p, IF \E n \in Names : test[p, n] = "failed" THEN "failed"
                                                         ELSE "passed")
    /\ PackageEvent(ObserveOutput)
    /\ UNCHANGED <<test, process, stderr, ctxs, fixed, result>>

(* A failure is an exit status; success is nil unless a descendant keeps   *)
(* the pipes open (exec.ErrWaitDelay).  A binary whose timeout fires may    *)
(* say so on stderr alone.                                                 *)
EndProcess ==
    /\ Live
    /\ \A p \in Packages : pkg[p] \notin {"new", "running"}
    /\ process' \in IF \A p \in Packages : pkg[p] = "passed"
                    THEN {"nil", "other"} ELSE {"exit"}
    /\ stderr' \in {"none", "timeout"}
    /\ pc' = "ctx"
    /\ UNCHANGED <<pkg, test, ctxs, reader, fixed, verdict, tests>>

(* go cannot even begin, or cannot be started at all.                      *)
NeverBegins ==
    /\ Live
    /\ \A p \in Packages : pkg[p] = "new"
    /\ ~seen /\ ~incomplete
    /\ process' \in {"exit", "other"}
    /\ stderr' \in {"build", "plain", "timeout"}
    /\ pc' = "ctx"
    /\ UNCHANGED <<pkg, test, ctxs, reader, fixed, verdict, tests>>

(* The context has ended: the process group is killed, possibly in the     *)
(* middle of a line.                                                       *)
Kill ==
    /\ Live
    /\ ctxErr # "none"
    /\ process' = "killed"
    /\ stderr' \in {"none", "timeout"}
    /\ pc' = "ctx"
    /\ LoseLine \/ UNCHANGED reader
    /\ UNCHANGED <<pkg, test, ctxs, fixed, verdict, tests>>

-----------------------------------------------------------------------------
(* Contexts. *)

OwnTimeout ==
    /\ pc \in {"run", "ctx"}
    /\ ctxErr = "none"
    /\ ctxErr' = "deadline"
    /\ UNCHANGED <<world, parentErr, reader, fixed, result>>

(* The caller's context ends, by a signal or by the total deadline; its    *)
(* child takes over the reason unless it has one already.                  *)
ParentEnds ==
    /\ pc # "done"
    /\ parentErr = "none"
    /\ \E e \in {"deadline", "canceled"} :
          /\ parentErr' = e
          /\ ctxErr' = IF ctxErr = "none" THEN e ELSE ctxErr
    /\ UNCHANGED <<world, reader, fixed, result>>

-----------------------------------------------------------------------------
(* Run, after the process. *)

NamesOf(m) == {k[2] : k \in m}

Conclude(v, ts) ==
    /\ verdict' = v
    /\ tests' = ts
    /\ pc' = "done"

TimedOut ==
    \/ ctxErr = "deadline"
    \/ process # "nil" /\ (timeoutHeader \/ stderr = "timeout")

CheckTimeout ==
    /\ pc = "ctx"
    /\ IF TimedOut
       THEN Conclude("TIMEOUT", {})
       ELSE pc' = "parent" /\ UNCHANGED <<verdict, tests>>
    /\ UNCHANGED <<world, ctxs, reader, fixed>>

(* Seeded fault: an interrupted run is judged like any other.              *)
CheckParent_Ignored ==
    /\ pc = "parent"
    /\ pc' = "judge"
    /\ UNCHANGED <<verdict, tests, world, ctxs, reader, fixed>>

CheckParent ==
    /\ pc = "parent"
    /\ IF parentErr # "none"
       THEN Conclude("UNKNOWN", {})
       ELSE pc' = "judge" /\ UNCHANGED <<verdict, tests>>
    /\ UNCHANGED <<world, ctxs, reader, fixed>>

(* Without a single event only stderr can tell a build failure, and the    *)
(* tests that failed are those whose names its text has.                   *)
Fallback ==
    IF incomplete \/ noisy THEN "UNKNOWN"
    ELSE IF stderr = "build" THEN "INVALID" ELSE "KILLED"

(* Seeded faults of the classification below.                              *)
Classify_IgnoresLoss ==
    IF failed \cup started # {} THEN "KILLED"
    ELSE IF \E p \in pkgBuildFailed : p \notin pkgRan THEN "INVALID"
    ELSE "KILLED"

Classify_AnyPackageRan ==
    IF failed \cup started # {} THEN "KILLED"
    ELSE IF incomplete THEN "UNKNOWN"
    ELSE IF pkgBuildFailed # {} /\ pkgRan = {} THEN "INVALID"
    ELSE "KILLED"

Classify ==
    IF failed \cup started # {} THEN "KILLED"
    ELSE IF incomplete THEN "UNKNOWN"
    ELSE IF \E p \in pkgBuildFailed : p \notin pkgRan THEN "INVALID"
    ELSE "KILLED"

(* A kill that only stderr could contradict is not trusted when stderr was *)
(* cut.                                                                    *)
Unsupported == noisy /\ Classify = "KILLED" /\ failed \cup started = {}
                     /\ pkgBuildFailed = {}

Judge ==
    /\ pc = "judge"
    /\ CASE process = "nil" -> Conclude("SURVIVED", {})
         [] process = "other" -> Conclude("UNKNOWN", {})
         [] process \in {"exit", "killed"} /\ ~seen ->
               \E named \in SUBSET Names :
                  Conclude(Fallback, IF Fallback = "UNKNOWN" THEN {} ELSE named)
         [] process \in {"exit", "killed"} /\ seen ->
               Conclude(IF Unsupported THEN "UNKNOWN" ELSE Classify,
                        NamesOf(failed \cup started))
    /\ UNCHANGED <<world, ctxs, reader, fixed>>

Terminated == pc = "done" /\ UNCHANGED vars

-----------------------------------------------------------------------------
TestStep(k) == StartTest(k) \/ PassTest(k) \/ FailTest(k)

PackageStep(p) ==
    BuildFails(p) \/ Crash(p) \/ InnerTimeout(p) \/ EndPackage(p)

Next ==
    \/ \E k \in Key : TestStep(k)
    \/ \E p \in Packages : PackageStep(p)
    \/ EndProcess \/ NeverBegins \/ Kill
    \/ OwnTimeout \/ ParentEnds
    \/ CheckTimeout \/ CheckParent \/ Judge
    \/ Terminated

Spec == Init /\ [][Next]_vars

-----------------------------------------------------------------------------
(* Properties. *)

Scored == verdict \in {"KILLED", "SURVIVED", "INVALID"}

(* The tests that failed, or were in flight when their package crashed.    *)
TrulyFailed == {k \in Key : test[k] \in {"failed", "running"}}

(* What classifyEvents (runner.go:585-641) says of the events the process  *)
(* really produced, read as a whole.                                       *)
TrueVerdict ==
    IF \A p \in Packages : pkg[p] = "passed" THEN "SURVIVED"
    ELSE IF TrulyFailed # {} THEN "KILLED"
    ELSE IF \E p \in Packages : pkg[p] = "buildfailed" THEN "INVALID"
    ELSE "KILLED"

(* When no event was lost, the bounded reader comes to the verdict and the *)
(* responsible tests that the whole event list supports, for every         *)
(* interleaving of the packages (stream.go:191-218, runner.go:585-641).    *)
FaithfulVerdict ==
    (Scored /\ seen /\ ~incomplete) =>
        verdict = TrueVerdict /\ tests = NamesOf(TrulyFailed)

(* After a loss the runner neither declares the mutant invalid nor kills   *)
(* it without naming a test: such conclusions would rest on events that    *)
(* were not seen (stream.go:49-53, 209-211).                               *)
LossIsInconclusive ==
    (incomplete /\ Scored) =>
        \/ verdict = "SURVIVED" /\ process = "nil"
        \/ verdict = "KILLED" /\ tests # {}

(* What the maps say is what happened, as long as no event was lost,       *)
(* whatever the order in which the packages run (stream.go:191-218).       *)
MapsInv ==
    /\ \A k \in Key :
          /\ pkg[k[1]] \in {"new", "buildfailed"} => test[k] = "new"
          /\ pkg[k[1]] = "passed" => test[k] \in {"new", "passed"}
    /\ ~incomplete =>
          /\ started = {k \in Key : test[k] = "running"}
          /\ failed = {k \in Key : test[k] = "failed"}
          /\ pkgBuildFailed = {p \in Packages : pkg[p] = "buildfailed"}
          /\ \A p \in pkgRan : pkg[p] \notin {"new", "buildfailed"}

(* How the process and the contexts ended, and which of their ends a       *)
(* verdict has seen: a process the runner killed is never judged           *)
(* (runner.go:455-472).                                                    *)
EndInv ==
    /\ pc = "run" <=> process = "running"
    /\ pc # "done" => verdict = "none"
    /\ process = "nil" => \A p \in Packages : pkg[p] = "passed"
    /\ process = "exit" /\ seen => \E p \in Packages : pkg[p] # "passed"
    /\ process = "killed" => ctxErr # "none"
    /\ ctxErr = "canceled" => parentErr # "none"
    /\ pc = "parent" => ctxErr = "none" \/ parentErr # "none"
    /\ pc = "judge" => process # "killed"

(* The reader's maps stay within their limits, and what was lost to a      *)
(* limit is not concluded from (stream.go:49-53, 141-190); with what holds *)
(* of the maps and of the end of the process and makes it so.              *)
ReaderInv == TypeOK /\ LossIsInconclusive /\ MapsInv /\ EndInv

(* A process that the runner itself killed never counts as a detected or   *)
(* a surviving mutant, whichever of the deadlines and signals came first   *)
(* (runner.go:463-472).                                                    *)
SelfKillNotScored == process = "killed" => ~Scored

-----------------------------------------------------------------------------
(* What a test says of the program, and the code does not do.              *)

(* "An incomplete state must never be treated as a trustworthy full set of *)
(* in-flight tests" (stream_test.go:114-115): a test that passed is not    *)
(* reported as responsible for a kill.                                     *)
InFlightIsTrusted ==
    verdict = "KILLED" =>
        \A n \in tests : \E p \in Packages : test[p, n] # "passed"
=============================================================================
