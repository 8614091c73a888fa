---------------------------- MODULE RunnerProofs ----------------------------
(***************************************************************************)
(* What is proved of running one test command.                             *)
(*                                                                         *)
(* TestVerdict, the verdict on one test process: for every set of packages *)
(* and of test names and every limit of the reader's maps, the inductive   *)
(* invariant ReaderInv and the two promises of the verdict.                *)
(*                                                                         *)
(* ProcessGroup, the command and everything it starts: for any number of   *)
(* processes, of pieces of output and any capture limit, the inductive     *)
(* invariant JobInv and the two promises Run makes when it returns.  The   *)
(* two share no variable; the names of ProcessGroup begin with Group where *)
(* both have one.                                                          *)
(***************************************************************************)
EXTENDS TestVerdict, ProcessGroup, FiniteSetTheorems, TLAPS

(* Tests are finite in number, because packages and names are.             *)
LEMMA KeysFinite == IsFiniteSet(Key)
BY FS_Product, VerdictAssumption DEF Key

(* A map never outgrows its limit, and holds what it was told as long as   *)
(* it has room (stream.go:141-190).                                        *)
LEMMA TrackBounded ==
    ASSUME NEW S, IsFiniteSet(S), NEW m \in SUBSET S, NEW x \in S,
           Cardinality(m) <= MaxTracked
    PROVE  /\ Track(m, x) \in SUBSET S
           /\ Cardinality(Track(m, x)) <= MaxTracked
           /\ HasRoom(m, x) => Track(m, x) = m \cup {x}
<1>1. IsFiniteSet(m) /\ Cardinality(m) \in Nat
  BY FS_Subset, FS_CardinalityType
<1>2. Cardinality(m \cup {x}) = IF x \in m THEN Cardinality(m)
                                            ELSE Cardinality(m) + 1
  BY <1>1, FS_AddElement
<1> QED
  BY <1>1, <1>2, VerdictAssumption DEF Track, HasRoom

(* Forgetting a test keeps a map within its limit.                         *)
LEMMA ForgetBounded ==
    ASSUME NEW m \in SUBSET Key, NEW k, Cardinality(m) <= MaxTracked
    PROVE  /\ m \ {k} \in SUBSET Key
           /\ Cardinality(m \ {k}) <= MaxTracked
<1>1. IsFiniteSet(m) /\ Cardinality(m) \in Nat
  BY FS_Subset, FS_CardinalityType, KeysFinite
<1>2. /\ Cardinality(m \ {k}) <= Cardinality(m)
      /\ Cardinality(m \ {k}) \in Nat
  BY <1>1, FS_Subset, FS_CardinalityType
<1> QED
  BY <1>1, <1>2, VerdictAssumption

-----------------------------------------------------------------------------
(* What one event does to the reader: it may be lost, and then the reader  *)
(* knows; otherwise the maps have what it says.                            *)

ReaderType ==
    /\ seen \in BOOLEAN /\ incomplete \in BOOLEAN /\ timeoutHeader \in BOOLEAN
    /\ started \in SUBSET Key /\ Cardinality(started) <= MaxTracked
    /\ failed \in SUBSET Key /\ Cardinality(failed) <= MaxTracked
    /\ pkgRan \in SUBSET Packages /\ Cardinality(pkgRan) <= MaxTracked
    /\ pkgBuildFailed \in SUBSET Packages
    /\ Cardinality(pkgBuildFailed) <= MaxTracked

(* The start of a test.                                                    *)
LEMMA RunObserved ==
    ASSUME ReaderType, NEW k \in Key, TestEvent(k, ObserveRun(k))
    PROVE  /\ ReaderType'
           /\ ~incomplete' => /\ ~incomplete
                              /\ started' = started \cup {k}
                              /\ pkgRan' = pkgRan \cup {k[1]}
                              /\ UNCHANGED <<failed, pkgBuildFailed>>
<1>1. CASE LoseLine \/ DropIdentity
  BY <1>1 DEF LoseLine, DropIdentity, ReaderType
<1>2. CASE ObserveRun(k)
  <2>1. k[1] \in Packages
    BY DEF Key
  <2>2. /\ started' \in SUBSET Key /\ Cardinality(started') <= MaxTracked
        /\ pkgRan' \in SUBSET Packages /\ Cardinality(pkgRan') <= MaxTracked
        /\ HasRoom(started, k) => started' = started \cup {k}
        /\ HasRoom(pkgRan, k[1]) => pkgRan' = pkgRan \cup {k[1]}
    BY <1>2, <2>1, TrackBounded, KeysFinite, VerdictAssumption
       DEF ObserveRun, ReaderType
  <2>3. seen' \in BOOLEAN /\ incomplete' \in BOOLEAN /\ timeoutHeader' \in BOOLEAN
    BY <1>2, Zenon DEF ObserveRun, ReaderType
  <2>4. ~incomplete' => ~incomplete /\ HasRoom(started, k) /\ HasRoom(pkgRan, k[1])
    BY <1>2, Zenon DEF ObserveRun
  <2> QED
    BY <1>2, <2>2, <2>3, <2>4 DEF ObserveRun, ReaderType
<1> QED
  BY <1>1, <1>2 DEF TestEvent

(* The success of a test.                                                  *)
LEMMA PassObserved ==
    ASSUME ReaderType, NEW k \in Key, TestEvent(k, ObservePass(k))
    PROVE  /\ ReaderType'
           /\ ~incomplete' => /\ ~incomplete
                              /\ started' = started \ {k}
                              /\ UNCHANGED <<failed, pkgRan, pkgBuildFailed>>
<1>1. CASE LoseLine \/ DropIdentity
  BY <1>1 DEF LoseLine, DropIdentity, ReaderType
<1>2. CASE ObservePass(k)
  <2>1. started' \in SUBSET Key /\ Cardinality(started') <= MaxTracked
    BY <1>2, ForgetBounded DEF ObservePass, ReaderType
  <2> QED
    BY <1>2, <2>1 DEF ObservePass, ReaderType
<1> QED
  BY <1>1, <1>2 DEF TestEvent

(* The failure of a test.                                                  *)
LEMMA FailObserved ==
    ASSUME ReaderType, NEW k \in Key, TestEvent(k, ObserveFail(k))
    PROVE  /\ ReaderType'
           /\ ~incomplete' => /\ ~incomplete
                              /\ started' = started \ {k}
                              /\ failed' = failed \cup {k}
                              /\ UNCHANGED <<pkgRan, pkgBuildFailed>>
<1>1. CASE LoseLine \/ DropIdentity
  BY <1>1 DEF LoseLine, DropIdentity, ReaderType
<1>2. CASE ObserveFail(k)
  <2>1. started' \in SUBSET Key /\ Cardinality(started') <= MaxTracked
    BY <1>2, ForgetBounded DEF ObserveFail, ReaderType
  <2>2. /\ failed' \in SUBSET Key /\ Cardinality(failed') <= MaxTracked
        /\ HasRoom(failed, k) => failed' = failed \cup {k}
    BY <1>2, TrackBounded, KeysFinite DEF ObserveFail, ReaderType
  <2>3. seen' \in BOOLEAN /\ incomplete' \in BOOLEAN /\ timeoutHeader' \in BOOLEAN
    BY <1>2, Zenon DEF ObserveFail, ReaderType
  <2>4. ~incomplete' => ~incomplete /\ HasRoom(failed, k)
    BY <1>2, Zenon DEF ObserveFail
  <2> QED
    BY <1>2, <2>1, <2>2, <2>3, <2>4 DEF ObserveFail, ReaderType
<1> QED
  BY <1>1, <1>2 DEF TestEvent

(* A package that does not build.                                          *)
LEMMA BuildFailureObserved ==
    ASSUME ReaderType, NEW p \in Packages, PackageEvent(ObserveBuildFailure(p))
    PROVE  /\ ReaderType'
           /\ ~incomplete' => /\ ~incomplete
                              /\ pkgBuildFailed' = pkgBuildFailed \cup {p}
                              /\ UNCHANGED <<started, failed, pkgRan>>
<1>1. CASE LoseLine
  BY <1>1 DEF LoseLine, ReaderType
<1>2. CASE ObserveBuildFailure(p)
  <2>1. /\ pkgBuildFailed' \in SUBSET Packages
        /\ Cardinality(pkgBuildFailed') <= MaxTracked
        /\ HasRoom(pkgBuildFailed, p) => pkgBuildFailed' = pkgBuildFailed \cup {p}
    BY <1>2, TrackBounded, VerdictAssumption DEF ObserveBuildFailure, ReaderType
  <2>2. seen' \in BOOLEAN /\ incomplete' \in BOOLEAN /\ timeoutHeader' \in BOOLEAN
    BY <1>2, Zenon DEF ObserveBuildFailure, ReaderType
  <2>3. ~incomplete' => ~incomplete /\ HasRoom(pkgBuildFailed, p)
    BY <1>2, Zenon DEF ObserveBuildFailure
  <2> QED
    BY <1>2, <2>1, <2>2, <2>3 DEF ObserveBuildFailure, ReaderType
<1> QED
  BY <1>1, <1>2 DEF PackageEvent

(* Other lines change no map.                                              *)
LEMMA OutputObserved ==
    ASSUME ReaderType,
           PackageEvent(ObserveOutput) \/ PackageEvent(ObserveTimeout) \/ LoseLine
    PROVE  /\ ReaderType'
           /\ ~incomplete' => ~incomplete
           /\ UNCHANGED <<started, failed, pkgRan, pkgBuildFailed>>
<1>1. UNCHANGED <<started, failed, pkgRan, pkgBuildFailed>>
  BY DEF PackageEvent, LoseLine, ObserveOutput, ObserveTimeout
<1>2. seen' \in BOOLEAN /\ incomplete' \in BOOLEAN /\ timeoutHeader' \in BOOLEAN
  BY Zenon DEF PackageEvent, LoseLine, ObserveOutput, ObserveTimeout, ReaderType
<1>3. ~incomplete' => ~incomplete
  BY DEF PackageEvent, LoseLine, ObserveOutput, ObserveTimeout
<1> QED
  BY <1>1, <1>2, <1>3 DEF ReaderType

-----------------------------------------------------------------------------
(* Every step keeps the invariant.                                         *)

(* Nothing has happened yet.                                               *)
LEMMA VerdictInit == Init => ReaderInv
<1> SUFFICES ASSUME Init
             PROVE  ReaderInv
  OBVIOUS
<1>1. ReaderType
  <2>1. seen \in BOOLEAN /\ incomplete \in BOOLEAN /\ timeoutHeader \in BOOLEAN
    BY Zenon DEF Init
  <2>2. Cardinality({}) <= MaxTracked
    BY FS_EmptySet, VerdictAssumption
  <2> QED
    BY <2>1, <2>2 DEF Init, ReaderType
<1>2. TypeOK
  BY <1>1 DEF Init, TypeOK, ReaderType
<1>3. LossIsInconclusive /\ EndInv
  BY DEF Init, LossIsInconclusive, Scored, EndInv
<1>4. MapsInv
  BY DEF Init, MapsInv, Key
<1> QED
  BY <1>2, <1>3, <1>4 DEF ReaderInv

(* As long as the process lives nothing is concluded.                      *)
LEMMA LiveStep ==
    ASSUME ReaderInv, Live, UNCHANGED <<process, ctxs, result>>
    PROVE  LossIsInconclusive' /\ EndInv'
BY DEF ReaderInv, Live, ctxs, result, EndInv, LossIsInconclusive, Scored

(* An event of the process: what is left to show is that the packages and  *)
(* the tests stay in their types and the maps still agree with them.       *)
LEMMA EventStep ==
    ASSUME ReaderInv, Live, UNCHANGED <<process, stderr, ctxs, fixed, result>>,
           ReaderType', MapsInv',
           pkg' \in [Packages -> {"new", "running", "buildfailed", "passed",
                                 "failed"}],
           test' \in [Key -> {"new", "running", "passed", "failed"}]
    PROVE  ReaderInv'
<1>1. TypeOK'
  BY DEF ReaderInv, TypeOK, ReaderType, ctxs, fixed, result
<1> QED
  BY <1>1, LiveStep DEF ReaderInv

(* The reader's part of the invariant.                                     *)
LEMMA ReaderTyped == ReaderInv => ReaderType
BY DEF ReaderInv, TypeOK, ReaderType

(* A test begins in a package that is not over.                            *)
LEMMA StartTestStep ==
    ASSUME ReaderInv, NEW k \in Key, StartTest(k)
    PROVE  ReaderInv'
<1>1. k[1] \in Packages
  BY DEF Key
<1>2. /\ pkg' = [pkg EXCEPT ![k[1]] = "running"]
      /\ test' = [test EXCEPT ![k] = "running"]
      /\ pkg[k[1]] \in {"new", "running"} /\ test[k] = "new"
  BY DEF StartTest, Step
<1>3. /\ pkg' \in [Packages -> {"new", "running", "buildfailed", "passed",
                                "failed"}]
      /\ test' \in [Key -> {"new", "running", "passed", "failed"}]
  BY <1>2 DEF ReaderInv, TypeOK
<1>4. /\ ReaderType'
      /\ ~incomplete' => /\ ~incomplete
                         /\ started' = started \cup {k}
                         /\ pkgRan' = pkgRan \cup {k[1]}
                         /\ UNCHANGED <<failed, pkgBuildFailed>>
  BY RunObserved, ReaderTyped DEF StartTest
<1>5. MapsInv'
  <2>1. \A h \in Key : h[1] \in Packages
    BY DEF Key
  <2>2. \A h \in Key :
           /\ pkg'[h[1]] \in {"new", "buildfailed"} => test'[h] = "new"
           /\ pkg'[h[1]] = "passed" => test'[h] \in {"new", "passed"}
    BY <1>1, <1>2, <2>1 DEF ReaderInv, TypeOK, MapsInv
  <2>3. ASSUME ~incomplete'
        PROVE  /\ started' = {h \in Key : test'[h] = "running"}
               /\ failed' = {h \in Key : test'[h] = "failed"}
    BY <1>2, <1>4, <2>3 DEF ReaderInv, TypeOK, MapsInv
  <2>4. ASSUME ~incomplete'
        PROVE  /\ pkgBuildFailed' = {p \in Packages : pkg'[p] = "buildfailed"}
               /\ \A p \in pkgRan' : pkg'[p] \notin {"new", "buildfailed"}
    BY <1>1, <1>2, <1>4, <2>4 DEF ReaderInv, TypeOK, MapsInv
  <2> QED
    BY <2>2, <2>3, <2>4 DEF MapsInv
<1> QED
  BY <1>3, <1>4, <1>5, EventStep DEF StartTest

(* A test passes.                                                          *)
LEMMA PassTestStep ==
    ASSUME ReaderInv, NEW k \in Key, PassTest(k)
    PROVE  ReaderInv'
<1>1. k[1] \in Packages
  BY DEF Key
<1>2. /\ pkg' = pkg
      /\ test' = [test EXCEPT ![k] = "passed"]
      /\ pkg[k[1]] = "running" /\ test[k] = "running"
  BY DEF PassTest
<1>3. /\ pkg' \in [Packages -> {"new", "running", "buildfailed", "passed",
                                "failed"}]
      /\ test' \in [Key -> {"new", "running", "passed", "failed"}]
  BY <1>2 DEF ReaderInv, TypeOK
<1>4. /\ ReaderType'
      /\ ~incomplete' => /\ ~incomplete
                         /\ started' = started \ {k}
                         /\ UNCHANGED <<failed, pkgRan, pkgBuildFailed>>
  BY PassObserved, ReaderTyped DEF PassTest
<1>5. MapsInv'
  <2>1. \A h \in Key :
           /\ pkg'[h[1]] \in {"new", "buildfailed"} => test'[h] = "new"
           /\ pkg'[h[1]] = "passed" => test'[h] \in {"new", "passed"}
    BY <1>1, <1>2 DEF ReaderInv, TypeOK, MapsInv
  <2>2. ASSUME ~incomplete'
        PROVE  /\ started' = {h \in Key : test'[h] = "running"}
               /\ failed' = {h \in Key : test'[h] = "failed"}
    BY <1>2, <1>4, <2>2 DEF ReaderInv, TypeOK, MapsInv
  <2> QED
    BY <1>2, <1>4, <2>1, <2>2 DEF ReaderInv, MapsInv
<1> QED
  BY <1>3, <1>4, <1>5, EventStep DEF PassTest

(* A test fails.                                                           *)
LEMMA FailTestStep ==
    ASSUME ReaderInv, NEW k \in Key, FailTest(k)
    PROVE  ReaderInv'
<1>1. k[1] \in Packages
  BY DEF Key
<1>2. /\ pkg' = pkg
      /\ test' = [test EXCEPT ![k] = "failed"]
      /\ pkg[k[1]] = "running" /\ test[k] = "running"
  BY DEF FailTest
<1>3. /\ pkg' \in [Packages -> {"new", "running", "buildfailed", "passed",
                                "failed"}]
      /\ test' \in [Key -> {"new", "running", "passed", "failed"}]
  BY <1>2 DEF ReaderInv, TypeOK
<1>4. /\ ReaderType'
      /\ ~incomplete' => /\ ~incomplete
                         /\ started' = started \ {k}
                         /\ failed' = failed \cup {k}
                         /\ UNCHANGED <<pkgRan, pkgBuildFailed>>
  BY FailObserved, ReaderTyped DEF FailTest
<1>5. MapsInv'
  <2>1. \A h \in Key :
           /\ pkg'[h[1]] \in {"new", "buildfailed"} => test'[h] = "new"
           /\ pkg'[h[1]] = "passed" => test'[h] \in {"new", "passed"}
    BY <1>1, <1>2 DEF ReaderInv, TypeOK, MapsInv
  <2>2. ASSUME ~incomplete'
        PROVE  /\ started' = {h \in Key : test'[h] = "running"}
               /\ failed' = {h \in Key : test'[h] = "failed"}
    BY <1>2, <1>4, <2>2 DEF ReaderInv, TypeOK, MapsInv
  <2> QED
    BY <1>2, <1>4, <2>1, <2>2 DEF ReaderInv, MapsInv
<1> QED
  BY <1>3, <1>4, <1>5, EventStep DEF FailTest

(* A package that does not build has run no test.                          *)
LEMMA BuildFailsStep ==
    ASSUME ReaderInv, NEW p \in Packages, BuildFails(p)
    PROVE  ReaderInv'
<1>1. /\ pkg' = [pkg EXCEPT ![p] = "buildfailed"]
      /\ test' = test /\ pkg[p] = "new"
  BY DEF BuildFails, Step
<1>2. /\ pkg' \in [Packages -> {"new", "running", "buildfailed", "passed",
                                "failed"}]
      /\ test' \in [Key -> {"new", "running", "passed", "failed"}]
  BY <1>1 DEF ReaderInv, TypeOK
<1>3. /\ ReaderType'
      /\ ~incomplete' => /\ ~incomplete
                         /\ pkgBuildFailed' = pkgBuildFailed \cup {p}
                         /\ UNCHANGED <<started, failed, pkgRan>>
  BY BuildFailureObserved, ReaderTyped DEF BuildFails
<1>4. MapsInv'
  <2>1. \A h \in Key : h[1] \in Packages
    BY DEF Key
  <2>2. \A h \in Key :
           /\ pkg'[h[1]] \in {"new", "buildfailed"} => test'[h] = "new"
           /\ pkg'[h[1]] = "passed" => test'[h] \in {"new", "passed"}
    BY <1>1, <2>1 DEF ReaderInv, TypeOK, MapsInv
  <2>3. ASSUME ~incomplete'
        PROVE  /\ pkgBuildFailed' = {q \in Packages : pkg'[q] = "buildfailed"}
               /\ \A q \in pkgRan' : pkg'[q] \notin {"new", "buildfailed"}
    BY <1>1, <1>3, <2>3 DEF ReaderInv, TypeOK, MapsInv
  <2> QED
    BY <1>1, <1>3, <2>2, <2>3 DEF ReaderInv, MapsInv
<1> QED
  BY <1>2, <1>3, <1>4, EventStep DEF BuildFails

(* A package ends: it failed, or every test of it passed.                  *)
LEMMA PackageEndsStep ==
    ASSUME ReaderInv, NEW p \in Packages,
           Crash(p) \/ InnerTimeout(p) \/ EndPackage(p)
    PROVE  ReaderInv'
<1>1. PICK q \in {"failed", "passed"} :
         /\ pkg' = [pkg EXCEPT ![p] = q]
         /\ test' = test /\ pkg[p] \in {"new", "running"}
         /\ q = "passed" => \A n \in Names : test[p, n] \notin {"running", "failed"}
  BY DEF Crash, InnerTimeout, EndPackage, Step
<1>2. /\ pkg' \in [Packages -> {"new", "running", "buildfailed", "passed",
                                "failed"}]
      /\ test' \in [Key -> {"new", "running", "passed", "failed"}]
  BY <1>1 DEF ReaderInv, TypeOK
<1>3. /\ ReaderType'
      /\ ~incomplete' => ~incomplete
      /\ UNCHANGED <<started, failed, pkgRan, pkgBuildFailed>>
  BY OutputObserved, ReaderTyped DEF Crash, InnerTimeout, EndPackage
<1>4. MapsInv'
  <2>1. \A h \in Key :
           /\ pkg'[h[1]] \in {"new", "buildfailed"} => test'[h] = "new"
           /\ pkg'[h[1]] = "passed" => test'[h] \in {"new", "passed"}
    <3> SUFFICES ASSUME NEW h \in Key
                 PROVE  /\ pkg'[h[1]] \in {"new", "buildfailed"} => test[h] = "new"
                        /\ pkg'[h[1]] = "passed" => test[h] \in {"new", "passed"}
      BY <1>1
    <3>1. h = <<h[1], h[2]>> /\ h[1] \in Packages /\ h[2] \in Names
      BY DEF Key
    <3>2. CASE h[1] = p
      <4>1. q = "passed" => test[h] \notin {"running", "failed"}
        BY <1>1, <3>1, <3>2
      <4> QED
        BY <1>1, <3>2, <4>1 DEF ReaderInv, TypeOK
    <3>3. CASE h[1] # p
      BY <1>1, <3>1, <3>3 DEF ReaderInv, TypeOK, MapsInv
    <3> QED
      BY <3>2, <3>3
  <2>2. ASSUME ~incomplete'
        PROVE  /\ pkgBuildFailed' = {r \in Packages : pkg'[r] = "buildfailed"}
               /\ \A r \in pkgRan' : pkg'[r] \notin {"new", "buildfailed"}
    BY <1>1, <1>3, <2>2 DEF ReaderInv, TypeOK, MapsInv
  <2> QED
    BY <1>1, <1>3, <2>1, <2>2 DEF ReaderInv, MapsInv
<1>5. Live /\ UNCHANGED <<process, stderr, ctxs, fixed, result>>
  BY DEF Crash, InnerTimeout, EndPackage
<1> QED
  BY <1>2, <1>3, <1>4, <1>5, EventStep

(* The process ends, by itself or killed, and the maps stay as they are    *)
(* but for a line cut in two.                                              *)
LEMMA ProcessEndsStep ==
    ASSUME ReaderInv, EndProcess \/ NeverBegins \/ Kill
    PROVE  ReaderInv'
<1> USE DEF EndProcess, NeverBegins, Kill
<1>1. /\ ReaderType'
      /\ ~incomplete' => ~incomplete
      /\ UNCHANGED <<started, failed, pkgRan, pkgBuildFailed>>
  BY OutputObserved, ReaderTyped DEF reader, ReaderType
<1>2. UNCHANGED <<pkg, test, ctxs, fixed, verdict, tests>> /\ pc' = "ctx"
  OBVIOUS
<1>3. TypeOK'
  BY <1>1, <1>2 DEF ReaderInv, TypeOK, ReaderType, ctxs, fixed
<1>4. LossIsInconclusive'
  BY <1>2 DEF ReaderInv, EndInv, Live, LossIsInconclusive, Scored
<1>5. MapsInv'
  BY <1>1, <1>2 DEF ReaderInv, MapsInv
<1>6. EndInv'
  BY <1>2 DEF ReaderInv, TypeOK, EndInv, Live, ctxs, reader, LoseLine
<1> QED
  BY <1>3, <1>4, <1>5, <1>6 DEF ReaderInv

(* A context ends, and a child takes over the reason of its parent.        *)
LEMMA ContextStep ==
    ASSUME ReaderInv, OwnTimeout \/ ParentEnds
    PROVE  ReaderInv'
<1> USE DEF OwnTimeout, ParentEnds, world, reader, fixed, result
<1>1. TypeOK'
  BY DEF ReaderInv, TypeOK
<1>2. LossIsInconclusive'
  BY DEF ReaderInv, LossIsInconclusive, Scored
<1>3. MapsInv'
  BY DEF ReaderInv, MapsInv
<1>4. EndInv'
  BY DEF ReaderInv, TypeOK, EndInv
<1> QED
  BY <1>1, <1>2, <1>3, <1>4 DEF ReaderInv

(* The names of tests.                                                     *)
LEMMA NamesType ==
    ASSUME NEW m \in SUBSET Key
    PROVE  NamesOf(m) \in SUBSET Names /\ (m # {} => NamesOf(m) # {})
BY DEF NamesOf, Key

(* What is concluded of a process that has ended (runner.go:474-505).      *)
LEMMA Judged ==
    ASSUME ReaderInv, Judge
    PROVE  \/ process = "nil" /\ verdict' = "SURVIVED"
           \/ verdict' = "UNKNOWN"
           \/ verdict' = Fallback
           \/ verdict' = Classify /\ tests' = NamesOf(failed \cup started)
<1>1. process \in {"nil", "exit", "killed", "other"} /\ seen \in BOOLEAN
  BY DEF ReaderInv, TypeOK, EndInv, Judge
<1>2. CASE process = "nil"
  BY <1>2 DEF Judge, Conclude
<1>3. CASE process = "other"
  BY <1>3 DEF Judge, Conclude
<1>4. CASE process \in {"exit", "killed"} /\ ~seen
  BY <1>4 DEF Judge, Conclude
<1>5. CASE process \in {"exit", "killed"} /\ seen
  BY <1>5 DEF Judge, Conclude
<1> QED
  BY <1>1, <1>2, <1>3, <1>4, <1>5

(* After a loss only what names a test is concluded (stream.go:191-218).   *)
LEMMA JudgeLoss ==
    ASSUME ReaderInv, Judge
    PROVE  LossIsInconclusive'
<1>1. UNCHANGED <<process, incomplete>>
  BY DEF Judge, world, reader
<1>2. failed \cup started # {} => NamesOf(failed \cup started) # {}
  BY NamesType DEF ReaderInv, TypeOK
<1>3. ASSUME incomplete
      PROVE  /\ Fallback = "UNKNOWN"
             /\ \/ Classify = "UNKNOWN"
                \/ Classify = "KILLED" /\ failed \cup started # {}
  <2>1. Fallback = "UNKNOWN"
    BY <1>3, Zenon DEF Fallback
  <2>2. CASE failed \cup started # {}
    BY <2>1, <2>2 DEF Classify
  <2>3. CASE failed \cup started = {}
    <3>1. Classify = "UNKNOWN"
      BY <1>3, <2>3, Zenon DEF Classify
    <3> QED
      BY <2>1, <3>1
  <2> QED
    BY <2>2, <2>3
<1>4. incomplete => \/ process = "nil" /\ verdict' = "SURVIVED"
                    \/ verdict' = "UNKNOWN"
                    \/ verdict' = "KILLED" /\ tests' # {}
  BY <1>2, <1>3, Judged
<1> QED
  BY <1>1, <1>4 DEF LossIsInconclusive, Scored

(* A look at a context scores nothing.                                     *)
LEMMA CheckLoss ==
    ASSUME ReaderInv, CheckTimeout \/ CheckParent
    PROVE  LossIsInconclusive'
<1>1. verdict' \in {"none", "TIMEOUT", "UNKNOWN"}
  BY DEF ReaderInv, EndInv, CheckTimeout, CheckParent, Conclude
<1> QED
  BY <1>1 DEF LossIsInconclusive, Scored

(* A conclusion looks at the contexts in their order, and after a loss     *)
(* only at what names a test (runner.go:463-472, stream.go:191-218).       *)
LEMMA ConcludeStep ==
    ASSUME ReaderInv, CheckTimeout \/ CheckParent \/ Judge
    PROVE  ReaderInv'
<1> USE DEF world, ctxs, reader, fixed
<1>1. UNCHANGED <<world, ctxs, reader, fixed>>
  BY DEF CheckTimeout, CheckParent, Judge
<1>2. NamesOf(failed \cup started) \in SUBSET Names
  BY NamesType DEF ReaderInv, TypeOK
<1>3. TypeOK'
  <2>1. CASE Judge
    <3>1. verdict' \in {"KILLED", "SURVIVED", "INVALID", "UNKNOWN"}
      BY <2>1, Judged DEF Fallback, Classify
    <3>2. tests' \in SUBSET Names /\ pc' = "done"
      <4>1. process \in {"nil", "exit", "killed", "other"} /\ seen \in BOOLEAN
        BY <2>1 DEF ReaderInv, TypeOK, EndInv, Judge
      <4> QED
        BY <1>2, <2>1, <4>1 DEF Judge, Conclude
    <3> QED
      BY <1>1, <3>1, <3>2 DEF ReaderInv, TypeOK
  <2>2. CASE CheckTimeout \/ CheckParent
    <3>1. /\ verdict' \in {"none", "TIMEOUT", "UNKNOWN"} \/ verdict' = verdict
          /\ tests' = {} \/ tests' = tests
          /\ pc' \in {"parent", "judge", "done"}
      BY <2>2 DEF CheckTimeout, CheckParent, Conclude
    <3> QED
      BY <1>1, <3>1 DEF ReaderInv, TypeOK
  <2> QED
    BY <2>1, <2>2
<1>4. LossIsInconclusive'
  BY JudgeLoss, CheckLoss
<1>5. MapsInv'
  BY <1>1 DEF ReaderInv, MapsInv
<1>6. EndInv'
  <2>1. CASE pc' = "done"
    BY <1>1, <2>1 DEF ReaderInv, TypeOK, EndInv, CheckTimeout, CheckParent, Judge
  <2>2. CASE pc' # "done"
    <3>0. CheckTimeout \/ CheckParent
      <4>1. ASSUME Judge
            PROVE  pc' = "done"
        <5>1. process \in {"nil", "exit", "killed", "other"} /\ seen \in BOOLEAN
          BY <4>1 DEF ReaderInv, TypeOK, EndInv, Judge
        <5> QED
          BY <4>1, <5>1 DEF Judge, Conclude
      <4> QED
        BY <2>2, <4>1
    <3>1. /\ verdict' = verdict /\ pc # "done" /\ pc # "run"
          /\ \/ CheckTimeout /\ pc' = "parent" /\ ctxErr # "deadline"
             \/ CheckParent /\ pc' = "judge" /\ pc = "parent" /\ parentErr = "none"
      BY <2>2, <3>0 DEF CheckTimeout, TimedOut, CheckParent, Conclude
    <3>2. /\ process # "running" /\ verdict = "none"
          /\ process = "killed" => ctxErr # "none"
          /\ ctxErr = "canceled" => parentErr # "none"
          /\ pc = "parent" => ctxErr = "none" \/ parentErr # "none"
          /\ ctxErr \in {"none", "deadline", "canceled"}
      BY <3>1 DEF ReaderInv, TypeOK, EndInv
    <3>3. /\ pc' = "parent" => ctxErr = "none" \/ parentErr # "none"
          /\ pc' = "judge" => process # "killed"
          /\ pc' \in {"parent", "judge"}
      BY <3>1, <3>2
    <3>4. /\ process = "nil" => \A p \in Packages : pkg[p] = "passed"
          /\ process = "exit" /\ seen => \E p \in Packages : pkg[p] # "passed"
      BY DEF ReaderInv, EndInv
    <3>5. UNCHANGED <<process, pkg, seen, ctxErr, parentErr>>
      BY <1>1, Zenon DEF world, ctxs, reader
    <3>6. /\ (pc = "run" <=> process = "running")'
          /\ (pc # "done" => verdict = "none")'
      BY <3>1, <3>2, <3>3, <3>5
    <3>7. /\ (process = "nil" => \A p \in Packages : pkg[p] = "passed")'
          /\ (process = "exit" /\ seen => \E p \in Packages : pkg[p] # "passed")'
      BY <3>4, <3>5
    <3>8. /\ (process = "killed" => ctxErr # "none")'
          /\ (ctxErr = "canceled" => parentErr # "none")'
          /\ (pc = "parent" => ctxErr = "none" \/ parentErr # "none")'
          /\ (pc = "judge" => process # "killed")'
      BY <3>2, <3>3, <3>5
    <3> QED
      BY <3>6, <3>7, <3>8 DEF EndInv
  <2> QED
    BY <2>1, <2>2
<1> QED
  BY <1>3, <1>4, <1>5, <1>6 DEF ReaderInv

-----------------------------------------------------------------------------
(* For every interleaving of the packages, the maps stay within their      *)
(* limits and agree with what happened until an event is lost, and a loss  *)
(* is not concluded from (stream.go:49-53, 141-218, runner.go:455-472).    *)
THEOREM ReaderInvariance == Spec => []ReaderInv
<1>1. ReaderInv /\ [Next]_vars => ReaderInv'
  <2> SUFFICES ASSUME ReaderInv, [Next]_vars
               PROVE  ReaderInv'
    OBVIOUS
  <2>1. CASE UNCHANGED vars
    BY <2>1 DEF vars, world, ctxs, reader, fixed, result, ReaderInv, TypeOK,
       LossIsInconclusive, Scored, MapsInv, EndInv
  <2>2. CASE \E k \in Key : TestStep(k)
    BY <2>2, StartTestStep, PassTestStep, FailTestStep DEF TestStep
  <2>3. CASE \E p \in Packages : PackageStep(p)
    BY <2>3, BuildFailsStep, PackageEndsStep DEF PackageStep
  <2> QED
    BY <2>1, <2>2, <2>3, ProcessEndsStep, ContextStep, ConcludeStep
       DEF Next, Terminated
<1> QED
  BY <1>1, VerdictInit, PTL DEF Spec

(* When no event was lost, the maps support the verdict and the tests that *)
(* the whole list of events supports (stream.go:191-218,                   *)
(* runner.go:585-641).                                                     *)
THEOREM FaithfulVerdictHolds == Spec => []FaithfulVerdict
<1>1. Init => FaithfulVerdict
  BY DEF Init, FaithfulVerdict, Scored
<1>2. ReaderInv /\ FaithfulVerdict /\ [Next]_vars => FaithfulVerdict'
  <2> SUFFICES ASSUME ReaderInv, FaithfulVerdict, [Next]_vars
               PROVE  FaithfulVerdict'
    OBVIOUS
  <2>1. CASE Judge
    <3> SUFFICES ASSUME Scored', seen, ~incomplete
                 PROVE  verdict' = TrueVerdict /\ tests' = NamesOf(TrulyFailed)
      BY <2>1 DEF Judge, world, ctxs, reader, fixed, FaithfulVerdict,
         TrueVerdict, TrulyFailed, Scored
    <3>1. failed \cup started = TrulyFailed
      BY DEF ReaderInv, MapsInv, TrulyFailed
    <3>2. CASE process = "nil"
      <4>1. \A p \in Packages : pkg[p] = "passed"
        BY <3>2 DEF ReaderInv, EndInv
      <4>2. \A k \in Key : k[1] \in Packages
        BY DEF Key
      <4>3. TrulyFailed = {}
        BY <4>1, <4>2 DEF ReaderInv, MapsInv, TrulyFailed
      <4> QED
        BY <2>1, <3>2, <4>1, <4>3 DEF Judge, Conclude, TrueVerdict, NamesOf
    <3>3. CASE process = "exit"
      <4>1. ~\A p \in Packages : pkg[p] = "passed"
        BY <3>3 DEF ReaderInv, EndInv
      <4>2. /\ verdict' = (IF Unsupported THEN "UNKNOWN" ELSE Classify)
            /\ tests' = NamesOf(failed \cup started)
        BY <2>1, <3>3 DEF Judge, Conclude
      <4>3. verdict' = Classify
        BY <4>2 DEF Scored
      <4>4. (\E p \in pkgBuildFailed : p \notin pkgRan)
               <=> \E p \in Packages : pkg[p] = "buildfailed"
        BY DEF ReaderInv, TypeOK, MapsInv
      <4> QED
        BY <3>1, <4>1, <4>2, <4>3, <4>4 DEF Classify, TrueVerdict
    <3>4. CASE process = "other"
      BY <2>1, <3>4 DEF Judge, Conclude, Scored
    <3> QED
      BY <2>1, <3>2, <3>3, <3>4 DEF ReaderInv, TypeOK, EndInv, Judge
  <2>2. CASE verdict' \notin {"KILLED", "SURVIVED", "INVALID"}
    BY <2>2 DEF FaithfulVerdict, Scored
  <2>3. CASE UNCHANGED <<pkg, test, seen, incomplete, verdict, tests>>
    BY <2>3 DEF FaithfulVerdict, Scored, TrueVerdict, TrulyFailed
  <2> QED
    BY <2>1, <2>2, <2>3 DEF ReaderInv, EndInv, Next, TestStep, StartTest,
       PassTest, FailTest, PackageStep, BuildFails, Crash, InnerTimeout,
       EndPackage, EndProcess, NeverBegins, Kill, OwnTimeout, ParentEnds,
       CheckTimeout, CheckParent, Terminated, Conclude, Live, vars, world,
       ctxs, reader, fixed, result
<1> QED
  BY <1>1, <1>2, ReaderInvariance, PTL DEF Spec

(* A process that the runner itself killed is neither detected nor         *)
(* surviving: its own deadline is looked at first, the caller's context    *)
(* next, and one of them is the reason for the kill (runner.go:463-472).   *)
THEOREM SelfKillNotScoredHolds == Spec => []SelfKillNotScored
<1>1. Init => SelfKillNotScored
  BY DEF Init, SelfKillNotScored
<1>2. ReaderInv /\ SelfKillNotScored /\ [Next]_vars => SelfKillNotScored'
  <2> SUFFICES ASSUME ReaderInv, SelfKillNotScored, [Next]_vars
               PROVE  SelfKillNotScored'
    OBVIOUS
  <2>1. CASE Judge
    BY <2>1 DEF ReaderInv, EndInv, Judge, world, SelfKillNotScored
  <2>2. CASE verdict' \notin {"KILLED", "SURVIVED", "INVALID"}
    BY <2>2 DEF SelfKillNotScored, Scored
  <2>3. CASE UNCHANGED <<process, verdict>>
    BY <2>3 DEF SelfKillNotScored, Scored
  <2> QED
    BY <2>1, <2>2, <2>3 DEF ReaderInv, EndInv, Next, TestStep, StartTest,
       PassTest, FailTest, PackageStep, BuildFails, Crash, InnerTimeout,
       EndPackage, EndProcess, NeverBegins, Kill, OwnTimeout, ParentEnds,
       CheckTimeout, CheckParent, Terminated, Conclude, Live, vars, world,
       ctxs, reader, fixed, result
<1> QED
  BY <1>1, <1>2, ReaderInvariance, PTL DEF Spec

-----------------------------------------------------------------------------
(* The command and everything it starts.                                   *)

(* Before the child nothing is there.                                        *)
LEMMA ProcInit == GroupInit => JobInv
<1> SUFFICES ASSUME GroupInit
             PROVE  JobInv
  OBVIOUS
<1>1. GroupTypeOK
  <2>1. /\ ctxDone \in BOOLEAN /\ err \in BOOLEAN /\ exceeded \in BOOLEAN
        /\ jobOpen \in BOOLEAN /\ canceled \in BOOLEAN
    BY Zenon DEF GroupInit
  <2> QED
    BY <2>1, ProcAssumption DEF GroupInit, GroupTypeOK
<1>2. ContainedOnly /\ NoUseAfterClose /\ ChildInv
  BY ProcAssumption
     DEF GroupInit, ContainedOnly, NoUseAfterClose, ChildInv, Managing, Procs,
         child
<1>3. OutputInv
  BY DEF GroupInit, OutputInv
<1> QED
  BY <1>1, <1>2, <1>3 DEF JobInv

-----------------------------------------------------------------------------
(* Every step keeps every part; one lemma for each group of GroupNext.       *)


(* What the processes do: they fork inside the job, and write only while     *)
(* they run.                                                                 *)
LEMMA WorldStep == JobInv /\ World => JobInv'
<1> SUFFICES ASSUME JobInv, World
             PROVE  JobInv'
  OBVIOUS
<1> USE ProcAssumption
    DEF JobInv, job, output, child, Alive, Killed, Group, RunGoto, Managing,
        Procs
<1>1. ASSUME NEW p \in Procs, Fork(p)
      PROVE  JobInv'
  BY <1>1 DEF Fork, GroupTypeOK, ContainedOnly,
     NoUseAfterClose, ChildInv, OutputInv
<1>2. ASSUME NEW p \in Procs, WriteOutput(p)
      PROVE  JobInv'
  BY <1>2 DEF WriteOutput, GroupTypeOK, ContainedOnly,
     NoUseAfterClose, ChildInv, OutputInv
<1>3. ASSUME NEW p \in Procs, ExitProc(p)
      PROVE  JobInv'
  <2>1. err' \in {err, TRUE} /\ (err => err')
    BY <1>3 DEF ExitProc, GroupTypeOK
  <2>2. GroupTypeOK'
    <3>1. err' \in BOOLEAN
      BY <2>1, Zenon DEF GroupTypeOK
    <3> QED
      BY <1>3, <3>1 DEF ExitProc, GroupTypeOK
  <2>3. ContainedOnly' /\ NoUseAfterClose'
    BY <1>3 DEF ExitProc, GroupTypeOK, ContainedOnly, NoUseAfterClose
  <2>4. ChildInv'
    BY <1>3 DEF ExitProc, GroupTypeOK, ChildInv
  <2>5. OutputInv'
    BY <1>3, <2>1 DEF ExitProc, GroupTypeOK, OutputInv
  <2> QED
    BY <2>2, <2>3, <2>4, <2>5
<1> QED
  BY <1>1, <1>2, <1>3 DEF World

(* Run and runManaged: the job exists before the child, holds it before it   *)
(* runs, and is closed after Wait (proc_windows.go:118-175).                 *)
LEMMA RunStep == JobInv /\ Run => JobInv'
<1> SUFFICES ASSUME JobInv, Run
             PROVE  JobInv'
  OBVIOUS
<1> USE ProcAssumption
    DEF JobInv, job, output, child, Alive, Killed, Group, RunGoto, Managing,
        Procs
<1>1. ASSUME Begin
      PROVE  JobInv'
  <2>1. \/ jobOpen' = (platform = "windows") /\ runAt' = "start" /\ UNCHANGED err
        \/ err' = TRUE /\ runAt' = "returned" /\ UNCHANGED jobOpen
    BY <1>1 DEF Begin
  <2>2. runAt = "begin"
        /\ UNCHANGED <<platform, ctxDone, proc, inJob, canceled, watcher, output, grace>>
    BY <1>1 DEF Begin
  <2>3. GroupTypeOK'
    <3>1. jobOpen' \in BOOLEAN /\ err' \in BOOLEAN
      BY <2>1, Zenon DEF GroupTypeOK
    <3>2. runAt' \in {"start", "returned"}
      BY <2>1
    <3> QED
      BY <2>2, <3>1, <3>2 DEF GroupTypeOK
  <2>4. ContainedOnly'
    BY <2>2 DEF ContainedOnly
  <2>5. proc[child] = "none" /\ watcher = "none"
    BY <2>2 DEF ChildInv
  <2>6. NoUseAfterClose'
    BY <2>2, <2>5 DEF NoUseAfterClose
  <2>7. ChildInv'
    BY <2>1, <2>2, <2>5 DEF ChildInv
  <2>8. OutputInv'
    BY <2>1, <2>2, <2>5 DEF GroupTypeOK, ChildInv, OutputInv
  <2> QED
    BY <2>3, <2>4, <2>6, <2>7, <2>8
<1>2. ASSUME StartChild
      PROVE  JobInv'
  BY <1>2 DEF StartChild, GroupTypeOK, ContainedOnly,
     NoUseAfterClose, ChildInv, OutputInv
<1>3. ASSUME StartFails
      PROVE  JobInv'
  BY <1>3 DEF StartFails, GroupTypeOK, ContainedOnly,
     NoUseAfterClose, ChildInv, OutputInv
<1>4. ASSUME OpenHandle
      PROVE  JobInv'
  <2>0. /\ runAt = "open" /\ runAt' \in {"assign", "fail"}
        /\ UNCHANGED <<platform, ctxDone, err, proc, job, watcher, output, grace>>
    BY <1>4, ZenonT(30) DEF OpenHandle
  <2>1. GroupTypeOK'
    BY <2>0 DEF GroupTypeOK
  <2>2. ContainedOnly' /\ NoUseAfterClose'
    BY <2>0 DEF ContainedOnly, NoUseAfterClose
  <2>3. ChildInv'
    BY <2>0 DEF ChildInv
  <2>4. OutputInv'
    BY <2>0 DEF OutputInv
  <2> QED
    BY <2>1, <2>2, <2>3, <2>4
<1>5. ASSUME Assign
      PROVE  JobInv'
  BY <1>5 DEF Assign, GroupTypeOK, ContainedOnly,
     NoUseAfterClose, ChildInv, OutputInv
<1>6. ASSUME AssignFails
      PROVE  JobInv'
  BY <1>6 DEF AssignFails, GroupTypeOK, ContainedOnly,
     NoUseAfterClose, ChildInv, OutputInv
<1>7. ASSUME CheckCanceled
      PROVE  JobInv'
  BY <1>7 DEF CheckCanceled, GroupTypeOK, ContainedOnly,
     NoUseAfterClose, ChildInv, OutputInv
<1>8. ASSUME Resume
      PROVE  JobInv'
  BY <1>8 DEF Resume, GroupTypeOK, ContainedOnly,
     NoUseAfterClose, ChildInv, OutputInv
<1>9. ASSUME ResumeFails
      PROVE  JobInv'
  BY <1>9 DEF ResumeFails, GroupTypeOK, ContainedOnly,
     NoUseAfterClose, ChildInv, OutputInv
<1>10. ASSUME FailTerminate
      PROVE  JobInv'
  BY <1>10 DEF FailTerminate, GroupTypeOK, ContainedOnly,
     NoUseAfterClose, ChildInv, OutputInv
<1>11. ASSUME FailKill
      PROVE  JobInv'
  BY <1>11 DEF FailKill, GroupTypeOK, ContainedOnly,
     NoUseAfterClose, ChildInv, OutputInv
<1>12. ASSUME Reap
      PROVE  JobInv'
  BY <1>12 DEF Reap, GroupTypeOK, ContainedOnly,
     NoUseAfterClose, ChildInv, OutputInv
<1>13. ASSUME JoinWatcher
      PROVE  JobInv'
  BY <1>13 DEF JoinWatcher, GroupTypeOK, ContainedOnly,
     NoUseAfterClose, ChildInv, OutputInv
<1>14. ASSUME DrainToEnd
      PROVE  JobInv'
  BY <1>14 DEF DrainToEnd, GroupTypeOK, ContainedOnly,
     NoUseAfterClose, ChildInv, OutputInv
<1>15. ASSUME DrainTimeout
      PROVE  JobInv'
  BY <1>15 DEF DrainTimeout, GroupTypeOK, ContainedOnly,
     NoUseAfterClose, ChildInv, OutputInv
<1>16. ASSUME Close
      PROVE  JobInv'
  <2>1. GroupTypeOK'
    BY <1>16 DEF Close, GroupTypeOK
  <2>2. ContainedOnly' /\ NoUseAfterClose'
    BY <1>16 DEF Close, GroupTypeOK, ContainedOnly, NoUseAfterClose, ChildInv
  <2>3. ChildInv'
    BY <1>16 DEF Close, GroupTypeOK, ContainedOnly, ChildInv
  <2>4. OutputInv'
    BY <1>16 DEF Close, GroupTypeOK, ChildInv, OutputInv
  <2> QED
    BY <2>1, <2>2, <2>3, <2>4
<1> QED
  BY <1>1, <1>2, <1>3, <1>4, <1>5, <1>6, <1>7, <1>8, <1>9, <1>10, <1>11, <1>12,
     <1>13, <1>14, <1>15, <1>16 DEF Run

(* Cancel acts on a job that is open: Wait joins the watcher first.          *)
LEMMA WatcherStep == JobInv /\ Watcher => JobInv'
<1> SUFFICES ASSUME JobInv, Watcher
             PROVE  JobInv'
  OBVIOUS
<1> USE ProcAssumption
    DEF JobInv, job, output, child, Alive, Killed, Group, RunGoto, Managing,
        Procs
<1>1. ASSUME Cancel
      PROVE  JobInv'
  <2>1. GroupTypeOK'
    BY <1>1 DEF Cancel, GroupTypeOK
  <2>2. ContainedOnly' /\ NoUseAfterClose'
    BY <1>1 DEF Cancel, GroupTypeOK, ContainedOnly, NoUseAfterClose, ChildInv
  <2>3. ChildInv'
    BY <1>1 DEF Cancel, GroupTypeOK, ContainedOnly, ChildInv
  <2>4. OutputInv'
    BY <1>1 DEF Cancel, GroupTypeOK, ChildInv, OutputInv
  <2> QED
    BY <2>1, <2>2, <2>3, <2>4
<1>2. ASSUME CancelTerminate
      PROVE  JobInv'
  BY <1>2 DEF CancelTerminate, GroupTypeOK, ContainedOnly,
     NoUseAfterClose, ChildInv, OutputInv
<1>3. ASSUME CancelKill
      PROVE  JobInv'
  BY <1>3 DEF CancelKill, GroupTypeOK, ContainedOnly,
     NoUseAfterClose, ChildInv, OutputInv
<1> QED
  BY <1>1, <1>2, <1>3 DEF Watcher

(* Reading moves a piece from the pipe to the capture, or marks the loss     *)
(* (proc.go:74-98).                                                          *)
LEMMA ReadOutputStep == JobInv /\ ReadOutput => JobInv'
<1> SUFFICES ASSUME JobInv, ReadOutput
             PROVE  JobInv'
  OBVIOUS
<1> USE ProcAssumption DEF JobInv, GroupTypeOK, ReadOutput, output, job
<1>1. GroupTypeOK'
  OBVIOUS
<1>2. ContainedOnly' /\ NoUseAfterClose' /\ ChildInv'
  BY DEF ContainedOnly, NoUseAfterClose, ChildInv, Managing
<1>3. OutputInv'
  <2>1. written \in Nat /\ inPipe \in Nat /\ kept \in Nat /\ inPipe > 0
    OBVIOUS
  <2>2. ~(runAt \in {"close", "returned"} /\ ~err) /\ UNCHANGED <<runAt, err>>
    BY <2>1 DEF OutputInv
  <2>3. CASE kept < CaptureLimit
    <3>1. kept' = kept + 1 /\ inPipe' = inPipe - 1 /\ written' = written
      BY <2>3
    <3>2. exceeded' => exceeded
      BY <2>1, <2>3
    <3> QED
      BY <2>1, <2>2, <3>1, <3>2 DEF OutputInv
  <2>4. CASE kept >= CaptureLimit
    <3>1. kept' = kept /\ inPipe' = inPipe - 1 /\ written' = written
      BY <2>1, <2>4
    <3>2. exceeded'
      BY <2>4, Zenon
    <3> QED
      BY <2>1, <2>2, <3>1, <3>2 DEF OutputInv
  <2> QED
    BY <2>1, <2>3, <2>4
<1> QED
  BY <1>1, <1>2, <1>3

-----------------------------------------------------------------------------
(* The job holds whatever runs and is open for whoever may use it, the       *)
(* child is reaped before Run leaves Wait, and every piece of output is      *)
(* accounted for (proc.go:35-98, proc_windows.go:118-175).                   *)
THEOREM JobInvariance == GroupSpec => []JobInv
<1>1. JobInv /\ [GroupNext]_groupVars => JobInv'
  <2> SUFFICES ASSUME JobInv, [GroupNext]_groupVars
               PROVE  JobInv'
    OBVIOUS
  <2>1. CASE CtxDone
    BY <2>1 DEF CtxDone, job, output, JobInv, GroupTypeOK, ContainedOnly,
       NoUseAfterClose, ChildInv, OutputInv, Managing, Alive
  <2>2. CASE GraceExpires
    BY <2>2 DEF GraceExpires, job, output, JobInv, GroupTypeOK, ContainedOnly,
       NoUseAfterClose, ChildInv, OutputInv, Managing, Alive
  <2>3. CASE UNCHANGED groupVars
    BY <2>3 DEF groupVars, job, output, JobInv, GroupTypeOK, ContainedOnly,
       NoUseAfterClose, ChildInv, OutputInv, Managing, Alive
  <2> QED
    BY <2>1, <2>2, <2>3, WorldStep, RunStep, WatcherStep, ReadOutputStep
       DEF GroupNext, GroupTerminated
<1> QED
  BY <1>1, ProcInit, PTL DEF GroupSpec

(* When Run returns nothing that the command started is alive, and the       *)
(* child was reaped: on Windows because whatever runs is in the job, on      *)
(* Unix because the group is killed last (proc_unix.go:26-33,                *)
(* proc_windows.go:135).                                                     *)
THEOREM NoSurvivorHolds == GroupSpec => []NoSurvivor
<1>1. GroupInit => NoSurvivor
  BY DEF GroupInit, NoSurvivor
<1>2. JobInv /\ NoSurvivor /\ [GroupNext]_groupVars => NoSurvivor'
  <2> SUFFICES ASSUME JobInv, NoSurvivor, [GroupNext]_groupVars
               PROVE  NoSurvivor'
    OBVIOUS
  <2>1. CASE Close
    <3>1. proc[child] \in {"none", "reaped"} /\ ~Managing
      BY <2>1 DEF JobInv, ChildInv, Close, Managing
    <3>2. \A p \in Procs : Alive(p) /\ platform = "windows" => p \in inJob
      BY <3>1 DEF JobInv, ChildInv, ContainedOnly, Alive
    <3> QED
      BY <2>1, <3>1, <3>2, ProcAssumption DEF Close, JobInv, GroupTypeOK,
         NoSurvivor, Killed, Group, Alive, Procs, child
  <2>2. CASE Begin
    BY <2>2 DEF Begin, JobInv, ChildInv, NoSurvivor, Alive
  <2>3. CASE runAt = "returned" /\ UNCHANGED <<runAt, platform, proc>>
    BY <2>3 DEF NoSurvivor, Alive
  <2>4. CASE runAt' # "returned"
    BY <2>4 DEF NoSurvivor
  <2> QED
    BY <2>1, <2>2, <2>3, <2>4 DEF JobInv, ChildInv, GroupNext, CtxDone, World,
       Fork, WriteOutput, ExitProc, Run, StartChild, StartFails, OpenHandle, Assign,
       AssignFails, CheckCanceled, Resume, ResumeFails, FailTerminate,
       FailKill, Watcher, Cancel, CancelTerminate, CancelKill, Reap,
       JoinWatcher, ReadOutput, DrainToEnd, GraceExpires, DrainTimeout,
       GroupTerminated, RunGoto, groupVars
<1> QED
  BY <1>1, <1>2, JobInvariance, PTL DEF GroupSpec

(* A command that returns without an error returns all that was written:     *)
(* nothing was marked as lost, and nothing is left in the pipe               *)
(* (proc.go:35-51, 74-98).                                                   *)
THEOREM WholeOrErrorHolds == GroupSpec => []WholeOrError
<1>1. JobInv => WholeOrError
  BY ProcAssumption DEF JobInv, GroupTypeOK, OutputInv, WholeOrError
<1> QED
  BY <1>1, JobInvariance, PTL
=============================================================================
