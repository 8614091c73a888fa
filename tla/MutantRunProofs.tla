-------------------------- MODULE MutantRunProofs ---------------------------
(***************************************************************************)
(* What is proved of the two ways runOneMutant saves test runs.            *)
(*                                                                         *)
(* ResultCache, a verdict found on disk in place of a run: for every set   *)
(* of executions, of snapshots and of untracked inputs, and any number of  *)
(* rounds, the inductive invariant EvidenceInv, that a hit is fresh, and   *)
(* that an entry on disk is not lost.                                      *)
(*                                                                         *)
(* TestSelection, some tests in place of all: for every module, both       *)
(* options, any order of profiling and any failure on the way, that        *)
(* narrowing loses no kill.  The two share no variable.                    *)
(***************************************************************************)
EXTENDS ResultCache, TestSelection, FiniteSetTheorems, TLAPS

(* The inputs that nothing is known of are inputs.                         *)
LEMMA SomeInputsType == SomeInputs \in Inputs
BY CacheAssumption DEF SomeInputs, Inputs

(* What an entry is made of.                                               *)
LEMMA EntryType ==
    ASSUME NEW s \in {"v1", "v2", "torn"}, NEW v \in Verdict, NEW i \in Inputs,
           NEW b \in BOOLEAN, NEW c \in BOOLEAN
    PROVE  [schema |-> s, verdict |-> v, from |-> i, synced |-> b, cut |-> c]
              \in Entry
BY DEF Entry

(* Entries of an older release are there before the first run, and none of *)
(* them is readable (cache.go:65).                                         *)
LEMMA CacheInit == Init => EvidenceInv /\ HitIsFresh
<1> SUFFICES ASSUME Init
             PROVE  EvidenceInv /\ HitIsFresh
  OBVIOUS
<1>1. \A k \in Snapshots : \A e \in disk[k] :
         /\ e \in Entry
         /\ e.schema = "v1" /\ ~e.cut
         /\ \A f \in disk[k] : e = f
  <2> SUFFICES ASSUME NEW k \in Snapshots, NEW e \in disk[k]
               PROVE  /\ e \in Entry
                      /\ e.schema = "v1" /\ ~e.cut
                      /\ \A f \in disk[k] : e = f
    OBVIOUS
  <2>1. PICK v \in Verdict :
           disk[k] = {[schema |-> "v1", verdict |-> v, from |-> SomeInputs,
                       synced |-> TRUE, cut |-> FALSE]}
    BY DEF Init
  <2>2. TRUE \in BOOLEAN /\ FALSE \in BOOLEAN
    BY Zenon
  <2>3. e \in Entry
    BY <2>1, <2>2, SomeInputsType, EntryType, Zenon
  <2>4. e.schema = "v1" /\ ~e.cut
    BY <2>1
  <2> QED
    BY <2>1, <2>3, <2>4
<1>2. TypeOK
  <2>1. disk \in [Snapshots -> SUBSET Entry]
    BY <1>1 DEF Init
  <2>2. /\ temps \in SUBSET Temp
        /\ rounds \in [Jobs -> 0..MaxRounds]
        /\ inputs \in [Jobs -> Inputs]
    BY CacheAssumption, SomeInputsType DEF Init
  <2> QED
    BY <1>1, <2>1, <2>2 DEF Init, TypeOK
<1>3. OnlyEvidence /\ InterruptedIsNotEvidence
  BY <1>1 DEF OnlyEvidence, InterruptedIsNotEvidence, Readable
<1>4. OnlyCrashLeavesTemps /\ WriterInv /\ TempInv
  BY DEF Init, OnlyCrashLeavesTemps, WriterInv, TempInv, Mine
<1>5. HitIsFresh
  BY DEF Init, HitIsFresh
<1> QED
  BY <1>2, <1>3, <1>4, <1>5 DEF EvidenceInv

-----------------------------------------------------------------------------
(* Temporary files.                                                        *)

(* What one call does with its temporary file is no concern of the others. *)
LEMMA OthersTemps ==
    ASSUME NEW j \in Jobs,
           \A t : t.job # j => (t \in temps' <=> t \in temps),
           \A i \in Jobs \ {j} : rounds'[i] = rounds[i]
    PROVE  \A i \in Jobs \ {j} : Mine(i)' = Mine(i)
BY DEF Mine

(* The names of temporary files.                                           *)
LEMMA TempType ==
    ASSUME TypeOK, NEW t \in temps
    PROVE  t.job \in Jobs /\ t.round \in 0..MaxRounds /\ t.written \in BOOLEAN
BY DEF TypeOK, Temp

(* The invariants on temporary files after a step of one call: it is       *)
(* enough to look at that call's own file.                                 *)
LEMMA TempStep ==
    ASSUME EvidenceInv, NEW j \in Jobs, NEW p, Goto(j, p),
           \A i \in Jobs \ {j} : rounds'[i] = rounds[i] /\ Mine(i)' = Mine(i),
           \A t \in temps' : t.job \in Jobs /\ t.round <= rounds'[t.job],
           p \in {"idle", "get", "exec", "put", "create", "done"} => Mine(j)' = {},
           p \in {"recheck", "rename"} => \E t \in Mine(j)' : t.written
    PROVE  TempInv' /\ OnlyCrashLeavesTemps'
<1>1. \A i \in Jobs \ {j} : pc'[i] = pc[i]
  BY DEF Goto, EvidenceInv, TypeOK
<1>2. pc'[j] = p
  BY DEF Goto, EvidenceInv, TypeOK
<1>3. ASSUME NEW i \in Jobs
      PROVE  /\ pc'[i] \in {"idle", "get", "exec", "put", "create", "done"} =>
                   Mine(i)' = {}
             /\ pc'[i] \in {"recheck", "rename"} => \E t \in Mine(i)' : t.written
  <2>1. CASE i = j
    BY <1>2, <2>1
  <2>2. CASE i # j
    BY <1>1, <2>2 DEF EvidenceInv, TempInv
  <2> QED
    BY <2>1, <2>2
<1>4. TempInv'
  BY <1>3 DEF TempInv
<1>5. ASSUME NEW t \in temps', pc'[t.job] = "done"
      PROVE  t.round # rounds'[t.job]
  <2>1. Mine(t.job)' = {}
    BY <1>3, <1>5
  <2> QED
    BY <1>5, <2>1 DEF Mine
<1> QED
  BY <1>4, <1>5 DEF OnlyCrashLeavesTemps, At

(* The same for a step that leaves the temporary files alone.              *)
LEMMA NoTempStep ==
    ASSUME EvidenceInv, NEW j \in Jobs, NEW p, Goto(j, p),
           UNCHANGED <<temps, rounds>>,
           p \in {"idle", "get", "exec", "put", "create", "done"} => Mine(j) = {},
           p \in {"recheck", "rename"} => \E t \in Mine(j) : t.written
    PROVE  TempInv' /\ OnlyCrashLeavesTemps'
<1>1. \A i \in Jobs : Mine(i)' = Mine(i)
  BY DEF Mine
<1>2. \A t \in temps' : t.job \in Jobs /\ t.round <= rounds'[t.job]
  BY TempType DEF EvidenceInv, TempInv
<1> QED
  BY <1>1, <1>2, TempStep

-----------------------------------------------------------------------------
(* Every step keeps the invariant.                                         *)

(* The phases of an execution, and what it can take from the directory     *)
(* (cache.go:53-115).                                                      *)
Phase == {"idle", "get", "exec", "put", "create", "write", "recheck", "rename",
          "done", "crashed"}
Hit == [schema : {"v2"}, verdict : {"definitive"}, from : Inputs,
        synced : BOOLEAN, cut : BOOLEAN]

(* A step of one call that does not rename is typed if what it assigns is  *)
(* (analysis.go:735-775).                                                  *)
LEMMA CallTyped ==
    ASSUME TypeOK, UNCHANGED <<disk, rounds, inputs>>, temps' \subseteq Temp,
           ctx' \in [Jobs -> {"live", "ended", "ended late"}],
           pc' \in [Jobs -> Phase],
           result' \in [Jobs -> {"none"} \cup Verdict],
           hit' \in [Jobs -> SUBSET Hit]
    PROVE  TypeOK'
<1>1. /\ disk' \in [Snapshots -> SUBSET Entry]
      /\ \A k \in Snapshots : \A e, f \in disk'[k] : e = f
  BY DEF TypeOK
<1>2. rounds' \in [Jobs -> 0..MaxRounds] /\ inputs' \in [Jobs -> Inputs]
  BY DEF TypeOK
<1>3. temps' \in SUBSET Temp
  OBVIOUS
<1> QED
  BY <1>1, <1>2, <1>3, ZenonT(30) DEF TypeOK, Phase, Hit

(* What TypeOK says of the calls.                                          *)
LEMMA CallsAreTyped ==
    ASSUME TypeOK
    PROVE  /\ temps \subseteq Temp
           /\ ctx \in [Jobs -> {"live", "ended", "ended late"}]
           /\ pc \in [Jobs -> Phase]
           /\ result \in [Jobs -> {"none"} \cup Verdict]
           /\ hit \in [Jobs -> SUBSET Hit]
BY ZenonT(30) DEF TypeOK, Phase, Hit

(* Where a call goes is a phase.                                           *)
LEMMA GotoTyped ==
    ASSUME TypeOK, NEW j \in Jobs, NEW p \in Phase, Goto(j, p)
    PROVE  pc' \in [Jobs -> Phase]
<1>1. pc \in [Jobs -> Phase]
  BY CallsAreTyped
<1> QED
  BY <1>1 DEF Goto

(* What the writers know after a step of one call: it is enough to look at *)
(* that call (cache.go:78-85, 111).                                        *)
LEMMA WriterStep ==
    ASSUME EvidenceInv, NEW j \in Jobs, NEW p, Goto(j, p),
           \A i \in Jobs \ {j} : /\ result'[i] = result[i] /\ inputs'[i] = inputs[i]
                                /\ ctx'[i] = ctx[i],
           p \in {"create", "write", "recheck", "rename"} =>
              result'[j] = "definitive" /\ inputs'[j].outside = NoOutside,
           p = "rename" => ctx'[j] # "ended"
    PROVE  WriterInv'
<1>1. pc'[j] = p /\ \A i \in Jobs \ {j} : pc'[i] = pc[i]
  BY CallsAreTyped DEF Goto, EvidenceInv
<1> SUFFICES ASSUME NEW i \in Jobs
             PROVE  /\ pc'[i] \in {"create", "write", "recheck", "rename"} =>
                         result'[i] = "definitive" /\ inputs'[i].outside = NoOutside
                    /\ pc'[i] = "rename" => ctx'[i] # "ended"
  BY DEF WriterInv
<1>2. CASE i = j
  BY <1>1, <1>2
<1>3. CASE i # j
  BY <1>1, <1>3 DEF EvidenceInv, WriterInv
<1> QED
  BY <1>2, <1>3

(* A new round has a new name for its temporary file                       *)
(* (analysis.go:735-750).                                                  *)
LEMMA BeginStep ==
    ASSUME EvidenceInv, NEW j \in Jobs, Begin(j)
    PROVE  EvidenceInv'
<1> USE CacheAssumption DEF EvidenceInv, Begin, Goto
<1>1. TypeOK'
  <2>1. rounds' \in [Jobs -> 0..MaxRounds]
    <3>1. rounds[j] + 1 \in 0..MaxRounds
      <4>1. rounds[j] \in 0..MaxRounds /\ rounds[j] < MaxRounds
        BY DEF TypeOK
      <4> QED
        BY <4>1
    <3> QED
      BY <3>1 DEF TypeOK
  <2>2. PICK i \in Inputs : inputs' = [inputs EXCEPT ![j] = i]
    OBVIOUS
  <2>3. inputs' \in [Jobs -> Inputs]
    BY <2>2 DEF TypeOK
  <2>4. hit' \in [Jobs -> SUBSET [schema : {"v2"}, verdict : {"definitive"},
                                 from : Inputs, synced : BOOLEAN,
                                 cut : BOOLEAN]]
    BY DEF TypeOK
  <2> QED
    BY <2>1, <2>3, <2>4 DEF TypeOK
<1>2. OnlyEvidence' /\ InterruptedIsNotEvidence'
  BY DEF OnlyEvidence, InterruptedIsNotEvidence, Readable
<1>3. WriterInv'
  BY DEF TypeOK, WriterInv
<1>4. TempInv' /\ OnlyCrashLeavesTemps'
  <2>0. /\ \A i \in Jobs : rounds[i] \in Nat /\ rounds[i] <= rounds'[i]
        /\ rounds'[j] = rounds[j] + 1
    <3>1. rounds \in [Jobs -> 0..MaxRounds] /\ rounds' = [rounds EXCEPT ![j] = @ + 1]
      BY DEF TypeOK
    <3> QED
      BY <3>1
  <2>1. \A t \in temps' : t.job \in Jobs /\ t.round <= rounds'[t.job]
    BY <2>0, TempType DEF TempInv
  <2>2. Mine(j)' = {}
    BY <2>0, TempType DEF TempInv, Mine
  <2>3. \A i \in Jobs \ {j} : rounds'[i] = rounds[i] /\ Mine(i)' = Mine(i)
    BY DEF TypeOK, Mine
  <2> QED
    BY <2>1, <2>2, <2>3, TempStep
<1> QED
  BY <1>1, <1>2, <1>3, <1>4

(* The end of a context is noticed before the rename, or comes too late    *)
(* for it (cache.go:111).                                                  *)
LEMMA EndContextStep ==
    ASSUME EvidenceInv, NEW j \in Jobs, EndContext(j)
    PROVE  EvidenceInv'
<1>1. /\ UNCHANGED <<disk, temps, inputs, pc, result, hit, rounds>>
      /\ ctx' = [ctx EXCEPT ![j] = IF pc[j] = "rename" THEN "ended late" ELSE "ended"]
  BY DEF EndContext, At
<1>2. ctx \in [Jobs -> {"live", "ended", "ended late"}]
  BY CallsAreTyped DEF EvidenceInv
<1>3. TypeOK'
  <2>1. ctx' \in [Jobs -> {"live", "ended", "ended late"}]
    BY <1>1, <1>2
  <2> QED
    BY <1>1, <2>1, CallsAreTyped, CallTyped DEF EvidenceInv
<1>4. OnlyEvidence' /\ InterruptedIsNotEvidence'
  BY <1>1 DEF EvidenceInv, OnlyEvidence, InterruptedIsNotEvidence, Readable
<1>5. WriterInv'
  <2>1. ASSUME NEW i \in Jobs, pc[i] = "rename"
        PROVE  ctx'[i] # "ended"
    BY <1>1, <1>2, <2>1 DEF EvidenceInv, WriterInv
  <2> QED
    BY <1>1, <2>1 DEF EvidenceInv, WriterInv
<1>6. TempInv' /\ OnlyCrashLeavesTemps'
  BY <1>1 DEF EvidenceInv, TempInv, OnlyCrashLeavesTemps, Mine, At
<1> QED
  BY <1>3, <1>4, <1>5, <1>6 DEF EvidenceInv

(* What is found for the key is readable.                                  *)
LEMMA FoundType ==
    ASSUME TypeOK, OnlyEvidence, NEW j \in Jobs, NEW e \in Found(j)
    PROVE  /\ e \in [schema : {"v2"}, verdict : {"definitive"}, from : Inputs,
                     synced : BOOLEAN, cut : BOOLEAN]
           /\ e.verdict = "definitive"
           /\ e.from = inputs[j]
<1>1. /\ e \in disk[Key(inputs[j])] /\ Readable(e)
      /\ inputs[j].outside = NoOutside
  BY DEF Found, Enabled
<1>2. Key(inputs[j]) \in Snapshots /\ inputs[j] \in Inputs
  BY DEF TypeOK, Key, Inputs
<1>3. e \in Entry
  BY <1>1, <1>2 DEF TypeOK
<1>4. e.from = inputs[j]
  BY <1>1, <1>2 DEF OnlyEvidence, Key, Inputs
<1> QED
  BY <1>1, <1>3, <1>4 DEF Entry, Readable, Cacheable

(* A run that finds an entry writes none.                                  *)
LEMMA GetStep ==
    ASSUME EvidenceInv, NEW j \in Jobs, Get(j)
    PROVE  EvidenceInv'
<1> USE DEF EvidenceInv, Get, Goto
<1>1. TypeOK'
  <2>1. hit' \in [Jobs -> SUBSET Hit]
    <3>1. Found(j) \subseteq Hit
      BY FoundType DEF Hit
    <3> QED
      BY <3>1, CallsAreTyped
  <2>2. result' \in [Jobs -> {"none"} \cup Verdict]
    <3>1. \A e \in Found(j) : e.verdict \in Verdict
      BY FoundType DEF Verdict
    <3> QED
      BY <3>1, CallsAreTyped
  <2>3. pc' \in [Jobs -> Phase]
    BY CallsAreTyped DEF Phase
  <2>4. temps' \subseteq Temp /\ ctx' \in [Jobs -> {"live", "ended", "ended late"}]
    BY CallsAreTyped
  <2>5. UNCHANGED <<disk, rounds, inputs>>
    OBVIOUS
  <2> QED
    BY <2>1, <2>2, <2>3, <2>4, <2>5, CallTyped
<1>2. OnlyEvidence' /\ InterruptedIsNotEvidence'
  BY DEF OnlyEvidence, InterruptedIsNotEvidence, Readable
<1>3. WriterInv'
  <2>1. \A i \in Jobs \ {j} : /\ result'[i] = result[i] /\ inputs'[i] = inputs[i]
                             /\ ctx'[i] = ctx[i]
    BY CallsAreTyped
  <2>2. CASE Goto(j, "exec")
    BY <2>1, <2>2, WriterStep
  <2>3. CASE Goto(j, "done")
    BY <2>1, <2>3, WriterStep
  <2> QED
    BY <2>2, <2>3
<1>4. TempInv' /\ OnlyCrashLeavesTemps'
  BY NoTempStep DEF TempInv, At
<1> QED
  BY <1>1, <1>2, <1>3, <1>4

(* Nothing is on disk for a run that has not come to its Put.              *)
LEMMA ExecuteStep ==
    ASSUME EvidenceInv, NEW j \in Jobs, Execute(j) \/ ExecuteFails(j) \/ Put(j)
    PROVE  EvidenceInv'
<1> USE DEF EvidenceInv, Execute, ExecuteFails, Put, Goto
<1>1. TypeOK'
  <2>1. result' \in [Jobs -> {"none"} \cup Verdict]
    BY CallsAreTyped
  <2>2. pc' \in [Jobs -> Phase]
    BY CallsAreTyped DEF Phase
  <2>3. UNCHANGED <<disk, temps, rounds, inputs, ctx, hit>>
    OBVIOUS
  <2> QED
    BY <2>1, <2>2, <2>3, CallsAreTyped, CallTyped
<1>2. OnlyEvidence' /\ InterruptedIsNotEvidence'
  BY DEF OnlyEvidence, InterruptedIsNotEvidence, Readable
<1>3. WriterInv'
  <2>1. \A i \in Jobs \ {j} : /\ result'[i] = result[i] /\ inputs'[i] = inputs[i]
                             /\ ctx'[i] = ctx[i]
    BY CallsAreTyped
  <2>2. CASE Goto(j, "put")
    BY <2>1, <2>2, WriterStep
  <2>3. CASE Goto(j, "done")
    BY <2>1, <2>3, WriterStep
  <2>4. CASE Goto(j, "create") /\ MayPut(j) /\ UNCHANGED <<result, inputs>>
    <3>1. result'[j] = "definitive" /\ inputs'[j].outside = NoOutside
      BY <2>4 DEF MayPut, Enabled, Cacheable
    <3> QED
      BY <2>1, <2>4, <3>1, WriterStep
  <2> QED
    BY <2>2, <2>3, <2>4
<1>4. TempInv' /\ OnlyCrashLeavesTemps'
  <2>1. Mine(j) = {}
    BY DEF TempInv, At
  <2> QED
    BY <2>1, NoTempStep
<1> QED
  BY <1>1, <1>2, <1>3, <1>4

(* The temporary file is the call's own (cache.go:94).                     *)
LEMMA CreateTempStep ==
    ASSUME EvidenceInv, NEW j \in Jobs, CreateTemp(j)
    PROVE  EvidenceInv'
<1> DEFINE new == [job |-> j, round |-> rounds[j], written |-> FALSE]
<1>1. new \in Temp
  <2>1. FALSE \in BOOLEAN
    BY Zenon
  <2> QED
    BY <2>1 DEF EvidenceInv, TypeOK, Temp
<1> HIDE DEF new
<1>2. temps' = temps \cup {new} /\ UNCHANGED <<disk, inputs, ctx, result, hit, rounds>>
  BY DEF CreateTemp, new
<1>3. TypeOK'
  BY <1>1, <1>2 DEF EvidenceInv, TypeOK, CreateTemp, Goto
<1>4. OnlyEvidence' /\ InterruptedIsNotEvidence'
  BY <1>2 DEF EvidenceInv, OnlyEvidence, InterruptedIsNotEvidence, Readable
<1>5. WriterInv'
  BY DEF EvidenceInv, TypeOK, WriterInv, CreateTemp, Goto, At
<1>6. TempInv' /\ OnlyCrashLeavesTemps'
  <2>1. new.job = j /\ new.round = rounds[j]
    BY DEF new
  <2>2. \A i \in Jobs \ {j} : rounds'[i] = rounds[i] /\ Mine(i)' = Mine(i)
    BY <1>2, <2>1 DEF Mine
  <2>3. \A t \in temps' : t.job \in Jobs /\ t.round <= rounds'[t.job]
    <3>1. rounds[j] <= rounds[j]
      <4>1. rounds[j] \in 0..MaxRounds
        BY DEF EvidenceInv, TypeOK
      <4> QED
        BY <4>1, CacheAssumption
    <3> QED
      BY <1>2, <2>1, <3>1, TempType DEF EvidenceInv, TempInv
  <2> QED
    BY <2>2, <2>3, TempStep DEF CreateTemp
<1> QED
  BY <1>3, <1>4, <1>5, <1>6 DEF EvidenceInv

(* It is written and closed before it is renamed (cache.go:99-107).        *)
LEMMA WriteTempStep ==
    ASSUME EvidenceInv, NEW j \in Jobs, WriteTemp(j)
    PROVE  EvidenceInv'
<1> DEFINE new == [job |-> j, round |-> rounds[j], written |-> TRUE]
<1>1. new \in Temp
  <2>1. TRUE \in BOOLEAN
    BY Zenon
  <2> QED
    BY <2>1 DEF EvidenceInv, TypeOK, Temp
<1>2. new.job = j /\ new.round = rounds[j] /\ new.written
  OBVIOUS
<1> HIDE DEF new
<1>3. /\ temps' = (temps \ Mine(j)) \cup {new}
      /\ UNCHANGED <<disk, inputs, ctx, result, hit, rounds>>
  BY DEF WriteTemp, new
<1>4. TypeOK'
  BY <1>1, <1>3 DEF EvidenceInv, TypeOK, WriteTemp, Goto
<1>5. OnlyEvidence' /\ InterruptedIsNotEvidence'
  BY <1>3 DEF EvidenceInv, OnlyEvidence, InterruptedIsNotEvidence, Readable
<1>6. WriterInv'
  BY DEF EvidenceInv, TypeOK, WriterInv, WriteTemp, Goto, At
<1>7. TempInv' /\ OnlyCrashLeavesTemps'
  <2>1. new \in Mine(j)'
    BY <1>2, <1>3 DEF Mine
  <2>2. \A i \in Jobs \ {j} : rounds'[i] = rounds[i] /\ Mine(i)' = Mine(i)
    BY <1>2, <1>3 DEF Mine
  <2>3. \A t \in temps' : t.job \in Jobs /\ t.round <= rounds'[t.job]
    <3>1. rounds[j] <= rounds[j]
      <4>1. rounds[j] \in 0..MaxRounds
        BY DEF EvidenceInv, TypeOK
      <4> QED
        BY <4>1, CacheAssumption
    <3> QED
      BY <1>2, <1>3, <3>1, TempType DEF EvidenceInv, TempInv
  <2> QED
    BY <1>2, <2>1, <2>2, <2>3, TempStep DEF WriteTemp
<1> QED
  BY <1>4, <1>5, <1>6, <1>7 DEF EvidenceInv

(* What the deferred removal leaves.                                       *)
LEMMA DropTempMine ==
    ASSUME EvidenceInv, NEW j \in Jobs, DropTemp(j), UNCHANGED rounds
    PROVE  /\ Mine(j)' = {}
           /\ \A i \in Jobs \ {j} : rounds'[i] = rounds[i] /\ Mine(i)' = Mine(i)
           /\ \A t \in temps' : t \in Temp /\ t.job \in Jobs
                                /\ t.round <= rounds'[t.job]
<1>1. temps' \subseteq temps
  BY DEF DropTemp
<1>2. Mine(j)' = {}
  BY DEF DropTemp, Mine
<1>3. \A i \in Jobs \ {j} : rounds'[i] = rounds[i] /\ Mine(i)' = Mine(i)
  BY DEF DropTemp, Mine
<1>4. ASSUME NEW t \in temps'
      PROVE  t \in Temp /\ t.job \in Jobs /\ t.round <= rounds'[t.job]
  <2>1. t \in temps
    BY <1>1
  <2>2. t \in Temp
    BY <2>1 DEF EvidenceInv, TypeOK
  <2>3. t.round <= rounds[t.job]
    BY <2>1 DEF EvidenceInv, TempInv
  <2> QED
    BY <2>1, <2>2, <2>3, TempType DEF EvidenceInv
<1> QED
  BY <1>2, <1>3, <1>4

(* The last look at the context comes before the rename                    *)
(* (cache.go:108-113).                                                     *)
LEMMA RecheckStep ==
    ASSUME EvidenceInv, NEW j \in Jobs, Recheck(j)
    PROVE  EvidenceInv'
<1> USE DEF EvidenceInv, Recheck, Goto
<1>1. TypeOK'
  BY DEF TypeOK, DropTemp
<1>2. OnlyEvidence' /\ InterruptedIsNotEvidence'
  BY DEF OnlyEvidence, InterruptedIsNotEvidence, Readable
<1>3. WriterInv'
  BY DEF TypeOK, WriterInv, At, Ended
<1>4. TempInv' /\ OnlyCrashLeavesTemps'
  <2>1. CASE Ended(j)
    BY <2>1, DropTempMine, TempStep
  <2>2. CASE ~Ended(j)
    BY <2>2, NoTempStep DEF TempInv, At
  <2> QED
    BY <2>1, <2>2
<1> QED
  BY <1>1, <1>2, <1>3, <1>4

(* The rename puts a whole entry in place, of a verdict that is worth      *)
(* keeping, under the key of the inputs it was computed from               *)
(* (cache.go:114).                                                         *)
LEMMA RenameStep ==
    ASSUME EvidenceInv, NEW j \in Jobs, Rename(j)
    PROVE  EvidenceInv'
<1> DEFINE k == Key(inputs[j])
           new == [schema |-> "v2", verdict |-> result[j], from |-> inputs[j],
                   synced |-> FALSE, cut |-> ctx[j] = "ended"]
<1>1. /\ result[j] = "definitive" /\ inputs[j].outside = NoOutside
      /\ ctx[j] # "ended" /\ \E t \in Mine(j) : t.written
  BY DEF EvidenceInv, WriterInv, TempInv, Rename, At
<1>2. k \in Snapshots /\ inputs[j] = [snapshot |-> k, outside |-> NoOutside]
  BY <1>1 DEF EvidenceInv, TypeOK, Inputs, Key
<1>3. /\ new \in Entry /\ new.verdict = "definitive" /\ new.from = inputs[j]
      /\ ~new.cut
  <2>1. FALSE \in BOOLEAN /\ (ctx[j] = "ended") \in BOOLEAN
    BY Zenon
  <2>2. result[j] \in Verdict /\ inputs[j] \in Inputs
    BY <1>1 DEF EvidenceInv, TypeOK, Verdict
  <2>3. new \in Entry
    BY <2>1, <2>2, EntryType, Zenon
  <2> QED
    BY <1>1, <2>3
<1>4. disk' = [disk EXCEPT ![k] = {new}]
  BY <1>1 DEF Rename
<1> HIDE DEF k, new
<1>d. disk'[k] = {new} /\ \A h \in Snapshots \ {k} : disk'[h] = disk[h]
  <2>1. disk \in [Snapshots -> SUBSET Entry]
    BY DEF EvidenceInv, TypeOK
  <2> QED
    BY <1>2, <1>4, <2>1
<1>5. DropTemp(j) /\ UNCHANGED <<inputs, ctx, result, hit, rounds>>
  BY ZenonT(30) DEF Rename, DropTemp
<1>6. TypeOK'
  <2>1. disk' \in [Snapshots -> SUBSET Entry]
    <3>1. disk \in [Snapshots -> SUBSET Entry]
      BY DEF EvidenceInv, TypeOK
    <3>2. {new} \subseteq Entry
      BY <1>3
    <3> QED
      BY <1>4, <3>1, <3>2
  <2>2. \A h \in Snapshots : \A e, f \in disk'[h] : e = f
    <3>1. \A h \in Snapshots : \A e, f \in disk[h] : e = f
      BY DEF EvidenceInv, TypeOK
    <3>2. \A h \in Snapshots : h = k \/ disk'[h] = disk[h]
      BY <1>d
    <3> QED
      BY <1>d, <3>1, <3>2
  <2>3. pc' \in [Jobs -> Phase]
    <3>1. Goto(j, "done") /\ TypeOK
      BY DEF Rename, EvidenceInv
    <3>2. "done" \in Phase
      BY DEF Phase
    <3> QED
      BY <3>1, <3>2, GotoTyped
  <2>4. temps' \in SUBSET Temp
    BY <1>5, DropTempMine
  <2> QED
    BY <1>5, <2>1, <2>2, <2>3, <2>4, ZenonT(30) DEF EvidenceInv, TypeOK, Phase
<1>7. OnlyEvidence'
  <2>1. \A e \in disk'[k] : e.verdict = "definitive"
                           /\ e.from = [snapshot |-> k, outside |-> NoOutside]
    BY <1>2, <1>3, <1>d
  <2> QED
    BY <1>d, <2>1 DEF EvidenceInv, OnlyEvidence, Readable
<1>8. InterruptedIsNotEvidence'
  BY <1>3, <1>d DEF EvidenceInv, InterruptedIsNotEvidence
<1>9. WriterInv'
  BY <1>5, WriterStep DEF Rename
<1>10. TempInv' /\ OnlyCrashLeavesTemps'
  BY <1>5, DropTempMine, TempStep DEF Rename
<1> QED
  BY <1>6, <1>7, <1>8, <1>9, <1>10 DEF EvidenceInv

(* A Put that fails removes its file (cache.go:98).                        *)
LEMMA PutFailsStep ==
    ASSUME EvidenceInv, NEW j \in Jobs, PutFails(j)
    PROVE  EvidenceInv'
<1> USE DEF EvidenceInv, PutFails, Goto
<1>1. TypeOK'
  BY DEF TypeOK, DropTemp
<1>2. OnlyEvidence' /\ InterruptedIsNotEvidence'
  BY DEF OnlyEvidence, InterruptedIsNotEvidence, Readable
<1>3. WriterInv'
  BY DEF TypeOK, WriterInv
<1>4. TempInv' /\ OnlyCrashLeavesTemps'
  BY DropTempMine, TempStep
<1> QED
  BY <1>1, <1>2, <1>3, <1>4

(* A process that is killed leaves what it created, and nothing claims to  *)
(* be finished.                                                            *)
LEMMA CrashStep ==
    ASSUME EvidenceInv, NEW j \in Jobs, Crash(j)
    PROVE  EvidenceInv'
<1> USE DEF EvidenceInv, Crash
<1>1. TypeOK'
  BY DEF TypeOK, Goto
<1>2. OnlyEvidence' /\ InterruptedIsNotEvidence'
  BY DEF OnlyEvidence, InterruptedIsNotEvidence, Readable
<1>3. WriterInv'
  BY DEF TypeOK, WriterInv, Goto
<1>4. TempInv' /\ OnlyCrashLeavesTemps'
  BY NoTempStep
<1> QED
  BY <1>1, <1>2, <1>3, <1>4

(* An entry that is written back is the same entry.                        *)
LEMMA SyncStep ==
    ASSUME EvidenceInv, NEW k \in Snapshots, Sync(k)
    PROVE  EvidenceInv'
<1> USE DEF EvidenceInv, Sync, job
<1>1. \A h \in Snapshots : \A e \in disk'[h] :
         e \in Entry /\ \E f \in disk[h] : /\ e.schema = f.schema
                                         /\ e.verdict = f.verdict
                                         /\ e.from = f.from
                                         /\ e.cut = f.cut
  <2> SUFFICES ASSUME NEW h \in Snapshots, NEW e \in disk'[h]
               PROVE  e \in Entry /\ \E f \in disk[h] : /\ e.schema = f.schema
                                                     /\ e.verdict = f.verdict
                                                     /\ e.from = f.from
                                                     /\ e.cut = f.cut
    OBVIOUS
  <2>1. CASE h = k
    <3>0. disk'[k] = {[g EXCEPT !.synced = TRUE] : g \in disk[k]}
      BY DEF TypeOK
    <3>1. PICK f \in disk[k] : e = [f EXCEPT !.synced = TRUE]
      BY <2>1, <3>0, Zenon
    <3>2. f \in Entry
      BY DEF TypeOK
    <3>3. e \in Entry
      <4>1. TRUE \in BOOLEAN
        BY Zenon
      <4> QED
        BY <3>1, <3>2, <4>1 DEF Entry
    <3> QED
      BY <2>1, <3>1, <3>2, <3>3 DEF Entry
  <2>2. CASE h # k
    BY <2>2 DEF TypeOK
  <2> QED
    BY <2>1, <2>2
<1>2. ASSUME NEW h \in Snapshots, NEW e \in disk'[h], NEW f \in disk'[h]
      PROVE  e = f
  <2>1. CASE h = k
    <3>1. disk'[k] = {[g EXCEPT !.synced = TRUE] : g \in disk[k]}
      BY DEF TypeOK
    <3>2. \A g1, g2 \in disk[k] : g1 = g2
      BY DEF TypeOK
    <3>3. PICK g1 \in disk[k] : e = [g1 EXCEPT !.synced = TRUE]
      BY <2>1, <3>1
    <3>4. PICK g2 \in disk[k] : f = [g2 EXCEPT !.synced = TRUE]
      BY <2>1, <3>1
    <3> QED
      BY <3>2, <3>3, <3>4
  <2>2. CASE h # k
    BY <2>2 DEF TypeOK
  <2> QED
    BY <2>1, <2>2
<1>3. TypeOK'
  BY <1>1, <1>2 DEF TypeOK
<1>4. OnlyEvidence' /\ InterruptedIsNotEvidence'
  BY <1>1 DEF OnlyEvidence, InterruptedIsNotEvidence, Readable
<1>5. /\ OnlyCrashLeavesTemps' /\ WriterInv' /\ TempInv'
  BY DEF OnlyCrashLeavesTemps, WriterInv, TempInv, Mine, At
<1> QED
  BY <1>3, <1>4, <1>5

(* A power failure tears entries or leaves them as they are.               *)
LEMMA PowerLossStep ==
    ASSUME EvidenceInv, PowerLoss
    PROVE  EvidenceInv'
<1> USE DEF EvidenceInv, PowerLoss
<1>1. PICK torn \in SUBSET Snapshots :
         disk' = [k \in Snapshots |->
                    {[e EXCEPT !.schema = IF k \in torn THEN "torn" ELSE @,
                               !.synced = TRUE] : e \in disk[k]}]
  OBVIOUS
<1>2. \A k \in Snapshots : \A e \in disk'[k] :
         e \in Entry /\ \E f \in disk[k] : /\ e.schema \in {"torn", f.schema}
                                         /\ e.verdict = f.verdict
                                         /\ e.from = f.from
                                         /\ e.cut = f.cut
  <2> SUFFICES ASSUME NEW k \in Snapshots, NEW e \in disk'[k]
               PROVE  e \in Entry /\ \E f \in disk[k] : /\ e.schema \in {"torn", f.schema}
                                                     /\ e.verdict = f.verdict
                                                     /\ e.from = f.from
                                                     /\ e.cut = f.cut
    OBVIOUS
  <2>1. PICK f \in disk[k] :
           e = [f EXCEPT !.schema = IF k \in torn THEN "torn" ELSE @,
                         !.synced = TRUE]
    BY <1>1
  <2>2. f \in Entry
    BY DEF TypeOK
  <2>3. e \in Entry
    <3>1. TRUE \in BOOLEAN
      BY Zenon
    <3> QED
      BY <2>1, <2>2, <3>1 DEF Entry
  <2> QED
    BY <2>1, <2>2, <2>3 DEF Entry
<1>3. ASSUME NEW k \in Snapshots, NEW e \in disk'[k], NEW f \in disk'[k]
      PROVE  e = f
  <2>1. PICK g \in disk[k] :
           e = [g EXCEPT !.schema = IF k \in torn THEN "torn" ELSE @,
                         !.synced = TRUE]
    BY <1>1
  <2>2. PICK h \in disk[k] :
           f = [h EXCEPT !.schema = IF k \in torn THEN "torn" ELSE @,
                         !.synced = TRUE]
    BY <1>1
  <2>3. g = h
    BY DEF TypeOK
  <2> QED
    BY <2>1, <2>2, <2>3
<1>4. \A j \in Jobs : pc'[j] = IF Active(j) THEN "crashed" ELSE pc[j]
  OBVIOUS
<1>5. TypeOK'
  BY <1>1, <1>2, <1>3 DEF TypeOK
<1>6. OnlyEvidence' /\ InterruptedIsNotEvidence'
  <2>1. ASSUME NEW k \in Snapshots, NEW e \in disk'[k]
        PROVE  ~e.cut
    <3>1. PICK f \in disk[k] : e.cut = f.cut
      BY <1>2
    <3>2. ~f.cut
      BY DEF InterruptedIsNotEvidence
    <3> QED
      BY <3>1, <3>2, Zenon
  <2>2. ASSUME NEW k \in Snapshots, NEW e \in disk'[k], Readable(e)
        PROVE  /\ e.verdict = "definitive"
               /\ e.from = [snapshot |-> k, outside |-> NoOutside]
    <3>1. PICK f \in disk[k] : /\ e.schema \in {"torn", f.schema}
                              /\ e.verdict = f.verdict
                              /\ e.from = f.from
      BY <1>2
    <3>2. Readable(f)
      BY <2>2, <3>1 DEF Readable
    <3> QED
      BY <3>1, <3>2 DEF OnlyEvidence
  <2> QED
    BY <2>1, <2>2 DEF OnlyEvidence, InterruptedIsNotEvidence
<1>7. OnlyCrashLeavesTemps'
  BY <1>4, TempType DEF OnlyCrashLeavesTemps, At
<1>8. WriterInv'
  BY <1>4 DEF WriterInv
<1>9. TempInv'
  BY <1>4 DEF TempInv, Mine
<1> QED
  BY <1>5, <1>6, <1>7, <1>8, <1>9

-----------------------------------------------------------------------------
(* Whatever the writers, the readers, crashes and older releases do, every *)
(* entry that a later run would accept is evidence, computed from the      *)
(* inputs of its key by a run that was not cut short, and only a crash     *)
(* leaves temporary files (cache.go:53-115).                               *)
THEOREM EvidenceInvariance == Spec => []EvidenceInv
<1>1. EvidenceInv /\ [Next]_vars => EvidenceInv'
  <2> SUFFICES ASSUME EvidenceInv, [Next]_vars
               PROVE  EvidenceInv'
    OBVIOUS
  <2>1. CASE \E j \in Jobs : Step(j)
    BY <2>1, BeginStep, EndContextStep, GetStep, ExecuteStep, CreateTempStep,
       WriteTempStep, RecheckStep, RenameStep, PutFailsStep, CrashStep DEF Step
  <2>2. CASE \E k \in Snapshots : Sync(k)
    BY <2>2, SyncStep
  <2>3. CASE PowerLoss
    BY <2>3, PowerLossStep
  <2>4. CASE UNCHANGED vars
    BY <2>4 DEF vars, job, EvidenceInv, TypeOK, OnlyEvidence,
       InterruptedIsNotEvidence, OnlyCrashLeavesTemps, WriterInv, TempInv,
       Mine, At
  <2> QED
    BY <2>1, <2>2, <2>3, <2>4 DEF Next, Terminated
<1> QED
  BY <1>1, CacheInit, PTL DEF Spec

(* A hit has the verdict of the inputs of the very execution that takes    *)
(* it: between the lookup and the end of the run neither the entry taken   *)
(* nor the inputs change (analysis.go:746).                                *)
THEOREM HitIsFreshHolds == Spec => []HitIsFresh
<1>1. EvidenceInv /\ HitIsFresh /\ [Next]_vars => HitIsFresh'
  <2> SUFFICES ASSUME EvidenceInv, HitIsFresh, [Next]_vars
               PROVE  HitIsFresh'
    OBVIOUS
  <2>1. ASSUME NEW j \in Jobs, Begin(j)
        PROVE  HitIsFresh'
    <3>1. hit \in [Jobs -> SUBSET Hit] /\ inputs \in [Jobs -> Inputs]
      BY CallsAreTyped DEF EvidenceInv, TypeOK
    <3>2. PICK new \in Inputs : inputs' = [inputs EXCEPT ![j] = new]
      BY <2>1 DEF Begin
    <3>3. hit' = [hit EXCEPT ![j] = {}]
      BY <2>1 DEF Begin
    <3>4. hit'[j] = {}
      BY <3>1, <3>3
    <3>5. \A i \in Jobs : i # j => hit'[i] = hit[i] /\ inputs'[i] = inputs[i]
      BY <3>1, <3>2, <3>3
    <3> QED
      BY <3>4, <3>5 DEF HitIsFresh
  <2>2. ASSUME NEW j \in Jobs, Get(j)
        PROVE  HitIsFresh'
    BY <2>2, FoundType DEF EvidenceInv, TypeOK, Get, HitIsFresh
  <2>3. CASE UNCHANGED <<hit, inputs>>
    BY <2>3 DEF HitIsFresh
  <2> QED
    BY <2>1, <2>2, <2>3 DEF Next, Step, EndContext, Execute, ExecuteFails, Put,
       CreateTemp, WriteTemp, Recheck, Rename, PutFails, Crash, Sync,
       PowerLoss, Terminated, vars, job
<1> QED
  BY <1>1, CacheInit, EvidenceInvariance, PTL DEF Spec

(* Renaming changes the entry of one key: to a whole one, that no other    *)
(* job's inputs but this one's made it (cache.go:114).                     *)
LEMMA RenameKeeps ==
    ASSUME EvidenceInv, NEW j \in Jobs, Rename(j), NEW k \in Snapshots
    PROVE  \/ Missed(j, k) /\ Available(k)'
           \/ disk'[k] = disk[k]
<1>1. CASE k = Key(inputs[j])
  <2> DEFINE new == [schema |-> "v2", verdict |-> result[j],
                     from |-> inputs[j], synced |-> FALSE,
                     cut |-> ctx[j] = "ended"]
  <2>1. result[j] = "definitive" /\ inputs[j].outside = NoOutside
    BY DEF EvidenceInv, WriterInv, Rename, At
  <2>2. \E t \in Mine(j) : t.written
    BY DEF EvidenceInv, TempInv, Rename, At
  <2>3. disk' = [disk EXCEPT ![k] = {new}]
    BY <1>1, <2>2 DEF Rename
  <2>4. Readable(new)
    BY <2>1 DEF Readable, Cacheable
  <2> HIDE DEF new
  <2>5. disk'[k] = {new}
    BY <2>3 DEF EvidenceInv, TypeOK
  <2>6. Available(k)'
    BY <2>4, <2>5 DEF Available, Readable
  <2>7. Missed(j, k)
    BY <1>1, <2>1 DEF Missed, Enabled, Rename, At
  <2> QED
    BY <2>6, <2>7
<1>2. CASE k # Key(inputs[j])
  BY <1>2 DEF Rename, EvidenceInv, TypeOK
<1> QED
  BY <1>1, <1>2

(* Writing back changes nothing but that it is written back.               *)
LEMMA SyncKeeps ==
    ASSUME EvidenceInv, NEW h \in Snapshots, Sync(h),
           NEW k \in Snapshots, NEW e \in disk[k], Readable(e)
    PROVE  \E f \in disk'[k] : Readable(f) /\ (e.synced => f.synced)
<1>1. CASE h = k
  <2> DEFINE new == [e EXCEPT !.synced = TRUE]
  <2>1. disk' = [disk EXCEPT ![h] = {[g EXCEPT !.synced = TRUE] : g \in @}]
    BY DEF Sync
  <2>2. disk'[k] = {[g EXCEPT !.synced = TRUE] : g \in disk[k]}
    BY <1>1, <2>1 DEF EvidenceInv, TypeOK
  <2>3. e \in Entry
    BY DEF EvidenceInv, TypeOK
  <2>4. new.schema = e.schema /\ new.verdict = e.verdict /\ new.synced
    BY <2>3 DEF Entry
  <2>5. new \in disk'[k]
    BY <2>2
  <2> HIDE DEF new
  <2> QED
    BY <2>4, <2>5 DEF Readable
<1>2. CASE h # k
  BY <1>2 DEF Sync, EvidenceInv, TypeOK
<1> QED
  BY <1>1, <1>2

(* A power failure leaves what was written back as it is.                  *)
LEMMA PowerLossKeeps ==
    ASSUME EvidenceInv, PowerLoss,
           NEW k \in Snapshots, NEW e \in disk[k], Readable(e), e.synced
    PROVE  \E f \in disk'[k] : Readable(f) /\ f.synced
<1>1. PICK torn \in SUBSET {h \in Snapshots : \E f \in disk[h] : ~f.synced} :
         disk' = [h \in Snapshots |->
                    {[f EXCEPT !.schema = IF h \in torn THEN "torn" ELSE @,
                               !.synced = TRUE] : f \in disk[h]}]
  BY DEF PowerLoss
<1> DEFINE new == [e EXCEPT !.schema = IF k \in torn THEN "torn" ELSE @,
                            !.synced = TRUE]
<1>2. k \notin torn
  <2>1. \A f \in disk[k] : f = e
    BY DEF EvidenceInv, TypeOK
  <2> QED
    BY <2>1
<1>3. new \in disk'[k]
  BY <1>1
<1>4. e \in Entry
  BY DEF EvidenceInv, TypeOK
<1>5. new.schema = e.schema /\ new.verdict = e.verdict /\ new.synced
  BY <1>2, <1>4 DEF Entry
<1> HIDE DEF new
<1> QED
  BY <1>3, <1>5 DEF Readable

(* Nothing else writes to the directory's entries.                         *)
LEMMA OnlyRenameWrites ==
    ASSUME NEW j \in Jobs, Step(j), ~Rename(j)
    PROVE  UNCHANGED disk
BY DEF Step, Begin, EndContext, Get, Execute, ExecuteFails, Put, CreateTemp,
   WriteTemp, Recheck, PutFails, Crash

(* While an entry is there that can be read, no job comes to miss it: the  *)
(* lookup of a run that may write finds it (cache.go:53-66).               *)
LEMMA NobodyMisses ==
    ASSUME EvidenceInv, NEW j \in Jobs, Step(j), NEW k \in Snapshots,
           Available(k), ~Missed(j, k)
    PROVE  \A i \in Jobs : Missed(i, k)' => Missed(i, k)
<1> SUFFICES ASSUME NEW i \in Jobs, Missed(i, k)'
             PROVE  Missed(i, k)
  OBVIOUS
<1>1. pc \in [Jobs -> Phase] /\ inputs \in [Jobs -> Inputs]
  BY DEF EvidenceInv, TypeOK, Phase
<1>2. CASE Begin(j)
  <2>1. PICK new \in Inputs : inputs' = [inputs EXCEPT ![j] = new]
    BY <1>2 DEF Begin
  <2>2. pc' = [pc EXCEPT ![j] = "get"]
    BY <1>2 DEF Begin, Goto
  <2>3. i # j
    BY <1>1, <2>2 DEF Missed
  <2>4. inputs'[i] = inputs[i] /\ pc'[i] = pc[i]
    BY <1>1, <2>1, <2>2, <2>3
  <2> QED
    BY <2>4 DEF Missed, Key, Enabled
<1>3. CASE ~Begin(j)
  <2>1. UNCHANGED inputs
    BY <1>3 DEF Step, EndContext, Get, Execute, ExecuteFails, Put, CreateTemp,
       WriteTemp, Recheck, Rename, PutFails, Crash
  <2>2. Key(inputs[i]) = k /\ Enabled(inputs[i])
    BY <2>1 DEF Missed, Key, Enabled
  <2>3. \A p : Goto(j, p) /\ i # j => pc'[i] = pc[i]
    BY <1>1 DEF Goto
  <2>4. \A p : Goto(j, p) => pc'[j] = p
    BY <1>1 DEF Goto
  <2>5. CASE i # j
    <3>1. pc'[i] = pc[i]
      BY <1>3, <2>3, <2>5 DEF Step, EndContext, Get, Execute, ExecuteFails, Put,
         CreateTemp, WriteTemp, Recheck, Rename, PutFails, Crash
    <3> QED
      BY <2>2, <3>1 DEF Missed
  <2>6. CASE i = j
    <3>1. pc[j] \notin {"exec", "put", "create", "write", "recheck", "rename"}
      BY <2>2, <2>6 DEF Missed
    <3>2. pc'[j] \in {"exec", "put", "create", "write", "recheck", "rename"}
      BY <2>6 DEF Missed
    <3>3. pc'[j] # pc[j] /\ pc'[j] # "crashed"
      BY <3>1, <3>2
    <3>4. Get(j)
      <4>1. ~EndContext(j)
        BY <3>3 DEF EndContext
      <4>2. ~Crash(j)
        BY <2>4, <3>3 DEF Crash
      <4> QED
        BY <1>3, <3>1, <4>1, <4>2 DEF Step, Execute, ExecuteFails, Put,
           CreateTemp, WriteTemp, Recheck, Rename, PutFails, At
    <3>5. Found(j) # {}
      BY <2>2, <2>6 DEF Found, Available
    <3>6. pc'[j] = "done"
      BY <2>4, <3>4, <3>5 DEF Get
    <3> QED
      BY <3>2, <3>6
  <2> QED
    BY <2>5, <2>6
<1> QED
  BY <1>2, <1>3

(* A settled entry stays settled.                                          *)
LEMMA SettledStep ==
    ASSUME EvidenceInv, [Next]_vars, NEW k \in Snapshots, Settled(k)
    PROVE  Settled(k)'
<1>1. PICK e \in disk[k] : Readable(e) /\ e.synced
  BY DEF Settled
<1>2. Available(k) /\ \A j \in Jobs : ~Missed(j, k)
  BY <1>1 DEF Available, Settled
<1>3. ASSUME NEW j \in Jobs, Step(j)
      PROVE  Settled(k)'
  <2>1. \A i \in Jobs : ~Missed(i, k)'
    BY <1>2, <1>3, NobodyMisses
  <2>2. disk'[k] = disk[k]
    BY <1>2, <1>3, RenameKeeps, OnlyRenameWrites
  <2>3. e \in disk'[k]
    BY <2>2
  <2> QED
    BY <1>1, <2>1, <2>3 DEF Settled, Readable
<1>4. ASSUME NEW h \in Snapshots, Sync(h)
      PROVE  Settled(k)'
  <2>1. \E f \in disk'[k] : Readable(f) /\ f.synced
    BY <1>1, <1>4, SyncKeeps
  <2>2. UNCHANGED <<pc, inputs>>
    BY <1>4 DEF Sync, job
  <2> QED
    BY <1>2, <2>1, <2>2 DEF Settled, Readable, Missed
<1>5. CASE PowerLoss
  <2>1. \E f \in disk'[k] : Readable(f) /\ f.synced
    BY <1>1, <1>5, PowerLossKeeps
  <2>2. \A j \in Jobs : pc'[j] = "crashed" \/ pc'[j] = pc[j]
    BY <1>5 DEF PowerLoss
  <2>3. UNCHANGED inputs
    BY <1>5 DEF PowerLoss
  <2>4. \A j \in Jobs : Missed(j, k)' => Missed(j, k)
    BY <2>2, <2>3 DEF Missed
  <2> QED
    BY <1>2, <2>1, <2>4 DEF Settled, Readable
<1>6. CASE UNCHANGED vars
  BY <1>6 DEF vars, job, Settled, Missed, Readable
<1> QED
  BY <1>3, <1>4, <1>5, <1>6 DEF Next, Terminated

(* No step but a power failure leaves a key without an entry: the rename   *)
(* needs a temporary file of the call's own that is complete.              *)
LEMMA AvailableStep ==
    ASSUME EvidenceInv, [Next]_vars, NEW k \in Snapshots, Available(k), ~PowerLoss
    PROVE  Available(k)'
<1>1. CASE UNCHANGED disk
  BY <1>1 DEF Available, Readable
<1>2. ASSUME NEW j \in Jobs, Step(j)
      PROVE  Available(k)'
  <2>1. CASE Rename(j)
    BY <2>1, RenameKeeps DEF Available, Readable
  <2>2. CASE ~Rename(j)
    BY <1>1, <1>2, <2>2, OnlyRenameWrites
  <2> QED
    BY <2>1, <2>2
<1>3. ASSUME NEW h \in Snapshots, Sync(h)
      PROVE  Available(k)'
  <2>1. PICK e \in disk[k] : Readable(e)
    BY DEF Available
  <2>2. \E f \in disk'[k] : Readable(f)
    BY <1>3, <2>1, SyncKeeps
  <2> QED
    BY <2>2 DEF Available, Readable
<1> QED
  BY <1>1, <1>2, <1>3 DEF Next, Terminated, vars

(* An entry that was written back and that no writer has missed stays so:  *)
(* nothing that can replace it is on its way or sets out, and no failure,  *)
(* kill or loss of power tears it.  Any other is lost to a loss of power   *)
(* alone (cache.go:53-115, analysis.go:746-771).                           *)
THEOREM EntryIsKeptHolds == Spec => EntryIsKept
<1> DEFINE Kept == \A k \in Snapshots :
                      /\ Settled(k) => Settled(k)'
                      /\ Available(k) => Available(k)' \/ PowerLoss
<1>1. EvidenceInv /\ [Next]_vars => [Kept]_vars
  BY SettledStep, AvailableStep
<1> QED
  BY <1>1, EvidenceInvariance, PTL DEF Spec, EntryIsKept

(* The entry of a key that is settled at any moment is found by every later*)
(* run of its inputs (cache.go:53-66).                                     *)
THEOREM SettledIsKeptHolds == Spec => SettledIsKept
<1> SUFFICES ASSUME NEW k \in Snapshots
             PROVE  Spec => [](Settled(k) => []Available(k))
  BY DEF SettledIsKept
<1>1. EvidenceInv /\ [Next]_vars /\ Settled(k) => Settled(k)'
  BY SettledStep
<1>2. Settled(k) => Available(k)
  BY DEF Settled, Available
<1> QED
  BY <1>1, <1>2, EvidenceInvariance, PTL DEF Spec

-----------------------------------------------------------------------------
(* Test selection.                                                         *)

(* The profile of a test that notices the mutant knows the mutated file,   *)
(* and says that it was reached (coverage.go:180-195).                     *)
LEMMA ProfileTells ==
    ASSUME NEW m \in Modules, NEW t \in m.tests, t.notices, ProfilesTell(m),
           Covered(Profile(m, t), m.mutated.file).known
    PROVE  Covered(Profile(m, t), m.mutated.file).yes
<1> DEFINE key == m.mutated.key
           p == Profile(m, t)
           linked == {g \in m.files : g.blocks /\ g.pkg \in Linked(m, t.pkg)}
           keys == {f.key : f \in linked}
           owners == Owners(p, m.mutated.file)
<1>1. DOMAIN p = keys /\ \A k \in keys : p[k] = (k \in t.reaches)
  BY DEF Profile
<1>2. key \in keys /\ key \in t.reaches
  <2>1. PICK f \in m.files : f.key = key /\ f.blocks
    BY DEF ProfilesTell
  <2>2. f.pkg \in Linked(m, t.pkg)
    BY <2>1, SelectionAssumption
  <2> QED
    BY <2>1, <2>2 DEF ProfilesTell
<1>3. key \in owners
  BY <1>1, <1>2, SelectionAssumption DEF Owners
<1>4. IsFiniteSet(owners)
  <2>1. IsFiniteSet(linked)
    BY SelectionAssumption, FS_Subset
  <2>2. IsFiniteSet(keys)
    <3> DEFINE g == [f \in linked |-> f.key]
    <3> HIDE DEF linked
    <3>1. g \in Surjection(linked, keys)
      BY DEF Surjection
    <3> QED
      BY <2>1, <3>1, FS_Surjection
  <2>3. owners \subseteq keys
    BY <1>1 DEF Owners
  <2> HIDE DEF owners, keys
  <2> QED
    BY <2>2, <2>3, FS_Subset
<1>5. Cardinality(owners) = 1
  BY DEF Covered
<1>6. owners = {key}
  <2> HIDE DEF owners
  <2>1. PICK x : owners = {x}
    BY <1>4, <1>5, FS_Singleton
  <2> QED
    BY <1>3, <2>1
<1>7. \A k \in owners : p[k]
  BY <1>1, <1>2, <1>6, Zenon
<1> QED
  BY <1>5, <1>7 DEF Covered

(* A test that notices the mutant is among the tests it is run with, when  *)
(* profiles are there for all tests or for none.                           *)
LEMMA SelectedNotices ==
    ASSUME NEW m \in Modules, NEW narrow, NEW select, NEW profiles,
           NEW t \in m.tests, t.notices, t.pkg \in Patterns(m),
           ScopesTell(m), select => ProfilesTell(m),
           profiles # {} => \A u \in Profilable(m) : Profiled(m, u) \in profiles
    PROVE  /\ t.pkg \in mutantTestScope(m, narrow)
           /\ t.name \in mutantTestRun(m, profiles, select)
<1> DEFINE possible == TestScopes(m, m.mutated.pkg)
           found == CoveringTests(profiles, m.mutated.file, possible)
           mine == {r \in profiles : r.pkg \in possible}
<1>1. t.pkg \in possible
  <2>1. m.mutated.pkg \in Linked(m, t.pkg)
    BY SelectionAssumption
  <2>2. m.mutated.pkg \in PlainDeps(m, t.pkg)
    BY <2>1 DEF ScopesTell
  <2>3. HasTests(m, t.pkg)
    BY DEF HasTests
  <2> QED
    BY <2>2, <2>3 DEF TestScopes, Patterns
<1>2. t.pkg \in mutantTestScope(m, narrow)
  BY <1>1 DEF mutantTestScope
<1>3. CASE ~select \/ ~Narrows(found)
  BY <1>2, <1>3 DEF mutantTestRun
<1>4. CASE select /\ Narrows(found) /\ t.kind # "Test"
  <2>1. t.name \in AlwaysRun(m, possible)
    BY <1>1, <1>4 DEF AlwaysRun
  <2> QED
    BY <1>2, <1>4, <2>1 DEF mutantTestRun
<1>5. CASE select /\ Narrows(found) /\ t.kind = "Test"
  <2> DEFINE r == Profiled(m, t)
  <2>1. /\ profiles # {}
        /\ \A s \in mine : Covered(s.profile, m.mutated.file).known
        /\ found.names = {s.name : s \in {u \in mine : Covered(u.profile, m.mutated.file).yes}}
    BY <1>5 DEF Narrows, CoveringTests
  <2>2. r \in mine
    BY <1>1, <1>5, <2>1 DEF Profilable, Profiled
  <2>3. r.profile = Profile(m, t) /\ r.name = t.name
    BY DEF Profiled
  <2>4. Covered(r.profile, m.mutated.file).yes
    BY <1>5, <2>1, <2>2, <2>3, ProfileTells
  <2>5. t.name \in found.names
    BY <2>1, <2>2, <2>3, <2>4
  <2> QED
    BY <1>2, <1>5, <2>5 DEF mutantTestRun
<1> QED
  BY <1>3, <1>4, <1>5

(* At first nothing is profiled.                                           *)
LEMMA SelectionInit == SelectInit => SelectionInv
BY DEF SelectInit, SelectionInv

(* A step profiles one test, gives all profiles up, or judges the mutant.  *)
LEMMA SelectionStep == SelectionInv /\ [SelectNext]_selection => SelectionInv'
<1> SUFFICES ASSUME SelectionInv, [SelectNext]_selection
             PROVE  SelectionInv'
  OBVIOUS
<1>1. CASE ProfileTest
  <2>1. PICK t \in unprofiled : /\ unprofiled' = unprofiled \ {t}
                                /\ per' = per \cup {Profiled(setting.m, t)}
    BY <1>1 DEF ProfileTest
  <2>2. setting' = setting /\ verdict' = verdict
    BY <1>1 DEF ProfileTest
  <2>3. per' # {} /\ unprofiled # {} /\ t \in Profilable(setting.m)
    BY <2>1 DEF SelectionInv
  <2>4. \A u \in Profilable(setting.m) \ unprofiled' : Profiled(setting.m, u) \in per'
    <3>1. CASE per = {}
      <4>1. unprofiled = Profilable(setting.m)
        BY <2>3, <3>1 DEF SelectionInv
      <4> QED
        BY <2>1, <4>1
    <3>2. CASE per # {}
      BY <2>1, <3>2 DEF SelectionInv
    <3> QED
      BY <3>1, <3>2
  <2>5. \A r \in per' : \E u \in Profilable(setting.m) : r = Profiled(setting.m, u)
    BY <2>1, <2>3 DEF SelectionInv
  <2>6. verdict # "survived"
    BY <2>3 DEF SelectionInv
  <2> QED
    BY <2>1, <2>2, <2>3, <2>4, <2>5, <2>6 DEF SelectionInv
<1>2. CASE ProfileFails
  <2>1. /\ unprofiled # {} /\ unprofiled' = {} /\ per' = {}
        /\ setting' = setting /\ verdict' = verdict
    BY <1>2 DEF ProfileFails
  <2>2. verdict # "survived"
    BY <2>1 DEF SelectionInv
  <2> QED
    BY <2>1, <2>2 DEF SelectionInv
<1>3. CASE RunMutant
  <2>1. UNCHANGED <<setting, per, unprofiled>> /\ unprofiled = {}
    BY <1>3 DEF RunMutant
  <2>2. verdict' = "survived" =>
          ~Killed(setting.m, mutantTestScope(setting.m, setting.narrow),
                  mutantTestRun(setting.m, per, setting.select))
    BY <1>3 DEF RunMutant
  <2> QED
    BY <2>1, <2>2 DEF SelectionInv
<1>4. CASE UNCHANGED selection
  BY <1>4 DEF SelectionInv, selection
<1> QED
  BY <1>1, <1>2, <1>3, <1>4 DEF SelectNext

(* Until the mutant is run either profiling goes on or all profiles are    *)
(* there, or one failed and none is (analysis.go:583-612).                 *)
THEOREM SelectionInvariance == SelectSpec => []SelectionInv
<1> QED  BY SelectionInit, SelectionStep, PTL DEF SelectSpec

(* Narrowing loses no kill, for every module, both options, whatever test  *)
(* fails alone and in whatever order tests are profiled                    *)
(* (analysis.go:216-289, 532-551; pertest.go:64-71).                       *)
THEOREM NarrowingKeepsVerdictHolds == SelectSpec => []NarrowingKeepsVerdict
<1>1. SelectionInv => NarrowingKeepsVerdict
  <2> DEFINE m == setting.m
  <2> SUFFICES ASSUME SelectionInv, verdict = "survived", ScopesTell(m),
                      setting.select => ProfilesTell(m), KilledByAll(m)
               PROVE  FALSE
    BY DEF NarrowingKeepsVerdict
  <2>1. PICK t \in m.tests : t.pkg \in Patterns(m) /\ t.notices
    BY DEF KilledByAll, Killed
  <2>2. m \in Modules /\ unprofiled = {}
    BY DEF SelectionInv
  <2>3. per # {} => \A u \in Profilable(m) : Profiled(m, u) \in per
    BY <2>2 DEF SelectionInv
  <2> HIDE DEF m
  <2>4. /\ t.pkg \in mutantTestScope(m, setting.narrow)
        /\ t.name \in mutantTestRun(m, per, setting.select)
    BY <2>1, <2>2, <2>3, SelectedNotices
  <2>5. Killed(m, mutantTestScope(m, setting.narrow), mutantTestRun(m, per, setting.select))
    BY <2>1, <2>4 DEF Killed
  <2> QED
    BY <2>5 DEF SelectionInv, m
<1> QED  BY <1>1, SelectionInvariance, PTL
=============================================================================
