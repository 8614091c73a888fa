---------------------------- MODULE ResultCache ----------------------------
(***************************************************************************)
(* The result cache on disk, shared by mutants that are executed at the    *)
(* same time, in one process or in several: Store.Get and Store.PutContext *)
(* in internal/cache/cache.go, and the way runOneMutant in                 *)
(* internal/analysis/analysis.go uses them.                                *)
(*                                                                         *)
(* What a verdict depends on is reduced to two inputs: the snapshot, which *)
(* stands for everything in the cache key (sources, toolchain, effective   *)
(* environment, timeout, scope, mutation), and what is outside of it,      *)
(* which the key cannot see (local replacements, -modfile and -overlay     *)
(* files).  An entry remembers, as history, the inputs it was computed     *)
(* from and whether its writer's context had ended before it was complete. *)
(* Nothing is synced to disk, so a power failure may tear what was         *)
(* written; a process may also be killed at any step.                      *)
(***************************************************************************)
EXTENDS Naturals, FiniteSets

CONSTANTS
    Jobs,         \* executions of a mutant that may overlap
    Snapshots,    \* values of what the key covers
    Outside,      \* values of what it does not cover
    NoOutside,    \* there is nothing outside
    MaxRounds     \* bound: executions each job starts

ASSUME CacheAssumption ==
    /\ IsFiniteSet(Jobs)
    /\ Snapshots # {}
    /\ NoOutside \in Outside
    /\ MaxRounds \in Nat

Inputs == [snapshot : Snapshots, outside : Outside]

Key(i) == i.snapshot

(* A seeded fault: inputs the key cannot see are not looked for.           *)
Enabled_Always(i) == TRUE

(* config.Cache && cacheSafe *)
Enabled(i) == i.outside = NoOutside

Verdict == {"definitive", "transient"}

Entry == [schema : {"v1", "v2", "torn"}, verdict : Verdict, from : Inputs,
          synced : BOOLEAN, cut : BOOLEAN]

VARIABLES
    disk,      \* the entries, a set per key with at most one element
    temps,     \* temporary files: who created them, and what is in them
    rounds,    \* executions started, per job
    inputs,    \* the inputs of each job's execution
    ctx,       \* its context: live, ended, or ended after the last look at it
    pc,        \* where it is
    result,    \* what it obtained
    hit        \* the entry it took its result from, a set of at most one

job == <<inputs, ctx, pc, result, hit, rounds>>
vars == <<disk, temps, job>>

Temp == [job : Jobs, round : 0..MaxRounds, written : BOOLEAN]

TypeOK ==
    /\ disk \in [Snapshots -> SUBSET Entry]
    /\ \A k \in Snapshots : \A e, f \in disk[k] : e = f
    /\ temps \in SUBSET Temp
    /\ rounds \in [Jobs -> 0..MaxRounds]
    /\ inputs \in [Jobs -> Inputs]
    /\ ctx \in [Jobs -> {"live", "ended", "ended late"}]
    /\ pc \in [Jobs -> {"idle", "get", "exec", "put", "create", "write",
                        "recheck", "rename", "done", "crashed"}]
    /\ result \in [Jobs -> {"none"} \cup Verdict]
    /\ hit \in [Jobs -> SUBSET [schema : {"v2"}, verdict : {"definitive"},
                                from : Inputs, synced : BOOLEAN,
                                cut : BOOLEAN]]

(* Where nothing is known yet. *)
SomeInputs == [snapshot |-> CHOOSE k \in Snapshots : TRUE,
               outside |-> NoOutside]

(* Entries of another release may be there, with any verdict.              *)
Init ==
    /\ disk \in [Snapshots -> {{}} \cup
           {{[schema |-> "v1", verdict |-> v, from |-> SomeInputs,
              synced |-> TRUE, cut |-> FALSE]} : v \in Verdict}]
    /\ temps = {}
    /\ rounds = [j \in Jobs |-> 0]
    /\ inputs = [j \in Jobs |-> SomeInputs]
    /\ ctx = [j \in Jobs |-> "live"]
    /\ pc = [j \in Jobs |-> "idle"]
    /\ result = [j \in Jobs |-> "none"]
    /\ hit = [j \in Jobs |-> {}]

-----------------------------------------------------------------------------
At(j, p) == pc[j] = p

Goto(j, p) == pc' = [pc EXCEPT ![j] = p]

Mine(j) == {t \in temps : t.job = j /\ t.round = rounds[j]}

Active(j) == pc[j] \notin {"idle", "done", "crashed"}

(* A mutant is about to be executed; one that discovery proved equivalent  *)
(* never comes here.                                                       *)
Begin(j) ==
    /\ ~Active(j)
    /\ rounds[j] < MaxRounds
    /\ rounds' = [rounds EXCEPT ![j] = @ + 1]
    /\ \E i \in Inputs : inputs' = [inputs EXCEPT ![j] = i]
    /\ ctx' = [ctx EXCEPT ![j] = "live"]
    /\ result' = [result EXCEPT ![j] = "none"]
    /\ hit' = [hit EXCEPT ![j] = {}]
    /\ Goto(j, "get")
    /\ UNCHANGED <<disk, temps>>

Ended(j) == ctx[j] # "live"

(* The run is cancelled, or its deadline passes.                           *)
EndContext(j) ==
    /\ Active(j)
    /\ ~Ended(j)
    /\ ctx' = [ctx EXCEPT ![j] = IF At(j, "rename") THEN "ended late"
                                                   ELSE "ended"]
    /\ UNCHANGED <<disk, temps, inputs, pc, result, hit, rounds>>

-----------------------------------------------------------------------------
(* Seeded faults: what a plausible slip would make of a definition below.  *)

Recheck_Skipped(j) ==
    /\ At(j, "recheck")
    /\ Goto(j, "rename")
    /\ UNCHANGED <<disk, temps, inputs, ctx, result, hit, rounds>>

(* A verdict of inputs the key cannot see is written, though not looked    *)
(* for.                                                                    *)
MayPut_Untracked(j) == result[j] = "definitive" /\ ~Ended(j)

-----------------------------------------------------------------------------
Cacheable(v) == v = "definitive"

(* A torn file does not decode. *)
Readable(e) == e.schema = "v2" /\ Cacheable(e.verdict)

(* What Get returns. *)
Found(j) ==
    IF Enabled(inputs[j]) THEN {e \in disk[Key(inputs[j])] : Readable(e)}
                          ELSE {}

Get(j) ==
    /\ At(j, "get")
    /\ hit' = [hit EXCEPT ![j] = Found(j)]
    /\ IF Found(j) = {}
       THEN Goto(j, "exec") /\ UNCHANGED result
       ELSE /\ Goto(j, "done")
            /\ \E e \in Found(j) :
                  result' = [result EXCEPT ![j] = e.verdict]
    /\ UNCHANGED <<disk, temps, inputs, ctx, rounds>>

(* Backend.Run: a definitive verdict only if the context had not ended     *)
(* when the test process was judged.                                       *)
Execute(j) ==
    /\ At(j, "exec")
    /\ \E v \in Verdict :
          /\ v = "definitive" => ~Ended(j)
          /\ result' = [result EXCEPT ![j] = v]
    /\ Goto(j, "put")
    /\ UNCHANGED <<disk, temps, inputs, ctx, hit, rounds>>

(* The sandbox cannot be made, or the mutation not be applied: the mutant  *)
(* has no result, and nothing is cached.                                   *)
ExecuteFails(j) ==
    /\ At(j, "exec")
    /\ Goto(j, "done")
    /\ UNCHANGED <<disk, temps, inputs, ctx, result, hit, rounds>>

MayPut(j) == Enabled(inputs[j]) /\ Cacheable(result[j]) /\ ~Ended(j)

Put(j) ==
    /\ At(j, "put")
    /\ Goto(j, IF MayPut(j) THEN "create" ELSE "done")
    /\ UNCHANGED <<disk, temps, inputs, ctx, result, hit, rounds>>

CreateTemp(j) ==
    /\ At(j, "create")
    /\ temps' = temps \cup {[job |-> j, round |-> rounds[j],
                             written |-> FALSE]}
    /\ Goto(j, "write")
    /\ UNCHANGED <<disk, inputs, ctx, result, hit, rounds>>

WriteTemp(j) ==
    /\ At(j, "write")
    /\ temps' = (temps \ Mine(j)) \cup {[job |-> j, round |-> rounds[j],
                                         written |-> TRUE]}
    /\ Goto(j, "recheck")
    /\ UNCHANGED <<disk, inputs, ctx, result, hit, rounds>>

(* The deferred os.Remove. *)
DropTemp(j) == temps' = temps \ Mine(j)

(* The last look at the context before the rename. *)
Recheck(j) ==
    /\ At(j, "recheck")
    /\ IF Ended(j)
       THEN Goto(j, "done") /\ DropTemp(j)
       ELSE Goto(j, "rename") /\ UNCHANGED temps
    /\ UNCHANGED <<disk, inputs, ctx, result, hit, rounds>>

Rename(j) ==
    /\ At(j, "rename")
    /\ disk' = [disk EXCEPT ![Key(inputs[j])] =
           {[schema |-> IF \E t \in Mine(j) : t.written THEN "v2" ELSE "torn",
             verdict |-> result[j], from |-> inputs[j], synced |-> FALSE,
             cut |-> ctx[j] = "ended"]}]
    /\ temps' = temps \ Mine(j)
    /\ Goto(j, "done")
    /\ UNCHANGED <<inputs, ctx, result, hit, rounds>>

(* Making the directory or the file, writing, closing or renaming fails.   *)
(* The result stands, it is only not cached.                               *)
PutFails(j) ==
    /\ pc[j] \in {"create", "write", "rename"}
    /\ DropTemp(j)
    /\ Goto(j, "done")
    /\ UNCHANGED <<disk, inputs, ctx, result, hit, rounds>>

-----------------------------------------------------------------------------
(* The environment (external). *)

(* The process is killed; all it created stays.                            *)
Crash(j) ==
    /\ Active(j)
    /\ Goto(j, "crashed")
    /\ UNCHANGED <<disk, temps, inputs, ctx, result, hit, rounds>>

(* The operating system writes an entry back. *)
Sync(k) ==
    /\ \E e \in disk[k] : ~e.synced
    /\ disk' = [disk EXCEPT ![k] = {[e EXCEPT !.synced = TRUE] : e \in @}]
    /\ UNCHANGED <<temps, job>>

(* Everything stops, and an entry that was not written back may be torn:   *)
(* this stands for all that can be left of a rename that was not synced    *)
(* and is not a whole entry of the key; an older one in its place, whole,  *)
(* is the case that nothing is torn.                                       *)
PowerLoss ==
    /\ \E j \in Jobs : Active(j)
    /\ \E torn \in SUBSET {k \in Snapshots : \E e \in disk[k] : ~e.synced} :
          disk' = [k \in Snapshots |->
                     {[e EXCEPT !.schema = IF k \in torn THEN "torn" ELSE @,
                                !.synced = TRUE] : e \in disk[k]}]
    /\ pc' = [j \in Jobs |-> IF Active(j) THEN "crashed" ELSE pc[j]]
    /\ UNCHANGED <<temps, inputs, ctx, result, hit, rounds>>

Terminated ==
    /\ \A j \in Jobs : ~Active(j) /\ rounds[j] = MaxRounds
    /\ UNCHANGED vars

-----------------------------------------------------------------------------
Step(j) ==
    \/ Begin(j) \/ EndContext(j)
    \/ Get(j) \/ Execute(j) \/ ExecuteFails(j)
    \/ Put(j) \/ CreateTemp(j) \/ WriteTemp(j) \/ Recheck(j) \/ Rename(j)
    \/ PutFails(j) \/ Crash(j)

Next ==
    \/ \E j \in Jobs : Step(j)
    \/ \E k \in Snapshots : Sync(k)
    \/ PowerLoss
    \/ Terminated

Spec == Init /\ [][Next]_vars

-----------------------------------------------------------------------------
(* Properties. *)

(* A cached verdict is one that executing this very mutant could give:     *)
(* computed from the same inputs, tracked and untracked, by a test run     *)
(* that was neither cut short nor transient, whatever other jobs, crashes  *)
(* and older releases left in the directory (cache.go:53-66,               *)
(* analysis.go:418-424).                                                   *)
HitIsFresh ==
    \A j \in Jobs : \A e \in hit[j] :
        e.from = inputs[j] /\ e.verdict = "definitive"

(* The same of everything a later run would accept: no schedule of writers *)
(* leaves an entry that is readable and wrong (cache.go:77-115).           *)
OnlyEvidence ==
    \A k \in Snapshots : \A e \in disk[k] :
        Readable(e) => /\ e.verdict = "definitive"
                       /\ e.from = [snapshot |-> k, outside |-> NoOutside]

(* Only a crash leaves a temporary file behind (cache.go:94-114).          *)
OnlyCrashLeavesTemps ==
    \A t \in temps : At(t.job, "done") => t.round # rounds[t.job]

(* Cancellation that comes while the test runs, or while the entry is      *)
(* serialised and written, never leaves an entry; only a cancellation      *)
(* after the last look at the context can coincide with the rename         *)
(* (cache.go:84, 111, analysis.go:768-771).                                *)
InterruptedIsNotEvidence == \A k \in Snapshots : \A e \in disk[k] : ~e.cut

(* A writer has something worth keeping, and knows that it was not cut     *)
(* short when it renames (cache.go:78-85, 111, analysis.go:768-771).       *)
WriterInv ==
    \A j \in Jobs :
        /\ pc[j] \in {"create", "write", "recheck", "rename"} =>
              result[j] = "definitive" /\ inputs[j].outside = NoOutside
        /\ pc[j] = "rename" => ctx[j] # "ended"

(* A temporary file belongs to the call that writes it, and is complete    *)
(* from the write to the rename (cache.go:94-114).                         *)
TempInv ==
    /\ \A t \in temps : t.round <= rounds[t.job]
    /\ \A j \in Jobs :
          /\ pc[j] \in {"idle", "get", "exec", "put", "create", "done"} =>
                Mine(j) = {}
          /\ pc[j] \in {"recheck", "rename"} => \E t \in Mine(j) : t.written

(* The directory at every moment: only evidence, none of it cut short, and *)
(* no leftovers but those of a crash (cache.go:77-115); with what holds of *)
(* the writers and makes it so.                                            *)
EvidenceInv ==
    /\ TypeOK
    /\ OnlyEvidence
    /\ InterruptedIsNotEvidence
    /\ OnlyCrashLeavesTemps
    /\ WriterInv
    /\ TempInv

(* A run that takes its result from the directory finds this there.       *)
Available(k) == \E e \in disk[k] : Readable(e)

(* The job looked for an entry of the key in vain, and may still write one.*)
Missed(j, k) ==
    /\ Key(inputs[j]) = k /\ Enabled(inputs[j])
    /\ pc[j] \in {"exec", "put", "create", "write", "recheck", "rename"}

(* An entry is there, is written back, and no writer is on its way that    *)
(* did not see it.                                                         *)
Settled(k) ==
    /\ \E e \in disk[k] : Readable(e) /\ e.synced
    /\ ~\E j \in Jobs : Missed(j, k)

(* An entry that is settled stays so, step after step and therefore for    *)
(* ever: whatever is executed from then on, for this key and for others,   *)
(* with inputs the key sees and with inputs it does not, and whatever is   *)
(* cancelled, killed or loses power.  Nothing replaces it, because a run   *)
(* that could write it finds it first, and a run that does not look does   *)
(* not write either (cache.go:53-66, 77-86, analysis.go:746-771).          *)
(*                                                                         *)
(* Any other entry may be lost, even one written back: writers that        *)
(* overlap replace each other's entries, what is renamed is not synced,    *)
(* and a power failure can tear it.  Nothing but a power failure does: no  *)
(* step of a writer, of one that fails, is cancelled or is killed leaves a *)
(* key without the entry it had (cache.go:87-114).                         *)
EntryIsKept ==
    [][\A k \in Snapshots :
          /\ Settled(k) => Settled(k)'
          /\ Available(k) => Available(k)' \/ PowerLoss]_vars

(* What the first half comes to for a whole behaviour: every later run of  *)
(* the inputs of a settled entry finds one (cache.go:53-66).               *)
SettledIsKept == \A k \in Snapshots : [](Settled(k) => []Available(k))

=============================================================================
