--------------------------- MODULE DiskDiscovery ---------------------------
(***************************************************************************)
(* Discovery of mutants with bounded memory: DiscoverToDisk and            *)
(* discoveryRuns in internal/frontend/disk_discovery.go, the check of the  *)
(* identities in id_validation_disk.go, and, to compare with, the          *)
(* in-memory DiscoverLimited of frontend.go with the heap of selection.go. *)
(*                                                                         *)
(* A file is what its visitor emits, in the order it emits it: candidates  *)
(* with an offset and an identity.  Every step that touches a disk or      *)
(* polls the context may fail; what a failing step leaves behind is what   *)
(* its error path removes.  A cancellation is one of those failures.       *)
(***************************************************************************)
EXTENDS Naturals, Sequences, FiniteSets

CONSTANTS
    Inputs,          \* the source trees: sequences of files
    ChunkSize,       \* candidates sorted in memory, 512 in the source
    FanIn,           \* runs merged at once, 16 in the source
    IdChunk,         \* identities sorted in memory, 8192 in the source
    MemoryRecords, MemoryBytes

Mutation == [off : Nat, id : Nat]

ASSUME DiscoveryAssumption ==
    /\ \A files \in Inputs :
          files \in Seq([generated : BOOLEAN, emits : Seq(Mutation)])
    /\ ChunkSize \in Nat \ {0} /\ IdChunk \in Nat \ {0}
    /\ FanIn \in Nat \ {0, 1}
    /\ MemoryRecords \in Nat /\ MemoryBytes \in Nat

SizeOf(m) == 1 + (m.id % 2)
INSTANCE Spool

VARIABLES
    input,
    pc,
    file, pos,       \* where the visitor is
    candidates,      \* the chunk being collected
    levels,          \* discoveryRuns: names of sorted runs per level
    carry, level,    \* the run being added, and where
    chunks, merged,  \* the runs of the final rounds, and their successors
    store,           \* the open spools by name; 1 is the result
    fresh,           \* next name
    count,
    ids,             \* the identity file
    idsThere,        \* whether it exists
    idRuns, idMerged,\* sorted runs of identities, each a file
    idPos,
    result

discovery == <<file, pos, candidates, levels, carry, level, chunks, merged, store, fresh>>
validation == <<idRuns, idMerged, idPos>>
vars == <<input, pc, discovery, count, ids, idsThere, validation, result>>

-----------------------------------------------------------------------------
(* Seeded faults: what a plausible slip would make of a definition below.  *)

(* Runs stay where they are until the end. *)
NeedsMerge_Never(runs) == FALSE

-----------------------------------------------------------------------------
(* Orders and merges. *)

mutationLess(a, b) == a.off < b.off \/ (a.off = b.off /\ a.id < b.id)
idLess(a, b) == a < b
Before(order, a, b) == IF order = "id" THEN idLess(a, b) ELSE mutationLess(a, b)

(* The run a merge takes from: one whose head no other head precedes.      *)
LeastRun(heads, order) ==
    CHOOSE i \in DOMAIN heads : \A j \in DOMAIN heads : ~Before(order, heads[j], heads[i])

(* Sequences, one after the other: the first n of them, and all.           *)
Joining(seqs) ==
    LET first[n \in 0..Len(seqs)] ==
          IF n = 0 THEN <<>> ELSE first[n - 1] \o seqs[n]
    IN  first

Joined(seqs) == Joining(seqs)[Len(seqs)]

(* One turn of mergeChunks and of mergeIDRuns: the least head goes out.    *)
TakeLeast(order, m) ==
    LET live == {i \in DOMAIN m.rest : m.rest[i] # <<>>}
        i == LeastRun([j \in live |-> Head(m.rest[j])], order)
    IN  IF live = {} THEN m
        ELSE [out |-> Append(m.out, Head(m.rest[i])),
              rest |-> [m.rest EXCEPT ![i] = Tail(@)]]

(* There is a turn for every record.                                       *)
Merging(order, runs) ==
    LET after[n \in 0..Len(Joined(runs))] ==
          IF n = 0 THEN [out |-> <<>>, rest |-> runs]
                   ELSE TakeLeast(order, after[n - 1])
    IN  after

MergeBy(order, runs) == Merging(order, runs)[Len(Joined(runs))].out

(* sort.Slice.  Candidates that neither precedes the other are equal here, *)
(* so that every sort gives what merging them one by one does.             *)
Sorted(order, s) == MergeBy(order, [i \in DOMAIN s |-> <<s[i]>>])

MergeRuns(names) ==
    MergeBy("mutation", [i \in DOMAIN names |-> Records(store[names[i]])])

(* A spool after each of the records, appended in their order.             *)
Spooling(s, ms) ==
    LET after[n \in 0..Len(ms)] ==
          IF n = 0 THEN s ELSE AppendRecord(after[n - 1], ms[n])
    IN  after

Spooled(s, ms) == Spooling(s, ms)[Len(ms)]

AdjacentEqual(s) == \E i \in 1..Len(s) - 1 : s[i] = s[i + 1]

NeedsMerge(runs) == Len(runs) >= FanIn

(* The last index of the group of runs that starts at i.                   *)
GroupEnd(i, n) == IF i + FanIn - 1 > n THEN n ELSE i + FanIn - 1

Without(s, names) == [n \in DOMAIN s \ names |-> s[n]]
With(s, n, spool) == [m \in DOMAIN s \cup {n} |-> IF m = n THEN spool ELSE s[m]]
SetOf(seq) == {seq[i] : i \in DOMAIN seq}
LevelRuns == UNION {SetOf(levels[l]) : l \in DOMAIN levels}

-----------------------------------------------------------------------------
(* The in-memory discovery. *)

(* A full selection replaces its latest candidate by an earlier one.       *)
Offer(items, limit, m) ==
    IF Len(items) < limit THEN Append(items, m)
    ELSE IF limit = 0 THEN items
    ELSE LET last == CHOOSE i \in DOMAIN items :
                        \A j \in DOMAIN items : ~mutationLess(items[i], items[j])
         IN  IF mutationLess(m, items[last]) THEN [items EXCEPT ![last] = m] ELSE items

Selected(limit, ms) ==
    LET items[n \in 0..Len(ms)] ==
          IF n = 0 THEN <<>> ELSE Offer(items[n - 1], limit, ms[n])
    IN  Sorted("mutation", items[Len(ms)])

DiscoverLimited(files, limit) ==
    LET found[n \in 0..Len(files)] ==
          IF n = 0 THEN <<>>
          ELSE LET before == found[n - 1]
               IN  IF files[n].generated THEN before
                   ELSE before \o Selected(limit - Len(before), files[n].emits)
    IN  found[Len(files)]

-----------------------------------------------------------------------------
Init ==
    /\ input \in Inputs
    /\ pc = "file"
    /\ file = 1 /\ pos = 1
    /\ candidates = <<>>
    /\ levels = <<>>
    /\ carry = 0 /\ level = 1
    /\ chunks = <<>> /\ merged = <<>>
    /\ store = [n \in {1} |-> NewSpool]
    /\ fresh = 2
    /\ count = 0
    /\ ids = <<>>
    /\ idsThere = TRUE
    /\ idRuns = <<>> /\ idMerged = <<>> /\ idPos = 1
    /\ result = "running"

Goto(p) == pc' = p /\ UNCHANGED <<input, idsThere, result>>

(* Returning closes the identity file, and the result unless it is handed  *)
(* out.  "closing" are the spools the error path closes besides.           *)
Return(how, closing) ==
    /\ result' = how
    /\ pc' = "done"
    /\ idsThere' = FALSE
    /\ store' = Without(store, closing \cup (IF how = "ok" THEN {} ELSE {1}))
    /\ UNCHANGED <<input, file, pos, candidates, levels, carry, level, chunks,
                   merged, fresh, count, ids>>

(* A source file that cannot be read or parsed ends discovery; a generated *)
(* one is passed over.                                                     *)
OpenFile ==
    /\ pc = "file"
    /\ IF file > Len(input)
       THEN Goto("validate") /\ UNCHANGED <<file, pos>>
       ELSE IF input[file].generated
       THEN Goto("file") /\ file' = file + 1 /\ UNCHANGED pos
       ELSE Goto("visit") /\ pos' = 1 /\ UNCHANGED file
    /\ UNCHANGED <<candidates, levels, carry, level, chunks, merged, store,
                   fresh, count, ids, validation>>

Visit ==
    LET ms == input[file].emits IN
    /\ pc = "visit"
    /\ IF pos <= Len(ms)
       THEN /\ ids' = Append(ids, ms[pos].id)
            /\ count' = count + 1
            /\ candidates' = Append(candidates, ms[pos])
            /\ pos' = pos + 1
            /\ Goto(IF Len(candidates) + 1 = ChunkSize THEN "flush" ELSE "visit")
       ELSE /\ Goto(IF candidates = <<>> THEN "take" ELSE "flush")
            /\ UNCHANGED <<ids, count, candidates, pos>>
    /\ UNCHANGED <<file, levels, carry, level, chunks, merged, store, fresh,
                   validation>>

Flush ==
    /\ pc = "flush"
    /\ store' = With(store, fresh,
                     Spooled(NewSpool, Sorted("mutation", candidates)))
    /\ carry' = fresh /\ level' = 1
    /\ fresh' = fresh + 1
    /\ candidates' = <<>>
    /\ Goto("carry")
    /\ UNCHANGED <<file, pos, levels, chunks, merged, count, ids, validation>>

(* One turn of add's loop: a level that is full becomes one run of the     *)
(* next level.                                                             *)
Carry ==
    LET have == IF level \in DOMAIN levels THEN levels ELSE Append(levels, <<>>)
        here == Append(have[level], carry)
    IN  /\ pc = "carry"
        /\ IF ~NeedsMerge(here)
           THEN /\ levels' = [have EXCEPT ![level] = here]
                /\ Goto("visit")
                /\ UNCHANGED <<store, carry, level, fresh>>
           ELSE /\ levels' = [have EXCEPT ![level] = <<>>]
                /\ store' = With(Without(store, SetOf(here)), fresh,
                                 Spooled(NewSpool, MergeRuns(here)))
                /\ carry' = fresh /\ level' = level + 1
                /\ fresh' = fresh + 1
                /\ Goto("carry")
        /\ UNCHANGED <<file, pos, candidates, chunks, merged, count, ids, validation>>

(* The visitor's own errors, those of flush and those of add: every run    *)
(* of every level is closed, the one being added among them.               *)
FailVisiting ==
    /\ pc \in {"visit", "flush", "carry"}
    /\ Return("error", LevelRuns \cup (IF pc = "carry" THEN {carry} ELSE {}))
    /\ UNCHANGED validation

FailFile == pc = "file" /\ Return("error", {}) /\ UNCHANGED validation

TakeAll ==
    /\ pc = "take"
    /\ chunks' = Joined(levels)
    /\ levels' = <<>>
    /\ Goto("round")
    /\ UNCHANGED <<file, pos, candidates, carry, level, merged, store, fresh,
                   count, ids, validation>>

(* One group of a round of merges while there are too many runs.           *)
Done(ms) == Len(ms) * FanIn

MergeGroup ==
    LET first == Done(merged) + 1
        group == SubSeq(chunks, first, GroupEnd(first, Len(chunks)))
    IN  /\ pc = "round"
        /\ Len(chunks) > FanIn
        /\ first <= Len(chunks)
        /\ store' = With(store, fresh, Spooled(NewSpool, MergeRuns(group)))
        /\ merged' = Append(merged, fresh)
        /\ fresh' = fresh + 1
        /\ Goto("round")
        /\ UNCHANGED <<file, pos, candidates, levels, carry, level, chunks, count,
                       ids, validation>>

EndRound ==
    /\ pc = "round"
    /\ Len(chunks) > FanIn
    /\ Done(merged) >= Len(chunks)
    /\ store' = Without(store, SetOf(chunks))
    /\ chunks' = merged
    /\ merged' = <<>>
    /\ Goto("round")
    /\ UNCHANGED <<file, pos, candidates, levels, carry, level, fresh, count, ids,
                   validation>>

(* Seeded fault: a failed round forgets the runs it has already written.  *)
RoundOwns_Partly == SetOf(chunks)

(* What the error path of a round closes.                                  *)
RoundOwns == SetOf(chunks) \cup SetOf(merged)

FailRound ==
    /\ pc = "round"
    /\ Return("error", RoundOwns)
    /\ UNCHANGED validation

(* The last merge makes the patches and writes the result.                 *)
EmitFile ==
    /\ pc = "round"
    /\ Len(chunks) <= FanIn
    /\ store' = [Without(store, SetOf(chunks)) EXCEPT
                    ![1] = Spooled(store[1], MergeRuns(chunks))]
    /\ chunks' = <<>>
    /\ file' = file + 1
    /\ Goto("file")
    /\ UNCHANGED <<pos, candidates, levels, carry, level, merged, fresh, count,
                   ids, validation>>

-----------------------------------------------------------------------------
(* Validate: the identities are sorted in chunks, and merged by rounds.    *)

ValidateChunk ==
    LET end == IF idPos + IdChunk - 1 > Len(ids) THEN Len(ids) ELSE idPos + IdChunk - 1
        values == Sorted("id", SubSeq(ids, idPos, end))
    IN  /\ pc = "validate"
        /\ IF values = <<>>
           THEN Goto("idround") /\ UNCHANGED <<discovery, count, ids, validation>>
           ELSE IF AdjacentEqual(values)
           THEN /\ Return("duplicate", {})
                /\ idRuns' = <<>> /\ UNCHANGED <<idMerged, idPos>>
           ELSE /\ idRuns' = Append(idRuns, values)
                /\ idPos' = end + 1
                /\ Goto("validate")
                /\ UNCHANGED <<discovery, count, ids, idMerged>>

MergeIds ==
    LET first == Done(idMerged) + 1
        group == SubSeq(idRuns, first, GroupEnd(first, Len(idRuns)))
    IN  /\ pc = "idround"
        /\ Len(idRuns) > FanIn
        /\ IF first <= Len(idRuns)
           THEN idMerged' = Append(idMerged, MergeBy("id", group)) /\ UNCHANGED idRuns
           ELSE idRuns' = idMerged /\ idMerged' = <<>>
        /\ Goto("idround")
        /\ UNCHANGED <<discovery, count, ids, idPos>>

(* The last merge compares each identity with the one before; the deferred *)
(* cleanup removes the runs.                                               *)
FinishIds ==
    /\ pc = "idround"
    /\ Len(idRuns) <= FanIn
    /\ Return(IF AdjacentEqual(MergeBy("id", idRuns)) THEN "duplicate" ELSE "ok", {})
    /\ idRuns' = <<>>
    /\ UNCHANGED <<idMerged, idPos>>

FailValidate ==
    /\ pc \in {"validate", "idround"}
    /\ Return("error", {})
    /\ idRuns' = <<>> /\ idMerged' = <<>>
    /\ UNCHANGED idPos

Terminated == pc = "done" /\ UNCHANGED vars

Next ==
    \/ OpenFile \/ Visit \/ Flush \/ Carry \/ FailVisiting \/ FailFile
    \/ TakeAll \/ MergeGroup \/ EndRound \/ FailRound \/ EmitFile
    \/ ValidateChunk \/ MergeIds \/ FinishIds \/ FailValidate
    \/ Terminated

Spec == Init /\ [][Next]_vars

-----------------------------------------------------------------------------
(* Properties. *)

OnDisk == {n \in DOMAIN store : store[n].onDisk}
Emits == [f \in DOMAIN input |-> IF input[f].generated THEN <<>> ELSE input[f].emits]
Emitted == Joined(Emits)

(* Types, and the limits of what is in memory: a chunk, the buffer of      *)
(* every spool, one chunk of identities.                                   *)
TypeOK ==
    /\ pc \in {"file", "visit", "flush", "carry", "take", "round", "validate",
               "idround", "done"}
    /\ Len(candidates) <= ChunkSize
    /\ \A n \in DOMAIN store : WithinLimits(store[n]) /\ Readable(store[n])
    /\ SetOf(chunks) \cup SetOf(merged) \cup LevelRuns \subseteq 2..fresh
    /\ count \in 0..Len(Emitted)
    /\ result \in {"running", "ok", "error", "duplicate"}

(* Every exit removes every temporary file it does not hand out: runs of   *)
(* all levels, both sides of a round, the result when it is not returned,  *)
(* the identities (disk_discovery.go:33-38, 119-122, 140-152, 165-167;     *)
(* id_validation_disk.go:182-188, 222-231).                                *)
NoTempLeft ==
    pc = "done" =>
        /\ OnDisk \subseteq (IF result = "ok" THEN {1} ELSE {})
        /\ ~idsThere /\ idRuns = <<>> /\ idMerged = <<>>

(* No candidate is lost or duplicated by carries, rounds and spills, and   *)
(* the result has the order of the in-memory discovery, whatever order the *)
(* visitor has: for every limit the two agree on the first candidates.     *)
(* Discovery is refused for two candidates with one identity, and only     *)
(* then, however far apart they are (disk_discovery.go:24-27,              *)
(* frontend.go:46-51, id_validation_disk.go:174-176).                      *)
SameAsInMemory ==
    LET unique == Cardinality({Emitted[i].id : i \in DOMAIN Emitted}) = Len(Emitted)
    IN  /\ result = "duplicate" => ~unique
        /\ result = "ok" =>
              /\ unique
              /\ count = Len(Emitted)
              /\ \A limit \in 1..count + 1 :
                    DiscoverLimited(input, limit) =
                       SubSeq(Records(store[1]), 1,
                              IF limit < count THEN limit ELSE count)

(* The candidates in a run of level l all of whose chunks were full.       *)
Sizes(k) ==
    LET size[l \in 0..k] == IF l = 0 THEN ChunkSize ELSE FanIn * size[l - 1]
    IN  size

FullRun(l) == Sizes(l - 1)[l - 1]

(* The runs waiting on disk grow with the logarithm of the candidates: no  *)
(* level is full, and a level exists only if the chunks of one run of that *)
(* level were flushed (disk_discovery.go:245-247).                         *)
LogarithmicRuns ==
    /\ \A l \in DOMAIN levels : Len(levels[l]) < FanIn
    /\ Len(levels) > 0 => FullRun(Len(levels)) < pos - 1 + ChunkSize

-----------------------------------------------------------------------------
(* The inductive invariant.                                                *)

RunNames == 2..fresh - 1

Visiting == pc \in {"visit", "flush", "carry"}

(* What is empty where.                                                    *)
PhaseInv ==
    /\ fresh \in Nat \ {0, 1}
    /\ levels \in Seq(Seq(RunNames)) /\ chunks \in Seq(RunNames) /\ merged \in Seq(RunNames)
    /\ idRuns \in Seq(SetOf(idRuns)) /\ idMerged \in Seq(SetOf(idMerged))
    /\ pc \in {"visit", "flush", "carry", "take"} => chunks = <<>>
    /\ pc \in {"file", "round", "validate", "idround"} => levels = <<>>
    /\ pc \in {"file", "validate", "idround"} => chunks = <<>>
    /\ pc # "done" /\ Len(chunks) <= FanIn => merged = <<>>
    /\ pc \notin {"validate", "idround"} => idRuns = <<>>
    /\ pc # "idround" \/ Len(idRuns) <= FanIn => idMerged = <<>>
    /\ pc = "carry" => carry \in RunNames /\ level \in 1..Len(levels) + 1

Owned ==
    {1} \cup LevelRuns \cup SetOf(chunks) \cup SetOf(merged)
        \cup (IF pc = "carry" THEN {carry} ELSE {})

(* Every open spool is in one place, and every place holds open spools:    *)
(* none is forgotten, and none is read or closed after it was closed.      *)
OwnInv ==
    /\ pc # "done" => DOMAIN store = Owned
    /\ pc = "done" => DOMAIN store = (IF result = "ok" THEN {1} ELSE {})
    /\ idsThere <=> pc # "done"
    /\ \A k, l \in DOMAIN levels :
          k # l => SetOf(levels[k]) \cap SetOf(levels[l]) = {}
    /\ pc = "carry" => carry \notin LevelRuns
    /\ SetOf(chunks) \cap SetOf(merged) = {}

(* A spool of candidates that respects its limits.                         *)
SpoolOK(s) ==
    /\ s \in [memory : Seq(Mutation), bytes : Nat, file : Seq(Mutation),
              onDisk : BOOLEAN, count : Nat]
    /\ WithinLimits(s) /\ Readable(s)
    /\ ~s.onDisk => Len(s.memory) = s.count

BufferInv ==
    /\ \A n \in DOMAIN store : SpoolOK(store[n])
    /\ candidates \in Seq(Mutation)
    /\ pc # "done" =>
          Len(candidates) < ChunkSize \/ (pc = "flush" /\ Len(candidates) = ChunkSize)
    /\ pc = "flush" =>
          /\ candidates # <<>>
          /\ Len(candidates) < ChunkSize => pos > Len(input[file].emits)
    /\ pc \notin {"visit", "flush", "done"} => candidates = <<>>

(* How much of the input was emitted.                                      *)
EmittedBefore(f) == Len(Joining(Emits)[f - 1])

CountInv ==
    /\ input \in Inputs
    /\ file \in 1..Len(input) + 1
    /\ pos \in Nat \ {0}
    /\ pc \in {"file", "validate"} => count = EmittedBefore(file)
    /\ Visiting =>
          /\ file <= Len(input) /\ ~input[file].generated
          /\ pos <= Len(input[file].emits) + 1
          /\ count = EmittedBefore(file) + pos - 1
    /\ pc \in {"take", "round"} =>
          file <= Len(input) /\ count = EmittedBefore(file + 1)
    /\ count \in 0..Len(Emitted)

(* What the first levels of runs hold if every chunk was full.             *)
Held(runs) ==
    LET held[l \in 0..Len(runs)] ==
          IF l = 0 THEN 0 ELSE held[l - 1] + Len(runs[l]) * FullRun(l)
    IN  held

InRuns ==
    Held(levels)[Len(levels)] + (IF pc = "carry" THEN FullRun(level) ELSE 0)

(* Every chunk but the last one of a file is full.                         *)
LevelInv ==
    Visiting =>
        \/ InRuns + Len(candidates) = pos - 1
        \/ /\ candidates = <<>>
           /\ pos > Len(input[file].emits)
           /\ InRuns < pos - 1 + ChunkSize

(* Discovery holds little: buffers within their limits in memory, and a    *)
(* logarithm of runs on disk (disk_discovery.go:245-247, spool.go:66-72).  *)
StorageInv == TypeOK /\ LogarithmicRuns

ResourceInv ==
    /\ StorageInv
    /\ PhaseInv
    /\ OwnInv
    /\ BufferInv
    /\ CountInv
    /\ LevelInv

-----------------------------------------------------------------------------
(* What is found, and where it is.                                         *)

(* No two members are equal.                                               *)
Distinct(s) == \A i, j \in DOMAIN s : s[i] = s[j] => i = j

(* No member precedes an earlier one.                                      *)
InOrder(order, s) ==
    \A i, j \in DOMAIN s : i < j => ~Before(order, s[j], s[i])

(* Every file's candidates, in order.                                      *)
SortedEmits == [f \in DOMAIN input |-> Sorted("mutation", Emits[f])]

(* No file has one candidate twice.                                        *)
NoTwins == \A f \in DOMAIN input : Distinct(Emits[f])

(* Runs in order, without a candidate twice, that hold a set of candidates.*)
RunsHold(st, live, content) ==
    /\ \A n \in live : InOrder("mutation", Records(st[n])) /\ Distinct(Records(st[n]))
    /\ \A m, n \in live :
          m # n => SetOf(Records(st[m])) \cap SetOf(Records(st[n])) = {}
    /\ UNION {SetOf(Records(st[n])) : n \in live} = content

(* How many of the runs of a round were merged.                            *)
MergedOf(ms, runs) == IF Done(ms) > Len(runs) THEN Len(runs) ELSE Done(ms)

(* The runs that hold what the current file emitted and is not in memory.  *)
Live ==
    IF pc = "round"
    THEN SetOf(merged) \cup {chunks[i] : i \in MergedOf(merged, chunks) + 1..Len(chunks)}
    ELSE LevelRuns \cup (IF pc = "carry" THEN {carry} ELSE {})

(* What the current file emitted and is not in memory.                     *)
InLive == {input[file].emits[i] : i \in 1..pos - 1 - Len(candidates)}

(* No run is named twice.                                                  *)
NamesInv ==
    /\ \A l \in DOMAIN levels : Distinct(levels[l])
    /\ Distinct(chunks) /\ Distinct(merged)

(* A file is complete in the runs when the visitor is done with it, and    *)
(* all files are when the result is returned.                              *)
FileInv ==
    /\ Visiting =>
          /\ Len(candidates) <= pos - 1
          /\ \A i \in DOMAIN candidates :
                candidates[i] = input[file].emits[pos - 1 - Len(candidates) + i]
    /\ pc \in {"take", "round"} =>
          file \in DOMAIN input /\ ~input[file].generated /\ pos = Len(input[file].emits) + 1
    /\ pc \in {"validate", "idround"} \/ result \in {"ok", "duplicate"} =>
          file = Len(input) + 1 /\ count = Len(Emitted)
    /\ result = "running" <=> pc # "done"

(* The result holds the candidates of the files that are done with, each   *)
(* file sorted, and the runs hold those of the current file.               *)
ContentInv ==
    NoTwins =>
       /\ pc # "done" \/ result = "ok" =>
             Records(store[1]) = Joining(SortedEmits)[file - 1]
       /\ Visiting \/ pc \in {"take", "round"} => RunsHold(store, Live, InLive)

(* Sorted runs that hold the first n identities.                           *)
IdsHold(runs, n, content) ==
    /\ runs \in Seq(Seq(Nat)) /\ \A r \in DOMAIN runs : InOrder("id", runs[r])
    /\ Len(Joined(runs)) = n
    /\ SetOf(Joined(runs)) = content

(* The identities are those of the candidates, in the file and then in the *)
(* runs.                                                                   *)
IdsInv ==
    /\ ids \in Seq(Nat) /\ Len(ids) = count
    /\ \A i \in 1..count : ids[i] = Emitted[i].id
    /\ idPos \in 1..Len(ids) + 1
    /\ pc \notin {"validate", "idround", "done"} => idPos = 1
    /\ pc = "validate" => IdsHold(idRuns, idPos - 1, {ids[i] : i \in 1..idPos - 1})
    /\ pc = "idround" =>
          /\ IdsHold(idRuns, Len(ids), SetOf(ids))
          /\ LET merging == Joining(idRuns)[MergedOf(idMerged, idRuns)]
             IN  IdsHold(idMerged, Len(merging), SetOf(merging))
    /\ result = "ok" => Distinct(ids)
    /\ result = "duplicate" => ~Distinct(ids)

(* Every candidate is in the result, in a run or in memory, once and in    *)
(* order, and so is every identity.                                        *)
FoundInv == NamesInv /\ FileInv /\ ContentInv /\ IdsInv

(* Discovery owns what is open, holds little of it in memory, and has      *)
(* every candidate in one place (disk_discovery.go,                        *)
(* id_validation_disk.go).                                                 *)
DiscoveryInv == ResourceInv /\ FoundInv
=============================================================================
