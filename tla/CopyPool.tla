------------------------------ MODULE CopyPool ------------------------------
(***************************************************************************)
(* Copying a module into a sandbox while its owner keeps editing it:       *)
(* copyModuleWithWorkers, sandboxEntries and copyFileWithCloneOption in    *)
(* internal/workspace/workspace.go.                                        *)
(*                                                                         *)
(* Entries are the paths of the host tree in walking order.  What an entry *)
(* is has a kind and, for its bytes or its link target, a stamp per chunk: *)
(* the number of the edit that wrote it.  "link" is a symbolic link that   *)
(* stays inside the module, "outlink" one that leaves it and is never part *)
(* of a sandbox.  Directories and file modes are left out.                 *)
(*                                                                         *)
(* The editor never brings an entry back to a state it was in before: the  *)
(* verification compares contents, so it cannot see a change that was      *)
(* undone (README, bounds).                                                *)
(***************************************************************************)
EXTENDS Integers, Sequences, FiniteSets

CONSTANTS
    N,               \* number of paths
    ChunksOf,        \* path -> number of buffers its bytes fill
    Absent0,         \* paths that do not exist when the run begins
    Link0,           \* paths that are symbolic links then
    Retyped,         \* paths the editor may turn into something else
    CopyWorkers,     \* the values of MUTATION_JUDGE_COPY_WORKERS to try
    QueueCap,        \* waiting jobs, twice the workers in the code
    MaxEdits,        \* bound on the editor's steps
    Unwritable       \* paths whose copy may fail on the sandbox's disk

ASSUME CopyAssumption ==
    /\ N \in Nat \ {0}
    /\ ChunksOf \in [1..N -> Nat \ {0}]
    /\ Absent0 \cap Link0 = {}
    /\ CopyWorkers \subseteq 1..8 /\ CopyWorkers # {}
    /\ QueueCap \in Nat \ {0}
    /\ MaxEdits \in Nat
    /\ Retyped \cup Unwritable \subseteq 1..N

Entries == 1..N
MaxWorkers == CHOOSE n \in CopyWorkers : \A m \in CopyWorkers : m <= n

(* Copier 0 is the walk itself, which copies when there is one worker.     *)
Copiers == 0..MaxWorkers

Kind == {"absent", "file", "link", "outlink"}
Missing == [kind |-> "absent", data |-> <<>>]
Stamped(e, k, v) ==
    [kind |-> k, data |-> [c \in 1..(IF k = "file" THEN ChunksOf[e] ELSE 1) |-> v]]

VARIABLES
    host,        \* the tree on the host
    edits,       \* how many edits there were
    ctxDone,     \* the caller's context
    cancelled,   \* cancel() of copyCtx was called
    workers,     \* number of copy workers of this call
    main,        \* where the caller of the copy is
    walk,        \* where the walk is: [at, pos, kind]
    walkErr,     \* what the walk returned
    queue,       \* jobs waiting in the channel
    copier,      \* each copier: [at, job]
    firstCopyErr,
    tmp,         \* the sandbox tree
    tmpThere     \* whether its directory exists

copyVars == <<cancelled, workers, walk, walkErr, queue, copier, firstCopyErr, tmp>>

CopyErr == ctxDone \/ cancelled
Admitted(k) == k \in {"file", "link"}

(* What a walk over a tree admits to a sandbox or a digest.                *)
View(tree) == [e \in {x \in DOMAIN tree : Admitted(tree[x].kind)} |-> tree[e]]

CopyInit ==
    /\ host = [e \in Entries |->
                 IF e \in Absent0 THEN Missing
                 ELSE Stamped(e, IF e \in Link0 THEN "link" ELSE "file", 0)]
    /\ edits = 0
    /\ ctxDone = FALSE
    /\ cancelled = FALSE
    /\ workers \in CopyWorkers
    /\ walk = [at |-> "idle", pos |-> 1, kind |-> "absent"]
    /\ walkErr = "none"
    /\ queue = <<>>
    /\ copier = [c \in Copiers |-> [at |-> "idle", job |-> 0]]
    /\ firstCopyErr = "none"
    /\ tmp = [e \in Entries |-> Missing]
    /\ tmpThere = FALSE

-----------------------------------------------------------------------------
(* The editor: a new version in place, chunk by chunk or at once, a path   *)
(* created, removed or turned into something else.  A path of Absent0 only *)
(* becomes part of the tree, another one only ceases to be.                *)
Touch(e, new) ==
    /\ edits < MaxEdits
    /\ main \notin {"prepared", "failed"}
    /\ host' = [host EXCEPT ![e] = new]
    /\ edits' = edits + 1
    /\ UNCHANGED <<ctxDone, main, copyVars, tmpThere>>

Rewrite(e) ==
    /\ Admitted(host[e].kind) \/ e \in Absent0
    /\ \E k \in Kind \ {"absent"} :
          /\ k = "outlink" => e \notin Absent0
          /\ k = host[e].kind \/ e \in Retyped \/ host[e].kind = "absent"
          /\ Touch(e, Stamped(e, k, edits + 1))

RewriteChunk(e) ==
    /\ host[e].kind = "file" /\ ChunksOf[e] > 1
    /\ \E c \in 1..ChunksOf[e] :
          Touch(e, [host[e] EXCEPT !.data[c] = edits + 1])

Remove(e) ==
    /\ e \notin Absent0
    /\ host[e].kind # "absent"
    /\ Touch(e, [host[e] EXCEPT !.kind = "absent"])

Editor == \E e \in Entries : Rewrite(e) \/ RewriteChunk(e) \/ Remove(e)

-----------------------------------------------------------------------------
(* Seeded faults: what a plausible slip would make of a definition below.  *)

(* The failing worker does not cancel the copy. *)
WorkerFails_NoCancel(c, why) ==
    /\ copier' = [copier EXCEPT ![c].at = "exited"]
    /\ firstCopyErr' = IF firstCopyErr = "none" THEN why ELSE firstCopyErr
    /\ UNCHANGED <<walk, walkErr, cancelled>>

(* What the walk noticed is returned before what made it stop. *)
CopyVerdict_WalkFirst ==
    IF ctxDone THEN "cancelled"
    ELSE IF walkErr # "none" THEN walkErr ELSE firstCopyErr

-----------------------------------------------------------------------------
(* The walk. *)

WalkStep(new, err) ==
    /\ walk' = new
    /\ walkErr' = err
    /\ UNCHANGED <<host, edits, ctxDone, main, cancelled, workers, queue,
                   copier, firstCopyErr, tmpThere>>

Ended(w) == [w EXCEPT !.at = "end"]
NextEntry(w) == [w EXCEPT !.at = "list", !.pos = @ + 1]

(* The directory is read: the entry's type is the one it has now.  A link  *)
(* that leaves the module is passed over.                                  *)
ListEntry ==
    /\ walk.at = "list"
    /\ IF walk.pos > N THEN WalkStep(Ended(walk), "none")
       ELSE LET k == host[walk.pos].kind
            IN  WalkStep(IF Admitted(k) THEN [walk EXCEPT !.at = "visit", !.kind = k]
                         ELSE NextEntry(walk), "none")
    /\ UNCHANGED tmp

(* The entry is looked at a second time, and may have changed since: a     *)
(* link is recreated with the target it has now, whatever it is.           *)
VisitEntry ==
    LET e == walk.pos
        now == host[e]
    IN  /\ walk.at = "visit"
        /\ \/ /\ CopyErr
              /\ WalkStep(Ended(walk), "cancelled")
              /\ UNCHANGED tmp
           \/ /\ ~CopyErr
              /\ walk.kind = "link" /\ now.kind \in {"link", "outlink"}
              /\ tmp' = [tmp EXCEPT ![e] = now]
              /\ WalkStep(NextEntry(walk), "none")
           \/ /\ ~CopyErr
              /\ walk.kind = "file" /\ now.kind = "file"
              /\ WalkStep([walk EXCEPT !.at = "enqueue"], "none")
              /\ UNCHANGED tmp
           \/ /\ ~CopyErr
              /\ walk.kind = "link" => now.kind \notin {"link", "outlink"}
              /\ walk.kind = "file" => now.kind # "file"
              /\ WalkStep(Ended(walk), "source")
              /\ UNCHANGED tmp

(* One worker: the walk copies.  Several: a place in the queue.            *)
Enqueue ==
    /\ walk.at = "enqueue"
    /\ IF workers = 1
       THEN /\ copier' = [copier EXCEPT ![0] = [at |-> "open", job |-> walk.pos]]
            /\ walk' = [walk EXCEPT !.at = "copying"]
            /\ UNCHANGED queue
       ELSE /\ Len(queue) < QueueCap
            /\ queue' = Append(queue, walk.pos)
            /\ walk' = NextEntry(walk)
            /\ UNCHANGED copier
    /\ UNCHANGED <<host, edits, ctxDone, main, cancelled, workers, walkErr,
                   firstCopyErr, tmp, tmpThere>>

(* The select takes the other branch when the copy is cancelled.           *)
GiveUpEnqueue ==
    /\ walk.at = "enqueue"
    /\ workers > 1
    /\ CopyErr
    /\ WalkStep(Ended(walk), "cancelled")
    /\ UNCHANGED tmp

-----------------------------------------------------------------------------
(* A copier. *)

Pool == IF workers > 1 THEN 1..workers ELSE {}

TakeJob(c) ==
    /\ copier[c].at = "idle" /\ c \in Pool
    /\ queue # <<>>
    /\ copier' = [copier EXCEPT ![c] = [at |-> "open", job |-> Head(queue)]]
    /\ queue' = Tail(queue)
    /\ UNCHANGED <<host, edits, ctxDone, main, cancelled, workers, walk, walkErr,
                   firstCopyErr, tmp, tmpThere>>

(* The channel is closed when the walk is over and has no job left.        *)
LeaveQueue(c) ==
    /\ copier[c].at = "idle" /\ c \in Pool
    /\ walk.at = "end" /\ queue = <<>>
    /\ copier' = [copier EXCEPT ![c].at = "exited"]
    /\ UNCHANGED <<host, edits, ctxDone, main, cancelled, workers, walk, walkErr,
                   queue, firstCopyErr, tmp, tmpThere>>

(* A worker's first error cancels the copy; every failing worker leaves.   *)
WorkerFails(c, why) ==
    /\ copier' = [copier EXCEPT ![c].at = "exited"]
    /\ firstCopyErr' = IF firstCopyErr = "none" THEN why ELSE firstCopyErr
    /\ cancelled' = TRUE
    /\ UNCHANGED <<walk, walkErr>>

(* Without workers the error is the walk's.                                *)
WalkCopyFails(why) ==
    /\ copier' = [copier EXCEPT ![0].at = "idle"]
    /\ walk' = Ended(walk)
    /\ walkErr' = why
    /\ UNCHANGED <<firstCopyErr, cancelled>>

CopyDone(c) ==
    /\ copier' = [copier EXCEPT ![c].at = "idle"]
    /\ walk' = IF c = 0 THEN NextEntry(walk) ELSE walk
    /\ UNCHANGED <<walkErr, firstCopyErr, cancelled>>

CopyFails(c, why) ==
    IF c = 0 THEN WalkCopyFails(why) ELSE WorkerFails(c, why)

(* copyFileWithCloneOption first reads the context.                        *)
CopyCancelled(c) ==
    /\ copier[c].at \in {"open", "bytes"}
    /\ CopyErr
    /\ CopyFails(c, "cancelled")
    /\ UNCHANGED <<host, edits, ctxDone, main, workers, queue, tmp, tmpThere>>

(* A clone of the whole file, where the file system can.                   *)
CloneFile(c) ==
    LET e == copier[c].job IN
    /\ copier[c].at = "open"
    /\ ~CopyErr
    /\ host[e].kind # "absent"
    /\ tmp' = [tmp EXCEPT ![e] = [kind |-> "file", data |-> host[e].data]]
    /\ CopyDone(c)
    /\ UNCHANGED <<host, edits, ctxDone, main, workers, queue, tmpThere>>

(* Else both files are opened, and the copy is empty.                      *)
OpenCopy(c) ==
    LET e == copier[c].job IN
    /\ copier[c].at = "open"
    /\ ~CopyErr
    /\ IF host[e].kind = "absent"
       THEN CopyFails(c, "source") /\ UNCHANGED tmp
       ELSE /\ tmp' = [tmp EXCEPT ![e] = [kind |-> "file", data |-> <<>>]]
            /\ copier' = [copier EXCEPT ![c].at = "bytes"]
            /\ UNCHANGED <<walk, walkErr, firstCopyErr, cancelled>>
    /\ UNCHANGED <<host, edits, ctxDone, main, workers, queue, tmpThere>>

(* One turn of the loop.  A file removed meanwhile still has its bytes; a  *)
(* file that was replaced is read as if it had been rewritten in place.    *)
CopyChunk(c) ==
    LET e == copier[c].job
        have == Len(tmp[e].data)
    IN  /\ copier[c].at = "bytes"
        /\ ~CopyErr
        /\ \/ e \in Unwritable /\ CopyFails(c, "disk") /\ UNCHANGED tmp
           \/ /\ have < Len(host[e].data)
              /\ tmp' = [tmp EXCEPT ![e].data = Append(@, host[e].data[have + 1])]
              /\ UNCHANGED <<copier, walk, walkErr, firstCopyErr, cancelled>>
           \/ /\ have >= Len(host[e].data)
              /\ CopyDone(c)
              /\ UNCHANGED tmp
        /\ UNCHANGED <<host, edits, ctxDone, main, workers, queue, tmpThere>>

-----------------------------------------------------------------------------
(* The copy as its caller sees it. *)

(* close(jobs) and wg.Wait().                                              *)
Joined ==
    /\ walk.at = "end"
    /\ \A c \in Pool : copier[c].at = "exited"

(* The caller's cancellation comes before a worker's error, which comes    *)
(* before the walk's: the walk may only have noticed the worker's cancel.  *)
CopyVerdict ==
    IF ctxDone THEN "cancelled"
    ELSE IF firstCopyErr # "none" THEN firstCopyErr ELSE walkErr

Walker == ListEntry \/ VisitEntry \/ Enqueue \/ GiveUpEnqueue

Copier(c) ==
    \/ TakeJob(c) \/ LeaveQueue(c) \/ CopyCancelled(c)
    \/ CloneFile(c) \/ OpenCopy(c) \/ CopyChunk(c)
=============================================================================
