-------------------------- MODULE SnapshotCapture --------------------------
(***************************************************************************)
(* How a run gets its inputs: prepareContextMode in analysis.go pins the   *)
(* Git index (gitdiff/snapshot.go), copies the module (CopyPool), compares *)
(* the copy with the host (snapshot_verify.go), checks that the index is   *)
(* the one it pinned, and from then on reads only what it captured.        *)
(*                                                                         *)
(* The user edits files, stages changes and edits ignore files above the   *)
(* module at any time.  What follows the capture (selection of changed     *)
(* lines, local replacements, listing packages, discovery, digest) is one  *)
(* step, which succeeds or fails: it reads nothing that is modelled here.  *)
(***************************************************************************)
EXTENDS CopyPool

VARIABLES
    useGit,      \* --changed-base was given
    git,         \* what the user's repository has: [index, meta]
    pinned,      \* what CaptureSnapshotBase read
    gitTemp,     \* whether its temporary directory exists
    verify,      \* the verification: [at, pos, kind, chunk]
    seen,        \* paths the first pass met
    moment       \* history: tree, index and edits when the copy was joined

gitVars == <<useGit, git, pinned, gitTemp>>
checkVars == <<verify, seen, moment>>
vars == <<host, edits, ctxDone, main, copyVars, tmpThere, gitVars, checkVars>>

Git0 == [index |-> 0, meta |-> 0]

Content == [kind : Kind, data : Seq(0..MaxEdits)]
Versions == [index : 0..MaxEdits, meta : 0..MaxEdits]
Moment == [tree : [Entries -> Content], git : Versions, edits : 0..MaxEdits]
WalkState == [at : {"idle", "list", "visit", "enqueue", "copying", "end"},
              pos : 1..N + 1, kind : Kind]
CopierState == [at : {"idle", "open", "bytes", "exited"}, job : 0..N]
VerifyState == [at : {"idle", "list", "entry", "bytes", "gone"},
                pos : 1..N + 1, kind : Kind, chunk : Nat]

TypeOK ==
    /\ host \in [Entries -> Content]
    /\ tmp \in [Entries -> Content]
    /\ edits \in 0..MaxEdits
    /\ ctxDone \in BOOLEAN /\ cancelled \in BOOLEAN /\ tmpThere \in BOOLEAN
    /\ useGit \in BOOLEAN /\ gitTemp \in BOOLEAN
    /\ workers \in CopyWorkers
    /\ main \in {"start", "meta", "copy", "verify", "index", "ancestors",
                 "rest", "prepared", "failed"}
    /\ walk \in WalkState
    /\ walkErr \in {"none", "cancelled", "source", "disk"}
    /\ firstCopyErr \in {"none", "cancelled", "source", "disk"}
    /\ queue \in Seq(Entries) /\ Len(queue) <= QueueCap
    /\ copier \in [Copiers -> CopierState]
    /\ git \in Versions
    /\ pinned \in Versions
    /\ moment \in Moment
    /\ verify \in VerifyState
    /\ seen \subseteq Entries

Init ==
    /\ CopyInit
    /\ main = "start"
    /\ useGit \in BOOLEAN
    /\ git = Git0
    /\ pinned = Git0
    /\ gitTemp = FALSE
    /\ verify = [at |-> "idle", pos |-> 1, kind |-> "absent", chunk |-> 0]
    /\ seen = {}
    /\ moment = [tree |-> host, git |-> git, edits |-> edits]

-----------------------------------------------------------------------------
(* The user. *)

CtxDone ==
    /\ ~ctxDone
    /\ main \notin {"prepared", "failed"}
    /\ ctxDone' = TRUE
    /\ UNCHANGED <<host, edits, main, copyVars, tmpThere, gitVars, checkVars>>

EditTree == Editor /\ UNCHANGED <<gitVars, checkVars>>

(* git add, or an edit of an ignore file above the module.                 *)
EditGit ==
    /\ useGit
    /\ edits < MaxEdits
    /\ main \notin {"prepared", "failed"}
    /\ \E part \in {"index", "meta"} : git' = [git EXCEPT ![part] = edits + 1]
    /\ edits' = edits + 1
    /\ UNCHANGED <<host, ctxDone, main, copyVars, tmpThere, useGit, pinned,
                   gitTemp, checkVars>>

-----------------------------------------------------------------------------
(* Returning: the snapshot is removed unless it is handed out, the pinned  *)
(* index always.                                                           *)
Return(how) ==
    /\ main' = how
    /\ tmpThere' = (how = "prepared")
    /\ gitTemp' = FALSE
    /\ UNCHANGED <<host, edits, ctxDone, copyVars, useGit, git, pinned,
                   checkVars>>

Goto(m) ==
    /\ main' = m
    /\ UNCHANGED <<host, edits, ctxDone, copyVars, tmpThere, gitVars, checkVars>>

Verify(v) ==
    /\ verify' = v
    /\ UNCHANGED <<host, edits, ctxDone, main, copyVars, tmpThere, gitVars,
                   moment>>

NextPath == [verify EXCEPT !.at = "list", !.pos = @ + 1, !.chunk = 0]

-----------------------------------------------------------------------------
(* Seeded faults: what a plausible slip would make of a definition below.  *)

(* The verification trusts metadata and does not compare bytes. *)
VerifyEntry_NoBytes ==
    LET e == verify.pos
    IN  /\ main = "verify" /\ verify.at = "entry"
        /\ IF ctxDone \/ tmp[e].kind # verify.kind
           THEN Return("failed")
           ELSE Verify(NextPath) /\ seen' = seen \cup {e}

(* A copy that differs is compared again, in the hope that it will not. *)
VerifyBytesDiffer_Retry ==
    LET e == verify.pos
        c == verify.chunk + 1
        h == host[e].data
        t == tmp[e].data
    IN  /\ main = "verify" /\ verify.at = "bytes"
        /\ \/ ctxDone /\ Return("failed")
           \/ /\ c \in DOMAIN h \cup DOMAIN t
              /\ ~(c \in DOMAIN h \cap DOMAIN t /\ h[c] = t[c])
              /\ Verify([verify EXCEPT !.at = "list", !.chunk = 0])
              /\ UNCHANGED seen

-----------------------------------------------------------------------------
(* CaptureSnapshotBase reads the index, then the ignore files above the    *)
(* module, each of which may fail.                                         *)
Begin ==
    /\ main = "start"
    /\ main' = IF useGit THEN "meta" ELSE "copy"
    /\ gitTemp' = useGit
    /\ pinned' = IF useGit THEN [pinned EXCEPT !.index = git.index] ELSE pinned
    /\ UNCHANGED <<host, edits, ctxDone, copyVars, tmpThere, useGit, git,
                   checkVars>>

CaptureMetadata ==
    /\ main = "meta"
    /\ main' = "copy"
    /\ pinned' = [pinned EXCEPT !.meta = git.meta]
    /\ UNCHANGED <<host, edits, ctxDone, copyVars, tmpThere, useGit, git,
                   gitTemp, checkVars>>

CaptureFails == main \in {"start", "meta"} /\ useGit /\ Return("failed")

StartCopy ==
    /\ main = "copy"
    /\ walk.at = "idle"
    /\ IF ctxDone THEN Return("failed")
       ELSE /\ walk' = [walk EXCEPT !.at = "list"]
            /\ tmpThere' = TRUE
            /\ UNCHANGED <<host, edits, ctxDone, main, cancelled, workers, walkErr,
                           queue, copier, firstCopyErr, tmp, gitVars, checkVars>>

WalkSteps == main = "copy" /\ Walker /\ UNCHANGED <<gitVars, checkVars>>

CopierSteps(c) == main = "copy" /\ Copier(c) /\ UNCHANGED <<gitVars, checkVars>>

CopyReturns ==
    /\ main = "copy"
    /\ Joined
    /\ IF CopyVerdict # "none" THEN Return("failed")
       ELSE /\ main' = "verify"
            /\ verify' = [verify EXCEPT !.at = "list"]
            /\ moment' = [tree |-> host, git |-> git, edits |-> edits]
            /\ UNCHANGED <<host, edits, ctxDone, copyVars, tmpThere, gitVars,
                           seen>>

-----------------------------------------------------------------------------
(* VerifyModuleCopyContext, first pass: every entry of the host as it is   *)
(* now.  A link that leaves the module is passed over.                     *)
VerifyList ==
    LET e == verify.pos IN
    /\ main = "verify" /\ verify.at = "list"
    /\ UNCHANGED seen
    /\ IF e > N THEN Verify([verify EXCEPT !.at = "gone"])
       ELSE Verify(IF Admitted(host[e].kind)
                   THEN [verify EXCEPT !.at = "entry", !.kind = host[e].kind]
                   ELSE NextPath)

VerifyEntry ==
    LET e == verify.pos
        link == {"link", "outlink"}
    IN  /\ main = "verify" /\ verify.at = "entry"
        /\ \/ /\ \/ ctxDone
                 \/ verify.kind = "link" /\ tmp[e].kind \notin link
                 \/ verify.kind = "link" /\ host[e] # tmp[e]
                 \/ verify.kind = "file" /\ tmp[e].kind # "file"
                 \/ verify.kind = "file" /\ host[e].kind = "absent"
              /\ Return("failed")
           \/ /\ ~ctxDone
              /\ verify.kind = "link" /\ host[e] = tmp[e]
              /\ Verify(NextPath) /\ seen' = seen \cup {e}
           \/ /\ ~ctxDone
              /\ verify.kind = "file" /\ tmp[e].kind = "file"
              /\ host[e].kind # "absent"
              /\ Verify([verify EXCEPT !.at = "bytes"])
              /\ seen' = seen \cup {e}

(* sameFileBytes: the next buffer of both, or the end of both.             *)
VerifyBytes ==
    LET e == verify.pos
        c == verify.chunk + 1
        h == host[e].data
        t == tmp[e].data
    IN  /\ main = "verify" /\ verify.at = "bytes"
        /\ UNCHANGED seen
        /\ \/ /\ ~ctxDone /\ c \in DOMAIN h \cap DOMAIN t /\ h[c] = t[c]
              /\ Verify([verify EXCEPT !.chunk = c])
           \/ /\ ~ctxDone /\ c \notin DOMAIN h \cup DOMAIN t
              /\ Verify(NextPath)

VerifyBytesDiffer ==
    LET e == verify.pos
        c == verify.chunk + 1
        h == host[e].data
        t == tmp[e].data
    IN  /\ main = "verify" /\ verify.at = "bytes"
        /\ \/ ctxDone
           \/ c \in DOMAIN h \cup DOMAIN t
              /\ ~(c \in DOMAIN h \cap DOMAIN t /\ h[c] = t[c])
        /\ Return("failed")

(* Second pass: the copy has nothing the first pass did not meet.          *)
VerifyGone ==
    /\ main = "verify" /\ verify.at = "gone"
    /\ IF ctxDone \/ ~(DOMAIN View(tmp) \subseteq seen)
       THEN Return("failed")
       ELSE Goto(IF useGit THEN "index" ELSE "rest")

(* VerifyIndex: the index, then the ignore files above the module.         *)
VerifyIndex ==
    /\ main = "index"
    /\ IF git.index = pinned.index THEN Goto("ancestors") ELSE Return("failed")

VerifyAncestors ==
    /\ main = "ancestors"
    /\ IF git.meta = pinned.meta THEN Goto("rest") ELSE Return("failed")

(* Everything after the capture, with its last look at the deadline.       *)
Rest ==
    /\ main = "rest"
    /\ \/ ~ctxDone /\ Return("prepared")
       \/ Return("failed")

Terminated == main \in {"prepared", "failed"} /\ UNCHANGED vars

-----------------------------------------------------------------------------
Caller ==
    \/ Begin \/ CaptureMetadata \/ CaptureFails \/ StartCopy \/ CopyReturns
    \/ VerifyList \/ VerifyEntry \/ VerifyBytes
    \/ VerifyBytesDiffer \/ VerifyGone \/ VerifyIndex \/ VerifyAncestors
    \/ Rest

Next ==
    \/ CtxDone \/ EditTree \/ EditGit
    \/ Caller \/ WalkSteps
    \/ \E c \in Copiers : CopierSteps(c)
    \/ Terminated

Spec == Init /\ [][Next]_vars

(* The caller's goroutine, which also walks, and every worker run when     *)
(* they can.  Nothing is assumed of the user.                              *)
FairSpec ==
    /\ Spec
    /\ WF_vars(Caller) /\ WF_vars(WalkSteps)
    /\ \A c \in Copiers : WF_vars(CopierSteps(c))

-----------------------------------------------------------------------------
(* Properties. *)

(* What is handed out is what the host had at one moment, the end of the   *)
(* copy: no mixture of versions, nothing missing, nothing left over, and   *)
(* the pinned index and ignore files are those of that same moment         *)
(* (analysis.go:308-338, snapshot_verify.go:28-97, snapshot.go:121-139).   *)
PreparedIsAMoment ==
    main = "prepared" =>
        /\ View(tmp) = View(moment.tree)
        /\ useGit => pinned = moment.git

(* Nobody writes into a tree that is being removed or was handed out: no   *)
(* copier has work left once the copy returned (workspace.go:684-690).     *)
NoWriterLeft ==
    main \notin {"start", "meta", "copy"} =>
        \A c \in Copiers : copier[c].at \in {"idle", "exited"}

(* The walk never waits at a full queue that nobody empties, unless it can *)
(* give up: the worker that fails cancels the copy (workspace.go:624-633). *)
NoStuckQueue ==
    (walk.at = "enqueue" /\ workers > 1 /\ Len(queue) = QueueCap) =>
        CopyErr \/ \E c \in Pool : copier[c].at # "exited"

(* The error returned is the cause, not its echo: a cancellation is only   *)
(* reported when the caller cancelled, never because a worker that failed  *)
(* made the walk and the other workers stop (workspace.go:691-702).        *)
CauseNotEcho ==
    (main = "copy" /\ Joined /\ ~ctxDone) => CopyVerdict # "cancelled"

(* A call that ends leaves neither the pinned index nor, when it fails,    *)
(* the snapshot behind (analysis.go:316, 325-330).                         *)
NothingLeft ==
    main \in {"prepared", "failed"} => ~gitTemp /\ (main = "failed" => ~tmpThere)

(* Who is at work and on what: the walk copies by itself when there is one *)
(* worker, a pool's jobs are paths it has passed, and a worker leaves the  *)
(* queue only when the copy is cancelled or nothing more will come         *)
(* (workspace.go:612-690).                                                 *)
Busy(c) == copier[c].at \in {"open", "bytes"}
PoolInv ==
    /\ main \in {"start", "meta"} => walk.at = "idle"
    /\ walk.at = "idle" =>
          /\ queue = <<>> /\ ~cancelled /\ walk.pos = 1
          /\ \A c \in Copiers : copier[c].at = "idle"
    /\ walk.at \in {"visit", "enqueue", "copying"} => walk.pos <= N
    /\ Busy(0) <=> walk.at = "copying"
    /\ Busy(0) => workers = 1 /\ copier[0].job = walk.pos
    /\ copier[0].at # "exited"
    /\ \A c \in Copiers \ (Pool \cup {0}) : copier[c].at = "idle"
    /\ \A c \in Pool : Busy(c) => copier[c].job \in 1..walk.pos - 1
    /\ \A i \in DOMAIN queue : queue[i] < walk.pos
    /\ workers = 1 => queue = <<>>
    /\ \A c \in Pool :
          copier[c].at = "exited" /\ ~cancelled => walk.at = "end" /\ queue = <<>>
    /\ main \notin {"start", "meta", "copy"} => walk.at = "idle" \/ Joined

(* What an error says: a worker cancels the copy because it failed, the    *)
(* walk stops because it failed or because something was cancelled, and a  *)
(* walk that did not fail has come to the end (workspace.go:640-702).      *)
CauseInv ==
    /\ cancelled <=> firstCopyErr # "none"
    /\ firstCopyErr = "cancelled" => ctxDone
    /\ walkErr = "cancelled" => ctxDone \/ cancelled
    /\ walkErr # "none" => walk.at = "end"
    /\ walk.at = "end" /\ walkErr = "none" => walk.pos = N + 1

NoError == firstCopyErr = "none" /\ walkErr = "none"

(* No byte of it is newer than edit n.                                     *)
UpTo(content, n) == \A c \in DOMAIN content.data : content.data[c] <= n

(* Two contents begin with the same buffer: whatever is written to a path  *)
(* at once, and so may change its length, begins with a new one.           *)
SameStart(a, b) == a.data # <<>> /\ b.data # <<>> /\ a.data[1] = b.data[1]

(* A path while the copy is made: nothing of it is from the future, a file *)
(* that nobody works on is whole unless the host's has changed, and a path *)
(* of the first tree that is still there has been copied or will be        *)
(* (workspace.go:581-676, 741-790).                                        *)
PathInv(e) ==
    /\ UpTo(host[e], edits) /\ UpTo(tmp[e], edits)
    /\ host[e].kind # "absent" \/ e \notin Absent0 => host[e].data # <<>>
    /\ host[e].kind = "file" => Len(host[e].data) = ChunksOf[e]
    /\ tmp[e].kind = "absent" => tmp[e].data = <<>>
    /\ tmp[e].kind = "file" /\ SameStart(tmp[e], host[e]) =>
          Len(tmp[e].data) <= Len(host[e].data)
    /\ /\ tmp[e].kind = "file" /\ NoError
       /\ \A c \in Copiers : ~(copier[c].at = "bytes" /\ copier[c].job = e)
       => /\ tmp[e].data # <<>>
          /\ SameStart(tmp[e], host[e]) => Len(tmp[e].data) = Len(host[e].data)
    /\ NoError /\ e \notin Absent0 /\ e < walk.pos /\ Admitted(host[e].kind) =>
          \/ Admitted(tmp[e].kind)
          \/ \E i \in DOMAIN queue : queue[i] = e
          \/ \E c \in Copiers : copier[c].at = "open" /\ copier[c].job = e

(* Every path, and what a copier in the middle of a file has before it     *)
(* (workspace.go:741-790).                                                 *)
TreeInv ==
    /\ \A e \in Entries : PathInv(e)
    /\ \A c \in Copiers : copier[c].at = "bytes" =>
          /\ copier[c].job \in Entries
          /\ tmp[copier[c].job].kind = "file" /\ host[copier[c].job].data # <<>>

(* A path once the copy was joined, against the tree of that moment: the   *)
(* copy is older; a buffer of the host that is not newer than the moment   *)
(* is the moment's, and so are the length and the kind of a path that      *)
(* begins with one (workspace.go:581-702, snapshot_verify.go:28-97).       *)
MomentPath(e) ==
    LET h == host[e]
        m == moment.tree[e]
        t == tmp[e]
    IN  /\ UpTo(t, moment.edits)
        /\ t.kind = "file" =>
              /\ t.data # <<>>
              /\ SameStart(t, m) => Len(t.data) = Len(m.data)
        /\ e \notin Absent0 /\ Admitted(m.kind) => Admitted(t.kind)
        /\ \A c \in DOMAIN h.data : h.data[c] <= moment.edits =>
              c \in DOMAIN m.data /\ h.data[c] = m.data[c]
        /\ h.data # <<>> /\ h.data[1] <= moment.edits =>
              Len(h.data) = Len(m.data) /\ h.kind \in {m.kind, "absent"}
        /\ e \in Absent0 /\ Admitted(m.kind) => Admitted(h.kind)

(* Every path once the copy was joined (analysis.go:308-338).              *)
Captured == main \in {"verify", "index", "ancestors", "rest", "prepared"}
MomentInv ==
    Captured => moment.edits <= edits /\ \A e \in Entries : MomentPath(e)

(* How far the verification is: what it has met and passed is the moment's *)
(* content, what it passed without meeting did not appear before the       *)
(* moment, and so far the bytes of the path it reads are the moment's      *)
(* (snapshot_verify.go:28-97).                                             *)
VerifyInv ==
    /\ main \in {"start", "meta", "copy"} =>
          seen = {} /\ verify.pos = 1 /\ verify.chunk = 0
    /\ Captured =>
          LET e == verify.pos
              E0 == moment.edits
          IN  /\ \A x \in seen : x < e \/ (x = e /\ verify.at = "bytes")
              /\ \A x \in Entries : x < e =>
                    IF x \in seen THEN tmp[x] = moment.tree[x]
                    ELSE Admitted(moment.tree[x].kind) => x \notin Absent0
              /\ verify.at \in {"entry", "bytes"} =>
                    /\ e \in Entries /\ verify.kind \in {"file", "link"}
                    /\ host[e].data # <<>>
                    /\ verify.kind = "file" =>
                          moment.tree[e].kind = "file" \/ host[e].data[1] > E0
              /\ verify.at = "bytes" =>
                    /\ verify.kind = "file" /\ tmp[e].kind = "file" /\ e \in seen
                    /\ \A c \in 1..verify.chunk :
                          /\ c \in DOMAIN tmp[e].data \cap DOMAIN moment.tree[e].data
                          /\ tmp[e].data[c] = moment.tree[e].data[c]
                          /\ moment.tree[e].kind = "file"
              /\ verify.at # "bytes" => verify.chunk = 0
              /\ main = "verify" => verify.at \in {"list", "entry", "bytes", "gone"}
              /\ verify.at = "gone" \/ main # "verify" => e = N + 1
              /\ main # "verify" => DOMAIN View(tmp) \subseteq seen

(* What is pinned is not newer than the repository, and what was found     *)
(* unchanged after the moment is what it was at the moment                 *)
(* (snapshot.go:121-139).                                                  *)
GitInv ==
    /\ git.index <= edits /\ git.meta <= edits
    /\ main \in {"meta", "index", "ancestors"} => useGit
    /\ useGit /\ main \notin {"start", "failed"} => pinned.index <= git.index
    /\ useGit /\ main \notin {"start", "meta", "failed"} => pinned.meta <= git.meta
    /\ useGit /\ Captured =>
          /\ pinned.index <= moment.git.index /\ moment.git.index <= git.index
          /\ pinned.meta <= moment.git.meta /\ moment.git.meta <= git.meta
          /\ main \notin {"verify", "index"} => pinned.index = moment.git.index
          /\ main \in {"rest", "prepared"} => pinned.meta = moment.git.meta

(* The copy and what it leaves: nobody writes once it returned, nobody     *)
(* waits for a worker that is gone, no temporary tree remains              *)
(* (workspace.go:624-702, analysis.go:316-330); with what holds at every   *)
(* step of copy and verification and makes it so.                          *)
CopyInv ==
    /\ TypeOK
    /\ NoWriterLeft
    /\ NoStuckQueue
    /\ NothingLeft
    /\ PoolInv
    /\ CauseInv
    /\ TreeInv
    /\ MomentInv
    /\ VerifyInv
    /\ GitInv

(* The preparation ends, however the user keeps editing.                   *)
Termination == <>(main \in {"prepared", "failed"})
=============================================================================
