----------------------- MODULE SnapshotCaptureProofs -----------------------
(***************************************************************************)
(* What SnapshotCapture says of the tree and of the index a run is given,  *)
(* for any number of paths, of buffers per file and of edits, every number *)
(* of copy workers and every queue: the inductive invariant CopyInv, that  *)
(* the cause of a failure is returned, and that what is handed out is what *)
(* the host had at one moment.                                             *)
(***************************************************************************)
EXTENDS SnapshotCapture, TLAPS

-----------------------------------------------------------------------------
(* Workers and contents.                                                   *)

(* Of the numbers of workers that are tried one is the largest.            *)
LEMMA MostWorkers ==
    /\ MaxWorkers \in CopyWorkers
    /\ \A m \in CopyWorkers : m <= MaxWorkers
<1>1. CopyWorkers \subseteq 1..8 /\ CopyWorkers # {}
  BY CopyAssumption
<1>2. \E n \in CopyWorkers : \A m \in CopyWorkers : m <= n
  <2>1. \E n \in CopyWorkers : n \in 1..8
    BY <1>1
  <2>2. ASSUME NEW k \in 1..8, \A m \in CopyWorkers : m <= k, k \notin CopyWorkers
        PROVE  \A m \in CopyWorkers : m <= k - 1
    BY <1>1, <2>2
  <2>3. \A m \in CopyWorkers : m <= 8
    BY <1>1
  <2> QED
    BY <1>1, <2>1, <2>2, <2>3
<1> QED
  BY <1>2 DEF MaxWorkers

(* The walk is no member of the pool, and a pool has a member              *)
(* (workspace.go:612-640).                                                 *)
LEMMA PoolMembers ==
    ASSUME workers \in CopyWorkers
    PROVE  /\ workers \in 1..8
           /\ Pool \subseteq Copiers /\ 0 \in Copiers /\ 0 \notin Pool
           /\ workers > 1 => 1 \in Pool
           /\ workers = 1 => Pool = {}
BY MostWorkers, CopyAssumption DEF Pool, Copiers

(* A content is a sequence of stamps.                                      *)
LEMMA Stamps ==
    ASSUME NEW a \in Content
    PROVE  /\ a.data \in Seq(0..MaxEdits) /\ a.kind \in Kind
           /\ Len(a.data) \in Nat /\ DOMAIN a.data = 1..Len(a.data)
           /\ a.data # <<>> <=> 1 \in DOMAIN a.data
           /\ \A c \in DOMAIN a.data : a.data[c] \in Nat
<1>1. a.data \in Seq(0..MaxEdits) /\ a.kind \in Kind
  BY DEF Content
<1>2. ASSUME NEW S, NEW s \in Seq(S), NEW c \in DOMAIN s
      PROVE  s[c] \in S
  OBVIOUS
<1>3. \A c \in DOMAIN a.data : a.data[c] \in 0..MaxEdits
  BY <1>1, <1>2
<1>4. \A v \in 0..MaxEdits : v \in Nat
  BY CopyAssumption
<1> QED
  BY <1>1, <1>3, <1>4

(* What is written at once has one stamp and is not empty.                 *)
LEMMA StampedContent ==
    ASSUME NEW e \in Entries, NEW k \in Kind, NEW v \in 0..MaxEdits
    PROVE  LET new == Stamped(e, k, v)
           IN  /\ new \in Content /\ new.kind = k
               /\ k = "file" => Len(new.data) = ChunksOf[e]
               /\ new.data # <<>> /\ 1 \in DOMAIN new.data
               /\ \A c \in DOMAIN new.data : new.data[c] = v
<1> DEFINE n == IF k = "file" THEN ChunksOf[e] ELSE 1
           d == [c \in 1..n |-> v]
<1>1. n \in Nat \ {0}
  BY CopyAssumption DEF Entries
<1> HIDE DEF n
<1>2. d \in Seq(0..MaxEdits) /\ Len(d) = n /\ DOMAIN d = 1..n
  BY <1>1
<1>3. d # <<>> /\ 1 \in DOMAIN d /\ \A c \in DOMAIN d : d[c] = v
  BY <1>1, <1>2
<1>4. Stamped(e, k, v) = [kind |-> k, data |-> d]
  BY DEF Stamped, n
<1> HIDE DEF d
<1> QED
  BY <1>2, <1>3, <1>4 DEF Content, n

(* A buffer that is written leaves the others and the length.              *)
LEMMA ChunkContent ==
    ASSUME NEW a \in Content, NEW c \in DOMAIN a.data, NEW v \in 0..MaxEdits
    PROVE  LET new == [a EXCEPT !.data[c] = v]
           IN  /\ new \in Content /\ new.kind = a.kind
               /\ Len(new.data) = Len(a.data) /\ DOMAIN new.data = DOMAIN a.data
               /\ new.data[c] = v
               /\ \A b \in DOMAIN a.data : b # c => new.data[b] = a.data[b]
<1> DEFINE d == [a.data EXCEPT ![c] = v]
<1>1. a.data \in Seq(0..MaxEdits)
  BY DEF Content
<1>2. /\ d \in Seq(0..MaxEdits) /\ Len(d) = Len(a.data) /\ DOMAIN d = DOMAIN a.data
      /\ d[c] = v /\ \A b \in DOMAIN a.data : b # c => d[b] = a.data[b]
  BY <1>1
<1>3. [a EXCEPT !.data[c] = v] = [a EXCEPT !.data = d]
  BY Zenon
<1> HIDE DEF d
<1> QED
  BY <1>2, <1>3 DEF Content

(* A buffer that is read is added to the copy.                             *)
LEMMA LongerContent ==
    ASSUME NEW a \in Content, NEW v \in 0..MaxEdits
    PROVE  LET new == [a EXCEPT !.data = Append(a.data, v)]
           IN  /\ new \in Content /\ new.kind = a.kind
               /\ Len(new.data) = Len(a.data) + 1
               /\ DOMAIN new.data = 1..Len(a.data) + 1
               /\ new.data # <<>>
               /\ new.data[Len(a.data) + 1] = v
               /\ \A b \in DOMAIN a.data : new.data[b] = a.data[b]
<1> DEFINE d == Append(a.data, v)
<1>1. a.data \in Seq(0..MaxEdits)
  BY DEF Content
<1>2. /\ d \in Seq(0..MaxEdits) /\ Len(d) = Len(a.data) + 1 /\ d # <<>>
      /\ d[Len(a.data) + 1] = v /\ \A b \in DOMAIN a.data : d[b] = a.data[b]
  BY <1>1
<1>3. DOMAIN d = 1..Len(a.data) + 1
  BY <1>2
<1> HIDE DEF d
<1>4. [a EXCEPT !.data = Append(a.data, v)] = [a EXCEPT !.data = d]
  BY DEF d
<1> QED
  BY <1>2, <1>3, <1>4 DEF Content

(* One edit: a path gets a new content that is all new, a new buffer, or   *)
(* is no longer there.  A path that was there at first only ceases to be.  *)
Edited(e, new) ==
    /\ host' = [host EXCEPT ![e] = new]
    /\ new \in Content
    /\ edits' = edits + 1 /\ edits' \in 0..MaxEdits
    /\ \/ /\ new.kind # "absent" /\ new.data # <<>> /\ 1 \in DOMAIN new.data
          /\ \A c \in DOMAIN new.data : new.data[c] = edits'
          /\ new.kind = "file" => Len(new.data) = ChunksOf[e]
          /\ IF e \in Absent0 THEN Admitted(new.kind) ELSE Admitted(host[e].kind)
       \/ /\ host[e].kind = "file" /\ new.kind = "file"
          /\ Len(new.data) = Len(host[e].data) /\ DOMAIN new.data = DOMAIN host[e].data
          /\ \E c \in DOMAIN new.data :
                /\ new.data[c] = edits'
                /\ \A b \in DOMAIN new.data : b # c => new.data[b] = host[e].data[b]
       \/ /\ e \notin Absent0 /\ new.kind = "absent" /\ new.data = host[e].data

(* The editor's steps are of these kinds.                                  *)
LEMMA EditorSteps ==
    ASSUME TypeOK, TreeInv, Editor
    PROVE  /\ \E e \in Entries : \E new \in Content : Edited(e, new)
           /\ UNCHANGED <<ctxDone, main, copyVars, tmpThere>>
           /\ main \notin {"prepared", "failed"}
<1>0. edits < MaxEdits => edits + 1 \in 0..MaxEdits
  BY CopyAssumption DEF TypeOK
<1>1. ASSUME NEW e \in Entries, Rewrite(e)
      PROVE  \E new \in Content : Edited(e, new)
  <2>1. PICK k \in Kind \ {"absent"} :
           /\ k = "outlink" => e \notin Absent0
           /\ Touch(e, Stamped(e, k, edits + 1))
    BY <1>1 DEF Rewrite
  <2>2. edits + 1 \in 0..MaxEdits
    BY <1>0, <2>1 DEF Touch
  <2> DEFINE new == Stamped(e, k, edits + 1)
  <2>3. /\ new \in Content /\ new.kind = k
        /\ k = "file" => Len(new.data) = ChunksOf[e]
        /\ new.data # <<>> /\ 1 \in DOMAIN new.data
        /\ \A c \in DOMAIN new.data : new.data[c] = edits + 1
    BY <2>2, StampedContent
  <2> HIDE DEF new
  <2>4. host' = [host EXCEPT ![e] = new] /\ edits' = edits + 1
    BY <2>1 DEF Touch, new
  <2>5. IF e \in Absent0 THEN Admitted(k) ELSE Admitted(host[e].kind)
    BY <1>1, <2>1 DEF Rewrite, Admitted, Kind
  <2>6. Edited(e, new)
    BY <2>1, <2>2, <2>3, <2>4, <2>5 DEF Edited
  <2> QED
    BY <2>3, <2>6
<1>2. ASSUME NEW e \in Entries, RewriteChunk(e)
      PROVE  \E new \in Content : Edited(e, new)
  <2>1. PICK c \in 1..ChunksOf[e] : Touch(e, [host[e] EXCEPT !.data[c] = edits + 1])
    BY <1>2 DEF RewriteChunk
  <2>2. /\ host[e] \in Content /\ host[e].kind = "file" /\ c \in DOMAIN host[e].data
        /\ edits + 1 \in 0..MaxEdits
    <3>1. host[e].data \in Seq(0..MaxEdits) /\ Len(host[e].data) = ChunksOf[e]
      BY <1>2 DEF TypeOK, Content, TreeInv, PathInv, RewriteChunk
    <3> QED
      BY <1>0, <1>2, <2>1, <3>1 DEF TypeOK, RewriteChunk, Touch
  <2> DEFINE new == [host[e] EXCEPT !.data[c] = edits + 1]
  <2>3. /\ new \in Content /\ new.kind = "file"
        /\ Len(new.data) = Len(host[e].data) /\ DOMAIN new.data = DOMAIN host[e].data
        /\ new.data[c] = edits + 1
        /\ \A b \in DOMAIN new.data : b # c => new.data[b] = host[e].data[b]
    BY <2>2, ChunkContent
  <2>4. host' = [host EXCEPT ![e] = new] /\ edits' = edits + 1
    BY <2>1 DEF Touch
  <2> HIDE DEF new
  <2>5. Edited(e, new)
    BY <2>2, <2>3, <2>4 DEF Edited
  <2> QED
    BY <2>3, <2>5
<1>3. ASSUME NEW e \in Entries, Remove(e)
      PROVE  \E new \in Content : Edited(e, new)
  <2> DEFINE new == [host[e] EXCEPT !.kind = "absent"]
  <2>1. new \in Content /\ new.kind = "absent" /\ new.data = host[e].data
    BY DEF TypeOK, Content, Kind
  <2> HIDE DEF new
  <2>2. host' = [host EXCEPT ![e] = new] /\ edits' = edits + 1 /\ edits + 1 \in 0..MaxEdits
    BY <1>0, <1>3 DEF Remove, Touch, new
  <2>3. Edited(e, new)
    BY <1>3, <2>1, <2>2 DEF Edited, Remove
  <2> QED
    BY <2>1, <2>3
<1> QED
  BY <1>1, <1>2, <1>3 DEF Editor, Rewrite, RewriteChunk, Remove, Touch

-----------------------------------------------------------------------------
(* The steps, by what they leave alone.                                    *)

(* The verification of copy and index, and what follows it.                *)
Checking == VerifyList \/ VerifyEntry \/ VerifyBytes \/ VerifyBytesDiffer
            \/ VerifyGone \/ VerifyIndex \/ VerifyAncestors \/ Rest

(* Pinning the index, before anything is copied.                           *)
Pinning == Begin \/ CaptureMetadata \/ CaptureFails

(* The walk and the copiers.                                               *)
Copying == WalkSteps \/ \E c \in Copiers : CopierSteps(c)

(* Every step is one of these.                                             *)
LEMMA Steps ==
    ASSUME [Next]_vars
    PROVE  \/ CtxDone \/ EditTree \/ EditGit \/ Pinning \/ StartCopy \/ Copying
           \/ CopyReturns \/ Checking \/ UNCHANGED vars
BY DEF Next, Caller, Pinning, Copying, Checking, Terminated

(* Checking reads the trees and the repository, and changes neither        *)
(* (snapshot_verify.go:28-97).                                             *)
LEMMA CheckingReads ==
    ASSUME Checking
    PROVE  /\ UNCHANGED <<host, edits, ctxDone, copyVars, useGit, git, pinned, moment>>
           /\ main \in {"verify", "index", "ancestors", "rest"}
           /\ main' \in {"verify", "index", "ancestors", "rest", "prepared", "failed"}
BY DEF Checking, VerifyList, VerifyEntry, VerifyBytes, VerifyBytesDiffer, VerifyGone,
       VerifyIndex, VerifyAncestors, Rest, Verify, Goto, Return, gitVars, checkVars

(* Pinning touches no tree (snapshot.go:33-77).                            *)
LEMMA PinningTouchesNoTree ==
    ASSUME Pinning
    PROVE  /\ UNCHANGED <<host, edits, ctxDone, copyVars, useGit, git, checkVars>>
           /\ main \in {"start", "meta"} /\ main' \in {"meta", "copy", "failed"}
BY DEF Pinning, Begin, CaptureMetadata, CaptureFails, Return

(* The walk and the copiers work while their caller waits, and change only *)
(* what is theirs (workspace.go:581-690).                                  *)
LEMMA CopyingIsLocal ==
    ASSUME Copying
    PROVE  /\ UNCHANGED <<host, edits, ctxDone, main, workers, tmpThere, gitVars, checkVars>>
           /\ main = "copy"
BY DEF Copying, WalkSteps, CopierSteps, Walker, Copier, ListEntry, VisitEntry, Enqueue,
       GiveUpEnqueue, WalkStep, TakeJob, LeaveQueue, CopyCancelled, CloneFile, OpenCopy,
       CopyChunk

-----------------------------------------------------------------------------
(* The first state.                                                        *)

(* Nothing is copied, pinned or verified (analysis.go:308-316).            *)
LEMMA CopyInvInit == Init => CopyInv
<1> SUFFICES ASSUME Init
             PROVE  CopyInv
  OBVIOUS
<1> USE CopyAssumption DEF Init, CopyInit
<1>1. TypeOK
  <2>1. /\ ctxDone \in BOOLEAN /\ cancelled \in BOOLEAN /\ tmpThere \in BOOLEAN
        /\ useGit \in BOOLEAN /\ gitTemp \in BOOLEAN
    BY Zenon
  <2>2. Missing \in Content /\ 0 \in 0..MaxEdits
    BY DEF Missing, Content, Kind
  <2>3. host \in [Entries -> Content] /\ tmp \in [Entries -> Content]
    BY <2>2, StampedContent DEF Kind
  <2>4. git \in Versions /\ pinned \in Versions /\ edits \in 0..MaxEdits
    BY <2>2 DEF Git0, Versions
  <2>5. moment \in Moment /\ walk \in WalkState /\ verify \in VerifyState
    BY <2>3, <2>4 DEF Moment, WalkState, VerifyState, Kind
  <2>6. queue \in Seq(Entries) /\ Len(queue) <= QueueCap
    OBVIOUS
  <2>7. copier \in [Copiers -> CopierState]
    BY DEF CopierState
  <2> QED
    BY <2>1, <2>3, <2>4, <2>5, <2>6, <2>7 DEF TypeOK, Kind
<1>2. PoolInv /\ CauseInv /\ NothingLeft
  BY PoolMembers DEF PoolInv, CauseInv, NothingLeft, Busy
<1>3. NoWriterLeft /\ NoStuckQueue
  BY DEF NoWriterLeft, NoStuckQueue
<1>4. TreeInv
  <2>1. ASSUME NEW e \in Entries
        PROVE  /\ UpTo(host[e], edits)
               /\ host[e].kind # "absent" \/ e \notin Absent0 => host[e].data # <<>>
               /\ host[e].kind = "file" => Len(host[e].data) = ChunksOf[e]
    <3>1. CASE e \in Absent0
      BY <3>1 DEF UpTo, Missing
    <3>2. CASE e \notin Absent0
      BY <3>2, StampedContent DEF UpTo, Kind
    <3> QED
      BY <3>1, <3>2
  <2>2. \A e \in Entries : UpTo(tmp[e], edits) /\ tmp[e].kind = "absent" /\ tmp[e].data = <<>>
    BY DEF UpTo, Missing
  <2>3. \A c \in Copiers : copier[c].at = "idle"
    OBVIOUS
  <2>4. walk.pos = 1 /\ \A e \in Entries : ~(e < walk.pos)
    BY DEF Entries
  <2> QED
    BY <2>1, <2>2, <2>3, <2>4 DEF TreeInv, PathInv
<1>5. MomentInv /\ VerifyInv
  BY DEF MomentInv, VerifyInv, Captured
<1>6. GitInv
  BY DEF GitInv, Git0, Captured
<1> QED
  BY <1>1, <1>2, <1>3, <1>4, <1>5, <1>6 DEF CopyInv

-----------------------------------------------------------------------------
(* Types.                                                                  *)

(* A walk that ends or goes on is typed.                                   *)
LEMMA WalkTyped ==
    ASSUME NEW w \in WalkState
    PROVE  /\ Ended(w) \in WalkState
           /\ w.pos <= N => NextEntry(w) \in WalkState
           /\ \A k \in Kind : [w EXCEPT !.at = "visit", !.kind = k] \in WalkState
           /\ \A a \in {"enqueue", "copying"} : [w EXCEPT !.at = a] \in WalkState
<1>1. /\ Ended(w) \in WalkState
      /\ \A k \in Kind : [w EXCEPT !.at = "visit", !.kind = k] \in WalkState
      /\ \A a \in {"enqueue", "copying"} : [w EXCEPT !.at = a] \in WalkState
  BY DEF WalkState, Ended
<1>2. ASSUME w.pos <= N
      PROVE  NextEntry(w) \in WalkState
  <2>1. w.pos + 1 \in 1..N + 1
    BY <1>2, CopyAssumption DEF WalkState
  <2> DEFINE p == w.pos + 1
  <2>2. NextEntry(w) = [w EXCEPT !.at = "list", !.pos = p]
    BY DEF NextEntry
  <2> HIDE DEF p
  <2> QED
    BY <2>1, <2>2 DEF WalkState, p
<1> QED
  BY <1>1, <1>2

(* A verification that goes on is typed.                                   *)
LEMMA VerifyTyped ==
    ASSUME verify \in VerifyState
    PROVE  /\ verify.pos <= N => NextPath \in VerifyState
           /\ \A a \in {"list", "entry", "bytes", "gone"} :
                 [verify EXCEPT !.at = a] \in VerifyState
           /\ \A k \in Kind : [verify EXCEPT !.at = "entry", !.kind = k] \in VerifyState
           /\ \A c \in Nat : [verify EXCEPT !.chunk = c] \in VerifyState
<1>1. ASSUME verify.pos <= N
      PROVE  NextPath \in VerifyState
  <2> DEFINE p == verify.pos + 1
  <2>1. p \in 1..N + 1
    BY <1>1, CopyAssumption DEF VerifyState
  <2>2. NextPath = [verify EXCEPT !.at = "list", !.pos = p, !.chunk = 0]
    BY DEF NextPath
  <2> HIDE DEF p
  <2> QED
    BY <2>1, <2>2 DEF VerifyState
<1> QED
  BY <1>1 DEF VerifyState

(* A queue with one job more or less is typed.                             *)
LEMMA QueueTyped ==
    ASSUME NEW q \in Seq(Entries), Len(q) <= QueueCap
    PROVE  /\ \A e \in Entries : Len(q) < QueueCap =>
                Append(q, e) \in Seq(Entries) /\ Len(Append(q, e)) <= QueueCap
           /\ q # <<>> => /\ Head(q) \in Entries
                          /\ Tail(q) \in Seq(Entries) /\ Len(Tail(q)) <= QueueCap
BY CopyAssumption

(* What a job more or less leaves in the queue.                            *)
LEMMA QueueMembers ==
    ASSUME NEW q \in Seq(Entries), NEW e \in Entries
    PROVE  /\ \A i \in DOMAIN Append(q, e) :
                 (i \in DOMAIN q /\ Append(q, e)[i] = q[i]) \/ Append(q, e)[i] = e
           /\ \A i \in DOMAIN q : i \in DOMAIN Append(q, e) /\ Append(q, e)[i] = q[i]
           /\ \E i \in DOMAIN Append(q, e) : Append(q, e)[i] = e
           /\ q # <<>> =>
                 /\ 1 \in DOMAIN q /\ Head(q) = q[1]
                 /\ \A i \in DOMAIN Tail(q) : i + 1 \in DOMAIN q /\ Tail(q)[i] = q[i + 1]
                 /\ \A i \in DOMAIN q : i = 1 \/ (i - 1 \in DOMAIN Tail(q) /\ Tail(q)[i - 1] = q[i])
<1>1. \E i \in DOMAIN Append(q, e) : Append(q, e)[i] = e
  <2>1. Len(q) + 1 \in DOMAIN Append(q, e) /\ Append(q, e)[Len(q) + 1] = e
    OBVIOUS
  <2> QED
    BY <2>1
<1> QED
  BY <1>1

(* What a copier does next is typed.                                       *)
LEMMA CopierTyped ==
    ASSUME NEW f \in [Copiers -> CopierState], NEW c \in Copiers,
           NEW a \in {"idle", "open", "bytes", "exited"}, NEW j \in 0..N
    PROVE  /\ [f EXCEPT ![c].at = a] \in [Copiers -> CopierState]
           /\ [f EXCEPT ![c] = [at |-> a, job |-> j]] \in [Copiers -> CopierState]
BY DEF CopierState

(* Every variable stays in its type.                                       *)
LEMMA TypeStep ==
    ASSUME TypeOK, PoolInv, TreeInv, VerifyInv, [Next]_vars
    PROVE  TypeOK'
<1> USE CopyAssumption
<1>1. CASE CtxDone
  BY <1>1 DEF CtxDone, copyVars, gitVars, checkVars, TypeOK
<1>2. CASE EditTree
  <2>1. /\ \E e \in Entries : \E new \in Content : Edited(e, new)
        /\ UNCHANGED <<ctxDone, main, copyVars, tmpThere, gitVars, checkVars>>
    BY <1>2, EditorSteps DEF EditTree
  <2> QED
    BY <2>1 DEF Edited, copyVars, gitVars, checkVars, TypeOK
<1>3. CASE EditGit
  <2>1. edits' \in 0..MaxEdits /\ git' \in Versions
    BY <1>3 DEF EditGit, TypeOK, Versions
  <2> QED
    BY <1>3, <2>1 DEF EditGit, copyVars, checkVars, TypeOK
<1>4. CASE Pinning
  <2>1. main' \in {"meta", "copy", "failed"} /\ pinned' \in Versions
    BY <1>4 DEF Pinning, Begin, CaptureMetadata, CaptureFails, Return, TypeOK, Versions
  <2>2. tmpThere' \in BOOLEAN /\ gitTemp' \in BOOLEAN
    BY <1>4 DEF Pinning, Begin, CaptureMetadata, CaptureFails, Return, TypeOK
  <2> QED
    BY <1>4, <2>1, <2>2, PinningTouchesNoTree DEF copyVars, checkVars, TypeOK
<1>5. CASE StartCopy
  <2>1. main' \in {"copy", "failed"} /\ walk' \in WalkState
    BY <1>5 DEF StartCopy, Return, copyVars, TypeOK, WalkState
  <2>2. tmpThere' \in BOOLEAN /\ gitTemp' \in BOOLEAN
    BY <1>5 DEF StartCopy, Return, gitVars, TypeOK
  <2> QED
    BY <1>5, <2>1, <2>2 DEF StartCopy, Return, copyVars, gitVars, checkVars, TypeOK
<1>6. CASE Copying
  <2>1. walk' \in WalkState /\ walkErr' \in {"none", "cancelled", "source", "disk"}
    <3>0. walk \in WalkState /\ Ended(walk) \in WalkState /\ (Busy(0) => walk.pos <= N)
          /\ (walk.at \in {"visit", "enqueue"} => walk.pos <= N)
          /\ [walk EXCEPT !.at = "enqueue"] \in WalkState
          /\ [walk EXCEPT !.at = "copying"] \in WalkState
      BY WalkTyped DEF TypeOK, PoolInv
    <3>1. CASE WalkSteps
      <4>1. CASE ListEntry
        <5>1. walk.pos <= N => walk.pos \in Entries /\ host[walk.pos].kind \in Kind
          BY <3>0 DEF TypeOK, Content, Entries, WalkState
        <5>2. walk.pos <= N =>
                [walk EXCEPT !.at = "visit", !.kind = host[walk.pos].kind] \in WalkState
          BY <3>0, <5>1, WalkTyped
        <5>3. walk.pos <= N => NextEntry(walk) \in WalkState
          BY <3>0, WalkTyped
        <5>4. ~(walk.pos > N) => walk.pos <= N
          BY <3>0 DEF WalkState
        <5> QED
          BY <3>0, <4>1, <5>2, <5>3, <5>4 DEF ListEntry, WalkStep
      <4>2. CASE VisitEntry
        <5>1. NextEntry(walk) \in WalkState
          BY <3>0, <4>2, WalkTyped DEF VisitEntry
        <5> QED
          BY <3>0, <4>2, <5>1 DEF VisitEntry, WalkStep
      <4>3. CASE Enqueue
        <5>1. NextEntry(walk) \in WalkState
          BY <3>0, <4>3, WalkTyped DEF Enqueue
        <5> QED
          BY <3>0, <4>3, <5>1 DEF Enqueue, TypeOK
      <4>4. CASE GiveUpEnqueue
        BY <3>0, <4>4, WalkTyped DEF GiveUpEnqueue, WalkStep, TypeOK
      <4> QED
        BY <3>1, <4>1, <4>2, <4>3, <4>4 DEF WalkSteps, Walker
    <3>2. ASSUME NEW c \in Copiers, CopierSteps(c)
          PROVE  walk' \in WalkState /\ walkErr' \in {"none", "cancelled", "source", "disk"}
      BY <3>0, <3>2, WalkTyped DEF CopierSteps, Copier, TakeJob, LeaveQueue,
         CopyCancelled, CloneFile, OpenCopy, CopyChunk, CopyFails, WorkerFails,
         WalkCopyFails, CopyDone, TypeOK, Busy
    <3> QED
      BY <1>6, <3>1, <3>2 DEF Copying
  <2>2. queue' \in Seq(Entries) /\ Len(queue') <= QueueCap
    <3>0. queue \in Seq(Entries) /\ Len(queue) <= QueueCap
      BY DEF TypeOK
    <3>1. CASE Enqueue
      <4>1. walk.pos \in Entries
        BY <3>1 DEF Enqueue, PoolInv, TypeOK, WalkState, Entries
      <4> QED
        BY <3>0, <3>1, <4>1, QueueTyped DEF Enqueue
    <3>2. ASSUME NEW c \in Copiers, TakeJob(c)
          PROVE  queue' \in Seq(Entries) /\ Len(queue') <= QueueCap
      BY <3>0, <3>2, QueueTyped DEF TakeJob
    <3>3. CASE UNCHANGED queue
      BY <3>0, <3>3
    <3> QED
      BY <1>6, <3>1, <3>2, <3>3 DEF Copying, WalkSteps, Walker, ListEntry, VisitEntry,
         GiveUpEnqueue, WalkStep, CopierSteps, Copier, LeaveQueue, CopyCancelled, CloneFile,
         OpenCopy, CopyChunk
  <2>3. copier' \in [Copiers -> CopierState]
    <3>0. copier \in [Copiers -> CopierState] /\ 0 \in Copiers
      BY PoolMembers DEF TypeOK
    <3>1. CASE Enqueue
      <4>1. walk.pos \in 0..N
        BY <3>1 DEF Enqueue, PoolInv, TypeOK, WalkState
      <4>2. [copier EXCEPT ![0] = [at |-> "open", job |-> walk.pos]]
               \in [Copiers -> CopierState]
        BY <3>0, <4>1, CopierTyped
      <4> QED
        BY <3>0, <3>1, <4>2 DEF Enqueue
    <3>2. CASE UNCHANGED copier
      BY <3>0, <3>2
    <3>3. ASSUME NEW c \in Copiers, CopierSteps(c)
          PROVE  copier' \in [Copiers -> CopierState]
      <4>1. CASE TakeJob(c)
        <5>1. Head(queue) \in 0..N
          BY <4>1, QueueTyped DEF TakeJob, TypeOK, Entries
        <5> QED
          BY <3>0, <4>1, <5>1, CopierTyped DEF TakeJob
      <4>2. \A a \in {"idle", "open", "bytes", "exited"} :
               /\ [copier EXCEPT ![c].at = a] \in [Copiers -> CopierState]
               /\ [copier EXCEPT ![0].at = a] \in [Copiers -> CopierState]
        BY <3>0, CopierTyped, 0 \in 0..N, CopyAssumption
      <4> QED
        BY <3>0, <3>3, <4>1, <4>2 DEF CopierSteps, Copier, LeaveQueue, CopyCancelled,
           CloneFile, OpenCopy, CopyChunk, CopyFails, WorkerFails, WalkCopyFails, CopyDone
    <3> QED
      BY <1>6, <3>1, <3>2, <3>3 DEF Copying, WalkSteps, Walker, ListEntry, VisitEntry,
         GiveUpEnqueue, WalkStep
  <2>4. cancelled' \in BOOLEAN /\ firstCopyErr' \in {"none", "cancelled", "source", "disk"}
    <3>1. CASE WalkSteps
      BY <3>1 DEF WalkSteps, Walker, ListEntry, VisitEntry, Enqueue, GiveUpEnqueue,
         WalkStep, TypeOK
    <3>2. ASSUME NEW c \in Copiers, CopierSteps(c)
          PROVE  cancelled' \in BOOLEAN /\ firstCopyErr' \in {"none", "cancelled", "source", "disk"}
      BY <3>2 DEF CopierSteps, Copier, TakeJob, LeaveQueue, CopyCancelled, CloneFile,
         OpenCopy, CopyChunk, CopyFails, WorkerFails, WalkCopyFails, CopyDone, TypeOK
    <3> QED
      BY <1>6, <3>1, <3>2 DEF Copying
  <2>5. tmp' \in [Entries -> Content]
    <3>0. tmp \in [Entries -> Content] /\ host \in [Entries -> Content]
      BY DEF TypeOK
    <3>1. CASE WalkSteps
      <4>1. CASE UNCHANGED tmp
        BY <3>0, <4>1
      <4>2. CASE walk.at = "visit" /\ tmp' = [tmp EXCEPT ![walk.pos] = host[walk.pos]]
        <5>1. walk.pos \in Entries
          BY <4>2 DEF PoolInv, TypeOK, WalkState, Entries
        <5>2. host[walk.pos] \in Content
          BY <3>0, <5>1
        <5> QED
          BY <3>0, <4>2, <5>2
      <4>3. CASE ListEntry
        BY <4>1, <4>3 DEF ListEntry
      <4>4. CASE VisitEntry
        BY <4>1, <4>2, <4>4 DEF VisitEntry
      <4>5. CASE Enqueue \/ GiveUpEnqueue
        BY <4>1, <4>5 DEF Enqueue, GiveUpEnqueue
      <4> QED
        BY <3>1, <4>3, <4>4, <4>5 DEF WalkSteps, Walker
    <3>2. ASSUME NEW c \in Copiers, CopierSteps(c)
          PROVE  tmp' \in [Entries -> Content]
      <4> DEFINE e == copier[c].job
      <4>1. CASE CloneFile(c) \/ OpenCopy(c)
        <5>1. \A d \in Seq(0..MaxEdits) : [kind |-> "file", data |-> d] \in Content
          BY DEF Content, Kind
        <5>2. e \in Entries => host[e].data \in Seq(0..MaxEdits)
          BY DEF TypeOK, Content
        <5>3. <<>> \in Seq(0..MaxEdits)
          OBVIOUS
        <5>4. \/ UNCHANGED tmp
              \/ tmp' = [tmp EXCEPT ![e] = [kind |-> "file", data |-> host[e].data]]
              \/ tmp' = [tmp EXCEPT ![e] = [kind |-> "file", data |-> <<>>]]
          BY <4>1 DEF CloneFile, OpenCopy
        <5> QED
          BY <5>1, <5>2, <5>3, <5>4 DEF TypeOK
      <4>2. CASE CopyChunk(c)
        <5> DEFINE have == Len(tmp[e].data)
                    v == host[e].data[have + 1]
                    new == [tmp[e] EXCEPT !.data = Append(tmp[e].data, v)]
        <5>1. CASE UNCHANGED tmp
          BY <5>1 DEF TypeOK
        <5>2. CASE have < Len(host[e].data)
                   /\ tmp' = [tmp EXCEPT ![e].data = Append(@, host[e].data[have + 1])]
          <6>1. e \in Entries => v \in 0..MaxEdits /\ tmp[e] \in Content
            <7> SUFFICES ASSUME e \in Entries
                         PROVE  v \in 0..MaxEdits /\ tmp[e] \in Content
              OBVIOUS
            <7>1. tmp[e] \in Content /\ host[e] \in Content
              BY <3>0
            <7>2. have \in Nat
              BY <7>1, Stamps
            <7>3. host[e].data \in Seq(0..MaxEdits) /\ have + 1 \in 1..Len(host[e].data)
              <8>1. host[e].data \in Seq(0..MaxEdits) /\ Len(host[e].data) \in Nat
                BY <7>1, Stamps
              <8>2. \A a, b \in Nat : a < b => a + 1 \in 1..b
                OBVIOUS
              <8>3. have < Len(host[e].data)
                BY <5>2
              <8> HIDE DEF have
              <8> QED
                BY <7>2, <8>1, <8>2, <8>3
            <7>4. v \in 0..MaxEdits
              <8>1. \A S : \A s \in Seq(S) : \A b \in 1..Len(s) : s[b] \in S
                OBVIOUS
              <8> QED
                BY <7>3, <8>1
            <7> QED
              BY <7>1, <7>4
          <6>2. tmp' = [tmp EXCEPT ![e] = new]
            BY <5>2
          <6>3. e \in Entries => new \in Content
            BY <6>1, LongerContent
          <6> HIDE DEF new
          <6> QED
            BY <6>2, <6>3 DEF TypeOK
        <5> QED
          BY <4>2, <5>1, <5>2 DEF CopyChunk
      <4>3. CASE TakeJob(c) \/ LeaveQueue(c) \/ CopyCancelled(c)
        BY <4>3 DEF TakeJob, LeaveQueue, CopyCancelled, TypeOK
      <4> QED
        BY <3>2, <4>1, <4>2, <4>3 DEF CopierSteps, Copier
    <3> QED
      BY <1>6, <3>1, <3>2 DEF Copying
  <2> QED
    BY <1>6, <2>1, <2>2, <2>3, <2>4, <2>5, CopyingIsLocal DEF gitVars, checkVars, TypeOK
<1>7. CASE CopyReturns
  <2>1. main' \in {"verify", "failed"} /\ verify' \in VerifyState /\ moment' \in Moment
    <3>0. verify \in VerifyState /\ moment \in Moment /\ host \in [Entries -> Content]
          /\ git \in Versions /\ edits \in 0..MaxEdits
      BY DEF TypeOK
    <3>1. CASE Return("failed")
      <4>1. main' = "failed" /\ UNCHANGED <<verify, moment>>
        BY <3>1 DEF Return, checkVars
      <4> QED
        BY <3>0, <4>1
    <3>2. CASE /\ main' = "verify"
               /\ verify' = [verify EXCEPT !.at = "list"]
               /\ moment' = [tree |-> host, git |-> git, edits |-> edits]
      <4>1. [verify EXCEPT !.at = "list"] \in VerifyState
        BY <3>0 DEF VerifyState
      <4>2. [tree |-> host, git |-> git, edits |-> edits] \in Moment
        BY <3>0 DEF Moment
      <4> QED
        BY <3>2, <4>1, <4>2
    <3> QED
      BY <1>7, <3>1, <3>2 DEF CopyReturns
  <2>2. tmpThere' \in BOOLEAN /\ gitTemp' \in BOOLEAN
    BY <1>7 DEF CopyReturns, Return, gitVars, TypeOK
  <2> QED
    BY <1>7, <2>1, <2>2 DEF CopyReturns, Return, copyVars, gitVars, checkVars, TypeOK
<1>8. CASE Checking
  <2>0. /\ verify \in VerifyState /\ (verify.at \in {"entry", "bytes"} => verify.pos \in Entries)
        /\ \A e \in Entries : host[e].kind \in Kind
        /\ verify.at \in {"entry", "bytes"} => verify.pos <= N
    <3>1. Captured
      BY <1>8, CheckingReads DEF Captured
    <3>2. verify.at \in {"entry", "bytes"} => verify.pos \in Entries
      BY <3>1 DEF VerifyInv
    <3>3. /\ verify \in VerifyState /\ \A e \in Entries : host[e].kind \in Kind
          /\ \A e \in Entries : e <= N
      BY DEF TypeOK, Content, Entries
    <3> QED
      BY <3>2, <3>3
  <2>1. verify' \in VerifyState
    <3>1. CASE UNCHANGED verify
      BY <3>1 DEF TypeOK
    <3>2. CASE VerifyList
      <4>1. ~(verify.pos > N) => verify.pos \in Entries /\ verify.pos <= N
        BY <2>0 DEF VerifyState, Entries
      <4> QED
        BY <2>0, <3>2, <4>1, VerifyTyped DEF VerifyList, Verify
    <3>3. CASE VerifyEntry
      BY <2>0, <3>3, VerifyTyped DEF VerifyEntry, Return, checkVars, Verify
    <3>4. CASE VerifyBytes
      <4>1. verify.chunk + 1 \in Nat
        BY <2>0 DEF VerifyState
      <4> QED
        BY <2>0, <3>4, <4>1, VerifyTyped DEF VerifyBytes, Verify
    <3> QED
      BY <1>8, <3>1, <3>2, <3>3, <3>4 DEF Checking, VerifyBytesDiffer, VerifyGone,
         VerifyIndex, VerifyAncestors, Rest, Goto, Return, checkVars
  <2>2. seen' \subseteq Entries
    BY <1>8, <2>0 DEF Checking, VerifyList, VerifyEntry, VerifyBytes, VerifyBytesDiffer,
       VerifyGone, VerifyIndex, VerifyAncestors, Rest, Verify, Goto, Return, checkVars, TypeOK
  <2>3. tmpThere' \in BOOLEAN /\ gitTemp' \in BOOLEAN
    BY <1>8 DEF Checking, VerifyList, VerifyEntry, VerifyBytes, VerifyBytesDiffer,
       VerifyGone, VerifyIndex, VerifyAncestors, Rest, Verify, Goto, Return, gitVars, TypeOK
  <2> QED
    BY <1>8, <2>1, <2>2, <2>3, CheckingReads DEF copyVars, TypeOK
<1>9. CASE UNCHANGED vars
  BY <1>9 DEF vars, copyVars, gitVars, checkVars, TypeOK
<1> QED
  BY <1>1, <1>2, <1>3, <1>4, <1>5, <1>6, <1>7, <1>8, <1>9, Steps

-----------------------------------------------------------------------------
(* What the walk and the copiers do to what they share.                    *)

(* The walk looks at a path, passes it, or stops.                          *)
WalkGoes ==
    /\ walk.at \in {"list", "visit", "enqueue"}
    /\ UNCHANGED <<queue, copier, cancelled, firstCopyErr>>
    /\ walkErr' \in {"none", "cancelled", "source"}
    /\ \/ /\ walk'.at = "end" /\ walk'.pos = walk.pos
          /\ walkErr' = "none" => walk.pos = N + 1
          /\ walkErr' = "cancelled" => CopyErr
          /\ UNCHANGED tmp
       \/ /\ walk.at \in {"list", "visit"} /\ walk.pos <= N
          /\ walk'.at = "list" /\ walk'.pos = walk.pos + 1
          /\ walkErr' = "none"
          /\ \/ UNCHANGED tmp /\ ~Admitted(host[walk.pos].kind)
             \/ /\ tmp' = [tmp EXCEPT ![walk.pos] = host[walk.pos]]
                /\ host[walk.pos].kind \in {"link", "outlink"}
       \/ /\ walk.at \in {"list", "visit"} /\ walk.pos <= N
          /\ walk'.at \in {"visit", "enqueue"} /\ walk'.pos = walk.pos
          /\ walkErr' = "none"
          /\ UNCHANGED tmp

(* The walk gives the pool a job.                                          *)
WalkQueues ==
    /\ walk.at = "enqueue" /\ workers > 1
    /\ queue' = Append(queue, walk.pos)
    /\ walk'.at = "list" /\ walk'.pos = walk.pos + 1
    /\ UNCHANGED <<copier, cancelled, firstCopyErr, walkErr, tmp>>

(* The walk begins to copy by itself.                                      *)
WalkCopies ==
    /\ walk.at = "enqueue" /\ workers = 1
    /\ copier' = [copier EXCEPT ![0] = [at |-> "open", job |-> walk.pos]]
    /\ walk'.at = "copying" /\ walk'.pos = walk.pos
    /\ UNCHANGED <<queue, cancelled, firstCopyErr, walkErr, tmp>>

(* A step of the walk is one of these (workspace.go:581-676).              *)
LEMMA WalkEffects ==
    ASSUME TypeOK, PoolInv, WalkSteps
    PROVE  WalkGoes \/ WalkQueues \/ WalkCopies
<1>0. walk \in WalkState /\ walk.pos \in 1..N + 1 /\ N \in Nat /\ workers \in 1..8
  BY CopyAssumption, PoolMembers DEF TypeOK, WalkState
<1>1. /\ Ended(walk).at = "end" /\ Ended(walk).pos = walk.pos
      /\ NextEntry(walk).at = "list" /\ NextEntry(walk).pos = walk.pos + 1
      /\ \A k : /\ [walk EXCEPT !.at = "visit", !.kind = k].at = "visit"
                /\ [walk EXCEPT !.at = "visit", !.kind = k].pos = walk.pos
      /\ [walk EXCEPT !.at = "enqueue"].at = "enqueue"
      /\ [walk EXCEPT !.at = "enqueue"].pos = walk.pos
      /\ [walk EXCEPT !.at = "copying"].at = "copying"
      /\ [walk EXCEPT !.at = "copying"].pos = walk.pos
  BY <1>0 DEF WalkState, Ended, NextEntry
<1>2. CASE ListEntry
  <2>1. CASE walk.pos > N
    <3>1. walk' = Ended(walk) /\ walkErr' = "none" /\ walk.at = "list"
          /\ UNCHANGED <<queue, copier, cancelled, firstCopyErr, tmp>>
      BY <1>2, <2>1 DEF ListEntry, WalkStep
    <3> QED
      BY <1>0, <1>1, <2>1, <3>1 DEF WalkGoes
  <2>2. CASE walk.pos <= N
    <3>0. /\ walk.at = "list" /\ walkErr' = "none"
          /\ UNCHANGED <<queue, copier, cancelled, firstCopyErr, tmp>>
      BY <1>2 DEF ListEntry, WalkStep
    <3>1. CASE Admitted(host[walk.pos].kind)
      <4>1. walk' = [walk EXCEPT !.at = "visit", !.kind = host[walk.pos].kind]
        BY <1>0, <1>2, <2>2, <3>1 DEF ListEntry, WalkStep
      <4> QED
        BY <1>1, <2>2, <3>0, <4>1 DEF WalkGoes
    <3>2. CASE ~Admitted(host[walk.pos].kind)
      <4>1. walk' = NextEntry(walk)
        BY <1>0, <1>2, <2>2, <3>2 DEF ListEntry, WalkStep
      <4> QED
        BY <1>1, <2>2, <3>0, <3>2, <4>1 DEF WalkGoes
    <3> QED
      BY <3>1, <3>2
  <2> QED
    BY <1>0, <2>1, <2>2
<1>3. CASE VisitEntry
  BY <1>0, <1>1, <1>3 DEF VisitEntry, WalkStep, WalkGoes, PoolInv
<1>4. CASE Enqueue
  <2>1. CASE workers = 1
    BY <1>1, <1>4, <2>1 DEF Enqueue, WalkCopies
  <2>2. CASE workers > 1
    BY <1>0, <1>1, <1>4, <2>2 DEF Enqueue, WalkQueues
  <2> QED
    BY <1>0, <2>1, <2>2
<1>5. CASE GiveUpEnqueue
  BY <1>0, <1>1, <1>5 DEF GiveUpEnqueue, WalkStep, WalkGoes
<1> QED
  BY <1>2, <1>3, <1>4, <1>5, WalkSteps DEF WalkSteps, Walker

(* Copier c is now at a, with job j.                                       *)
Moves(c, a, j) == copier' = [copier EXCEPT ![c] = [at |-> a, job |-> j]]

(* What becomes of the copy of path e: it is made at once, or made empty,  *)
(* gets a buffer, and is complete when the host's has no other.            *)
Cloned(e) == /\ host[e].kind # "absent"
             /\ tmp' = [tmp EXCEPT ![e] = [kind |-> "file", data |-> host[e].data]]
Opened(e) == /\ host[e].kind # "absent"
             /\ tmp' = [tmp EXCEPT ![e] = [kind |-> "file", data |-> <<>>]]
Longer(e) ==
    LET have == Len(tmp[e].data)
        next == host[e].data[have + 1]
    IN  /\ have < Len(host[e].data)
        /\ tmp' = [tmp EXCEPT ![e] = [tmp[e] EXCEPT !.data = Append(tmp[e].data, next)]]
Complete(e) == Len(tmp[e].data) >= Len(host[e].data) /\ UNCHANGED tmp

(* It takes a job, leaves for good, fails, goes on, or has finished.       *)
Takes(c) ==
    /\ c \in Pool /\ copier[c].at = "idle" /\ queue # <<>>
    /\ Moves(c, "open", Head(queue))
    /\ queue' = Tail(queue)
    /\ UNCHANGED <<walk, walkErr, firstCopyErr, cancelled, tmp>>
Leaves(c) ==
    /\ c \in Pool /\ copier[c].at = "idle" /\ walk.at = "end" /\ queue = <<>>
    /\ Moves(c, "exited", copier[c].job)
    /\ UNCHANGED <<queue, walk, walkErr, firstCopyErr, cancelled, tmp>>
Fails(c, why) ==
    /\ Busy(c) /\ why \in {"cancelled", "source", "disk"}
    /\ why = "cancelled" => CopyErr
    /\ UNCHANGED <<queue, tmp>>
    /\ \/ /\ c = 0 /\ Moves(c, "idle", copier[c].job)
          /\ walk'.at = "end" /\ walk'.pos = walk.pos /\ walkErr' = why
          /\ UNCHANGED <<firstCopyErr, cancelled>>
       \/ /\ c # 0 /\ Moves(c, "exited", copier[c].job)
          /\ firstCopyErr' = IF firstCopyErr = "none" THEN why ELSE firstCopyErr
          /\ cancelled' = TRUE
          /\ UNCHANGED <<walk, walkErr>>
Continues(c) ==
    /\ Busy(c)
    /\ Moves(c, "bytes", copier[c].job)
    /\ UNCHANGED <<queue, walk, walkErr, firstCopyErr, cancelled>>
    /\ \/ copier[c].at = "open" /\ Opened(copier[c].job)
       \/ copier[c].at = "bytes" /\ Longer(copier[c].job)
Finishes(c) ==
    /\ Busy(c)
    /\ Moves(c, "idle", copier[c].job)
    /\ UNCHANGED <<queue, walkErr, firstCopyErr, cancelled>>
    /\ IF c = 0 THEN walk'.at = "list" /\ walk'.pos = walk.pos + 1 ELSE UNCHANGED walk
    /\ \/ copier[c].at = "open" /\ Cloned(copier[c].job)
       \/ copier[c].at = "bytes" /\ Complete(copier[c].job)

(* A step of a copier is one of these (workspace.go:640-676, 741-790).     *)
LEMMA CopierEffects ==
    ASSUME TypeOK, NEW c \in Copiers, CopierSteps(c)
    PROVE  \/ Takes(c) \/ Leaves(c) \/ Continues(c) \/ Finishes(c)
           \/ \E why : Fails(c, why)
<1>1. ASSUME NEW d \in Copiers, NEW a
      PROVE  [copier EXCEPT ![d].at = a] = [copier EXCEPT ![d] = [at |-> a, job |-> copier[d].job]]
  <2>1. [copier[d] EXCEPT !.at = a] = [at |-> a, job |-> copier[d].job]
    BY DEF TypeOK, CopierState
  <2>2. [copier EXCEPT ![d].at = a] = [copier EXCEPT ![d] = [copier[d] EXCEPT !.at = a]]
    OBVIOUS
  <2> QED
    BY <2>1, <2>2
<1>2. /\ Ended(walk).at = "end" /\ Ended(walk).pos = walk.pos
      /\ NextEntry(walk).at = "list" /\ NextEntry(walk).pos = walk.pos + 1
  BY DEF TypeOK, WalkState, Ended, NextEntry
<1>3. ASSUME NEW why \in {"cancelled", "source", "disk"}, CopyFails(c, why), Busy(c),
             why = "cancelled" => CopyErr, UNCHANGED <<queue, tmp>>
      PROVE  Fails(c, why)
  BY <1>1, <1>2, <1>3 DEF CopyFails, WorkerFails, WalkCopyFails, Fails, Moves
<1>4. ASSUME CopyDone(c), UNCHANGED queue,
             \/ copier[c].at = "open" /\ Cloned(copier[c].job)
             \/ copier[c].at = "bytes" /\ Complete(copier[c].job)
      PROVE  Finishes(c)
  BY <1>1, <1>2, <1>4 DEF CopyDone, Finishes, Moves, Busy
<1>5. CASE TakeJob(c)
  BY <1>5 DEF TakeJob, Takes, Moves
<1>6. CASE LeaveQueue(c)
  BY <1>1, <1>6 DEF LeaveQueue, Leaves, Moves
<1>7. CASE CopyCancelled(c)
  BY <1>3, <1>7 DEF CopyCancelled, Busy
<1>8. CASE CloneFile(c)
  BY <1>4, <1>8 DEF CloneFile, Cloned
<1>9. CASE OpenCopy(c)
  BY <1>1, <1>3, <1>9 DEF OpenCopy, Busy, Continues, Moves, Opened
<1>10. CASE CopyChunk(c)
  <2>1. copier[c].at = "bytes" => copier = [copier EXCEPT ![c] = [at |-> "bytes", job |-> copier[c].job]]
    BY DEF TypeOK, CopierState
  <2> DEFINE e == copier[c].job
  <2>2. CASE Len(tmp[e].data) < Len(host[e].data)
             /\ tmp' = [tmp EXCEPT ![e].data = Append(@, host[e].data[Len(tmp[e].data) + 1])]
             /\ UNCHANGED <<copier, walk, walkErr, firstCopyErr, cancelled>>
    <3>1. Longer(e)
      BY <2>2 DEF Longer
    <3> QED
      BY <1>10, <2>1, <2>2, <3>1 DEF CopyChunk, Busy, Continues, Moves
  <2>3. CASE CopyFails(c, "disk") /\ UNCHANGED tmp
    BY <1>3, <1>10, <2>3 DEF CopyChunk, Busy
  <2>4. CASE Len(tmp[e].data) >= Len(host[e].data) /\ CopyDone(c) /\ UNCHANGED tmp
    BY <1>4, <1>10, <2>4 DEF CopyChunk, Complete
  <2> QED
    BY <1>10, <2>2, <2>3, <2>4 DEF CopyChunk
<1> QED
  BY <1>5, <1>6, <1>7, <1>8, <1>9, <1>10 DEF CopierSteps, Copier

-----------------------------------------------------------------------------
(* The pool.                                                               *)

(* Where the walk, the queue and the copiers are, after every step         *)
(* (workspace.go:612-702).                                                 *)
LEMMA PoolStep ==
    ASSUME TypeOK, PoolInv, CauseInv, [Next]_vars
    PROVE  PoolInv'
<1>0. /\ workers \in 1..8 /\ Pool \subseteq Copiers /\ 0 \in Copiers /\ 0 \notin Pool
      /\ (workers = 1 => Pool = {})
  BY PoolMembers DEF TypeOK
<1>1. CASE Pinning \/ CtxDone \/ EditGit \/ UNCHANGED vars
  BY <1>1, PinningTouchesNoTree DEF CtxDone, EditGit, vars, copyVars, PoolInv, Busy,
     Pool, Joined
<1>2. CASE EditTree
  BY <1>2 DEF EditTree, Editor, Rewrite, RewriteChunk, Remove, Touch, copyVars, PoolInv,
     Busy, Pool, Joined
<1>3. CASE StartCopy
  BY <1>3 DEF StartCopy, Return, copyVars, PoolInv, Busy, Pool, Joined, TypeOK,
     WalkState
<1>4. CASE CopyReturns
  BY <1>4 DEF CopyReturns, Return, copyVars, PoolInv, Busy, Pool, Joined
<1>5. CASE Checking
  BY <1>5, CheckingReads DEF copyVars, PoolInv, Busy, Pool, Joined
<1>6. CASE WalkSteps
  <2> USE <1>0 DEF PoolInv, Busy, Pool
  <2>0. UNCHANGED <<main, cancelled, workers>>
    BY <1>6 DEF WalkSteps, Walker, ListEntry, VisitEntry, Enqueue, GiveUpEnqueue,
       WalkStep
  <2>1. CASE WalkGoes
    <3>1. walk'.pos \in {walk.pos, walk.pos + 1} /\ walk.pos \in 1..N + 1
      BY <2>1 DEF WalkGoes, TypeOK, WalkState
    <3>2. \A i \in DOMAIN queue : queue[i] \in Nat
      <4>1. queue \in Seq(Entries)
        BY DEF TypeOK
      <4>2. \A i \in DOMAIN queue : queue[i] \in Entries
        BY <4>1
      <4>3. \A e \in Entries : e \in Nat
        BY DEF Entries
      <4> QED
        BY <4>2, <4>3
    <3>3. \A c \in Copiers : copier[c].job \in Nat
      BY CopyAssumption DEF TypeOK, CopierState
    <3> QED
      BY <1>6, <2>0, <2>1, <3>1, <3>2, <3>3 DEF WalkSteps, WalkGoes
  <2>2. CASE WalkQueues
    <3>1. walk.pos \in 1..N /\ queue \in Seq(Entries)
      BY <2>2 DEF WalkQueues, TypeOK, WalkState
    <3>2. /\ \A i \in DOMAIN queue' : \/ i \in DOMAIN queue /\ queue'[i] = queue[i]
                                      \/ queue'[i] = walk.pos
          /\ \A i \in DOMAIN queue : queue[i] \in Nat
      <4>1. walk.pos \in Entries /\ queue' = Append(queue, walk.pos)
        BY <2>2, <3>1 DEF WalkQueues, Entries
      <4>2. \A i \in DOMAIN queue' : \/ i \in DOMAIN queue /\ queue'[i] = queue[i]
                                     \/ queue'[i] = walk.pos
        BY <3>1, <4>1, QueueMembers
      <4>3. \A i \in DOMAIN queue : queue[i] \in Entries
        BY <3>1
      <4> QED
        BY <4>2, <4>3, CopyAssumption DEF Entries
    <3>3. \A i \in DOMAIN queue' : queue'[i] < walk'.pos
      BY <2>2, <3>1, <3>2 DEF WalkQueues
    <3> QED
      BY <1>6, <2>0, <2>2, <3>1, <3>3 DEF WalkSteps, WalkQueues
  <2>3. CASE WalkCopies
    BY <1>6, <2>0, <2>3 DEF WalkSteps, WalkCopies, TypeOK, CopierState
  <2> QED
    BY <1>6, <2>1, <2>2, <2>3, WalkEffects
<1>7. ASSUME NEW c \in Copiers, CopierSteps(c)
      PROVE  PoolInv'
  <2> USE <1>0 DEF PoolInv, Busy, Pool
  <2>0. main = "copy" /\ main' = "copy" /\ UNCHANGED workers
    BY <1>7, CopyingIsLocal DEF Copying
  <2>1. CASE Takes(c)
    <3>1. /\ queue \in Seq(Entries) /\ 1 \in DOMAIN queue /\ Head(queue) = queue[1]
          /\ \A i \in DOMAIN queue' : i + 1 \in DOMAIN queue /\ queue'[i] = queue[i + 1]
      BY <2>1, QueueMembers DEF Takes, TypeOK
    <3>2. queue[1] \in 1..walk.pos - 1
      <4>0. queue[1] \in Entries
        BY <3>1
      <4>1. queue[1] \in Nat \ {0}
        BY <4>0, CopyAssumption DEF Entries
      <4>2. walk.pos \in Nat
        BY DEF TypeOK, WalkState
      <4> QED
        BY <3>1, <4>1, <4>2
    <3> QED
      BY <2>0, <2>1, <3>1, <3>2 DEF Takes, Moves, TypeOK, CopierState
  <2>2. CASE Leaves(c)
    BY <2>0, <2>2 DEF Leaves, Moves, TypeOK, CopierState
  <2>3. ASSUME NEW why, Fails(c, why)
        PROVE  PoolInv'
    <3>1. CASE c = 0
      BY <2>0, <2>3, <3>1 DEF Fails, Moves, TypeOK, CopierState
    <3>2. CASE c # 0
      BY <2>0, <2>3, <3>2 DEF Fails, Moves, TypeOK, CopierState
    <3> QED
      BY <3>1, <3>2
  <2>4. CASE Continues(c)
    BY <2>0, <2>4 DEF Continues, Moves, TypeOK, CopierState
  <2>5. CASE Finishes(c)
    BY <2>0, <2>5 DEF Finishes, Moves, TypeOK, CopierState, WalkState
  <2> QED
    BY <1>7, <2>1, <2>2, <2>3, <2>4, <2>5, CopierEffects
<1> QED
  BY <1>1, <1>2, <1>3, <1>4, <1>5, <1>6, <1>7, Steps DEF Copying

(* What an error says, after every step (workspace.go:640-702).            *)
LEMMA CauseStep ==
    ASSUME TypeOK, PoolInv, CauseInv, [Next]_vars
    PROVE  CauseInv'
<1>1. CASE Pinning \/ EditGit \/ UNCHANGED vars
  BY <1>1, PinningTouchesNoTree DEF EditGit, vars, copyVars, CauseInv
<1>2. CASE EditTree \/ CtxDone
  BY <1>2 DEF EditTree, Editor, Rewrite, RewriteChunk, Remove, Touch, CtxDone, copyVars,
     CauseInv
<1>3. CASE StartCopy \/ CopyReturns
  <2>1. walk' = walk \/ (walk.at = "idle" /\ walk' = [walk EXCEPT !.at = "list"])
    BY <1>3 DEF StartCopy, CopyReturns, Return, copyVars
  <2>2. walk'.at = "end" => walk' = walk
    BY <2>1 DEF TypeOK, WalkState
  <2> QED
    BY <1>3, <2>1, <2>2 DEF StartCopy, CopyReturns, Return, copyVars, CauseInv
<1>4. CASE Checking
  BY <1>4, CheckingReads DEF copyVars, CauseInv
<1>5. CASE WalkSteps
  <2>1. UNCHANGED ctxDone
    BY <1>5, CopyingIsLocal DEF Copying
  <2>2. CASE WalkGoes
    BY <2>1, <2>2 DEF WalkGoes, CopyErr, CauseInv
  <2>3. CASE WalkQueues \/ WalkCopies
    BY <2>1, <2>3 DEF WalkQueues, WalkCopies, CauseInv
  <2> QED
    BY <1>5, <2>2, <2>3, WalkEffects
<1>6. ASSUME NEW c \in Copiers, CopierSteps(c)
      PROVE  CauseInv'
  <2>1. UNCHANGED ctxDone
    BY <1>6, CopyingIsLocal DEF Copying
  <2>2. CASE Takes(c) \/ Leaves(c) \/ Continues(c)
    BY <2>1, <2>2 DEF Takes, Leaves, Continues, CauseInv
  <2>3. ASSUME NEW why, Fails(c, why)
        PROVE  CauseInv'
    BY <2>1, <2>3 DEF Fails, CopyErr, CauseInv, PoolInv, Busy
  <2>4. CASE Finishes(c)
    BY <2>1, <2>4 DEF Finishes, CauseInv, PoolInv, Busy
  <2> QED
    BY <1>6, <2>2, <2>3, <2>4, CopierEffects
<1> QED
  BY <1>1, <1>2, <1>3, <1>4, <1>5, <1>6, Steps DEF Copying

(* A copy that returned has no writer left, and a walk that waits at a     *)
(* full queue has a worker or may give up (workspace.go:624-690).          *)
LEMMA PoolPromises ==
    ASSUME TypeOK, PoolInv, CauseInv
    PROVE  NoWriterLeft /\ NoStuckQueue
<1>0. /\ workers \in 1..8 /\ Pool \subseteq Copiers /\ 0 \in Copiers
      /\ (workers > 1 => 1 \in Pool)
      /\ \A c \in Copiers : copier[c].at \in {"idle", "open", "bytes", "exited"}
  BY PoolMembers DEF TypeOK, CopierState
<1>1. NoWriterLeft
  <2> SUFFICES ASSUME main \notin {"start", "meta", "copy"}, NEW c \in Copiers
               PROVE  copier[c].at \in {"idle", "exited"}
    BY DEF NoWriterLeft
  <2>1. CASE walk.at = "idle"
    BY <2>1 DEF PoolInv
  <2>2. CASE Joined
    <3>1. CASE c \in Pool
      BY <2>2, <3>1 DEF Joined
    <3>2. CASE c = 0
      BY <1>0, <2>2, <3>2 DEF Joined, PoolInv, Busy
    <3>3. CASE c \in Copiers \ (Pool \cup {0})
      BY <3>3 DEF PoolInv
    <3> QED
      BY <3>1, <3>2, <3>3
  <2> QED
    BY <2>1, <2>2 DEF PoolInv
<1>2. NoStuckQueue
  BY <1>0 DEF NoStuckQueue, PoolInv, CopyErr
<1> QED
  BY <1>1, <1>2

(* No directory is left behind, after every step (analysis.go:316-330).    *)
LEMMA NothingLeftStep ==
    ASSUME NothingLeft, [Next]_vars
    PROVE  NothingLeft'
<1>1. CASE EditTree
  BY <1>1 DEF EditTree, Editor, Rewrite, RewriteChunk, Remove, Touch, gitVars,
     NothingLeft
<1>2. CASE CtxDone \/ EditGit \/ UNCHANGED vars
  BY <1>2 DEF CtxDone, EditGit, vars, gitVars, NothingLeft
<1>3. CASE Pinning \/ StartCopy \/ CopyReturns
  BY <1>3 DEF Pinning, Begin, CaptureMetadata, CaptureFails, StartCopy, CopyReturns,
     Return,
     gitVars, NothingLeft
<1>4. CASE Copying
  BY <1>4, CopyingIsLocal DEF gitVars, NothingLeft
<1>5. CASE Checking
  BY <1>5 DEF Checking, VerifyList, VerifyEntry, VerifyBytes, VerifyBytesDiffer,
     VerifyGone,
     VerifyIndex, VerifyAncestors, Rest, Verify, Goto, Return, gitVars, NothingLeft
<1> QED
  BY <1>1, <1>2, <1>3, <1>4, <1>5, Steps

-----------------------------------------------------------------------------
(* The trees.                                                              *)

(* What an edit does to every path: a buffer that is not from now was      *)
(* there before, and so were the length and the kind of a path that begins *)
(* with one; no path becomes empty.                                        *)
LEMMA EditedPaths ==
    ASSUME TypeOK, TreeInv, NEW e \in Entries, NEW new \in Content, Edited(e, new)
    PROVE  \A x \in Entries :
              LET h == host[x]
                  g == host'[x]
              IN  /\ UpTo(g, edits')
                  /\ \A c \in DOMAIN g.data : g.data[c] <= edits =>
                        c \in DOMAIN h.data /\ g.data[c] = h.data[c]
                  /\ g.data # <<>> /\ g.data[1] <= edits =>
                        Len(g.data) = Len(h.data) /\ g.kind \in {h.kind, "absent"}
                  /\ h.data # <<>> => g.data # <<>>
                  /\ g.kind # "absent" \/ x \notin Absent0 => g.data # <<>>
                  /\ g.kind = "file" => Len(g.data) = ChunksOf[x]
                  /\ x \notin Absent0 /\ Admitted(g.kind) => Admitted(h.kind)
                  /\ x \in Absent0 /\ Admitted(h.kind) => Admitted(g.kind)
<1> TAKE x \in Entries
<1> DEFINE h == host[x]
           g == host'[x]
<1>0. /\ h \in Content /\ h.data \in Seq(0..MaxEdits) /\ edits \in Nat /\ edits' = edits + 1
      /\ UpTo(h, edits) /\ (h.kind # "absent" \/ x \notin Absent0 => h.data # <<>>)
      /\ (h.kind = "file" => Len(h.data) = ChunksOf[x])
      /\ \A c \in DOMAIN h.data : h.data[c] \in Nat
  <2>1. h \in Content /\ edits \in Nat
    BY DEF TypeOK
  <2>2. h.data \in Seq(0..MaxEdits) /\ \A c \in DOMAIN h.data : h.data[c] \in Nat
    BY <2>1, Stamps
  <2>4. /\ UpTo(h, edits) /\ (h.kind # "absent" \/ x \notin Absent0 => h.data # <<>>)
        /\ (h.kind = "file" => Len(h.data) = ChunksOf[x])
    BY DEF TreeInv, PathInv
  <2> QED
    BY <2>1, <2>2, <2>4 DEF Edited
<1>1. CASE x # e
  <2>1. g = h
    BY <1>1 DEF Edited, TypeOK
  <2>2. UpTo(g, edits')
    BY <1>0, <2>1 DEF UpTo
  <2> HIDE DEF h, g
  <2> QED
    BY <1>0, <2>1, <2>2 DEF h, g
<1>2. CASE x = e
  <2>1. g = new /\ new.data \in Seq(0..MaxEdits)
    BY <1>2 DEF Edited, TypeOK, Content
  <2>2. CASE /\ new.kind # "absent" /\ new.data # <<>> /\ 1 \in DOMAIN new.data
             /\ \A c \in DOMAIN new.data : new.data[c] = edits'
             /\ new.kind = "file" => Len(new.data) = ChunksOf[e]
             /\ IF e \in Absent0 THEN Admitted(new.kind) ELSE Admitted(host[e].kind)
    <3>1. UpTo(new, edits') /\ \A c \in DOMAIN new.data : ~(new.data[c] <= edits)
      BY <1>0, <2>2 DEF UpTo
    <3> HIDE DEF g
    <3> QED
      BY <1>2, <2>1, <2>2, <3>1 DEF g
  <2>3. CASE /\ host[e].kind = "file" /\ new.kind = "file"
             /\ Len(new.data) = Len(host[e].data) /\ DOMAIN new.data = DOMAIN host[e].data
             /\ \E c \in DOMAIN new.data :
                   /\ new.data[c] = edits'
                   /\ \A b \in DOMAIN new.data : b # c => new.data[b] = host[e].data[b]
    <3>1. UpTo(new, edits')
      BY <1>0, <1>2, <2>3 DEF UpTo
    <3>2. \A c \in DOMAIN new.data : new.data[c] <= edits => new.data[c] = host[e].data[c]
      BY <1>0, <2>3
    <3>3. new.data # <<>>
      BY <1>0, <1>2, <2>1, <2>3
    <3> HIDE DEF g
    <3> QED
      BY <1>0, <1>2, <2>1, <2>3, <3>1, <3>2, <3>3 DEF g, Admitted
  <2>4. CASE e \notin Absent0 /\ new.kind = "absent" /\ new.data = host[e].data
    <3>1. UpTo(new, edits')
      BY <1>0, <1>2, <2>4 DEF UpTo
    <3> HIDE DEF g
    <3> QED
      BY <1>0, <1>2, <2>1, <2>4, <3>1 DEF g, Admitted
  <2> QED
    BY <2>2, <2>3, <2>4 DEF Edited
<1> HIDE DEF h, g
<1> QED
  BY <1>1, <1>2 DEF h, g

(* No error means that there was none before, and an error leaves one      *)
(* (workspace.go:640-690).                                                 *)
LEMMA ErrorsStay ==
    ASSUME TypeOK, PoolInv, CauseInv, Copying, NoError'
    PROVE  NoError
<1>1. CASE WalkSteps
  BY <1>1, WalkEffects DEF WalkGoes, WalkQueues, WalkCopies, CauseInv, NoError
<1>2. ASSUME NEW c \in Copiers, CopierSteps(c)
      PROVE  NoError
  BY <1>2, CopierEffects DEF Takes, Leaves, Fails, Continues, Finishes, CauseInv,
     PoolInv,
     Busy, NoError
<1> QED
  BY <1>1, <1>2 DEF Copying

(* The copy and the host's tree, after every step of user or caller that   *)
(* is not a step of the copy.                                              *)
LEMMA TreeKept ==
    ASSUME TypeOK, TreeInv, UNCHANGED <<queue, copier, firstCopyErr, walkErr, tmp>>,
           walk'.pos = walk.pos,
           \/ UNCHANGED <<host, edits>>
           \/ UNCHANGED host /\ edits' = edits + 1
           \/ \E e \in Entries : \E new \in Content : Edited(e, new)
    PROVE  TreeInv'
<1>1. ASSUME NEW e \in Entries
      PROVE  PathInv(e)'
  <2>0. /\ PathInv(e) /\ tmp' = tmp /\ edits \in Nat /\ (NoError' <=> NoError)
        /\ host[e] \in Content /\ tmp[e] \in Content
    BY DEF TypeOK, TreeInv, NoError
  <2>1. CASE UNCHANGED host /\ edits' \in {edits, edits + 1}
    <3>1. UpTo(host[e], edits') /\ UpTo(tmp[e], edits')
      BY <2>0, <2>1, Stamps DEF PathInv, UpTo
    <3> QED
      BY <2>0, <2>1, <3>1 DEF PathInv, NoError
  <2>2. ASSUME NEW x \in Entries, NEW new \in Content, Edited(x, new)
        PROVE  PathInv(e)'
    <3> DEFINE h == host[e]
               g == host'[e]
    <3>1. /\ UpTo(g, edits')
          /\ g.data # <<>> /\ g.data[1] <= edits =>
                Len(g.data) = Len(h.data) /\ g.kind \in {h.kind, "absent"}
          /\ \A c \in DOMAIN g.data : g.data[c] <= edits =>
                c \in DOMAIN h.data /\ g.data[c] = h.data[c]
          /\ g.kind # "absent" \/ e \notin Absent0 => g.data # <<>>
          /\ g.kind = "file" => Len(g.data) = ChunksOf[e]
          /\ e \notin Absent0 /\ Admitted(g.kind) => Admitted(h.kind)
      BY <2>2, EditedPaths
    <3>2. edits' = edits + 1 /\ g \in Content
      BY <2>2 DEF Edited, TypeOK
    <3>3. UpTo(tmp[e], edits')
      BY <2>0, <3>2, Stamps DEF PathInv, UpTo
    <3>4. SameStart(tmp[e], g) => SameStart(tmp[e], h) /\ Len(g.data) = Len(h.data)
      <4>1. ASSUME SameStart(tmp[e], g)
            PROVE  1 \in DOMAIN tmp[e].data /\ 1 \in DOMAIN g.data /\ g.data[1] = tmp[e].data[1]
        BY <2>0, <3>2, <4>1, Stamps DEF SameStart
      <4>2. ASSUME SameStart(tmp[e], g)
            PROVE  g.data[1] <= edits
        BY <2>0, <4>1, <4>2 DEF PathInv, UpTo
      <4>3. h.data # <<>> <=> 1 \in DOMAIN h.data
        BY <2>0, Stamps
      <4> HIDE DEF h, g
      <4> QED
        BY <3>1, <4>1, <4>2, <4>3 DEF SameStart
    <3>5. host'[e] = g /\ tmp'[e] = tmp[e]
      BY <2>0
    <3> HIDE DEF g
    <3> QED
      BY <2>0, <3>1, <3>3, <3>4, <3>5 DEF PathInv, NoError
  <2> QED
    BY <2>1, <2>2
<1>2. ASSUME NEW c \in Copiers, copier[c].at = "bytes"
      PROVE  host[copier[c].job].data # <<>> => host'[copier[c].job].data # <<>>
  <2>1. copier[c].job \in Entries
    BY <1>2 DEF TreeInv
  <2> QED
    BY <2>1, EditedPaths
<1> QED
  BY <1>1, <1>2 DEF TreeInv

(* The copy and the host's tree, after a step of the walk                  *)
(* (workspace.go:581-676).                                                 *)
LEMMA WalkTreeStep ==
    ASSUME TypeOK, PoolInv, CauseInv, TreeInv, WalkSteps
    PROVE  TreeInv'
<1>0. /\ UNCHANGED <<host, edits>> /\ (NoError' => NoError)
      /\ walk.pos \in Nat /\ queue \in Seq(Entries)
      /\ \A c \in Copiers : Busy(c) => walk.at = "copying" \/ copier[c].job # walk.pos
      /\ \A e \in Entries : e \in Nat
  <2>1. UNCHANGED <<host, edits>> /\ (NoError' => NoError)
    BY CopyingIsLocal, ErrorsStay DEF Copying
  <2>2. walk.pos \in Nat /\ queue \in Seq(Entries) /\ \A e \in Entries : e \in Nat
    BY CopyAssumption DEF TypeOK, WalkState, Entries
  <2>3. ASSUME NEW c \in Copiers, Busy(c)
        PROVE  walk.at = "copying" \/ copier[c].job # walk.pos
    <3>1. CASE c = 0
      BY <2>3, <3>1 DEF PoolInv
    <3>2. CASE c \in Pool
      <4>1. copier[c].job \in 1..walk.pos - 1
        BY <2>3, <3>2 DEF PoolInv
      <4> QED
        BY <2>2, <4>1
    <3>3. CASE c \in Copiers \ (Pool \cup {0})
      BY <2>3, <3>3 DEF PoolInv, Busy
    <3> QED
      BY <3>1, <3>2, <3>3
  <2> QED
    BY <2>1, <2>2, <2>3
<1>1. CASE UNCHANGED <<tmp, queue, copier>>
           /\ (\/ walk'.pos = walk.pos
               \/ walk'.pos = walk.pos + 1 /\ ~Admitted(host[walk.pos].kind))
  <2>1. ASSUME NEW e \in Entries
        PROVE  PathInv(e)'
    <3>1. e < walk'.pos /\ Admitted(host[e].kind) => e < walk.pos
      BY <1>0, <1>1
    <3> QED
      BY <1>0, <1>1, <3>1 DEF TreeInv, PathInv
  <2> QED
    BY <1>0, <1>1, <2>1 DEF TreeInv
<1>2. CASE /\ walk.at = "visit" \/ walk.at = "list"
           /\ UNCHANGED <<queue, copier>> /\ walk'.pos = walk.pos + 1
           /\ tmp' = [tmp EXCEPT ![walk.pos] = host[walk.pos]]
           /\ host[walk.pos].kind \in {"link", "outlink"}
  <2>1. ASSUME NEW e \in Entries, e = walk.pos
        PROVE  PathInv(e)'
    <3>1. tmp'[e] = host[e] /\ host'[e] = host[e]
      BY <1>0, <1>2, <2>1 DEF TypeOK
    <3> QED
      BY <1>0, <1>2, <2>1, <3>1 DEF TreeInv, PathInv
  <2>2. ASSUME NEW e \in Entries, e # walk.pos
        PROVE  PathInv(e)'
    <3>1. tmp'[e] = tmp[e] /\ host'[e] = host[e] /\ (e < walk'.pos => e < walk.pos)
      BY <1>0, <1>2, <2>2 DEF TypeOK
    <3>2. PathInv(e) /\ UNCHANGED <<edits, copier, queue>>
      BY <1>0, <1>2 DEF TreeInv
    <3> QED
      BY <1>0, <3>1, <3>2 DEF PathInv
  <2>3. ASSUME NEW c \in Copiers, copier'[c].at = "bytes"
        PROVE  /\ copier'[c].job \in Entries
               /\ tmp'[copier'[c].job].kind = "file" /\ host'[copier'[c].job].data # <<>>
    <3>1. copier[c].job # walk.pos
      BY <1>0, <1>2, <2>3 DEF Busy
    <3> QED
      BY <1>0, <1>2, <2>3, <3>1 DEF TreeInv, TypeOK
  <2> QED
    BY <2>1, <2>2, <2>3 DEF TreeInv
<1>3. CASE WalkQueues
  <2>0. walk.pos \in Entries
    BY <1>3 DEF WalkQueues, PoolInv, TypeOK, WalkState, Entries
  <2>1. ASSUME NEW e \in Entries
        PROVE  PathInv(e)'
    <3>0. queue' = Append(queue, walk.pos)
      BY <1>3 DEF WalkQueues
    <3>1. /\ \A i \in DOMAIN queue : i \in DOMAIN queue' /\ queue'[i] = queue[i]
          /\ \E i \in DOMAIN queue' : queue'[i] = walk.pos
      <4>1. queue \in Seq(Entries)
        BY <1>0
      <4>2. \A i \in DOMAIN queue : i \in DOMAIN Append(queue, walk.pos)
                                   /\ Append(queue, walk.pos)[i] = queue[i]
        BY <2>0, <4>1, QueueMembers, ZenonT(30)
      <4>3. \E i \in DOMAIN Append(queue, walk.pos) : Append(queue, walk.pos)[i] = walk.pos
        BY <2>0, <4>1, QueueMembers, ZenonT(30)
      <4> QED
        BY <3>0, <4>2, <4>3, ZenonT(30)
    <3>2. e < walk'.pos => e < walk.pos \/ e = walk.pos
      BY <1>0, <1>3 DEF WalkQueues
    <3> QED
      BY <1>0, <1>3, <3>1, <3>2 DEF TreeInv, PathInv, WalkQueues
  <2> QED
    BY <1>0, <1>3, <2>1 DEF TreeInv, WalkQueues
<1>4. CASE WalkCopies
  <2>0. /\ 0 \in Copiers /\ copier'[0].at = "open" /\ ~Busy(0)
        /\ \A c \in Copiers : c # 0 => copier'[c] = copier[c]
    BY <1>4, PoolMembers DEF WalkCopies, PoolInv, TypeOK
  <2>1. ASSUME NEW e \in Entries
        PROVE  PathInv(e)'
    <3>1. /\ \A c \in Copiers : copier[c].at = "bytes" => copier'[c] = copier[c]
          /\ \A c \in Copiers : copier[c].at = "open" => copier'[c] = copier[c]
      BY <2>0 DEF Busy
    <3> QED
      BY <1>0, <1>4, <3>1 DEF TreeInv, PathInv, WalkCopies
  <2> QED
    BY <1>0, <1>4, <2>0, <2>1 DEF TreeInv, WalkCopies
<1> QED
  <2>1. CASE WalkGoes
    BY <1>1, <1>2, <2>1 DEF WalkGoes
  <2> QED
    BY <1>3, <1>4, <2>1, WalkEffects

(* The copy and the host's tree, after a step of a copier                  *)
(* (workspace.go:640-676, 741-790).                                        *)
LEMMA CopierTreeStep ==
    ASSUME TypeOK, PoolInv, CauseInv, TreeInv, NEW c \in Copiers, CopierSteps(c)
    PROVE  TreeInv'
<1> DEFINE j == copier[c].job
<1>0. /\ UNCHANGED <<host, edits>> /\ (NoError' => NoError)
      /\ \A d \in Copiers : d # c => copier'[d] = copier[d]
      /\ walk.pos \in Nat /\ \A e \in Entries : e \in Nat
  <2>1. UNCHANGED <<host, edits>> /\ (NoError' => NoError)
    BY CopyingIsLocal, ErrorsStay DEF Copying
  <2>2. \A d \in Copiers : d # c => copier'[d] = copier[d]
    BY CopierEffects DEF Takes, Leaves, Fails, Continues, Finishes, Moves, TypeOK
  <2>3. walk.pos \in Nat /\ \A e \in Entries : e \in Nat
    BY CopyAssumption DEF TypeOK, WalkState, Entries
  <2> QED
    BY <2>1, <2>2, <2>3
<1>j. Busy(c) => j \in Entries /\ (c = 0 => j = walk.pos)
  <2>1. CASE c = 0
    BY <2>1 DEF PoolInv, TypeOK, WalkState, Entries
  <2>2. CASE c \in Pool
    <3>1. Busy(c) => j \in 1..walk.pos - 1
      BY <2>2 DEF PoolInv
    <3>2. walk.pos \in 1..N + 1
      BY DEF TypeOK, WalkState
    <3> QED
      BY <2>2, <3>1, <3>2, PoolMembers, CopyAssumption DEF Entries, TypeOK
  <2>3. CASE c \in Copiers \ (Pool \cup {0})
    BY <2>3 DEF PoolInv, Busy
  <2> QED
    BY <2>1, <2>2, <2>3
<1>1. CASE Takes(c)
  <2>0. /\ copier'[c] = [at |-> "open", job |-> Head(queue)] /\ copier[c].at = "idle"
        /\ UNCHANGED <<walk, tmp>>
    BY <1>1 DEF Takes, Moves, TypeOK
  <2>1. ASSUME NEW e \in Entries
        PROVE  PathInv(e)'
    <3>1. ASSUME NEW i \in DOMAIN queue, queue[i] = e
          PROVE  \/ \E k \in DOMAIN queue' : queue'[k] = e
                 \/ \E d \in Copiers : copier'[d].at = "open" /\ copier'[d].job = e
      <4>1. /\ queue \in Seq(Entries) /\ queue # <<>> /\ queue' = Tail(queue)
        BY <1>1 DEF Takes, TypeOK
      <4>2. Head(queue) = queue[1] /\ (i = 1 \/ (i - 1 \in DOMAIN queue' /\ queue'[i - 1] = queue[i]))
        BY <4>1, QueueMembers
      <4> QED
        BY <2>0, <3>1, <4>2
    <3>2. /\ \A d \in Copiers : copier[d].at = "bytes" => copier'[d] = copier[d]
          /\ \A d \in Copiers : copier[d].at = "open" => copier'[d] = copier[d]
      BY <1>0, <2>0
    <3>3. PathInv(e)
      BY DEF TreeInv
    <3> QED
      BY <1>0, <2>0, <3>1, <3>2, <3>3 DEF PathInv
  <2> QED
    BY <1>0, <2>0, <2>1 DEF TreeInv
<1>2. CASE Leaves(c)
  <2>0. copier'[c].at = "exited" /\ copier[c].at = "idle" /\ UNCHANGED <<walk, tmp, queue>>
    BY <1>2 DEF Leaves, Moves, TypeOK
  <2>1. /\ \A d \in Copiers : copier[d].at = "bytes" => copier'[d] = copier[d]
        /\ \A d \in Copiers : copier[d].at = "open" => copier'[d] = copier[d]
    BY <1>0, <2>0
  <2>2. ASSUME NEW e \in Entries
        PROVE  PathInv(e)'
    <3>1. PathInv(e)
      BY DEF TreeInv
    <3> QED
      BY <1>0, <2>0, <2>1, <3>1 DEF PathInv
  <2> QED
    BY <1>0, <2>0, <2>2 DEF TreeInv
<1>3. ASSUME NEW why, Fails(c, why)
      PROVE  TreeInv'
  <2>1. ~NoError' /\ copier'[c].at \in {"idle", "exited"} /\ UNCHANGED tmp
    BY <1>3 DEF Fails, Moves, TypeOK, NoError
  <2>2. ASSUME NEW e \in Entries
        PROVE  PathInv(e)'
    BY <1>0, <2>1 DEF TreeInv, PathInv
  <2> QED
    BY <1>0, <2>1, <2>2 DEF TreeInv
<1>4. CASE Continues(c) /\ copier[c].at = "open" /\ Opened(j)
  <2>0. /\ copier'[c] = [at |-> "bytes", job |-> j] /\ UNCHANGED <<walk, queue>>
        /\ j \in Entries /\ host[j].kind # "absent" /\ host[j].data # <<>>
        /\ tmp'[j] = [kind |-> "file", data |-> <<>>]
        /\ \A e \in Entries : e # j => tmp'[e] = tmp[e]
    <3>1. j \in Entries /\ host[j].kind # "absent"
      BY <1>4, <1>j DEF Continues, Opened
    <3>2. host[j].data # <<>>
      BY <3>1 DEF TreeInv, PathInv
    <3> QED
      BY <1>4, <3>1, <3>2 DEF Continues, Opened, Moves, TypeOK
  <2>1. ASSUME NEW e \in Entries, e = j
        PROVE  PathInv(e)'
    <3>1. UpTo(tmp'[j], edits) /\ ~SameStart(tmp'[j], host[j]) /\ PathInv(j)
      BY <2>0 DEF UpTo, SameStart, TreeInv
    <3> HIDE DEF j
    <3> QED
      BY <1>0, <2>0, <2>1, <3>1 DEF PathInv, Admitted
  <2>2. ASSUME NEW e \in Entries, e # j
        PROVE  PathInv(e)'
    <3>1. PathInv(e) /\ tmp'[e] = tmp[e]
      BY <2>0, <2>2 DEF TreeInv
    <3>2. /\ \A d \in Copiers : copier[d].at = "bytes" => copier'[d] = copier[d]
          /\ \A d \in Copiers : copier[d].at = "open" /\ copier[d].job = e => copier'[d] = copier[d]
      BY <1>0, <1>4, <2>2
    <3> HIDE DEF j
    <3> QED
      BY <1>0, <2>0, <3>1, <3>2 DEF PathInv
  <2>3. ASSUME NEW d \in Copiers, copier'[d].at = "bytes"
        PROVE  /\ copier'[d].job \in Entries
               /\ tmp'[copier'[d].job].kind = "file" /\ host'[copier'[d].job].data # <<>>
    <3>1. CASE d = c
      BY <1>0, <2>0, <3>1
    <3>2. CASE d # c
      <4>1. copier'[d] = copier[d]
        BY <1>0, <3>2
      <4> QED
        BY <1>0, <2>0, <2>3, <4>1 DEF TreeInv
    <3> QED
      BY <3>1, <3>2
  <2> HIDE DEF j
  <2> QED
    BY <2>1, <2>2, <2>3 DEF TreeInv
<1>5. CASE Continues(c) /\ copier[c].at = "bytes" /\ Longer(j)
  <2> DEFINE have == Len(tmp[j].data)
             next == host[j].data[have + 1]
             more == [tmp[j] EXCEPT !.data = Append(tmp[j].data, next)]
  <2>0. /\ UNCHANGED <<walk, queue>> /\ j \in Entries /\ PathInv(j)
        /\ tmp[j].kind = "file" /\ host[j].data # <<>> /\ have < Len(host[j].data)
        /\ host[j] \in Content /\ tmp[j] \in Content
    BY <1>5, <1>j DEF Continues, Longer, TreeInv, TypeOK
  <2>1. have \in Nat /\ have + 1 \in DOMAIN host[j].data /\ next \in 0..MaxEdits /\ next <= edits
    <3>1. have \in Nat /\ Len(host[j].data) \in Nat /\ DOMAIN host[j].data = 1..Len(host[j].data)
          /\ host[j].data \in Seq(0..MaxEdits)
      BY <2>0, Stamps
    <3>2. have + 1 \in DOMAIN host[j].data
      <4>1. \A a, b \in Nat : a < b => a + 1 \in 1..b
        OBVIOUS
      <4>2. have < Len(host[j].data)
        BY <2>0
      <4> HIDE DEF have
      <4> QED
        BY <3>1, <4>1, <4>2
    <3>3. next <= edits
      BY <2>0, <3>2 DEF PathInv, UpTo
    <3>4. ASSUME NEW S, NEW s \in Seq(S), NEW b \in DOMAIN s
          PROVE  s[b] \in S
      OBVIOUS
    <3>5. next \in 0..MaxEdits
      BY <3>1, <3>2, <3>4
    <3> QED
      BY <3>1, <3>2, <3>3, <3>5
  <2>2. /\ more \in Content /\ more.kind = "file" /\ Len(more.data) = have + 1
        /\ DOMAIN more.data = 1..have + 1 /\ more.data[have + 1] = next
        /\ \A b \in DOMAIN tmp[j].data : more.data[b] = tmp[j].data[b]
        /\ DOMAIN tmp[j].data = 1..have
    <3>1. tmp[j] \in Content /\ next \in 0..MaxEdits /\ tmp[j].kind = "file"
      BY <2>0, <2>1
    <3>2. DOMAIN tmp[j].data = 1..have
      BY <3>1, Stamps
    <3> DEFINE old == tmp[j]
    <3> HIDE DEF next, old
    <3>3. LET new == [old EXCEPT !.data = Append(old.data, next)]
          IN  /\ new \in Content /\ new.kind = old.kind
              /\ Len(new.data) = Len(old.data) + 1
              /\ DOMAIN new.data = 1..Len(old.data) + 1
              /\ new.data[Len(old.data) + 1] = next
              /\ \A b \in DOMAIN old.data : new.data[b] = old.data[b]
      <4>1. old \in Content
        BY <3>1 DEF old
      <4> QED
        BY <3>1, <4>1, LongerContent
    <3> QED
      BY <3>1, <3>2, <3>3 DEF old
  <2>3. UpTo(more, edits)
    <3>1. \A b \in DOMAIN more.data : b \in DOMAIN tmp[j].data \/ b = have + 1
      <4> HIDE DEF j, have, more, next
      <4> QED
        BY <2>1, <2>2
    <3>2. \A b \in DOMAIN tmp[j].data : tmp[j].data[b] <= edits
      BY <2>0 DEF PathInv, UpTo
    <3> HIDE DEF j, have, more, next
    <3> QED
      BY <2>1, <2>2, <3>1, <3>2 DEF UpTo
  <2>4. tmp'[j] = more /\ \A e \in Entries : e # j => tmp'[e] = tmp[e]
    <3>1. tmp' = [tmp EXCEPT ![j] = more]
      BY <1>5 DEF Longer
    <3> HIDE DEF more
    <3> QED
      BY <2>0, <3>1 DEF TypeOK
  <2>5. copier'[c].at = "bytes" /\ copier'[c].job = j
    BY <1>5 DEF Continues, Moves, TypeOK
  <2> HIDE DEF more, next
  <2>6. ASSUME NEW e \in Entries, e = j
        PROVE  PathInv(e)'
    <3>1. SameStart(tmp'[j], host[j]) => Len(tmp'[j].data) <= Len(host[j].data)
      <4>1. Len(host[j].data) \in Nat
        BY <2>0, Stamps
      <4> QED
        BY <2>0, <2>1, <2>2, <2>4, <4>1
    <3>2. \E d \in Copiers : copier'[d].at = "bytes" /\ copier'[d].job = j
      BY <2>5
    <3> HIDE DEF j, have
    <3> QED
      BY <1>0, <2>0, <2>2, <2>3, <2>4, <2>6, <3>1, <3>2 DEF PathInv, Admitted
  <2>7. /\ \A d \in Copiers : copier'[d].at = copier[d].at /\ copier'[d].job = copier[d].job
    BY <1>0, <1>5, <2>5
  <2>8. ASSUME NEW e \in Entries, e # j
        PROVE  PathInv(e)'
    <3>1. PathInv(e) /\ tmp'[e] = tmp[e]
      BY <2>4, <2>8 DEF TreeInv
    <3> HIDE DEF j
    <3> QED
      BY <1>0, <2>0, <2>7, <3>1 DEF PathInv
  <2>9. ASSUME NEW e \in Entries
        PROVE  tmp'[e].kind = tmp[e].kind
    BY <2>0, <2>2, <2>4, <2>9
  <2> QED
    BY <1>0, <2>6, <2>7, <2>8, <2>9 DEF TreeInv
<1>6. CASE Finishes(c) /\ copier[c].at = "open" /\ Cloned(j)
  <2>0. /\ copier'[c] = [at |-> "idle", job |-> j] /\ UNCHANGED queue
        /\ j \in Entries /\ host[j].kind # "absent" /\ host[j].data # <<>>
        /\ tmp'[j] = [kind |-> "file", data |-> host[j].data]
        /\ \A e \in Entries : e # j => tmp'[e] = tmp[e]
    <3>1. j \in Entries /\ host[j].kind # "absent"
      BY <1>6, <1>j DEF Finishes, Cloned
    <3>2. host[j].data # <<>>
      BY <3>1 DEF TreeInv, PathInv
    <3> QED
      BY <1>6, <3>1, <3>2 DEF Finishes, Cloned, Moves, TypeOK
  <2>p. \A e \in Entries : e # j /\ e < walk'.pos => e < walk.pos
    BY <1>0, <1>6, <1>j DEF Finishes
  <2>1. ASSUME NEW e \in Entries, e = j
        PROVE  PathInv(e)'
    <3>1. UpTo(tmp'[j], edits) /\ PathInv(j) /\ tmp'[j].data = host[j].data /\ tmp'[j].kind = "file"
          /\ Len(host[j].data) \in Nat
      <4>1. PathInv(j) /\ host[j] \in Content
        BY <2>0 DEF TreeInv, TypeOK
      <4>2. Len(host[j].data) \in Nat
        BY <4>1, Stamps
      <4>3. tmp'[j].data = host[j].data /\ tmp'[j].kind = "file"
        BY <2>0
      <4> HIDE DEF j
      <4> QED
        BY <4>1, <4>2, <4>3 DEF UpTo, PathInv
    <3> HIDE DEF j
    <3> QED
      BY <1>0, <2>0, <2>1, <3>1 DEF PathInv, Admitted
  <2>2. ASSUME NEW e \in Entries, e # j
        PROVE  PathInv(e)'
    <3>1. PathInv(e) /\ tmp'[e] = tmp[e] /\ (e < walk'.pos => e < walk.pos)
      BY <2>0, <2>p, <2>2 DEF TreeInv
    <3>2. /\ \A d \in Copiers : copier[d].at = "bytes" => copier'[d] = copier[d]
          /\ \A d \in Copiers : copier[d].at = "open" /\ copier[d].job = e => copier'[d] = copier[d]
      BY <1>0, <1>6, <2>2
    <3> HIDE DEF j
    <3> QED
      BY <1>0, <2>0, <3>1, <3>2 DEF PathInv
  <2>3. ASSUME NEW d \in Copiers, copier'[d].at = "bytes"
        PROVE  /\ copier'[d].job \in Entries
               /\ tmp'[copier'[d].job].kind = "file" /\ host'[copier'[d].job].data # <<>>
    <3>1. copier'[d] = copier[d]
      BY <1>0, <2>0, <2>3
    <3> QED
      BY <1>0, <2>0, <2>3, <3>1 DEF TreeInv
  <2> HIDE DEF j
  <2> QED
    BY <2>1, <2>2, <2>3 DEF TreeInv
<1>7. CASE Finishes(c) /\ copier[c].at = "bytes" /\ Complete(j)
  <2>0. /\ copier'[c] = [at |-> "idle", job |-> j] /\ UNCHANGED <<queue, tmp>>
        /\ j \in Entries /\ tmp[j].kind = "file" /\ host[j].data # <<>>
        /\ Len(tmp[j].data) >= Len(host[j].data)
    BY <1>7, <1>j DEF Finishes, Complete, Moves, TypeOK, TreeInv
  <2>p. \A e \in Entries : e # j /\ e < walk'.pos => e < walk.pos
    BY <1>0, <1>7, <1>j DEF Finishes
  <2>1. ASSUME NEW e \in Entries, e = j
        PROVE  PathInv(e)'
    <3>1. /\ PathInv(j) /\ tmp[j].data # <<>>
          /\ (SameStart(tmp[j], host[j]) => Len(tmp[j].data) = Len(host[j].data))
      <4>1. PathInv(j) /\ host[j] \in Content /\ tmp[j] \in Content
        BY <2>0 DEF TreeInv, TypeOK
      <4>2. Len(host[j].data) \in Nat \ {0} /\ Len(tmp[j].data) \in Nat
        BY <2>0, <4>1, Stamps
      <4>3. tmp[j].data # <<>>
        BY <2>0, <4>2
      <4>4. SameStart(tmp[j], host[j]) => Len(tmp[j].data) <= Len(host[j].data)
        BY <2>0, <4>1 DEF PathInv
      <4> QED
        BY <2>0, <4>1, <4>2, <4>3, <4>4
    <3> HIDE DEF j
    <3> QED
      BY <1>0, <2>0, <2>1, <3>1 DEF PathInv, Admitted
  <2>2. ASSUME NEW e \in Entries, e # j
        PROVE  PathInv(e)'
    <3>1. PathInv(e) /\ (e < walk'.pos => e < walk.pos)
      BY <2>p, <2>2 DEF TreeInv
    <3>2. /\ \A d \in Copiers : copier[d].at = "bytes" /\ copier[d].job = e => copier'[d] = copier[d]
          /\ \A d \in Copiers : copier[d].at = "open" => copier'[d] = copier[d]
      BY <1>0, <1>7, <2>2
    <3> HIDE DEF j
    <3> QED
      BY <1>0, <2>0, <3>1, <3>2 DEF PathInv
  <2>3. ASSUME NEW d \in Copiers, copier'[d].at = "bytes"
        PROVE  copier'[d] = copier[d]
    BY <1>0, <2>0, <2>3
  <2> QED
    BY <1>0, <2>0, <2>1, <2>2, <2>3 DEF TreeInv
<1> QED
  BY <1>1, <1>2, <1>3, <1>4, <1>5, <1>6, <1>7, CopierEffects DEF Continues, Finishes

(* The copy and the host's tree, after every step.                         *)
LEMMA TreeStep ==
    ASSUME TypeOK, PoolInv, CauseInv, TreeInv, [Next]_vars
    PROVE  TreeInv'
<1>1. CASE EditTree
  <2>1. /\ \E e \in Entries : \E new \in Content : Edited(e, new)
        /\ UNCHANGED copyVars
    BY <1>1, EditorSteps DEF EditTree
  <2> QED
    BY <2>1, TreeKept DEF copyVars
<1>2. CASE EditGit
  BY <1>2, TreeKept DEF EditGit, copyVars
<1>3. CASE StartCopy
  <2>1. walk'.pos = walk.pos
    BY <1>3 DEF StartCopy, Return, copyVars, TypeOK, WalkState
  <2> QED
    BY <1>3, <2>1, TreeKept DEF StartCopy, Return, copyVars
<1>4. CASE CopyReturns
  BY <1>4, TreeKept DEF CopyReturns, Return, copyVars
<1>5. CASE CtxDone \/ Pinning \/ Checking \/ UNCHANGED vars
  BY <1>5, TreeKept, PinningTouchesNoTree, CheckingReads DEF CtxDone, vars, copyVars
<1> QED
  BY <1>1, <1>2, <1>3, <1>4, <1>5, Steps, WalkTreeStep, CopierTreeStep DEF Copying

-----------------------------------------------------------------------------
(* The repository.                                                         *)

(* What is pinned, after every step (snapshot.go:33-77, 121-139).          *)
LEMMA GitStep ==
    ASSUME TypeOK, GitInv, [Next]_vars
    PROVE  GitInv'
<1>0. /\ git.index \in Nat /\ git.meta \in Nat /\ pinned.index \in Nat /\ pinned.meta \in Nat
      /\ edits \in Nat /\ moment.git.index \in Nat /\ moment.git.meta \in Nat
  BY CopyAssumption DEF TypeOK, Versions, Moment
<1>1. CASE CtxDone \/ UNCHANGED vars
  BY <1>1 DEF CtxDone, vars, gitVars, checkVars, GitInv, Captured
<1>2. CASE EditTree
  <2>1. edits' = edits + 1 /\ UNCHANGED <<main, useGit, git, pinned, moment>>
    BY <1>2 DEF EditTree, Editor, Rewrite, RewriteChunk, Remove, Touch, gitVars,
       checkVars
  <2> QED
    BY <1>0, <2>1 DEF GitInv, Captured
<1>3. CASE EditGit
  <2>1. /\ edits' = edits + 1 /\ UNCHANGED <<main, useGit, pinned, moment>>
        /\ git.index <= git'.index /\ git.meta <= git'.meta
        /\ git'.index <= edits' /\ git'.meta <= edits'
        /\ git'.index \in Nat /\ git'.meta \in Nat
    BY <1>0, <1>3 DEF EditGit, checkVars, GitInv, TypeOK, Versions
  <2> HIDE DEF GitInv
  <2> QED
    BY <1>0, <2>1 DEF GitInv, Captured
<1>4. CASE Pinning
  <2>1. CASE Begin
    BY <1>0, <2>1 DEF Begin, checkVars, GitInv, Captured, TypeOK, Versions
  <2>2. CASE CaptureMetadata
    BY <1>0, <2>2 DEF CaptureMetadata, checkVars, GitInv, Captured, TypeOK, Versions
  <2>3. CASE CaptureFails
    BY <2>3 DEF CaptureFails, Return, GitInv, Captured, checkVars
  <2> QED
    BY <1>4, <2>1, <2>2, <2>3 DEF Pinning
<1>5. CASE StartCopy
  BY <1>5 DEF StartCopy, Return, gitVars, checkVars, GitInv, Captured
<1>6. CASE Copying
  BY <1>6, CopyingIsLocal DEF gitVars, checkVars, GitInv, Captured
<1>7. CASE CopyReturns
  BY <1>0, <1>7 DEF CopyReturns, Return, gitVars, checkVars, GitInv, Captured
<1>8. CASE Checking
  <2>1. /\ UNCHANGED <<edits, useGit, git, pinned, moment>>
        /\ main \in {"verify", "index", "ancestors", "rest"}
    BY <1>8, CheckingReads
  <2>2. \/ UNCHANGED main
        \/ main' = "failed"
        \/ main = "verify" /\ main' = IF useGit THEN "index" ELSE "rest"
        \/ main = "index" /\ main' = "ancestors" /\ git.index = pinned.index
        \/ main = "ancestors" /\ main' = "rest" /\ git.meta = pinned.meta
        \/ main = "rest" /\ main' = "prepared"
    BY <1>8 DEF Checking, VerifyList, VerifyEntry, VerifyBytes, VerifyBytesDiffer,
       VerifyGone,
       VerifyIndex, VerifyAncestors, Rest, Verify, Goto, Return
  <2> QED
    BY <1>0, <2>1, <2>2 DEF GitInv, Captured
<1> QED
  BY <1>1, <1>2, <1>3, <1>4, <1>5, <1>6, <1>7, <1>8, Steps

-----------------------------------------------------------------------------
(* The moment.                                                             *)

(* A copy that was joined without an error has nothing left to do and has  *)
(* come to the end of the tree (workspace.go:677-702).                     *)
LEMMA JoinedCopy ==
    ASSUME TypeOK, PoolInv, CauseInv, Joined, CopyVerdict = "none"
    PROVE  /\ NoError /\ walk.pos = N + 1 /\ queue = <<>>
           /\ \A c \in Copiers : ~Busy(c)
<1>1. NoError /\ ~cancelled
  BY DEF CopyVerdict, NoError, CauseInv
<1>2. walk.at = "end" /\ walk.pos = N + 1
  BY <1>1 DEF Joined, CauseInv, NoError
<1>3. queue = <<>>
  <2>1. workers = 1 \/ workers > 1
    BY PoolMembers DEF TypeOK
  <2>2. CASE workers = 1
    BY <2>2 DEF PoolInv
  <2>3. CASE workers > 1
    BY <1>1, <2>3, PoolMembers DEF PoolInv, Joined, TypeOK
  <2> QED
    BY <2>1, <2>2, <2>3
<1>4. ASSUME NEW c \in Copiers
      PROVE  ~Busy(c)
  <2>1. CASE c = 0
    BY <1>2, <2>1 DEF PoolInv
  <2>2. CASE c \in Pool
    BY <2>2 DEF Joined, Busy
  <2>3. CASE c \in Copiers \ (Pool \cup {0})
    BY <2>3 DEF PoolInv, Busy
  <2> QED
    BY <2>1, <2>2, <2>3
<1> QED
  BY <1>1, <1>2, <1>3, <1>4

(* Copy and host against the moment, after every step                      *)
(* (analysis.go:308-338).                                                  *)
LEMMA MomentStep ==
    ASSUME TypeOK, PoolInv, CauseInv, TreeInv, MomentInv, [Next]_vars
    PROVE  MomentInv'
<1>1. CASE UNCHANGED <<host, tmp, moment>> /\ (Captured' => Captured)
           /\ edits' \in {edits, edits + 1}
  <2>1. moment.edits \in Nat /\ edits \in Nat
    BY CopyAssumption DEF TypeOK, Moment
  <2>2. \A e \in Entries : MomentPath(e)' <=> MomentPath(e)
    BY <1>1 DEF MomentPath
  <2> QED
    BY <1>1, <2>1, <2>2 DEF MomentInv
<1>2. CASE EditTree
  <2>0. /\ UNCHANGED <<tmp, moment, main>> /\ (Captured' => Captured)
        /\ \E e \in Entries : \E new \in Content : Edited(e, new)
    BY <1>2, EditorSteps DEF EditTree, copyVars, checkVars, Captured
  <2> SUFFICES ASSUME Captured, NEW x \in Entries, NEW new \in Content, Edited(x, new)
               PROVE  moment.edits <= edits' /\ \A e \in Entries : MomentPath(e)'
    BY <2>0 DEF MomentInv
  <2>1. moment.edits \in Nat /\ edits \in Nat /\ edits' = edits + 1 /\ moment.edits <= edits
    BY CopyAssumption DEF TypeOK, Moment, MomentInv, Edited
  <2>2. ASSUME NEW e \in Entries
        PROVE  MomentPath(e)'
    <3> DEFINE h == host[e]
               g == host'[e]
    <3>1. /\ \A c \in DOMAIN g.data : g.data[c] <= edits =>
                c \in DOMAIN h.data /\ g.data[c] = h.data[c]
          /\ g.data # <<>> /\ g.data[1] <= edits =>
                Len(g.data) = Len(h.data) /\ g.kind \in {h.kind, "absent"}
          /\ e \in Absent0 /\ Admitted(h.kind) => Admitted(g.kind)
      BY EditedPaths
    <3>2. MomentPath(e) /\ h \in Content /\ g \in Content
      BY DEF MomentInv, TypeOK, Edited
    <3>3. /\ \A c \in DOMAIN g.data : g.data[c] \in Nat
          /\ g.data # <<>> <=> 1 \in DOMAIN g.data
          /\ h.data # <<>> <=> 1 \in DOMAIN h.data
      BY <3>2, Stamps
    <3>4. \A c \in DOMAIN g.data : g.data[c] <= moment.edits =>
             c \in DOMAIN h.data /\ g.data[c] = h.data[c]
      BY <2>1, <3>1, <3>3
    <3>5. g.data # <<>> /\ g.data[1] <= moment.edits =>
             /\ Len(g.data) = Len(h.data) /\ g.kind \in {h.kind, "absent"}
             /\ h.data # <<>> /\ h.data[1] = g.data[1]
      BY <2>1, <3>1, <3>3, <3>4
    <3>6. host'[e] = g /\ host[e] = h
      OBVIOUS
    <3> HIDE DEF h, g
    <3> QED
      BY <2>0, <3>1, <3>2, <3>4, <3>5, <3>6 DEF MomentPath
  <2> QED
    BY <2>1, <2>2
<1>3. CASE CopyReturns
  <2>1. CASE CopyVerdict # "none"
    BY <1>3, <2>1 DEF CopyReturns, Return, MomentInv, Captured
  <2>2. CASE CopyVerdict = "none"
    <3>0. /\ UNCHANGED <<host, tmp, edits>>
          /\ moment' = [tree |-> host, git |-> git, edits |-> edits]
      BY <1>3, <2>2 DEF CopyReturns, copyVars
    <3>1. /\ NoError /\ walk.pos = N + 1 /\ queue = <<>>
          /\ \A c \in Copiers : ~Busy(c)
      BY <1>3, <2>2, JoinedCopy DEF CopyReturns
    <3>2. ASSUME NEW e \in Entries
          PROVE  MomentPath(e)'
      <4>1. e < walk.pos /\ PathInv(e)
        BY <3>1, CopyAssumption DEF Entries, TreeInv
      <4>2. /\ UpTo(tmp[e], edits)
            /\ tmp[e].kind = "file" =>
                  /\ tmp[e].data # <<>>
                  /\ SameStart(tmp[e], host[e]) => Len(tmp[e].data) = Len(host[e].data)
            /\ e \notin Absent0 /\ Admitted(host[e].kind) => Admitted(tmp[e].kind)
        BY <3>1, <4>1 DEF PathInv, Busy
      <4>3. moment'.tree[e] = host[e] /\ moment'.edits = edits
        BY <3>0
      <4> QED
        BY <3>0, <4>2, <4>3 DEF MomentPath
    <3>3. moment'.edits <= edits'
      BY <3>0, CopyAssumption DEF TypeOK
    <3> QED
      BY <3>2, <3>3 DEF MomentInv
  <2> QED
    BY <2>1, <2>2
<1>4. CASE CtxDone \/ EditGit \/ UNCHANGED vars
  BY <1>1, <1>4 DEF CtxDone, EditGit, vars, copyVars, checkVars, Captured
<1>5. CASE Pinning
  BY <1>5, PinningTouchesNoTree DEF MomentInv, Captured
<1>6. CASE StartCopy
  BY <1>6 DEF StartCopy, Return, MomentInv, Captured
<1>7. CASE Copying
  BY <1>7, CopyingIsLocal DEF MomentInv, Captured
<1>8. CASE Checking
  BY <1>1, <1>8, CheckingReads DEF copyVars, Captured
<1> QED
  BY <1>2, <1>3, <1>4, <1>5, <1>6, <1>7, <1>8, Steps

-----------------------------------------------------------------------------
(* The verification.                                                       *)

(* A content that agrees with another in every buffer and in length and    *)
(* kind is that content.                                                   *)
LEMMA SameContent ==
    ASSUME NEW a \in Content, NEW b \in Content, a.kind = b.kind,
           Len(a.data) = Len(b.data), \A c \in DOMAIN a.data : a.data[c] = b.data[c]
    PROVE  a = b
<1>1. a.data \in Seq(0..MaxEdits) /\ b.data \in Seq(0..MaxEdits)
  BY DEF Content
<1>2. /\ a.data = [c \in 1..Len(a.data) |-> a.data[c]]
      /\ b.data = [c \in 1..Len(b.data) |-> b.data[c]]
      /\ DOMAIN a.data = 1..Len(a.data)
  BY <1>1
<1>3. a.data = b.data
  BY <1>2, Zenon
<1> QED
  BY <1>3 DEF Content

(* A link of the copy that is as the host's is what it was at the moment   *)
(* (snapshot_verify.go:51-66).                                             *)
LEMMA SameLink ==
    ASSUME TypeOK, TreeInv, MomentInv, Captured, NEW e \in Entries,
           host[e] = tmp[e], host[e].data # <<>>
    PROVE  tmp[e] = moment.tree[e]
<1> DEFINE h == host[e]
           m == moment.tree[e]
<1>1. h \in Content /\ m \in Content /\ MomentPath(e) /\ PathInv(e)
  BY DEF TypeOK, Moment, MomentInv, TreeInv
<1>2. /\ \A c \in DOMAIN h.data : h.data[c] <= moment.edits
      /\ 1 \in DOMAIN h.data /\ h.kind # "absent"
  BY <1>1, Stamps DEF MomentPath, UpTo, PathInv
<1>3. /\ \A c \in DOMAIN h.data : h.data[c] = m.data[c]
      /\ Len(h.data) = Len(m.data) /\ h.kind = m.kind
  BY <1>1, <1>2 DEF MomentPath
<1> HIDE DEF h, m
<1>4. h = m
  BY <1>1, <1>3, SameContent
<1> QED
  BY <1>4 DEF h, m

(* A file whose bytes were compared to the end is what it was at the       *)
(* moment (snapshot_verify.go:99-135).                                     *)
LEMMA SameFile ==
    ASSUME TypeOK, MomentInv, VerifyInv, Captured, verify.at = "bytes",
           verify.chunk + 1 \notin DOMAIN tmp[verify.pos].data
    PROVE  tmp[verify.pos] = moment.tree[verify.pos]
<1> DEFINE e == verify.pos
           m == moment.tree[e]
           t == tmp[e]
           n == verify.chunk
<1>1. /\ e \in Entries /\ t.kind = "file" /\ n \in Nat
      /\ \A c \in 1..n : /\ c \in DOMAIN t.data /\ c \in DOMAIN m.data
                         /\ t.data[c] = m.data[c] /\ m.kind = "file"
  BY DEF VerifyInv, TypeOK, VerifyState
<1>2. t \in Content /\ m \in Content /\ MomentPath(e)
  BY <1>1 DEF TypeOK, Moment, MomentInv
<1>3. /\ t.data # <<>> /\ 1 \in DOMAIN t.data /\ DOMAIN t.data = 1..Len(t.data)
      /\ Len(t.data) \in Nat
      /\ (SameStart(t, m) => Len(t.data) = Len(m.data))
      /\ (m.data # <<>> <=> 1 \in DOMAIN m.data)
  BY <1>1, <1>2, Stamps DEF MomentPath
<1>4. n + 1 \notin DOMAIN t.data
  OBVIOUS
<1> HIDE DEF e, m, t, n
<1>5. Len(t.data) = n /\ n >= 1
  <2>1. n + 1 > Len(t.data) /\ Len(t.data) >= 1
    BY <1>1, <1>3, <1>4
  <2>2. n >= 1
    BY <1>1, <2>1, <1>3
  <2>3. n \in DOMAIN t.data
    BY <1>1, <2>2
  <2> QED
    BY <1>1, <1>3, <2>1, <2>2, <2>3
<1>6. SameStart(t, m) /\ m.kind = "file" /\ \A c \in DOMAIN t.data : t.data[c] = m.data[c]
  BY <1>1, <1>3, <1>5 DEF SameStart
<1>7. t = m
  BY <1>1, <1>2, <1>3, <1>6, SameContent
<1> QED
  BY <1>7 DEF e, m, t

(* The verification, after every step (snapshot_verify.go:28-135).         *)
LEMMA VerifyStep ==
    ASSUME TypeOK, PoolInv, CauseInv, TreeInv, MomentInv, VerifyInv, [Next]_vars
    PROVE  VerifyInv'
<1>1. CASE UNCHANGED <<host, tmp, moment, verify, seen, main>>
  BY <1>1 DEF VerifyInv, Captured
<1>2. CASE EditTree
  <2>0. /\ UNCHANGED <<tmp, moment, main, verify, seen>> /\ (Captured' <=> Captured)
        /\ \E e \in Entries : \E new \in Content : Edited(e, new)
    BY <1>2, EditorSteps DEF EditTree, copyVars, checkVars, Captured
  <2>1. ASSUME Captured, verify.at \in {"entry", "bytes"}
        PROVE  LET e == verify.pos
               IN  /\ host'[e].data # <<>>
                   /\ verify.kind = "file" =>
                         moment.tree[e].kind = "file" \/ host'[e].data[1] > moment.edits
    <3> DEFINE e == verify.pos
               h == host[e]
               g == host'[e]
    <3>1. /\ e \in Entries /\ h.data # <<>>
          /\ verify.kind = "file" =>
                moment.tree[e].kind = "file" \/ h.data[1] > moment.edits
      BY <2>1 DEF VerifyInv
    <3>2. /\ g.data # <<>> /\ \A c \in DOMAIN g.data : g.data[c] <= edits => g.data[c] = h.data[c]
      BY <2>0, <3>1, EditedPaths
    <3>3. g \in Content /\ moment.edits \in Nat /\ edits \in Nat /\ moment.edits <= edits
      BY <2>0, <2>1, <3>1, CopyAssumption DEF Edited, TypeOK, Moment, MomentInv
    <3>4. 1 \in DOMAIN g.data /\ g.data[1] \in Nat
      BY <3>2, <3>3, Stamps
    <3> HIDE DEF e, h, g
    <3>5. g.data[1] = h.data[1] \/ g.data[1] > moment.edits
      BY <3>2, <3>3, <3>4
    <3> QED
      BY <3>1, <3>2, <3>5 DEF e, g
  <2> QED
    BY <2>0, <2>1 DEF VerifyInv
<1>3. CASE CtxDone \/ EditGit \/ UNCHANGED vars
  BY <1>1, <1>3 DEF CtxDone, EditGit, vars, copyVars, checkVars
<1>4. CASE Pinning
  BY <1>4, PinningTouchesNoTree DEF VerifyInv, Captured, checkVars
<1>5. CASE StartCopy \/ Copying
  BY <1>5, CopyingIsLocal DEF StartCopy, Return, VerifyInv, Captured, checkVars
<1>6. CASE CopyReturns
  <2>1. CASE CopyVerdict # "none"
    BY <1>6, <2>1 DEF CopyReturns, Return, VerifyInv, Captured
  <2>2. CASE CopyVerdict = "none"
    <3>1. /\ seen' = {} /\ verify'.pos = 1 /\ verify'.at = "list" /\ verify'.chunk = 0
          /\ main' = "verify"
      BY <1>6, <2>2 DEF CopyReturns, VerifyInv, TypeOK, VerifyState
    <3>2. \A x \in Entries : ~(x < 1)
      BY DEF Entries
    <3> QED
      BY <3>1, <3>2 DEF VerifyInv, Captured
  <2> QED
    BY <2>1, <2>2
<1>7. CASE Checking /\ main' = "failed"
  BY <1>7 DEF VerifyInv, Captured
<1>8. CASE Checking /\ UNCHANGED <<verify, seen>> /\ main' # "failed"
  <2>1. UNCHANGED <<host, tmp, moment>> /\ Captured /\ Captured' /\ main' # "copy"
    BY <1>8, CheckingReads DEF copyVars, Captured
  <2>2. main' # "verify" => verify.pos = N + 1 /\ DOMAIN View(tmp) \subseteq seen
    BY <1>8, <2>1 DEF Checking, VerifyList, VerifyEntry, VerifyBytes, VerifyBytesDiffer,
       VerifyGone, VerifyIndex, VerifyAncestors, Rest, Verify, Goto, Return, VerifyInv
  <2>3. main' = "verify" => main = "verify"
    BY <1>8 DEF Checking, VerifyList, VerifyEntry, VerifyBytes, VerifyBytesDiffer,
       VerifyGone, VerifyIndex, VerifyAncestors, Rest, Verify, Goto, Return
  <2> QED
    BY <1>8, <2>1, <2>2, <2>3 DEF VerifyInv, Captured
<1> USE DEF Captured
<1>9. CASE VerifyList
  <2> DEFINE e == verify.pos
  <2>0. /\ UNCHANGED <<host, tmp, moment, main, seen>> /\ main = "verify" /\ verify.at = "list"
        /\ verify \in VerifyState /\ e \in Nat /\ (~(e > N) => e \in Entries) /\ (e > N => e = N + 1)
        /\ \A x \in Entries : x \in Nat
    BY <1>9, CopyAssumption DEF VerifyList, Verify, copyVars, TypeOK, VerifyState,
       Entries
  <2>1. CASE e > N
    <3>1. verify' = [verify EXCEPT !.at = "gone"]
      BY <1>9, <2>1 DEF VerifyList, Verify
    <3>2. verify'.at = "gone" /\ verify'.pos = e /\ verify'.chunk = verify.chunk
      BY <2>0, <3>1 DEF VerifyState
    <3> QED
      BY <2>0, <2>1, <3>2 DEF VerifyInv
  <2>2. CASE ~(e > N) /\ Admitted(host[e].kind)
    <3>1. verify' = [verify EXCEPT !.at = "entry", !.kind = host[e].kind]
      BY <1>9, <2>2 DEF VerifyList, Verify
    <3>2. /\ verify'.at = "entry" /\ verify'.pos = e /\ verify'.chunk = verify.chunk
          /\ verify'.kind = host[e].kind
      BY <2>0, <3>1 DEF VerifyState
    <3>3. host[e].data # <<>> /\ host[e].kind \in {"file", "link"}
      BY <2>0, <2>2 DEF TreeInv, PathInv, Admitted
    <3>4. host[e].kind = "file" =>
             moment.tree[e].kind = "file" \/ host[e].data[1] > moment.edits
      <4>1. host[e] \in Content /\ MomentPath(e) /\ moment.edits \in Nat
        BY <2>0, <2>2, CopyAssumption DEF TypeOK, Moment, MomentInv
      <4>2. host[e].data[1] \in Nat
        BY <3>3, <4>1, Stamps
      <4>3. host[e].data[1] <= moment.edits => host[e].kind \in {moment.tree[e].kind, "absent"}
        BY <3>3, <4>1 DEF MomentPath
      <4> QED
        BY <4>1, <4>2, <4>3
    <3> QED
      BY <2>0, <2>2, <3>2, <3>3, <3>4 DEF VerifyInv
  <2>3. CASE ~(e > N) /\ ~Admitted(host[e].kind)
    <3>1. verify' = NextPath
      BY <1>9, <2>3 DEF VerifyList, Verify
    <3>2. verify'.at = "list" /\ verify'.pos = e + 1 /\ verify'.chunk = 0
      BY <2>0, <3>1 DEF VerifyState, NextPath
    <3>3. e \notin seen /\ (Admitted(moment.tree[e].kind) => e \notin Absent0)
      <4>1. e \notin seen
        BY <2>0 DEF VerifyInv
      <4>2. MomentPath(e)
        BY <2>0, <2>3 DEF MomentInv
      <4> QED
        BY <2>3, <4>1, <4>2 DEF MomentPath
    <3>4. \A x \in Entries : x < e + 1 => x < e \/ x = e
      BY <2>0
    <3>5. \A x \in seen : x < e + 1
      BY <2>0 DEF VerifyInv, TypeOK
    <3> QED
      BY <2>0, <3>2, <3>3, <3>4, <3>5 DEF VerifyInv
  <2> QED
    BY <2>1, <2>2, <2>3
<1>10. CASE VerifyEntry /\ main' # "failed"
  <2> DEFINE e == verify.pos
  <2>0. /\ UNCHANGED <<host, tmp, moment, main>> /\ main = "verify" /\ verify.at = "entry"
        /\ verify \in VerifyState /\ e \in Nat /\ e \in Entries /\ verify.chunk = 0
        /\ e \notin seen /\ seen' = seen \cup {e}
        /\ \A x \in Entries : x \in Nat
    BY <1>10, CopyAssumption DEF VerifyEntry, Verify, Return, copyVars, TypeOK,
       VerifyState,
       Entries, VerifyInv
  <2>1. CASE verify.kind = "link" /\ host[e] = tmp[e] /\ verify' = NextPath
    <3>2. verify'.at = "list" /\ verify'.pos = e + 1 /\ verify'.chunk = 0
      BY <2>0, <2>1 DEF VerifyState, NextPath
    <3>3. tmp[e] = moment.tree[e]
      BY <2>0, <2>1, SameLink DEF VerifyInv
    <3>4. \A x \in Entries : x < e + 1 => x < e \/ x = e
      BY <2>0
    <3>5. \A x \in seen' : x < e + 1
      BY <2>0 DEF VerifyInv, TypeOK
    <3> QED
      BY <2>0, <3>2, <3>3, <3>4, <3>5 DEF VerifyInv
  <2>2. CASE /\ verify.kind = "file" /\ tmp[e].kind = "file"
             /\ verify' = [verify EXCEPT !.at = "bytes"]
    <3>1. /\ verify'.at = "bytes" /\ verify'.pos = e /\ verify'.chunk = 0
          /\ verify'.kind = "file"
      BY <2>0, <2>2 DEF VerifyState
    <3>2. \A x \in Entries : x < e => x # e
      BY <2>0
    <3> QED
      BY <2>0, <2>2, <3>1, <3>2 DEF VerifyInv
  <2> QED
    BY <1>10, <2>1, <2>2 DEF VerifyEntry, Verify, Return
<1>11. CASE VerifyBytes
  <2> DEFINE e == verify.pos
             c == verify.chunk + 1
             h == host[e]
             t == tmp[e]
             m == moment.tree[e]
  <2>0. /\ UNCHANGED <<host, tmp, moment, main, seen>> /\ main = "verify" /\ verify.at = "bytes"
        /\ verify \in VerifyState /\ e \in Nat /\ e \in Entries /\ verify.chunk \in Nat
        /\ e \in seen /\ MomentPath(e) /\ h.data # <<>> /\ t.kind = "file"
        /\ \A x \in Entries : x \in Nat
    BY <1>11, CopyAssumption DEF VerifyBytes, Verify, copyVars, TypeOK, VerifyState,
       Entries, VerifyInv, MomentInv
  <2>1. CASE /\ c \in DOMAIN h.data \cap DOMAIN t.data /\ h.data[c] = t.data[c]
             /\ verify' = [verify EXCEPT !.chunk = c]
    <3>1. /\ verify'.at = "bytes" /\ verify'.pos = e /\ verify'.chunk = c
          /\ verify'.kind = "file"
      BY <2>0, <2>1 DEF VerifyState, VerifyInv
    <3>2. c \in DOMAIN m.data /\ t.data[c] = m.data[c] /\ h.data[c] <= moment.edits
      BY <2>0, <2>1 DEF MomentPath, UpTo
    <3>3. \A b \in 1..c : b \in 1..verify.chunk \/ b = c
      BY <2>0
    <3>4. m.kind = "file"
      <4>1. CASE verify.chunk = 0
        <5>1. m.kind = "file" \/ h.data[1] > moment.edits
          BY <2>0 DEF VerifyInv
        <5>2. h.data[1] <= moment.edits /\ h.data[1] \in Nat /\ moment.edits \in Nat
          <6>1. c = 1 /\ 1 \in DOMAIN h.data
            BY <2>0, <2>1, <4>1
          <6>2. h \in Content
            BY <2>0 DEF TypeOK
          <6>3. h.data[1] \in Nat
            BY <6>1, <6>2, Stamps
          <6>4. moment.edits \in Nat
            BY CopyAssumption DEF TypeOK, Moment
          <6> QED
            BY <3>2, <6>1, <6>3, <6>4
        <5> QED
          BY <5>1, <5>2
      <4>2. CASE verify.chunk # 0
        <5>1. 1 \in 1..verify.chunk
          BY <2>0, <4>2
        <5> QED
          BY <2>0, <5>1 DEF VerifyInv
      <4> QED
        BY <4>1, <4>2
    <3>5. \A b \in 1..c : /\ b \in DOMAIN t.data \cap DOMAIN m.data
                          /\ t.data[b] = m.data[b] /\ m.kind = "file"
      BY <2>0, <2>1, <3>2, <3>3, <3>4 DEF VerifyInv
    <3> HIDE DEF c
    <3> QED
      BY <2>0, <3>1, <3>5 DEF VerifyInv
  <2>2. CASE c \notin DOMAIN t.data /\ verify' = NextPath
    <3>2. verify'.at = "list" /\ verify'.pos = e + 1 /\ verify'.chunk = 0
      BY <2>0, <2>2 DEF VerifyState, NextPath
    <3>3. tmp[e] = moment.tree[e]
      BY <2>0, <2>2, SameFile
    <3>4. \A x \in Entries : x < e + 1 => x < e \/ x = e
      BY <2>0
    <3>5. \A x \in seen : x < e + 1
      <4>1. \A x \in seen : x < e \/ x = e
        BY <2>0 DEF VerifyInv
      <4>2. \A x \in seen : x \in Nat
        BY <2>0 DEF TypeOK
      <4> HIDE DEF e
      <4> QED
        BY <2>0, <4>1, <4>2
    <3> QED
      BY <2>0, <3>2, <3>3, <3>4, <3>5 DEF VerifyInv
  <2> QED
    BY <1>11, <2>1, <2>2 DEF VerifyBytes, Verify
<1> QED
  <2>1. CASE Checking
    <3>1. VerifyList \/ VerifyEntry \/ VerifyBytes \/ main' = "failed" \/ UNCHANGED <<verify, seen>>
      BY <2>1 DEF Checking, VerifyBytesDiffer, VerifyGone, VerifyIndex, VerifyAncestors,
         Rest,
         Goto, Return, checkVars
    <3> QED
      BY <2>1, <3>1, <1>7, <1>8, <1>9, <1>10, <1>11
  <2> QED
    BY <1>2, <1>3, <1>4, <1>5, <1>6, <2>1, Steps

-----------------------------------------------------------------------------
(* The theorems.                                                           *)

(* Nobody writes into the tree once the copy returned, the walk never      *)
(* waits for workers that are all gone, and no temporary directory is left *)
(* behind; with what holds of the pool, the trees, the moment, the         *)
(* verification and the repository at every step (workspace.go:581-702,    *)
(* snapshot_verify.go:28-135, snapshot.go:33-139, analysis.go:308-338).    *)
THEOREM CopyInvariance == Spec => []CopyInv
<1>1. Init => CopyInv
  BY CopyInvInit
<1>2. TypeOK /\ PoolInv /\ CauseInv => NoWriterLeft /\ NoStuckQueue
  BY PoolPromises
<1>3. CopyInv /\ [Next]_vars => CopyInv'
  <2> SUFFICES ASSUME CopyInv, [Next]_vars
               PROVE  CopyInv'
    OBVIOUS
  <2>1. /\ TypeOK /\ PoolInv /\ CauseInv /\ TreeInv /\ MomentInv /\ VerifyInv /\ GitInv
        /\ NothingLeft
    BY DEF CopyInv
  <2>2. TypeOK' /\ PoolInv' /\ CauseInv' /\ TreeInv'
    BY <2>1, TypeStep, PoolStep, CauseStep, TreeStep
  <2>3. MomentInv' /\ VerifyInv' /\ GitInv' /\ NothingLeft'
    BY <2>1, MomentStep, VerifyStep, GitStep, NothingLeftStep
  <2>4. NoWriterLeft' /\ NoStuckQueue'
    BY <1>2, <2>2, PTL
  <2> QED
    BY <2>2, <2>3, <2>4 DEF CopyInv
<1> QED
  BY <1>1, <1>3, PTL DEF Spec

(* The cause of a failed copy is what its caller is told, never the        *)
(* cancellation that followed it, for every number of workers              *)
(* (workspace.go:691-702).                                                 *)
THEOREM CauseNotEchoHolds == Spec => []CauseNotEcho
<1>1. CopyInv => CauseNotEcho
  BY DEF CopyInv, CauseInv, CauseNotEcho, CopyVerdict
<1> QED
  BY <1>1, CopyInvariance, PTL

(* What a run is given is the tree and the index of one moment, however    *)
(* the user edited files, staged changes or changed ignore files during    *)
(* the copy and its verification (analysis.go:308-338,                     *)
(* snapshot_verify.go:28-97, snapshot.go:121-139).                         *)
THEOREM PreparedIsAMomentHolds == Spec => []PreparedIsAMoment
<1>1. CopyInv => PreparedIsAMoment
  <2> SUFFICES ASSUME CopyInv, main = "prepared"
               PROVE  View(tmp) = View(moment.tree) /\ (useGit => pinned = moment.git)
    BY DEF PreparedIsAMoment
  <2>1. TypeOK /\ MomentInv /\ VerifyInv /\ GitInv /\ Captured
    BY DEF CopyInv, Captured
  <2>2. DOMAIN tmp = Entries /\ DOMAIN moment.tree = Entries
    BY <2>1 DEF TypeOK, Moment
  <2>3. \A x \in Entries :
           IF x \in seen THEN tmp[x] = moment.tree[x]
           ELSE Admitted(moment.tree[x].kind) => x \notin Absent0
    BY <2>1, CopyAssumption DEF VerifyInv, Entries
  <2>4. DOMAIN View(tmp) \subseteq seen
    BY <2>1 DEF VerifyInv
  <2>5. ASSUME NEW x \in Entries, Admitted(tmp[x].kind)
        PROVE  tmp[x] = moment.tree[x]
    BY <2>2, <2>3, <2>4, <2>5 DEF View
  <2>6. ASSUME NEW x \in Entries, Admitted(moment.tree[x].kind)
        PROVE  tmp[x] = moment.tree[x]
    <3>1. CASE x \in seen
      BY <2>3, <3>1
    <3>2. CASE x \notin seen
      <4>1. MomentPath(x) /\ x \notin Absent0
        BY <2>1, <2>3, <2>6, <3>2 DEF MomentInv
      <4>2. Admitted(tmp[x].kind)
        BY <2>6, <4>1 DEF MomentPath
      <4> QED
        BY <2>5, <4>2
    <3> QED
      BY <3>1, <3>2
  <2>7. View(tmp) = View(moment.tree)
    <3>1. {x \in DOMAIN tmp : Admitted(tmp[x].kind)}
             = {x \in DOMAIN moment.tree : Admitted(moment.tree[x].kind)}
      BY <2>2, <2>5, <2>6
    <3> QED
      BY <2>2, <2>5, <3>1 DEF View
  <2>8. useGit => pinned = moment.git
    <3>1. useGit => pinned.index = moment.git.index /\ pinned.meta = moment.git.meta
      BY <2>1 DEF GitInv
    <3> QED
      BY <2>1, <3>1 DEF TypeOK, Moment, Versions
  <2> QED
    BY <2>7, <2>8
<1> QED
  BY <1>1, CopyInvariance, PTL
=============================================================================
