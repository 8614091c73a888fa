---------------------------- MODULE ProcessGroup ----------------------------
(***************************************************************************)
(* Running one toolchain command with everything it starts: internal/proc.   *)
(* On Unix the command leads a process group, on Windows it is started       *)
(* suspended, put into a job object and resumed; elsewhere only the direct   *)
(* child is managed.  os/exec is external: its watcher goroutine calls       *)
(* Cancel when the context ends, and Wait reaps the child, stops or joins    *)
(* the watcher and then reads the output to its end, but no longer than      *)
(* WaitDelay.                                                                *)
(*                                                                           *)
(* Processes fork, write and exit as they please, and may run for ever.      *)
(* None leaves its group.  Output is counted in pieces of one capture        *)
(* unit, over one stream.                                                    *)
(***************************************************************************)
EXTENDS Naturals

CONSTANTS
    MaxProcs,     \* bound on processes, the direct child included
    MaxWrites,    \* bound on pieces of output
    CaptureLimit  \* pieces retained: MaxCaptureBytes

ASSUME ProcAssumption ==
    /\ MaxProcs \in Nat \ {0}
    /\ MaxWrites \in Nat
    /\ CaptureLimit \in Nat

Procs == 1..MaxProcs
child == 1

VARIABLES
    platform,
    ctxDone,    \* the command's context has ended
    runAt,         \* where Run is
    err,        \* whether Run has an error to return
    proc,       \* state of every process
    inJob,      \* members of the job object (Windows)
    jobOpen,    \* whether its handle is open
    canceled,   \* the flag Cancel sets (Windows)
    watcher,    \* os/exec's goroutine that watches the context
    written,    \* pieces the processes wrote
    inPipe,     \* pieces not read yet
    kept,       \* pieces in the capture
    exceeded,   \* the capture's flag
    grace       \* the WaitDelay timer

job == <<inJob, jobOpen, canceled>>
output == <<written, inPipe, kept, exceeded>>
groupVars ==
    <<platform, ctxDone, runAt, err, proc, job, watcher, output, grace>>

GroupTypeOK ==
    /\ platform \in {"unix", "windows", "other"}
    /\ ctxDone \in BOOLEAN /\ err \in BOOLEAN /\ exceeded \in BOOLEAN
    /\ jobOpen \in BOOLEAN /\ canceled \in BOOLEAN
    /\ runAt \in {"begin", "start", "open", "assign", "check", "resume", "fail",
               "kill", "reap", "join", "drain", "close", "returned"}
    /\ proc \in [Procs -> {"none", "suspended", "running", "dead", "reaped"}]
    /\ inJob \subseteq Procs
    /\ watcher \in {"none", "watching", "canceling", "killing", "canceled",
                    "stopped"}
    /\ written \in 0..MaxWrites /\ inPipe \in 0..MaxWrites
    /\ kept \in 0..CaptureLimit
    /\ grace \in {"off", "running", "expired"}

GroupInit ==
    /\ platform \in {"unix", "windows", "other"}
    /\ ctxDone \in BOOLEAN
    /\ runAt = "begin"
    /\ err = FALSE
    /\ proc = [p \in Procs |-> "none"]
    /\ inJob = {}
    /\ jobOpen = FALSE
    /\ canceled = FALSE
    /\ watcher = "none"
    /\ written = 0 /\ inPipe = 0 /\ kept = 0
    /\ exceeded = FALSE
    /\ grace = "off"

Alive(p) == proc[p] \in {"suspended", "running"}

(* What a kill of a set of processes makes of the process table.             *)
Killed(set) == [p \in Procs |-> IF p \in set /\ Alive(p) THEN "dead" ELSE proc[p]]

Group == Procs    \* kill(-pid): the group of the child

-----------------------------------------------------------------------------
(* Seeded faults: what a plausible slip would make of a definition below.    *)

(* A failed start does not wait for the child it killed.                     *)
FailKill_NoWait ==
    /\ runAt = "kill"
    /\ proc' = Killed({child})
    /\ err' = TRUE
    /\ runAt' = "close"
    /\ UNCHANGED <<platform, ctxDone, job, watcher, output, grace>>

(* The group is only killed when the context ended.                          *)
Close_OnlyCanceled ==
    /\ runAt = "close"
    /\ jobOpen' = FALSE
    /\ proc' = IF ctxDone THEN Killed(Group) ELSE proc
    /\ err' = (err \/ exceeded)
    /\ runAt' = "returned"
    /\ UNCHANGED <<platform, ctxDone, inJob, canceled, watcher, output, grace>>

(* Output past the limit is dropped silently.                                *)
ReadOutput_Truncates ==
    /\ inPipe > 0
    /\ grace # "expired"
    /\ inPipe' = inPipe - 1
    /\ kept' = IF kept < CaptureLimit THEN kept + 1 ELSE kept
    /\ UNCHANGED <<platform, ctxDone, runAt, err, proc, job, watcher, written,
                   exceeded, grace>>

(* Wait reads the output without a time limit.                               *)
GraceExpires_Never ==
    /\ FALSE
    /\ UNCHANGED groupVars

-----------------------------------------------------------------------------
(* The outside: the context, and what the processes do.                      *)

CtxDone ==
    /\ ~ctxDone
    /\ runAt # "returned"
    /\ ctxDone' = TRUE
    /\ UNCHANGED <<platform, runAt, err, proc, job, watcher, output, grace>>

Fork(p) ==
    /\ proc[p] = "running"
    /\ runAt # "returned"
    /\ \E q \in Procs :
          /\ proc[q] = "none"
          /\ \A r \in Procs : proc[r] = "none" => q <= r
          /\ proc' = [proc EXCEPT ![q] = "running"]
          /\ inJob' = IF p \in inJob THEN inJob \cup {q} ELSE inJob
    /\ UNCHANGED <<platform, ctxDone, runAt, err, jobOpen, canceled, watcher,
                   output, grace>>

WriteOutput(p) ==
    /\ proc[p] = "running"
    /\ runAt # "returned"
    /\ grace # "expired"
    /\ written < MaxWrites
    /\ written' = written + 1
    /\ inPipe' = inPipe + 1
    /\ UNCHANGED <<platform, ctxDone, runAt, err, proc, job, watcher, kept,
                   exceeded, grace>>

(* The child's exit status is what Wait will report.                         *)
ExitProc(p) ==
    /\ proc[p] = "running"
    /\ runAt # "returned"
    /\ proc' = [proc EXCEPT ![p] = "dead"]
    /\ err' \in IF p = child THEN {err, TRUE} ELSE {err}
    /\ UNCHANGED <<platform, ctxDone, runAt, job, watcher, output, grace>>

-----------------------------------------------------------------------------
(* Run and runManaged.                                                       *)

(* The job must exist before the child does.                                 *)
Begin ==
    /\ runAt = "begin"
    /\ \/ /\ jobOpen' = (platform = "windows")
          /\ runAt' = "start"
          /\ UNCHANGED err
       \/ /\ platform = "windows"
          /\ err' = TRUE
          /\ runAt' = "returned"
          /\ UNCHANGED jobOpen
    /\ UNCHANGED <<platform, ctxDone, proc, inJob, canceled, watcher, output,
                   grace>>

(* cmd.Start does not start anything under a context that has ended.  From   *)
(* here on the watcher may call Cancel at any time.                          *)
StartChild ==
    /\ runAt = "start"
    /\ ~ctxDone
    /\ proc' = [proc EXCEPT ![child] =
                   IF platform = "windows" THEN "suspended" ELSE "running"]
    /\ watcher' = "watching"
    /\ runAt' = IF platform = "windows" THEN "open" ELSE "reap"
    /\ UNCHANGED <<platform, ctxDone, err, job, output, grace>>

StartFails ==
    /\ runAt = "start"
    /\ err' = TRUE
    /\ runAt' = "close"
    /\ UNCHANGED <<platform, ctxDone, proc, job, watcher, output, grace>>

RunGoto(p) ==
    /\ runAt' = p
    /\ UNCHANGED <<platform, ctxDone, err, proc, job, watcher, output, grace>>

OpenHandle == runAt = "open" /\ (RunGoto("assign") \/ RunGoto("fail"))

(* A child that was killed cannot be assigned any more.                      *)
Assign ==
    /\ runAt = "assign"
    /\ Alive(child)
    /\ inJob' = inJob \cup {child}
    /\ runAt' = "check"
    /\ UNCHANGED <<platform, ctxDone, err, proc, jobOpen, canceled, watcher,
                   output, grace>>

AssignFails == runAt = "assign" /\ RunGoto("fail")

CheckCanceled ==
    runAt = "check" /\ RunGoto(IF canceled THEN "fail" ELSE "resume")

Resume ==
    /\ runAt = "resume"
    /\ proc' = [proc EXCEPT ![child] = IF @ = "suspended" THEN "running" ELSE @]
    /\ runAt' = "reap"
    /\ UNCHANGED <<platform, ctxDone, err, job, watcher, output, grace>>

ResumeFails == runAt = "resume" /\ RunGoto("fail")

(* fail: the job is terminated, then the child, which may not be in it.      *)
FailTerminate ==
    /\ runAt = "fail"
    /\ proc' = Killed(inJob)
    /\ runAt' = "kill"
    /\ UNCHANGED <<platform, ctxDone, err, job, watcher, output, grace>>

FailKill ==
    /\ runAt = "kill"
    /\ proc' = Killed({child})
    /\ err' = TRUE
    /\ runAt' = "reap"
    /\ UNCHANGED <<platform, ctxDone, job, watcher, output, grace>>

-----------------------------------------------------------------------------
(* The watcher: Cancel.                                                      *)

Cancel ==
    /\ watcher = "watching"
    /\ ctxDone
    /\ IF platform = "windows"
       THEN /\ canceled' = TRUE
            /\ watcher' = "canceling"
            /\ UNCHANGED <<proc, grace>>
       ELSE /\ proc' = Killed(IF platform = "unix" THEN Group ELSE {child})
            /\ watcher' = "canceled"
            /\ grace' = "running"
            /\ UNCHANGED canceled
    /\ UNCHANGED <<platform, ctxDone, runAt, err, inJob, jobOpen, output>>

CancelTerminate ==
    /\ watcher = "canceling"
    /\ proc' = Killed(inJob)
    /\ watcher' = "killing"
    /\ UNCHANGED <<platform, ctxDone, runAt, err, job, output, grace>>

CancelKill ==
    /\ watcher = "killing"
    /\ proc' = Killed({child})
    /\ watcher' = "canceled"
    /\ grace' = "running"
    /\ UNCHANGED <<platform, ctxDone, runAt, err, job, output>>

-----------------------------------------------------------------------------
(* Wait.                                                                     *)

Reap ==
    /\ runAt = "reap"
    /\ proc[child] = "dead"
    /\ proc' = [proc EXCEPT ![child] = "reaped"]
    /\ runAt' = "join"
    /\ UNCHANGED <<platform, ctxDone, err, job, watcher, output, grace>>

(* Wait stops the watcher, or waits until its Cancel has returned.           *)
JoinWatcher ==
    /\ runAt = "join"
    /\ watcher \in {"watching", "canceled"}
    /\ watcher' = "stopped"
    /\ err' = (err \/ watcher = "canceled")
    /\ grace' = IF grace = "off" THEN "running" ELSE grace
    /\ runAt' = "drain"
    /\ UNCHANGED <<platform, ctxDone, proc, job, output>>

(* The copying goroutine keeps what fits and reads on.                       *)
ReadOutput ==
    /\ inPipe > 0
    /\ grace # "expired"
    /\ inPipe' = inPipe - 1
    /\ kept' = IF kept < CaptureLimit THEN kept + 1 ELSE kept
    /\ exceeded' = (exceeded \/ kept >= CaptureLimit)
    /\ UNCHANGED <<platform, ctxDone, runAt, err, proc, job, watcher, written,
                   grace>>

(* End of file: nobody holds the other end any more.                         *)
DrainToEnd ==
    /\ runAt = "drain"
    /\ grace # "expired"
    /\ inPipe = 0
    /\ \A p \in Procs : ~Alive(p)
    /\ RunGoto("close")

GraceExpires ==
    /\ grace = "running"
    /\ runAt # "returned"
    /\ grace' = "expired"
    /\ UNCHANGED <<platform, ctxDone, runAt, err, proc, job, watcher, output>>

(* The pipes are closed under the processes that still hold them.            *)
DrainTimeout ==
    /\ runAt = "drain"
    /\ grace = "expired"
    /\ err' = TRUE
    /\ runAt' = "close"
    /\ UNCHANGED <<platform, ctxDone, proc, job, watcher, output, grace>>

(* cleanup on Unix, the deferred CloseHandle on Windows; then Output looks   *)
(* at the capture.                                                           *)
Close ==
    /\ runAt = "close"
    /\ jobOpen' = FALSE
    /\ proc' = CASE platform = "unix" -> Killed(Group)
                 [] platform = "windows" -> Killed(inJob)
                 [] OTHER -> proc
    /\ err' = (err \/ exceeded)
    /\ runAt' = "returned"
    /\ UNCHANGED <<platform, ctxDone, inJob, canceled, watcher, output, grace>>

GroupTerminated == runAt = "returned" /\ UNCHANGED groupVars

-----------------------------------------------------------------------------
Run ==
    \/ Begin \/ StartChild \/ StartFails \/ OpenHandle \/ Assign \/ AssignFails
    \/ CheckCanceled \/ Resume \/ ResumeFails \/ FailTerminate \/ FailKill
    \/ Reap \/ JoinWatcher \/ DrainToEnd \/ DrainTimeout \/ Close

Watcher == Cancel \/ CancelTerminate \/ CancelKill

World == \E p \in Procs : Fork(p) \/ WriteOutput(p) \/ ExitProc(p)

GroupNext ==
    \/ CtxDone \/ World \/ Run \/ Watcher \/ ReadOutput \/ GraceExpires
    \/ GroupTerminated

GroupSpec == GroupInit /\ [][GroupNext]_groupVars

(* The tool's goroutines and its timer run; nothing is assumed of the        *)
(* processes, which may hang and hold the output open for ever.              *)
GroupFairSpec ==
    /\ GroupSpec
    /\ WF_groupVars(Run) /\ WF_groupVars(Watcher)
    /\ WF_groupVars(ReadOutput) /\ WF_groupVars(GraceExpires)

-----------------------------------------------------------------------------
(* Properties.                                                               *)

(* On Windows nothing of the command ever runs outside the job, whatever     *)
(* call fails and wherever the cancellation comes                            *)
(* (proc_windows.go:137-175).                                                *)
ContainedOnly ==
    platform = "windows" =>
        \A p \in Procs : proc[p] = "running" => p \in inJob

(* When Run returns, nothing the command started is alive and the child      *)
(* was reaped, also after a failed start, an ordinary exit and an exit       *)
(* that leaves descendants (proc_unix.go:26-33, proc_windows.go:135).        *)
NoSurvivor ==
    (runAt = "returned" /\ platform # "other") =>
        /\ \A p \in Procs : ~Alive(p)
        /\ proc[child] \in {"none", "reaped"}

(* The job's handle is open as long as the watcher may use it: also a        *)
(* failed start waits for the child, and with it for Cancel                  *)
(* (proc_windows.go:135-159).                                                *)
NoUseAfterClose ==
    (platform = "windows" /\ watcher \in {"canceling", "killing"}) => jobOpen

Managing == runAt \in {"open", "assign", "check", "resume", "fail", "kill"}

(* How far the child is: nothing else lives before it does, it waits         *)
(* suspended only while Run manages its job, and Run leaves Wait with the    *)
(* child reaped and the watcher gone (proc_windows.go:135-175).              *)
ChildInv ==
    /\ Managing => platform = "windows"
    /\ runAt \in {"check", "resume"} => child \in inJob
    /\ runAt \in {"begin", "start"} => proc[child] = "none"
    /\ proc[child] = "none" =>
          /\ \A p \in Procs : proc[p] = "none"
          /\ watcher = "none" /\ written = 0
          /\ runAt \in {"begin", "start", "close", "returned"}
    /\ runAt \in {"join", "drain"} => proc[child] = "reaped"
    /\ runAt \in {"close", "returned"} => proc[child] \in {"none", "reaped"}
    /\ runAt \in {"drain", "close", "returned"} => watcher \in {"none", "stopped"}
    /\ \A p \in Procs : proc[p] = "suspended" => p = child /\ Managing
    /\ platform = "windows" /\ runAt \notin {"begin", "returned"} => jobOpen

(* Every piece that was written is in the pipe, in the capture, or marked    *)
(* as lost; Run leaves Wait without an error only when the pipe is empty     *)
(* and has no writer (proc.go:35-51, 74-98).                                 *)
OutputInv ==
    /\ kept + inPipe <= written
    /\ ~exceeded => kept + inPipe = written
    /\ runAt \in {"close", "returned"} /\ ~err =>
          inPipe = 0 /\ \A p \in Procs : ~Alive(p)
    /\ runAt = "returned" /\ ~err => ~exceeded

(* The job at every moment: it holds whatever runs, and is there for         *)
(* whoever may still use it (proc_windows.go:135-175); with what holds of    *)
(* the child and of the output and makes it so.                              *)
JobInv ==
    /\ GroupTypeOK
    /\ ContainedOnly
    /\ NoUseAfterClose
    /\ ChildInv
    /\ OutputInv

(* A command that returns without an error returns everything its            *)
(* processes wrote: truncation by the limit or by the grace period is an     *)
(* error, never a short listing (proc.go:35-51, 74-98).                      *)
WholeOrError == (runAt = "returned" /\ ~err) => kept = written

(* A command whose context has ended, or whose child has exited, returns,    *)
(* although descendants hang and hold its output (proc.go:59-64).            *)
Returns == (ctxDone \/ proc[child] = "dead") ~> (runAt = "returned")
=============================================================================
