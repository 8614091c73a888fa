------------------------------ MODULE Commands ------------------------------
(***************************************************************************)
(* The commands that work on reports, as a CI system runs them:            *)
(*   mutation-judge record   appends a report's entry to the history log,  *)
(*   mutation-judge trend    prints that log,                              *)
(*   mutation-judge compare  gates a change against a baseline report.     *)
(* cmd/mutation-judge/{record,trend,compare}.go, internal/history.         *)
(* Several jobs record into one log at a time.  An entry is one line, but  *)
(* the kernel may take it in pieces, and a full disk or a kill may cut it  *)
(* short; the log is a sequence of pieces.  The gate follows a branch: a   *)
(* change that passes is merged, and its report is the next baseline.      *)
(***************************************************************************)
EXTENDS ReportDocument, ReportCompare, SequencesExt

CONSTANTS
    Jobs,
    LogInputs,     \* [Jobs -> documents]: what each job asks to record
    GateInputs,    \* documents a compare may find at either path
    Options        \* flags of compare: failOnNew, failExitCode, allowIncompatible

ASSUME CommandsAssumption ==
    /\ IsFiniteSet(Jobs)
    /\ \A documents \in LogInputs : \A j \in Jobs : IsDocument(documents[j])
    /\ \A doc \in GateInputs : IsDocument(doc)
    /\ \A o \in Options : /\ o.failOnNew \in BOOLEAN /\ o.allowIncompatible \in BOOLEAN
                          /\ o.failExitCode \in Int

exitOK == 0
exitInput == 2
exitInternal == 3

VARIABLES
    report,    \* the document each job records
    pc,        \* where each job's record is, or what it exited with
    sent,      \* pieces of its line each job has written
    log,       \* the pieces in the history file
    acked,     \* jobs whose record has exited with exitOK, in that order
    cut,       \* whether a write ever ended before its line did
    shown,     \* the last trend: its exit code, its entries, what was due
    branch,    \* reports of the branch: the first baseline, then each merged one
    gate       \* the last compare: what it was asked, and what it did

historyVars == <<report, pc, sent, log, acked, cut, shown>>
gateVars == <<branch, gate>>
vars == <<historyVars, gateVars>>

-----------------------------------------------------------------------------
(* Seeded faults: what a plausible slip would make of a definition below.  *)

(* A line that does not decode is passed over.                             *)
LineFails_Skipped(line) == FALSE

(* Any code the flag parses is allowed.                                    *)
ValidExitCode_NotZero(code) == code # 0

-----------------------------------------------------------------------------
(* The history log.                                                        *)

(* EntryFromReport: the summary as the document states it.                 *)
EntryFromReport(j) == [label |-> j, summary |-> report[j].summary,
                       complete |-> report[j].complete, bounds |-> report[j].bounds]

(* One write of an encoded entry and its end of line.                      *)
Pieces(j) == <<<<j, "head">>, <<j, "tail">>, <<j, "newline">>>>

(* Where the lines end: the last one need not be terminated.               *)
Ends(pieces) ==
    {i \in DOMAIN pieces : pieces[i][2] = "newline"} \cup {Len(pieces) + 1}

(* The line between two ends that have none between them.                  *)
Adjacent(pieces, d, e) ==
    d < e /\ ~\E x \in Ends(pieces) : d < x /\ x < e
Line(pieces, e) ==
    LET d == CHOOSE d \in {0} \cup Ends(pieces) : Adjacent(pieces, d, e)
    IN  SubSeq(pieces, d + 1, e - 1)

Decodes(line) == \E j \in Jobs : line = <<<<j, "head">>, <<j, "tail">>>>

LineFails(line) == line # <<>> /\ ~Decodes(line)

(* A missing or an empty file has no entries; one bad line refuses all.    *)
(* The entries are in the order of their lines, by where those end.        *)
Read(pieces) ==
    IF \E e \in Ends(pieces) : LineFails(Line(pieces, e))
    THEN [ok |-> FALSE, entries |-> <<>>]
    ELSE [ok |-> TRUE,
          entries |-> [e \in {e \in Ends(pieces) : Decodes(Line(pieces, e))} |->
                          Line(pieces, e)[1][1]]]

-----------------------------------------------------------------------------
NoTrend == [exit |-> exitOK, entries |-> <<>>, due |-> <<>>]
NoGate == [asked |-> FALSE]

Init ==
    /\ pc = [j \in Jobs |-> "load"]
    /\ sent = [j \in Jobs |-> 0]
    /\ log = <<>> /\ acked = <<>> /\ cut = FALSE
    /\ shown = NoTrend /\ gate = NoGate
    /\ \/ report \in LogInputs /\ branch = <<>>
       \/ /\ \E first \in GateInputs : branch = <<first>>
          /\ report = [j \in Jobs |-> [syntax |-> "absent"]]

GoTo(j, p) == pc' = [pc EXCEPT ![j] = p]
Recording == branch = <<>>

(* loadReport: a report that cannot be read or is not valid is refused     *)
(* before the log is touched.                                              *)
LoadReport(j) ==
    /\ Recording /\ pc[j] = "load"
    /\ \/ DecodeReport(report[j]) /\ GoTo(j, "write")
       \/ GoTo(j, "exitInput")
    /\ UNCHANGED <<report, sent, log, acked, cut, shown, gateVars>>

Unsent(j) == sent[j] + 1

(* The kernel takes some of what is left of the line.                      *)
WritePieces(j) ==
    /\ Recording /\ pc[j] = "write"
    /\ \E n \in sent[j] + 1..3 :
          /\ log' = log \o SubSeq(Pieces(j), Unsent(j), n)
          /\ sent' = [sent EXCEPT ![j] = n]
          /\ GoTo(j, IF n = 3 THEN "written" ELSE "write")
    /\ UNCHANGED <<report, acked, cut, shown, gateVars>>

(* The disk is full, or the job is killed, before the line has ended.      *)
CutShort(j) ==
    /\ Recording /\ pc[j] = "write"
    /\ GoTo(j, "failed")
    /\ cut' = (cut \/ sent[j] > 0)
    /\ UNCHANGED <<report, sent, log, acked, shown, gateVars>>

AckFrom(p) == p = "written"

(* Append returned: the job exits, with success only after a whole line.   *)
Exit(j) ==
    /\ Recording /\ pc[j] \in {"written", "failed"}
    /\ IF AckFrom(pc[j])
       THEN acked' = Append(acked, j) /\ GoTo(j, "exitOK")
       ELSE GoTo(j, "exitInternal") /\ UNCHANGED acked
    /\ UNCHANGED <<report, sent, log, cut, shown, gateVars>>

(* runTrend: nothing is printed of a log that does not read; a failure of  *)
(* the output is an error however much was printed.                        *)
Trend ==
    LET r == Read(log) IN
    /\ Recording
    /\ shown' \in IF r.ok
                  THEN {[exit |-> exitOK, entries |-> r.entries, due |-> acked]}
                       \cup {[NoTrend EXCEPT !.exit = e] : e \in {exitInput, exitInternal}}
                  ELSE {[NoTrend EXCEPT !.exit = exitInput]}
    /\ UNCHANGED <<report, pc, sent, log, acked, cut, gateVars>>

-----------------------------------------------------------------------------
(* compare.                                                                *)

ValidExitCode(code) == code > 0 /\ code <= 125

Unbounded(doc) == doc.bounds["discovered_before_bound"] = doc.bounds["retained_after_bound"]

(* InspectCompatibility: complete, unbounded runs of one experiment.       *)
InspectCompatibility(a, b) ==
    /\ a.complete /\ b.complete
    /\ Unbounded(a) /\ Unbounded(b)

VerdictsOf(doc) ==
    [id \in {doc.results[i].id : i \in DOMAIN doc.results} |->
        (CHOOSE r \in {doc.results[i] : i \in DOMAIN doc.results} : r.id = id).verdict]

(* CompareReports: what Compare finds, if the reports can show it.         *)
Nothing == Compare(<<>>, <<>>)
CompareReports(a, b) ==
    IF InspectCompatibility(a, b) THEN Compare(VerdictsOf(a), VerdictsOf(b)) ELSE Nothing

GateRefused(comparable, options) ==
    ~comparable /\ (options.failOnNew \/ ~options.allowIncompatible)

(* What runCompare exits with, when the output can be written.             *)
CompareExit(baseline, current, options) ==
    IF ~ValidExitCode(options.failExitCode) \/ ~DecodeReport(baseline)
       \/ ~DecodeReport(current) THEN exitInput
    ELSE IF GateRefused(InspectCompatibility(baseline, current), options) THEN exitInput
    ELSE IF options.failOnNew /\ CompareReports(baseline, current).newSurvivors # {}
         THEN options.failExitCode
    ELSE exitOK

(* One compare of a change; a shell sees its exit code modulo 256.  An     *)
(* output that cannot be written makes it fail whatever it found.  A       *)
(* change is merged when a gate was asked for and has passed.              *)
RunCompare ==
    /\ ~Recording /\ Len(branch) <= 2
    /\ \E current \in GateInputs, options \in Options :
          LET found == CompareExit(Last(branch), current, options) IN
          \E exit \in {found} \cup (IF found = exitInput THEN {} ELSE {exitInternal}) :
             /\ gate' = [asked |-> options.failOnNew, current |-> current,
                         baseline |-> Last(branch), status |-> exit % 256]
             /\ branch' = IF options.failOnNew /\ exit % 256 = 0
                          THEN Append(branch, current) ELSE branch
    /\ UNCHANGED historyVars

Next ==
    \/ \E j \in Jobs : LoadReport(j) \/ WritePieces(j) \/ CutShort(j) \/ Exit(j)
    \/ Trend
    \/ RunCompare

Spec == Init /\ [][Next]_vars

-----------------------------------------------------------------------------
(* Properties of the log.                                                  *)

(* Types: a job writes, and then exits once.                               *)
TypeOK ==
    /\ pc \in [Jobs -> {"load", "write", "written", "failed", "exitOK",
                        "exitInput", "exitInternal"}]
    /\ sent \in [Jobs -> 0..3]
    /\ log \in Seq(Jobs \X {"head", "tail", "newline"})
    /\ Len(log) <= 3 * Cardinality(Jobs)
    /\ acked \in Seq(Jobs)
    /\ cut \in BOOLEAN
    /\ shown.exit \in {exitOK, exitInput, exitInternal}
    /\ branch \in Seq(GateInputs) /\ Len(branch) <= 3
    /\ IF Recording THEN report \in LogInputs
       ELSE \A j \in Jobs : report[j].syntax = "absent"

(* A job's pieces are in the log once each, in order, and are those it has *)
(* sent (history.go:94).                                                   *)
PiecesInv ==
    /\ IsInjective(log)
    /\ \A j \in Jobs, n \in 1..3 :
          (\E i \in DOMAIN log : log[i] = Pieces(j)[n]) <=> n <= sent[j]
    /\ \A j \in Jobs, n \in 1..2, i, k \in DOMAIN log :
          log[i] = Pieces(j)[n] /\ log[k] = Pieces(j)[n + 1] => i < k

(* How far a job has come is what its exit says: it writes a report it has *)
(* accepted, and has succeeded only with all of its line                   *)
(* (record.go:20-49).                                                      *)
ProgressInv ==
    /\ ~Recording => \A j \in Jobs : pc[j] = "load"
    /\ \A j \in Jobs :
          /\ pc[j] \in {"load", "exitInput"} => sent[j] = 0
          /\ pc[j] \in {"written", "exitOK"} => sent[j] = 3
          /\ pc[j] = "write" => sent[j] < 3
          /\ pc[j] \in {"failed", "exitInternal"} => sent[j] = 0 \/ cut
          /\ pc[j] \notin {"load", "exitInput"} => DecodeReport(report[j])
    /\ \A j \in ToSet(acked) : pc[j] = "exitOK"

(* What a trend has shown is in the log, two pieces before where its line  *)
(* ends (history.go:117-130).                                              *)
EntriesInv ==
    shown.exit = exitOK =>
        /\ ToSet(shown.due) \subseteq ToSet(shown.entries)
        /\ \A e \in DOMAIN shown.entries :
              /\ e \in Nat /\ e - 2 \in DOMAIN log
              /\ log[e - 2] = <<shown.entries[e], "head">>

(* A trend that succeeds shows every entry recorded before it, once, in    *)
(* the order of the log, and nothing no job recorded: a line lost to a     *)
(* write cut short, or to two jobs writing at once, makes it fail instead  *)
(* (history.go:100-105, 127-129).                                          *)
NoSilentGap ==
    shown.exit = exitOK =>
        /\ ToSet(shown.due) \subseteq ToSet(shown.entries)
        /\ IsInjective(shown.entries)
        /\ \A i, j \in DOMAIN log : \A a, b \in ToSet(shown.entries) :
              /\ log[i] = <<a, "head">> /\ log[j] = <<b, "head">> /\ i < j
              => \E m, n \in DOMAIN shown.entries :
                    shown.entries[m] = a /\ shown.entries[n] = b /\ m < n

(* If no write was ever cut short and each went to the file in one piece   *)
(* or has no other between its pieces, the log reads at every moment when  *)
(* nobody writes: only a real loss makes a log unreadable                  *)
(* (history.go:79-98).                                                     *)
Torn == \E i, k \in DOMAIN log :
           /\ log[i][1] = log[k][1]
           /\ \E m \in i..k : log[m][1] # log[i][1]
GoodLogReads ==
    ~cut /\ ~Torn /\ (\A j \in Jobs : pc[j] = "write" => sent[j] = 0) => Read(log).ok

(* What is in the log came from evidence: every entry of it is a report    *)
(* whose counts and score are those of distinct mutants with verdicts,     *)
(* no more of them than were retained, and all of those if it says it is   *)
(* complete (validate.go:12-14, 210-215, 246-259).                         *)
OnlyEvidence ==
    \A i \in DOMAIN log : log[i][2] # "newline" =>
        LET doc == report[log[i][1]]
            ids == {doc.results[r].id : r \in DOMAIN doc.results}
            e == EntryFromReport(log[i][1])
        IN  /\ doc.syntax = "object"
            /\ Cardinality(ids) = e.summary.generated
            /\ \A v \in Verdicts : e.summary.counts[v] =
                  Cardinality({id \in ids : \E r \in DOMAIN doc.results :
                                  doc.results[r].id = id /\ doc.results[r].verdict = v})
            /\ e.summary.score.killed <= e.summary.score.of
            /\ e.complete => e.bounds["retained_after_bound"].n = Cardinality(ids)

(* A report as the analyzer writes it is never refused for what is in it,  *)
(* whether it is whole, lacks results, or has them all and was ended by a  *)
(* signal or the deadline after the last of them: what summarize and the   *)
(* bounds of a report state is what ValidateReport expects                 *)
(* (analysis.go:199-202, 938-948, 960-1009, 1086-1115).                    *)
OwnReportsAccepted ==
    \A j \in Jobs : report[j].syntax = "object" =>
        LET r == report[j]
            n(b) == r.bounds[b].n
        IN  /\ \E ended \in BOOLEAN :
                  r = Produced(r.results, n("discovered_before_bound"),
                               n("retained_after_bound"), ended)
            /\ IsInjective([i \in DOMAIN r.results |-> r.results[i].id])
            /\ \A i \in DOMAIN r.results :
                  r.results[i].verdict \in Verdicts /\ r.results[i].flaw = "none"
            /\ n("discovered_before_bound") >= n("retained_after_bound")
            /\ n("retained_after_bound") >= Len(r.results)
            => DecodeReport(r)

(* The log at every moment: it is what the jobs have sent, it reads unless *)
(* something was really lost, and it holds evidence alone                  *)
(* (history.go:79-98, validate.go:210-259).                                *)
LogInv == TypeOK /\ PiecesInv /\ ProgressInv /\ EntriesInv /\ GoodLogReads /\ OnlyEvidence

-----------------------------------------------------------------------------
(* Properties of the gate.                                                 *)

(* A mutant the tests are now shown to miss, or may now miss, and for      *)
(* which the baseline said neither.                                        *)
Regressed(a, b) ==
    {id \in DOMAIN b :
        \/ b[id] = "SURVIVED" /\ (id \in DOMAIN a => a[id] # "SURVIVED")
        \/ b[id] \in {"TIMEOUT", "UNKNOWN"}
           /\ (id \in DOMAIN a =>
                 a[id] \in {"KILLED", "INVALID", "UNSUPPORTED", "EQUIVALENT"})}

(* What the last gate compared, and what was merged, are reports that were *)
(* read; every change that was merged is a valid one (compare.go:35-50).   *)
GateInv ==
    /\ gate # NoGate => gate.baseline \in GateInputs /\ gate.current \in GateInputs
    /\ \A i \in 2..Len(branch) : DecodeReport(branch[i])

(* A gate that was asked for succeeds, as a shell sees it, only on two     *)
(* complete and unbounded reports between which nothing regressed          *)
(* (compare.go:39-61, 98-100, config.go:545-550).                          *)
RegressionIsVisible ==
    gate.asked /\ gate.status = 0 =>
        /\ gate.baseline.complete /\ gate.current.complete
        /\ Unbounded(gate.baseline) /\ Unbounded(gate.current)
        /\ Regressed(VerdictsOf(gate.baseline), VerdictsOf(gate.current)) = {}

(* A branch of which every change passed the gate has not regressed from   *)
(* its first baseline either: a regression cannot be split into steps none *)
(* of which shows, not even by removing a mutant and bringing it back      *)
(* (compare.go:245-262).                                                   *)
GatingIsTransitive ==
    /\ GateInv
    /\ \A i, j \in DOMAIN branch : i < j =>
          Regressed(VerdictsOf(branch[i]), VerdictsOf(branch[j])) = {}

(* The buckets of a comparison of two sides.                               *)
Honest(a, b) ==
    LET d == Compare(a, b)
        buckets == <<d.newSurvivors, d.fixedSurvivors, d.stillOpen,
                     d.reclassified, d.removed>>
    IN  /\ \A i, j \in DOMAIN buckets : i # j => buckets[i] \cap buckets[j] = {}
        /\ Cardinality(UNION ToSet(buckets)) + d.unchanged
             = Cardinality(DOMAIN a \cup DOMAIN b)
        /\ \A id \in d.fixedSurvivors :
              b[id] = "KILLED" /\ id \in Compare(b, a).newSurvivors
        /\ \A p, q \in d.likelyShifted : (p[1] = q[1]) <=> (p[2] = q[2])

(* Every identity is in exactly one of the six buckets                     *)
(* (compare.go:156-158,                                                    *)
(* 185-203), and a mutant counts as fixed only if it is killed now, was    *)
(* open before, and would be a new survivor if the change were undone.     *)
(* A removed mutant is taken for at most one new one and a new one for at  *)
(* most one removed, in whichever direction the reports are compared       *)
(* (shift.go:50-54, 78-82).                                                *)
BucketsAreHonest ==
    "current" \in DOMAIN gate =>
        Honest(VerdictsOf(gate.baseline), VerdictsOf(gate.current))
=============================================================================
