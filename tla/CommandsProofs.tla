--------------------------- MODULE CommandsProofs ---------------------------
(***************************************************************************)
(* What Commands says of the history log and of the gate, for every finite *)
(* set of jobs, every documents and every flags.                           *)
(***************************************************************************)
EXTENDS Commands, FiniteSetTheorems, WellFoundedInduction, TLAPS

-----------------------------------------------------------------------------
(* Numbers and finite sets.                                                *)

(* A set of naturals that is not empty has a least member.                 *)
LEMMA Least ==
    ASSUME NEW S \in SUBSET Nat, S # {}
    PROVE  \E x \in S : \A y \in S : x <= y
<1> DEFINE R == {p \in Nat \X Nat : p[1] < p[2]}
<1>1. IsWellFoundedOn(R, Nat)
  BY NatLessThanWellFounded DEF OpToRel
<1>2. PICK x \in S : \A y \in S : ~(<<y, x>> \in R)
  <2>1. S \subseteq Nat  OBVIOUS
  <2> HIDE DEF R
  <2> QED  BY <1>1, <2>1, WFMin
<1>3. \A y \in S : <<y, x>> \notin R => x <= y
  OBVIOUS
<1> QED  BY <1>2, <1>3

(* A function that maps no two members of a finite set to one maps it to   *)
(* as many.                                                                *)
LEMMA ImageCardinality ==
    ASSUME NEW S, IsFiniteSet(S), NEW f,
           \A x, y \in S : f[x] = f[y] => x = y
    PROVE  Cardinality({f[x] : x \in S}) = Cardinality(S)
<1> DEFINE g == [x \in S |-> f[x]]
           T == {f[x] : x \in S}
<1>1. g \in Bijection(S, T)
  BY DEF Bijection, Injection, Surjection, IsInjective
<1>2. ExistsBijection(S, T)
  BY <1>1 DEF ExistsBijection
<1> QED  BY <1>2, FS_Bijection

-----------------------------------------------------------------------------
(* The lines of the log.                                                   *)

(* Every line starts after an end or at the start of the file, and where   *)
(* it starts is determined by where it ends (history.go:117-125).          *)
LEMMA LineStarts ==
    ASSUME NEW S, NEW pieces \in Seq(S), NEW e \in Ends(pieces)
    PROVE  \E d \in {0} \cup Ends(pieces) :
              Adjacent(pieces, d, e) /\ Line(pieces, e) = SubSeq(pieces, d + 1, e - 1)
<1>1. Ends(pieces) \subseteq 1..Len(pieces) + 1 /\ Len(pieces) \in Nat
  BY DEF Ends
<1> DEFINE D == {0} \cup Ends(pieces)
           Gaps == {n \in Nat : \E d \in D : d < e /\ n = e - d}
<1>2. D \subseteq Nat /\ e \in Nat /\ 0 < e /\ 0 \in D
  BY <1>1
<1>3. e \in Gaps
  BY <1>2
<1>4. PICK n \in Gaps : \A m \in Gaps : n <= m
  <2> HIDE DEF Gaps
  <2>1. Gaps \in SUBSET Nat  BY DEF Gaps
  <2> QED  BY <1>3, <2>1, Least
<1>5. PICK d \in D : d < e /\ n = e - d
  BY <1>4
<1>6. Adjacent(pieces, d, e)
  <2> SUFFICES ASSUME NEW x \in Ends(pieces), d < x, x < e
               PROVE  FALSE
    BY <1>5 DEF Adjacent
  <2>1. e - x \in Gaps
    BY <1>2
  <2> QED  BY <2>1, <1>2, <1>4, <1>5
<1> QED  BY <1>6 DEF Line

(* A line that decodes is the two pieces just before its end.              *)
LEMMA DecodedLine ==
    ASSUME NEW S, NEW pieces \in Seq(S), NEW e \in Ends(pieces),
           Decodes(Line(pieces, e))
    PROVE  /\ e \in Nat /\ e - 2 \in 1..Len(pieces)
           /\ \E j \in Jobs : /\ pieces[e - 2] = <<j, "head">>
                              /\ pieces[e - 1] = <<j, "tail">>
                              /\ Line(pieces, e)[1][1] = j
<1>1. Ends(pieces) \subseteq 1..Len(pieces) + 1 /\ Len(pieces) \in Nat
  BY DEF Ends
<1>2. PICK j \in Jobs : Line(pieces, e) = <<<<j, "head">>, <<j, "tail">>>>
  BY DEF Decodes
<1>3. PICK d \in {0} \cup Ends(pieces) :
        Adjacent(pieces, d, e) /\ Line(pieces, e) = SubSeq(pieces, d + 1, e - 1)
  BY LineStarts
<1>4. d \in Nat /\ e \in Nat /\ d < e /\ e <= Len(pieces) + 1
  BY <1>1, <1>3 DEF Adjacent
<1>5. Len(SubSeq(pieces, d + 1, e - 1)) = e - 1 - d
  BY <1>4
<1>6. d + 1 = e - 2
  <2>1. Len(<<<<j, "head">>, <<j, "tail">>>>) = 2  OBVIOUS
  <2>2. e - 1 - d = 2  BY <1>2, <1>3, <1>5, <2>1
  <2> QED  BY <1>4, <2>2
<1>7. /\ Line(pieces, e)[1] = pieces[e - 2]
      /\ Line(pieces, e)[2] = pieces[e - 1]
  BY <1>3, <1>4, <1>6
<1> QED  BY <1>2, <1>4, <1>6, <1>7

-----------------------------------------------------------------------------
(* Documents.                                                              *)

(* How many results have a verdict is a number (analysis.go:1088-1105).    *)
LEMMA Counted ==
    ASSUME NEW doc, IsDocument(doc), NEW v
    PROVE  /\ IsFiniteSet({i \in DOMAIN doc.results : doc.results[i].verdict = v})
           /\ CountOf(doc.results, v) \in Nat
<1>1. DOMAIN doc.results = 1..Len(doc.results) /\ Len(doc.results) \in Nat
  BY DEF IsDocument
<1>2. IsFiniteSet(DOMAIN doc.results)
  BY <1>1, FS_Interval
<1> QED  BY <1>2, FS_Subset, FS_CardinalityType DEF CountOf

(* A document that was accepted states what its results are: as many as it *)
(* has identities, with the counts of their verdicts and a score of at     *)
(* most all (validate.go:210-259).                                         *)
LEMMA AcceptedIsEvidence ==
    ASSUME NEW doc, IsDocument(doc), DecodeReport(doc)
    PROVE  LET ids == {doc.results[r].id : r \in DOMAIN doc.results} IN
           /\ doc.syntax = "object"
           /\ Cardinality(ids) = doc.summary.generated
           /\ \A v \in Verdicts : doc.summary.counts[v] =
                 Cardinality({id \in ids : \E r \in DOMAIN doc.results :
                                 doc.results[r].id = id /\ doc.results[r].verdict = v})
           /\ doc.summary.score.killed <= doc.summary.score.of
           /\ doc.complete => doc.bounds["retained_after_bound"].n = Cardinality(ids)
<1> DEFINE D == DOMAIN doc.results
           idOf == [i \in D |-> doc.results[i].id]
           ids == {doc.results[r].id : r \in D}
<1>1. D = 1..Len(doc.results) /\ Len(doc.results) \in Nat
  BY DEF IsDocument
<1>2. IsFiniteSet(D) /\ Cardinality(D) = Len(doc.results)
  BY <1>1, FS_Interval
<1>3. \A i, j \in D : idOf[i] = idOf[j] => i = j
  BY DEF DecodeReport, ValidateReport, ResultsValid
<1>4. Cardinality(ids) = Len(doc.results)
  <2>1. ids = {idOf[i] : i \in D}
    OBVIOUS
  <2> HIDE DEF idOf, ids, D
  <2> QED  BY <1>2, <1>3, <2>1, ImageCardinality
<1>5. ASSUME NEW v \in Verdicts
      PROVE  CountOf(doc.results, v) =
                Cardinality({id \in ids : \E r \in D : doc.results[r].id = id
                                                     /\ doc.results[r].verdict = v})
  <2> DEFINE V == {i \in D : doc.results[i].verdict = v}
  <2>1. {id \in ids : \E r \in D : doc.results[r].id = id
                                 /\ doc.results[r].verdict = v} = {idOf[i] : i \in V}
    OBVIOUS
  <2>2. \A i, j \in V : idOf[i] = idOf[j] => i = j
    BY <1>3
  <2>3. IsFiniteSet(V)
    BY Counted
  <2>4. Cardinality({idOf[i] : i \in V}) = Cardinality(V)
    <3> HIDE DEF V, idOf
    <3> QED  BY <2>2, <2>3, ImageCardinality
  <2> QED  BY <2>1, <2>4 DEF CountOf
<1>6. doc.summary.score.killed <= doc.summary.score.of
  <2> DEFINE k == CountOf(doc.results, "KILLED")
             s == CountOf(doc.results, "SURVIVED")
             den == IF k + s > 0 THEN k + s ELSE 1
             x == doc.summary.score.killed
             y == doc.summary.score.of
  <2>0. x \in Int /\ y \in Nat /\ y > 0
    BY DEF IsDocument
  <2>1. k \in Nat /\ s \in Nat /\ x \in Int /\ y \in Nat /\ y > 0
    <3> HIDE DEF x, y
    <3> QED  BY <2>0, Counted
  <2>2. doc.summary.counts["KILLED"] = k /\ doc.summary.counts["SURVIVED"] = s
    BY DEF DecodeReport, ValidateReport, SummaryAgrees, Verdicts
  <2>3. x * den = k * y
    BY <2>2 DEF DecodeReport, ValidateReport, SummaryAgrees
  <2> HIDE DEF x, y, k, s
  <2>4. den \in Nat /\ den > 0 /\ k <= den
    BY <2>1
  <2> HIDE DEF den
  <2>5. k * y <= den * y
    BY <2>1, <2>4
  <2>6. ASSUME x > y
        PROVE  FALSE
    <3>1. x * den >= (y + 1) * den  BY <2>1, <2>4, <2>6
    <3>2. (y + 1) * den = den * y + den  BY <2>1, <2>4
    <3> QED  BY <2>1, <2>3, <2>4, <2>5, <3>1, <3>2
  <2>7. x <= y
    BY <2>1, <2>6
  <2> QED  BY <2>7 DEF x, y
<1>7. doc.syntax = "object"
  BY DEF DecodeReport, OneObject
<1>8. /\ doc.summary.generated = Len(doc.results)
      /\ \A v \in Verdicts : doc.summary.counts[v] = CountOf(doc.results, v)
  BY DEF DecodeReport, ValidateReport, SummaryAgrees
<1>9. doc.complete => doc.bounds["retained_after_bound"].n = Len(doc.results)
  BY DEF DecodeReport, ValidateReport, BoundsAgree
<1> QED  BY <1>4, <1>5, <1>6, <1>7, <1>8, <1>9

(* What the analyzer writes of distinct results with verdicts is accepted, *)
(* whether or not it had ended (analysis.go:199-202, 960-1009, 1086-1115). *)
LEMMA ProducedIsAccepted ==
    ASSUME NEW r, IsDocument(r), NEW discovered, NEW retained,
           NEW ended \in BOOLEAN,
           r = Produced(r.results, discovered, retained, ended),
           discovered \in Int, retained \in Int,
           discovered >= retained, retained >= Len(r.results),
           IsInjective([i \in DOMAIN r.results |-> r.results[i].id]),
           \A i \in DOMAIN r.results :
              r.results[i].verdict \in Verdicts /\ r.results[i].flaw = "none"
    PROVE  DecodeReport(r)
<1> DEFINE res == r.results
           n == Len(res)
<1>1. n \in Nat
  BY DEF IsDocument
<1>2. /\ r.syntax = "object" /\ r.version = SchemaVersion
      /\ r.missing = {} /\ r.blank = {}
      /\ r.complete = (~ended /\ n = retained)
      /\ r.summary = summarize(res)
      /\ \A b \in Bounds : r.bounds[b] =
            Integer(CASE b = "discovered_before_bound" -> discovered
                      [] b = "retained_after_bound" -> retained
                      [] OTHER -> n)
  BY DEF Produced
<1>3. /\ r.bounds["discovered_before_bound"] = Integer(discovered)
      /\ r.bounds["retained_after_bound"] = Integer(retained)
      /\ r.bounds["completed_mutants"] = Integer(n)
  BY <1>2 DEF Bounds
<1>4. exactBounds(r)
  BY <1>1, <1>3 DEF exactBounds, Bounds, Integer
<1>5. BoundsAgree(r)
  <2>1. /\ r.bounds["discovered_before_bound"].n = discovered
        /\ r.bounds["retained_after_bound"].n = retained
        /\ r.bounds["completed_mutants"].n = n
    BY <1>3 DEF Integer
  <2>2. r.complete => retained = n
    BY <1>2
  <2> QED  BY <1>1, <2>1, <2>2 DEF BoundsAgree
<1>6. ResultsValid(r)
  BY DEF ResultsValid, IsInjective
<1>7. SummaryAgrees(r)
  <2> DEFINE c == [v \in Verdicts |-> CountOf(res, v)]
  <2>1. /\ r.summary.generated = n
        /\ r.summary.counts = c
        /\ r.summary.score = ScoreOf(c)
    BY <1>2 DEF summarize
  <2>2. \A v \in Verdicts : c[v] = CountOf(res, v) /\ c[v] \in Nat
    BY Counted
  <2>3. c["KILLED"] \in Nat /\ c["SURVIVED"] \in Nat
        /\ c["KILLED"] = CountOf(res, "KILLED")
    BY <2>2 DEF Verdicts
  <2> HIDE DEF c
  <2> QED  BY <2>1, <2>2, <2>3 DEF SummaryAgrees, ScoreOf
<1> QED
  BY <1>2, <1>4, <1>5, <1>6, <1>7
  DEF DecodeReport, OneObject, ValidateSchemaVersion, validateStructure, ValidateReport

-----------------------------------------------------------------------------
(* The comparison.                                                         *)

(* The verdicts of an accepted document are verdicts (compare.go:206-213). *)
LEMMA VerdictsKnown ==
    ASSUME NEW doc, DecodeReport(doc)
    PROVE  \A id \in DOMAIN VerdictsOf(doc) : VerdictsOf(doc)[id] \in Verdicts
<1> SUFFICES ASSUME NEW id \in {doc.results[i].id : i \in DOMAIN doc.results}
             PROVE  VerdictsOf(doc)[id] \in Verdicts
  BY DEF VerdictsOf
<1> DEFINE Is(r) == r \in {doc.results[i] : i \in DOMAIN doc.results} /\ r.id = id
<1>1. \E r \in {doc.results[i] : i \in DOMAIN doc.results} : r.id = id
  OBVIOUS
<1>2. PICK r \in {doc.results[i] : i \in DOMAIN doc.results} :
         VerdictsOf(doc)[id] = r.verdict
  BY <1>1 DEF VerdictsOf
<1>3. \A i \in DOMAIN doc.results : doc.results[i].verdict \in Verdicts
  BY DEF DecodeReport, ValidateReport, ResultsValid
<1> QED  BY <1>2, <1>3

(* Whatever regressed is a new survivor (compare.go:185-203, 245-262).     *)
LEMMA RegressedIsNew ==
    ASSUME NEW a, NEW b, Compare(a, b).newSurvivors = {}
    PROVE  Regressed(a, b) = {}
<1> SUFFICES ASSUME NEW id \in Regressed(a, b)
             PROVE  Bucket(id, a, b) = "new"
  BY DEF Compare, Regressed
<1> QED
  BY DEF Regressed, Bucket, Actionable, Promoted, isConfirmedSurvivor

(* What did not regress in two steps did not regress (compare.go:245-262). *)
LEMMA NoRegressionIsTransitive ==
    ASSUME NEW a, NEW b, NEW c,
           \A id \in DOMAIN b : b[id] \in Verdicts,
           Regressed(a, b) = {}, Regressed(b, c) = {}
    PROVE  Regressed(a, c) = {}
<1> SUFFICES ASSUME NEW id \in Regressed(a, c)
             PROVE  FALSE
  OBVIOUS
<1>1. id \in DOMAIN c /\ id \notin Regressed(b, c) /\ id \notin Regressed(a, b)
  BY DEF Regressed
<1> QED
  BY <1>1 DEF Regressed, Verdicts

(* An identity of either side is in one bucket.                            *)
LEMMA BucketOfSix ==
    ASSUME NEW id, NEW a, NEW b
    PROVE  Bucket(id, a, b) \in
             {"new", "fixed", "open", "reclassified", "removed", "unchanged"}
BY DEF Bucket, Actionable

(* The members of five sets in a row.                                      *)
LEMMA UnionOfFive ==
    ASSUME NEW A, NEW B, NEW C, NEW D, NEW E
    PROVE  UNION ToSet(<<A, B, C, D, E>>) = A \cup B \cup C \cup D \cup E
<1> DEFINE s == <<A, B, C, D, E>>
<1>1. DOMAIN s = 1..5 /\ s[1] = A /\ s[2] = B /\ s[3] = C /\ s[4] = D /\ s[5] = E
  OBVIOUS
<1> HIDE DEF s
<1>2. DOMAIN s = {1, 2, 3, 4, 5}
  BY <1>1
<1>3. {s[i] : i \in DOMAIN s} = {A, B, C, D, E}
  BY <1>1, <1>2
<1>4. UNION {A, B, C, D, E} = A \cup B \cup C \cup D \cup E
  OBVIOUS
<1> QED  BY <1>3, <1>4 DEF ToSet, s

(* The buckets of two finite sides, which an undone change mirrors, and in *)
(* which a removed mutant has at most one new one to have become           *)
(* (compare.go:156-203, shift.go:50-82).                                   *)
LEMMA BucketsOfTwo ==
    ASSUME NEW a, NEW b, IsFiniteSet(DOMAIN a), IsFiniteSet(DOMAIN b)
    PROVE  Honest(a, b)
<1> DEFINE ids == DOMAIN a \cup DOMAIN b
           In(x) == {id \in ids : Bucket(id, a, b) = x}
           d == Compare(a, b)
           buckets == <<d.newSurvivors, d.fixedSurvivors, d.stillOpen,
                        d.reclassified, d.removed>>
<1>1. /\ d.newSurvivors = In("new") /\ d.fixedSurvivors = In("fixed")
      /\ d.stillOpen = In("open") /\ d.reclassified = In("reclassified")
      /\ d.removed = In("removed") /\ d.unchanged = Cardinality(In("unchanged"))
      /\ d.likelyShifted = findLikelyShifts(In("removed"), In("new") \ DOMAIN a)
  BY DEF Compare
<1>2. buckets = <<In("new"), In("fixed"), In("open"), In("reclassified"), In("removed")>>
  BY <1>1
<1>3. IsFiniteSet(ids)
  BY FS_Union
<1>4. \A i, j \in DOMAIN buckets : i # j => buckets[i] \cap buckets[j] = {}
  <2>1. DOMAIN buckets = 1..5
    OBVIOUS
  <2> QED  BY <1>2, <2>1
<1>5. Cardinality(UNION ToSet(buckets)) + d.unchanged = Cardinality(ids)
  <2> DEFINE five == UNION ToSet(buckets)
  <2>1. five = In("new") \cup In("fixed") \cup In("open") \cup In("reclassified")
               \cup In("removed")
    <3> HIDE DEF In, d
    <3> QED  BY <1>2, UnionOfFive
  <2>2. five \cup In("unchanged") = ids /\ five \cap In("unchanged") = {}
    BY <2>1, BucketOfSix
  <2>3. five \in SUBSET ids /\ In("unchanged") \in SUBSET ids
    BY <2>2
  <2> HIDE DEF five, ids, In, d
  <2>4. IsFiniteSet(five) /\ IsFiniteSet(In("unchanged"))
    BY <1>3, <2>3, FS_Subset
  <2>5. Cardinality(ids) = Cardinality(five) + Cardinality(In("unchanged"))
                            - Cardinality({})
    BY <2>2, <2>4, FS_Union
  <2> QED
    BY <1>1, <2>4, <2>5, FS_EmptySet, FS_CardinalityType DEF five, d
<1>6. ASSUME NEW id \in d.fixedSurvivors
      PROVE  b[id] = "KILLED" /\ id \in Compare(b, a).newSurvivors
  <2>1. id \in ids /\ Bucket(id, a, b) = "fixed"
    BY <1>1
  <2>2. id \in DOMAIN a /\ id \in DOMAIN b /\ Actionable(a[id]) /\ b[id] = "KILLED"
    BY <2>1 DEF Bucket, Fixed
  <2>3. Bucket(id, b, a) = "new"
    BY <2>2 DEF Bucket, Actionable
  <2> QED  BY <2>2, <2>3 DEF Compare
<1>7. ASSUME NEW p \in d.likelyShifted, NEW q \in d.likelyShifted
      PROVE  (p[1] = q[1]) <=> (p[2] = q[2])
  <2> DEFINE R == In("removed")
             N == In("new") \ DOMAIN a
             Same(s, id) == {x \in s : shiftFingerprint[x] = shiftFingerprint[id]}
  <2>1. \A o \in d.likelyShifted :
           /\ o[1] \in R /\ o[2] \in N
           /\ shiftFingerprint[o[1]] = shiftFingerprint[o[2]]
           /\ Cardinality(Same(R, o[1])) = 1 /\ Cardinality(Same(N, o[1])) = 1
           /\ o = <<o[1], o[2]>>
    BY <1>1 DEF findLikelyShifts, Unambiguous
  <2>2. R \in SUBSET ids /\ N \in SUBSET ids
    OBVIOUS
  <2> HIDE DEF R, N, d, ids
  <2>3. IsFiniteSet(Same(R, p[1])) /\ IsFiniteSet(Same(N, p[1]))
    <3>1. Same(R, p[1]) \in SUBSET ids /\ Same(N, p[1]) \in SUBSET ids
      BY <2>2
    <3> HIDE DEF Same
    <3> QED  BY <1>3, <3>1, FS_Subset
  <2>4. /\ \E x : Same(R, p[1]) = {x}
        /\ \E y : Same(N, p[1]) = {y}
    <3>1. Cardinality(Same(R, p[1])) = 1 /\ Cardinality(Same(N, p[1])) = 1
      BY <2>1
    <3> HIDE DEF Same
    <3> QED  BY <2>3, <3>1, FS_Singleton
  <2>5. \A z, w \in R : /\ shiftFingerprint[z] = shiftFingerprint[p[1]]
                       /\ shiftFingerprint[w] = shiftFingerprint[p[1]] => z = w
    BY <2>4
  <2>6. \A z, w \in N : /\ shiftFingerprint[z] = shiftFingerprint[p[1]]
                       /\ shiftFingerprint[w] = shiftFingerprint[p[1]] => z = w
    BY <2>4
  <2>7. /\ p[1] \in R /\ p[2] \in N /\ q[1] \in R /\ q[2] \in N
        /\ shiftFingerprint[p[1]] = shiftFingerprint[p[2]]
        /\ shiftFingerprint[q[1]] = shiftFingerprint[q[2]]
    BY <2>1
  <2> QED  BY <2>5, <2>6, <2>7
<1> QED  BY <1>4, <1>5, <1>6, <1>7 DEF Honest

-----------------------------------------------------------------------------
(* The gate.                                                               *)

(* A gate that was asked for passes, as a shell sees it, only two          *)
(* accepted, complete and unbounded documents between which nothing        *)
(* regressed (compare.go:35-101, config.go:545-550).                       *)
LEMMA PassedGate ==
    ASSUME NEW baseline, NEW current, NEW options \in Options, options.failOnNew,
           NEW exit \in {CompareExit(baseline, current, options), exitInternal},
           exit % 256 = 0
    PROVE  /\ DecodeReport(baseline) /\ DecodeReport(current)
           /\ InspectCompatibility(baseline, current)
           /\ Regressed(VerdictsOf(baseline), VerdictsOf(current)) = {}
<1>1. options.failExitCode \in Int
  BY CommandsAssumption
<1>2. exit # exitInternal /\ exit # exitInput
  BY DEF exitInternal, exitInput
<1>3. exit = CompareExit(baseline, current, options)
  BY <1>2
<1>4. /\ ValidExitCode(options.failExitCode)
      /\ DecodeReport(baseline) /\ DecodeReport(current)
      /\ ~GateRefused(InspectCompatibility(baseline, current), options)
  BY <1>2, <1>3 DEF CompareExit
<1>5. exit # options.failExitCode
  BY <1>1, <1>4 DEF ValidExitCode
<1>6. CompareReports(baseline, current).newSurvivors = {}
  BY <1>2, <1>3, <1>4, <1>5 DEF CompareExit
<1>7. InspectCompatibility(baseline, current)
  BY <1>4 DEF GateRefused
<1>8. Compare(VerdictsOf(baseline), VerdictsOf(current)).newSurvivors = {}
  BY <1>6, <1>7 DEF CompareReports
<1> QED  BY <1>4, <1>7, <1>8, RegressedIsNew

-----------------------------------------------------------------------------
(* What the log reads as.                                                  *)

(* The three pieces of a line (history.go:90-96).                          *)
LEMMA ThreePieces ==
    ASSUME NEW j
    PROVE  /\ Pieces(j)[1] = <<j, "head">>
           /\ Pieces(j)[2] = <<j, "tail">>
           /\ Pieces(j)[3] = <<j, "newline">>
           /\ Len(Pieces(j)) = 3
BY DEF Pieces

(* Where the log is indexed.                                               *)
LEMMA LogIndices ==
    ASSUME TypeOK
    PROVE  /\ log \in Seq(Jobs \X {"head", "tail", "newline"})
           /\ DOMAIN log = 1..Len(log) /\ Len(log) \in Nat
           /\ \A i \in DOMAIN log : /\ log[i][1] \in Jobs
                                   /\ log[i] = <<log[i][1], log[i][2]>>
                                   /\ log[i][2] \in {"head", "tail", "newline"}
           /\ \A e \in Ends(log) : e \in 1..Len(log) + 1
           /\ \A i \in DOMAIN log : i \in Ends(log) <=> log[i][2] = "newline"
<1>1. log \in Seq(Jobs \X {"head", "tail", "newline"})
  BY DEF TypeOK
<1>2. DOMAIN log = 1..Len(log) /\ Len(log) \in Nat
  BY <1>1
<1>3. \A i \in DOMAIN log : log[i] \in Jobs \X {"head", "tail", "newline"}
  BY <1>1, <1>2
<1> QED  BY <1>1, <1>2, <1>3 DEF Ends

(* Whoever has a piece in the log has sent something, and was accepted     *)
(* before that (record.go:20-43).                                          *)
LEMMA SenderAccepted ==
    ASSUME TypeOK, PiecesInv, ProgressInv, NEW i \in DOMAIN log
    PROVE  sent[log[i][1]] >= 1 /\ DecodeReport(report[log[i][1]])
<1> DEFINE j == log[i][1]
<1>1. j \in Jobs /\ log[i] = <<j, log[i][2]>> /\ log[i][2] \in {"head", "tail", "newline"}
  BY LogIndices
<1>2. \E n \in 1..3 : log[i] = Pieces(j)[n]
  BY <1>1, ThreePieces
<1>3. sent[j] \in 0..3 /\ \E n \in 1..3 : n <= sent[j]
  BY <1>1, <1>2 DEF PiecesInv, TypeOK
<1>4. sent[j] >= 1
  BY <1>3
<1> QED  BY <1>1, <1>4 DEF ProgressInv

(* A whole line is in the log in order (history.go:94).                    *)
LEMMA WholeLine ==
    ASSUME TypeOK, PiecesInv, NEW j \in Jobs, sent[j] = 3
    PROVE  \E h, t, n \in DOMAIN log :
              /\ log[h] = <<j, "head">> /\ log[t] = <<j, "tail">>
              /\ log[n] = <<j, "newline">> /\ h < t /\ t < n
<1>1. \A p \in 1..3 : \E i \in DOMAIN log : log[i] = Pieces(j)[p]
  BY DEF PiecesInv
<1>2. PICK h \in DOMAIN log : log[h] = <<j, "head">>
  BY <1>1, ThreePieces
<1>3. PICK t \in DOMAIN log : log[t] = <<j, "tail">>
  BY <1>1, ThreePieces
<1>4. PICK n \in DOMAIN log : log[n] = <<j, "newline">>
  BY <1>1, ThreePieces
<1>5. \A i, k \in DOMAIN log :
         /\ log[i] = Pieces(j)[1] /\ log[k] = Pieces(j)[1 + 1] => i < k
         /\ log[i] = Pieces(j)[2] /\ log[k] = Pieces(j)[2 + 1] => i < k
  BY DEF PiecesInv
<1>6. h < t /\ t < n
  BY <1>2, <1>3, <1>4, <1>5, ThreePieces
<1> QED  BY <1>2, <1>3, <1>4, <1>6

(* What a trend that succeeds shows: every line is where its end says, and *)
(* every job whose line is whole is shown (history.go:100-136).            *)
LEMMA ReadShowsAll ==
    ASSUME TypeOK, PiecesInv, Read(log).ok
    PROVE  /\ \A e \in DOMAIN Read(log).entries :
                 /\ e \in Nat /\ e - 2 \in DOMAIN log
                 /\ log[e - 2] = <<Read(log).entries[e], "head">>
           /\ \A j \in Jobs : sent[j] = 3 => j \in ToSet(Read(log).entries)
<1> DEFINE whole == {e \in Ends(log) : Decodes(Line(log, e))}
           entries == [e \in whole |-> Line(log, e)[1][1]]
<1>1. /\ \A e \in Ends(log) : ~LineFails(Line(log, e))
      /\ Read(log).entries = entries
  BY DEF Read
<1>2. ASSUME NEW e \in whole
      PROVE  /\ e \in Nat /\ e - 2 \in DOMAIN log
             /\ log[e - 2] = <<entries[e], "head">>
             /\ log[e - 1] = <<entries[e], "tail">>
  BY LogIndices, DecodedLine
<1>3. ASSUME NEW j \in Jobs, sent[j] = 3
      PROVE  \E e \in whole : entries[e] = j
  <2>1. PICK t, n \in DOMAIN log :
           log[t] = <<j, "tail">> /\ log[n] = <<j, "newline">> /\ t < n
    BY <1>3, WholeLine
  <2> DEFINE Later == {e \in Ends(log) : t < e}
  <2>2. n \in Later /\ Later \in SUBSET Nat
    BY <2>1, LogIndices
  <2>3. PICK e \in Later : \A x \in Later : e <= x
    <3> HIDE DEF Later
    <3> QED  BY <2>2, Least
  <2>4. PICK d \in {0} \cup Ends(log) :
           Adjacent(log, d, e) /\ Line(log, e) = SubSeq(log, d + 1, e - 1)
    BY LogIndices, LineStarts
  <2>5. t \in Nat /\ e \in Nat /\ d \in Nat /\ t < e /\ d < e
    BY <2>4, LogIndices DEF Adjacent
  <2>6. d < t
    <3>1. t \notin Ends(log) /\ t # 0
      BY <2>1, LogIndices
    <3>2. d \in Later \/ d <= t
      BY <2>5
    <3>3. d \notin Later
      BY <2>3, <2>5, LogIndices
    <3> QED  BY <2>4, <2>5, <3>1, <3>2, <3>3
  <2>7. Len(SubSeq(log, d + 1, e - 1)) = e - 1 - d
    BY <2>5, <2>6
  <2>8. Line(log, e) # <<>>
    <3>1. e - 1 - d # 0  BY <2>5, <2>6
    <3>2. Len(<<>>) = 0  OBVIOUS
    <3> QED  BY <2>4, <2>7, <3>1, <3>2
  <2>9. Decodes(Line(log, e)) /\ e \in whole
    BY <1>1, <2>8 DEF LineFails
  <2>10. PICK k \in Jobs : Line(log, e) = <<<<k, "head">>, <<k, "tail">>>>
    BY <2>9 DEF Decodes
  <2>11. e - 1 - d = 2
    <3>1. Len(<<<<k, "head">>, <<k, "tail">>>>) = 2  OBVIOUS
    <3> QED  BY <2>4, <2>7, <2>10, <3>1
  <2>12. t = e - 2 \/ t = e - 1
    BY <2>5, <2>6, <2>11
  <2>13. log[e - 2] = <<entries[e], "head">> /\ log[e - 1] = <<entries[e], "tail">>
    BY <1>2, <2>9
  <2> HIDE DEF entries
  <2>14. entries[e] = j
    BY <2>1, <2>12, <2>13
  <2> QED  BY <2>9, <2>14
<1> HIDE DEF entries
<1>4. DOMAIN entries = whole
  BY DEF entries
<1>5. \A j \in Jobs : sent[j] = 3 => j \in ToSet(entries)
  BY <1>3, <1>4 DEF ToSet
<1> HIDE DEF whole
<1> QED  BY <1>1, <1>2, <1>4, <1>5

(* Two pieces in a row.                                                    *)
LEMMA TwoPieces ==
    ASSUME NEW S, NEW s \in Seq(S), NEW i \in 1..Len(s), i + 1 \in 1..Len(s)
    PROVE  SubSeq(s, i, i + 1) = <<s[i], s[i + 1]>>
<1> DEFINE q == SubSeq(s, i, i + 1)
<1>1. q \in Seq(S) /\ Len(q) = 2 /\ q[1] = s[i] /\ q[2] = s[i + 1]
  OBVIOUS
<1> HIDE DEF q
<1>2. q = <<q[1], q[2]>>
  BY <1>1
<1> QED  BY <1>1, <1>2 DEF q

(* A log to which nobody writes, from which nothing was cut and in which   *)
(* no two lines are mixed reads: what is before the end of a line is a     *)
(* whole line, or nothing (history.go:79-98, 117-130).                     *)
LEMMA WholeLogReads ==
    ASSUME TypeOK, PiecesInv, ProgressInv
    PROVE  GoodLogReads
<1> SUFFICES ASSUME ~cut, ~Torn, \A j \in Jobs : pc[j] = "write" => sent[j] = 0,
                    NEW e \in Ends(log), LineFails(Line(log, e))
             PROVE  FALSE
  BY DEF GoodLogReads, Read
<1>1. \A i \in DOMAIN log : sent[log[i][1]] = 3
  <2> SUFFICES ASSUME NEW i \in DOMAIN log
               PROVE  sent[log[i][1]] = 3
    OBVIOUS
  <2> DEFINE j == log[i][1]
  <2>1. j \in Jobs /\ sent[j] >= 1 /\ sent[j] \in 0..3
    BY LogIndices, SenderAccepted DEF TypeOK
  <2>2. pc[j] \in {"load", "write", "written", "failed", "exitOK", "exitInput",
                  "exitInternal"}
    BY <2>1 DEF TypeOK
  <2> QED  BY <2>1, <2>2 DEF ProgressInv
<1>2. \A i, k \in DOMAIN log : log[i] = log[k] => i = k
  BY DEF PiecesInv, IsInjective
<1>3. \A i, k \in DOMAIN log : log[i][1] = log[k][1] =>
         \A m \in i..k : log[m][1] = log[i][1]
  BY DEF Torn
<1>4. PICK d \in {0} \cup Ends(log) :
         Adjacent(log, d, e) /\ Line(log, e) = SubSeq(log, d + 1, e - 1)
  BY LogIndices, LineStarts
<1>5. d \in Nat /\ e \in Nat /\ d < e /\ e <= Len(log) + 1 /\ Len(log) \in Nat
  BY <1>4, LogIndices DEF Adjacent
<1>6. d < e - 1
  <2>1. CASE d = e - 1
    <3>1. SubSeq(log, d + 1, e - 1) = <<>>
      BY <1>5, <2>1
    <3> QED  BY <1>4, <3>1 DEF LineFails
  <2> QED  BY <1>5, <2>1
<1>7. \A m \in d + 1..e - 1 : m \in DOMAIN log /\ log[m][2] \in {"head", "tail"}
  <2> SUFFICES ASSUME NEW m \in d + 1..e - 1
               PROVE  m \in DOMAIN log /\ log[m][2] \in {"head", "tail"}
    OBVIOUS
  <2>1. m \in DOMAIN log /\ d < m /\ m < e
    BY <1>5, LogIndices
  <2>2. m \notin Ends(log)
    BY <1>4, <2>1 DEF Adjacent
  <2> QED  BY <2>1, <2>2, LogIndices
<1> DEFINE i == e - 1
           j == log[i][1]
<1>8. i \in DOMAIN log /\ j \in Jobs /\ sent[j] = 3
      /\ (log[i] = <<j, "head">> \/ log[i] = <<j, "tail">>)
  <2>1. i \in d + 1..e - 1
    BY <1>5, <1>6
  <2> QED  BY <1>1, <1>7, <2>1, LogIndices
<1>9. PICK h, t, n \in DOMAIN log :
         /\ log[h] = <<j, "head">> /\ log[t] = <<j, "tail">>
         /\ log[n] = <<j, "newline">> /\ h < t /\ t < n
  BY <1>8, WholeLine
<1>10. h \in Nat /\ t \in Nat /\ n \in Nat /\ i \in Nat /\ (i = h \/ i = t)
  <2>1. i = h \/ i = t
    BY <1>2, <1>8, <1>9
  <2>2. h \in Nat /\ t \in Nat /\ n \in Nat
    BY LogIndices
  <2> QED  BY <2>1, <2>2
<1>11. \A m \in DOMAIN log : log[m][1] = j => m \in {h, t, n}
  BY <1>2, <1>9, LogIndices
<1>12. \A m \in h..n : m \in {h, t, n}
  <2> SUFFICES ASSUME NEW m \in h..n
               PROVE  m \in {h, t, n}
    OBVIOUS
  <2>1. m \in DOMAIN log
    BY <1>9, <1>10, LogIndices
  <2>2. log[m][1] = j
    BY <1>3, <1>9
  <2> QED  BY <1>11, <2>1, <2>2
<1>13. t = h + 1 /\ n = t + 1
  <2>1. h + 1 \in {h, t, n} /\ t + 1 \in {h, t, n}
    BY <1>9, <1>10, <1>12
  <2> QED  BY <1>9, <1>10, <2>1
<1>14. n = e
  <2>1. e <= n /\ e \in h..n
    <3>1. e - 1 = h \/ e - 1 = t
      BY <1>10
    <3>2. h \in Nat /\ t \in Nat /\ n \in Nat /\ e \in Nat /\ h < t /\ t < n
      BY <1>5, <1>9, <1>10
    <3> HIDE DEF i, j
    <3>3. h <= e /\ e <= n
      BY <3>1, <3>2
    <3> QED  BY <3>2, <3>3
  <2>2. e \in DOMAIN log /\ log[e][2] = "newline"
    <3>1. n <= Len(log) /\ e \in 1..Len(log)
      BY <1>5, <1>9, <2>1, LogIndices
    <3> QED  BY <3>1, LogIndices
  <2>3. e \in {h, t, n}
    BY <1>12, <2>1
  <2> QED  BY <1>9, <2>2, <2>3
<1>15. h = e - 2 /\ t = e - 1
  BY <1>10, <1>13, <1>14
<1>16. d < h
  <2>1. d < e - 1 /\ h = e - 2 /\ d \in Nat /\ e \in Nat
    BY <1>5, <1>6, <1>15
  <2>2. d # h
    <3>1. CASE d = 0
      BY <1>9, <3>1, LogIndices
    <3>2. CASE d \in Ends(log)
      <4>1. d \in DOMAIN log
        BY <1>5, <3>2, LogIndices
      <4>2. log[d][2] = "newline"
        BY <3>2, <4>1, LogIndices
      <4>3. log[h][2] = "head"
        BY <1>9
      <4> QED  BY <4>2, <4>3
    <3> QED  BY <1>4, <3>1, <3>2
  <2> QED  BY <2>1, <2>2
<1>17. d = h - 1
  <2> SUFFICES ASSUME d < h - 1
               PROVE  FALSE
    BY <1>5, <1>10, <1>16
  <2> DEFINE b == h - 1
             k == log[b][1]
  <2>1. b \in d + 1..e - 1 /\ b \in Nat
    BY <1>5, <1>10, <1>15
  <2>2. b \in DOMAIN log /\ log[b][2] \in {"head", "tail"} /\ k \in Jobs /\ sent[k] = 3
    BY <1>1, <1>7, <2>1, LogIndices
  <2>3. PICK hh, tt, nn \in DOMAIN log :
           /\ log[hh] = <<k, "head">> /\ log[tt] = <<k, "tail">>
           /\ log[nn] = <<k, "newline">> /\ hh < tt /\ tt < nn
    BY <2>2, WholeLine
  <2>4. hh \in Nat /\ tt \in Nat /\ nn \in Nat /\ (b = hh \/ b = tt)
    <3>1. log[b] = <<k, "head">> \/ log[b] = <<k, "tail">>
      BY <2>2, LogIndices
    <3>2. b = hh \/ b = tt
      BY <1>2, <2>2, <2>3, <3>1
    <3>3. hh \in Nat /\ tt \in Nat /\ nn \in Nat
      BY LogIndices
    <3> QED  BY <3>2, <3>3
  <2>5. h \in b..nn
    BY <1>10, <2>1, <2>3, <2>4
  <2>6. log[h][1] = k /\ k = j
    BY <1>3, <1>9, <2>2, <2>3, <2>5
  <2>7. b \in {h, t, n}
    BY <1>11, <2>2, <2>6
  <2>8. b # h /\ b # h + 1 /\ b # h + 2
    <3>1. \A x \in Nat : x - 1 # x /\ x - 1 # x + 1 /\ x - 1 # x + 2
      OBVIOUS
    <3> QED  BY <1>10, <3>1
  <2>9. t = h + 1 /\ n = h + 2
    BY <1>10, <1>13
  <2> QED  BY <2>7, <2>8, <2>9
<1>18. Line(log, e) = <<<<j, "head">>, <<j, "tail">>>>
  <2>1. d + 1 = h /\ e - 1 = h + 1
    BY <1>5, <1>10, <1>13, <1>14, <1>17
  <2>2. Line(log, e) = SubSeq(log, h, h + 1)
    BY <1>4, <2>1
  <2>3. h \in 1..Len(log) /\ h + 1 \in 1..Len(log)
    BY <1>9, <1>13, LogIndices
  <2>4. SubSeq(log, h, h + 1) = <<log[h], log[h + 1]>>
    BY <2>3, LogIndices, TwoPieces
  <2> QED  BY <1>9, <1>13, <2>2, <2>4
<1> QED  BY <1>8, <1>18 DEF LineFails, Decodes

(* Every entry in the log came from evidence (validate.go:210-259).        *)
LEMMA OnlyAcceptedIsLogged ==
    ASSUME TypeOK, PiecesInv, ProgressInv
    PROVE  OnlyEvidence
<1> SUFFICES ASSUME NEW i \in DOMAIN log
             PROVE  LET doc == report[log[i][1]]
                        ids == {doc.results[r].id : r \in DOMAIN doc.results}
                        e == EntryFromReport(log[i][1])
                    IN  /\ doc.syntax = "object"
                        /\ Cardinality(ids) = e.summary.generated
                        /\ \A v \in Verdicts : e.summary.counts[v] =
                              Cardinality({id \in ids : \E r \in DOMAIN doc.results :
                                 doc.results[r].id = id /\ doc.results[r].verdict = v})
                        /\ e.summary.score.killed <= e.summary.score.of
                        /\ e.complete =>
                              e.bounds["retained_after_bound"].n = Cardinality(ids)
  BY DEF OnlyEvidence
<1> DEFINE j == log[i][1]
<1>1. j \in Jobs /\ sent[j] >= 1 /\ DecodeReport(report[j])
  BY LogIndices, SenderAccepted
<1>2. Recording
  <2>1. ~Recording => sent[j] = 0
    BY <1>1 DEF ProgressInv
  <2> QED  BY <1>1, <2>1
<1>3. IsDocument(report[j])
  BY <1>1, <1>2, CommandsAssumption DEF TypeOK
<1>4. LET e == EntryFromReport(j) IN
      /\ e.summary = report[j].summary /\ e.complete = report[j].complete
      /\ e.bounds = report[j].bounds
  BY DEF EntryFromReport
<1> DEFINE doc == report[j]
<1>5. LET ids == {doc.results[r].id : r \in DOMAIN doc.results} IN
      /\ doc.syntax = "object"
      /\ Cardinality(ids) = doc.summary.generated
      /\ \A v \in Verdicts : doc.summary.counts[v] =
            Cardinality({id \in ids : \E r \in DOMAIN doc.results :
                            doc.results[r].id = id /\ doc.results[r].verdict = v})
      /\ doc.summary.score.killed <= doc.summary.score.of
      /\ doc.complete => doc.bounds["retained_after_bound"].n = Cardinality(ids)
  <2> HIDE DEF j
  <2> QED  BY <1>1, <1>3, AcceptedIsEvidence
<1> QED  BY <1>4, <1>5

-----------------------------------------------------------------------------
(* The log, step by step.                                                  *)

(* The inductive part of LogInv: the rest of it holds in every state of    *)
(* this kind.                                                              *)
RecordInv == TypeOK /\ PiecesInv /\ ProgressInv /\ EntriesInv

(* No two pieces are the same, of one line or of two (history.go:90-96).   *)
LEMMA PiecesDiffer ==
    ASSUME NEW j, NEW k, NEW m \in 1..3, NEW n \in 1..3, Pieces(j)[m] = Pieces(k)[n]
    PROVE  j = k /\ m = n
<1>1. m \in {1, 2, 3} /\ n \in {1, 2, 3}
  OBVIOUS
<1> QED  BY <1>1, ThreePieces

(* A set of three.                                                         *)
LEMMA ThreeMembers ==
    ASSUME NEW x, NEW y, NEW z, x # y, x # z, y # z
    PROVE  Cardinality({x, y, z}) = 3 /\ IsFiniteSet({x, y, z})
<1>1. Cardinality({x}) = 1 /\ IsFiniteSet({x})
  BY FS_Singleton
<1> DEFINE A == {x}
           B == {x} \cup {y}
<1>2. Cardinality(B) = 2 /\ IsFiniteSet(B)
  <2>1. y \notin A /\ IsFiniteSet(A) /\ Cardinality(A) = 1 /\ B = A \cup {y}
    BY <1>1
  <2> HIDE DEF A, B
  <2>2. IsFiniteSet(A \cup {y}) /\ Cardinality(A \cup {y}) = Cardinality(A) + 1
    BY <2>1, FS_AddElement
  <2> QED  BY <2>1, <2>2
<1>3. z \notin B /\ {x, y, z} = B \cup {z}
  OBVIOUS
<1> HIDE DEF B
<1>4. IsFiniteSet(B \cup {z}) /\ Cardinality(B \cup {z}) = Cardinality(B) + 1
  BY <1>2, <1>3, FS_AddElement
<1> QED  BY <1>2, <1>3, <1>4

(* Two sequences one after the other.                                      *)
LEMMA Joined ==
    ASSUME NEW S, NEW a \in Seq(S), NEW b \in Seq(S)
    PROVE  /\ a \o b \in Seq(S) /\ Len(a \o b) = Len(a) + Len(b)
           /\ \A i \in 1..Len(a) : (a \o b)[i] = a[i]
           /\ \A i \in Len(a) + 1..Len(a) + Len(b) : (a \o b)[i] = b[i - Len(a)]
OBVIOUS

(* The next pieces of a line.                                              *)
LEMMA NextPieces ==
    ASSUME NEW j, NEW S, Pieces(j) \in Seq(S), NEW s \in Nat, NEW n \in s + 1..3
    PROVE  LET new == SubSeq(Pieces(j), s + 1, n) IN
           /\ new \in Seq(S) /\ Len(new) = n - s
           /\ \A i \in 1..n - s : new[i] = Pieces(j)[s + i]
<1> DEFINE p == Pieces(j)
<1>1. Len(p) = 3 /\ p \in Seq(S)
  BY ThreePieces
<1> HIDE DEF p
<1>2. SubSeq(p, s + 1, n) \in Seq(S)
  BY <1>1
<1>3. Len(SubSeq(p, s + 1, n)) = n - s
  BY <1>1
<1>4. \A i \in 1..n - s : SubSeq(p, s + 1, n)[i] = p[s + i]
  BY <1>1
<1> QED  BY <1>2, <1>3, <1>4 DEF p

(* A log of distinct pieces has at most three for each job.                *)
LEMMA LogBounded ==
    ASSUME NEW s \in Seq(Jobs \X {"head", "tail", "newline"}), IsInjective(s)
    PROVE  Len(s) <= 3 * Cardinality(Jobs)
<1> DEFINE Parts == {"head", "tail", "newline"}
           All == Jobs \X Parts
<1>1. Cardinality(Parts) = 3 /\ IsFiniteSet(Parts)
  <2>1. "head" # "tail" /\ "head" # "newline" /\ "tail" # "newline"
    OBVIOUS
  <2> QED  BY <2>1, ThreeMembers
<1> HIDE DEF Parts
<1>2. IsFiniteSet(All) /\ Cardinality(All) = Cardinality(Jobs) * 3
  BY <1>1, CommandsAssumption, FS_Product
<1>3. s \in [1..Len(s) -> All] /\ Len(s) \in Nat
  BY DEF Parts
<1>4. s \in Injection(1..Len(s), All)
  BY <1>3 DEF Injection, IsInjective
<1>5. Cardinality(1..Len(s)) <= Cardinality(All)
  <2> HIDE DEF All
  <2> QED  BY <1>2, <1>4, FS_Injection
<1>6. Cardinality(1..Len(s)) = Len(s)
  <2>1. 1 \in Int /\ Len(s) \in Int /\ Len(s) >= 0  BY <1>3
  <2> HIDE DEF All
  <2>2. Cardinality(1..Len(s)) = IF 1 > Len(s) THEN 0 ELSE Len(s) - 1 + 1
    BY <2>1, FS_Interval
  <2> QED  BY <2>1, <2>2
<1>7. Cardinality(Jobs) \in Nat
  BY CommandsAssumption, FS_CardinalityType
<1> QED  BY <1>2, <1>5, <1>6, <1>7

(* At the start nothing is recorded and nothing shown.                     *)
LEMMA RecordInvInit == Init => RecordInv
<1> SUFFICES ASSUME Init
             PROVE  RecordInv
  OBVIOUS
<1>1. Cardinality(Jobs) \in Nat
  BY CommandsAssumption, FS_CardinalityType
<1>2. log = <<>> /\ acked = <<>> /\ Len(log) = 0 /\ DOMAIN log = {}
  BY DEF Init
<1>3. branch \in Seq(GateInputs) /\ Len(branch) <= 3
  <2>1. CASE branch = <<>>
    BY <2>1
  <2>2. ASSUME NEW first \in GateInputs, branch = <<first>>
        PROVE  branch \in Seq(GateInputs) /\ Len(branch) <= 3
    BY <2>2
  <2> QED  BY <2>1, <2>2 DEF Init
<1>4. IF Recording THEN report \in LogInputs
      ELSE \A j \in Jobs : report[j].syntax = "absent"
  BY DEF Init, Recording
<1>5. /\ pc = [j \in Jobs |-> "load"] /\ sent = [j \in Jobs |-> 0]
      /\ cut = FALSE /\ shown = NoTrend
  BY DEF Init
<1>6. cut \in BOOLEAN
  BY <1>5, Zenon
<1>7. shown.exit = exitOK /\ shown.entries = <<>> /\ shown.due = <<>>
  BY <1>5 DEF NoTrend
<1>8. TypeOK
  BY <1>1, <1>2, <1>3, <1>4, <1>5, <1>6, <1>7 DEF TypeOK
<1>9. PiecesInv
  BY <1>2, <1>5 DEF PiecesInv, IsInjective
<1>10. ProgressInv
  BY <1>2, <1>5 DEF ProgressInv, ToSet
<1>11. EntriesInv
  BY <1>7 DEF EntriesInv, ToSet
<1> QED  BY <1>8, <1>9, <1>10, <1>11 DEF RecordInv

(* What stands at an index of a sequence, one of a log's pieces for        *)
(* instance (history.go:79-98).                                            *)
LEMMA AnElement == \A S : \A q \in Seq(S) : \A i \in DOMAIN q : q[i] \in S
OBVIOUS

(* What a write adds to the log is the next pieces of its line             *)
(* (history.go:94).                                                        *)
LEMMA WriteKeepsPieces ==
    ASSUME RecordInv, NEW j \in Jobs, NEW n \in sent[j] + 1..3,
           log' = log \o SubSeq(Pieces(j), Unsent(j), n),
           sent' = [sent EXCEPT ![j] = n]
    PROVE  /\ log' \in Seq(Jobs \X {"head", "tail", "newline"})
           /\ Len(log) <= Len(log') /\ \A i \in DOMAIN log : log'[i] = log[i]
           /\ PiecesInv'
<1> DEFINE L == Len(log)
           s == sent[j]
           T == Jobs \X {"head", "tail", "newline"}
           new == SubSeq(Pieces(j), s + 1, n)
<1>1. log \in Seq(T) /\ L \in Nat /\ DOMAIN log = 1..L
  BY LogIndices DEF RecordInv
<1>2. s \in Nat /\ n \in Nat /\ s < n /\ n <= 3 /\ n \in s + 1..3
  <2>1. sent[j] \in 0..3
    BY DEF RecordInv, TypeOK
  <2> QED  BY <2>1
<1>3. Pieces(j) \in Seq(T)
  BY DEF Pieces
<1>4. s = sent[j] /\ L = Len(log)
  OBVIOUS
<1>5. /\ log' = log \o new
      /\ new \in Seq(T) /\ Len(new) = n - s
      /\ \A i \in 1..n - s : new[i] = Pieces(j)[s + i]
  <2>1. log' = log \o new
    BY DEF Unsent
  <2> HIDE DEF s, T
  <2> QED  BY <1>2, <1>3, <2>1, NextPieces
<1> HIDE DEF new, s, L, T
<1>6. /\ log' \in Seq(T) /\ Len(log') = L + (n - s)
      /\ DOMAIN log' = 1..L + (n - s)
      /\ \A i \in 1..L : log'[i] = log[i]
      /\ \A i \in L + 1..L + (n - s) : log'[i] = Pieces(j)[s + (i - L)]
  <2>1. /\ log' \in Seq(T) /\ Len(log') = L + (n - s)
        /\ \A i \in 1..L : log'[i] = log[i]
        /\ \A i \in L + 1..L + (n - s) : log'[i] = new[i - L]
    <3> DEFINE both == log \o new
    <3>1. /\ both \in Seq(T) /\ Len(both) = Len(log) + Len(new)
          /\ \A i \in 1..Len(log) : both[i] = log[i]
          /\ \A i \in Len(log) + 1..Len(log) + Len(new) : both[i] = new[i - Len(log)]
      BY <1>1, <1>5, Joined
    <3>2. Len(log) = L /\ Len(new) = n - s /\ log' = both
      BY <1>4, <1>5
    <3> HIDE DEF both
    <3> QED  BY <3>1, <3>2
  <2>2. \A i \in L + 1..L + (n - s) : i - L \in 1..n - s
    BY <1>1, <1>2
  <2>3. \A i \in L + 1..L + (n - s) : log'[i] = Pieces(j)[s + (i - L)]
    BY <1>5, <2>1, <2>2
  <2>4. Len(log') \in Nat /\ DOMAIN log' = 1..Len(log')
    BY <2>1
  <2> QED  BY <2>1, <2>3, <2>4
<1>7. /\ sent'[j] = n /\ \A k \in Jobs : k # j => sent'[k] = sent[k]
  BY DEF RecordInv, TypeOK
<1>8. ASSUME NEW i \in DOMAIN log'
      PROVE  \/ i \in DOMAIN log /\ log'[i] = log[i]
             \/ /\ i \in L + 1..L + (n - s) /\ log'[i] = Pieces(j)[s + (i - L)]
                /\ s + (i - L) \in s + 1..n /\ s + (i - L) \in 1..3
  <2>1. i \in 1..L \/ i \in L + 1..L + (n - s)
    BY <1>1, <1>2, <1>6
  <2>2. CASE i \in 1..L
    BY <1>1, <1>6, <2>2
  <2>3. CASE i \in L + 1..L + (n - s)
    <3>1. i \in Int /\ L + 1 <= i /\ i <= L + (n - s)
      BY <1>1, <1>2, <2>3
    <3>2. s + (i - L) \in s + 1..n /\ s + (i - L) \in 1..3
      <4>1. s \in Nat /\ n \in Nat /\ L \in Nat /\ i \in Int /\ n <= 3
        BY <1>1, <1>2, <3>1
      <4>2. s + (i - L) \in Int /\ s + 1 <= s + (i - L) /\ s + (i - L) <= n
        BY <3>1, <4>1
      <4> DEFINE x == s + (i - L)
      <4> HIDE DEF x
      <4>3. x \in Int /\ s + 1 <= x /\ x <= n
        BY <4>2 DEF x
      <4>4. x \in s + 1..n
        BY <4>1, <4>3
      <4>5. 1 <= x /\ x <= 3
        BY <4>1, <4>3
      <4>6. x \in 1..3
        BY <4>3, <4>5
      <4> QED  BY <4>4, <4>6 DEF x
    <3> QED  BY <1>6, <2>3, <3>2
  <2> QED  BY <2>1, <2>2, <2>3
<1>9. \A k \in Jobs, p \in 1..3 :
         (\E i \in DOMAIN log : log[i] = Pieces(k)[p]) <=> p <= sent[k]
  BY DEF RecordInv, PiecesInv
<1>10. \A k \in Jobs, p \in 1..3, i \in DOMAIN log' :
          log'[i] = Pieces(k)[p] =>
             \/ i \in DOMAIN log /\ log[i] = Pieces(k)[p] /\ p <= sent[k]
             \/ k = j /\ p \in s + 1..n /\ i = L + (p - s)
  <2> SUFFICES ASSUME NEW k \in Jobs, NEW p \in 1..3, NEW i \in DOMAIN log',
                      log'[i] = Pieces(k)[p]
               PROVE  \/ i \in DOMAIN log /\ log[i] = Pieces(k)[p] /\ p <= sent[k]
                      \/ k = j /\ p \in s + 1..n /\ i = L + (p - s)
    OBVIOUS
  <2>0. CASE i \in DOMAIN log /\ log'[i] = log[i]
    BY <1>9, <2>0
  <2> SUFFICES ASSUME ~(i \in DOMAIN log /\ log'[i] = log[i])
               PROVE  k = j /\ p \in s + 1..n /\ i = L + (p - s)
    BY <2>0
  <2>1. /\ i \in L + 1..L + (n - s) /\ log'[i] = Pieces(j)[s + (i - L)]
        /\ s + (i - L) \in s + 1..n /\ s + (i - L) \in 1..3
    BY <1>8
  <2>2. k = j /\ p = s + (i - L)
    <3> DEFINE x == s + (i - L)
    <3>1. Pieces(k)[p] = Pieces(j)[x] /\ x \in 1..3
      BY <2>1
    <3> HIDE DEF x
    <3>2. k = j /\ p = x
      BY <3>1, PiecesDiffer
    <3> QED  BY <3>2 DEF x
  <2> QED  BY <1>1, <1>2, <2>1, <2>2
<1>11. \A i \in DOMAIN log' : \E k \in Jobs, p \in 1..3 : log'[i] = Pieces(k)[p]
  <2> SUFFICES ASSUME NEW i \in DOMAIN log'
               PROVE  \E k \in Jobs, p \in 1..3 : log'[i] = Pieces(k)[p]
    OBVIOUS
  <2>1. log'[i] \in T
    BY <1>6, AnElement
  <2>2. \E k \in Jobs, x \in {"head", "tail", "newline"} : log'[i] = <<k, x>>
    <3>1. \A y \in T : \E k \in Jobs, x \in {"head", "tail", "newline"} : y = <<k, x>>
      BY DEF T
    <3> QED  BY <2>1, <3>1
  <2>3. 1 \in 1..3 /\ 2 \in 1..3 /\ 3 \in 1..3
    OBVIOUS
  <2>4. PICK k \in Jobs, x \in {"head", "tail", "newline"} : log'[i] = <<k, x>>
    BY <2>2
  <2> QED  BY <2>3, <2>4, ThreePieces
<1>12. IsInjective(log')
  <2> SUFFICES ASSUME NEW i \in DOMAIN log', NEW m \in DOMAIN log', log'[i] = log'[m]
               PROVE  i = m
    BY DEF IsInjective
  <2>1. PICK k \in Jobs, p \in 1..3 : log'[i] = Pieces(k)[p] /\ log'[m] = Pieces(k)[p]
    BY <1>11
  <2>2. p <= sent[k] => ~(k = j /\ p \in s + 1..n)
    BY <1>2, <1>4
  <2>3. \A x, y \in DOMAIN log : log[x] = log[y] => x = y
    BY DEF RecordInv, PiecesInv, IsInjective
  <2>4. \/ i \in DOMAIN log /\ log[i] = Pieces(k)[p] /\ p <= sent[k]
        \/ k = j /\ p \in s + 1..n /\ i = L + (p - s)
    BY <1>10, <2>1
  <2>5. \/ m \in DOMAIN log /\ log[m] = Pieces(k)[p] /\ p <= sent[k]
        \/ k = j /\ p \in s + 1..n /\ m = L + (p - s)
    BY <1>10, <2>1
  <2> QED  BY <2>2, <2>3, <2>4, <2>5
<1>13. ASSUME NEW k \in Jobs, NEW p \in 1..3
       PROVE  (\E i \in DOMAIN log' : log'[i] = Pieces(k)[p]) <=> p <= sent'[k]
  <2>1. ASSUME NEW i \in DOMAIN log', log'[i] = Pieces(k)[p]
        PROVE  p <= sent'[k]
    <3>1. \/ p <= sent[k]
          \/ k = j /\ p \in s + 1..n
      BY <1>10, <2>1
    <3> QED  BY <1>2, <1>4, <1>7, <3>1
  <2>2. ASSUME p <= sent[k]
        PROVE  \E i \in DOMAIN log' : log'[i] = Pieces(k)[p]
    <3>1. PICK i \in DOMAIN log : log[i] = Pieces(k)[p]
      BY <1>9, <2>2
    <3>2. i \in DOMAIN log' /\ log'[i] = log[i]
      BY <1>1, <1>2, <1>6
    <3> QED  BY <3>1, <3>2
  <2>3. ASSUME k = j, p \in s + 1..n
        PROVE  \E i \in DOMAIN log' : log'[i] = Pieces(k)[p]
    <3>1. L + (p - s) \in L + 1..L + (n - s) /\ s + ((L + (p - s)) - L) = p
      BY <1>1, <1>2, <2>3
    <3>2. log'[L + (p - s)] = Pieces(j)[p]
      BY <1>6, <3>1
    <3>3. L + (p - s) \in DOMAIN log'
      BY <1>1, <1>2, <1>6, <2>3
    <3> QED  BY <2>3, <3>2, <3>3
  <2>4. p <= sent'[k] => p <= sent[k] \/ (k = j /\ p \in s + 1..n)
    BY <1>2, <1>4, <1>7
  <2> QED  BY <2>1, <2>2, <2>3, <2>4
<1>14. ASSUME NEW k \in Jobs, NEW p \in 1..2, NEW i \in DOMAIN log',
              NEW m \in DOMAIN log', log'[i] = Pieces(k)[p], log'[m] = Pieces(k)[p + 1]
       PROVE  i < m
  <2>1. p \in 1..3 /\ p + 1 \in 1..3
    OBVIOUS
  <2>2. \/ i \in DOMAIN log /\ log[i] = Pieces(k)[p] /\ p <= sent[k]
        \/ k = j /\ p \in s + 1..n /\ i = L + (p - s)
    BY <1>10, <1>14, <2>1
  <2>3. \/ m \in DOMAIN log /\ log[m] = Pieces(k)[p + 1] /\ p + 1 <= sent[k]
        \/ k = j /\ p + 1 \in s + 1..n /\ m = L + ((p + 1) - s)
    BY <1>10, <1>14, <2>1
  <2>4. i \in DOMAIN log /\ m \in DOMAIN log
        /\ log[i] = Pieces(k)[p] /\ log[m] = Pieces(k)[p + 1] => i < m
    BY DEF RecordInv, PiecesInv
  <2>5. CASE i \in DOMAIN log /\ log[i] = Pieces(k)[p] /\ p <= sent[k]
    <3>1. CASE m \in DOMAIN log /\ log[m] = Pieces(k)[p + 1] /\ p + 1 <= sent[k]
      BY <2>4, <2>5, <3>1
    <3>2. CASE p + 1 \in s + 1..n /\ m = L + ((p + 1) - s)
      <4>1. i \in Nat /\ i <= L
        BY <1>1, <2>5
      <4>2. s < p + 1 /\ L \in Nat /\ s \in Nat /\ p \in Nat
        BY <1>1, <1>2, <3>2
      <4> QED  BY <3>2, <4>1, <4>2
    <3> QED  BY <2>3, <3>1, <3>2
  <2>6. CASE k = j /\ p \in s + 1..n /\ i = L + (p - s)
    <3>1. L \in Nat /\ s \in Nat /\ p \in Nat /\ s < p
      BY <1>1, <1>2, <2>6
    <3>2. m = L + ((p + 1) - s)
      <4>1. ~(p + 1 <= s)
        BY <3>1
      <4>2. s = sent[k]
        BY <1>4, <2>6
      <4> QED  BY <2>3, <4>1, <4>2
    <3> QED  BY <2>6, <3>1, <3>2
  <2> QED  BY <2>2, <2>5, <2>6
<1>15. PiecesInv'
  <2>1. \A k \in Jobs, p \in 1..3 :
           (\E i \in DOMAIN log' : log'[i] = Pieces(k)[p]) <=> p <= sent'[k]
    BY <1>13
  <2>2. \A k \in Jobs, p \in 1..2 : \A i, m \in DOMAIN log' :
           log'[i] = Pieces(k)[p] /\ log'[m] = Pieces(k)[p + 1] => i < m
    BY <1>14
  <2> QED  BY <1>12, <2>1, <2>2 DEF PiecesInv
<1> QED  BY <1>1, <1>2, <1>4, <1>6, <1>15 DEF T

(* Every step keeps the log what the jobs have sent, and what has been     *)
(* shown of it what it holds (record.go:13-49, history.go:79-136).         *)
LEMMA RecordInvNext == RecordInv /\ [Next]_vars => RecordInv'
<1> SUFFICES ASSUME RecordInv, [Next]_vars
             PROVE  RecordInv'
  OBVIOUS
<1> USE DEF RecordInv
<1>1. ASSUME NEW j \in Jobs, LoadReport(j)
      PROVE  RecordInv'
  <2>1. TypeOK'
    BY <1>1 DEF TypeOK, LoadReport, GoTo, gateVars, Recording
  <2>2. PiecesInv' /\ EntriesInv'
    BY <1>1 DEF PiecesInv, EntriesInv, LoadReport
  <2>3. ProgressInv'
    BY <1>1 DEF TypeOK, ProgressInv, LoadReport, GoTo, gateVars, Recording, ToSet
  <2> QED  BY <2>1, <2>2, <2>3
<1>2. ASSUME NEW j \in Jobs, WritePieces(j)
      PROVE  RecordInv'
  <2>1. PICK n \in sent[j] + 1..3 :
           /\ log' = log \o SubSeq(Pieces(j), Unsent(j), n)
           /\ sent' = [sent EXCEPT ![j] = n]
           /\ GoTo(j, IF n = 3 THEN "written" ELSE "write")
    BY <1>2 DEF WritePieces
  <2>2. /\ log' \in Seq(Jobs \X {"head", "tail", "newline"})
        /\ Len(log) <= Len(log') /\ \A i \in DOMAIN log : log'[i] = log[i]
        /\ PiecesInv'
    BY <2>1, WriteKeepsPieces
  <2>3. Len(log') <= 3 * Cardinality(Jobs)
    <3>1. IsInjective(log')
      BY <2>2 DEF PiecesInv
    <3> QED  BY <2>2, <3>1, LogBounded
  <2>4. n \in 0..3 /\ n # 0
    <3>1. sent[j] \in 0..3
      BY DEF TypeOK
    <3> QED  BY <3>1
  <2>5. TypeOK'
    BY <1>2, <2>1, <2>2, <2>3, <2>4 DEF TypeOK, WritePieces, GoTo, gateVars, Recording
  <2>6. EntriesInv'
    <3>1. DOMAIN log \subseteq DOMAIN log'
      BY <2>2, LogIndices
    <3> QED  BY <1>2, <2>2, <3>1 DEF EntriesInv, WritePieces
  <2>7. ProgressInv'
    <3>1. pc[j] = "write" /\ Recording /\ UNCHANGED <<report, acked, cut, branch>>
      BY <1>2 DEF WritePieces, gateVars
    <3>2. pc' = [pc EXCEPT ![j] = IF n = 3 THEN "written" ELSE "write"]
      BY <2>1 DEF GoTo
    <3>3. n < 3 \/ n = 3
      BY <2>4
    <3> QED
      BY <2>1, <3>1, <3>2, <3>3 DEF TypeOK, ProgressInv, Recording, ToSet
  <2> QED  BY <2>2, <2>5, <2>6, <2>7
<1>3. ASSUME NEW j \in Jobs, CutShort(j)
      PROVE  RecordInv'
  <2>1. cut' \in BOOLEAN
    BY <1>3, Zenon DEF CutShort
  <2>2. TypeOK'
    BY <1>3, <2>1 DEF TypeOK, CutShort, GoTo, gateVars, Recording
  <2>3. PiecesInv' /\ EntriesInv'
    BY <1>3 DEF PiecesInv, EntriesInv, CutShort
  <2>4. ProgressInv'
    <3>1. (cut => cut') /\ (cut' \/ ~(sent[j] > 0))
      BY <1>3 DEF CutShort
    <3>2. sent[j] = 0 \/ sent[j] > 0
      BY DEF TypeOK
    <3> QED
      BY <1>3, <3>1, <3>2 DEF TypeOK, ProgressInv, CutShort, GoTo, gateVars, Recording, ToSet
  <2> QED  BY <2>2, <2>3, <2>4
<1>4. ASSUME NEW j \in Jobs, Exit(j)
      PROVE  RecordInv'
  <2>1. PiecesInv' /\ EntriesInv'
    BY <1>4 DEF PiecesInv, EntriesInv, Exit
  <2>2. CASE AckFrom(pc[j])
    <3>1. /\ acked' = Append(acked, j) /\ pc' = [pc EXCEPT ![j] = "exitOK"]
          /\ pc[j] = "written" /\ UNCHANGED <<report, sent, log, cut, shown, branch>>
          /\ Recording
      BY <1>4, <2>2 DEF Exit, GoTo, AckFrom, gateVars
    <3>2. TypeOK'
      BY <3>1 DEF TypeOK, Recording
    <3>3. \A k \in ToSet(acked') : k = j \/ k \in ToSet(acked)
      BY <3>1 DEF TypeOK, ToSet
    <3>4. ProgressInv'
      BY <3>1, <3>3 DEF TypeOK, ProgressInv, Recording
    <3> QED  BY <2>1, <3>2, <3>4
  <2>3. CASE ~AckFrom(pc[j])
    <3>1. /\ acked' = acked /\ pc' = [pc EXCEPT ![j] = "exitInternal"]
          /\ pc[j] = "failed" /\ UNCHANGED <<report, sent, log, cut, shown, branch>>
          /\ Recording
      BY <1>4, <2>3 DEF Exit, GoTo, AckFrom, gateVars
    <3>2. TypeOK'
      BY <3>1 DEF TypeOK, Recording
    <3>3. ProgressInv'
      BY <3>1 DEF TypeOK, ProgressInv, Recording, ToSet
    <3> QED  BY <2>1, <3>2, <3>3
  <2> QED  BY <2>2, <2>3
<1>5. ASSUME Trend
      PROVE  RecordInv'
  <2>1. UNCHANGED <<report, pc, sent, log, acked, cut, branch>>
    BY <1>5 DEF Trend, gateVars
  <2>2. \/ /\ Read(log).ok
           /\ shown' = [exit |-> exitOK, entries |-> Read(log).entries, due |-> acked]
        \/ \E e \in {exitInput, exitInternal} : shown' = [NoTrend EXCEPT !.exit = e]
    BY <1>5 DEF Trend
  <2>3. shown'.exit \in {exitOK, exitInput, exitInternal}
    BY <2>2 DEF NoTrend
  <2>4. TypeOK'
    BY <2>1, <2>3 DEF TypeOK, Recording
  <2>5. PiecesInv' /\ ProgressInv'
    BY <2>1 DEF PiecesInv, ProgressInv, Recording
  <2>6. EntriesInv'
    <3>1. CASE Read(log).ok /\ shown' = [exit |-> exitOK, entries |-> Read(log).entries,
                                        due |-> acked]
      <4>1. shown'.entries = Read(log).entries /\ shown'.due = acked
        BY <3>1
      <4>2. \A j \in ToSet(acked) : j \in Jobs /\ sent[j] = 3
        BY DEF TypeOK, ProgressInv, ToSet
      <4>3. ToSet(acked) \subseteq ToSet(Read(log).entries)
        BY <3>1, <4>2, ReadShowsAll
      <4>4. \A e \in DOMAIN Read(log).entries :
               /\ e \in Nat /\ e - 2 \in DOMAIN log
               /\ log[e - 2] = <<Read(log).entries[e], "head">>
        BY <3>1, ReadShowsAll
      <4> QED  BY <2>1, <4>1, <4>3, <4>4 DEF EntriesInv
    <3>2. CASE \E e \in {exitInput, exitInternal} : shown' = [NoTrend EXCEPT !.exit = e]
      BY <3>2 DEF EntriesInv, NoTrend, exitOK, exitInput, exitInternal
    <3> QED  BY <2>2, <3>1, <3>2
  <2> QED  BY <2>4, <2>5, <2>6
<1>6. ASSUME RunCompare
      PROVE  RecordInv'
  <2>1. ~Recording /\ UNCHANGED historyVars
    BY <1>6 DEF RunCompare
  <2>2. Len(branch) <= 2 /\ branch # <<>>
    BY <1>6 DEF RunCompare, Recording
  <2>3. branch' = branch \/ \E current \in GateInputs : branch' = Append(branch, current)
    BY <1>6 DEF RunCompare
  <2>4. branch' \in Seq(GateInputs) /\ Len(branch') <= 3 /\ branch' # <<>>
    <3>1. branch \in Seq(GateInputs)
      BY DEF TypeOK
    <3>2. CASE branch' = branch
      BY <2>2, <3>1, <3>2
    <3>3. ASSUME NEW current \in GateInputs, branch' = Append(branch, current)
          PROVE  branch' \in Seq(GateInputs) /\ Len(branch') <= 3 /\ branch' # <<>>
      <4>1. Append(branch, current) \in Seq(GateInputs)
            /\ Len(Append(branch, current)) = Len(branch) + 1
        BY <3>1
      <4>2. Len(branch) \in Nat /\ Len(<<>>) = 0
        BY <3>1
      <4> QED  BY <2>2, <3>3, <4>1, <4>2
    <3> QED  BY <2>3, <3>2, <3>3
  <2> QED
    BY <2>1, <2>4
    DEF TypeOK, PiecesInv, ProgressInv, EntriesInv, historyVars, Recording
<1>7. CASE UNCHANGED vars
  BY <1>7 DEF TypeOK, PiecesInv, ProgressInv, EntriesInv, vars, historyVars, gateVars,
              Recording
<1> QED
  BY <1>1, <1>2, <1>3, <1>4, <1>5, <1>6, <1>7 DEF Next

(* The log is at every moment what the jobs have sent; it reads unless     *)
(* something was really lost, and it holds evidence alone                  *)
(* (history.go:79-98, validate.go:210-259).                                *)
THEOREM LogInvariance == Spec => []LogInv
<1>1. Spec => []RecordInv
  BY RecordInvInit, RecordInvNext, PTL DEF Spec
<1>2. RecordInv => LogInv
  BY WholeLogReads, OnlyAcceptedIsLogged DEF RecordInv, LogInv
<1> QED  BY <1>1, <1>2, PTL

(* A trend that succeeds shows every entry recorded before it, once and in *)
(* order (history.go:100-105, 127-129).                                    *)
THEOREM NoSilentGapHolds == Spec => []NoSilentGap
<1>1. LogInv => NoSilentGap
  <2> SUFFICES ASSUME TypeOK, PiecesInv, EntriesInv, shown.exit = exitOK
               PROVE  /\ ToSet(shown.due) \subseteq ToSet(shown.entries)
                      /\ IsInjective(shown.entries)
                      /\ \A i, j \in DOMAIN log : \A a, b \in ToSet(shown.entries) :
                            /\ log[i] = <<a, "head">> /\ log[j] = <<b, "head">> /\ i < j
                            => \E m, n \in DOMAIN shown.entries :
                                 shown.entries[m] = a /\ shown.entries[n] = b /\ m < n
    BY DEF LogInv, NoSilentGap
  <2> DEFINE entries == shown.entries
  <2>1. /\ ToSet(shown.due) \subseteq ToSet(entries)
        /\ \A e \in DOMAIN entries : /\ e \in Nat /\ e - 2 \in DOMAIN log
                                    /\ log[e - 2] = <<entries[e], "head">>
    BY DEF EntriesInv
  <2>2. \A i, k \in DOMAIN log : log[i] = log[k] => i = k
    BY DEF PiecesInv, IsInjective
  <2> HIDE DEF entries
  <2>3. IsInjective(entries)
    <3> SUFFICES ASSUME NEW x \in DOMAIN entries, NEW y \in DOMAIN entries,
                        entries[x] = entries[y]
                 PROVE  x = y
      BY DEF IsInjective
    <3>1. x - 2 = y - 2
      BY <2>1, <2>2
    <3> QED  BY <2>1, <3>1
  <2>4. ASSUME NEW i \in DOMAIN log, NEW j \in DOMAIN log,
               NEW m \in DOMAIN entries, NEW n \in DOMAIN entries,
               log[i] = <<entries[m], "head">>, log[j] = <<entries[n], "head">>, i < j
        PROVE  m < n
    <3>1. i = m - 2 /\ j = n - 2
      BY <2>1, <2>2, <2>4
    <3> QED  BY <2>1, <2>4, <3>1
  <2>5. \A a \in ToSet(entries) : \E m \in DOMAIN entries : entries[m] = a
    BY DEF ToSet
  <2>6. ASSUME NEW i \in DOMAIN log, NEW j \in DOMAIN log,
               NEW a \in ToSet(entries), NEW b \in ToSet(entries),
               log[i] = <<a, "head">>, log[j] = <<b, "head">>, i < j
        PROVE  \E m, n \in DOMAIN entries : entries[m] = a /\ entries[n] = b /\ m < n
    BY <2>4, <2>5, <2>6
  <2> QED  BY <2>1, <2>3, <2>6 DEF entries
<1> QED  BY <1>1, LogInvariance, PTL

(* What the analyzer writes is never refused for what is in it, be it      *)
(* whole, without some results, or ended after the last of them            *)
(* (analysis.go:199-202, 938-948, 960-1009, 1086-1115).                    *)
THEOREM OwnReportsAcceptedHolds == Spec => []OwnReportsAccepted
<1>1. LogInv => OwnReportsAccepted
  <2> SUFFICES ASSUME LogInv, NEW j \in Jobs, report[j].syntax = "object",
                      NEW ended \in BOOLEAN,
                      report[j] = Produced(report[j].results,
                                           report[j].bounds["discovered_before_bound"].n,
                                           report[j].bounds["retained_after_bound"].n,
                                           ended),
                      IsInjective([i \in DOMAIN report[j].results |->
                                      report[j].results[i].id]),
                      \A i \in DOMAIN report[j].results :
                         /\ report[j].results[i].verdict \in Verdicts
                         /\ report[j].results[i].flaw = "none",
                      report[j].bounds["discovered_before_bound"].n
                         >= report[j].bounds["retained_after_bound"].n,
                      report[j].bounds["retained_after_bound"].n >= Len(report[j].results)
               PROVE  DecodeReport(report[j])
    BY DEF OwnReportsAccepted
  <2>1. report \in LogInputs
    BY DEF LogInv, TypeOK
  <2>2. IsDocument(report[j])
    BY <2>1, CommandsAssumption
  <2>3. /\ report[j].bounds["discovered_before_bound"].n \in Int
        /\ report[j].bounds["retained_after_bound"].n \in Int
    BY <2>2 DEF IsDocument, Bounds
  <2> QED  BY <2>2, <2>3, ProducedIsAccepted
<1> QED  BY <1>1, LogInvariance, PTL

-----------------------------------------------------------------------------
(* The gate, step by step.                                                 *)

(* Before a compare nothing was merged.                                    *)
LEMMA GateInit == Init => RegressionIsVisible /\ GatingIsTransitive
<1> SUFFICES ASSUME Init
             PROVE  RegressionIsVisible /\ GatingIsTransitive
  OBVIOUS
<1>1. gate = NoGate /\ ~gate.asked
  BY DEF Init, NoGate
<1>2. DOMAIN branch \subseteq {1} /\ Len(branch) <= 1 /\ Len(branch) \in Nat
  <2>1. CASE branch = <<>>
    BY <2>1
  <2>2. ASSUME NEW first \in GateInputs, branch = <<first>>
        PROVE  DOMAIN branch \subseteq {1} /\ Len(branch) <= 1 /\ Len(branch) \in Nat
    BY <2>2
  <2> QED  BY <2>1, <2>2 DEF Init
<1>3. 2..Len(branch) = {}
  BY <1>2
<1> QED  BY <1>1, <1>2, <1>3 DEF RegressionIsVisible, GatingIsTransitive, GateInv

(* A compare appends to the branch only what has not regressed from its    *)
(* last report, and so not from any before (compare.go:35-101).            *)
LEMMA GateNext ==
    TypeOK /\ RegressionIsVisible /\ GatingIsTransitive /\ [Next]_vars
        => RegressionIsVisible' /\ GatingIsTransitive'
<1> SUFFICES ASSUME TypeOK, RegressionIsVisible, GatingIsTransitive, [Next]_vars
             PROVE  RegressionIsVisible' /\ GatingIsTransitive'
  OBVIOUS
<1>1. CASE UNCHANGED gateVars
  BY <1>1 DEF gateVars, RegressionIsVisible, GatingIsTransitive, GateInv
<1>2. CASE RunCompare
  <2> DEFINE last == Last(branch)
             L == Len(branch)
  <2>1. PICK current \in GateInputs, options \in Options :
          LET found == CompareExit(Last(branch), current, options) IN
          \E exit \in {found} \cup (IF found = exitInput THEN {} ELSE {exitInternal}) :
             /\ gate' = [asked |-> options.failOnNew, current |-> current,
                         baseline |-> Last(branch), status |-> exit % 256]
             /\ branch' = IF options.failOnNew /\ exit % 256 = 0
                          THEN Append(branch, current) ELSE branch
    BY <1>2 DEF RunCompare
  <2> DEFINE found == CompareExit(last, current, options)
  <2>2. PICK exit \in {found} \cup (IF found = exitInput THEN {} ELSE {exitInternal}) :
          /\ gate' = [asked |-> options.failOnNew, current |-> current,
                      baseline |-> last, status |-> exit % 256]
          /\ branch' = IF options.failOnNew /\ exit % 256 = 0
                       THEN Append(branch, current) ELSE branch
    BY <2>1
  <2>3. /\ gate' = [asked |-> options.failOnNew, current |-> current,
                    baseline |-> last, status |-> exit % 256]
        /\ branch' = IF options.failOnNew /\ exit % 256 = 0
                     THEN Append(branch, current) ELSE branch
        /\ exit \in {CompareExit(last, current, options), exitInternal}
    <3> HIDE DEF last, L
    <3> QED  BY <2>2
  <2>4. branch \in Seq(GateInputs) /\ branch # <<>>
    BY <1>2 DEF RunCompare, Recording, TypeOK
  <2>5. L \in Nat /\ L # 0 /\ DOMAIN branch = 1..L /\ last = branch[L]
        /\ last \in GateInputs
    BY <2>4 DEF Last
  <2>6. /\ gate'.asked = options.failOnNew /\ gate'.status = exit % 256
        /\ gate'.baseline = last /\ gate'.current = current
    BY <2>3
  <2> HIDE DEF last, L
  <2>7. ASSUME options.failOnNew, exit % 256 = 0
        PROVE  /\ DecodeReport(last) /\ DecodeReport(current)
               /\ InspectCompatibility(last, current)
               /\ Regressed(VerdictsOf(last), VerdictsOf(current)) = {}
    BY <2>3, <2>7, PassedGate
  <2>8. RegressionIsVisible'
    BY <2>6, <2>7 DEF RegressionIsVisible, InspectCompatibility
  <2>9. CASE ~(options.failOnNew /\ exit % 256 = 0)
    <3>1. branch' = branch
      BY <2>3, <2>9
    <3> QED  BY <2>5, <2>6, <2>8, <3>1 DEF GatingIsTransitive, GateInv
  <2>10. CASE options.failOnNew /\ exit % 256 = 0
    <3>1. branch' = Append(branch, current)
      BY <2>3, <2>10
    <3>2. /\ DOMAIN branch' = 1..L + 1 /\ Len(branch') = L + 1
          /\ \A i \in 1..L : branch'[i] = branch[i]
          /\ branch'[L + 1] = current
      BY <2>4, <3>1 DEF L
    <3>3. \A i \in 2..L : DecodeReport(branch[i])
      BY DEF GatingIsTransitive, GateInv, L
    <3>4. GateInv'
      <4> SUFFICES ASSUME NEW i \in 2..L + 1
                   PROVE  DecodeReport(branch'[i])
        BY <2>5, <2>6, <3>2 DEF GateInv
      <4>1. i \in 2..L \/ i = L + 1
        BY <2>5
      <4>2. 2..L \subseteq 1..L
        OBVIOUS
      <4> QED  BY <2>7, <2>10, <3>2, <3>3, <4>1, <4>2
    <3>5. ASSUME NEW i \in 1..L
          PROVE  Regressed(VerdictsOf(branch[i]), VerdictsOf(current)) = {}
      <4>1. CASE i = L
        BY <2>5, <2>7, <2>10, <4>1
      <4>2. CASE i < L
        <5>1. Regressed(VerdictsOf(branch[i]), VerdictsOf(last)) = {}
          BY <2>5, <4>2 DEF GatingIsTransitive
        <5>2. \A id \in DOMAIN VerdictsOf(last) : VerdictsOf(last)[id] \in Verdicts
          BY <2>7, <2>10, VerdictsKnown
        <5> QED  BY <2>7, <2>10, <5>1, <5>2, NoRegressionIsTransitive
      <4> QED  BY <2>5, <4>1, <4>2
    <3>6. ASSUME NEW i \in 1..L + 1, NEW j \in 1..L + 1, i < j
          PROVE  Regressed(VerdictsOf(branch'[i]), VerdictsOf(branch'[j])) = {}
      <4>1. i \in 1..L /\ (j \in 1..L \/ j = L + 1)
        BY <2>5, <3>6
      <4>2. CASE j \in 1..L
        BY <2>5, <3>2, <3>6, <4>1, <4>2 DEF GatingIsTransitive
      <4>3. CASE j = L + 1
        BY <3>2, <3>5, <4>1, <4>3
      <4> QED  BY <4>1, <4>2, <4>3
    <3> QED  BY <2>8, <3>2, <3>4, <3>6 DEF GatingIsTransitive
  <2> QED  BY <2>8, <2>9, <2>10
<1>3. Next => RunCompare \/ UNCHANGED gateVars
  BY DEF Next, LoadReport, WritePieces, CutShort, Exit, Trend
<1> QED  BY <1>1, <1>2, <1>3 DEF vars

(* A gate that was asked for succeeds only when nothing regressed between  *)
(* two complete, unbounded reports (compare.go:39-61, 98-100).             *)
THEOREM RegressionIsVisibleHolds == Spec => []RegressionIsVisible
<1>1. Spec => []TypeOK
  BY LogInvariance, PTL DEF LogInv
<1> QED  BY <1>1, GateInit, GateNext, PTL DEF Spec

(* A branch of gated changes has not regressed from its first baseline     *)
(* (compare.go:245-262).                                                   *)
THEOREM GatingIsTransitiveHolds == Spec => []GatingIsTransitive
<1>1. Spec => []TypeOK
  BY LogInvariance, PTL DEF LogInv
<1> QED  BY <1>1, GateInit, GateNext, PTL DEF Spec

(* Every identity is in one bucket, only what would be new if undone is    *)
(* fixed, and relocations are one to one (compare.go:156-203,              *)
(* shift.go:50-82).                                                        *)
THEOREM BucketsAreHonestHolds == Spec => []BucketsAreHonest
<1>1. GateInv => BucketsAreHonest
  <2> SUFFICES ASSUME GateInv, "current" \in DOMAIN gate
               PROVE  BucketsAreHonest
    BY DEF BucketsAreHonest
  <2>1. gate # NoGate
    BY DEF NoGate
  <2>2. gate.baseline \in GateInputs /\ gate.current \in GateInputs
    BY <2>1 DEF GateInv
  <2>3. ASSUME NEW doc \in GateInputs
        PROVE  IsFiniteSet(DOMAIN VerdictsOf(doc))
    <3> DEFINE D == DOMAIN doc.results
               f == [i \in D |-> doc.results[i].id]
               T == {doc.results[i].id : i \in D}
    <3>1. D = 1..Len(doc.results) /\ Len(doc.results) \in Nat
      BY CommandsAssumption DEF IsDocument
    <3>2. IsFiniteSet(D)
      BY <3>1, FS_Interval
    <3>3. f \in Surjection(D, T)
      BY DEF Surjection
    <3>4. IsFiniteSet(T)
      <4> HIDE DEF D, f, T
      <4> QED  BY <3>2, <3>3, FS_Surjection
    <3> QED  BY <3>4 DEF VerdictsOf
  <2> DEFINE a == VerdictsOf(gate.baseline)
             b == VerdictsOf(gate.current)
  <2>4. IsFiniteSet(DOMAIN a) /\ IsFiniteSet(DOMAIN b)
    BY <2>2, <2>3
  <2> QED  BY <2>4, BucketsOfTwo DEF BucketsAreHonest
<1>2. GatingIsTransitive => GateInv
  BY DEF GatingIsTransitive
<1> QED  BY <1>1, <1>2, GatingIsTransitiveHolds, PTL
=============================================================================
