------------------------ MODULE OrderedWindowProofs ------------------------
(***************************************************************************)
(* Proofs about OrderedWindow for every number of mutants, every finite    *)
(* set of workers and every window factor.                                 *)
(***************************************************************************)
EXTENDS OrderedWindow, FiniteSetTheorems, TLAPS

(* The window is a positive number of slots, at most one per mutant. *)
LEMMA WindowFacts == Window \in Nat \ {0} /\ Window <= Count
<1>1. Cardinality(Workers) \in Nat
  BY FS_CardinalityType, ConstantsAssumption
<1>2. Cardinality(Workers) # 0
  BY FS_EmptySet, ConstantsAssumption
<1>3. WindowFactor * Cardinality(Workers) \in Nat
  BY <1>1, ConstantsAssumption
<1>4. WindowFactor * Cardinality(Workers) >= 1
  BY <1>1, <1>2, ConstantsAssumption
<1> QED
  BY <1>3, <1>4, ConstantsAssumption DEF Window

(* Every index has a slot. *)
LEMMA SlotOf == \A i \in Nat : i % Window \in Slot
BY WindowFacts DEF Slot

(* Two indices less than a window apart that share a slot are equal. *)
LEMMA RingDistinct ==
    ASSUME NEW i \in Nat, NEW j \in Nat,
           i % Window = j % Window,
           i - j < Window, j - i < Window
    PROVE  i = j
<1>1. Window \in Nat \ {0}
  BY WindowFacts
<1> DEFINE qi == i \div Window
           qj == j \div Window
<1>2. qi \in Int /\ qj \in Int
  BY <1>1
<1>3. i = Window * qi + (i % Window) /\ j = Window * qj + (j % Window)
  BY <1>1
<1>4. i - j = Window * (qi - qj)
  BY <1>1, <1>2, <1>3
<1> HIDE DEF qi, qj
<1>5. CASE qi - qj >= 1
  <2>1. Window * (qi - qj) >= Window
    BY <1>1, <1>2, <1>5
  <2> QED
    BY <2>1, <1>4, <1>1
<1>6. CASE qj - qi >= 1
  <2>1. Window * (qj - qi) >= Window
    BY <1>1, <1>2, <1>6
  <2>2. Window * (qj - qi) = j - i
    BY <1>4, <1>1, <1>2
  <2> QED
    BY <2>1, <2>2, <1>1
<1>7. CASE qi = qj
  BY <1>3, <1>7
<1> QED
  BY <1>2, <1>5, <1>6, <1>7

-----------------------------------------------------------------------------
(* Types. *)

(* The initial values have their types. *)
LEMMA TypeInit == Init => TypeOK
<1> SUFFICES ASSUME Init PROVE TypeOK
  OBVIOUS
<1>1. Absent \in Outcome
  BY ConstantsAssumption DEF Absent, Outcome, Index
<1>2. pending \in [Slot -> Outcome] /\ hand \in [Workers -> Outcome]
  BY <1>1 DEF Init
<1>3. outcomes \in SUBSET Outcome /\ failed \in SUBSET Index
  BY DEF Init
<1>4. persisted \in Seq(Outcome)
  BY DEF Init
<1>5. queued \in 0..Count /\ committed \in 0..Count /\ taken \in 0..Count
  BY ConstantsAssumption DEF Init
<1> QED
  BY <1>2, <1>3, <1>4, <1>5 DEF Init, TypeOK

(* Every step keeps the types; the cursors are needed for the bounds. *)
LEMMA TypeStep == TypeOK /\ PlaceInv /\ [Next]_vars => TypeOK'
<1> SUFFICES ASSUME TypeOK, PlaceInv, [Next]_vars
             PROVE  TypeOK'
  OBVIOUS
<1> USE ConstantsAssumption DEF TypeOK
<1>0. Absent \in Outcome
  BY DEF Absent, Outcome, Index
<1>1. CASE CtxDone
  BY <1>1 DEF CtxDone, cvars, wvars
<1>2. ASSUME NEW w \in Workers, Take(w)
      PROVE  TypeOK'
  <2>1. [index |-> taken, kind |-> "absent"] \in Outcome
    BY <1>2 DEF Take, Outcome, Index
  <2> QED
    BY <1>2, <2>1 DEF Take, cvars
<1>3. ASSUME NEW w \in Workers,
             Drop(w) \/ StartRun(w) \/ CancelAfterError(w) \/ ExitWorker(w)
      PROVE  TypeOK'
  <2>1. CASE Drop(w)
    BY <2>1 DEF Drop, cvars
  <2>2. CASE StartRun(w)
    BY <2>2 DEF StartRun, cvars
  <2>3. CASE CancelAfterError(w)
    BY <2>3 DEF CancelAfterError, cvars
  <2>4. CASE ExitWorker(w)
    BY <2>4 DEF ExitWorker, cvars
  <2> QED
    BY <1>3, <2>1, <2>2, <2>3, <2>4
<1>4. ASSUME NEW w \in Workers, NEW k \in RunKind, FinishRun(w, k)
      PROVE  TypeOK'
  <2>1. [hand[w] EXCEPT !.kind = k] \in Outcome
    BY <1>4 DEF Outcome
  <2>2. hand' \in [Workers -> Outcome]
    BY <1>4, <2>1 DEF FinishRun
  <2>3. failed' \in SUBSET Index
    BY <1>4 DEF FinishRun, Outcome
  <2> QED
    BY <1>4, <2>2, <2>3 DEF FinishRun, cvars
<1>5. ASSUME NEW w \in Workers, SendOutcome(w)
      PROVE  TypeOK'
  BY <1>5 DEF SendOutcome, cvars
<1>6. CASE \/ LoopHead \/ FillReadError \/ FillDone \/ SeeCancelled \/ CommitDone
           \/ CloseJobs \/ CancelRest \/ WaitWorkers \/ Return
           \/ FinishUnlessComplete \/ ReadTail \/ TailIsEOF \/ TailError
  <2>1. CASE LoopHead
    BY <2>1 DEF LoopHead, wvars
  <2>2. CASE FillReadError
    BY <2>2 DEF FillReadError, Stop, wvars
  <2>3. CASE FillDone
    BY <2>3 DEF FillDone, wvars
  <2>4. CASE SeeCancelled
    BY <2>4 DEF SeeCancelled, wvars
  <2>5. CASE CommitDone
    BY <2>5 DEF CommitDone, wvars
  <2>6. CASE CloseJobs
    BY <2>6 DEF CloseJobs, wvars
  <2>7. CASE CancelRest
    BY <2>7 DEF CancelRest, wvars
  <2>8. CASE WaitWorkers
    BY <2>8 DEF WaitWorkers, wvars
  <2>9. CASE Return
    BY <2>9 DEF Return, wvars
  <2>10. CASE FinishUnlessComplete
    BY <2>10 DEF FinishUnlessComplete, wvars
  <2>11. CASE ReadTail
    BY <2>11 DEF ReadTail, wvars
  <2>12. CASE TailIsEOF
    BY <2>12 DEF TailIsEOF, wvars
  <2>13. CASE TailError
    BY <2>13 DEF TailError, wvars
  <2> QED
    BY <1>6, <2>1, <2>2, <2>3, <2>4, <2>5, <2>6, <2>7, <2>8, <2>9, <2>10, <2>11,
       <2>12, <2>13
<1>7. CASE Fill
  BY <1>7 DEF Fill, MayFill, wvars
<1>8. ASSUME NEW o \in outcomes, ReceiveError(o) \/ Reap(o)
      PROVE  TypeOK'
  <2>1. outcomes' \in SUBSET Outcome
    BY <1>8 DEF ReceiveError, Reap
  <2>2. CASE ReceiveError(o)
    BY <2>1, <2>2 DEF ReceiveError, Stop, wvars
  <2>3. CASE Reap(o)
    <3>1. firstErr' \in {"none", "read", "worker", "ring", "record", "tail"}
      BY <2>3 DEF Reap
    <3> QED
      BY <2>1, <2>3, <3>1 DEF Reap, wvars
  <2> QED
    BY <1>8, <2>2, <2>3
<1>9. ASSUME NEW o \in outcomes, ReceiveResult(o)
      PROVE  TypeOK'
  <2>1. pending' \in [Slot -> Outcome]
    BY <1>9 DEF ReceiveResult
  <2> QED
    BY <1>9, <2>1 DEF ReceiveResult, Stop, wvars
<1>10. Head0 \in Outcome /\ (Present(Head0) => committed < Count)
  <2>1. committed % Window \in Slot
    BY SlotOf
  <2> QED
    BY <2>1 DEF PlaceInv, PendingInv, InFlight, Head0, Outcome, Index
<1>11. CASE CommitResult
  <2>1. pending' \in [Slot -> Outcome]
    BY <1>0, <1>11 DEF CommitResult, ReleaseSlot
  <2>3. persisted' \in Seq(Outcome)
    BY <1>10, <1>11 DEF CommitResult
  <2>4. committed' \in 0..Count
    BY <1>10, <1>11 DEF CommitResult
  <2> QED
    BY <1>11, <2>1, <2>3, <2>4 DEF CommitResult, wvars
<1>12. CASE CommitError
  BY <1>0, <1>12 DEF CommitError, ReleaseSlot, Stop, wvars
<1>13. CASE UNCHANGED vars
  BY <1>13 DEF vars
<1> QED
  BY <1>1, <1>2, <1>3, <1>4, <1>5, <1>6, <1>7, <1>8, <1>9, <1>11, <1>12, <1>13
     DEF Next, WorkerStep, Run, Coordinate, Receive, Terminated

-----------------------------------------------------------------------------
(* Every unpersisted job is in one place, so results are persisted in      *)
(* order.                                                                  *)

(* Before the first step no job is anywhere. *)
LEMMA PlaceInit == Init => PlaceInv
<1> SUFFICES ASSUME Init PROVE PlaceInv
  OBVIOUS
<1>1. PendingInv
  BY DEF Init, PendingInv, Present, Absent
<1>2. HandInv /\ OutcomesInv
  BY DEF Init, HandInv, OutcomesInv, Holds
<1>3. Cursors /\ OrderedPrefix /\ NoSpuriousRingError
  BY WindowFacts DEF Init, Cursors, OrderedPrefix, NoSpuriousRingError
<1> QED
  BY <1>1, <1>2, <1>3 DEF PlaceInv

(* A step that moves no job, result or cursor keeps every job in place. *)
LEMMA PlaceFrame ==
    ASSUME PlaceInv,
           UNCHANGED <<committed, taken, queued, pending, persisted, hand>>,
           outcomes' \in SUBSET outcomes,
           \A w \in Workers : Holds(w)' => Holds(w),
           \A w \in Workers : wpc'[w] = "sending" => wpc[w] = "sending",
           firstErr' # "ring"
    PROVE  PlaceInv'
<1>1. Cursors' /\ OrderedPrefix' /\ NoSpuriousRingError'
  BY DEF PlaceInv, Cursors, OrderedPrefix, NoSpuriousRingError
<1>2. HandInv'
  BY DEF PlaceInv, HandInv, InFlight
<1>3. OutcomesInv'
  BY DEF PlaceInv, OutcomesInv, InFlight
<1>4. PendingInv'
  BY DEF PlaceInv, PendingInv, InFlight
<1> QED
  BY <1>1, <1>2, <1>3, <1>4 DEF PlaceInv

(* Every step moves a job from one place to the next and copies none. *)
LEMMA PlaceStep == TypeOK /\ PlaceInv /\ [Next]_vars => PlaceInv'
<1> SUFFICES ASSUME TypeOK, PlaceInv, [Next]_vars
             PROVE  PlaceInv'
  OBVIOUS
<1>0. firstErr # "ring"
  BY DEF PlaceInv, NoSpuriousRingError
<1>1. CASE CtxDone
  BY <1>0, <1>1, PlaceFrame DEF CtxDone, cvars, wvars, Holds
<1>2. ASSUME NEW w \in Workers,
             Drop(w) \/ StartRun(w) \/ CancelAfterError(w) \/ ExitWorker(w)
      PROVE  PlaceInv'
  <2>1. CASE Drop(w)
    BY <1>0, <2>1, PlaceFrame DEF Drop, cvars, Holds, TypeOK
  <2>2. CASE StartRun(w)
    BY <1>0, <2>2, PlaceFrame DEF StartRun, cvars, Holds, TypeOK
  <2>3. CASE CancelAfterError(w)
    BY <1>0, <2>3, PlaceFrame DEF CancelAfterError, cvars, Holds, TypeOK
  <2>4. CASE ExitWorker(w)
    BY <1>0, <2>4, PlaceFrame DEF ExitWorker, cvars, Holds, TypeOK
  <2> QED
    BY <1>2, <2>1, <2>2, <2>3, <2>4
<1>3. CASE \/ LoopHead \/ FillReadError \/ FillDone \/ SeeCancelled \/ CommitDone
           \/ CloseJobs \/ CancelRest \/ WaitWorkers \/ Return
           \/ FinishUnlessComplete \/ ReadTail \/ TailIsEOF \/ TailError
  <2>1. CASE LoopHead
    BY <1>0, <2>1, PlaceFrame DEF LoopHead, wvars, Holds
  <2>2. CASE FillReadError
    BY <1>0, <2>2, PlaceFrame DEF FillReadError, Stop, wvars, Holds
  <2>3. CASE FillDone
    BY <1>0, <2>3, PlaceFrame DEF FillDone, wvars, Holds
  <2>4. CASE SeeCancelled
    BY <1>0, <2>4, PlaceFrame DEF SeeCancelled, wvars, Holds
  <2>5. CASE CommitDone
    BY <1>0, <2>5, PlaceFrame DEF CommitDone, wvars, Holds
  <2>6. CASE CloseJobs
    BY <1>0, <2>6, PlaceFrame DEF CloseJobs, wvars, Holds
  <2>7. CASE CancelRest
    BY <1>0, <2>7, PlaceFrame DEF CancelRest, wvars, Holds
  <2>8. CASE WaitWorkers
    BY <1>0, <2>8, PlaceFrame DEF WaitWorkers, wvars, Holds
  <2>9. CASE Return
    BY <1>0, <2>9, PlaceFrame DEF Return, wvars, Holds
  <2>10. CASE FinishUnlessComplete
    BY <1>0, <2>10, PlaceFrame DEF FinishUnlessComplete, wvars, Holds
  <2>11. CASE ReadTail
    BY <1>0, <2>11, PlaceFrame DEF ReadTail, wvars, Holds
  <2>12. CASE TailIsEOF
    BY <1>0, <2>12, PlaceFrame DEF TailIsEOF, wvars, Holds
  <2>13. CASE TailError
    BY <1>0, <2>13, PlaceFrame DEF TailError, wvars, Holds
  <2> QED
    BY <1>3, <2>1, <2>2, <2>3, <2>4, <2>5, <2>6, <2>7, <2>8, <2>9, <2>10, <2>11,
       <2>12, <2>13
<1>4. ASSUME NEW o \in outcomes, ReceiveError(o) \/ Reap(o)
      PROVE  PlaceInv'
  <2>1. CASE ReceiveError(o)
    BY <1>0, <2>1, PlaceFrame DEF ReceiveError, Stop, wvars, Holds
  <2>2. CASE Reap(o)
    BY <1>0, <2>2, PlaceFrame DEF Reap, wvars, Holds
  <2> QED
    BY <1>4, <2>1, <2>2
<1>5. CASE Fill
  <2>1. Cursors'
    BY <1>5, WindowFacts DEF Fill, MayFill, wvars, PlaceInv, Cursors, TypeOK
  <2>2. HandInv' /\ OutcomesInv' /\ PendingInv'
    BY <1>5 DEF Fill, wvars, PlaceInv, HandInv, OutcomesInv, PendingInv, Holds,
                InFlight
  <2> QED
    BY <1>5, <2>1, <2>2 DEF Fill, PlaceInv, OrderedPrefix, NoSpuriousRingError
<1>6. ASSUME NEW w \in Workers, Take(w)
      PROVE  PlaceInv'
  <2>1. Cursors' /\ OrderedPrefix' /\ NoSpuriousRingError'
    BY <1>6 DEF Take, cvars, PlaceInv, Cursors, OrderedPrefix, NoSpuriousRingError,
                TypeOK
  <2>2. \A v \in Workers : v # w => hand'[v] = hand[v] /\ wpc'[v] = wpc[v]
    BY <1>6 DEF Take, TypeOK
  <2>3. hand'[w].index = taken /\ wpc'[w] = "taken" /\ ~Holds(w)
    BY <1>6 DEF Take, TypeOK, Holds
  <2>4. taken' = taken + 1 /\ committed' = committed /\ committed <= taken
        /\ outcomes' = outcomes /\ pending' = pending
        /\ taken \in Nat /\ committed \in Nat
    BY <1>6 DEF Take, cvars, PlaceInv, Cursors, TypeOK
  <2>5. HandInv'
    <3>1. ASSUME NEW v \in Workers, Holds(v), v # w
          PROVE  InFlight(hand[v].index) /\ hand[v].index \in Nat
      BY <3>1 DEF PlaceInv, HandInv, TypeOK, Outcome, Index
    <3>2. ASSUME NEW v \in Workers
          PROVE  /\ Holds(v)' => InFlight(hand[v].index)'
                 /\ wpc'[v] = "sending" => Present(hand'[v])
      BY <2>2, <2>3, <2>4, <3>1 DEF PlaceInv, HandInv, InFlight, Holds
    <3>3. ASSUME NEW u \in Workers, NEW v \in Workers,
                 Holds(u)', Holds(v)', hand'[u].index = hand'[v].index
          PROVE  u = v
      BY <2>2, <2>3, <2>4, <3>1, <3>3 DEF PlaceInv, HandInv, InFlight, Holds
    <3> QED
      BY <3>2, <3>3 DEF HandInv
  <2>6. OutcomesInv'
    BY <2>2, <2>3, <2>4 DEF PlaceInv, OutcomesInv, InFlight, Holds, TypeOK,
       Outcome, Index
  <2>7. PendingInv'
    BY <2>2, <2>3, <2>4 DEF PlaceInv, PendingInv, InFlight, Holds, TypeOK,
       Outcome, Index
  <2> QED
    BY <2>1, <2>5, <2>6, <2>7 DEF PlaceInv
<1>7. ASSUME NEW w \in Workers, NEW k \in RunKind, FinishRun(w, k)
      PROVE  PlaceInv'
  <2>1. Cursors' /\ OrderedPrefix' /\ NoSpuriousRingError'
    BY <1>7 DEF FinishRun, cvars, PlaceInv, Cursors, OrderedPrefix,
                NoSpuriousRingError
  <2>2. \A v \in Workers : /\ hand'[v].index = hand[v].index
                           /\ Holds(v)' <=> Holds(v)
    BY <1>7 DEF FinishRun, TypeOK, Outcome, Holds
  <2>3. \A v \in Workers : wpc'[v] = "sending" =>
                             (wpc[v] = "sending" /\ hand'[v] = hand[v])
                             \/ hand'[v].kind = k
    BY <1>7 DEF FinishRun, TypeOK, Outcome
  <2>4. HandInv'
    BY <1>7, <2>2, <2>3 DEF FinishRun, cvars, PlaceInv, HandInv, InFlight, Present,
                            RunKind
  <2>5. OutcomesInv' /\ PendingInv'
    BY <1>7, <2>2 DEF FinishRun, cvars, PlaceInv, OutcomesInv, PendingInv, InFlight
  <2> QED
    BY <2>1, <2>4, <2>5 DEF PlaceInv
<1>8. ASSUME NEW w \in Workers, SendOutcome(w)
      PROVE  PlaceInv'
  <2>1. Cursors' /\ OrderedPrefix' /\ NoSpuriousRingError'
    BY <1>8 DEF SendOutcome, cvars, PlaceInv, Cursors, OrderedPrefix,
                NoSpuriousRingError
  <2>2. Holds(w) /\ ~Holds(w)' /\ Present(hand[w])
    BY <1>8 DEF SendOutcome, TypeOK, Holds, PlaceInv, HandInv
  <2>3. \A v \in Workers : v # w => wpc'[v] = wpc[v]
    BY <1>8 DEF SendOutcome, TypeOK
  <2>4. HandInv'
    BY <1>8, <2>2, <2>3 DEF SendOutcome, cvars, PlaceInv, HandInv, InFlight, Holds
  <2>5. OutcomesInv'
    BY <1>8, <2>2, <2>3 DEF SendOutcome, cvars, PlaceInv, HandInv, OutcomesInv,
                            InFlight, Holds
  <2>6. PendingInv'
    BY <1>8, <2>2, <2>3 DEF SendOutcome, cvars, PlaceInv, HandInv, PendingInv,
                            InFlight, Holds
  <2> QED
    BY <2>1, <2>4, <2>5, <2>6 DEF PlaceInv
<1>9. ASSUME NEW o \in outcomes, ReceiveResult(o)
      PROVE  PlaceInv'
  <2> DEFINE slot == o.index % Window
  <2>0. o \in Outcome /\ o.index \in Nat /\ slot \in Slot
    <3>1. o \in Outcome
      BY DEF TypeOK
    <3>2. o.index \in Nat
      BY <3>1 DEF Outcome, Index
    <3>3. slot \in Slot
      BY <3>2, SlotOf, ZenonT(30)
    <3> QED
      BY <3>1, <3>2, <3>3
  <2>1. ~Present(pending[slot])
    <3> SUFFICES ASSUME Present(pending[slot]) PROVE FALSE
      OBVIOUS
    <3> DEFINE q == pending[slot].index
    <3>1. q \in Nat /\ InFlight(q) /\ InFlight(o.index) /\ q % Window = slot
          /\ q # o.index
      BY <2>0 DEF PlaceInv, PendingInv, OutcomesInv, TypeOK, Outcome, Index
    <3>2. q - o.index < Window /\ o.index - q < Window
      BY <3>1, <2>0, WindowFacts DEF InFlight, PlaceInv, Cursors, TypeOK
    <3> QED
      BY <3>1, <3>2, <2>0, RingDistinct
  <2>2. ~OutOfWindow(o)
    BY <2>0, <2>1 DEF OutOfWindow, PlaceInv, OutcomesInv, InFlight, Cursors, TypeOK
  <2>3. /\ pending' = [pending EXCEPT ![slot] = o]
        /\ outcomes' = outcomes \ {o}
        /\ UNCHANGED <<committed, queued, persisted, firstErr, wvars>>
    BY <1>9, <2>2 DEF ReceiveResult
  <2>4. o.kind # "hard"
    BY <1>9 DEF ReceiveResult
  <2>5. Cursors' /\ OrderedPrefix' /\ NoSpuriousRingError'
    BY <2>3 DEF wvars, PlaceInv, Cursors, OrderedPrefix, NoSpuriousRingError
  <2>6. HandInv' /\ OutcomesInv'
    BY <2>3 DEF wvars, PlaceInv, HandInv, OutcomesInv, InFlight, Holds
  <2>7. PendingInv'
    BY <2>0, <2>3, <2>4 DEF wvars, PlaceInv, PendingInv, OutcomesInv, InFlight,
       Holds,
                            TypeOK
  <2> QED
    BY <2>5, <2>6, <2>7 DEF PlaceInv
<1>10. committed % Window \in Slot /\ committed \in Nat
  BY SlotOf DEF TypeOK
<1>11. CASE CommitResult
  <2> DEFINE slot == committed % Window
  <2>1. /\ Head0.index \in Nat
        /\ InFlight(Head0.index)
        /\ Head0.index % Window = slot
        /\ \A o \in outcomes : o.index # Head0.index
        /\ \A w \in Workers : Holds(w) => hand[w].index # Head0.index
    BY <1>10, <1>11 DEF CommitResult, Head0, PlaceInv, PendingInv, TypeOK, Outcome,
                        Index
  <2>2. Head0.index = committed
    <3>1. Head0.index - committed < Window /\ committed - Head0.index < Window
      BY <2>1, <1>10, WindowFacts DEF InFlight, PlaceInv, Cursors, TypeOK
    <3> QED
      BY <2>1, <3>1, <1>10, RingDistinct
  <2>3. /\ pending' = [pending EXCEPT ![slot] = Absent]
        /\ committed' = committed + 1
        /\ UNCHANGED <<queued, firstErr, wvars, outcomes>>
    BY <1>11 DEF CommitResult, ReleaseSlot
  <2>4. persisted' = Append(persisted, Head0) /\ Head0 \in Outcome
    BY <1>10, <1>11 DEF CommitResult, Head0, TypeOK
  <2>5. OrderedPrefix'
    <3>1. Len(persisted') = committed'
      BY <2>3, <2>4 DEF PlaceInv, OrderedPrefix, TypeOK
    <3>2. ASSUME NEW k \in 1..Len(persisted') PROVE persisted'[k].index = k - 1
      BY <2>2, <2>4 DEF PlaceInv, OrderedPrefix, TypeOK
    <3> QED
      BY <3>1, <3>2 DEF OrderedPrefix
  <2>6. Cursors' /\ NoSpuriousRingError'
    BY <2>1, <2>2, <2>3, WindowFacts DEF wvars, PlaceInv, Cursors,
                            NoSpuriousRingError, InFlight, TypeOK
  <2>7. HandInv'
    BY <2>1, <2>2, <2>3, <1>10 DEF wvars, PlaceInv, HandInv, InFlight, Holds,
       TypeOK,
                            Outcome, Index
  <2>8. OutcomesInv'
    BY <2>1, <2>2, <2>3, <1>10 DEF wvars, PlaceInv, OutcomesInv, InFlight, Holds,
                            TypeOK, Outcome, Index
  <2>9. PendingInv'
    <3> SUFFICES ASSUME NEW s \in Slot, Present(pending'[s])
                 PROVE  (/\ pending[s].kind # "hard"
                         /\ InFlight(pending[s].index)
                         /\ pending[s].index % Window = s
                         /\ \A o \in outcomes : o.index # pending[s].index
                         /\ \A w \in Workers :
                               Holds(w) => hand[w].index # pending[s].index)'
      BY DEF PendingInv
    <3>1. s # slot /\ pending'[s] = pending[s]
      BY <2>3, <1>10 DEF TypeOK, Present, Absent
    <3>2. pending[s].index \in Nat /\ pending[s].index # committed
      BY <3>1, <1>10 DEF PlaceInv, PendingInv, TypeOK, Outcome, Index
    <3> QED
      BY <2>3, <3>1, <3>2, <1>10 DEF wvars, PlaceInv, PendingInv, InFlight, Holds,
                            TypeOK
  <2> QED
    BY <2>5, <2>6, <2>7, <2>8, <2>9 DEF PlaceInv
<1>12. CASE CommitError
  <2>1. Cursors' /\ OrderedPrefix' /\ NoSpuriousRingError'
    BY <1>12 DEF CommitError, Stop, wvars, PlaceInv, Cursors, OrderedPrefix,
                 NoSpuriousRingError
  <2>2. HandInv' /\ OutcomesInv'
    BY <1>12 DEF CommitError, wvars, PlaceInv, HandInv, OutcomesInv, InFlight, Holds
  <2>3. PendingInv'
    BY <1>10, <1>12 DEF CommitError, ReleaseSlot, wvars, PlaceInv, PendingInv,
                 InFlight, Holds, TypeOK, Present, Absent
  <2> QED
    BY <2>1, <2>2, <2>3 DEF PlaceInv
<1>13. CASE UNCHANGED vars
  BY <1>0, <1>13, PlaceFrame DEF vars, Holds
<1> QED
  BY <1>1, <1>2, <1>3, <1>4, <1>5, <1>6, <1>7, <1>8, <1>9, <1>11, <1>12, <1>13
     DEF Next, WorkerStep, Run, Coordinate, Receive, Terminated

-----------------------------------------------------------------------------
(* How a run ends. *)

(* A cancellation or an error, once it has happened, is not undone. *)
LEMMA DisturbedStays == TypeOK /\ Disturbed /\ [Next]_vars => Disturbed'
<1> SUFFICES ASSUME TypeOK, Disturbed, [Next]_vars PROVE Disturbed'
  OBVIOUS
<1>1. CASE CtxDone
  BY <1>1 DEF CtxDone, Disturbed, Fault
<1>2. ASSUME NEW w \in Workers, WorkerStep(w)
      PROVE  Disturbed'
  BY <1>2 DEF WorkerStep, Take, Drop, StartRun, SendOutcome, CancelAfterError,
              ExitWorker, cvars, Disturbed, Fault
<1>3. ASSUME NEW w \in Workers, NEW k \in RunKind, FinishRun(w, k)
      PROVE  Disturbed'
  BY <1>3 DEF FinishRun, cvars, Disturbed, Fault
<1>4. CASE \/ LoopHead \/ Fill \/ FillReadError \/ FillDone \/ SeeCancelled
           \/ CommitResult \/ CommitError \/ CommitDone \/ CloseJobs \/ CancelRest
           \/ WaitWorkers \/ Return \/ FinishUnlessComplete \/ ReadTail
           \/ TailIsEOF \/ TailError
  <2>1. CASE LoopHead
    BY <2>1 DEF LoopHead, wvars, Disturbed, Fault
  <2>2. CASE Fill
    BY <2>2 DEF Fill, wvars, Disturbed, Fault
  <2>3. CASE FillReadError
    BY <2>3 DEF FillReadError, Stop, wvars, Disturbed, Fault
  <2>4. CASE FillDone
    BY <2>4 DEF FillDone, wvars, Disturbed, Fault
  <2>5. CASE SeeCancelled
    BY <2>5 DEF SeeCancelled, wvars, Disturbed, Fault
  <2>6. CASE CommitResult
    BY <2>6 DEF CommitResult, wvars, Disturbed, Fault
  <2>7. CASE CommitError
    BY <2>7 DEF CommitError, Stop, wvars, Disturbed, Fault
  <2>8. CASE CommitDone
    BY <2>8 DEF CommitDone, wvars, Disturbed, Fault
  <2>9. CASE CloseJobs
    BY <2>9 DEF CloseJobs, wvars, Disturbed, Fault
  <2>10. CASE CancelRest
    BY <2>10 DEF CancelRest, wvars, Disturbed, Fault
  <2>11. CASE WaitWorkers
    BY <2>11 DEF WaitWorkers, wvars, Disturbed, Fault
  <2>12. CASE Return
    BY <2>12 DEF Return, wvars, Disturbed, Fault
  <2>13. CASE FinishUnlessComplete
    BY <2>13 DEF FinishUnlessComplete, wvars, Disturbed, Fault
  <2>14. CASE ReadTail
    BY <2>14 DEF ReadTail, wvars, Disturbed, Fault
  <2>15. CASE TailIsEOF
    BY <2>15 DEF TailIsEOF, wvars, Disturbed, Fault
  <2>16. CASE TailError
    BY <2>16 DEF TailError, wvars, Disturbed, Fault
  <2> QED
    BY <1>4, <2>1, <2>2, <2>3, <2>4, <2>5, <2>6, <2>7, <2>8, <2>9, <2>10, <2>11,
       <2>12, <2>13, <2>14, <2>15, <2>16
<1>5. ASSUME NEW o \in outcomes, ReceiveError(o)
      PROVE  Disturbed'
  BY <1>5 DEF ReceiveError, Stop, Disturbed, Fault
<1>6. ASSUME NEW o \in outcomes, ReceiveResult(o)
      PROVE  Disturbed'
  BY <1>6 DEF ReceiveResult, Stop, wvars, Disturbed, Fault
<1>7. ASSUME NEW o \in outcomes, Reap(o)
      PROVE  Disturbed'
  BY <1>7 DEF Reap, wvars, Disturbed, Fault
<1>8. CASE UNCHANGED vars
  BY <1>8 DEF vars, Disturbed, Fault
<1> QED
  BY <1>1, <1>2, <1>3, <1>4, <1>5, <1>6, <1>7, <1>8
     DEF Next, Run, Coordinate, Receive, Terminated

(* A step that moves no error keeps it on its way. *)
LEMMA ErrorFrame ==
    ASSUME ErrorInv,
           failed' = failed,
           firstErr # "none" => firstErr' # "none",
           \A o \in outcomes : o.kind = "hard" => o \in outcomes',
           hand' = hand,
           \A w \in Workers : wpc[w] = "sending" <=> wpc'[w] = "sending",
           \A w \in Workers : wpc'[w] = "failed" => wpc[w] = "failed"
    PROVE  ErrorInv'
BY DEF ErrorInv

(* An error moves from its worker to the channel and to firstErr and is    *)
(* never dropped on the way.                                               *)
LEMMA ErrorStep == TypeOK /\ ErrorInv /\ [Next]_vars => ErrorInv'
<1> SUFFICES ASSUME TypeOK, ErrorInv, [Next]_vars PROVE ErrorInv'
  OBVIOUS
<1>1. CASE CtxDone
  BY <1>1, ErrorFrame DEF CtxDone, cvars, wvars
<1>2. ASSUME NEW w \in Workers, WorkerStep(w)
      PROVE  ErrorInv'
  <2>1. CASE Take(w)
    BY <2>1 DEF Take, cvars, ErrorInv, TypeOK
  <2>2. CASE Drop(w) \/ StartRun(w) \/ CancelAfterError(w) \/ ExitWorker(w)
    BY <2>2, ErrorFrame DEF Drop, StartRun, CancelAfterError, ExitWorker, cvars,
                            TypeOK
  <2>3. CASE SendOutcome(w)
    BY <2>3 DEF SendOutcome, cvars, ErrorInv, TypeOK
  <2> QED
    BY <1>2, <2>1, <2>2, <2>3 DEF WorkerStep
<1>3. ASSUME NEW w \in Workers, NEW k \in RunKind, FinishRun(w, k)
      PROVE  ErrorInv'
  BY <1>3 DEF FinishRun, cvars, ErrorInv, TypeOK, Outcome
<1>4. CASE \/ LoopHead \/ Fill \/ FillReadError \/ FillDone \/ SeeCancelled
           \/ CommitResult \/ CommitError \/ CommitDone \/ CloseJobs \/ CancelRest
           \/ WaitWorkers \/ Return \/ FinishUnlessComplete \/ ReadTail
           \/ TailIsEOF \/ TailError
  <2>1. CASE LoopHead
    BY <2>1, ErrorFrame DEF LoopHead, wvars
  <2>2. CASE Fill
    BY <2>2, ErrorFrame DEF Fill, wvars
  <2>3. CASE FillReadError
    BY <2>3, ErrorFrame DEF FillReadError, Stop, wvars
  <2>4. CASE FillDone
    BY <2>4, ErrorFrame DEF FillDone, wvars
  <2>5. CASE SeeCancelled
    BY <2>5, ErrorFrame DEF SeeCancelled, wvars
  <2>6. CASE CommitResult
    BY <2>6, ErrorFrame DEF CommitResult, wvars
  <2>7. CASE CommitError
    BY <2>7, ErrorFrame DEF CommitError, Stop, wvars
  <2>8. CASE CommitDone
    BY <2>8, ErrorFrame DEF CommitDone, wvars
  <2>9. CASE CloseJobs
    BY <2>9, ErrorFrame DEF CloseJobs, wvars
  <2>10. CASE CancelRest
    BY <2>10, ErrorFrame DEF CancelRest, wvars
  <2>11. CASE WaitWorkers
    BY <2>11, ErrorFrame DEF WaitWorkers, wvars
  <2>12. CASE Return
    BY <2>12, ErrorFrame DEF Return, wvars
  <2>13. CASE FinishUnlessComplete
    BY <2>13, ErrorFrame DEF FinishUnlessComplete, wvars
  <2>14. CASE ReadTail
    BY <2>14, ErrorFrame DEF ReadTail, wvars
  <2>15. CASE TailIsEOF
    BY <2>15, ErrorFrame DEF TailIsEOF, wvars
  <2>16. CASE TailError
    BY <2>16, ErrorFrame DEF TailError, wvars
  <2> QED
    BY <1>4, <2>1, <2>2, <2>3, <2>4, <2>5, <2>6, <2>7, <2>8, <2>9, <2>10, <2>11,
       <2>12, <2>13, <2>14, <2>15, <2>16
<1>5. ASSUME NEW o \in outcomes, ReceiveError(o)
      PROVE  ErrorInv'
  BY <1>5 DEF ReceiveError, Stop, wvars, ErrorInv
<1>6. ASSUME NEW o \in outcomes, ReceiveResult(o)
      PROVE  ErrorInv'
  BY <1>6, ErrorFrame DEF ReceiveResult, Stop, wvars
<1>7. ASSUME NEW o \in outcomes, Reap(o)
      PROVE  ErrorInv'
  BY <1>7 DEF Reap, wvars, ErrorInv
<1>8. CASE UNCHANGED vars
  BY <1>8, ErrorFrame DEF vars
<1> QED
  BY <1>1, <1>2, <1>3, <1>4, <1>5, <1>6, <1>7, <1>8
     DEF Next, Run, Coordinate, Receive, Terminated

(* The coordinator leaves its loop early, and cancels early, only for a    *)
(* reason.                                                                 *)
LEMMA ControlStep ==
    TypeOK /\ TypeOK' /\ ErrorInv /\ ControlInv /\ [Next]_vars => ControlInv'
<1> SUFFICES ASSUME TypeOK, TypeOK', ErrorInv, ControlInv, [Next]_vars
             PROVE  ControlInv'
  OBVIOUS
<1> USE ConstantsAssumption DEF ControlInv, Finished
<1>0. Disturbed => Disturbed'
  BY DisturbedStays
<1>1. CASE CtxDone
  BY <1>0, <1>1 DEF CtxDone, cvars, wvars
<1>2. ASSUME NEW w \in Workers, WorkerStep(w)
      PROVE  ControlInv'
  <2>1. CASE Take(w)
    BY <1>0, <2>1 DEF Take, cvars, TypeOK
  <2>2. CASE Drop(w)
    BY <1>0, <2>2 DEF Drop, cvars, TypeOK
  <2>3. CASE StartRun(w)
    BY <1>0, <2>3 DEF StartRun, cvars, TypeOK
  <2>4. CASE CancelAfterError(w)
    <3>1. Disturbed
      BY <2>4 DEF CancelAfterError, ErrorInv, Disturbed, Fault
    <3> QED
      BY <1>0, <2>4, <3>1 DEF CancelAfterError, cvars, TypeOK
  <2>5. CASE ExitWorker(w)
    BY <1>0, <2>5 DEF ExitWorker, cvars, TypeOK
  <2>6. CASE SendOutcome(w)
    BY <1>0, <2>6 DEF SendOutcome, cvars, TypeOK
  <2> QED
    BY <1>2, <2>1, <2>2, <2>3, <2>4, <2>5, <2>6 DEF WorkerStep
<1>3. ASSUME NEW w \in Workers, NEW k \in RunKind, FinishRun(w, k)
      PROVE  ControlInv'
  BY <1>0, <1>3 DEF FinishRun, cvars, TypeOK
<1>4. CASE \/ LoopHead \/ Fill \/ FillReadError \/ FillDone \/ SeeCancelled
           \/ CommitResult \/ CommitError \/ CommitDone \/ CloseJobs \/ CancelRest
           \/ WaitWorkers \/ Return \/ FinishUnlessComplete \/ ReadTail
           \/ TailIsEOF \/ TailError
  <2>1. CASE LoopHead
    BY <1>0, <2>1 DEF LoopHead, wvars, TypeOK
  <2>2. CASE Fill
    BY <1>0, <2>2 DEF Fill, wvars, TypeOK
  <2>3. CASE FillReadError
    <3>1. Disturbed'
      BY <2>3 DEF FillReadError, Stop, Disturbed, Fault
    <3> QED
      BY <2>3, <3>1 DEF FillReadError, Stop, wvars
  <2>4. CASE FillDone
    <3>1. queued = committed => Disturbed
      BY <2>4, WindowFacts DEF FillDone, MayFill, InnerErr, Disturbed, Fault, TypeOK
    <3> QED
      BY <1>0, <2>4, <3>1 DEF FillDone, wvars
  <2>5. CASE SeeCancelled
    <3>1. Disturbed
      BY <2>5 DEF SeeCancelled, InnerErr, Disturbed, Fault, TypeOK
    <3> QED
      BY <1>0, <2>5, <3>1 DEF SeeCancelled, wvars
  <2>6. CASE CommitResult
    BY <1>0, <2>6 DEF CommitResult, wvars, TypeOK
  <2>7. CASE CommitError
    <3>1. Disturbed'
      BY <2>7 DEF CommitError, Stop, Disturbed, Fault
    <3> QED
      BY <2>7, <3>1 DEF CommitError, Stop, wvars
  <2>8. CASE CommitDone
    BY <1>0, <2>8 DEF CommitDone, wvars, TypeOK
  <2>9. CASE CloseJobs
    BY <1>0, <2>9 DEF CloseJobs, wvars, TypeOK
  <2>10. CASE CancelRest
    BY <1>0, <2>10 DEF CancelRest, wvars, TypeOK
  <2>11. CASE WaitWorkers
    BY <1>0, <2>11 DEF WaitWorkers, wvars, TypeOK
  <2>12. CASE Return
    BY <1>0, <2>12 DEF Return, wvars, TypeOK
  <2>13. CASE FinishUnlessComplete
    BY <1>0, <2>13 DEF FinishUnlessComplete, wvars, TypeOK
  <2>14. CASE ReadTail
    BY <1>0, <2>14 DEF ReadTail, wvars, TypeOK
  <2>15. CASE TailIsEOF
    BY <1>0, <2>15 DEF TailIsEOF, wvars, TypeOK
  <2>16. CASE TailError
    <3>1. Disturbed'
      BY <2>16 DEF TailError, Stop, Disturbed, Fault
    <3> QED
      BY <2>16, <3>1 DEF TailError, wvars
  <2> QED
    BY <1>4, <2>1, <2>2, <2>3, <2>4, <2>5, <2>6, <2>7, <2>8, <2>9, <2>10, <2>11,
       <2>12, <2>13, <2>14, <2>15, <2>16
<1>5. ASSUME NEW o \in outcomes, ReceiveError(o)
      PROVE  ControlInv'
  <2>1. Disturbed'
    BY <1>5 DEF ReceiveError, Stop, Disturbed, Fault
  <2> QED
    BY <1>5, <2>1 DEF ReceiveError, wvars
<1>6. ASSUME NEW o \in outcomes, ReceiveResult(o)
      PROVE  ControlInv'
  <2>1. CASE OutOfWindow(o)
    <3>1. Disturbed'
      BY <1>6, <2>1 DEF ReceiveResult, Stop, Disturbed, Fault
    <3> QED
      BY <1>6, <2>1, <3>1 DEF ReceiveResult, wvars
  <2>2. CASE ~OutOfWindow(o)
    BY <1>0, <1>6, <2>2 DEF ReceiveResult, wvars
  <2> QED
    BY <2>1, <2>2
<1>7. ASSUME NEW o \in outcomes, Reap(o)
      PROVE  ControlInv'
  BY <1>0, <1>7 DEF Reap, wvars
<1>8. CASE UNCHANGED vars
  BY <1>0, <1>8 DEF vars
<1> QED
  BY <1>1, <1>2, <1>3, <1>4, <1>5, <1>6, <1>7, <1>8
     DEF Next, Run, Coordinate, Receive, Terminated

(* A step that brings no new interrupted result into the run. *)
LEMMA InterruptedFrame ==
    ASSUME InterruptedInv,
           Disturbed => Disturbed',
           outcomes' \in SUBSET outcomes,
           \A w \in Workers : wpc'[w] = "sending" =>
                             wpc[w] = "sending" /\ hand'[w] = hand[w],
           \A s \in Slot : pending'[s].kind = "interrupted" =>
                             \/ pending[s].kind = "interrupted"
                             \/ \E o \in outcomes : pending'[s] = o,
           persisted' = persisted
    PROVE  InterruptedInv'
BY DEF InterruptedInv

(* A result cut short exists only after something disturbed the run. *)
LEMMA InterruptedStep ==
    TypeOK /\ PlaceInv /\ ControlInv /\ InterruptedInv /\ [Next]_vars
      => InterruptedInv'
<1> SUFFICES ASSUME TypeOK, PlaceInv, ControlInv, InterruptedInv, [Next]_vars
             PROVE  InterruptedInv'
  OBVIOUS
<1>0. Disturbed => Disturbed'
  BY DisturbedStays
<1>1. CASE CtxDone
  BY <1>0, <1>1, InterruptedFrame DEF CtxDone, cvars, wvars
<1>2. ASSUME NEW w \in Workers, WorkerStep(w)
      PROVE  InterruptedInv'
  <2>1. CASE Take(w)
    BY <1>0, <2>1, InterruptedFrame DEF Take, cvars, TypeOK
  <2>2. CASE Drop(w) \/ StartRun(w) \/ CancelAfterError(w) \/ ExitWorker(w)
    BY <1>0, <2>2, InterruptedFrame DEF Drop, StartRun, CancelAfterError,
                            ExitWorker, cvars, TypeOK
  <2>3. CASE SendOutcome(w)
    BY <1>0, <2>3 DEF SendOutcome, cvars, InterruptedInv, TypeOK
  <2> QED
    BY <1>2, <2>1, <2>2, <2>3 DEF WorkerStep
<1>3. ASSUME NEW w \in Workers, NEW k \in RunKind, FinishRun(w, k)
      PROVE  InterruptedInv'
  <2>1. k = "interrupted" => Disturbed
    <3>1. Holds(w) /\ hand[w].index \in Nat /\ hand[w].index < Count
      BY <1>3, ConstantsAssumption DEF FinishRun, Holds, TypeOK, Outcome, Index
    <3>2. committed < Count
      BY <3>1, ConstantsAssumption DEF PlaceInv, HandInv, InFlight, TypeOK
    <3> QED
      BY <1>3, <3>2, ConstantsAssumption DEF FinishRun, InnerErr, ControlInv,
                  Disturbed, Fault, TypeOK
  <2>2. \A v \in Workers : wpc'[v] = "sending" =>
                             (wpc[v] = "sending" /\ hand'[v] = hand[v])
                             \/ hand'[v].kind = k
    BY <1>3 DEF FinishRun, TypeOK, Outcome
  <2>3. UNCHANGED <<outcomes, pending, persisted>>
    BY <1>3 DEF FinishRun, cvars
  <2> QED
    BY <1>0, <2>1, <2>2, <2>3 DEF InterruptedInv
<1>4. CASE \/ LoopHead \/ Fill \/ FillReadError \/ FillDone \/ SeeCancelled
           \/ CommitResult \/ CommitError \/ CommitDone \/ CloseJobs \/ CancelRest
           \/ WaitWorkers \/ Return \/ FinishUnlessComplete \/ ReadTail
           \/ TailIsEOF \/ TailError
  <2>1. CASE LoopHead
    BY <1>0, <2>1, InterruptedFrame DEF LoopHead, wvars
  <2>2. CASE Fill
    BY <1>0, <2>2, InterruptedFrame DEF Fill, wvars
  <2>3. CASE FillReadError
    BY <1>0, <2>3, InterruptedFrame DEF FillReadError, Stop, wvars
  <2>4. CASE FillDone
    BY <1>0, <2>4, InterruptedFrame DEF FillDone, wvars
  <2>5. CASE SeeCancelled
    BY <1>0, <2>5, InterruptedFrame DEF SeeCancelled, wvars
  <2>6. CASE CommitResult
    <3>1. committed % Window \in Slot
      BY SlotOf DEF TypeOK
    <3>2. \A s \in Slot : pending'[s].kind = "interrupted" =>
                              pending[s].kind = "interrupted"
      BY <2>6, <3>1 DEF CommitResult, ReleaseSlot, Absent, TypeOK
    <3>3. (\E j \in 1..Len(persisted') : persisted'[j].kind # "verdict") =>
              \/ \E j \in 1..Len(persisted) : persisted[j].kind # "verdict"
              \/ \E s \in Slot : pending[s].kind = "interrupted"
      <4> SUFFICES ASSUME NEW j \in 1..Len(persisted'), persisted'[j].kind # "verdict"
                   PROVE  \/ \E i \in 1..Len(persisted) : persisted[i].kind # "verdict"
                          \/ \E s \in Slot : pending[s].kind = "interrupted"
        OBVIOUS
      <4>1. Len(persisted) \in Nat /\ Len(persisted') = Len(persisted) + 1
        BY <2>6 DEF CommitResult, TypeOK
      <4>2. CASE j = Len(persisted) + 1
        <5>1. persisted'[j] = Head0 /\ Head0 \in Outcome /\ Present(Head0)
          BY <2>6, <3>1, <4>2 DEF CommitResult, Head0, TypeOK
        <5>2. Head0.kind # "hard"
          BY <3>1, <5>1 DEF PlaceInv, PendingInv, Head0
        <5>3. Head0.kind = "interrupted"
          BY <5>1, <5>2 DEF Present, Outcome, RunKind
        <5> QED
          BY <5>3, <3>1 DEF Head0
      <4>3. CASE j \in 1..Len(persisted)
        <5>1. persisted'[j] = persisted[j]
          BY <2>6, <4>3 DEF CommitResult, TypeOK
        <5> QED
          BY <5>1, <4>3
      <4> QED
        BY <4>1, <4>2, <4>3
    <3>4. UNCHANGED <<wpc, hand, outcomes>>
      BY <2>6 DEF CommitResult, wvars
    <3> QED
      BY <1>0, <3>2, <3>3, <3>4 DEF InterruptedInv
  <2>7. CASE CommitError
    <3>1. Disturbed'
      BY <2>7 DEF CommitError, Stop, Disturbed, Fault
    <3> QED
      BY <3>1 DEF InterruptedInv
  <2>8. CASE CommitDone
    BY <1>0, <2>8, InterruptedFrame DEF CommitDone, wvars
  <2>9. CASE CloseJobs
    BY <1>0, <2>9, InterruptedFrame DEF CloseJobs, wvars
  <2>10. CASE CancelRest
    BY <1>0, <2>10, InterruptedFrame DEF CancelRest, wvars
  <2>11. CASE WaitWorkers
    BY <1>0, <2>11, InterruptedFrame DEF WaitWorkers, wvars
  <2>12. CASE Return
    BY <1>0, <2>12, InterruptedFrame DEF Return, wvars
  <2>13. CASE FinishUnlessComplete
    BY <1>0, <2>13, InterruptedFrame DEF FinishUnlessComplete, wvars
  <2>14. CASE ReadTail
    BY <1>0, <2>14, InterruptedFrame DEF ReadTail, wvars
  <2>15. CASE TailIsEOF
    BY <1>0, <2>15, InterruptedFrame DEF TailIsEOF, wvars
  <2>16. CASE TailError
    BY <1>0, <2>16, InterruptedFrame DEF TailError, wvars
  <2> QED
    BY <1>4, <2>1, <2>2, <2>3, <2>4, <2>5, <2>6, <2>7, <2>8, <2>9, <2>10, <2>11,
       <2>12, <2>13, <2>14, <2>15, <2>16
<1>5. ASSUME NEW o \in outcomes, ReceiveError(o)
      PROVE  InterruptedInv'
  BY <1>0, <1>5, InterruptedFrame DEF ReceiveError, wvars
<1>6. ASSUME NEW o \in outcomes, ReceiveResult(o)
      PROVE  InterruptedInv'
  <2>1. \A s \in Slot : pending'[s] = pending[s] \/ pending'[s] = o
    BY <1>6 DEF ReceiveResult, TypeOK
  <2>2. outcomes' \in SUBSET outcomes /\ UNCHANGED <<wpc, hand, persisted>>
    BY <1>6 DEF ReceiveResult, wvars
  <2> QED
    BY <1>0, <2>1, <2>2, InterruptedFrame
<1>7. ASSUME NEW o \in outcomes, Reap(o)
      PROVE  InterruptedInv'
  BY <1>0, <1>7, InterruptedFrame DEF Reap, wvars
<1>8. CASE UNCHANGED vars
  BY <1>0, <1>8, InterruptedFrame DEF vars
<1> QED
  BY <1>1, <1>2, <1>3, <1>4, <1>5, <1>6, <1>7, <1>8
     DEF Next, Run, Coordinate, Receive, Terminated

(* The two returned values agree with what happened to the run. *)
LEMMA OutcomeStep ==
    TypeOK /\ FateInv /\ [Next]_vars => OutcomeInv'
<1> SUFFICES ASSUME TypeOK, FateInv, [Next]_vars
             PROVE  OutcomeInv'
  OBVIOUS
<1> USE DEF OutcomeInv, Finished
<1>0. (Disturbed => Disturbed') /\ OutcomeInv
  BY DisturbedStays DEF FateInv
<1>1. CASE CtxDone
  BY <1>0, <1>1 DEF CtxDone, cvars, wvars
<1>2. ASSUME NEW w \in Workers, WorkerStep(w)
      PROVE  OutcomeInv'
  BY <1>0, <1>2 DEF WorkerStep, Take, Drop, StartRun, SendOutcome,
                    CancelAfterError, ExitWorker, cvars
<1>3. ASSUME NEW w \in Workers, NEW k \in RunKind, FinishRun(w, k)
      PROVE  OutcomeInv'
  <2>1. pc \notin Finished
    BY <1>3 DEF FinishRun, FateInv, ControlInv
  <2>2. UNCHANGED <<cvars, ctxDone>>
    BY <1>3 DEF FinishRun
  <2> QED
    BY <1>0, <2>1, <2>2 DEF cvars
<1>4. CASE \/ LoopHead \/ Fill \/ FillReadError \/ FillDone \/ SeeCancelled
           \/ CommitResult \/ CommitError \/ CommitDone \/ CloseJobs \/ CancelRest
           \/ WaitWorkers \/ Return \/ FinishUnlessComplete \/ ReadTail
           \/ TailIsEOF \/ TailError
  <2>1. CASE LoopHead
    BY <1>0, <2>1 DEF LoopHead, wvars
  <2>2. CASE Fill
    BY <1>0, <2>2 DEF Fill, wvars
  <2>3. CASE FillReadError
    BY <1>0, <2>3 DEF FillReadError, Stop, wvars
  <2>4. CASE FillDone
    BY <1>0, <2>4 DEF FillDone, wvars
  <2>5. CASE SeeCancelled
    BY <1>0, <2>5 DEF SeeCancelled, wvars
  <2>6. CASE CommitResult
    BY <1>0, <2>6 DEF CommitResult, wvars
  <2>7. CASE CommitError
    BY <1>0, <2>7 DEF CommitError, Stop, wvars
  <2>8. CASE CommitDone
    BY <1>0, <2>8 DEF CommitDone, wvars
  <2>9. CASE CloseJobs
    BY <1>0, <2>9 DEF CloseJobs, wvars
  <2>10. CASE CancelRest
    BY <1>0, <2>10 DEF CancelRest, wvars
  <2>11. CASE WaitWorkers
    BY <1>0, <2>11 DEF WaitWorkers, wvars
  <2>12. CASE Return
    <3>1. complete' => failed = {} /\ ~Disturbed
      BY <2>12 DEF Return, FateInv, ErrorInv, ControlInv, Disturbed, Fault
    <3>2. complete' => \A j \in 1..Len(persisted) : persisted[j].kind = "verdict"
      BY <3>1 DEF FateInv, InterruptedInv
    <3>3. ~complete' => Disturbed
      BY <2>12 DEF Return, FateInv, ControlInv, Disturbed, Fault
    <3> QED
      BY <1>0, <2>12, <3>1, <3>2, <3>3 DEF Return, wvars
  <2>13. CASE FinishUnlessComplete
    <3>1. firstErr = "none" => failed = {}
      BY <2>13 DEF FinishUnlessComplete, FateInv, ErrorInv, ControlInv
    <3>2. firstErr = "none" => ctxDone
      BY <1>0, <2>13, <3>1 DEF FinishUnlessComplete, Disturbed, Fault
    <3> QED
      BY <1>0, <2>13, <3>1, <3>2 DEF FinishUnlessComplete, wvars
  <2>14. CASE ReadTail
    BY <1>0, <2>14 DEF ReadTail, wvars
  <2>15. CASE TailIsEOF
    BY <1>0, <2>15 DEF TailIsEOF, wvars
  <2>16. CASE TailError
    <3>1. Disturbed'
      BY <2>16 DEF TailError, Disturbed, Fault
    <3> QED
      BY <1>0, <2>16, <3>1 DEF TailError, wvars
  <2> QED
    BY <1>4, <2>1, <2>2, <2>3, <2>4, <2>5, <2>6, <2>7, <2>8, <2>9, <2>10, <2>11,
       <2>12, <2>13, <2>14, <2>15, <2>16
<1>5. ASSUME NEW o \in outcomes, ReceiveError(o)
      PROVE  OutcomeInv'
  BY <1>0, <1>5 DEF ReceiveError, Stop, wvars
<1>6. ASSUME NEW o \in outcomes, ReceiveResult(o)
      PROVE  OutcomeInv'
  BY <1>0, <1>6 DEF ReceiveResult, Stop, wvars
<1>7. ASSUME NEW o \in outcomes, Reap(o)
      PROVE  OutcomeInv'
  BY <1>0, <1>7 DEF Reap, wvars
<1>8. CASE UNCHANGED vars
  BY <1>0, <1>8 DEF vars
<1> QED
  BY <1>1, <1>2, <1>3, <1>4, <1>5, <1>6, <1>7, <1>8
     DEF Next, Run, Coordinate, Receive, Terminated

(* Nothing has gone wrong before the first step. *)
LEMMA FateInit == Init => FateInv
<1> SUFFICES ASSUME Init PROVE FateInv
  OBVIOUS
<1>1. InterruptedInv
  BY DEF Init, InterruptedInv, Absent
<1> QED
  BY <1>1, ConstantsAssumption
     DEF Init, FateInv, ErrorInv, ControlInv, OutcomeInv, Finished

-----------------------------------------------------------------------------
(* The theorems. *)

(* The inductive invariant holds in every reachable state. *)
THEOREM Invariance == Spec => []IInv
<1>1. Init => IInv
  BY TypeInit, PlaceInit, FateInit DEF IInv
<1>2. IInv /\ [Next]_vars => IInv'
  BY TypeStep, PlaceStep, ErrorStep, ControlStep, InterruptedStep, OutcomeStep
     DEF IInv, FateInv
<1> QED
  BY <1>1, <1>2, PTL DEF Spec

(* The variables stay in their types (ordered_window.go:16-151). *)
THEOREM TypeCorrect == Spec => []TypeOK
<1>1. IInv => TypeOK
  BY DEF IInv
<1> QED
  BY <1>1, Invariance, PTL

(* Results are persisted in discovery order without gaps, whatever order   *)
(* the workers finish in (ordered_window.go:11-15).                        *)
THEOREM OrderedPrefixHolds == Spec => []OrderedPrefix
<1>1. IInv => OrderedPrefix
  BY DEF IInv, PlaceInv
<1> QED
  BY <1>1, Invariance, PTL

(* The branch for a duplicate or out-of-window result is dead code         *)
(* (ordered_window.go:110-115).                                            *)
THEOREM RingErrorUnreachable == Spec => []NoSpuriousRingError
<1>1. IInv => NoSpuriousRingError
  BY DEF IInv, PlaceInv
<1> QED
  BY <1>1, Invariance, PTL

(* A worker's error is what the run returns (ordered_window.go:135-147).   *)
THEOREM ErrorNotLostHolds == Spec => []ErrorNotLost
<1>1. IInv => ErrorNotLost
  BY DEF IInv, FateInv, OutcomeInv, ErrorNotLost, TypeOK
<1> QED
  BY <1>1, Invariance, PTL

(* Partial means cancelled, complete means every mutant's own result       *)
(* (ordered_window.go:148, stream.go:107-124).                             *)
THEOREM EndsHonestlyHolds == Spec => []EndsHonestly
<1>1. IInv => EndsHonestly
  BY DEF IInv, FateInv, OutcomeInv, PlaceInv, OrderedPrefix, EndsHonestly
<1> QED
  BY <1>1, Invariance, PTL

(* A worker about to report finds room in the outcomes channel: its own    *)
(* job and the jobs in the channel are distinct jobs of the window.        *)
LEMMA RoomForOutcome ==
    ASSUME TypeOK, PlaceInv, NEW w \in Workers, wpc[w] = "sending"
    PROVE  Cardinality(outcomes) < Window
<1> DEFINE mine == hand[w].index
           others == (committed .. taken - 1) \ {mine}
           place == [o \in outcomes |-> o.index]
<1>1. Holds(w) /\ mine \in committed .. taken - 1
  BY DEF Holds, PlaceInv, HandInv, InFlight, TypeOK, Outcome, Index
<1>2. /\ IsFiniteSet(committed .. taken - 1)
      /\ Cardinality(committed .. taken - 1) = taken - committed
  <2> DEFINE last == taken - 1
  <2>1. committed \in Int /\ last \in Int /\ committed <= last
        /\ last - committed + 1 = taken - committed
    BY <1>1 DEF TypeOK
  <2> HIDE DEF last
  <2>2. /\ IsFiniteSet(committed .. last)
        /\ Cardinality(committed .. last) = last - committed + 1
    BY <2>1, FS_Interval
  <2> QED
    BY <2>1, <2>2 DEF last
<1>3. IsFiniteSet(others) /\ Cardinality(others) = taken - committed - 1
  BY <1>1, <1>2, FS_RemoveElement
<1>4. place \in Injection(outcomes, others)
  <2>1. \A o \in outcomes : o.index \in others
    BY <1>1 DEF PlaceInv, OutcomesInv, InFlight, TypeOK, Outcome, Index
  <2>2. \A o, p \in outcomes : o.index = p.index => o = p
    BY DEF PlaceInv, OutcomesInv
  <2> HIDE DEF others
  <2>3. place \in [outcomes -> others]
    BY <2>1
  <2>4. \A o, p \in outcomes : place[o] = place[p] => o = p
    BY <2>2
  <2>5. DOMAIN place = outcomes
    OBVIOUS
  <2> HIDE DEF place
  <2> QED
    BY <2>3, <2>4, <2>5 DEF Injection, IsInjective
<1>5. IsFiniteSet(outcomes) /\ Cardinality(outcomes) <= Cardinality(others)
  <2> HIDE DEF place, others
  <2> QED
    BY <1>3, <1>4, FS_Injection
<1>6. Cardinality(outcomes) \in Nat
  BY <1>5, FS_CardinalityType
<1>7. taken - committed <= Window
  BY WindowFacts DEF PlaceInv, Cursors, TypeOK
<1> QED
  BY <1>3, <1>5, <1>6, <1>7, WindowFacts DEF TypeOK

(* No worker ever blocks on the outcomes channel (ordered_window.go:71-73). *)
THEOREM SendNeverBlocksHolds == Spec => []SendNeverBlocks
<1>1. IInv => SendNeverBlocks
  BY RoomForOutcome DEF IInv, SendNeverBlocks
<1> QED
  BY <1>1, Invariance, PTL

-----------------------------------------------------------------------------
(* Implementation of the result log. *)

(* The executor starts as an empty result log. *)
LEMMA RefinesInit == Init => RL!Init
BY DEF Init, RL!Init, Fault

(* A step in which nothing the caller can see happens. *)
LEMMA RefinesStutter ==
    ASSUME UNCHANGED <<persisted, ctxDone, firstErr, failed, outcome>>
    PROVE  UNCHANGED RL!vars
BY DEF RL!vars, Fault

(* A step in which an error occurs or is passed on. *)
LEMMA RefinesFail ==
    ASSUME UNCHANGED <<persisted, ctxDone, outcome>>, outcome = "running", Fault'
    PROVE  RL!Next
BY DEF RL!Next, RL!Fail, Fault

(* Every step is a step of the result log or invisible in it. *)
LEMMA RefinesStep == IInv /\ [Next]_vars => [RL!Next]_(RL!vars)
<1> SUFFICES ASSUME IInv, [Next]_vars PROVE RL!Next \/ UNCHANGED RL!vars
  OBVIOUS
<1>0. TypeOK /\ (outcome = "running" <=> pc # "done")
  BY DEF IInv, FateInv, OutcomeInv
<1>1. CASE CtxDone
  <2>1. ctxDone' /\ outcome = "running"
        /\ UNCHANGED <<persisted, firstErr, failed, outcome>>
    BY <1>0, <1>1 DEF CtxDone, cvars, wvars
  <2> QED
    BY <2>1 DEF RL!Next, RL!Cancel, Fault
<1>2. ASSUME NEW w \in Workers, WorkerStep(w)
      PROVE  UNCHANGED RL!vars
  BY <1>2, RefinesStutter DEF WorkerStep, Take, Drop, StartRun, SendOutcome,
                    CancelAfterError, ExitWorker, cvars
<1>3. ASSUME NEW w \in Workers, NEW k \in RunKind, FinishRun(w, k)
      PROVE  RL!Next \/ UNCHANGED RL!vars
  <2>1. UNCHANGED <<persisted, ctxDone, firstErr, outcome>>
    BY <1>3 DEF FinishRun, cvars
  <2>2. CASE k = "hard"
    <3>1. pc # "done"
      BY <1>3 DEF FinishRun, IInv, FateInv, ControlInv, Finished
    <3>2. Fault'
      BY <1>3, <2>2 DEF FinishRun, Fault
    <3> QED
      BY <1>0, <2>1, <3>1, <3>2, RefinesFail
  <2>3. CASE k # "hard"
    BY <1>3, <2>1, <2>3, RefinesStutter DEF FinishRun
  <2> QED
    BY <2>2, <2>3
<1>4. CASE \/ LoopHead \/ Fill \/ FillReadError \/ FillDone \/ SeeCancelled
           \/ CommitResult \/ CommitError \/ CommitDone \/ CloseJobs \/ CancelRest
           \/ WaitWorkers \/ Return \/ FinishUnlessComplete \/ ReadTail
           \/ TailIsEOF \/ TailError
  <2>1. CASE LoopHead
    BY <2>1, RefinesStutter DEF LoopHead, wvars
  <2>2. CASE Fill
    BY <2>2, RefinesStutter DEF Fill, wvars
  <2>3. CASE FillReadError
    <3>1. Fault' /\ pc # "done" /\ UNCHANGED <<persisted, ctxDone, outcome>>
      BY <2>3 DEF FillReadError, Stop, Fault
    <3> QED
      BY <1>0, <3>1, RefinesFail
  <2>4. CASE FillDone
    BY <2>4, RefinesStutter DEF FillDone, wvars
  <2>5. CASE SeeCancelled
    BY <2>5, RefinesStutter DEF SeeCancelled, wvars
  <2>6. CASE CommitResult
    <3>1. /\ persisted' = Append(persisted, Head0)
          /\ UNCHANGED <<ctxDone, firstErr, failed, outcome>>
          /\ outcome = "running"
      BY <1>0, <2>6 DEF CommitResult, wvars
    <3>2. committed % Window \in Slot /\ committed \in Nat
      BY <1>0, SlotOf DEF TypeOK
    <3>3. /\ Head0 \in Outcome
          /\ Head0.kind \in {"verdict", "interrupted"}
          /\ Head0.kind = "interrupted" => ctxDone \/ Fault
      <4>1. Head0 \in Outcome /\ Present(Head0) /\ Head0.kind # "hard"
        BY <1>0, <2>6, <3>2 DEF CommitResult, Head0, TypeOK, IInv, PlaceInv,
                            PendingInv
      <4>2. Head0.kind = "interrupted" => Disturbed
        BY <3>2 DEF Head0, IInv, FateInv, InterruptedInv
      <4> QED
        BY <4>1, <4>2 DEF Present, Outcome, RunKind, Disturbed
    <3>4. OrderedPrefix /\ OrderedPrefix' /\ TypeOK'
      BY TypeStep, PlaceStep DEF IInv, PlaceInv
    <3>5. /\ Len(persisted) = committed
          /\ Len(persisted) < Count
      BY <1>0, <2>6, <3>4, ConstantsAssumption DEF OrderedPrefix, TypeOK,
                            CommitResult
    <3>6. Head0.index = Len(persisted)
      <4>1. Len(persisted') = Len(persisted) + 1
            /\ persisted'[Len(persisted) + 1] = Head0
        BY <1>0, <3>1, <3>3 DEF TypeOK
      <4> QED
        BY <3>2, <3>4, <3>5, <4>1 DEF OrderedPrefix
    <3>7. Head0 = [index |-> Len(persisted), kind |-> Head0.kind]
      BY <3>3, <3>6 DEF Outcome
    <3>8. RL!Commit
      BY <3>1, <3>3, <3>5, <3>7 DEF RL!Commit, RL!ResultKind, Fault
    <3> QED
      BY <3>8 DEF RL!Next
  <2>7. CASE CommitError
    <3>1. Fault' /\ pc # "done" /\ UNCHANGED <<persisted, ctxDone, outcome>>
      BY <2>7 DEF CommitError, Stop, Fault
    <3> QED
      BY <1>0, <3>1, RefinesFail
  <2>8. CASE CommitDone
    BY <2>8, RefinesStutter DEF CommitDone, wvars
  <2>9. CASE CloseJobs
    BY <2>9, RefinesStutter DEF CloseJobs, wvars
  <2>10. CASE CancelRest
    BY <2>10, RefinesStutter DEF CancelRest, wvars
  <2>11. CASE WaitWorkers
    BY <2>11, RefinesStutter DEF WaitWorkers, wvars
  <2>12. CASE Return
    BY <2>12, RefinesStutter DEF Return, wvars
  <2>13. CASE FinishUnlessComplete
    <3>1. UNCHANGED <<persisted, ctxDone, firstErr, failed>> /\ outcome = "running"
      BY <1>0, <2>13 DEF FinishUnlessComplete, wvars
    <3>2. OutcomeInv'
      BY OutcomeStep DEF IInv
    <3>3. CASE firstErr # "none"
      BY <2>13, <3>1, <3>3 DEF FinishUnlessComplete, RL!Next, RL!Finish,
                            RL!FinishError, Fault
    <3>4. CASE firstErr = "none"
      <4>1. ctxDone /\ ~Fault /\ outcome' = "partial"
        BY <2>13, <3>1, <3>2, <3>4 DEF FinishUnlessComplete, OutcomeInv, Fault
      <4> QED
        BY <3>1, <4>1 DEF RL!Next, RL!Finish, RL!FinishPartial, Fault
    <3> QED
      BY <3>3, <3>4
  <2>14. CASE ReadTail
    BY <2>14, RefinesStutter DEF ReadTail, wvars
  <2>15. CASE TailIsEOF
    <3>1. UNCHANGED <<persisted, ctxDone, firstErr, failed>> /\ outcome = "running"
          /\ outcome' = "complete"
      BY <1>0, <2>15 DEF TailIsEOF, wvars
    <3>2. /\ ~Fault
          /\ Len(persisted) = Count
          /\ \A j \in 1..Len(persisted) : persisted[j].kind = "verdict"
      BY <2>15 DEF TailIsEOF, IInv, FateInv, OutcomeInv, PlaceInv, OrderedPrefix,
                            Fault
    <3> QED
      BY <3>1, <3>2 DEF RL!Next, RL!Finish, RL!FinishComplete, Fault
  <2>16. CASE TailError
    <3>1. Fault' /\ pc # "done" /\ UNCHANGED <<persisted, ctxDone, outcome>>
      BY <2>16 DEF TailError, Stop, Fault
    <3> QED
      BY <1>0, <3>1, RefinesFail
  <2> QED
    BY <1>4, <2>1, <2>2, <2>3, <2>4, <2>5, <2>6, <2>7, <2>8, <2>9, <2>10, <2>11,
       <2>12, <2>13, <2>14, <2>15, <2>16
<1>5. ASSUME NEW o \in outcomes, ReceiveError(o)
      PROVE  RL!Next
  <2>1. Fault' /\ pc # "done" /\ UNCHANGED <<persisted, ctxDone, outcome>>
    BY <1>5 DEF ReceiveError, Stop, Fault
  <2> QED
    BY <1>0, <2>1, RefinesFail
<1>6. ASSUME NEW o \in outcomes, ReceiveResult(o)
      PROVE  RL!Next \/ UNCHANGED RL!vars
  <2>1. pc # "done" /\ UNCHANGED <<persisted, ctxDone, outcome, failed>>
    BY <1>6 DEF ReceiveResult, wvars
  <2>2. Fault' \/ firstErr' = firstErr
    BY <1>6 DEF ReceiveResult, Stop, Fault
  <2> QED
    BY <1>0, <2>1, <2>2, RefinesFail, RefinesStutter
<1>7. ASSUME NEW o \in outcomes, Reap(o)
      PROVE  RL!Next \/ UNCHANGED RL!vars
  <2>1. pc # "done" /\ UNCHANGED <<persisted, ctxDone, outcome, failed>>
    BY <1>7 DEF Reap, wvars
  <2>2. Fault' \/ firstErr' = firstErr
    BY <1>7 DEF Reap, Fault
  <2> QED
    BY <1>0, <2>1, <2>2, RefinesFail, RefinesStutter
<1>8. CASE UNCHANGED vars
  BY <1>8, RefinesStutter DEF vars
<1> QED
  BY <1>1, <1>2, <1>3, <1>4, <1>5, <1>6, <1>7, <1>8
     DEF Next, Run, Coordinate, Receive, Terminated

(* The window, the ring and the channels are invisible: the executor       *)
(* implements the abstract result log (ordered_window.go:11-15, 135-148).  *)
THEOREM Refinement == Spec => ImplementsResultLog
<1>1. Init => RL!Init
  BY RefinesInit
<1>2. IInv /\ [Next]_vars => [RL!Next]_(RL!vars)
  BY RefinesStep
<1> QED
  BY <1>1, <1>2, Invariance, PTL DEF Spec, RL!Spec, ImplementsResultLog

-----------------------------------------------------------------------------
(* Implementation of the experiment. *)

(* Appending a result to the spool adds it to the report and nothing else. *)
LEMMA AppendReports ==
    ASSUME TypeOK, NEW r \in Outcome, persisted' = Append(persisted, r)
    PROVE  Reported' = Reported \cup {r}
<1>1. persisted \in Seq(Outcome)
  BY DEF TypeOK
<1>2. /\ Len(persisted') = Len(persisted) + 1
      /\ persisted'[Len(persisted) + 1] = r
      /\ \A k \in 1..Len(persisted) : persisted'[k] = persisted[k]
      /\ Len(persisted) \in Nat
  BY <1>1
<1>3. 1..Len(persisted') = 1..Len(persisted) \cup {Len(persisted) + 1}
  BY <1>2
<1> QED
  BY <1>2, <1>3 DEF Reported

(* What the result log persists next is a new entry of the report. *)
LEMMA CommitReports ==
    ASSUME TypeOK, TypeOK', OrderedPrefix, RL!Commit
    PROVE  AnyExp!Report
<1>1. PICK k \in RL!ResultKind :
         /\ k = "interrupted" => ctxDone \/ Fault
         /\ persisted' = Append(persisted, [index |-> Len(persisted), kind |-> k])
  BY DEF RL!Commit
<1> DEFINE i == Len(persisted)
           r == [index |-> i, kind |-> k]
<1>2. i \in Nat /\ i < Count /\ i \in Index /\ Count \in Nat
  BY ConstantsAssumption DEF RL!Commit, TypeOK, Index
<1>3. r \in Outcome
  BY <1>2 DEF Outcome, RunKind, RL!ResultKind
<1>4. Reported' = Reported \cup {r}
  BY <1>1, <1>3, AppendReports
<1>5. \A q \in Reported : q.index # i
  BY <1>2 DEF Reported, OrderedPrefix
<1>6. i \in 0..Count - 1 /\ k \in {"verdict", "interrupted"}
  BY <1>2 DEF RL!ResultKind
<1>7. outcome = "running" /\ UNCHANGED <<ctxDone, Fault, outcome>>
  BY DEF RL!Commit
<1> QED
  BY <1>1, <1>4, <1>5, <1>6, <1>7 DEF AnyExp!Report

(* An ordered log of Count verdicts has a verdict for every mutant. *)
LEMMA FullLogReportsAll ==
    ASSUME TypeOK, OrderedPrefix, RL!FinishComplete
    PROVE  \A i \in 0..Count - 1 : [index |-> i, kind |-> "verdict"] \in Reported
<1> SUFFICES ASSUME NEW i \in 0..Count - 1
             PROVE  [index |-> i, kind |-> "verdict"] \in Reported
  OBVIOUS
<1>1. /\ Len(persisted) = Count
      /\ Count \in Nat
      /\ \A k \in 1..Len(persisted) : persisted[k].kind = "verdict"
  BY ConstantsAssumption DEF RL!FinishComplete
<1>2. i + 1 \in 1..Len(persisted) /\ (i + 1) - 1 = i
  BY <1>1
<1>3. persisted[i + 1] \in Outcome
  BY <1>2 DEF TypeOK
<1>4. persisted[i + 1].index = i /\ persisted[i + 1].kind = "verdict"
  BY <1>1, <1>2 DEF OrderedPrefix
<1>5. persisted[i + 1] = [index |-> i, kind |-> "verdict"]
  BY <1>3, <1>4 DEF Outcome
<1> QED
  BY <1>2, <1>5 DEF Reported

(* A step of an ordered result log is a step of the experiment. *)
LEMMA LogStepIsExperimentStep ==
    ASSUME TypeOK, TypeOK', OrderedPrefix, [RL!Next]_(RL!vars)
    PROVE  [AnyExp!Next]_(AnyExp!vars)
<1>1. CASE RL!Commit
  BY <1>1, CommitReports DEF AnyExp!Next
<1>2. CASE RL!Cancel
  BY <1>2 DEF RL!Cancel, AnyExp!Next, AnyExp!Cancel, Reported
<1>3. CASE RL!Fail
  BY <1>3 DEF RL!Fail, AnyExp!Next, AnyExp!Fail, Reported
<1>4. CASE RL!Finish
  <2>1. /\ outcome = "running"
        /\ UNCHANGED <<persisted, ctxDone, Fault>>
        /\ UNCHANGED Reported
    BY <1>4 DEF RL!Finish, Reported
  <2>2. CASE RL!FinishComplete
    BY <2>1, <2>2, FullLogReportsAll
       DEF RL!FinishComplete, AnyExp!Next, AnyExp!Finish
  <2>3. CASE RL!FinishPartial
    BY <2>1, <2>3 DEF RL!FinishPartial, AnyExp!Next, AnyExp!Finish
  <2>4. CASE RL!FinishError
    BY <2>1, <2>4 DEF RL!FinishError, AnyExp!Next, AnyExp!Finish
  <2> QED
    BY <1>4, <2>2, <2>3, <2>4 DEF RL!Finish
<1>5. CASE UNCHANGED RL!vars
  BY <1>5 DEF RL!vars, AnyExp!vars, Reported
<1> QED
  BY <1>1, <1>2, <1>3, <1>4, <1>5 DEF RL!Next

(* The streaming executor is an experiment too: at most one result per     *)
(* mutant, complete only with every mutant's own verdict, partial only     *)
(* after a cancellation and without an error (stream.go:75-124).           *)
THEOREM ExperimentRefinement == Spec => ImplementsAnyExperiment
<1>1. Init => AnyExp!Init
  BY DEF Init, AnyExp!Init, Fault, Reported
<1>2. IInv /\ IInv' /\ [Next]_vars => [AnyExp!Next]_(AnyExp!vars)
  BY RefinesStep, LogStepIsExperimentStep DEF IInv, PlaceInv
<1> QED
  BY <1>1, <1>2, Invariance, PTL DEF Spec, AnyExp!Spec, ImplementsAnyExperiment
=============================================================================
