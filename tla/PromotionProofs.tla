-------------------------- MODULE PromotionProofs ---------------------------
(* Proofs about local promotion, for any number of jobs and requests.      *)
EXTENDS Promotion, TLAPS

\* Every step of a promotion keeps its variables in their types.
LEMMA TypeStep == TypeOK /\ [Next]_vars => TypeOK'
<1> SUFFICES ASSUME TypeOK, [Next]_vars PROVE TypeOK'
  OBVIOUS
<1> USE PromotionAssumption DEF TypeOK, Request, Targets, Ahead, Begun, Idle, Job, MovesTo
<1>1. ASSUME NEW h \in Requests, NEW j \in Jobs, BeginPromote(h, j) PROVE TypeOK'
  BY <1>1 DEF BeginPromote
<1>2. ASSUME NEW h \in Requests, Lock(h) PROVE TypeOK'
  BY <1>2 DEF Lock
<1>3. ASSUME NEW h \in Requests, CheckLive(h) PROVE TypeOK'
  BY <1>3 DEF CheckLive
<1>4. ASSUME NEW h \in Requests, Capture(h) PROVE TypeOK'
  BY <1>4 DEF Capture, ApprovedFiles
<1>5. ASSUME NEW h \in Requests, InspectTarget(h) PROVE TypeOK'
  BY <1>5 DEF InspectTarget
<1>6. ASSUME NEW h \in Requests, RecordIntent(h) PROVE TypeOK'
  BY <1>6 DEF RecordIntent, Promotable, Intent
<1>7. ASSUME NEW h \in Requests, StartApply(h) PROVE TypeOK'
  BY <1>7 DEF StartApply
<1>8. ASSUME NEW h \in Requests, ApplySucceeds(h) PROVE TypeOK'
  BY <1>8 DEF ApplySucceeds, Patched
<1>9. ASSUME NEW h \in Requests, ApplyFails(h) PROVE TypeOK'
  BY <1>9 DEF ApplyFails
<1>10. ASSUME NEW h \in Requests, Compare(h) PROVE TypeOK'
  BY <1>10 DEF Compare, SameFiles
<1>11. ASSUME NEW h \in Requests, Complete(h) PROVE TypeOK'
  BY <1>11 DEF Complete
<1>12. ASSUME NEW h \in Requests, Refuse(h) PROVE TypeOK'
  BY <1>12 DEF Refuse
<1>13. ASSUME NEW h \in Requests, Die(h) PROVE TypeOK'
  BY <1>13 DEF Die
<1>14. ASSUME NEW j \in Jobs, OrphanEnds(j) PROVE TypeOK'
  BY <1>14 DEF OrphanEnds, Patched
<1>15. ASSUME NEW t \in Targets, UseTarget(t) PROVE TypeOK'
  BY <1>15 DEF UseTarget
<1>16. ASSUME NEW j \in Jobs, NEW c \in Contents, EditTree(j, c) PROVE TypeOK'
  BY <1>16 DEF EditTree
<1>17. CASE UNCHANGED vars
  BY <1>17 DEF vars
<1> QED
  BY <1>1, <1>2, <1>3, <1>4, <1>5, <1>6, <1>7, <1>8, <1>9, <1>10, <1>11, <1>12, <1>13,
     <1>14, <1>15, <1>16, <1>17, Zenon DEF Next, Step

\* Every step keeps the invariant of promotion.
LEMMA InvStep == TypeOK /\ PromotionInv /\ [Next]_vars => PromotionInv'
<1> SUFFICES ASSUME TypeOK, PromotionInv, [Next]_vars PROVE PromotionInv'
  OBVIOUS
<1> USE PromotionAssumption
      DEF TypeOK, Request, Targets, Ahead, Begun, Idle, Job, MovesTo, PromotionInv, RequestInv,
          Holding, Captured, OneHolder, AppliedOnce, CompletedIsApproved
<1>1. ASSUME NEW h \in Requests, NEW j \in Jobs, BeginPromote(h, j) PROVE PromotionInv'
  BY <1>1 DEF BeginPromote, Promotable
<1>2. ASSUME NEW h \in Requests, Lock(h) PROVE PromotionInv'
  BY <1>2 DEF Lock
<1>3. ASSUME NEW h \in Requests, CheckLive(h) PROVE PromotionInv'
  <2>1. ASSUME NEW i \in Jobs, disturbed[i] # disturbed'[i]
        PROVE  i = request[h].job /\ jobState[i] = "approved" /\ request'[h].at = "capture"
    BY <1>3, <2>1 DEF CheckLive, CaptureBegins, Promotable
  <2>2. /\ UNCHANGED <<jobState, tree, target, orphans, applies, landed>>
        /\ tree[request[h].job] = ApprovedOf[request[h].job]
        /\ Holding(h) /\ request'[h].at \in {"capture", "inspect"}
        /\ request'[h].at = "inspect" => request[h].at = "relive"
        /\ request'[h].job = request[h].job /\ request'[h].files = request[h].files
        /\ \A i \in Requests \ {h} : request'[i] = request[i]
    BY <1>3 DEF CheckLive
  <2>3. \A i \in Requests \ {h} : ~Holding(i)
    BY <2>2
  <2>4. OneHolder'
    BY <2>2, <2>3
  <2>5. CompletedIsApproved'
    BY <2>1, <2>2
  <2>6. RequestInv(h)'
    BY <2>1, <2>2
  <2>7. ASSUME NEW i \in Requests \ {h} PROVE RequestInv(i)'
    BY <2>2, <2>3
  <2> QED
    BY <2>2, <2>4, <2>5, <2>6, <2>7
<1>4. ASSUME NEW h \in Requests, Capture(h) PROVE PromotionInv'
  BY <1>4 DEF Capture, ApprovedFiles
<1>5. ASSUME NEW h \in Requests, InspectTarget(h) PROVE PromotionInv'
  BY <1>5 DEF InspectTarget
<1>6. ASSUME NEW h \in Requests, RecordIntent(h) PROVE PromotionInv'
  BY <1>6 DEF RecordIntent, Promotable, Intent
<1>7. ASSUME NEW h \in Requests, StartApply(h) PROVE PromotionInv'
  BY <1>7 DEF StartApply
<1>8. ASSUME NEW h \in Requests, ApplySucceeds(h) PROVE PromotionInv'
  BY <1>8 DEF ApplySucceeds
<1>9. ASSUME NEW h \in Requests, ApplyFails(h) PROVE PromotionInv'
  BY <1>9 DEF ApplyFails
<1>10. ASSUME NEW h \in Requests, Compare(h) PROVE PromotionInv'
  BY <1>10 DEF Compare, SameFiles
<1>11. ASSUME NEW h \in Requests, Complete(h) PROVE PromotionInv'
  BY <1>11 DEF Complete
<1>12. ASSUME NEW h \in Requests, Refuse(h) PROVE PromotionInv'
  BY <1>12 DEF Refuse
<1>13. ASSUME NEW h \in Requests, Die(h) PROVE PromotionInv'
  BY <1>13 DEF Die
<1>14. ASSUME NEW j \in Jobs, OrphanEnds(j) PROVE PromotionInv'
  BY <1>14 DEF OrphanEnds
<1>15. ASSUME NEW t \in Targets, UseTarget(t) PROVE PromotionInv'
  BY <1>15 DEF UseTarget
<1>16. ASSUME NEW j \in Jobs, NEW c \in Contents, EditTree(j, c) PROVE PromotionInv'
  <2>1. \A i \in Jobs : disturbed[i] => disturbed'[i]
    BY <1>16, Zenon DEF EditTree
  <2>2. \A h \in Requests : request[h].job = j /\ request[h].at \in {"capture", "relive"}
                               => disturbed'[j]
    BY <1>16, Zenon DEF EditTree
  <2>3. \A i \in Jobs \ {j} : tree'[i] = tree[i]
    BY <1>16 DEF EditTree
  <2>4. UNCHANGED <<jobState, target, request, orphans, applies, landed>>
    BY <1>16 DEF EditTree
  <2>5. \A h \in Requests : RequestInv(h)'
    BY <2>1, <2>2, <2>3, <2>4
  <2> QED
    BY <2>1, <2>4, <2>5
<1>17. CASE UNCHANGED vars
  BY <1>17 DEF vars
<1> QED
  BY <1>1, <1>2, <1>3, <1>4, <1>5, <1>6, <1>7, <1>8, <1>9, <1>10, <1>11, <1>12, <1>13,
     <1>14, <1>15, <1>16, <1>17, Zenon DEF Next, Step

\* In every reachable state the variables have their types and the invariant
\* of promotion holds.
THEOREM PromotionInvariant == Spec => [](TypeOK /\ PromotionInv)
<1>1. Init => TypeOK /\ PromotionInv
  BY PromotionAssumption
     DEF Init, TypeOK, Request, Targets, Idle, Job, PromotionInv, RequestInv, Holding, Captured,
         OneHolder, AppliedOnce, CompletedIsApproved, Ahead, Begun
<1> QED
  BY <1>1, TypeStep, InvStep, PTL DEF Spec

\* A job's patch is handed to git apply at most once.
THEOREM NeverAppliedTwice == Spec => []AppliedOnce
<1>1. PromotionInv => AppliedOnce
  BY DEF PromotionInv
<1> QED
  BY <1>1, PromotionInvariant, PTL

\* A job whose patch was handed to git apply is applying or completed.
THEOREM RecordedBeforeWritten == Spec => []WriteIsRecorded
<1>1. TypeOK /\ PromotionInv => WriteIsRecorded
  BY DEF TypeOK, PromotionInv, WriteIsRecorded
<1> QED
  BY <1>1, PromotionInvariant, PTL

\* A completed job's checkout was seen to hold the approved content.
THEOREM CompletionIsApproved == Spec => []CompletedIsApproved
<1>1. PromotionInv => CompletedIsApproved
  BY DEF PromotionInv
<1> QED
  BY <1>1, PromotionInvariant, PTL

\* An interrupted promotion is never taken up again.
THEOREM InterruptionIsFinal == Spec => InterruptedStays
<1> DEFINE Stays ==
      \A j \in Jobs : Interrupted(j) => Interrupted(j)' /\ applies'[j] = applies[j]
<1>1. TypeOK /\ PromotionInv /\ [Next]_vars => [Stays]_vars
  <2> SUFFICES ASSUME TypeOK, Next, NEW j \in Jobs, Interrupted(j)
               PROVE  Interrupted(j)' /\ applies'[j] = applies[j]
    BY DEF vars
  <2> USE DEF TypeOK, Interrupted, Job, Begun, Ahead, Idle, Request
  <2>1. ASSUME NEW h \in Requests, NEW i \in Jobs, BeginPromote(h, i)
        PROVE  Interrupted(j)' /\ applies'[j] = applies[j]
    BY <2>1 DEF BeginPromote
  <2>2. ASSUME NEW h \in Requests,
               Lock(h) \/ CheckLive(h) \/ Capture(h) \/ InspectTarget(h)
        PROVE  Interrupted(j)' /\ applies'[j] = applies[j]
    <3>1. CASE Lock(h)
      BY <3>1 DEF Lock, MovesTo
    <3>2. CASE CheckLive(h)
      BY <3>2 DEF CheckLive, MovesTo
    <3>3. CASE Capture(h)
      BY <3>3 DEF Capture
    <3>4. CASE InspectTarget(h)
      <4>1. PICK at \in {"preflight", "reinspect", "intent"} : MovesTo(h, at)
        BY <3>4 DEF InspectTarget
      <4> QED
        BY <3>4, <4>1 DEF InspectTarget, MovesTo
    <3> QED
      BY <2>2, <3>1, <3>2, <3>3, <3>4
  <2>3. ASSUME NEW h \in Requests, RecordIntent(h)
        PROVE  Interrupted(j)' /\ applies'[j] = applies[j]
    BY <2>3 DEF RecordIntent, Promotable, Intent, MovesTo
  <2>4. ASSUME NEW h \in Requests,
               StartApply(h) \/ ApplySucceeds(h) \/ Compare(h) \/ Complete(h)
        PROVE  Interrupted(j)' /\ applies'[j] = applies[j]
    BY <2>4 DEF StartApply, ApplySucceeds, Compare, Complete, MovesTo
  <2>5. ASSUME NEW h \in Requests, ApplyFails(h) \/ Refuse(h) \/ Die(h)
        PROVE  Interrupted(j)' /\ applies'[j] = applies[j]
    BY <2>5 DEF ApplyFails, Refuse, Die
  <2>6. ASSUME UNCHANGED <<jobState, request, applies>>
        PROVE  Interrupted(j)' /\ applies'[j] = applies[j]
    BY <2>6
  <2>7. ASSUME NEW h \in Requests, Step(h)
        PROVE  Interrupted(j)' /\ applies'[j] = applies[j]
    BY <2>1, <2>2, <2>3, <2>4, <2>5, <2>7, Zenon DEF Step
  <2>8. Next => UNCHANGED <<jobState, request, applies>> \/ \E h \in Requests : Step(h)
    BY DEF Next, OrphanEnds, UseTarget, EditTree
  <2> QED
    BY <2>6, <2>7, <2>8, Zenon
<1> QED
  BY <1>1, PromotionInvariant, PTL DEF Spec, InterruptedStays

=============================================================================
