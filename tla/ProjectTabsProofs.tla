------------------------- MODULE ProjectTabsProofs --------------------------
(***************************************************************************)
(* Theorems about ProjectTabs, for any number of tabs, edits and tokens.   *)
(***************************************************************************)
EXTENDS ProjectTabs, TLAPS

USE NoTokenIsNoToken, TabSentinels

(* Values that the actions build have the types the variables keep.        *)
LEMMA SomeIsMaybe == \A d \in Documents : Some(d) \in MaybeDoc
BY DEF MaybeDoc, Some

LEMMA NoDocIsMaybe == NoDoc \in MaybeDoc
BY DEF MaybeDoc

LEMMA NoSaveIsNoCapture == NoSave \notin Capture
BY NoSaveIsNoSave

LEMMA NoSaveIsNotRunning == NoSave \notin Save
BY NoSaveIsNoSave

(* TypeOK holds initially.                                                 *)
LEMMA InitType == Init => TypeOK
<1> SUFFICES ASSUME Init PROVE TypeOK
  OBVIOUS
<1>1. StoreTypeOK
  BY DEF Init, StoreInit, StoreTypeOK, Documents
<1>2. QED
  BY <1>1, NoDocIsMaybe
     DEF Init, TypeOK, MaybeToken, Acquisition, Purposes, Idle, NotChecking, Documents

(* What Acquire records is an acquisition.                                 *)
LEMMA AcquireType ==
  ASSUME acquiring \in [Tabs -> Acquisition],
         NEW t \in Tabs, NEW step \in {"idle", "steal", "queued", "put", "return"},
         NEW for \in Purposes, NEW k \in MaybeToken, Acquire(t, step, for, k)
  PROVE  acquiring' \in [Tabs -> Acquisition]
<1>1. [step |-> step, for |-> for, token |-> k] \in Acquisition
  BY DEF Acquisition
<1>2. QED
  BY <1>1 DEF Acquire

(* A save that runs is a Save, and so is each of its successors.           *)
LEMMA RunningSave ==
  ASSUME saving \in [Tabs -> Save \cup {NoSave}], NEW t \in Tabs, NEW step, AtStep(t, step)
  PROVE  saving[t] \in Save
BY DEF AtStep

LEMMA SaveSteps ==
  ASSUME NEW s \in Save,
         NEW step \in {"prepare", "publish", "committed", "recorded", "refused"}
  PROVE  [s EXCEPT !.step = step] \in Save
BY DEF Save

(* Every step of the lock protocol keeps the types.                        *)
LEMMA LockStepType ==
  ASSUME TypeOK, NEW t \in Tabs, LockStep(t)
  PROVE  TypeOK'
<1> USE NoDocIsMaybe DEF TypeOK, MaybeToken, storeVars, docVars, saveVars
<1>1. CASE StealLock(t)
  <2>1. acquiring' \in [Tabs -> Acquisition]
    BY <1>1, AcquireType DEF StealLock, Purposes
  <2>2. QED
    BY <1>1, <2>1 DEF StealLock, StoreTypeOK
<1>2. CASE GrantLock(t)
  BY <1>2 DEF GrantLock, Acquire, Acquisition, Purposes, StoreTypeOK, Documents
<1>3. CASE HandoffTimeout(t)
  BY <1>3 DEF HandoffTimeout, Replace, Idle, Acquisition, Purposes, StoreTypeOK, Documents
<1>4. CASE PutFence(t)
  BY <1>4 DEF PutFence, ClaimWriteFence, Acquire, Acquisition, Purposes, StoreTypeOK, Documents
<1>5. CASE AdoptLock(t)
  <2>1. acquiring[t].token \in MaybeToken
    BY DEF Acquisition
  <2>2. acquiring' \in [Tabs -> Acquisition]
    BY <1>5 DEF AdoptLock, Idle, Acquisition, Purposes
  <2>3. phase' \in [Tabs -> {"closed", "loaded", "verifying", "activating", "open"}]
    BY <1>5 DEF AdoptLock
  <2>4. checking' \in [Tabs -> [on : BOOLEAN, expected : MaybeDoc]]
    <3>1. [on |-> TRUE, expected |-> baseline[t]] \in [on : BOOLEAN, expected : MaybeDoc]
      OBVIOUS
    <3>2. QED
      BY <1>5, <3>1 DEF AdoptLock
  <2>5. replaced' \in [Tabs -> BOOLEAN]
    BY <1>5 DEF AdoptLock, Replace
  <2>6. QED
    BY <1>5, <2>1, <2>2, <2>3, <2>4, <2>5 DEF AdoptLock, StoreTypeOK
<1>6. CASE RefuseLostClaim(t)
  BY <1>6 DEF RefuseLostClaim, Idle, Acquisition, Purposes, RetriesAfter, StoreTypeOK, Documents
<1>7. CASE NoticeLoss(t)
  BY <1>7 DEF NoticeLoss, NotChecking, Active, StoreTypeOK, Documents
<1>8. CASE RecoverLock(t)
  <2>1. acquiring' \in [Tabs -> Acquisition]
    BY <1>8, AcquireType DEF RecoverLock, Purposes
  <2>2. QED
    BY <1>8, <2>1 DEF RecoverLock, StoreTypeOK
<1>9. CASE ClaimByUser(t)
  BY <1>9 DEF ClaimByUser, Replace, Acquire, Acquisition, Purposes, StoreTypeOK, Documents
<1>10. CASE FinishCheck(t)
  BY <1>10 DEF FinishCheck, NotChecking, MayResume, IsCurrent, StoreTypeOK, Documents
<1>11. QED
  BY <1>1, <1>2, <1>3, <1>4, <1>5, <1>6, <1>7, <1>8, <1>9, <1>10 DEF LockStep

(* Opening and closing a project keeps the types.                          *)
LEMMA OpenStepType ==
  ASSUME TypeOK, NEW t \in Tabs, OpenStep(t)
  PROVE  TypeOK'
<1> USE NoDocIsMaybe, SomeIsMaybe DEF TypeOK, MaybeToken, storeVars, lockVars, docVars, saveVars
<1>1. CASE LoadProject(t)
  BY <1>1 DEF LoadProject, StoreTypeOK
<1>2. CASE VerifyProject(t)
  BY <1>2 DEF VerifyProject, IsCurrent, StoreTypeOK
<1>3. CASE FinishOpening(t)
  BY <1>3 DEF FinishOpening, RearmsTimer, StoreTypeOK
<1>4. CASE CloseTab(t)
  BY <1>4 DEF CloseTab, HolderWithout, Idle, NotChecking, Acquisition, Purposes, StoreTypeOK,
              Documents
<1>5. QED
  BY <1>1, <1>2, <1>3, <1>4 DEF OpenStep

(* Editing and saving keeps the types.                                     *)
LEMMA SaveStepType ==
  ASSUME TypeOK, NEW t \in Tabs, SaveStep(t)
  PROVE  TypeOK'
<1> USE NoDocIsMaybe, SomeIsMaybe DEF TypeOK, MaybeToken, storeVars, lockVars, docVars, saveVars
<1>1. CASE Edit(t)
  BY <1>1 DEF Edit, Capture, Documents, StoreTypeOK
<1>2. CASE EnqueueAutosave(t)
  BY <1>2 DEF EnqueueAutosave, StoreTypeOK
<1>3. CASE BeginSave(t)
  BY <1>3 DEF BeginSave, Capture, Save, StoreTypeOK
<1>4. CASE PrepareSave(t)
  <2>1. saving[t] \in Save /\ doc[t] \in Documents /\ baseline[t] \in MaybeDoc
    BY <1>4, RunningSave DEF PrepareSave
  <2>2. [saving[t] EXCEPT !.step = "publish",
                          !.doc = IF PreparesSnapshot THEN doc[t] ELSE @,
                          !.expected = ExpectedOf(t)] \in Save
    BY <2>1 DEF Save, ExpectedOf
  <2>3. saving' \in [Tabs -> Save \cup {NoSave}]
    BY <1>4, <2>2 DEF PrepareSave
  <2>4. QED
    BY <1>4, <2>3 DEF PrepareSave, StoreTypeOK
<1>5. CASE PublishSave(t)
  <2>1. saving[t] \in Save
    BY <1>5, RunningSave DEF PublishSave
  <2>2. saving' \in [Tabs -> Save \cup {NoSave}]
    <3>1. /\ [saving[t] EXCEPT !.step = "committed"] \in Save
          /\ [saving[t] EXCEPT !.step = "refused"] \in Save
      BY <2>1, SaveSteps
    <3>2. \/ saving' = [saving EXCEPT ![t] = [saving[t] EXCEPT !.step = "committed"]]
          \/ saving' = [saving EXCEPT ![t] = [saving[t] EXCEPT !.step = "refused"]]
      BY <1>5 DEF PublishSave
    <3>3. QED
      BY <3>1, <3>2
  <2>3. StoreTypeOK'
    BY <1>5, <2>1 DEF PublishSave, Publish, Save, StoreTypeOK
  <2>4. QED
    BY <1>5, <2>2, <2>3 DEF PublishSave
<1>6. CASE AbandonSave(t)
  BY <1>6 DEF AbandonSave, EndSave, StoreTypeOK
<1>7. CASE FailSave(t)
  BY <1>7 DEF FailSave, EndSave, StoreTypeOK
<1>8. CASE EndRefusedSave(t)
  BY <1>8 DEF EndRefusedSave, EndSave, StoreTypeOK
<1>9. CASE RecordSave(t)
  <2>1. saving[t] \in Save
    BY <1>9, RunningSave DEF RecordSave
  <2>2. saving' \in [Tabs -> Save \cup {NoSave}]
    BY <1>9, <2>1, SaveSteps DEF RecordSave
  <2>3. Some(saving[t].doc) \in MaybeDoc
    BY <2>1 DEF Save
  <2>4. QED
    BY <1>9, <2>2, <2>3 DEF RecordSave, StoreTypeOK
<1>10. CASE FinishSave(t)
  BY <1>10 DEF FinishSave, EndSave, ReportsSaved, OwnsFence, StoreTypeOK
<1>11. QED
  BY <1>1, <1>2, <1>3, <1>4, <1>5, <1>6, <1>7, <1>8, <1>9, <1>10 DEF SaveStep

LEMMA NextType ==
  ASSUME TypeOK, [Next]_vars
  PROVE  TypeOK'
<1>1. CASE Next
  BY <1>1, LockStepType, OpenStepType, SaveStepType DEF Next
<1>2. CASE UNCHANGED vars
  BY <1>2 DEF vars, storeVars, lockVars, docVars, saveVars, TypeOK, StoreTypeOK
<1>3. QED
  BY <1>1, <1>2

(* Every variable of the tabs and of the store keeps its type.             *)
THEOREM TypeCorrect == Spec => []TypeOK
<1>1. Init => TypeOK
  BY InitType
<1>2. TypeOK /\ [Next]_vars => TypeOK'
  BY NextType
<1>3. QED
  BY <1>1, <1>2, PTL DEF Spec
-----------------------------------------------------------------------------
(* The order of the save pipeline.  SavesInOrder alone is not inductive: a *)
(* claim made for an opening moves the phase of the tab back, so it must   *)
(* be known that such a claim exists only while the tab is still opening.  *)
OpensLoaded(t) ==
  acquiring[t].step # "idle" /\ acquiring[t].for = "open" => phase[t] = "loaded"

OrderInv == TypeOK /\ SavesInOrder /\ \A t \in Tabs : OpensLoaded(t)

StepOf(t) == LockStep(t) \/ OpenStep(t) \/ SaveStep(t)

LEMMA InitOrder == Init => OrderInv
<1> SUFFICES ASSUME Init PROVE SavesInOrder /\ \A t \in Tabs : OpensLoaded(t)
  BY InitType DEF OrderInv
<1> SUFFICES ASSUME NEW t \in Tabs PROVE TabInOrder(t) /\ OpensLoaded(t)
  BY DEF SavesInOrder
<1>1. /\ phase[t] = "closed" /\ doc[t] = {} /\ baseline[t] = NoDoc
      /\ timer[t] = NoSave /\ queued[t] = NoSave /\ saving[t] = NoSave
  BY DEF Init
<1>2. TabInOrder(t)
  BY <1>1 DEF TabInOrder, StagesInOrder, BaselineInOrder, Within, Held, AtStep, NoDoc
<1>3. OpensLoaded(t)
  BY DEF Init, Idle, OpensLoaded
<1>4. QED
  BY <1>2, <1>3

(* A claim for an opening starts in a loaded tab and ends with that phase. *)
LEMMA StepOpensLoaded ==
  ASSUME TypeOK, NEW t \in Tabs, StepOf(t), NEW u \in Tabs, OpensLoaded(u)
  PROVE  OpensLoaded(u)'
<1> USE DEF OpensLoaded, TypeOK, lockVars, docVars, saveVars
<1>1. CASE u # t
  <2>1. acquiring'[u] = acquiring[u] /\ phase'[u] = phase[u]
    <3>1. CASE LockStep(t)
      BY <1>1, <3>1 DEF LockStep, StealLock, GrantLock, HandoffTimeout, PutFence, AdoptLock,
         RefuseLostClaim, NoticeLoss, RecoverLock, ClaimByUser, FinishCheck, Acquire
    <3>2. CASE OpenStep(t)
      BY <1>1, <3>2 DEF OpenStep, LoadProject, VerifyProject, FinishOpening, CloseTab
    <3>3. CASE SaveStep(t)
      BY <3>3 DEF SaveStep, Edit, EnqueueAutosave, BeginSave, PrepareSave, PublishSave,
         AbandonSave, FailSave, EndRefusedSave, RecordSave, FinishSave
    <3>4. QED
      BY <3>1, <3>2, <3>3 DEF StepOf
  <2>2. QED
    BY <2>1
<1>2. CASE u = t
  <2>1. CASE LockStep(t)
    <3>1. CASE StealLock(t) \/ GrantLock(t) \/ RecoverLock(t) \/ ClaimByUser(t)
      BY <1>2, <3>1 DEF StealLock, GrantLock, RecoverLock, ClaimByUser, Acquire
    <3>2. CASE PutFence(t)
      BY <1>2, <3>2 DEF PutFence, Acquire
    <3>3. CASE HandoffTimeout(t) \/ AdoptLock(t) \/ RefuseLostClaim(t)
      BY <1>2, <3>3 DEF HandoffTimeout, AdoptLock, RefuseLostClaim, Idle
    <3>4. CASE NoticeLoss(t) \/ FinishCheck(t)
      BY <1>2, <3>4 DEF NoticeLoss, FinishCheck
    <3>5. QED
      BY <2>1, <3>1, <3>2, <3>3, <3>4 DEF LockStep
  <2>2. CASE OpenStep(t)
    BY <1>2, <2>2 DEF OpenStep, LoadProject, VerifyProject, FinishOpening, CloseTab, Idle
  <2>3. CASE SaveStep(t)
    BY <1>2, <2>3 DEF SaveStep, Edit, EnqueueAutosave, BeginSave, PrepareSave, PublishSave,
       AbandonSave, FailSave, EndRefusedSave, RecordSave, FinishSave
  <2>4. QED
    BY <2>1, <2>2, <2>3 DEF StepOf
<1>3. QED
  BY <1>1, <1>2

\* Everything TabInOrder(t) speaks about but the phase is left alone.
KeepsSaves(t) ==
  /\ doc'[t] = doc[t] /\ baseline'[t] = baseline[t] /\ timer'[t] = timer[t]
  /\ queued'[t] = queued[t] /\ saving'[t] = saving[t]
  /\ (t \in drifted') <=> (t \in drifted)

LEMMA KeptInOrder ==
  ASSUME NEW t \in Tabs, TabInOrder(t), KeepsSaves(t),
         phase'[t] = phase[t] \/ phase[t] # "open"
  PROVE  TabInOrder(t)'
BY DEF KeepsSaves, TabInOrder, StagesInOrder, BaselineInOrder, AtStep

(* A step of one tab leaves the saves of every other tab alone.            *)
LEMMA OtherTabsKept ==
  ASSUME TypeOK, NEW t \in Tabs, StepOf(t), NEW u \in Tabs, u # t
  PROVE  KeepsSaves(u) /\ phase'[u] = phase[u]
<1> USE DEF KeepsSaves, TypeOK, lockVars, docVars, saveVars
<1>1. CASE LockStep(t)
  BY <1>1 DEF LockStep, StealLock, GrantLock, HandoffTimeout, PutFence, AdoptLock,
     RefuseLostClaim, NoticeLoss, RecoverLock, ClaimByUser, FinishCheck
<1>2. CASE OpenStep(t)
  BY <1>2 DEF OpenStep, LoadProject, VerifyProject, FinishOpening, CloseTab
<1>3. CASE SaveStep(t)
  BY <1>3 DEF SaveStep, Edit, EnqueueAutosave, BeginSave, PrepareSave, PublishSave,
     AbandonSave, FailSave, EndRefusedSave, RecordSave, FinishSave, EndSave
<1>4. QED
  BY <1>1, <1>2, <1>3 DEF StepOf
(* The lock protocol keeps the order: it moves the phase of a tab only     *)
(* while the tab opens the project, when no save exists.                   *)
LEMMA LockStepOrder ==
  ASSUME TypeOK, NEW t \in Tabs, TabInOrder(t), OpensLoaded(t), LockStep(t)
  PROVE  TabInOrder(t)'
<1> USE DEF KeepsSaves, TypeOK, docVars, saveVars
<1>1. KeepsSaves(t)
  BY DEF LockStep, StealLock, GrantLock, HandoffTimeout, PutFence, AdoptLock,
     RefuseLostClaim, NoticeLoss, RecoverLock, ClaimByUser, FinishCheck
<1>2. phase'[t] = phase[t] \/ phase[t] # "open"
  BY DEF LockStep, StealLock, GrantLock, HandoffTimeout, PutFence, AdoptLock, OpensLoaded,
     RefuseLostClaim, NoticeLoss, RecoverLock, ClaimByUser, FinishCheck
<1>3. QED
  BY <1>1, <1>2, KeptInOrder

(* Opening and closing start and end with no save at all.                  *)
LEMMA OpenStepOrder ==
  ASSUME TypeOK, NEW t \in Tabs, TabInOrder(t), OpenStep(t)
  PROVE  TabInOrder(t)'
<1> USE DEF TypeOK, lockVars, docVars, saveVars
<1>1. CASE LoadProject(t)
  <2>1. /\ phase'[t] = "loaded" /\ baseline'[t] = NoDoc
        /\ timer'[t] = NoSave /\ queued'[t] = NoSave /\ saving'[t] = NoSave
    BY <1>1 DEF LoadProject, TabInOrder, StagesInOrder
  <2>2. QED
    BY <2>1 DEF TabInOrder, StagesInOrder, BaselineInOrder, Within, Held, AtStep, NoDoc
<1>2. CASE VerifyProject(t)
  <2>1. KeepsSaves(t) /\ phase[t] # "open"
    BY <1>2 DEF VerifyProject, KeepsSaves
  <2>2. QED
    BY <2>1, KeptInOrder
<1>3. CASE FinishOpening(t)
  <2>1. /\ timer'[t] = NoSave /\ queued'[t] = NoSave /\ saving'[t] = NoSave
        /\ phase'[t] = "open" /\ doc'[t] = doc[t] /\ baseline'[t] = Some(stored)
    BY <1>3 DEF FinishOpening, TabInOrder, StagesInOrder
  <2>2. t \notin drifted' => stored = doc[t]
    BY <1>3 DEF FinishOpening
  <2>3. QED
    BY <2>1, <2>2 DEF TabInOrder, StagesInOrder, BaselineInOrder, Within, Held, AtStep,
       NoDoc, Some
<1>4. CASE CloseTab(t)
  <2>1. /\ phase'[t] = "closed" /\ baseline'[t] = NoDoc
        /\ timer'[t] = NoSave /\ queued'[t] = NoSave /\ saving'[t] = NoSave
    BY <1>4 DEF CloseTab
  <2>2. QED
    BY <2>1 DEF TabInOrder, StagesInOrder, BaselineInOrder, Within, Held, AtStep, NoDoc
<1>5. QED
  BY <1>1, <1>2, <1>3, <1>4 DEF OpenStep

(* Each stage hands its document on to the next, whose own is older.       *)
LEMMA SaveStepOrder ==
  ASSUME TypeOK, NEW t \in Tabs, TabInOrder(t), SaveStep(t)
  PROVE  TabInOrder(t)'
<1> USE DEF TypeOK, lockVars, docVars, saveVars
<1>1. CASE Edit(t)
  <2>1. PICK e \in Edits :
          /\ doc' = [doc EXCEPT ![t] = @ \cup {e}]
          /\ timer' = [timer EXCEPT ![t] =
               [gen |-> generation[t] + 1, token |-> token[t], doc |-> doc[t] \cup {e}]]
    BY <1>1 DEF Edit
  <2>2. Held(timer[t])' = Some(doc[t] \cup {e}) /\ doc'[t] = doc[t] \cup {e}
    <3>1. timer'[t] \in Capture
      BY <2>1 DEF Capture, Documents
    <3>2. timer'[t] # NoSave
      BY <3>1, NoSaveIsNoCapture
    <3>3. QED
      BY <2>1, <3>2 DEF Held
  <2>3. /\ phase[t] = "open" /\ phase'[t] = phase[t] /\ baseline'[t] = baseline[t]
        /\ queued'[t] = queued[t] /\ saving'[t] = saving[t] /\ drifted' = drifted
    BY <1>1 DEF Edit
  <2> DEFINE new == doc[t] \cup {e}
  <2>4. \A A : Within(A, Some(doc[t])) => Within(A, Some(new))
    BY DEF Within, Some
  <2>5. \A A, B, C : Within(A \cup B, C) <=> Within(A, C) /\ Within(B, C)
    BY DEF Within
  <2>6. \A A, B, C : Within(A, B \cup C) <=> Within(A, B) /\ Within(A, C)
    BY DEF Within
  <2>7. Within(Some(new), Some(new))
    BY DEF Within, Some
  <2>8. /\ Held(queued[t])' = Held(queued[t]) /\ Held(saving[t])' = Held(saving[t])
        /\ Some(doc[t])' = Some(new) /\ Held(timer[t])' = Some(new)
    <3>1. Held(queued[t])' = Held(queued[t])
      BY <2>3 DEF Held
    <3>2. Held(saving[t])' = Held(saving[t])
      BY <2>3 DEF Held
    <3>3. Some(doc[t])' = Some(new)
      BY <2>2 DEF Some
    <3>4. QED
      BY <2>2, <3>1, <3>2, <3>3
  <2>9. StagesInOrder(t)'
    <3>1. Within(Held(queued[t]), Some(doc[t])) /\ Within(Held(saving[t]), Some(doc[t]))
      <4>1. Within(Held(timer[t]) \cup Held(queued[t]) \cup Held(saving[t]), Some(doc[t]))
        BY DEF TabInOrder, StagesInOrder
      <4> HIDE DEF TypeOK
      <4>2. QED
        BY <2>5, <4>1
    <3>2. Within(Held(queued[t]), Some(new)) /\ Within(Held(saving[t]), Some(new))
      BY <3>1, <2>4
    <3>3. ~PreparesSnapshot => Within(Held(saving[t]), Held(queued[t]))
      BY DEF TabInOrder, StagesInOrder
    <3> HIDE DEF new
    <3>4. Within(Some(new) \cup Held(queued[t]) \cup Held(saving[t]), Some(new))
      BY <2>5, <2>7, <3>2
    <3>5. Within(Held(queued[t]) \cup Held(saving[t]), Some(new))
      BY <2>5, <3>2
    <3>6. /\ Within(Held(timer[t]) \cup Held(queued[t]) \cup Held(saving[t]), Some(doc[t]))'
          /\ Within(Held(queued[t]) \cup Held(saving[t]), Held(timer[t]))'
      BY <2>8, <3>4, <3>5
    <3>7. QED
      BY <2>3, <2>8, <3>3, <3>6 DEF StagesInOrder
  <2>10. t \notin drifted => BaselineInOrder(t)'
    <3> SUFFICES ASSUME BaselineInOrder(t) PROVE BaselineInOrder(t)'
      BY DEF TabInOrder
    <3>1. Within(baseline[t], Some(new))
      BY <2>4 DEF BaselineInOrder
    <3>2. ~PreparesSnapshot => Within(baseline[t], Held(queued[t]))
      BY <2>6 DEF BaselineInOrder
    <3> HIDE DEF new
    <3>3. QED
      BY <2>3, <2>6, <2>8, <3>1, <3>2 DEF BaselineInOrder, AtStep
  <2>11. QED
    BY <2>3, <2>9, <2>10 DEF TabInOrder
<1>2. CASE EnqueueAutosave(t)
  <2>1. /\ queued'[t] = timer[t] /\ timer'[t] = NoSave /\ saving'[t] = saving[t]
        /\ phase'[t] = phase[t] /\ baseline'[t] = baseline[t] /\ doc'[t] = doc[t]
        /\ drifted' = drifted /\ phase[t] = "open"
    BY <1>2 DEF EnqueueAutosave, TabInOrder, StagesInOrder
  <2>2. QED
    BY <2>1 DEF TabInOrder, StagesInOrder, BaselineInOrder, Within, Held, AtStep, NoDoc, Some
<1>3. CASE BeginSave(t)
  <2>1. /\ queued'[t] = NoSave /\ timer'[t] = timer[t] /\ saving[t] = NoSave
        /\ phase'[t] = phase[t] /\ baseline'[t] = baseline[t] /\ doc'[t] = doc[t]
        /\ drifted' = drifted /\ phase[t] = "open"
    BY <1>3 DEF BeginSave, TabInOrder, StagesInOrder
  <2>2. \/ saving'[t] = NoSave
        \/ saving'[t] # NoSave /\ saving'[t].step = "prepare"
             /\ queued[t] # NoSave /\ saving'[t].doc = queued[t].doc
    BY <1>3 DEF BeginSave
  <2>3. QED
    BY <2>1, <2>2 DEF TabInOrder, StagesInOrder, BaselineInOrder, Within, Held, AtStep,
       NoDoc, Some
<1>4. CASE PrepareSave(t)
  <2>1. /\ queued'[t] = queued[t] /\ timer'[t] = timer[t]
        /\ phase'[t] = phase[t] /\ baseline'[t] = baseline[t] /\ doc'[t] = doc[t]
        /\ drifted' = drifted /\ phase[t] = "open" /\ saving[t] # NoSave
        /\ saving[t].step = "prepare"
    BY <1>4 DEF PrepareSave, AtStep, TabInOrder, StagesInOrder
  <2>2. \/ saving'[t] = NoSave
        \/ /\ saving'[t].step = "publish" /\ saving'[t].expected = baseline[t]
           /\ saving'[t].doc = IF PreparesSnapshot THEN doc[t] ELSE saving[t].doc
    <3>1. saving[t] \in Save
      BY <2>1
    <3>2. QED
      BY <1>4, <3>1 DEF PrepareSave, ExpectedOf, Save
  <2>3. QED
    BY <2>1, <2>2 DEF TabInOrder, StagesInOrder, BaselineInOrder, Within, Held, AtStep,
       NoDoc, Some
<1>5. CASE PublishSave(t)
  <2>1. /\ queued'[t] = queued[t] /\ timer'[t] = timer[t] /\ saving[t] # NoSave
        /\ phase'[t] = phase[t] /\ baseline'[t] = baseline[t] /\ doc'[t] = doc[t]
        /\ drifted' = drifted /\ phase[t] = "open"
    BY <1>5 DEF PublishSave, AtStep, TabInOrder, StagesInOrder
  <2>2. saving'[t].step \in {"committed", "refused"} /\ saving'[t].doc = saving[t].doc
    <3>1. saving[t] \in Save
      BY <2>1
    <3>2. QED
      BY <1>5, <3>1 DEF PublishSave, Save
  <2>3. Held(saving[t])' \subseteq Held(saving[t])
    BY <2>1, <2>2 DEF Held, NoDoc, Some
  <2>4. StagesInOrder(t)'
    BY <2>1, <2>3 DEF TabInOrder, StagesInOrder, Within
  <2>5. BaselineInOrder(t) => BaselineInOrder(t)'
    BY <2>1, <2>2 DEF BaselineInOrder, AtStep
  <2>6. QED
    BY <2>1, <2>4, <2>5 DEF TabInOrder
<1>6. CASE AbandonSave(t) \/ FailSave(t) \/ EndRefusedSave(t) \/ FinishSave(t)
  <2>1. /\ queued'[t] = queued[t] /\ timer'[t] = timer[t] /\ saving'[t] = NoSave
        /\ phase'[t] = phase[t] /\ baseline'[t] = baseline[t] /\ doc'[t] = doc[t]
        /\ drifted' = drifted
    BY <1>6 DEF AbandonSave, FailSave, EndRefusedSave, FinishSave, EndSave
  <2>2. QED
    BY <2>1 DEF TabInOrder, StagesInOrder, BaselineInOrder, Within, Held, AtStep, NoDoc
<1>7. CASE RecordSave(t)
  <2>1. /\ queued'[t] = queued[t] /\ timer'[t] = timer[t] /\ saving[t] # NoSave
        /\ phase'[t] = phase[t] /\ baseline'[t] = Some(saving[t].doc) /\ doc'[t] = doc[t]
        /\ drifted' = drifted /\ phase[t] = "open"
    BY <1>7 DEF RecordSave, AtStep, TabInOrder, StagesInOrder
  <2>2. saving'[t].step = "recorded" /\ saving'[t].doc = saving[t].doc
    <3>1. saving[t] \in Save
      BY <2>1
    <3>2. QED
      BY <1>7, <3>1 DEF RecordSave, Save
  <2>3. /\ Held(saving[t])' \subseteq Held(saving[t])
        /\ Held(saving[t]) = baseline'[t]
    BY <2>1, <2>2 DEF Held, NoDoc, Some
  <2>4. StagesInOrder(t)'
    BY <2>1, <2>3 DEF TabInOrder, StagesInOrder, Within
  <2>5. BaselineInOrder(t)'
    BY <2>1, <2>2, <2>3 DEF TabInOrder, StagesInOrder, BaselineInOrder, Within, AtStep
  <2>6. QED
    BY <2>4, <2>5 DEF TabInOrder
<1>8. QED
  BY <1>1, <1>2, <1>3, <1>4, <1>5, <1>6, <1>7 DEF SaveStep

LEMMA StepOrder ==
  ASSUME OrderInv, [Next]_vars
  PROVE  OrderInv'
<1>1. TypeOK'
  BY NextType DEF OrderInv
<1>2. CASE Next
  <2>1. PICK t \in Tabs : StepOf(t)
    BY <1>2 DEF Next, StepOf
  <2> SUFFICES ASSUME NEW u \in Tabs PROVE TabInOrder(u)' /\ OpensLoaded(u)'
    BY <1>1 DEF OrderInv, SavesInOrder
  <2>2. OpensLoaded(u)'
    BY <2>1, StepOpensLoaded DEF OrderInv
  <2>3. TabInOrder(u) /\ OpensLoaded(u)
    BY DEF OrderInv, SavesInOrder
  <2>4. CASE u = t
    BY <2>1, <2>2, <2>3, <2>4, LockStepOrder, OpenStepOrder, SaveStepOrder DEF StepOf, OrderInv
  <2>5. CASE u # t
    <3>1. KeepsSaves(u) /\ phase'[u] = phase[u]
      BY <2>1, <2>5, OtherTabsKept DEF OrderInv
    <3>2. QED
      BY <2>2, <2>3, <3>1, KeptInOrder
  <2>6. QED
    BY <2>2, <2>4, <2>5
<1>3. CASE UNCHANGED vars
  BY <1>3 DEF vars, storeVars, lockVars, docVars, saveVars, OrderInv, TypeOK, StoreTypeOK,
     SavesInOrder, TabInOrder, StagesInOrder, BaselineInOrder, AtStep, OpensLoaded
<1>4. QED
  BY <1>2, <1>3

(* For any number of tabs, edits and claims, no stage of a tab's autosave  *)
(* overtakes another.                                                      *)
THEOREM SavesStayInOrder == Spec => []SavesInOrder
<1>1. Init => OrderInv
  BY InitOrder
<1>2. OrderInv /\ [Next]_vars => OrderInv'
  BY StepOrder
<1>3. OrderInv => SavesInOrder
  BY DEF OrderInv
<1>4. QED
  BY <1>1, <1>2, <1>3, PTL DEF Spec

(* The only step that changes the stored document is an accepted save; its *)
(* expected document is the stored one and part of the document it writes. *)
LEMMA StepLosesNothing ==
  ASSUME OrderInv, [Next]_vars
  PROVE  \/ stored \subseteq stored'
         \/ \E t \in drifted : AtStep(t, "publish") /\ saving'[t] # saving[t]
<1>1. CASE stored' = stored
  BY <1>1
<1>2. CASE stored' # stored
  <2>1. PICK t \in Tabs : StepOf(t)
    BY <1>2 DEF vars, storeVars, Next, StepOf
  <2>2. PublishSave(t) /\ MayPublish(saving[t].expected, saving[t].token)
    BY <1>2, <2>1 DEF StepOf, LockStep, StealLock, GrantLock, HandoffTimeout, PutFence,
       ClaimWriteFence, AdoptLock, RefuseLostClaim, NoticeLoss, RecoverLock, ClaimByUser,
       FinishCheck, OpenStep, LoadProject, VerifyProject, FinishOpening, CloseTab, SaveStep,
       Edit, EnqueueAutosave, BeginSave, PrepareSave, PublishSave, AbandonSave, FailSave,
       EndRefusedSave, RecordSave, FinishSave, storeVars
  <2>3. AtStep(t, "publish") /\ saving[t] \in Save
    BY <2>2, RunningSave DEF PublishSave, OrderInv, TypeOK
  <2>4. CASE t \in drifted
    <3>1. saving'[t].step = "committed"
      BY <2>2, <2>3 DEF PublishSave, OrderInv, TypeOK, Save
    <3>2. QED
      BY <2>3, <2>4, <3>1 DEF AtStep
  <2>5. CASE t \notin drifted
    <3>1. stored' = saving[t].doc
      BY <2>2 DEF PublishSave, Publish
    <3>2. stored \in saving[t].expected
      BY <2>2 DEF MayPublish, IsCurrent
    <3>3. Within(saving[t].expected, Held(saving[t])) /\ saving[t] # NoSave
      BY <2>3, <2>5 DEF OrderInv, SavesInOrder, TabInOrder, BaselineInOrder, AtStep
    <3>4. QED
      BY <3>1, <3>2, <3>3 DEF Within, Held, Some
  <2>6. QED
    BY <2>4, <2>5
<1>3. QED
  BY <1>1, <1>2

(* For any number of tabs, edits and claims, and whether saves are         *)
(* prepared or captured: no save loses a stored edit, unless its tab's     *)
(* baseline drifted while it opened the project.                           *)
THEOREM NothingIsLost == Spec => NoLostUpdate
<1>1. Init => OrderInv
  BY InitOrder
<1>2. OrderInv /\ [Next]_vars => OrderInv'
  BY StepOrder
<1>3. OrderInv /\ [Next]_vars =>
        [stored \subseteq stored'
          \/ \E t \in drifted : AtStep(t, "publish") /\ saving'[t] # saving[t]]_vars
  BY StepLosesNothing
<1>4. QED
  BY <1>1, <1>2, <1>3, PTL DEF Spec, NoLostUpdate
-----------------------------------------------------------------------------
(* What each step of a tab does to the pipeline of its own saves.          *)
LEMMA EditEffect ==
  ASSUME TypeOK, NEW t \in Tabs, Edit(t)
  PROVE  \E e \in Edits \ made :
           /\ made' = made \cup {e}
           /\ doc'[t] = doc[t] \cup {e} /\ generation'[t] = generation[t] + 1
           /\ timer'[t] # NoSave /\ timer'[t].doc = doc[t] \cup {e}
           /\ timer'[t].gen = generation[t] + 1 /\ timer'[t].token = token[t]
           /\ queued' = queued /\ saving' = saving /\ baseline' = baseline
           /\ phase[t] = "open" /\ drifted' = drifted
           /\ UNCHANGED <<storeVars, lockVars>> /\ phase' = phase
<1> USE DEF TypeOK
<1>1. PICK e \in Edits \ made :
        /\ made' = made \cup {e}
        /\ doc' = [doc EXCEPT ![t] = @ \cup {e}]
        /\ timer' = [timer EXCEPT ![t] =
             [gen |-> generation[t] + 1, token |-> token[t], doc |-> doc[t] \cup {e}]]
  BY DEF Edit
<1>2. timer'[t] = [gen |-> generation[t] + 1, token |-> token[t], doc |-> doc[t] \cup {e}]
  BY <1>1
<1>3. timer'[t] \in Capture
  BY <1>2 DEF Capture, Documents
<1>4. timer'[t] # NoSave
  BY <1>3, NoSaveIsNoCapture
<1>5. QED
  BY <1>1, <1>2, <1>4 DEF Edit, saveVars

LEMMA EnqueueEffect ==
  ASSUME TypeOK, NEW t \in Tabs, EnqueueAutosave(t)
  PROVE  /\ timer[t] # NoSave /\ timer'[t] = NoSave /\ queued'[t] = timer[t]
         /\ UNCHANGED <<storeVars, lockVars, saving, phase, doc, baseline, dirty, generation,
                        made, drifted>>
BY DEF EnqueueAutosave, TypeOK

LEMMA BeginEffect ==
  ASSUME TypeOK, NEW t \in Tabs, BeginSave(t)
  PROVE  /\ saving[t] = NoSave /\ queued[t] # NoSave /\ queued'[t] = NoSave
         /\ \/ saving'[t] = NoSave
            \/ /\ saving'[t] # NoSave /\ saving'[t].step = "prepare"
               /\ saving'[t].doc = queued[t].doc /\ saving'[t].gen = queued[t].gen
               /\ saving'[t].token = queued[t].token /\ saving'[t].token # NoToken
         /\ UNCHANGED <<storeVars, lockVars, docVars>>
BY DEF BeginSave, OwnsFence, TypeOK

LEMMA PrepareEffect ==
  ASSUME TypeOK, NEW t \in Tabs, PrepareSave(t)
  PROVE  /\ AtStep(t, "prepare")
         /\ \/ saving'[t] = NoSave
            \/ /\ saving'[t] # NoSave /\ saving'[t].step = "publish"
               /\ saving'[t].doc = IF PreparesSnapshot THEN doc[t] ELSE saving[t].doc
               /\ saving'[t].gen = saving[t].gen /\ saving'[t].token = saving[t].token
               /\ saving'[t].expected = baseline[t]
         /\ UNCHANGED <<storeVars, lockVars, queued, docVars>>
<1>1. saving[t] \in Save
  BY RunningSave DEF PrepareSave, TypeOK
<1> DEFINE next == [saving[t] EXCEPT !.step = "publish",
                                     !.doc = IF PreparesSnapshot THEN doc[t] ELSE @,
                                     !.expected = ExpectedOf(t)]
<1>2. /\ next.step = "publish" /\ next.doc = (IF PreparesSnapshot THEN doc[t] ELSE saving[t].doc)
      /\ next.gen = saving[t].gen /\ next.token = saving[t].token /\ next.expected = baseline[t]
  BY <1>1 DEF Save, ExpectedOf
<1>3. saving'[t] = NoSave \/ saving'[t] = next
  BY DEF PrepareSave, TypeOK
<1> HIDE DEF next
<1>4. QED
  BY <1>2, <1>3 DEF PrepareSave

\* A running save goes on to another step with nothing else changed.
MovesOn(t, step) ==
  /\ saving'[t] # NoSave /\ saving'[t].step = step
  /\ saving'[t].doc = saving[t].doc /\ saving'[t].gen = saving[t].gen
  /\ saving'[t].token = saving[t].token /\ saving'[t].expected = saving[t].expected

LEMMA MovingOn ==
  ASSUME TypeOK, NEW t \in Tabs, saving[t] # NoSave,
         NEW step \in {"prepare", "publish", "committed", "recorded", "refused"},
         saving' = [saving EXCEPT ![t] = [saving[t] EXCEPT !.step = step]]
  PROVE  MovesOn(t, step)
<1>1. saving[t] \in Save
  BY DEF TypeOK
<1>2. saving'[t] = [saving[t] EXCEPT !.step = step]
  BY DEF TypeOK
<1>3. saving'[t] \in Save
  BY <1>1, <1>2, SaveSteps
<1>4. saving'[t] # NoSave
  BY <1>3, NoSaveIsNotRunning
<1>5. QED
  BY <1>1, <1>2, <1>4 DEF MovesOn, Save

LEMMA PublishEffect ==
  ASSUME TypeOK, NEW t \in Tabs, PublishSave(t)
  PROVE  /\ AtStep(t, "publish")
         /\ \/ /\ MayPublish(saving[t].expected, saving[t].token) /\ stored' = saving[t].doc
               /\ fence' = fence /\ drawn' = drawn /\ MovesOn(t, "committed")
            \/ UNCHANGED storeVars /\ MovesOn(t, "refused")
         /\ UNCHANGED <<lockVars, queued, docVars>>
BY MovingOn DEF PublishSave, Publish, AtStep, TypeOK

LEMMA EndEffect ==
  ASSUME TypeOK, NEW t \in Tabs,
         AbandonSave(t) \/ FailSave(t) \/ EndRefusedSave(t) \/ FinishSave(t)
  PROVE  /\ saving[t] # NoSave /\ saving[t].step \in {"publish", "refused", "recorded"}
         /\ saving'[t] = NoSave
         /\ UNCHANGED <<storeVars, holder, lock, token, acquiring, checking, retry, queued,
                        phase, doc, baseline, generation, timer, made, drifted>>
         /\ readOnly'[t] \in {readOnly[t], TRUE}
BY DEF AbandonSave, FailSave, EndRefusedSave, FinishSave, EndSave, AtStep, lockVars, docVars,
   TypeOK

LEMMA RecordEffect ==
  ASSUME TypeOK, NEW t \in Tabs, RecordSave(t)
  PROVE  /\ AtStep(t, "committed") /\ baseline'[t] = Some(saving[t].doc)
         /\ MovesOn(t, "recorded")
         /\ UNCHANGED <<storeVars, lockVars, queued, phase, doc, dirty, generation, timer, made,
                        drifted>>
BY MovingOn DEF RecordSave, AtStep, TypeOK
LEMMA LockEffect ==
  ASSUME NEW t \in Tabs, LockStep(t)
  PROVE  UNCHANGED <<stored, doc, baseline, dirty, generation, timer, made, drifted, queued, saving>>
BY DEF LockStep, StealLock, GrantLock, HandoffTimeout, PutFence, ClaimWriteFence, AdoptLock,
   RefuseLostClaim, NoticeLoss, RecoverLock, ClaimByUser, FinishCheck, storeVars, docVars,
   saveVars

LEMMA OpenEffect ==
  ASSUME OrderInv, NEW t \in Tabs, OpenStep(t)
  PROVE  /\ UNCHANGED <<storeVars, made>>
         /\ timer'[t] = NoSave /\ queued'[t] = NoSave /\ saving'[t] = NoSave
         /\ doc'[t] \in {doc[t], stored, {}}
         /\ baseline'[t] \in {NoDoc, Some(stored)}
         /\ phase'[t] = "open" => baseline'[t] = Some(stored)
<1>1. StagesInOrder(t) /\ TypeOK
  BY DEF OrderInv, SavesInOrder, TabInOrder
<1> USE DEF TypeOK, lockVars, docVars, saveVars, storeVars
<1>2. CASE LoadProject(t)
  BY <1>1, <1>2 DEF LoadProject, StagesInOrder
<1>3. CASE VerifyProject(t)
  BY <1>1, <1>3 DEF VerifyProject, StagesInOrder
<1>4. CASE FinishOpening(t)
  BY <1>1, <1>4 DEF FinishOpening, StagesInOrder
<1>5. CASE CloseTab(t)
  BY <1>1, <1>5 DEF CloseTab
<1>6. QED
  BY <1>2, <1>3, <1>4, <1>5 DEF OpenStep

(* Only an accepted save changes the stored document.                      *)
LEMMA StoredByPublishing ==
  ASSUME TypeOK, NEW t \in Tabs, StepOf(t), stored' # stored
  PROVE  /\ PublishSave(t) /\ AtStep(t, "publish")
         /\ MayPublish(saving[t].expected, saving[t].token)
         /\ stored' = saving[t].doc /\ fence' = fence /\ MovesOn(t, "committed")
<1>1. ~LockStep(t) /\ ~OpenStep(t)
  BY LockEffect DEF OpenStep, LoadProject, VerifyProject, FinishOpening, CloseTab, storeVars
<1>2. PublishSave(t)
  BY <1>1 DEF StepOf, SaveStep, Edit, EnqueueAutosave, BeginSave, PrepareSave, AbandonSave,
     FailSave, EndRefusedSave, RecordSave, FinishSave, storeVars
<1>3. QED
  BY <1>2, PublishEffect DEF storeVars

(* Only a claim draws a token, a fresh one, and makes it the durable one.  *)
LEMMA FenceByClaiming ==
  ASSUME NEW t \in Tabs, StepOf(t)
  PROVE  \/ fence' = fence /\ drawn' = drawn
         \/ /\ PutFence(t) /\ fence' \in Tokens \ drawn /\ drawn' = drawn \cup {fence'}
            /\ acquiring' = [acquiring EXCEPT ![t] =
                 [step |-> "return", for |-> acquiring[t].for, token |-> fence']]
<1>1. CASE LockStep(t)
  BY <1>1 DEF LockStep, StealLock, GrantLock, HandoffTimeout, PutFence, ClaimWriteFence, AdoptLock,
     RefuseLostClaim, NoticeLoss, RecoverLock, ClaimByUser, FinishCheck, storeVars, Acquire
<1>2. CASE OpenStep(t)
  BY <1>2 DEF OpenStep, LoadProject, VerifyProject, FinishOpening, CloseTab, storeVars
<1>3. CASE SaveStep(t)
  BY <1>3 DEF SaveStep, Edit, EnqueueAutosave, BeginSave, PrepareSave, PublishSave, Publish,
     AbandonSave, FailSave, EndRefusedSave, RecordSave, FinishSave, storeVars
<1>4. QED
  BY <1>1, <1>2, <1>3 DEF StepOf

\* The tab's part of the lock protocol and its generation are left alone.
KeepsLock(t) ==
  /\ lock'[t] = lock[t] /\ token'[t] = token[t] /\ acquiring'[t] = acquiring[t]
  /\ checking'[t] = checking[t] /\ retry'[t] = retry[t] /\ readOnly'[t] = readOnly[t]
  /\ replaced'[t] = replaced[t] /\ (t \in forgotten' <=> t \in forgotten)
  /\ generation'[t] = generation[t] /\ dirty'[t] = dirty[t]

LEMMA OtherLocksKept ==
  ASSUME TypeOK, NEW t \in Tabs, StepOf(t), NEW u \in Tabs, u # t
  PROVE  KeepsLock(u)
<1> USE DEF KeepsLock, TypeOK, lockVars, docVars
<1>1. CASE LockStep(t)
  BY <1>1 DEF LockStep, StealLock, GrantLock, HandoffTimeout, PutFence, AdoptLock,
     RefuseLostClaim, NoticeLoss, RecoverLock, ClaimByUser, FinishCheck, Acquire, Replace
<1>2. CASE OpenStep(t)
  BY <1>2 DEF OpenStep, LoadProject, VerifyProject, FinishOpening, CloseTab
<1>3. CASE SaveStep(t)
  BY <1>3 DEF SaveStep, Edit, EnqueueAutosave, BeginSave, PrepareSave, PublishSave,
     AbandonSave, FailSave, EndRefusedSave, RecordSave, FinishSave
<1>4. QED
  BY <1>1, <1>2, <1>3 DEF StepOf

-----------------------------------------------------------------------------
(* Lock recovery.  It is known why a claim that the tab gives up needs no  *)
(* retry: a claim of the user replaced the lock, and an opening that fails *)
(* closes the tab.  While an activation runs, recovery is owed to the lock *)
(* that replaced the activation's own; the end of the activation sees to   *)
(* the other one.                                                          *)
UserClaims(t) ==
  /\ acquiring[t].step = "steal" => acquiring[t].for = "user"
  /\ acquiring[t].step # "idle" /\ acquiring[t].for = "user" => lock[t] = "none"

RecoveryDue(t) ==
  /\ replaced[t] => phase[t] = "activating"
  /\ (phase[t] = "open" \/ replaced[t]) /\ lock[t] = "lost" /\ t \notin forgotten
       => retry[t] # "none" \/ acquiring[t].step # "idle"

RecoveryInv ==
  TypeOK /\ \A t \in Tabs : OpensLoaded(t) /\ UserClaims(t) /\ RecoveryDue(t)

LEMMA InitRecovery == Init => RecoveryInv
<1>1. Init => TypeOK
  BY InitType
<1>2. QED
  BY <1>1 DEF Init, RecoveryInv, OpensLoaded, UserClaims, RecoveryDue, Idle

LEMMA LockStepRecovery ==
  ASSUME TypeOK, NEW t \in Tabs, LockStep(t), OpensLoaded(t), UserClaims(t), RecoveryDue(t)
  PROVE  UserClaims(t)' /\ RecoveryDue(t)'
<1> USE DEF TypeOK, docVars, saveVars, UserClaims, RecoveryDue
<1>1. CASE StealLock(t)
  BY <1>1 DEF StealLock, Acquire
<1>2. CASE GrantLock(t)
  BY <1>2 DEF GrantLock, Acquire
<1>3. CASE HandoffTimeout(t)
  BY <1>3 DEF HandoffTimeout, Idle, Replace
<1>4. CASE PutFence(t)
  BY <1>4 DEF PutFence, Acquire
<1>5. CASE AdoptLock(t)
  BY <1>5 DEF AdoptLock, Idle, Replace, OpensLoaded
<1>6. CASE RefuseLostClaim(t)
  <2>1. acquiring[t].for \in Purposes
    BY DEF Acquisition
  <2>2. acquiring'[t].step = "idle"
    BY <1>6 DEF RefuseLostClaim, Idle
  <2>3. acquiring[t].for = "user" => lock'[t] = "none"
    BY <1>6 DEF RefuseLostClaim
  <2>4. acquiring[t].for \in {"recover", "available"} => retry'[t] = "timer"
    BY <1>6 DEF RefuseLostClaim, RetriesAfter
  <2>5. acquiring[t].for = "open" => phase'[t] = "closed"
    BY <1>6 DEF RefuseLostClaim
  <2>6. replaced'[t] => phase'[t] = "activating"
    BY <1>6 DEF RefuseLostClaim, OpensLoaded
  <2>7. QED
    BY <2>1, <2>2, <2>3, <2>4, <2>5, <2>6 DEF Purposes
<1>7. CASE NoticeLoss(t)
  BY <1>7 DEF NoticeLoss, Active
<1>8. CASE RecoverLock(t)
  BY <1>8 DEF RecoverLock, Acquire
<1>9. CASE ClaimByUser(t)
  BY <1>9 DEF ClaimByUser, Acquire, Replace
<1>10. CASE FinishCheck(t)
  BY <1>10 DEF FinishCheck
<1>11. QED
  BY <1>1, <1>2, <1>3, <1>4, <1>5, <1>6, <1>7, <1>8, <1>9, <1>10 DEF LockStep

LEMMA StepRecovery ==
  ASSUME RecoveryInv, [Next]_vars
  PROVE  RecoveryInv'
<1>1. TypeOK /\ TypeOK'
  BY NextType DEF RecoveryInv
<1>2. CASE Next
  <2>1. PICK t \in Tabs : StepOf(t)
    BY <1>2 DEF Next, StepOf
  <2> SUFFICES ASSUME NEW u \in Tabs PROVE OpensLoaded(u)' /\ UserClaims(u)' /\ RecoveryDue(u)'
    BY <1>1 DEF RecoveryInv
  <2>2. OpensLoaded(u)'
    BY <1>1, <2>1, StepOpensLoaded DEF RecoveryInv
  <2>3. OpensLoaded(u) /\ UserClaims(u) /\ RecoveryDue(u)
    BY DEF RecoveryInv
  <2>4. CASE u # t
    <3>1. KeepsLock(u) /\ phase'[u] = phase[u]
      BY <1>1, <2>1, <2>4, OtherLocksKept, OtherTabsKept
    <3>2. QED
      BY <2>2, <2>3, <3>1 DEF KeepsLock, UserClaims, RecoveryDue
  <2>5. CASE u = t /\ LockStep(t)
    BY <1>1, <2>2, <2>3, <2>5, LockStepRecovery
  <2>6. CASE u = t /\ OpenStep(t)
    BY <1>1, <2>2, <2>3, <2>6 DEF OpenStep, LoadProject, VerifyProject, FinishOpening, CloseTab,
       RearmsTimer, Idle, lockVars, TypeOK, UserClaims, RecoveryDue
  <2>7. CASE u = t /\ SaveStep(t)
    <3>1. UNCHANGED <<phase, lock, retry, replaced, acquiring, forgotten>>
      BY <2>7 DEF SaveStep, Edit, EnqueueAutosave, BeginSave, PrepareSave, PublishSave,
         AbandonSave, FailSave, EndRefusedSave, RecordSave, FinishSave, lockVars, docVars
    <3>2. QED
      BY <2>2, <2>3, <3>1 DEF UserClaims, RecoveryDue
  <2>8. QED
    BY <2>1, <2>4, <2>5, <2>6, <2>7 DEF StepOf
<1>3. CASE UNCHANGED vars
  BY <1>1, <1>3 DEF vars, lockVars, docVars, RecoveryInv, OpensLoaded, UserClaims, RecoveryDue
<1>4. QED
  BY <1>2, <1>3

(* For any number of tabs and claims: an open tab that lost its lock has a *)
(* recovery due or under way, and one that waits is in the queue, unless   *)
(* the end of its opening cleared the timer of a lock that replaced the    *)
(* one it had opened with.                                                 *)
THEOREM RecoveryIsNeverForgotten == Spec => []RecoveryIsDue
<1>1. Init => RecoveryInv
  BY InitRecovery
<1>2. RecoveryInv /\ [Next]_vars => RecoveryInv'
  BY StepRecovery
<1>3. RecoveryInv => RecoveryIsDue
  BY DEF RecoveryInv, RecoveryDue, RecoveryIsDue, RecoveryUnderWay, Waits
<1>4. QED
  BY <1>1, <1>2, <1>3, PTL DEF Spec
-----------------------------------------------------------------------------
(* The fenced writer.  That the baseline of the tab with the durable token *)
(* is the stored document needs to be known of every tab, because late     *)
(* commits, recoveries and claims hand the token and the document on:      *)
(*  - tokens are fresh, and each of them belongs to one tab;               *)
(*  - what a tab may still publish holds an edit that nobody else knows,   *)
(*    or is what the tab replaces, so that a document another tab compares *)
(*    its baseline with never comes back;                                  *)
(*  - from the commit until it is recorded, the committed document stands  *)
(*    for the baseline.                                                    *)

\* The baseline, once the commit of the running save is recorded.
BaseOf(t) == IF AtStep(t, "committed") THEN Some(saving[t].doc) ELSE baseline[t]

\* Every document a tab has, or compares the stored one with.
KnownTo(t) ==
  {doc[t]} \cup baseline[t] \cup checking[t].expected
    \cup Held(timer[t]) \cup Held(queued[t]) \cup Held(saving[t])

DocsAreMade(t) == \A d \in KnownTo(t) : d \subseteq made
EditsAreMade == stored \subseteq made /\ \A t \in Tabs : DocsAreMade(t)

TokenOf(save) == IF save = NoSave THEN NoToken ELSE save.token
TokensOf(t) ==
  {token[t], acquiring[t].token, TokenOf(timer[t]), TokenOf(queued[t]), TokenOf(saving[t])}
    \ {NoToken}

TokensAreOwn ==
  /\ fence \in drawn \cup {NoToken}
  /\ \A t \in Tabs : TokensOf(t) \subseteq drawn
  /\ \A t \in Tabs : saving[t] # NoSave => saving[t].token # NoToken
  /\ \A t, u \in Tabs : t # u => TokensOf(t) \cap TokensOf(u) = {}

\* A step adds to what a tab knows the stored document, or a fresh edit.
LEMMA KnownGrows ==
  ASSUME OrderInv, NEW t \in Tabs, StepOf(t), NEW d \in KnownTo(t)'
  PROVE  d \in KnownTo(t) \/ d = stored \/ d = {}
           \/ \E e \in Edits \ made : d = doc[t] \cup {e} /\ e \in made'
<1>1. TypeOK
  BY DEF OrderInv
<1> USE DEF KnownTo, NoDoc, Some
<1>2. CASE LockStep(t)
  <2>1. checking'[t].expected \in {checking[t].expected, baseline[t], NoDoc}
    BY <1>1, <1>2 DEF LockStep, StealLock, GrantLock, HandoffTimeout, PutFence, AdoptLock,
       RefuseLostClaim, NoticeLoss, RecoverLock, ClaimByUser, FinishCheck, NotChecking, TypeOK
  <2>2. QED
    BY <1>2, <2>1, LockEffect DEF Held
<1>3. CASE OpenStep(t)
  <2>1. checking'[t].expected \in {checking[t].expected, NoDoc}
    BY <1>1, <1>3 DEF OpenStep, LoadProject, VerifyProject, FinishOpening, CloseTab, NotChecking,
       TypeOK, lockVars
  <2>2. QED
    BY <1>3, <2>1, OpenEffect DEF Held
<1>4. CASE SaveStep(t)
  <2>1. CASE Edit(t)
    BY <1>1, <2>1, EditEffect DEF Held, lockVars
  <2>2. CASE EnqueueAutosave(t)
    BY <1>1, <2>2, EnqueueEffect DEF Held, lockVars
  <2>3. CASE BeginSave(t)
    BY <1>1, <2>3, BeginEffect DEF Held, lockVars, docVars
  <2>4. CASE PrepareSave(t)
    BY <1>1, <2>4, PrepareEffect DEF Held, lockVars, docVars, AtStep
  <2>5. CASE PublishSave(t)
    BY <1>1, <2>5, PublishEffect DEF Held, lockVars, docVars, AtStep, MovesOn
  <2>6. CASE AbandonSave(t) \/ FailSave(t) \/ EndRefusedSave(t) \/ FinishSave(t)
    BY <1>1, <2>6, EndEffect DEF Held
  <2>7. CASE RecordSave(t)
    BY <1>1, <2>7, RecordEffect DEF Held, lockVars, AtStep, MovesOn
  <2>8. QED
    BY <1>4, <2>1, <2>2, <2>3, <2>4, <2>5, <2>6, <2>7 DEF SaveStep
<1>5. QED
  BY <1>2, <1>3, <1>4 DEF StepOf

\* What the other tabs know does not change.
LEMMA OthersKnowTheSame ==
  ASSUME TypeOK, NEW t \in Tabs, StepOf(t), NEW u \in Tabs, u # t
  PROVE  KnownTo(u)' = KnownTo(u) /\ BaseOf(u)' = BaseOf(u)
<1>1. KeepsSaves(u) /\ KeepsLock(u)
  BY OtherTabsKept, OtherLocksKept
<1>2. QED
  BY <1>1 DEF KeepsSaves, KeepsLock, KnownTo, BaseOf, Held, AtStep

LEMMA MadeGrows ==
  ASSUME NEW t \in Tabs, StepOf(t)
  PROVE  made \subseteq made'
<1>1. CASE LockStep(t)
  BY <1>1, LockEffect
<1>2. CASE OpenStep(t) \/ SaveStep(t)
  BY <1>2 DEF OpenStep, LoadProject, VerifyProject, FinishOpening, CloseTab, SaveStep, Edit,
     EnqueueAutosave, BeginSave, PrepareSave, PublishSave, AbandonSave, FailSave, EndRefusedSave,
     RecordSave, FinishSave, docVars
<1>3. QED
  BY <1>1, <1>2 DEF StepOf

LEMMA StepEditsMade ==
  ASSUME OrderInv, EditsAreMade, NEW t \in Tabs, StepOf(t)
  PROVE  EditsAreMade'
<1>1. made \subseteq made' /\ TypeOK
  BY MadeGrows DEF OrderInv
<1>2. stored' = stored \/ stored' \in KnownTo(t)
  <2>1. CASE stored' # stored
    BY <1>1, <2>1, StoredByPublishing DEF KnownTo, AtStep, Held, Some
  <2>2. QED
    BY <2>1
<1>3. stored' \subseteq made'
  BY <1>1, <1>2 DEF EditsAreMade, DocsAreMade
<1>4. ASSUME NEW u \in Tabs, NEW d \in KnownTo(u)' PROVE d \subseteq made'
  <2>1. CASE u # t
    <3>1. d \in KnownTo(u)
      BY <1>1, <1>4, <2>1, OthersKnowTheSame
    <3>2. QED
      BY <1>1, <3>1 DEF EditsAreMade, DocsAreMade
  <2>2. CASE u = t
    <3>1. doc[t] \subseteq made /\ stored \subseteq made
      BY DEF EditsAreMade, DocsAreMade, KnownTo
    <3>2. d \in KnownTo(t) \/ d = stored \/ d = {}
            \/ \E e \in Edits \ made : d = doc[t] \cup {e} /\ e \in made'
      BY <1>4, <2>2, KnownGrows
    <3>3. d \in KnownTo(t) => d \subseteq made
      BY DEF EditsAreMade, DocsAreMade
    <3>4. QED
      BY <1>1, <3>1, <3>2, <3>3
  <2>3. QED
    BY <2>1, <2>2
<1>5. QED
  BY <1>3, <1>4 DEF EditsAreMade, DocsAreMade

\* A step of a tab keeps the tokens it has, and may add one that is fresh.
LEMMA TokensAreFresh ==
  ASSUME OrderInv, TokensAreOwn, NEW t \in Tabs, StepOf(t)
  PROVE  TokensOf(t)' \subseteq TokensOf(t) \cup (drawn' \ drawn)
<1>1. TypeOK
  BY DEF OrderInv
<1>2. CASE LockStep(t)
  <2>1. \/ acquiring'[t].token \in {acquiring[t].token, NoToken}
        \/ acquiring'[t].token \in drawn' \ drawn
    <3>1. CASE PutFence(t)
      BY <1>1, <3>1 DEF PutFence, ClaimWriteFence, Acquire, TypeOK
    <3>2. CASE ~PutFence(t)
      BY <1>1, <1>2, <3>2 DEF LockStep, StealLock, GrantLock, HandoffTimeout, AdoptLock,
         RefuseLostClaim, NoticeLoss, RecoverLock, ClaimByUser, FinishCheck, Acquire, Idle, TypeOK
    <3>3. QED
      BY <3>1, <3>2
  <2>2. token'[t] \in {token[t], acquiring[t].token, NoToken}
    BY <1>1, <1>2 DEF LockStep, StealLock, GrantLock, HandoffTimeout, PutFence, AdoptLock,
       RefuseLostClaim, NoticeLoss, RecoverLock, ClaimByUser, FinishCheck, TypeOK
  <2>3. UNCHANGED <<timer, queued, saving>>
    BY <1>2, LockEffect
  <2>4. QED
    BY <2>1, <2>2, <2>3 DEF TokensOf, TokenOf
<1>3. CASE OpenStep(t)
  <2>1. token'[t] \in {token[t], NoToken} /\ acquiring'[t].token \in {acquiring[t].token, NoToken}
    BY <1>1, <1>3 DEF OpenStep, LoadProject, VerifyProject, FinishOpening, CloseTab, Idle,
       TypeOK, lockVars
  <2>2. QED
    BY <1>3, <2>1, OpenEffect DEF TokensOf, TokenOf
<1>4. CASE SaveStep(t)
  <2> USE DEF TokensOf, TokenOf
  <2>1. CASE Edit(t)
    BY <1>1, <2>1, EditEffect DEF lockVars
  <2>2. CASE EnqueueAutosave(t)
    BY <1>1, <2>2, EnqueueEffect DEF lockVars
  <2>3. CASE BeginSave(t)
    BY <1>1, <2>3, BeginEffect DEF lockVars, docVars
  <2>4. CASE PrepareSave(t)
    BY <1>1, <2>4, PrepareEffect DEF lockVars, docVars, AtStep
  <2>5. CASE PublishSave(t)
    BY <1>1, <2>5, PublishEffect DEF lockVars, docVars, AtStep, MovesOn
  <2>6. CASE AbandonSave(t) \/ FailSave(t) \/ EndRefusedSave(t) \/ FinishSave(t)
    BY <1>1, <2>6, EndEffect
  <2>7. CASE RecordSave(t)
    BY <1>1, <2>7, RecordEffect DEF lockVars, AtStep, MovesOn
  <2>8. QED
    BY <1>4, <2>1, <2>2, <2>3, <2>4, <2>5, <2>6, <2>7 DEF SaveStep
<1>5. QED
  BY <1>2, <1>3, <1>4 DEF StepOf

LEMMA SavesCarryTokens ==
  ASSUME OrderInv, TokensAreOwn, NEW t \in Tabs, StepOf(t), saving'[t] # NoSave
  PROVE  saving'[t].token # NoToken
<1>1. TypeOK
  BY DEF OrderInv
<1>2. saving[t] # NoSave => saving[t].token # NoToken
  BY DEF TokensAreOwn
<1>3. CASE LockStep(t)
  BY <1>2, <1>3, LockEffect
<1>4. CASE OpenStep(t)
  BY <1>4, OpenEffect
<1>5. CASE SaveStep(t)
  <2>1. CASE BeginSave(t)
    BY <1>1, <2>1, BeginEffect
  <2>2. CASE PrepareSave(t)
    BY <1>1, <1>2, <2>2, PrepareEffect DEF AtStep
  <2>3. CASE PublishSave(t)
    BY <1>1, <1>2, <2>3, PublishEffect DEF AtStep, MovesOn
  <2>4. CASE AbandonSave(t) \/ FailSave(t) \/ EndRefusedSave(t) \/ FinishSave(t)
    BY <1>1, <2>4, EndEffect
  <2>5. CASE RecordSave(t)
    BY <1>1, <1>2, <2>5, RecordEffect DEF AtStep, MovesOn
  <2>6. CASE Edit(t) \/ EnqueueAutosave(t)
    BY <1>2, <2>6 DEF Edit, EnqueueAutosave, saveVars
  <2>7. QED
    BY <1>5, <2>1, <2>2, <2>3, <2>4, <2>5, <2>6 DEF SaveStep
<1>6. QED
  BY <1>3, <1>4, <1>5 DEF StepOf

LEMMA StepTokensOwn ==
  ASSUME OrderInv, TokensAreOwn, NEW t \in Tabs, StepOf(t)
  PROVE  TokensAreOwn'
<1>1. /\ drawn \subseteq drawn' /\ (fence' = fence \/ fence' \in drawn')
  BY FenceByClaiming
<1>2. TokensOf(t)' \subseteq TokensOf(t) \cup (drawn' \ drawn)
  BY TokensAreFresh
<1>3. ASSUME NEW u \in Tabs, u # t
      PROVE  TokensOf(u)' = TokensOf(u) /\ saving'[u] = saving[u]
  <2>1. KeepsSaves(u) /\ KeepsLock(u)
    BY <1>3, OtherTabsKept, OtherLocksKept DEF OrderInv
  <2>2. QED
    BY <2>1 DEF KeepsSaves, KeepsLock, TokensOf, TokenOf
<1>4. \A u \in Tabs : TokensOf(u) \subseteq drawn
  BY DEF TokensAreOwn
<1>5. \A u \in Tabs : TokensOf(u)' \subseteq drawn'
  BY <1>1, <1>2, <1>3, <1>4
<1>6. \A u \in Tabs : saving'[u] # NoSave => saving'[u].token # NoToken
  BY <1>3, SavesCarryTokens DEF TokensAreOwn
<1>7. \A u, v \in Tabs : u # v => TokensOf(u) \cap TokensOf(v) = {}
  BY DEF TokensAreOwn
<1>8. \A u, v \in Tabs : u # v => TokensOf(u)' \cap TokensOf(v)' = {}
  BY <1>2, <1>3, <1>4, <1>7
<1>9. fence' \in drawn' \cup {NoToken}
  BY <1>1 DEF TokensAreOwn
<1>10. QED
  BY <1>5, <1>6, <1>8, <1>9 DEF TokensAreOwn

-----------------------------------------------------------------------------
\* An edit that only this tab has.
Private(t, e) ==
  /\ e \in doc[t] /\ e \notin stored
  /\ \A u \in Tabs \ {t} : \A d \in KnownTo(u) : e \notin d

\* The documents that saves already under way may hand to the publication, and
\* the one that is being published.
Pending(t) ==
  IF PreparesSnapshot
  THEN IF timer[t] # NoSave \/ queued[t] # NoSave \/ AtStep(t, "prepare") THEN {doc[t]} ELSE {}
  ELSE Held(timer[t]) \cup Held(queued[t])
         \cup (IF AtStep(t, "prepare") THEN Held(saving[t]) ELSE {})
ToPublish(t) == Pending(t) \cup (IF AtStep(t, "publish") THEN Held(saving[t]) ELSE {})

\* Whatever the tab publishes has every edit of it that others know, and more than
\* they know unless it is what the tab replaces.
HasNews(t, d) ==
  /\ \A e \in doc[t] : Private(t, e) \/ e \in d
  /\ d \in BaseOf(t) \/ \E e \in d : Private(t, e)
PublishesNews(t) == \A d \in ToPublish(t) : HasNews(t, d)

NewsInv == OrderInv /\ EditsAreMade /\ TokensAreOwn /\ \A t \in Tabs : PublishesNews(t)

\* Others learn nothing of what is private to a tab.
LEMMA StaysPrivate ==
  ASSUME NewsInv, NEW t \in Tabs, NEW u \in Tabs, u # t, StepOf(u), NEW e, Private(t, e)
  PROVE  Private(t, e)'
<1>1. TypeOK /\ OrderInv
  BY DEF NewsInv, OrderInv
<1>2. doc'[t] = doc[t]
  BY <1>1, OtherTabsKept DEF KeepsSaves
<1>3. e \notin stored'
  <2>1. CASE stored' # stored
    <3>1. stored' \in KnownTo(u)
      BY <1>1, <2>1, StoredByPublishing DEF KnownTo, AtStep, Held, Some
    <3>2. QED
      BY <3>1 DEF Private
  <2>2. QED
    BY <2>1 DEF Private
<1>4. ASSUME NEW v \in Tabs \ {t}, NEW d \in KnownTo(v)' PROVE e \notin d
  <2>1. CASE v # u
    BY <1>1, <1>4, <2>1, OthersKnowTheSame DEF Private
  <2>2. CASE v = u
    <3>1. d \in KnownTo(u) \/ d = stored \/ d = {} \/ \E f \in Edits \ made : d = doc[u] \cup {f}
      BY <1>1, <1>4, <2>2, KnownGrows
    <3>2. e \in made
      BY DEF Private, NewsInv, EditsAreMade, DocsAreMade, KnownTo
    <3>3. e \notin doc[u] /\ e \notin stored /\ \A c \in KnownTo(u) : e \notin c
      BY DEF Private, KnownTo
    <3>4. QED
      BY <3>1, <3>2, <3>3
  <2>3. QED
    BY <2>1, <2>2
<1>5. QED
  BY <1>2, <1>3, <1>4 DEF Private

\* What the tab itself does keeps an edit private as long as it is not stored.
LEMMA OwnPrivate ==
  ASSUME TypeOK, NEW t \in Tabs, StepOf(t), NEW e, Private(t, e), e \in doc'[t], e \notin stored'
  PROVE  Private(t, e)'
BY OthersKnowTheSame DEF Private

LEMMA OtherStepNews ==
  ASSUME NewsInv, NEW t \in Tabs, NEW u \in Tabs, u # t, StepOf(u)
  PROVE  PublishesNews(t)'
<1>1. TypeOK /\ PublishesNews(t)
  BY DEF NewsInv, OrderInv
<1>2. KeepsSaves(t) /\ BaseOf(t)' = BaseOf(t)
  BY <1>1, OtherTabsKept, OthersKnowTheSame
<1>3. ToPublish(t)' = ToPublish(t) /\ doc'[t] = doc[t]
  BY <1>2 DEF KeepsSaves, ToPublish, Pending, AtStep, Held
<1>4. \A e : Private(t, e) => Private(t, e)'
  BY StaysPrivate
<1>5. QED
  BY <1>1, <1>2, <1>3, <1>4 DEF PublishesNews, HasNews

LEMMA NothingNewToPublish ==
  ASSUME NewsInv, NEW t \in Tabs, StepOf(t), stored' = stored, doc'[t] = doc[t],
         BaseOf(t)' = BaseOf(t), ToPublish(t)' \subseteq ToPublish(t)
  PROVE  PublishesNews(t)'
<1>1. PublishesNews(t) /\ TypeOK
  BY DEF NewsInv, OrderInv
<1>2. \A e : Private(t, e) => Private(t, e)'
  <2> SUFFICES ASSUME NEW e, Private(t, e) PROVE Private(t, e)'
    OBVIOUS
  <2>1. e \in doc[t] /\ e \notin stored
    BY DEF Private
  <2>2. QED
    BY <1>1, <2>1, OwnPrivate
<1>3. QED
  BY <1>1, <1>2 DEF PublishesNews, HasNews

\* A fresh edit is private, and the capture it arms has everything the tab shows.
LEMMA EditNews ==
  ASSUME NewsInv, NEW t \in Tabs, Edit(t)
  PROVE  PublishesNews(t)'
<1>1. PublishesNews(t) /\ TypeOK /\ StepOf(t)
  BY DEF NewsInv, OrderInv, StepOf, SaveStep
<1>2. PICK e \in Edits \ made :
        /\ doc'[t] = doc[t] \cup {e}
        /\ timer'[t] # NoSave /\ timer'[t].doc = doc[t] \cup {e}
        /\ queued' = queued /\ saving' = saving /\ baseline' = baseline
        /\ stored' = stored
  BY <1>1, EditEffect DEF storeVars
<1>3. BaseOf(t)' = BaseOf(t)
  BY <1>2 DEF BaseOf, AtStep
<1>4. Private(t, e)'
  <2>1. e \notin stored'
    BY <1>2 DEF NewsInv, EditsAreMade
  <2>2. ASSUME NEW u \in Tabs \ {t}, NEW d \in KnownTo(u)' PROVE e \notin d
    <3>1. d \in KnownTo(u)
      BY <1>1, <2>2, OthersKnowTheSame
    <3>2. QED
      BY <3>1 DEF NewsInv, EditsAreMade, DocsAreMade
  <2>3. QED
    BY <1>2, <2>1, <2>2 DEF Private
<1>5. \A f : Private(t, f) => Private(t, f)'
  <2> SUFFICES ASSUME NEW f, Private(t, f) PROVE Private(t, f)'
    OBVIOUS
  <2>1. f \in doc[t] /\ f \notin stored
    BY DEF Private
  <2>2. QED
    BY <1>1, <1>2, <2>1, OwnPrivate
<1>6. ASSUME NEW d \in ToPublish(t)' PROVE d = doc'[t] \/ d \in ToPublish(t)
  BY <1>2, <1>6 DEF ToPublish, Pending, AtStep, Held, Some
<1>7. HasNews(t, doc[t] \cup {e})'
  BY <1>2, <1>4 DEF HasNews
<1>8. ASSUME NEW d \in ToPublish(t) PROVE HasNews(t, d)'
  <2>1. HasNews(t, d)
    BY <1>1 DEF PublishesNews
  <2>2. QED
    BY <1>2, <1>3, <1>4, <1>5, <2>1 DEF HasNews
<1>9. QED
  BY <1>2, <1>6, <1>7, <1>8 DEF PublishesNews

\* What waits behind an accepted save has what that save stored, and more unless it
\* is the same document.
LEMMA AcceptedNews ==
  ASSUME NewsInv, NEW t \in Tabs, PublishSave(t), stored' = saving[t].doc,
         MovesOn(t, "committed")
  PROVE  PublishesNews(t)'
<1>1. /\ PublishesNews(t) /\ TypeOK /\ StepOf(t) /\ StagesInOrder(t)
      /\ AtStep(t, "publish") /\ UNCHANGED <<queued, timer, doc>>
  BY PublishEffect DEF NewsInv, OrderInv, SavesInOrder, TabInOrder, StepOf, SaveStep, docVars
<1> DEFINE p == saving[t].doc
<1>2. /\ HasNews(t, p) /\ BaseOf(t)' = {p}
  BY <1>1 DEF PublishesNews, ToPublish, AtStep, Held, Some, BaseOf, MovesOn
<1>3. ASSUME NEW e, Private(t, e), e \notin p PROVE Private(t, e)'
  <2>1. e \in doc[t]
    BY <1>3 DEF Private
  <2>2. QED
    BY <1>1, <1>3, <2>1, OwnPrivate
<1>4. ASSUME NEW d \in ToPublish(t)'
      PROVE  d \in Pending(t) /\ p \subseteq d /\ d \subseteq doc[t]
  <2>1. p \in Held(saving[t])
    BY <1>1 DEF AtStep, Held, Some
  <2>2. CASE PreparesSnapshot
    <3>1. d = doc[t] /\ d \in Pending(t)
      BY <1>1, <1>4, <2>2 DEF ToPublish, Pending, AtStep, MovesOn
    <3>2. p \subseteq doc[t]
      BY <1>1, <2>1 DEF StagesInOrder, Within, Some
    <3>3. QED
      BY <3>1, <3>2
  <2>3. CASE ~PreparesSnapshot
    <3>1. d \in Held(timer[t]) \cup Held(queued[t])
      BY <1>1, <1>4, <2>3 DEF ToPublish, Pending, AtStep, MovesOn, Held
    <3>2. d \in Pending(t)
      BY <2>3, <3>1 DEF Pending
    <3>3. p \subseteq d /\ d \subseteq doc[t]
      BY <1>1, <2>1, <2>3, <3>1 DEF StagesInOrder, Within, Some
    <3>4. QED
      BY <3>2, <3>3
  <2>4. QED
    BY <2>2, <2>3
<1>5. ASSUME NEW d \in ToPublish(t)' PROVE HasNews(t, d)'
  <2>1. d \in Pending(t) /\ p \subseteq d /\ d \subseteq doc[t]
    BY <1>4, <1>5
  <2>2. HasNews(t, d)
    BY <1>1, <2>1 DEF PublishesNews, ToPublish
  <2>3. ASSUME NEW e \in doc'[t] PROVE Private(t, e)' \/ e \in d
    BY <1>1, <1>3, <2>1, <2>2, <2>3 DEF HasNews
  <2>4. d \in BaseOf(t)' \/ \E e \in d : Private(t, e)'
    <3>1. CASE d = p
      BY <1>2, <3>1
    <3>2. CASE d # p
      <4>1. PICK e \in d : e \notin p
        BY <2>1, <3>2
      <4>2. Private(t, e)
        BY <1>2, <2>1, <4>1 DEF HasNews
      <4>3. QED
        BY <1>3, <4>1, <4>2
    <3>3. QED
      BY <3>1, <3>2
  <2>5. QED
    BY <2>3, <2>4 DEF HasNews
<1>6. QED
  BY <1>5 DEF PublishesNews

LEMMA OwnStepNews ==
  ASSUME NewsInv, NEW t \in Tabs, StepOf(t)
  PROVE  PublishesNews(t)'
<1>1. OrderInv /\ TypeOK
  BY DEF NewsInv, OrderInv
<1> DEFINE Quiet == /\ stored' = stored /\ doc'[t] = doc[t] /\ BaseOf(t)' = BaseOf(t)
                    /\ ToPublish(t)' \subseteq ToPublish(t)
<1>2. Quiet => PublishesNews(t)'
  BY NothingNewToPublish
<1>3. CASE LockStep(t)
  BY <1>2, <1>3, LockEffect DEF BaseOf, ToPublish, Pending, AtStep, Held
<1>4. CASE OpenStep(t)
  BY <1>1, <1>4, OpenEffect DEF PublishesNews, ToPublish, Pending, AtStep, Held, NoDoc
<1>5. CASE SaveStep(t)
  <2> USE DEF BaseOf, ToPublish, Pending, Held, AtStep, NoDoc, docVars, storeVars, Some
  <2>1. CASE Edit(t)
    BY <2>1, EditNews
  <2>2. CASE EnqueueAutosave(t)
    <3>1. Quiet
      BY <1>1, <2>2, EnqueueEffect
    <3>2. QED
      BY <1>2, <3>1
  <2>3. CASE BeginSave(t)
    <3>1. Quiet
      BY <1>1, <2>3, BeginEffect
    <3>2. QED
      BY <1>2, <3>1
  <2>4. CASE PrepareSave(t)
    <3>1. Quiet
      BY <1>1, <2>4, PrepareEffect
    <3>2. QED
      BY <1>2, <3>1
  <2>5. CASE PublishSave(t)
    <3>1. CASE stored' = saving[t].doc /\ MovesOn(t, "committed")
      BY <2>5, <3>1, AcceptedNews
    <3>2. CASE UNCHANGED storeVars /\ MovesOn(t, "refused")
      <4>1. AtStep(t, "publish") /\ UNCHANGED <<queued, timer, doc, baseline>>
        BY <1>1, <2>5, PublishEffect
      <4>2. Quiet
        BY <3>2, <4>1 DEF MovesOn
      <4>3. QED
        BY <1>2, <4>2
    <3>3. QED
      BY <1>1, <2>5, <3>1, <3>2, PublishEffect
  <2>6. CASE AbandonSave(t) \/ FailSave(t) \/ EndRefusedSave(t) \/ FinishSave(t)
    <3>1. Quiet
      BY <1>1, <2>6, EndEffect
    <3>2. QED
      BY <1>2, <3>1
  <2>7. CASE RecordSave(t)
    <3>1. Quiet
      BY <1>1, <2>7, RecordEffect DEF MovesOn
    <3>2. QED
      BY <1>2, <3>1
  <2>8. QED
    BY <1>5, <2>1, <2>2, <2>3, <2>4, <2>5, <2>6, <2>7 DEF SaveStep
<1>6. QED
  BY <1>3, <1>4, <1>5 DEF StepOf

-----------------------------------------------------------------------------
\* What the tab compares the store with is the stored document, or never is again.
BaselineIsExact(t) ==
  /\ AtStep(t, "publish") => saving[t].expected = baseline[t]
  /\ AtStep(t, "committed") /\ stored \in baseline[t] => stored = saving[t].doc
  /\ checking[t].on /\ stored \in checking[t].expected => BaseOf(t) = Some(stored)
  /\ phase[t] = "open" /\ OwnsFence(t, fence) /\ ~checking[t].on => BaseOf(t) = Some(stored)

\* A capture of the current generation is the current document, and a commit under
\* the durable token has not been replaced.
SavesAreCurrent(t) ==
  /\ \A save \in {timer[t], queued[t], saving[t]} \ {NoSave} :
       save.gen <= generation[t] /\ (save.gen = generation[t] => save.doc = doc[t])
  /\ (AtStep(t, "committed") \/ AtStep(t, "recorded")) /\ saving[t].token = fence
       => stored = saving[t].doc

FenceInv == NewsInv /\ \A t \in Tabs : BaselineIsExact(t) /\ SavesAreCurrent(t)

LEMMA InitFence == Init => FenceInv
<1> SUFFICES ASSUME Init PROVE FenceInv
  OBVIOUS
<1>1. OrderInv
  BY InitOrder
<1>2. ASSUME NEW t \in Tabs
      PROVE  /\ phase[t] = "closed" /\ doc[t] = {} /\ baseline[t] = {} /\ token[t] = NoToken
             /\ acquiring[t].token = NoToken /\ ~checking[t].on /\ checking[t].expected = {}
             /\ timer[t] = NoSave /\ queued[t] = NoSave /\ saving[t] = NoSave
  BY DEF Init, Idle, NotChecking, NoDoc
<1>3. stored = {} /\ fence = NoToken
  BY DEF Init, StoreInit
<1>4. EditsAreMade
  BY <1>2, <1>3 DEF EditsAreMade, DocsAreMade, KnownTo, Held, NoDoc
<1>5. TokensAreOwn
  BY <1>2, <1>3 DEF TokensAreOwn, TokensOf, TokenOf
<1>6. ASSUME NEW t \in Tabs PROVE PublishesNews(t)
  BY <1>2 DEF PublishesNews, ToPublish, Pending, AtStep, Held, NoDoc
<1>7. ASSUME NEW t \in Tabs PROVE BaselineIsExact(t) /\ SavesAreCurrent(t)
  BY <1>2 DEF BaselineIsExact, SavesAreCurrent, AtStep
<1>8. QED
  BY <1>1, <1>4, <1>5, <1>6, <1>7 DEF FenceInv, NewsInv

\* The tab whose save was accepted is the only one with the durable token.
LEMMA OneTabHasTheFence ==
  ASSUME NewsInv, NEW t \in Tabs, AtStep(t, "publish"), saving[t].token = fence,
         NEW u \in Tabs, u # t
  PROVE  fence \notin TokensOf(u)
<1>1. fence \in TokensOf(t)
  BY DEF NewsInv, TokensAreOwn, TokensOf, TokenOf, AtStep
<1>2. QED
  BY <1>1 DEF NewsInv, TokensAreOwn

\* A save of another tab is not accepted, or stores what this one never compared with.
LEMMA OtherStepStores ==
  ASSUME FenceInv, NEW t \in Tabs, NEW u \in Tabs, u # t, StepOf(u), stored' # stored
  PROVE  fence' = fence /\ fence \notin TokensOf(t) /\ stored' \notin KnownTo(t)
<1>1. /\ TypeOK /\ BaselineIsExact(u) /\ PublishesNews(u) /\ NewsInv
  BY DEF FenceInv, NewsInv, OrderInv
<1>2. /\ AtStep(u, "publish") /\ MayPublish(saving[u].expected, saving[u].token)
      /\ stored' = saving[u].doc /\ fence' = fence
  BY <1>1, StoredByPublishing
<1>3. fence \notin TokensOf(t)
  BY <1>1, <1>2, OneTabHasTheFence DEF MayPublish
<1>4. BaseOf(u) = Some(stored)
  <2>1. stored \in baseline[u] /\ BaseOf(u) = baseline[u]
    BY <1>1, <1>2 DEF BaselineIsExact, MayPublish, IsCurrent, AtStep, BaseOf
  <2>2. QED
    BY <1>1, <2>1 DEF TypeOK, MaybeDoc, NoDoc, Some
<1>5. HasNews(u, saving[u].doc)
  BY <1>1, <1>2 DEF PublishesNews, ToPublish, AtStep, Held, Some
<1>6. PICK e \in stored' : Private(u, e)
  BY <1>2, <1>4, <1>5 DEF HasNews, Some
<1>7. QED
  BY <1>2, <1>3, <1>6 DEF Private

LEMMA OtherStepExact ==
  ASSUME FenceInv, NEW t \in Tabs, NEW u \in Tabs, u # t, StepOf(u)
  PROVE  BaselineIsExact(t)' /\ SavesAreCurrent(t)'
<1>1. TypeOK /\ TokensAreOwn /\ BaselineIsExact(t) /\ SavesAreCurrent(t)
  BY DEF FenceInv, NewsInv, OrderInv
<1>2. /\ KeepsSaves(t) /\ KeepsLock(t) /\ phase'[t] = phase[t]
      /\ BaseOf(t)' = BaseOf(t)
  BY <1>1, OtherTabsKept, OtherLocksKept, OthersKnowTheSame
<1>3. \A step : AtStep(t, step)' <=> AtStep(t, step)
  BY <1>2 DEF KeepsSaves, AtStep
<1>4. fence' = fence \/ fence' \in Tokens \ drawn
  BY FenceByClaiming
<1>5. fence' \in TokensOf(t) => fence' = fence /\ stored' = stored
  BY <1>1, <1>4, OtherStepStores DEF TokensAreOwn
<1>6. stored' = stored \/ stored' \notin KnownTo(t)
  BY OtherStepStores
<1>7. OwnsFence(t, fence)' => OwnsFence(t, fence) /\ stored' = stored
  <2>1. OwnsFence(t, fence)' => fence' \in TokensOf(t)
    BY <1>2 DEF OwnsFence, KeepsLock, TokensOf
  <2>2. QED
    BY <1>2, <1>5, <2>1 DEF OwnsFence, KeepsLock
<1>8. BaselineIsExact(t)'
  BY <1>1, <1>2, <1>3, <1>6, <1>7 DEF BaselineIsExact, KnownTo, KeepsSaves, KeepsLock
<1>9. (AtStep(t, "committed") \/ AtStep(t, "recorded")) /\ saving[t].token = fence'
        => fence' = fence /\ stored' = stored
  BY <1>1, <1>5 DEF AtStep, TokensOf, TokenOf, TokensAreOwn
<1>10. SavesAreCurrent(t)'
  BY <1>1, <1>2, <1>3, <1>9 DEF SavesAreCurrent, KeepsSaves, KeepsLock
<1>11. QED
  BY <1>8, <1>10

\* What is stored and what the tab would replace are left alone by the lock protocol;
\* a baseline comes to be compared, or the outcome of its comparison counts.
LEMMA LockStepExact ==
  ASSUME FenceInv, NEW t \in Tabs, LockStep(t)
  PROVE  BaselineIsExact(t)' /\ SavesAreCurrent(t)'
<1>1. /\ TypeOK /\ TokensAreOwn /\ BaselineIsExact(t) /\ SavesAreCurrent(t) /\ StepOf(t)
  BY DEF FenceInv, NewsInv, OrderInv, StepOf
<1>2. UNCHANGED <<stored, doc, baseline, generation, timer, queued, saving>>
  BY LockEffect
<1>3. BaseOf(t)' = BaseOf(t) /\ \A step : AtStep(t, step)' <=> AtStep(t, step)
  BY <1>2 DEF BaseOf, AtStep
<1>4. fence' = fence \/ fence' \in Tokens \ drawn
  BY <1>1, FenceByClaiming
<1>5. stored \in baseline[t] => BaseOf(t) = Some(stored)
  <2>1. stored \in baseline[t] => baseline[t] = Some(stored)
    BY <1>1 DEF TypeOK, MaybeDoc, NoDoc, Some
  <2>2. AtStep(t, "committed") /\ stored \in baseline[t] => stored = saving[t].doc
    BY <1>1 DEF BaselineIsExact
  <2>3. QED
    BY <2>1, <2>2 DEF BaseOf, AtStep
<1>6. fence' # fence => fence' \notin TokensOf(t) /\ fence' # NoToken
  <2>1. TokensOf(t) \subseteq drawn
    BY <1>1 DEF TokensAreOwn
  <2>2. QED
    BY <1>4, <2>1
<1>7. checking'[t].on /\ stored \in checking'[t].expected => BaseOf(t) = Some(stored)
  <2>1. CASE AdoptLock(t)
    BY <1>1, <1>5, <2>1 DEF AdoptLock, BaselineIsExact, TypeOK
  <2>2. CASE ~AdoptLock(t)
    <3>1. checking'[t] = checking[t] \/ checking'[t].on = FALSE
      BY <1>1, <2>2 DEF LockStep, StealLock, GrantLock, HandoffTimeout, PutFence, RefuseLostClaim,
         NoticeLoss, RecoverLock, ClaimByUser, FinishCheck, NotChecking, TypeOK
    <3>2. QED
      BY <1>1, <3>1 DEF BaselineIsExact
  <2>3. QED
    BY <2>1, <2>2
<1>8. phase'[t] = "open" /\ OwnsFence(t, fence)' /\ ~checking'[t].on => BaseOf(t) = Some(stored)
  <2>1. CASE FinishCheck(t)
    <3>1. /\ checking[t].on /\ fence' = fence /\ lock' = lock /\ token' = token /\ phase' = phase
          /\ readOnly'[t] = ~(stored \in checking[t].expected)
      BY <1>1, <2>1 DEF FinishCheck, MayResume, IsCurrent, TypeOK, storeVars, docVars
    <3>2. QED
      BY <1>1, <3>1 DEF BaselineIsExact, OwnsFence
  <2>2. CASE AdoptLock(t)
    BY <1>1, <2>2 DEF AdoptLock, TypeOK
  <2>3. CASE NoticeLoss(t) \/ HandoffTimeout(t) \/ ClaimByUser(t)
    BY <1>1, <2>3 DEF NoticeLoss, HandoffTimeout, ClaimByUser, OwnsFence, TypeOK
  <2>4. CASE StealLock(t) \/ GrantLock(t) \/ RecoverLock(t) \/ PutFence(t) \/ RefuseLostClaim(t)
    <3>1. /\ token' = token /\ readOnly' = readOnly /\ checking' = checking
          /\ lock'[t] = lock[t] \/ lock'[t] = "lost"
          /\ phase'[t] = phase[t] \/ phase'[t] = "closed"
      BY <1>1, <2>4 DEF StealLock, GrantLock, RecoverLock, PutFence, RefuseLostClaim, TypeOK,
         docVars
    <3>2. OwnsFence(t, fence)' => OwnsFence(t, fence)
      BY <1>6, <3>1 DEF OwnsFence, TokensOf
    <3>3. QED
      BY <1>1, <3>1, <3>2 DEF BaselineIsExact
  <2>5. QED
    BY <2>1, <2>2, <2>3, <2>4 DEF LockStep
<1>9. BaselineIsExact(t)'
  BY <1>1, <1>2, <1>3, <1>7, <1>8 DEF BaselineIsExact
<1>10. saving[t] # NoSave => saving[t].token # fence' \/ fence' = fence
  BY <1>6 DEF TokensOf, TokenOf
<1>11. SavesAreCurrent(t)'
  BY <1>1, <1>2, <1>3, <1>10 DEF SavesAreCurrent, AtStep
<1>12. QED
  BY <1>9, <1>11

LEMMA OpenStepExact ==
  ASSUME FenceInv, NEW t \in Tabs, OpenStep(t)
  PROVE  BaselineIsExact(t)' /\ SavesAreCurrent(t)'
<1>1. OrderInv /\ TypeOK /\ BaselineIsExact(t)
  BY DEF FenceInv, NewsInv, OrderInv
<1>2. /\ UNCHANGED storeVars /\ timer'[t] = NoSave /\ queued'[t] = NoSave /\ saving'[t] = NoSave
      /\ baseline'[t] \in {NoDoc, Some(stored)}
      /\ phase'[t] = "open" => baseline'[t] = Some(stored)
  BY <1>1, OpenEffect
<1>3. checking'[t].on =>
        checking'[t] = checking[t] /\ phase[t] # "open" /\ baseline'[t] \in {baseline[t], Some(stored)}
  BY <1>1 DEF OpenStep, LoadProject, VerifyProject, FinishOpening, CloseTab, NotChecking,
     TypeOK, lockVars
<1>4. SavesAreCurrent(t)'
  BY <1>2 DEF SavesAreCurrent, AtStep
<1>5. BaseOf(t)' = baseline'[t]
  BY <1>2 DEF BaseOf, AtStep
<1>6. phase[t] # "open" => BaseOf(t) = baseline[t]
  BY <1>1 DEF OrderInv, SavesInOrder, TabInOrder, StagesInOrder, BaseOf, AtStep
<1>7. checking'[t].on /\ stored' \in checking'[t].expected => BaseOf(t)' = Some(stored')
  BY <1>1, <1>2, <1>3, <1>5, <1>6 DEF BaselineIsExact, storeVars
<1>8. BaselineIsExact(t)'
  BY <1>2, <1>5, <1>7 DEF BaselineIsExact, AtStep, Some, storeVars
<1>9. QED
  BY <1>4, <1>8

LEMMA SaveStepExact ==
  ASSUME FenceInv, NEW t \in Tabs, SaveStep(t)
  PROVE  BaselineIsExact(t)'
<1>1. OrderInv /\ TypeOK /\ BaselineIsExact(t)
  BY DEF FenceInv, NewsInv, OrderInv
<1>2. CASE Edit(t)
  <2>1. /\ UNCHANGED <<storeVars, lockVars, phase>> /\ saving' = saving /\ baseline' = baseline
    BY <1>1, <1>2, EditEffect
  <2>2. QED
    BY <1>1, <2>1 DEF BaselineIsExact, BaseOf, AtStep, OwnsFence, storeVars, lockVars
<1>3. CASE EnqueueAutosave(t)
  BY <1>1, <1>3, EnqueueEffect
     DEF BaselineIsExact, BaseOf, AtStep, OwnsFence, storeVars, lockVars
<1>4. CASE BeginSave(t)
  BY <1>1, <1>4, BeginEffect
     DEF BaselineIsExact, BaseOf, AtStep, OwnsFence, storeVars, lockVars, docVars
<1>5. CASE PrepareSave(t)
  BY <1>1, <1>5, PrepareEffect
     DEF BaselineIsExact, BaseOf, AtStep, OwnsFence, storeVars, lockVars, docVars
<1>6. CASE PublishSave(t)
  <2>1. AtStep(t, "publish") /\ UNCHANGED <<lockVars, baseline, phase>>
    BY <1>1, <1>6, PublishEffect DEF docVars
  <2>2. CASE stored' = saving[t].doc /\ MovesOn(t, "committed")
    BY <2>1, <2>2 DEF BaselineIsExact, BaseOf, AtStep, MovesOn
  <2>3. CASE UNCHANGED storeVars /\ MovesOn(t, "refused")
    BY <1>1, <2>1, <2>3
       DEF BaselineIsExact, BaseOf, AtStep, OwnsFence, MovesOn, storeVars, lockVars
  <2>4. QED
    BY <1>1, <1>6, <2>2, <2>3, PublishEffect
<1>7. CASE AbandonSave(t) \/ FailSave(t) \/ EndRefusedSave(t) \/ FinishSave(t)
  <2>1. /\ ~AtStep(t, "committed") /\ saving'[t] = NoSave /\ readOnly'[t] \in {readOnly[t], TRUE}
        /\ UNCHANGED <<storeVars, lock, token, checking, phase, baseline>>
    BY <1>1, <1>7, EndEffect DEF AtStep
  <2>2. BaseOf(t)' = BaseOf(t)
    BY <2>1 DEF BaseOf, AtStep
  <2>3. OwnsFence(t, fence)' => OwnsFence(t, fence)
    BY <2>1 DEF OwnsFence, storeVars
  <2>4. QED
    BY <1>1, <2>1, <2>2, <2>3 DEF BaselineIsExact, AtStep, storeVars
<1>8. CASE RecordSave(t)
  BY <1>1, <1>8, RecordEffect
     DEF BaselineIsExact, BaseOf, AtStep, OwnsFence, MovesOn, storeVars, lockVars
<1>9. QED
  BY <1>2, <1>3, <1>4, <1>5, <1>6, <1>7, <1>8 DEF SaveStep

LEMMA SaveStepCurrent ==
  ASSUME FenceInv, NEW t \in Tabs, SaveStep(t)
  PROVE  SavesAreCurrent(t)'
<1>1. OrderInv /\ TypeOK /\ SavesAreCurrent(t)
  BY DEF FenceInv, NewsInv, OrderInv
<1>2. CASE Edit(t)
  <2>1. PICK e \in Edits \ made :
          /\ generation'[t] = generation[t] + 1 /\ doc'[t] = doc[t] \cup {e}
          /\ timer'[t] # NoSave /\ timer'[t].doc = doc[t] \cup {e}
          /\ timer'[t].gen = generation[t] + 1
          /\ queued' = queued /\ saving' = saving /\ UNCHANGED storeVars
    BY <1>1, <1>2, EditEffect
  <2>2. generation[t] \in Nat
    BY <1>1 DEF TypeOK
  <2>3. ASSUME NEW save \in {queued[t], saving[t]} \ {NoSave}
        PROVE  save.gen <= generation'[t] /\ save.gen # generation'[t]
    <3>1. save.gen \in Nat /\ save.gen <= generation[t]
      BY <1>1 DEF SavesAreCurrent, TypeOK, Capture, Save
    <3>2. QED
      BY <2>1, <2>2, <3>1
  <2>4. timer'[t].gen <= generation'[t] /\ timer'[t].doc = doc'[t]
    BY <2>1, <2>2
  <2>5. QED
    BY <1>1, <2>1, <2>3, <2>4 DEF SavesAreCurrent, AtStep, storeVars
<1>3. CASE EnqueueAutosave(t)
  BY <1>1, <1>3, EnqueueEffect DEF SavesAreCurrent, AtStep, storeVars
<1>4. CASE BeginSave(t)
  BY <1>1, <1>4, BeginEffect DEF SavesAreCurrent, AtStep, storeVars, docVars
<1>5. CASE PrepareSave(t)
  BY <1>1, <1>5, PrepareEffect DEF SavesAreCurrent, AtStep, storeVars, docVars
<1>6. CASE PublishSave(t)
  <2>1. AtStep(t, "publish") /\ UNCHANGED <<queued, timer, doc, generation>>
    BY <1>1, <1>6, PublishEffect DEF docVars
  <2>2. CASE stored' = saving[t].doc /\ MovesOn(t, "committed")
    BY <1>1, <2>1, <2>2 DEF SavesAreCurrent, AtStep, MovesOn
  <2>3. CASE UNCHANGED storeVars /\ MovesOn(t, "refused")
    BY <1>1, <2>1, <2>3 DEF SavesAreCurrent, AtStep, MovesOn
  <2>4. QED
    BY <1>1, <1>6, <2>2, <2>3, PublishEffect
<1>7. CASE AbandonSave(t) \/ FailSave(t) \/ EndRefusedSave(t) \/ FinishSave(t)
  BY <1>1, <1>7, EndEffect DEF SavesAreCurrent, AtStep
<1>8. CASE RecordSave(t)
  BY <1>1, <1>8, RecordEffect DEF SavesAreCurrent, AtStep, MovesOn, storeVars
<1>9. QED
  BY <1>2, <1>3, <1>4, <1>5, <1>6, <1>7, <1>8 DEF SaveStep

LEMMA StepFence ==
  ASSUME FenceInv, [Next]_vars
  PROVE  FenceInv'
<1>1. OrderInv'
  BY StepOrder DEF FenceInv, NewsInv
<1>2. CASE Next
  <2>1. PICK t \in Tabs : StepOf(t)
    BY <1>2 DEF Next, StepOf
  <2>2. EditsAreMade' /\ TokensAreOwn'
    BY <2>1, StepEditsMade, StepTokensOwn DEF FenceInv, NewsInv
  <2>3. ASSUME NEW u \in Tabs
        PROVE  PublishesNews(u)' /\ BaselineIsExact(u)' /\ SavesAreCurrent(u)'
    <3>1. CASE u # t
      BY <2>1, <3>1, OtherStepNews, OtherStepExact DEF FenceInv
    <3>2. CASE u = t
      BY <2>1, <3>2, OwnStepNews, LockStepExact, OpenStepExact, SaveStepExact, SaveStepCurrent
         DEF FenceInv, StepOf
    <3>3. QED
      BY <3>1, <3>2
  <2>4. QED
    BY <1>1, <2>2, <2>3 DEF FenceInv, NewsInv
<1>3. CASE UNCHANGED vars
  <2>1. UNCHANGED <<stored, fence, drawn, token, acquiring, checking, lock, readOnly, phase, doc,
                    baseline, generation, timer, queued, saving, made>>
    BY <1>3 DEF vars, storeVars, lockVars, docVars, saveVars
  <2>2. \A t \in Tabs : KnownTo(t)' = KnownTo(t) /\ TokensOf(t)' = TokensOf(t)
          /\ BaseOf(t)' = BaseOf(t) /\ ToPublish(t)' = ToPublish(t)
    BY <2>1 DEF KnownTo, TokensOf, BaseOf, ToPublish, Pending, Held, AtStep, TokenOf
  <2>3. EditsAreMade' /\ TokensAreOwn'
    BY <2>1, <2>2 DEF FenceInv, NewsInv, EditsAreMade, DocsAreMade, TokensAreOwn
  <2>4. \A t \in Tabs : \A e : Private(t, e)' <=> Private(t, e)
    BY <2>1, <2>2 DEF Private
  <2>5. \A t \in Tabs : PublishesNews(t)'
    BY <2>1, <2>2, <2>4 DEF FenceInv, NewsInv, PublishesNews, HasNews
  <2>6. \A t \in Tabs : BaselineIsExact(t)' /\ SavesAreCurrent(t)'
    BY <2>1, <2>2 DEF FenceInv, BaselineIsExact, SavesAreCurrent, AtStep, OwnsFence
  <2>7. QED
    BY <1>1, <2>3, <2>5, <2>6 DEF FenceInv, NewsInv
<1>4. QED
  BY <1>2, <1>3

LEMMA FenceMeansExact == FenceInv => FencedBaselineIsStored
BY DEF FenceInv, BaselineIsExact, BaseOf, WritesFenced, FencedBaselineIsStored

LEMMA WriterKnows == FenceInv => WriterKnowsStored
<1> SUFFICES ASSUME FenceInv, NEW t \in Tabs \ drifted, WritesFenced(t)
             PROVE  stored \subseteq doc[t]
  BY DEF WriterKnowsStored
<1>1. baseline[t] = Some(stored)
  BY FenceMeansExact DEF FencedBaselineIsStored
<1>2. Within(baseline[t], Some(doc[t]))
  BY DEF FenceInv, NewsInv, OrderInv, SavesInOrder, TabInOrder, BaselineInOrder
<1>3. QED
  BY <1>1, <1>2 DEF Within, Some

(* For any number of tabs, edits and claims, and whether saves are         *)
(* prepared or captured: a tab that writes under the durable token         *)
(* replaces exactly the document that is stored.                           *)
THEOREM TheFencedBaselineIsStored == Spec => []FencedBaselineIsStored
<1>1. Init => FenceInv
  BY InitFence
<1>2. FenceInv /\ [Next]_vars => FenceInv'
  BY StepFence
<1>3. FenceInv => FencedBaselineIsStored
  BY FenceMeansExact
<1>4. QED
  BY <1>1, <1>2, <1>3, PTL DEF Spec

(* The document such a tab edits holds everything that is stored, unless   *)
(* its baseline drifted while it opened the project.                       *)
THEOREM TheWriterKnowsStored == Spec => []WriterKnowsStored
<1>1. Init => FenceInv
  BY InitFence
<1>2. FenceInv /\ [Next]_vars => FenceInv'
  BY StepFence
<1>3. FenceInv => WriterKnowsStored
  BY WriterKnows
<1>4. QED
  BY <1>1, <1>2, <1>3, PTL DEF Spec

(* Only the end of a save of the newest generation clears the flag: it     *)
(* stored the document the tab shows, which is still there unless another  *)
(* claim has drawn a token since.                                          *)
LEMMA CleanMeansSaved ==
  ASSUME FenceInv, [Next]_vars, NEW t \in Tabs, dirty[t], ~dirty'[t], phase'[t] = "open"
  PROVE  doc[t] \subseteq stored \/ fence # saving[t].token
<1>1. TypeOK /\ SavesAreCurrent(t)
  BY DEF FenceInv, NewsInv, OrderInv
<1>2. FinishSave(t)
  <2>1. PICK u \in Tabs : StepOf(u)
    BY DEF vars, docVars, Next, StepOf
  <2>2. u = t
    BY <1>1, <2>1, OtherLocksKept DEF KeepsLock
  <2>3. ~LockStep(t)
    BY LockEffect
  <2>4. ~OpenStep(t)
    BY <1>1 DEF OpenStep, LoadProject, VerifyProject, FinishOpening, CloseTab, TypeOK
  <2>5. SaveStep(t)
    BY <2>1, <2>2, <2>3, <2>4 DEF StepOf
  <2>6. QED
    BY <1>1, <2>5 DEF SaveStep, Edit, EnqueueAutosave, BeginSave, PrepareSave, PublishSave,
       AbandonSave, FailSave, EndRefusedSave, RecordSave, docVars, TypeOK
<1>3. AtStep(t, "recorded") /\ ReportsSaved(t)
  BY <1>1, <1>2 DEF FinishSave, TypeOK
<1>4. saving[t].doc = doc[t]
  BY <1>1, <1>3 DEF SavesAreCurrent, AtStep, ReportsSaved
<1>5. saving[t].token = fence => stored = saving[t].doc
  BY <1>1, <1>3 DEF SavesAreCurrent
<1>6. QED
  BY <1>4, <1>5

(* What a tab reports as saved is saved, for any number of tabs, edits and *)
(* claims, and however late the report comes.                              *)
THEOREM SavedIsStored == Spec => SavedMeansStored
<1>1. Init => FenceInv
  BY InitFence
<1>2. FenceInv /\ [Next]_vars => FenceInv'
  BY StepFence
<1>3. FenceInv /\ [Next]_vars =>
        [\A t \in Tabs : (dirty[t] /\ ~dirty'[t] /\ phase'[t] = "open")
           => doc[t] \subseteq stored \/ fence # saving[t].token]_vars
  BY CleanMeansSaved
<1>4. QED
  BY <1>1, <1>2, <1>3, PTL DEF Spec, SavedMeansStored
=============================================================================
