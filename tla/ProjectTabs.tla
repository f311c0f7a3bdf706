---------------------------- MODULE ProjectTabs -----------------------------
(***************************************************************************)
(* Several browser tabs that have one project open.  A tab edits its own   *)
(* copy of the document, autosaves it, and may write only while it holds   *)
(* the exclusive Web Lock of the project; a tab that opens the project, or *)
(* whose user asks for write access, STEALS that lock.  A steal reaches    *)
(* the robbed tab only later, so the durable fence token and the           *)
(* compare-and-swap on the stored document are what keeps its late saves   *)
(* out.  Sources: controller/document/project-lock-service.ts,             *)
(* project-save-service.ts, project-switch-service.ts, project-lock.js.    *)
(***************************************************************************)
EXTENDS ProjectStore, Naturals

CONSTANTS
  Tabs,
  NoTab,
  NoSave,             \* no save captured at this stage of the pipeline
  PreparesSnapshot,   \* TRUE: the product re-reads the document when a save
                      \* is prepared (Soundscaper); FALSE: it stores the
                      \* document captured by the edit (Framescaper)
  StorageMayFail      \* TRUE: a publishing transaction may fail

ASSUME TabSentinels ==
  /\ NoTab \notin Tabs
  /\ PreparesSnapshot \in BOOLEAN
  /\ StorageMayFail \in BOOLEAN

VARIABLES
  holder,     \* the tab whose Web Lock request the browser has granted
  phase,      \* how far the tab is in opening the project
  lock,       \* state.projectLock as the tab sees it
  token,      \* lock.writeFence
  acquiring,  \* the acquireProjectLock call the tab awaits
  checking,   \* mayResumeWritable: the baseline it compares, or NoDoc
  retry,      \* what calls recoverProjectLock next: the handler of a loss,
              \* the shared retry timer, or nothing
  replaced,   \* state.projectLock is no longer the lock the running
              \* activation adopted
  readOnly,   \* state.readOnly
  doc,        \* the document the user edits
  baseline,   \* persistedSnapshots: the document the next save replaces
  dirty,      \* the session tab's unsaved-changes flag
  generation, \* saveGeneration
  timer,      \* the capture the autosave timer will enqueue
  queued,     \* the newest captured autosave waiting in the save queue
  saving,     \* the save that runs
  made,       \* every edit made so far
  drifted,    \* history: tabs that recorded a baseline other than the
              \* document they had opened
  forgotten   \* history: tabs whose activation ended by clearing the timer
              \* of a lock that had replaced the activation's own

lockVars == <<holder, lock, token, acquiring, checking, retry, replaced, readOnly, forgotten>>
docVars  == <<phase, doc, baseline, dirty, generation, timer, made, drifted>>
saveVars == <<queued, saving>>
vars == <<storeVars, lockVars, docVars, saveVars>>

MaybeToken == Tokens \cup {NoToken}
Purposes == {"open", "user", "recover", "available"}
Acquisition == [step : {"idle", "steal", "queued", "put", "return"},
                for : Purposes, token : MaybeToken]
Capture == [gen : Nat, token : MaybeToken, doc : Documents]
Save == [step : {"prepare", "publish", "committed", "recorded", "refused"},
         gen : Nat, token : MaybeToken, doc : Documents,
         expected : MaybeDoc]

ASSUME NoSaveIsNoSave == NoSave \notin Capture \cup Save

Idle == [step |-> "idle", for |-> "open", token |-> NoToken]

TypeOK ==
  /\ StoreTypeOK
  /\ holder \in Tabs \cup {NoTab}
  /\ phase \in [Tabs -> {"closed", "loaded", "verifying", "activating", "open"}]
  /\ lock \in [Tabs -> {"none", "writable", "lost", "pending"}]
  /\ token \in [Tabs -> MaybeToken]
  /\ acquiring \in [Tabs -> Acquisition]
  /\ checking \in [Tabs -> [on : BOOLEAN, expected : MaybeDoc]]
  /\ retry \in [Tabs -> {"none", "call", "timer"}]
  /\ replaced \in [Tabs -> BOOLEAN]
  /\ readOnly \in [Tabs -> BOOLEAN]
  /\ doc \in [Tabs -> Documents]
  /\ baseline \in [Tabs -> MaybeDoc]
  /\ dirty \in [Tabs -> BOOLEAN]
  /\ generation \in [Tabs -> Nat]
  /\ timer \in [Tabs -> Capture \cup {NoSave}]
  /\ queued \in [Tabs -> Capture \cup {NoSave}]
  /\ saving \in [Tabs -> Save \cup {NoSave}]
  /\ made \in Documents
  /\ drifted \in SUBSET Tabs
  /\ forgotten \in SUBSET Tabs

NotChecking == [on |-> FALSE, expected |-> NoDoc]

Init ==
  /\ StoreInit
  /\ holder = NoTab
  /\ phase = [t \in Tabs |-> "closed"]
  /\ lock = [t \in Tabs |-> "none"]
  /\ token = [t \in Tabs |-> NoToken]
  /\ acquiring = [t \in Tabs |-> Idle]
  /\ checking = [t \in Tabs |-> NotChecking]
  /\ retry = [t \in Tabs |-> "none"]
  /\ replaced = [t \in Tabs |-> FALSE]
  /\ readOnly = [t \in Tabs |-> TRUE]
  /\ doc = [t \in Tabs |-> {}]
  /\ baseline = [t \in Tabs |-> NoDoc]
  /\ dirty = [t \in Tabs |-> FALSE]
  /\ generation = [t \in Tabs |-> 0]
  /\ timer = [t \in Tabs |-> NoSave]
  /\ queued = [t \in Tabs |-> NoSave]
  /\ saving = [t \in Tabs |-> NoSave]
  /\ made = {}
  /\ drifted = {}
  /\ forgotten = {}

-----------------------------------------------------------------------------
(* The Web Lock of the project, as the browser keeps it.                   *)

Active(t) == phase[t] \in {"activating", "open"}

\* The tab has a request in the browser's queue.
Waits(t) ==
  \/ acquiring[t].step = "queued"
  \/ acquiring[t].step = "idle" /\ lock[t] = "pending"

HolderWithout(t) == IF holder = t THEN NoTab ELSE holder

Acquire(t, step, for, k) ==
  acquiring' = [acquiring EXCEPT ![t] = [step |-> step, for |-> for, token |-> k]]

(* A forced request is granted at once; the request that held the lock is  *)
(* broken.  Opening a project and the user's claim both force.             *)
StealLock(t) ==
  /\ \/ phase[t] = "loaded" /\ acquiring[t].step = "idle"
        /\ Acquire(t, "put", "open", NoToken)
     \/ acquiring[t].step = "steal" /\ Acquire(t, "put", "user", NoToken)
  /\ holder' = t
  /\ UNCHANGED <<storeVars, lock, token, checking, retry, replaced, readOnly,
                 forgotten, docVars, saveVars>>

(* The browser grants a queued request once the lock is free.              *)
GrantLock(t) ==
  /\ holder = NoTab
  /\ Waits(t)
  /\ holder' = t
  /\ Acquire(t, "put", IF lock[t] = "pending" THEN "available" ELSE "recover", NoToken)
  /\ UNCHANGED <<storeVars, lock, token, checking, retry, replaced, readOnly,
                 forgotten, docVars, saveVars>>

\* state.projectLock is another lock now; only an activation that still
\* runs compares it with its own.
Replace(t) == replaced' = [replaced EXCEPT ![t] = phase[t] = "activating"]

(* The queued request was not granted within the hand-off delay: the call  *)
(* returns a read-only lock that becomes available later, and the tab      *)
(* waits for that instead of for a timer.                                  *)
HandoffTimeout(t) ==
  /\ acquiring[t].step = "queued"
  /\ acquiring' = [acquiring EXCEPT ![t] = Idle]
  /\ lock' = [lock EXCEPT ![t] = "pending"]
  /\ Replace(t)
  /\ retry' = [retry EXCEPT ![t] = "none"]
  /\ readOnly' = [readOnly EXCEPT ![t] = TRUE]
  /\ UNCHANGED <<storeVars, holder, token, checking, forgotten, docVars, saveVars>>

-----------------------------------------------------------------------------
(* Claiming the durable token, adopting the lock, losing it, recovering it *)

(* claimProjectLockWriteFence: the token goes to the store in its own      *)
(* transaction, after the browser granted the lock.                        *)
PutFence(t) ==
  /\ acquiring[t].step = "put"
  /\ \E k \in Tokens :
       /\ ClaimWriteFence(k)
       /\ Acquire(t, "return", acquiring[t].for, k)
  /\ UNCHANGED <<holder, lock, token, checking, retry, replaced, readOnly,
                 forgotten, docVars, saveVars>>

(* The claim returns a lock that the tab has not seen lost.  Opening goes  *)
(* on to verify the store; a user's claim and a recovery first compare the *)
(* recorded baseline with the store (mayResumeWritable).  A timer left for *)
(* the lock that is replaced will find it replaced and do nothing.         *)
AdoptLock(t) ==
  /\ acquiring[t].step = "return"
  /\ lock' = [lock EXCEPT ![t] = "writable"]
  /\ token' = [token EXCEPT ![t] = acquiring[t].token]
  /\ acquiring' = [acquiring EXCEPT ![t] = Idle]
  /\ IF acquiring[t].for = "open"
     THEN /\ phase' = [phase EXCEPT ![t] = "verifying"]
          /\ UNCHANGED <<checking, replaced>>
     ELSE /\ checking' = [checking EXCEPT ![t] = [on |-> TRUE, expected |-> baseline[t]]]
          /\ Replace(t)
          /\ UNCHANGED phase
  /\ retry' = [retry EXCEPT ![t] = "none"]
  /\ UNCHANGED <<storeVars, holder, readOnly, forgotten, saveVars,
                 doc, baseline, dirty, generation, timer, made, drifted>>

RetriesOnTimerOnly(for) == for = "recover"
RetriesAfter(for) == for \in {"recover", "available"}

(* The tab saw the lock lost while it claimed: the lock is released and    *)
(* the call throws.  A failed opening closes the tab; a failed recovery is *)
(* put on the timer; after a failed claim by the user nothing is.          *)
RefuseLostClaim(t) ==
  /\ acquiring[t].step = "return"
  /\ holder # t
  /\ acquiring' = [acquiring EXCEPT ![t] = Idle]
  /\ phase' = [phase EXCEPT ![t] = IF acquiring[t].for = "open" THEN "closed" ELSE @]
  /\ lock' = [lock EXCEPT ![t] = IF acquiring[t].for = "available" THEN "lost" ELSE @]
  /\ retry' = [retry EXCEPT ![t] = IF RetriesAfter(acquiring[t].for) THEN "timer" ELSE "none"]
  /\ UNCHANGED <<storeVars, holder, token, checking, replaced, readOnly, forgotten, saveVars,
                 doc, baseline, dirty, generation, timer, made, drifted>>

(* watchProjectLockLoss: the lock turns read-only in any case; the rest of *)
(* the handler runs only once the project is the tab's active one, and     *)
(* ends in a call of recoverProjectLock that no timer stands for.          *)
NoticeLoss(t) ==
  /\ lock[t] = "writable"
  /\ holder # t
  /\ lock' = [lock EXCEPT ![t] = "lost"]
  /\ token' = [token EXCEPT ![t] = NoToken]
  /\ checking' = [checking EXCEPT ![t] = NotChecking]
  /\ readOnly' = [readOnly EXCEPT ![t] = Active(t) \/ @]
  /\ retry' = [retry EXCEPT ![t] = IF Active(t) THEN "call" ELSE @]
  /\ UNCHANGED <<storeVars, holder, acquiring, replaced, forgotten, docVars, saveVars>>

(* recoverProjectLock asks for the lock without force: it gets a free lock *)
(* or waits in the queue.                                                  *)
RecoverLock(t) ==
  /\ Active(t) /\ retry[t] # "none" /\ lock[t] = "lost" /\ acquiring[t].step = "idle"
  /\ retry' = [retry EXCEPT ![t] = "none"]
  /\ IF holder = NoTab
     THEN holder' = t /\ Acquire(t, "put", "recover", NoToken)
     ELSE UNCHANGED holder /\ Acquire(t, "queued", "recover", NoToken)
  /\ UNCHANGED <<storeVars, lock, token, checking, replaced, readOnly,
                 forgotten, docVars, saveVars>>

(* claimProjectLock: the user asks a read-only tab for write access; the   *)
(* lock is released and the timer cleared first.                           *)
ClaimByUser(t) ==
  /\ Active(t) /\ lock[t] \in {"lost", "pending"} /\ acquiring[t].step = "idle"
  /\ lock' = [lock EXCEPT ![t] = "none"]
  /\ Replace(t)
  /\ retry' = [retry EXCEPT ![t] = "none"]
  /\ forgotten' = forgotten \ {t}
  /\ Acquire(t, "steal", "user", NoToken)
  /\ UNCHANGED <<storeVars, holder, token, checking, readOnly, docVars, saveVars>>

(* mayResumeWritable: the stored document is loaded and compared with the  *)
(* baseline read when the call began.                                      *)
ResumesAlways(t) == TRUE
MayResume(t) == IsCurrent(checking[t].expected)

FinishCheck(t) ==
  /\ checking[t].on
  /\ readOnly' = [readOnly EXCEPT ![t] = ~MayResume(t)]
  /\ checking' = [checking EXCEPT ![t] = NotChecking]
  /\ UNCHANGED <<storeVars, holder, lock, token, acquiring, retry, replaced,
                 forgotten, docVars, saveVars>>

-----------------------------------------------------------------------------
(* Opening the stored project in a tab                                     *)

(* The stored document is read before the lock is asked for.               *)
LoadProject(t) ==
  /\ phase[t] = "closed"
  /\ acquiring[t].step = "idle"
  /\ drawn # Tokens
  /\ phase' = [phase EXCEPT ![t] = "loaded"]
  /\ doc' = [doc EXCEPT ![t] = stored]
  /\ UNCHANGED <<storeVars, lockVars, saveVars,
                 baseline, dirty, generation, timer, made, drifted>>

(* Under the lock, a document that is no longer the stored one opens       *)
(* read-only; the tab becomes the active owner of the project.             *)
VerifyProject(t) ==
  /\ phase[t] = "verifying"
  /\ phase' = [phase EXCEPT ![t] = "activating"]
  /\ readOnly' = [readOnly EXCEPT ![t] = ~IsCurrent(Some(doc[t]))]
  /\ UNCHANGED <<storeVars, holder, lock, token, acquiring, checking, retry, replaced,
                 forgotten, saveVars,
                 doc, baseline, dirty, generation, timer, made, drifted>>

(* The end of the activation: recordPersistedSnapshotFromStore takes the   *)
(* document that is stored NOW as the baseline, whatever the tab opened.   *)
(* scheduleProjectLockRecovery then clears the shared timer, whichever     *)
(* lock it was armed for, and arms it again only for the lock this         *)
(* activation adopted, if that one is lost and still the tab's lock.       *)
RearmsTimer(t) == lock[t] = "lost" /\ ~replaced[t]

FinishOpening(t) ==
  /\ phase[t] = "activating"
  /\ phase' = [phase EXCEPT ![t] = "open"]
  /\ baseline' = [baseline EXCEPT ![t] = Some(stored)]
  /\ drifted' = IF stored = doc[t] THEN drifted ELSE drifted \cup {t}
  /\ retry' = [retry EXCEPT ![t] = IF @ = "call" THEN @
                                   ELSE IF RearmsTimer(t) THEN "timer" ELSE "none"]
  /\ replaced' = [replaced EXCEPT ![t] = FALSE]
  /\ forgotten' = IF retry[t] = "timer" /\ ~RearmsTimer(t)
                  THEN forgotten \cup {t} ELSE forgotten
  /\ UNCHANGED <<storeVars, holder, lock, token, acquiring, checking, readOnly, saveVars,
                 doc, dirty, generation, timer, made>>

(* The tab is closed or killed: everything but the store and the work of   *)
(* other tabs is gone, and the browser frees its lock.                     *)
CloseTab(t) ==
  /\ phase[t] # "closed"
  /\ holder' = HolderWithout(t)
  /\ phase' = [phase EXCEPT ![t] = "closed"]
  /\ lock' = [lock EXCEPT ![t] = "none"]
  /\ token' = [token EXCEPT ![t] = NoToken]
  /\ acquiring' = [acquiring EXCEPT ![t] = Idle]
  /\ checking' = [checking EXCEPT ![t] = NotChecking]
  /\ retry' = [retry EXCEPT ![t] = "none"]
  /\ replaced' = [replaced EXCEPT ![t] = FALSE]
  /\ readOnly' = [readOnly EXCEPT ![t] = TRUE]
  /\ doc' = [doc EXCEPT ![t] = {}]
  /\ baseline' = [baseline EXCEPT ![t] = NoDoc]
  /\ dirty' = [dirty EXCEPT ![t] = FALSE]
  /\ generation' = [generation EXCEPT ![t] = 0]
  /\ timer' = [timer EXCEPT ![t] = NoSave]
  /\ queued' = [queued EXCEPT ![t] = NoSave]
  /\ saving' = [saving EXCEPT ![t] = NoSave]
  /\ drifted' = drifted \ {t}
  /\ forgotten' = forgotten \ {t}
  /\ UNCHANGED <<storeVars, made>>

-----------------------------------------------------------------------------
(* Editing and autosave                                                    *)

(* ownsWriteFence: the tab is writable and its lock carries the token the  *)
(* save was captured under.                                                *)
OwnsFence(t, k) == ~readOnly[t] /\ lock[t] = "writable" /\ token[t] = k /\ k # NoToken

(* commit + scheduleAutosave: the edit replaces the document, marks the    *)
(* tab dirty and re-arms the timer with this generation and token.         *)
Edit(t) ==
  /\ phase[t] = "open" /\ ~readOnly[t]
  /\ \E e \in Edits \ made :
       /\ made' = made \cup {e}
       /\ doc' = [doc EXCEPT ![t] = @ \cup {e}]
       /\ timer' = [timer EXCEPT ![t] =
            [gen |-> generation[t] + 1, token |-> token[t], doc |-> doc[t] \cup {e}]]
  /\ generation' = [generation EXCEPT ![t] = @ + 1]
  /\ dirty' = [dirty EXCEPT ![t] = TRUE]
  /\ UNCHANGED <<storeVars, lockVars, saveVars, phase, baseline, drifted>>

(* The timer fires: the capture joins the serial queue, where a newer      *)
(* autosave supersedes the one still waiting.                              *)
EnqueueAutosave(t) ==
  /\ timer[t] # NoSave
  /\ queued' = [queued EXCEPT ![t] = timer[t]]
  /\ timer' = [timer EXCEPT ![t] = NoSave]
  /\ UNCHANGED <<storeVars, lockVars, saving,
                 phase, doc, baseline, dirty, generation, made, drifted>>

(* The save service: every stage first checks that the tab still owns the  *)
(* captured token; a save whose authority is gone is dropped.              *)
StartQueuedUnprepared(t) == saving' = [saving EXCEPT ![t] = queued[t]]
EndSave(t) == saving' = [saving EXCEPT ![t] = NoSave]

BeginSave(t) ==
  /\ saving[t] = NoSave /\ queued[t] # NoSave
  /\ queued' = [queued EXCEPT ![t] = NoSave]
  /\ saving' = [saving EXCEPT ![t] =
       IF OwnsFence(t, queued[t].token)
       THEN [step |-> "prepare", gen |-> queued[t].gen, token |-> queued[t].token,
             doc |-> queued[t].doc, expected |-> NoDoc]
       ELSE NoSave]
  /\ UNCHANGED <<storeVars, lockVars, docVars>>

AtStep(t, step) == saving[t] # NoSave /\ saving[t].step = step

\* The snapshot the store must still hold is the recorded baseline.
ExpectsWhatIsStored(t) == Some(stored)
ExpectedOf(t) == baseline[t]

PrepareSave(t) ==
  /\ AtStep(t, "prepare")
  /\ saving' = [saving EXCEPT ![t] =
       IF OwnsFence(t, saving[t].token)
       THEN [saving[t] EXCEPT !.step = "publish",
                              !.doc = IF PreparesSnapshot THEN doc[t] ELSE @,
                              !.expected = ExpectedOf(t)]
       ELSE NoSave]
  /\ UNCHANGED <<storeVars, lockVars, queued, docVars>>

(* saveIfCurrentAndFenced: one transaction checks the token and the        *)
(* expected document and puts the new one, or changes nothing.             *)
PublishSave(t) ==
  /\ AtStep(t, "publish")
  /\ IF MayPublish(saving[t].expected, saving[t].token)
     THEN /\ Publish(saving[t].doc)
          /\ saving' = [saving EXCEPT ![t].step = "committed"]
     ELSE /\ UNCHANGED storeVars
          /\ saving' = [saving EXCEPT ![t].step = "refused"]
  /\ UNCHANGED <<lockVars, queued, docVars>>

(* The admission check before the transaction found the authority gone.    *)
AbandonSave(t) ==
  /\ AtStep(t, "publish") /\ ~OwnsFence(t, saving[t].token)
  /\ EndSave(t)
  /\ UNCHANGED <<storeVars, lockVars, queued, docVars>>

(* Storage rejected the transaction, or the active-project setting that    *)
(* is written before the tab reports the save: the tab stays dirty.        *)
FailSave(t) ==
  /\ StorageMayFail
  /\ AtStep(t, "publish") \/ AtStep(t, "recorded")
  /\ EndSave(t)
  /\ UNCHANGED <<storeVars, lockVars, queued, docVars>>

(* onPublicationConflict: the store refused, so the tab turns read-only.   *)
EndRefusedSave(t) ==
  /\ AtStep(t, "refused")
  /\ readOnly' = [readOnly EXCEPT ![t] = TRUE]
  /\ EndSave(t)
  /\ UNCHANGED <<storeVars, holder, lock, token, acquiring, checking, retry, replaced,
                 forgotten, queued, docVars>>

(* A committed document becomes the baseline even when the authority was   *)
(* lost in the meantime.                                                   *)
RecordSave(t) ==
  /\ AtStep(t, "committed")
  /\ baseline' = [baseline EXCEPT ![t] = Some(saving[t].doc)]
  /\ saving' = [saving EXCEPT ![t].step = "recorded"]
  /\ UNCHANGED <<storeVars, lockVars, queued,
                 phase, doc, dirty, generation, timer, made, drifted>>

(* Only the newest generation may clear the unsaved-changes flag.          *)
ReportsSavedLate(t) == OwnsFence(t, saving[t].token) /\ saving[t].gen > generation[t]
ReportsSavedAlways(t) == OwnsFence(t, saving[t].token)
ReportsSaved(t) == OwnsFence(t, saving[t].token) /\ saving[t].gen = generation[t]

FinishSave(t) ==
  /\ AtStep(t, "recorded")
  /\ dirty' = [dirty EXCEPT ![t] = @ /\ ~ReportsSaved(t)]
  /\ EndSave(t)
  /\ UNCHANGED <<storeVars, lockVars, queued,
                 phase, doc, baseline, generation, timer, made, drifted>>

-----------------------------------------------------------------------------
LockStep(t) ==
  \/ StealLock(t) \/ GrantLock(t) \/ HandoffTimeout(t) \/ PutFence(t)
  \/ AdoptLock(t) \/ RefuseLostClaim(t) \/ NoticeLoss(t) \/ RecoverLock(t)
  \/ ClaimByUser(t) \/ FinishCheck(t)

OpenStep(t) == LoadProject(t) \/ VerifyProject(t) \/ FinishOpening(t) \/ CloseTab(t)

SaveStep(t) ==
  \/ Edit(t) \/ EnqueueAutosave(t) \/ BeginSave(t) \/ PrepareSave(t)
  \/ PublishSave(t) \/ AbandonSave(t) \/ FailSave(t) \/ EndRefusedSave(t)
  \/ RecordSave(t) \/ FinishSave(t)

Next == \E t \in Tabs : LockStep(t) \/ OpenStep(t) \/ SaveStep(t)

Spec == Init /\ [][Next]_vars

(* The event loop fires the autosave timer, settles promises and IndexedDB *)
(* completes transactions.  Users, other tabs and the lock owe nothing.    *)
RunSave(t) ==
  \/ BeginSave(t) \/ PrepareSave(t) \/ PublishSave(t) \/ EndRefusedSave(t)
  \/ RecordSave(t) \/ FinishSave(t)

Fairness == \A t \in Tabs : WF_vars(EnqueueAutosave(t)) /\ WF_vars(RunSave(t))

FairSpec == Spec /\ Fairness

-----------------------------------------------------------------------------
(* Properties                                                              *)


\* The tab may write, its token is the durable one, and it is neither
\* comparing its baseline with the store nor about to record a commit.
WritesFenced(t) ==
  /\ phase[t] = "open" /\ OwnsFence(t, fence)
  /\ ~checking[t].on /\ ~AtStep(t, "committed")

(* The compare-and-swap baseline is exact: a tab that writes under the     *)
(* durable token replaces the document that is stored.  Autosave, late     *)
(* commits under an older token, takeovers and recoveries all move one of  *)
(* the two.                                                                *)
FencedBaselineIsStored ==
  \A t \in Tabs : WritesFenced(t) => baseline[t] = Some(stored)

(* A tab that writes under the durable token edits a document that holds   *)
(* everything stored, unless its baseline drifted from what it opened.     *)
WriterKnowsStored ==
  \A t \in Tabs \ drifted : WritesFenced(t) => stored \subseteq doc[t]

(* The documents a stage of the save pipeline holds, and their order.      *)
Held(save) == IF save = NoSave THEN NoDoc ELSE Some(save.doc)
Within(older, newer) == \A d \in older : \A e \in newer : d \subseteq e

\* Documents move from the user through timer, queue and save to the
\* baseline, and each stage holds an older one than the stage before it.
StagesInOrder(t) ==
  /\ phase[t] # "open" =>
       baseline[t] = NoDoc /\ timer[t] = NoSave /\ queued[t] = NoSave /\ saving[t] = NoSave
  /\ Within(Held(timer[t]) \cup Held(queued[t]) \cup Held(saving[t]), Some(doc[t]))
  /\ ~PreparesSnapshot =>
       /\ Within(Held(queued[t]) \cup Held(saving[t]), Held(timer[t]))
       /\ Within(Held(saving[t]), Held(queued[t]))

\* What the next save replaces is part of every document it may write.
BaselineInOrder(t) ==
  /\ Within(baseline[t], Some(doc[t]))
  /\ ~PreparesSnapshot =>
       /\ Within(baseline[t], Held(timer[t]) \cup Held(queued[t]))
       /\ AtStep(t, "prepare") => Within(baseline[t], Held(saving[t]))
  /\ AtStep(t, "publish") => Within(saving[t].expected, Held(saving[t]))

(* No stage of the autosave overtakes another: a tab never writes over a   *)
(* document with one that is missing an edit of it, although the timer,    *)
(* the queue and the running save hold captures of different age.          *)
TabInOrder(t) == StagesInOrder(t) /\ (t \notin drifted => BaselineInOrder(t))
SavesInOrder == \A t \in Tabs : TabInOrder(t)

(* No save loses a stored edit, except one of a tab whose baseline drifted *)
(* while it opened (the run lost_update shows what such a tab does).       *)
NoLostUpdate ==
  [][stored \subseteq stored'
       \/ \E t \in drifted : AtStep(t, "publish") /\ saving'[t] # saving[t]]_vars

(* What the tab reports as saved is saved: the unsaved-changes flag is     *)
(* cleared only while the store holds every edit the tab shows, or after   *)
(* another claim has already superseded the token of that save.            *)
SavedMeansStored ==
  [][\A t \in Tabs :
       (dirty[t] /\ ~dirty'[t] /\ phase'[t] = "open")
         => doc[t] \subseteq stored \/ fence # saving[t].token]_vars

\* A lost lock has a recovery due or under way, and a pending one waits in
\* the browser's queue.
RecoveryUnderWay(t) ==
  lock[t] \in {"lost", "pending"} => retry[t] # "none" \/ acquiring[t].step # "idle" \/ Waits(t)

(* Lock recovery is forgotten by no loss, refused claim, hand-off timeout  *)
(* or claim of another tab, before, during or after the opening; the one   *)
(* way to lose it is the end of an activation that clears the timer of a   *)
(* lock that replaced its own (EveryLossRecovers).                         *)
RecoveryIsDue ==
  \A t \in Tabs \ forgotten : phase[t] = "open" => RecoveryUnderWay(t)

(* Every open tab whose lock was lost recovers it, as the handlers of      *)
(* project-lock-service.ts set out to do: each of them ends in another     *)
(* recovery.  The end of an activation breaks it (ForgottenRecovery.cfg).  *)
EveryLossRecovers ==
  \A t \in Tabs : phase[t] = "open" => RecoveryUnderWay(t)

(* "Lock recovery stays read-only if the stored document changed while     *)
(* write access was unavailable" (docs/architecture/overview.md): a tab    *)
(* that writes, after a recovery or not, knows everything stored.          *)
RecoveredWriterKnowsStored ==
  \A t \in Tabs : WritesFenced(t) => stored \subseteq doc[t]

(* "Navigator Locks is authoritative" (project-lock.js): the writable tab  *)
(* that holds the lock carries the durable token once every other tab has  *)
(* finished claiming and has noticed that it lost the lock.                *)
HolderCarriesFence ==
  \A t \in Tabs :
    (phase[t] = "open" /\ OwnsFence(t, token[t]) /\ holder = t
       /\ \A u \in Tabs : acquiring[u] = Idle /\ (lock[u] = "writable" => u = t))
      => token[t] = fence

CanWrite(t) == phase[t] = "open" /\ OwnsFence(t, fence) /\ ~checking[t].on

(* An autosave that was armed under the durable token reaches the store    *)
(* and the tab turns clean, unless the tab stops being the fenced writer.  *)
AutosaveReachesStore ==
  \A t \in Tabs :
    (CanWrite(t) /\ timer[t] # NoSave /\ timer[t].token = token[t])
      ~> (~dirty[t] \/ ~CanWrite(t))

=============================================================================
