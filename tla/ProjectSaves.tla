---------------------------- MODULE ProjectSaves ----------------------------
(***************************************************************************)
(* The save service of one editor tab and the operations that stop, flush  *)
(* and drain it: autosave timer, serial save queue, project switches,      *)
(* closing a tab without saving, and the save lease of a captured proxy.   *)
(* The tab has several projects open; one is active.  Sources:             *)
(* controller/document/project-save-service.ts, project-switch-service.ts, *)
(* project-admin-service.ts, project-activation-edit-fence.ts and          *)
(* controller/capture/framescaper-capture-proxy-quiescence.ts.             *)
(*                                                                         *)
(* A document is named by its last edit; edits are numbered in the order   *)
(* they are made, so a greater number is a newer document.  Other tabs     *)
(* appear only as the thief of the lock: what they write is ProjectTabs.   *)
(***************************************************************************)
EXTENDS Naturals, Sequences

CONSTANTS
  Projects,
  NoProject,
  MaxEdits,          \* bound: edits made
  MaxCalls           \* bound: saves, switches, closes, leases and thefts

ASSUME SaveConstants ==
  /\ NoProject \notin Projects
  /\ MaxEdits \in Nat /\ MaxCalls \in Nat

VARIABLES
  prepares,   \* the product: a save re-reads the document (Soundscaper) or not
              \* (Framescaper)
  active,     \* the project of document.get()
  open,       \* projects that have a session tab
  doc,        \* the present document of each session tab
  dirty,      \* the session tab's unsaved-changes flag
  stored,     \* the stored document of each project
  durable,    \* the write-fence token stored for each project
  lock,       \* state.projectLock: project and token, 0 once it is lost
  granted,    \* tokens handed out so far, to this tab or another
  readOnly,   \* state.readOnly
  generation, \* state.saveGeneration
  epoch,      \* projectSaveEpochs
  timer,      \* the captures the autosave timer holds: none or one
  queue,      \* state.saveQueue: the save that runs and those behind it
  newest,     \* queuedAutosaveGenerations, 0 when absent
  enqueued,   \* saves enqueued so far
  rejected,   \* numbers of the saves that rejected
  switches,   \* state.projectQueue: activations in the order of their calls
  switchStep, \* how far the activation at the head is
  awaited,    \* the number of the save that activation waits for
  waiting,    \* flushes that wait for the gate of a suspended project
  closing,    \* the closeProjectTab call with discard
  lease,      \* the save lease of a captured proxy
  made,       \* edits made so far
  calls,      \* calls made so far
  parked,     \* history: projects whose unsaved document the code schedules
              \* nothing for until the next edit or flush
  heldBack,   \* history: projects edited while their saves were suspended
  ceiling,    \* history: the newest document a discarding close may find stored
  orphaned    \* history: projects whose tab was closed while they were active

tabVars == <<active, open, doc, dirty, made>>
lockVars == <<durable, lock, granted, readOnly>>
queueVars == <<queue, newest, enqueued, rejected>>
switchVars == <<switches, switchStep, awaited, waiting>>
vars == <<tabVars, stored, lockVars, generation, epoch, timer, queueVars, switchVars,
          closing, lease, calls, parked, heldBack, ceiling, orphaned, prepares>>

Flushers == {"user", "switch"}
Capture == [project : Projects, gen : Nat, epoch : Nat, token : Nat, doc : Nat]
Save == [project : Projects, gen : Nat, epoch : Nat, token : Nat, doc : Nat,
         auto : BOOLEAN,
         step : {"queued", "prepare", "admit", "publish", "committed", "maintain"}]
NoClose == [project |-> NoProject, step |-> "none", until |-> 0, wasActive |-> FALSE]
NoLease == [project |-> NoProject, held |-> FALSE, until |-> 0]

TypeOK ==
  /\ prepares \in BOOLEAN
  /\ active \in Projects /\ open \subseteq Projects
  /\ doc \in [Projects -> Nat] /\ dirty \in [Projects -> BOOLEAN]
  /\ stored \in [Projects -> Nat] /\ durable \in [Projects -> Nat]
  /\ lock \in [project : Projects \cup {NoProject}, token : Nat]
  /\ granted \in Nat /\ readOnly \in BOOLEAN
  /\ generation \in Nat /\ epoch \in [Projects -> Nat]
  /\ timer \subseteq Capture
  /\ queue \in Seq(Save) /\ newest \in [Projects -> Nat]
  /\ enqueued \in Nat /\ rejected \subseteq 1..enqueued /\ Len(queue) <= enqueued
  /\ switches \in Seq([target : Projects, skipFlush : BOOLEAN, by : {"user", "close"}])
  /\ switchStep \in {"idle", "begun", "flushing", "leaving", "locking", "entering"}
  /\ awaited \in 0..enqueued
  /\ waiting \in [Flushers -> Projects \cup {NoProject}]
  /\ closing \in [project : Projects \cup {NoProject}, until : 0..enqueued,
                  step : {"none", "drain", "switch", "close"}, wasActive : BOOLEAN]
  /\ lease \in [project : Projects \cup {NoProject}, held : BOOLEAN, until : 0..enqueued]
  /\ made \in 0..MaxEdits /\ calls \in 0..MaxCalls
  /\ parked \subseteq Projects /\ heldBack \subseteq Projects
  /\ ceiling \in Nat /\ orphaned \subseteq Projects

(* A tab that has one project open, saved, under its own lock.             *)
Init ==
  /\ prepares \in BOOLEAN
  /\ active \in Projects
  /\ open = {active}
  /\ doc = [p \in Projects |-> 0] /\ dirty = [p \in Projects |-> FALSE]
  /\ stored = [p \in Projects |-> 0]
  /\ durable = [p \in Projects |-> IF p = active THEN 1 ELSE 0]
  /\ lock = [project |-> active, token |-> 1] /\ granted = 1 /\ readOnly = FALSE
  /\ generation = 0 /\ epoch = [p \in Projects |-> 0] /\ timer = {}
  /\ queue = <<>> /\ newest = [p \in Projects |-> 0] /\ enqueued = 0 /\ rejected = {}
  /\ switches = <<>> /\ switchStep = "idle" /\ awaited = 0
  /\ waiting = [w \in Flushers |-> NoProject]
  /\ closing = NoClose /\ lease = NoLease
  /\ made = 0 /\ calls = 0
  /\ parked = {} /\ heldBack = {} /\ ceiling = 0 /\ orphaned = {}

-----------------------------------------------------------------------------
(* Authority of a save: getWriteFence, ownsWriteFence, ownsProjectSaveEpoch *)

WriteFence(p) == IF lock.project = p THEN lock.token ELSE 0
OwnsWriteFence(r) == ~readOnly /\ r.token # 0 /\ WriteFence(r.project) = r.token
OwnsFenceOnly(r) == OwnsWriteFence(r)
MayProceed(r) == OwnsWriteFence(r) /\ epoch[r.project] = r.epoch

(* suspendedProjects: the gate of a project is shut while a close discards *)
(* its changes or a captured proxy is attached to it.                      *)
Suspended(p) == closing.project = p \/ lease.project = p

(* drain(): the saves enqueued up to the call have settled.                *)
SettledTooMany == enqueued - Len(queue) + 1
Settled == enqueued - Len(queue)
DrainsAtOnce(until) == TRUE
Drained(until) == Settled >= until

TimerWithout(p) == {c \in timer : c.project # p}

\* What the code captured for p now will reach the store: it has a token.
Scheduled(p) == IF WriteFence(p) = 0 THEN {} ELSE {p}

CaptureOf(p, d) ==
  [project |-> p, gen |-> generation + 1, epoch |-> epoch[p], token |-> WriteFence(p), doc |-> d]

Asked == calls < MaxCalls /\ calls' = calls + 1

-----------------------------------------------------------------------------
(* Editing and the autosave timer                                          *)

(* commit + scheduleAutosave.  Edits are refused while an activation is    *)
(* pending; while saves of the project are suspended nothing is captured   *)
(* and the generation stays.  A capture made while the lock is lost has no *)
(* token: its save will be dropped.                                        *)
Edit ==
  /\ ~readOnly /\ switches = <<>> /\ made < MaxEdits
  /\ made' = made + 1
  /\ doc' = [doc EXCEPT ![active] = made + 1]
  /\ dirty' = [dirty EXCEPT ![active] = active \in open]
  /\ IF Suspended(active)
     THEN /\ timer' = TimerWithout(active)
          /\ heldBack' = heldBack \cup {active} /\ parked' = parked \cup {active}
          /\ UNCHANGED generation
     ELSE /\ timer' = {CaptureOf(active, made + 1)}
          /\ heldBack' = heldBack \ {active}
          /\ parked' = (parked \cup {active}) \ Scheduled(active)
          /\ generation' = generation + 1
  /\ UNCHANGED <<active, open, stored, lockVars, epoch, queueVars, switchVars,
                 closing, lease, calls, ceiling, orphaned, prepares>>

SaveOf(c, auto) ==
  [project |-> c.project, gen |-> c.gen, epoch |-> c.epoch, token |-> c.token,
   doc |-> c.doc, auto |-> auto, step |-> "queued"]

FlushOvertakes(c, auto) ==
  /\ queue' = IF auto \/ queue = <<>>
              THEN Append(queue, SaveOf(c, auto))
              ELSE <<queue[1], SaveOf(c, auto)>> \o Tail(queue)
  /\ enqueued' = enqueued + 1
  /\ UNCHANGED rejected

AppendSave(c, auto) ==
  /\ queue' = Append(queue, SaveOf(c, auto))
  /\ enqueued' = enqueued + 1
  /\ UNCHANGED rejected

(* The timer fires: the capture made by the newest edit joins the queue.   *)
FireTimer ==
  /\ \E c \in timer :
       /\ AppendSave(c, TRUE)
       /\ newest' = [newest EXCEPT ![c.project] = c.gen]
  /\ timer' = {}
  /\ UNCHANGED <<tabVars, stored, lockVars, generation, epoch, switchVars,
                 closing, lease, calls, parked, heldBack, ceiling, orphaned, prepares>>

(* flushCurrentProject: nothing to save, wait for the gate, or enqueue the *)
(* present document under the current generation.                          *)
NothingToFlush == readOnly \/ (~prepares /\ ~dirty[active])

Flush(w) ==
  \/ /\ NothingToFlush
     /\ timer' = TimerWithout(active)
     /\ waiting' = [waiting EXCEPT ![w] = NoProject]
     /\ UNCHANGED <<queueVars, awaited, parked, heldBack>>
  \/ /\ ~NothingToFlush /\ Suspended(active)
     /\ timer' = TimerWithout(active)
     /\ waiting' = [waiting EXCEPT ![w] = active]
     /\ UNCHANGED <<queueVars, awaited, parked, heldBack>>
  \/ /\ ~NothingToFlush /\ ~Suspended(active)
     /\ timer' = {}
     /\ AppendSave([CaptureOf(active, doc[active]) EXCEPT !.gen = generation], FALSE)
     /\ waiting' = [waiting EXCEPT ![w] = NoProject]
     /\ awaited' = IF w = "switch" THEN enqueued + 1 ELSE awaited
     /\ parked' = parked \ Scheduled(active) /\ heldBack' = heldBack \ Scheduled(active)
     /\ UNCHANGED newest

(* The user saves.                                                         *)
SaveNow ==
  /\ Asked
  /\ waiting["user"] = NoProject
  /\ Flush("user")
  /\ UNCHANGED <<tabVars, stored, lockVars, generation, epoch, switches, switchStep,
                 closing, lease, ceiling, orphaned, prepares>>

(* resumeProject opens the gate only with its last suspension.             *)
GateStaysShut(p) == FALSE
GateOpened(p) == ~Suspended(p)

(* The gate of the project opened: the flush starts over, for whichever    *)
(* project is active by now.                                               *)
ResumeFlush(w) ==
  /\ waiting[w] # NoProject /\ GateOpened(waiting[w])
  /\ Flush(w)
  /\ UNCHANGED <<tabVars, stored, lockVars, generation, epoch, switches, switchStep,
                 closing, lease, calls, ceiling, orphaned, prepares>>

-----------------------------------------------------------------------------
(* saveSnapshot, for the save at the head of the queue                     *)

Head1 == queue[1]
SaveAt(step) == queue # <<>> /\ Head1.step = step
MoveTo(step) == queue' = [queue EXCEPT ![1].step = step]

ForgetsAnyAutosave(r) == newest' = [newest EXCEPT ![r.project] = IF r.auto THEN 0 ELSE @]
ForgetsAutosave(r) ==
  newest' = [newest EXCEPT ![r.project] = IF r.auto /\ @ = r.gen THEN 0 ELSE @]

EndSave(rejects) ==
  /\ ForgetsAutosave(Head1)
  /\ queue' = Tail(queue)
  /\ rejected' = IF rejects THEN rejected \cup {Settled + 1} ELSE rejected
  /\ UNCHANGED enqueued

savedElsewhere == <<active, open, doc, made, generation, epoch, timer, switchVars,
                    closing, lease, calls, heldBack, ceiling, orphaned, prepares>>

(* A save without authority, or an autosave that a later timer superseded, *)
(* is skipped.                                                             *)
IsSuperseded(r) == r.auto /\ newest[r.project] # r.gen

BeginSave ==
  /\ SaveAt("queued")
  /\ IF MayProceed(Head1) /\ ~IsSuperseded(Head1)
     THEN MoveTo("prepare") /\ UNCHANGED <<newest, enqueued, rejected>>
     ELSE EndSave(FALSE)
  /\ UNCHANGED <<savedElsewhere, dirty, stored, lockVars, parked>>

(* The snapshot is prepared; Soundscaper takes the present document.       *)
PrepareSave ==
  /\ SaveAt("prepare")
  /\ IF MayProceed(Head1)
     THEN /\ queue' = [queue EXCEPT ![1] =
               [@ EXCEPT !.step = "admit",
                         !.doc = IF prepares THEN doc[Head1.project] ELSE Head1.doc]]
          /\ UNCHANGED <<newest, enqueued, rejected>>
     ELSE EndSave(FALSE)
  /\ UNCHANGED <<savedElsewhere, dirty, stored, lockVars, parked>>

(* admitProjectPublication: storage room was checked; retired or fenced    *)
(* saves stop here.                                                        *)
AdmitSave ==
  /\ SaveAt("admit")
  /\ IF MayProceed(Head1)
     THEN MoveTo("publish") /\ UNCHANGED <<newest, enqueued, rejected>>
     ELSE EndSave(FALSE)
  /\ UNCHANGED <<savedElsewhere, dirty, stored, lockVars, parked>>

(* The fenced transaction commits, or finds another token and the active   *)
(* tab turns read-only (onPublicationConflict).                            *)
PublishSave ==
  /\ SaveAt("publish")
  /\ IF durable[Head1.project] = Head1.token
     THEN /\ stored' = [stored EXCEPT ![Head1.project] = Head1.doc]
          /\ MoveTo("committed")
          /\ UNCHANGED <<newest, enqueued, rejected, readOnly, parked>>
     ELSE /\ readOnly' = (readOnly \/ active = Head1.project)
          /\ EndSave(epoch[Head1.project] = Head1.epoch)
          /\ parked' = parked \cup {Head1.project}
          /\ UNCHANGED stored
  /\ UNCHANGED <<savedElsewhere, dirty, durable, lock, granted>>

(* Storage fails: the error is reported and the save rejects, unless its   *)
(* authority is gone.                                                      *)
FailSave ==
  /\ SaveAt("admit") \/ SaveAt("publish") \/ SaveAt("committed")
  /\ EndSave(MayProceed(Head1))
  /\ parked' = parked \cup {Head1.project}
  /\ UNCHANGED <<savedElsewhere, dirty, stored, lockVars>>

(* The newest generation of the active project clears the unsaved flag.    *)
PublishesAnyGeneration(r) == active = r.project
PublishesSaved(r) == active = r.project /\ r.gen = generation

FinishSave ==
  /\ SaveAt("committed")
  /\ dirty' = [dirty EXCEPT ![Head1.project] =
       @ /\ ~(MayProceed(Head1) /\ PublishesSaved(Head1))]
  /\ IF MayProceed(Head1)
     THEN MoveTo("maintain") /\ UNCHANGED <<newest, enqueued, rejected>>
     ELSE EndSave(FALSE)
  /\ UNCHANGED <<savedElsewhere, stored, lockVars, parked>>

(* The save settles after garbage collection and the storage estimate,     *)
(* whose failures are only reported.                                       *)
EndMaintenance ==
  /\ SaveAt("maintain")
  /\ EndSave(FALSE)
  /\ UNCHANGED <<savedElsewhere, dirty, stored, lockVars, parked>>

-----------------------------------------------------------------------------
(* The browser lock of the active project                                  *)

(* Another tab claims the project: its token replaces the durable one.     *)
StealLock ==
  /\ Asked
  /\ lock.token # 0 /\ durable[lock.project] = lock.token
  /\ granted' = granted + 1
  /\ durable' = [durable EXCEPT ![lock.project] = granted + 1]
  /\ UNCHANGED <<tabVars, stored, lock, readOnly, generation, epoch, timer, queueVars,
                 switchVars, closing, lease, parked, heldBack, ceiling, orphaned, prepares>>

(* watchProjectLockLoss: only the active project turns read-only.          *)
NoticeLoss ==
  /\ lock.token # 0 /\ durable[lock.project] # lock.token
  /\ lock' = [lock EXCEPT !.token = 0]
  /\ readOnly' = (readOnly \/ lock.project = active)
  /\ parked' = parked \cup {active}
  /\ UNCHANGED <<tabVars, stored, durable, granted, generation, epoch, timer, queueVars,
                 switchVars, closing, lease, calls, heldBack, ceiling, orphaned, prepares>>

TakeToken(p) ==
  /\ granted' = granted + 1
  /\ lock' = [project |-> p, token |-> granted + 1]
  /\ durable' = [durable EXCEPT ![p] = granted + 1]

(* recoverProjectLock got the lock and the stored document is still the    *)
(* baseline, so the tab writes again.  Nothing reschedules what was        *)
(* unsaved.                                                                *)
RecoverLock ==
  /\ lock.project = active /\ lock.token = 0
  /\ TakeToken(active)
  /\ readOnly' = FALSE
  /\ UNCHANGED <<tabVars, stored, generation, epoch, timer, queueVars, switchVars,
                 closing, lease, calls, parked, heldBack, ceiling, orphaned, prepares>>

(* It got a place in the browser's queue instead: a tab that entered its   *)
(* project writable under a lock lost meanwhile is read-only from now on.  *)
WaitForLock ==
  /\ lock.project = active /\ lock.token = 0 /\ ~readOnly
  /\ readOnly' = TRUE
  /\ UNCHANGED <<tabVars, stored, durable, lock, granted, generation, epoch, timer, queueVars,
                 switchVars, closing, lease, calls, parked, heldBack, ceiling, orphaned, prepares>>

-----------------------------------------------------------------------------
(* Switching the active project: activations run one after the other       *)

EnqueueSwitch(p, skip, by) ==
  switches' = Append(switches, [target |-> p, skipFlush |-> skip, by |-> by])

RequestSwitch(p) ==
  /\ Asked
  /\ switches # <<>> \/ p # active
  /\ EnqueueSwitch(p, FALSE, "user")
  /\ UNCHANGED <<tabVars, stored, lockVars, generation, epoch, timer, queueVars,
                 switchStep, awaited, waiting, closing, lease, parked, heldBack, ceiling, orphaned, prepares>>

(* The activation at the head ends; the close that asked for it goes on.   *)
EndSwitch ==
  /\ switches' = Tail(switches)
  /\ switchStep' = "idle"
  /\ closing' = IF switches[1].by = "close" THEN [closing EXCEPT !.step = "close"] ELSE closing

BeginSwitch ==
  /\ switches # <<>> /\ switchStep = "idle" /\ closing.step # "close"
  /\ IF switches[1].target = active
     THEN EndSwitch
     ELSE switchStep' = "begun" /\ UNCHANGED <<switches, closing>>
  /\ UNCHANGED <<tabVars, stored, lockVars, generation, epoch, timer, queueVars,
                 awaited, waiting, lease, calls, parked, heldBack, ceiling, orphaned, prepares>>

(* The project that is left is flushed, unless it is read-only or closes   *)
(* without saving.                                                         *)
FlushLeft ==
  /\ switchStep = "begun"
  /\ IF switches[1].skipFlush \/ readOnly
     THEN /\ switchStep' = "leaving"
          /\ UNCHANGED <<timer, queueVars, awaited, waiting, parked, heldBack>>
     ELSE switchStep' = "flushing" /\ Flush("switch")
  /\ UNCHANGED <<tabVars, stored, lockVars, generation, epoch, switches,
                 closing, lease, calls, ceiling, orphaned, prepares>>

(* A flush that rejects ends the activation; the project stays active.     *)
FlushReturned ==
  /\ switchStep = "flushing" /\ waiting["switch"] = NoProject /\ Settled >= awaited
  /\ IF awaited \in rejected
     THEN EndSwitch
     ELSE switchStep' = "leaving" /\ UNCHANGED <<switches, closing>>
  /\ awaited' = 0
  /\ UNCHANGED <<tabVars, stored, lockVars, generation, epoch, timer, queueVars,
                 waiting, lease, calls, parked, heldBack, ceiling, orphaned, prepares>>

(* cancelScheduledSave, then the lock of the project that is left is       *)
(* released and the lock of the next one is claimed.                       *)
ReleaseLock ==
  /\ switchStep = "leaving"
  /\ switchStep' = "locking"
  /\ timer' = {}
  /\ lock' = [project |-> NoProject, token |-> 0]
  /\ parked' = parked \cup {active}
  /\ UNCHANGED <<tabVars, stored, durable, granted, readOnly, generation, epoch, queueVars,
                 switches, awaited, waiting, closing, lease, calls, heldBack, ceiling, orphaned, prepares>>

(* The claim returns a lock that the tab has not seen lost, or throws; the *)
(* activation reads that (activationLock.readOnly) before it goes on to    *)
(* compare the store, and keeps what it read.                              *)
ClaimLock ==
  /\ switchStep = "locking"
  /\ switchStep' = "entering"
  /\ TakeToken(switches[1].target)
  /\ UNCHANGED <<tabVars, stored, readOnly, generation, epoch, timer, queueVars,
                 switches, awaited, waiting, closing, lease, calls, parked, heldBack, ceiling, orphaned, prepares>>

(* The store was compared and the target becomes the active project: its   *)
(* session tab as it was left, or the stored document in a new one.  It is *)
(* writable, as ClaimLock read: a loss noticed since then did not concern  *)
(* the active project (NoticeLoss), and the lock is not looked at again.   *)
EnterProject ==
  /\ switchStep = "entering"
  /\ LET p == switches[1].target IN
       /\ active' = p
       /\ open' = open \cup {p}
       /\ doc' = IF p \in open THEN doc ELSE [doc EXCEPT ![p] = stored[p]]
       /\ dirty' = [dirty EXCEPT ![p] = p \in open /\ @]
       /\ orphaned' = orphaned \ {p}
  /\ readOnly' = FALSE
  /\ EndSwitch
  /\ UNCHANGED <<made, stored, durable, lock, granted, generation, epoch, timer, queueVars,
                 awaited, waiting, lease, calls, parked, heldBack, ceiling, prepares>>

-----------------------------------------------------------------------------
(* closeProjectTab with discard                                            *)

(* Saves of the project are suspended and retired; the call drains.        *)
RunningDocOf(p) ==
  IF SaveAt("publish") /\ Head1.project = p THEN {Head1.doc} ELSE {}

BeginDiscard(p) ==
  /\ Asked
  /\ p \in open /\ closing = NoClose /\ lease.project # p
  /\ closing' = [project |-> p, step |-> "drain", until |-> enqueued, wasActive |-> p = active]
  /\ epoch' = [epoch EXCEPT ![p] = @ + 1]
  /\ timer' = TimerWithout(p)
  /\ parked' = parked \cup {p}
  /\ ceiling' = CHOOSE d \in {stored[p]} \cup RunningDocOf(p) :
                  \A e \in {stored[p]} \cup RunningDocOf(p) : e <= d
  /\ UNCHANGED <<tabVars, stored, lockVars, generation, queueVars, switchVars,
                 lease, heldBack, orphaned, prepares>>

(* The session tab goes, unless an activation in progress has reserved it. *)
Reserved(p) ==
  /\ switchStep # "idle"
  /\ switches[1].target = p \/ active = p

CloseSession(p) ==
  /\ IF Reserved(p)
     THEN UNCHANGED <<open, dirty, parked, heldBack, orphaned>>
     ELSE /\ open' = open \ {p}
          /\ orphaned' = IF p = active THEN orphaned \cup {p} ELSE orphaned
          /\ dirty' = [dirty EXCEPT ![p] = FALSE]
          /\ parked' = parked \ {p} /\ heldBack' = heldBack \ {p}
  /\ closing' = NoClose

discardElsewhere == <<active, doc, made, stored, lockVars, generation, epoch, timer, queueVars,
                      switchStep, awaited, waiting, lease, calls, ceiling, prepares>>

(* The drain settled.  If its last save rejected, the call throws; a       *)
(* project that was not the active one when the call began is closed.      *)
DiscardDrained ==
  /\ closing.step = "drain" /\ Drained(closing.until)
  /\ \/ /\ closing.until \in rejected
        /\ closing' = NoClose
        /\ UNCHANGED <<open, dirty, parked, heldBack, orphaned>>
     \/ /\ closing.until \notin rejected /\ ~closing.wasActive
        /\ CloseSession(closing.project)
  /\ UNCHANGED <<switches, discardElsewhere>>

(* The project was the active one when the call began: a successor is      *)
(* activated before it is closed.                                          *)
ActivateSuccessor ==
  /\ closing.step = "drain" /\ Drained(closing.until)
  /\ closing.until \notin rejected /\ closing.wasActive
  /\ \E q \in Projects \ {closing.project} :
       /\ open # {closing.project} => q \in open
       /\ IF switches = <<>> /\ q = active
          THEN closing' = [closing EXCEPT !.step = "close"] /\ UNCHANGED switches
          ELSE /\ closing' = [closing EXCEPT !.step = "switch"]
               /\ EnqueueSwitch(q, TRUE, "close")
  /\ UNCHANGED <<open, dirty, parked, heldBack, orphaned, discardElsewhere>>

CloseTab ==
  /\ closing.step = "close"
  /\ CloseSession(closing.project)
  /\ UNCHANGED <<switches, discardElsewhere>>

-----------------------------------------------------------------------------
(* The save lease of a captured proxy (Framescaper only)                   *)

BeginQuiesce(p) ==
  /\ Asked /\ ~prepares
  /\ p \in open /\ lease = NoLease /\ closing.project # p
  /\ lease' = [project |-> p, held |-> FALSE, until |-> enqueued]
  /\ timer' = TimerWithout(p)
  /\ parked' = parked \cup {p}
  /\ UNCHANGED <<tabVars, stored, lockVars, generation, epoch, queueVars, switchVars,
                 closing, heldBack, ceiling, orphaned, prepares>>

QuiesceDrained ==
  /\ lease # NoLease /\ ~lease.held
  /\ Drained(lease.until) /\ lease.until \notin rejected
  /\ lease' = [lease EXCEPT !.held = TRUE]
  /\ UNCHANGED <<tabVars, stored, lockVars, generation, epoch, timer, queueVars, switchVars,
                 closing, calls, parked, heldBack, ceiling, orphaned, prepares>>

(* The lease is released, or its drain is aborted or rejects; the active   *)
(* project is scheduled again while it is dirty.                           *)
ReleaseLease ==
  /\ lease # NoLease
  /\ lease' = NoLease
  /\ IF active = lease.project /\ dirty[active] /\ ~readOnly
     THEN /\ timer' = {CaptureOf(active, doc[active])}
          /\ generation' = generation + 1
          /\ parked' = parked \ Scheduled(active) /\ heldBack' = heldBack \ Scheduled(active)
     ELSE UNCHANGED <<timer, generation, parked, heldBack>>
  /\ UNCHANGED <<tabVars, stored, lockVars, epoch, queueVars, switchVars,
                 closing, calls, ceiling, orphaned, prepares>>

-----------------------------------------------------------------------------
SaveStep ==
  \/ BeginSave \/ PrepareSave \/ AdmitSave \/ PublishSave \/ FailSave \/ FinishSave
  \/ EndMaintenance
LockStep == StealLock \/ NoticeLoss \/ RecoverLock \/ WaitForLock
SwitchStep ==
  \/ \E p \in Projects : RequestSwitch(p)
  \/ BeginSwitch \/ FlushLeft \/ FlushReturned \/ ReleaseLock \/ ClaimLock \/ EnterProject
CloseStep == (\E p \in Projects : BeginDiscard(p)) \/ DiscardDrained \/ ActivateSuccessor \/ CloseTab
LeaseStep == (\E p \in Projects : BeginQuiesce(p)) \/ QuiesceDrained \/ ReleaseLease

Next ==
  \/ Edit \/ FireTimer \/ SaveNow \/ (\E w \in Flushers : ResumeFlush(w))
  \/ SaveStep \/ LockStep \/ SwitchStep \/ CloseStep \/ LeaseStep

Spec == Init /\ [][Next]_vars

(* The event loop runs timers, continuations and transactions, and proxy   *)
(* work ends, by success or abort.  Users and other tabs owe nothing.      *)
RunSave ==
  BeginSave \/ PrepareSave \/ AdmitSave \/ PublishSave \/ FinishSave \/ EndMaintenance
RunSwitch ==
  \/ BeginSwitch \/ FlushLeft \/ FlushReturned \/ ReleaseLock \/ ClaimLock \/ EnterProject

Fairness ==
  /\ WF_vars(FireTimer) /\ WF_vars(RunSave) /\ WF_vars(RunSwitch)
  /\ \A w \in Flushers : WF_vars(ResumeFlush(w))
  /\ WF_vars(DiscardDrained \/ ActivateSuccessor) /\ WF_vars(CloseTab)
  /\ WF_vars(ReleaseLease)

FairSpec == Spec /\ Fairness

(* The same system, less eager to interleave: a drain that has settled     *)
(* continues before anything else happens in the tab.                      *)
DrainSettled == closing.step = "drain" /\ Drained(closing.until)
PromptNext == Next /\ (DrainSettled => DiscardDrained \/ ActivateSuccessor)
PromptSpec == Init /\ [][PromptNext]_vars
FairPromptSpec == PromptSpec /\ Fairness

-----------------------------------------------------------------------------
(* Properties                                                              *)

(* A tab shown as saved is saved: unless its project was edited while its  *)
(* saves were suspended, a clean session tab holds the stored document.    *)
CleanMeansStored ==
  \A p \in open \ heldBack : ~dirty[p] => doc[p] = stored[p]

(* "Only the newest generation for the active project may publish a saved  *)
(* state" (project-save-service.ts): a clean session tab holds the stored  *)
(* document, whatever was suspended while it was edited.                   *)
SavedIsNewest ==
  \A p \in open : ~dirty[p] => doc[p] = stored[p]

WillStore(r, p) ==
  /\ r.project = p /\ MayProceed(r)
  /\ r.doc = doc[p] \/ (prepares /\ r.step \in {"queued", "prepare"})
  /\ r.step = "queued" => ~IsSuperseded(r)

OnItsWay(p) ==
  \/ \E c \in timer : c.project = p /\ c.doc = doc[p] /\ MayProceed(c)
  \/ \E i \in 1..Len(queue) : WillStore(queue[i], p)
  \/ \E w \in Flushers : waiting[w] = p

(* Coalescing, cancelled timers and flushes never lose the newest unsaved  *)
(* document: it is in the timer, in the queue or in a waiting flush, until *)
(* one of the events that park it (a failed save, a lost lock, an edit     *)
(* captured without a token, a suspension, a switch) leaves it to the next *)
(* edit or flush.                                                          *)
UnsavedIsOnItsWay ==
  (active \in open \ parked /\ dirty[active] /\ ~readOnly) => OnItsWay(active)

(* A tab that accepts edits holds the lock they are saved under, as        *)
(* watchProjectLockLoss, recoverProjectLock and claimProjectLock arrange   *)
(* it.  A lock lost while its project is being activated breaks this       *)
(* (UnfencedEdit.cfg).                                                     *)
EditsAreFenced == (~readOnly /\ switches = <<>>) => WriteFence(active) # 0

(* While a captured proxy holds the save lease of its project, no save of  *)
(* the project runs or waits, so its own publication cannot be overtaken.  *)
LeasedProjectIsQuiet ==
  lease.held => \A i \in 1..Len(queue) : queue[i].project # lease.project

(* Closing without saving discards: once the call retired the saves of the *)
(* project, only a transaction that was already running may still commit.  *)
DiscardedStaysOut ==
  closing # NoClose => stored[closing.project] <= ceiling

(* A closed tab writes nothing: the drain has waited for its last save.    *)
(* (ClosedActive.cfg shows how the editor may still show it, and save what *)
(* the user does there.)                                                   *)
ClosedTabsWriteNothing ==
  [][\A p \in Projects \ orphaned : p \notin open => stored'[p] = stored[p]]_vars

(* An older snapshot never overwrites a newer one, in whatever order       *)
(* timers, flushes, switches and failures put them into the queue.         *)
StoredNeverGoesBack ==
  [][\A p \in Projects : stored[p] <= stored'[p]]_vars

(* "closing the active tab saves it and selects the next session project"  *)
(* (tests): the project the editor shows has a session tab.                *)
ActiveHasTab == active \in open

\* An activation waits for the gate of a project whose close waits for a
\* later activation.
CircularWait ==
  /\ waiting["switch"] = closing.project /\ closing.step = "switch"

(* An activation ends, unless it flushes a project that is being closed    *)
(* without saving (CircularWait.cfg).                                      *)
SwitchesEnd == (switches # <<>>) ~> (switches = <<>> \/ CircularWait)

(* "Temporary suspension closes ... one exact project's admission while    *)
(* its owner drains the stable queue" (project-save-service.ts): the close *)
(* that suspended a project ends.                                          *)
SuspensionIsTemporary == (closing # NoClose) ~> (closing = NoClose)
=============================================================================
