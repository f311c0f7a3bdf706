------------------------- MODULE ProjectSavesProofs --------------------------
(***************************************************************************)
(* Theorems about ProjectSaves, for any number of projects, edits and      *)
(* calls.                                                                  *)
(***************************************************************************)
EXTENDS ProjectSaves, SequenceTheorems, TLAPS

USE SaveConstants DEF tabVars, lockVars, queueVars, switchVars, savedElsewhere, discardElsewhere

-----------------------------------------------------------------------------
(* Types, in parts that a step keeps or changes together.                  *)
SwitchOrder == [target : Projects, skipFlush : BOOLEAN, by : {"user", "close"}]
Closings == [project : Projects \cup {NoProject}, until : Nat,
             step : {"none", "drain", "switch", "close"}, wasActive : BOOLEAN]
Leases == [project : Projects \cup {NoProject}, held : BOOLEAN, until : Nat]

TabTypes ==
  /\ prepares \in BOOLEAN /\ active \in Projects /\ open \subseteq Projects
  /\ doc \in [Projects -> Nat] /\ dirty \in [Projects -> BOOLEAN]
  /\ stored \in [Projects -> Nat] /\ made \in 0..MaxEdits /\ calls \in 0..MaxCalls
PipeTypes ==
  /\ generation \in Nat /\ epoch \in [Projects -> Nat] /\ timer \subseteq Capture
  /\ newest \in [Projects -> Nat]
LockTypes ==
  /\ durable \in [Projects -> Nat] /\ granted \in Nat /\ readOnly \in BOOLEAN
  /\ lock \in [project : Projects \cup {NoProject}, token : Nat]
QueueTypes ==
  /\ queue \in Seq(Save) /\ enqueued \in Nat /\ rejected \subseteq 1..enqueued
  /\ Len(queue) <= enqueued
SwitchTypes ==
  /\ switches \in Seq(SwitchOrder)
  /\ switchStep \in {"idle", "begun", "flushing", "leaving", "locking", "entering"}
CallTypes ==
  /\ waiting \in [Flushers -> Projects \cup {NoProject}]
  /\ awaited \in Nat /\ awaited <= enqueued
  /\ closing \in Closings /\ closing.until <= enqueued
  /\ lease \in Leases /\ lease.until <= enqueued
HistoryTypes ==
  /\ parked \subseteq Projects /\ heldBack \subseteq Projects
  /\ ceiling \in Nat /\ orphaned \subseteq Projects

TypeParts ==
  /\ TabTypes /\ PipeTypes /\ LockTypes /\ QueueTypes /\ SwitchTypes /\ CallTypes
  /\ HistoryTypes

LEMMA TypePartsSuffice == TypeParts => TypeOK
<1> SUFFICES ASSUME TypeParts PROVE TypeOK
  OBVIOUS
<1>1. closing \in [project : Projects \cup {NoProject}, until : 0..enqueued,
                  step : {"none", "drain", "switch", "close"}, wasActive : BOOLEAN]
  BY DEF TypeParts, CallTypes, QueueTypes, Closings
<1>2. lease \in [project : Projects \cup {NoProject}, held : BOOLEAN, until : 0..enqueued]
  BY DEF TypeParts, CallTypes, QueueTypes, Leases
<1>3. awaited \in 0..enqueued
  BY DEF TypeParts, CallTypes, QueueTypes
<1>4. QED
  BY <1>1, <1>2, <1>3 DEF TypeOK, TypeParts, TabTypes, PipeTypes, LockTypes, QueueTypes,
     SwitchTypes, CallTypes, HistoryTypes, SwitchOrder

LEMMA HeadIsSave ==
  ASSUME TypeParts, queue # <<>>
  PROVE  queue[1] \in Save /\ Len(queue) \in Nat \ {0}
BY DEF TypeParts, QueueTypes

-----------------------------------------------------------------------------
(* What can happen to the save queue.                                      *)
Joined(save) ==
  /\ queue' = Append(queue, save) /\ Len(queue') = Len(queue) + 1
  /\ queue'[Len(queue) + 1] = save
  /\ \A i \in 1..Len(queue) : queue'[i] = queue[i]

HeadGone ==
  /\ Len(queue) > 0 /\ Len(queue') = Len(queue) - 1
  /\ \A i \in 1..Len(queue') : queue'[i] = queue[i + 1]

HeadBecomes(save) ==
  /\ Len(queue) > 0 /\ Len(queue') = Len(queue)
  /\ queue'[1] = save
  /\ \A i \in 2..Len(queue) : queue'[i] = queue[i]

LEMMA JoinedQueue ==
  ASSUME queue \in Seq(Save), NEW save \in Save, queue' = Append(queue, save)
  PROVE  queue' \in Seq(Save) /\ Joined(save)
BY DEF Joined

LEMMA ShorterQueue ==
  ASSUME queue \in Seq(Save), queue # <<>>, queue' = Tail(queue)
  PROVE  queue' \in Seq(Save) /\ HeadGone
BY DEF HeadGone

LEMMA MovedQueue ==
  ASSUME queue \in Seq(Save), queue # <<>>, NEW save \in Save, queue' = [queue EXCEPT ![1] = save]
  PROVE  queue' \in Seq(Save) /\ HeadBecomes(save)
<1>1. 1 \in 1..Len(queue) /\ Len(queue) \in Nat
  OBVIOUS
<1>2. queue' \in Seq(Save) /\ Len(queue') = Len(queue)
  BY <1>1, ExceptSeq
<1>3. queue'[1] = save /\ \A i \in 2..Len(queue) : queue'[i] = queue[i]
  BY <1>1, ExceptSeq
<1>4. QED
  BY <1>1, <1>2, <1>3 DEF HeadBecomes

\* A save more, or the same queue: every number of a rejected save is kept.
LEMMA QueueGrows ==
  ASSUME QueueTypes, queue' \in Seq(Save), rejected' = rejected,
         \/ Len(queue') = Len(queue) + 1 /\ enqueued' = enqueued + 1
         \/ Len(queue') = Len(queue) /\ enqueued' = enqueued
  PROVE  QueueTypes'
<1>1. enqueued \in Nat /\ enqueued' \in Nat /\ enqueued <= enqueued'
  BY DEF QueueTypes
<1>2. rejected' \subseteq 1..enqueued'
  BY <1>1 DEF QueueTypes
<1>3. Len(queue') <= enqueued'
  BY DEF QueueTypes
<1>4. QED
  BY <1>1, <1>2, <1>3 DEF QueueTypes

Steps == {"queued", "prepare", "admit", "publish", "committed", "maintain"}

LEMMA SaveStepTypes ==
  ASSUME NEW r \in Save, NEW step \in Steps, NEW d \in Nat
  PROVE  /\ [r EXCEPT !.step = step] \in Save
         /\ [r EXCEPT !.step = step, !.doc = d] \in Save
BY DEF Save, Steps

(* The captures the code makes.                                            *)
LEMMA CaptureTypes ==
  ASSUME TypeParts, NEW p \in Projects, NEW d \in Nat
  PROVE  /\ WriteFence(p) \in Nat
         /\ CaptureOf(p, d) \in Capture
         /\ [CaptureOf(p, d) EXCEPT !.gen = generation] \in Capture
<1>1. WriteFence(p) \in Nat
  BY DEF TypeParts, LockTypes, WriteFence
<1>2. CaptureOf(p, d) \in Capture
  BY <1>1 DEF TypeParts, PipeTypes, CaptureOf, Capture
<1>3. \A c \in Capture : [c EXCEPT !.gen = generation] \in Capture
  BY DEF TypeParts, PipeTypes, Capture
<1>4. QED
  BY <1>1, <1>2, <1>3

LEMMA SaveOfTypes ==
  ASSUME NEW c \in Capture, NEW auto \in BOOLEAN
  PROVE  SaveOf(c, auto) \in Save
BY DEF SaveOf, Save, Capture

FlushedSave == SaveOf([CaptureOf(active, doc[active]) EXCEPT !.gen = generation], FALSE)

\* A flush enqueues the present document, or nothing.
LEMMA FlushEffect ==
  ASSUME TypeParts, NEW w \in Flushers, Flush(w)
  PROVE  /\ waiting' \in [Flushers -> Projects \cup {NoProject}]
         /\ \/ /\ NothingToFlush /\ waiting'[w] = NoProject
               /\ timer' = TimerWithout(active)
               /\ UNCHANGED <<queueVars, awaited, parked, heldBack>>
            \/ /\ ~NothingToFlush /\ Suspended(active) /\ waiting'[w] = active
               /\ timer' = TimerWithout(active)
               /\ UNCHANGED <<queueVars, awaited, parked, heldBack>>
            \/ /\ ~NothingToFlush /\ ~Suspended(active) /\ waiting'[w] = NoProject
               /\ timer' = {} /\ FlushedSave \in Save
               /\ queue' \in Seq(Save) /\ Joined(FlushedSave) /\ enqueued' = enqueued + 1
               /\ awaited' \in {awaited, enqueued + 1}
               /\ parked' = parked \ Scheduled(active) /\ heldBack' = heldBack \ Scheduled(active)
               /\ UNCHANGED <<newest, rejected>>
         /\ \A v \in Flushers \ {w} : waiting'[v] = waiting[v]
<1>1. waiting' \in [Flushers -> Projects \cup {NoProject}]
        /\ \A v \in Flushers \ {w} : waiting'[v] = waiting[v]
  BY DEF Flush, TypeParts, TabTypes, CallTypes
<1>2. CASE NothingToFlush
  BY <1>1, <1>2 DEF Flush, TypeParts, CallTypes
<1>3. CASE ~NothingToFlush /\ Suspended(active)
  BY <1>1, <1>3 DEF Flush, TypeParts, CallTypes
<1>4. CASE ~NothingToFlush /\ ~Suspended(active)
  <2>1. FlushedSave \in Save
    BY CaptureTypes, SaveOfTypes DEF FlushedSave, TypeParts, TabTypes
  <2>2. queue' = Append(queue, FlushedSave) /\ enqueued' = enqueued + 1 /\ rejected' = rejected
    BY <1>4 DEF Flush, AppendSave, FlushedSave
  <2>3. queue' \in Seq(Save) /\ Joined(FlushedSave)
    BY <2>1, <2>2, JoinedQueue DEF TypeParts, QueueTypes
  <2>4. QED
    BY <1>1, <1>4, <2>1, <2>2, <2>3 DEF Flush, TypeParts, CallTypes
<1>5. QED
  BY <1>2, <1>3, <1>4

\* What EndSave does: the running save leaves the queue.
LEMMA EndSaveEffect ==
  ASSUME TypeParts, NEW rejects \in BOOLEAN, queue # <<>>, EndSave(rejects)
  PROVE  /\ queue' \in Seq(Save) /\ HeadGone /\ enqueued' = enqueued
         /\ rejected \subseteq rejected' /\ rejected' \subseteq 1..enqueued
         /\ newest' \in [Projects -> Nat]
         /\ newest' = [newest EXCEPT ![queue[1].project] =
                         IF queue[1].auto /\ @ = queue[1].gen THEN 0 ELSE @]
<1>1. queue' \in Seq(Save) /\ HeadGone
  BY ShorterQueue DEF EndSave, TypeParts, QueueTypes
<1>2. Settled + 1 \in 1..enqueued
  BY DEF Settled, TypeParts, QueueTypes
<1>3. rejected \subseteq rejected' /\ rejected' \subseteq 1..enqueued
  BY <1>2 DEF EndSave, TypeParts, QueueTypes
<1>4. queue[1].project \in Projects
  BY HeadIsSave DEF Save
<1>5. newest' = [newest EXCEPT ![queue[1].project] =
                   IF queue[1].auto /\ @ = queue[1].gen THEN 0 ELSE @]
  BY DEF EndSave, ForgetsAutosave, Head1
<1>6. newest' \in [Projects -> Nat]
  BY <1>4, <1>5 DEF TypeParts, PipeTypes
<1>7. QED
  BY <1>1, <1>3, <1>5, <1>6 DEF EndSave

LEMMA MoveToEffect ==
  ASSUME TypeParts, queue # <<>>, NEW step \in Steps, MoveTo(step)
  PROVE  /\ [queue[1] EXCEPT !.step = step] \in Save
         /\ queue' \in Seq(Save) /\ HeadBecomes([queue[1] EXCEPT !.step = step])
<1>1. queue' = [queue EXCEPT ![1] = [queue[1] EXCEPT !.step = step]]
  BY DEF MoveTo
<1>2. [queue[1] EXCEPT !.step = step] \in Save
  <2>1. queue[1] \in Save
    BY HeadIsSave
  <2>2. QED
    BY <2>1, SaveStepTypes
<1>3. QED
  BY <1>1, <1>2, MovedQueue DEF TypeParts, QueueTypes

-----------------------------------------------------------------------------
(* TypeOK is inductive together with this: what an activation works on is  *)
(* at the head of the project queue until the activation ends.             *)
SwitchesPending == switchStep # "idle" => switches # <<>>
TypeInv == TypeParts /\ SwitchesPending

LEMMA InitType == Init => TypeInv
<1> SUFFICES ASSUME Init PROVE TypeInv
  OBVIOUS
<1>1. TabTypes /\ PipeTypes /\ HistoryTypes
  BY DEF Init, TabTypes, PipeTypes, HistoryTypes
<1>2. LockTypes
  BY DEF Init, LockTypes
<1>3. QueueTypes /\ SwitchTypes
  BY DEF Init, QueueTypes, SwitchTypes
<1>4. CallTypes
  BY DEF Init, CallTypes, NoClose, NoLease, Closings, Leases
<1>5. QED
  BY <1>1, <1>2, <1>3, <1>4 DEF TypeInv, TypeParts, SwitchesPending, Init

LEMMA HeadSwitch ==
  ASSUME SwitchTypes, switches # <<>>
  PROVE  switches[1] \in SwitchOrder /\ Tail(switches) \in Seq(SwitchOrder)
BY DEF SwitchTypes

LEMMA EndSwitchEffect ==
  ASSUME SwitchTypes, CallTypes, switches # <<>>, EndSwitch
  PROVE  /\ switches' = Tail(switches) /\ switches' \in Seq(SwitchOrder) /\ switchStep' = "idle"
         /\ closing' = IF switches[1].by = "close" THEN [closing EXCEPT !.step = "close"] ELSE closing
         /\ closing' \in Closings /\ closing'.until = closing.until
         /\ closing'.project = closing.project
<1>1. switches' = Tail(switches) /\ switches' \in Seq(SwitchOrder) /\ switchStep' = "idle"
  BY HeadSwitch DEF EndSwitch
<1>2. closing' = IF switches[1].by = "close" THEN [closing EXCEPT !.step = "close"] ELSE closing
  BY DEF EndSwitch
<1>3. \A x \in Closings : /\ [x EXCEPT !.step = "close"] \in Closings
                          /\ [x EXCEPT !.step = "close"].until = x.until
                          /\ [x EXCEPT !.step = "close"].project = x.project
  BY DEF Closings
<1>4. QED
  BY <1>1, <1>2, <1>3 DEF CallTypes

LEMMA EnqueueSwitchEffect ==
  ASSUME SwitchTypes, NEW p \in Projects, NEW skip \in BOOLEAN, NEW by \in {"user", "close"},
         EnqueueSwitch(p, skip, by)
  PROVE  /\ switches' \in Seq(SwitchOrder) /\ Len(switches') = Len(switches) + 1
         /\ switches'[Len(switches) + 1] = [target |-> p, skipFlush |-> skip, by |-> by]
         /\ \A i \in 1..Len(switches) : switches'[i] = switches[i]
         /\ switches' # <<>>
<1>1. [target |-> p, skipFlush |-> skip, by |-> by] \in SwitchOrder
  BY DEF SwitchOrder
<1>2. switches' = Append(switches, [target |-> p, skipFlush |-> skip, by |-> by])
  BY DEF EnqueueSwitch
<1>3. QED
  BY <1>1, <1>2, AppendProperties DEF SwitchTypes

\* Calls and drains refer to saves enqueued so far.
LEMMA CallTypesKept ==
  ASSUME CallTypes, enqueued \in Nat, enqueued' \in {enqueued, enqueued + 1},
         UNCHANGED <<closing, lease>>,
         waiting' \in [Flushers -> Projects \cup {NoProject}],
         awaited' = awaited \/ awaited' = enqueued'
  PROVE  CallTypes'
BY DEF CallTypes, Closings, Leases

LEMMA EditType ==
  ASSUME TypeInv, Edit
  PROVE  TypeInv'
<1>1. TypeParts
  BY DEF TypeInv
<1>2. made \in Nat /\ made + 1 \in Nat /\ made' = made + 1 /\ made' \in 0..MaxEdits
  BY DEF Edit, TypeInv, TypeParts, TabTypes
<1>3. CaptureOf(active, made + 1) \in Capture
  BY <1>1, <1>2, CaptureTypes DEF TypeParts, TabTypes
<1>4. PipeTypes'
  BY <1>1, <1>3 DEF Edit, TypeParts, PipeTypes, TimerWithout
<1>5. TabTypes'
  BY <1>1, <1>2 DEF Edit, TypeParts, TabTypes
<1>6. HistoryTypes'
  BY <1>1 DEF Edit, TypeParts, HistoryTypes, TabTypes
<1>7. LockTypes' /\ QueueTypes' /\ SwitchTypes' /\ CallTypes' /\ SwitchesPending'
  BY <1>1 DEF Edit, TypeInv, TypeParts, LockTypes, QueueTypes, SwitchTypes, CallTypes, SwitchesPending
<1>8. QED
  BY <1>4, <1>5, <1>6, <1>7 DEF TypeInv, TypeParts

LEMMA FireEffect ==
  ASSUME TypeParts, FireTimer
  PROVE  \E c \in timer :
           /\ c \in Capture /\ SaveOf(c, TRUE) \in Save /\ timer' = {}
           /\ queue' \in Seq(Save) /\ Joined(SaveOf(c, TRUE))
           /\ enqueued' = enqueued + 1 /\ rejected' = rejected
           /\ newest' = [newest EXCEPT ![c.project] = c.gen]
           /\ UNCHANGED <<tabVars, stored, lockVars, generation, epoch, switchVars, closing,
                          lease, calls, parked, heldBack, ceiling, orphaned, prepares>>
<1>1. PICK c \in timer : AppendSave(c, TRUE) /\ newest' = [newest EXCEPT ![c.project] = c.gen]
  BY DEF FireTimer
<1>2. c \in Capture /\ SaveOf(c, TRUE) \in Save
  BY SaveOfTypes DEF TypeParts, PipeTypes
<1>3. queue' \in Seq(Save) /\ Joined(SaveOf(c, TRUE))
  BY <1>1, <1>2, JoinedQueue DEF AppendSave, TypeParts, QueueTypes
<1>4. QED
  BY <1>1, <1>2, <1>3 DEF FireTimer, AppendSave

LEMMA FireType ==
  ASSUME TypeInv, FireTimer
  PROVE  TypeInv'
<1>1. TypeParts
  BY DEF TypeInv
<1>2. PICK c \in timer :
        /\ c \in Capture /\ timer' = {}
        /\ queue' \in Seq(Save) /\ Joined(SaveOf(c, TRUE))
        /\ enqueued' = enqueued + 1 /\ rejected' = rejected
        /\ newest' = [newest EXCEPT ![c.project] = c.gen]
        /\ UNCHANGED <<tabVars, stored, lockVars, generation, epoch, switchVars, closing,
                       lease, calls, parked, heldBack, ceiling, orphaned, prepares>>
  BY <1>1, FireEffect
<1>3. QueueTypes'
  BY <1>1, <1>2, QueueGrows DEF TypeParts, Joined
<1>4. PipeTypes'
  BY <1>1, <1>2 DEF TypeParts, PipeTypes, Capture
<1>5. CallTypes'
  BY <1>1, <1>2, CallTypesKept DEF TypeParts, QueueTypes, CallTypes
<1>6. TabTypes' /\ LockTypes' /\ SwitchTypes' /\ HistoryTypes' /\ SwitchesPending'
  BY <1>1, <1>2 DEF TypeInv, TypeParts, TabTypes, LockTypes, SwitchTypes, HistoryTypes, SwitchesPending
<1>7. QED
  BY <1>3, <1>4, <1>5, <1>6 DEF TypeInv, TypeParts

\* What a flush leaves alone, on top of what its caller does.
FlushFrame ==
  UNCHANGED <<tabVars, stored, lockVars, generation, epoch, switches, closing, lease, ceiling,
              orphaned, prepares>>

LEMMA FlushType ==
  ASSUME TypeParts, NEW w \in Flushers, Flush(w), FlushFrame, calls' \in 0..MaxCalls,
         switchStep' \in {switchStep, "flushing"}
  PROVE  TypeParts'
<1> USE DEF FlushFrame
<1>1. /\ waiting' \in [Flushers -> Projects \cup {NoProject}]
      /\ timer' \subseteq timer /\ newest' = newest /\ rejected' = rejected
      /\ parked' \subseteq parked /\ heldBack' \subseteq heldBack
  BY FlushEffect DEF TimerWithout
<1>2. /\ queue' \in Seq(Save)
      /\ \/ Len(queue') = Len(queue) + 1 /\ enqueued' = enqueued + 1
              /\ awaited' \in {awaited, enqueued'}
         \/ queue' = queue /\ enqueued' = enqueued /\ awaited' = awaited
  BY FlushEffect DEF Joined, TypeParts, QueueTypes
<1>3. QueueTypes'
  BY <1>1, <1>2, QueueGrows DEF TypeParts
<1>4. CallTypes'
  BY <1>1, <1>2, CallTypesKept DEF TypeParts, QueueTypes, CallTypes
<1>5. PipeTypes' /\ HistoryTypes'
  BY <1>1 DEF TypeParts, PipeTypes, HistoryTypes
<1>6. TabTypes' /\ LockTypes' /\ SwitchTypes'
  BY <1>1 DEF TypeParts, TabTypes, LockTypes, SwitchTypes
<1>7. QED
  BY <1>3, <1>4, <1>5, <1>6 DEF TypeParts

LEMMA FlushesType ==
  ASSUME TypeInv, SaveNow \/ (\E w \in Flushers : ResumeFlush(w)) \/ FlushLeft
  PROVE  TypeInv'
<1>1. TypeParts /\ SwitchesPending
  BY DEF TypeInv
<1>2. CASE SaveNow
  <2>1. Flush("user") /\ FlushFrame /\ calls' \in 0..MaxCalls /\ switchStep' = switchStep
    BY <1>1, <1>2 DEF SaveNow, Asked, FlushFrame, TypeParts, TabTypes
  <2>2. QED
    BY <1>1, <2>1, FlushType DEF Flushers, TypeInv, SwitchesPending, FlushFrame
<1>3. CASE \E w \in Flushers : ResumeFlush(w)
  <2>1. PICK w \in Flushers : ResumeFlush(w)
    BY <1>3
  <2>2. Flush(w) /\ FlushFrame /\ calls' \in 0..MaxCalls /\ switchStep' = switchStep
    BY <1>1, <2>1 DEF ResumeFlush, FlushFrame, TypeParts, TabTypes
  <2>3. QED
    BY <1>1, <2>2, FlushType DEF TypeInv, SwitchesPending, FlushFrame
<1>4. CASE FlushLeft
  <2>1. FlushFrame /\ calls' \in 0..MaxCalls /\ switchStep = "begun"
    BY <1>1, <1>4 DEF FlushLeft, FlushFrame, TypeParts, TabTypes
  <2>2. CASE Flush("switch") /\ switchStep' = "flushing"
    BY <1>1, <2>1, <2>2, FlushType DEF Flushers, TypeInv, SwitchesPending, FlushFrame
  <2>3. CASE switchStep' = "leaving" /\ UNCHANGED <<timer, queueVars, awaited, waiting, parked, heldBack>>
    <3>1. TabTypes' /\ PipeTypes' /\ LockTypes' /\ QueueTypes'
      BY <1>1, <2>1, <2>3 DEF FlushFrame, TypeParts, TabTypes, PipeTypes, LockTypes, QueueTypes
    <3>2. SwitchTypes' /\ CallTypes' /\ HistoryTypes' /\ SwitchesPending'
      BY <1>1, <2>1, <2>3 DEF FlushFrame, TypeParts, SwitchTypes, CallTypes, HistoryTypes, SwitchesPending
    <3>3. QED
      BY <3>1, <3>2 DEF TypeInv, TypeParts
  <2>4. QED
    BY <1>4, <2>2, <2>3 DEF FlushLeft
<1>5. QED
  BY <1>2, <1>3, <1>4

-----------------------------------------------------------------------------
(* What the steps of a save do to the queue: the head goes on to its next  *)
(* step, or it leaves the queue.                                           *)
HeadPasses(step, d) ==
  /\ Len(queue) > 0 /\ Len(queue') = Len(queue) /\ queue' \in Seq(Save)
  /\ queue'[1].project = queue[1].project /\ queue'[1].gen = queue[1].gen
  /\ queue'[1].epoch = queue[1].epoch /\ queue'[1].token = queue[1].token
  /\ queue'[1].auto = queue[1].auto /\ queue'[1].step = step /\ queue'[1].doc = d
  /\ \A i \in 2..Len(queue) : queue'[i] = queue[i]
  /\ UNCHANGED <<newest, enqueued, rejected, readOnly, parked>>

HeadEnds ==
  /\ queue' \in Seq(Save) /\ HeadGone /\ enqueued' = enqueued
  /\ rejected' \subseteq 1..enqueued
  /\ newest' \in [Projects -> Nat]
  /\ newest' = [newest EXCEPT ![queue[1].project] =
                  IF queue[1].auto /\ @ = queue[1].gen THEN 0 ELSE @]
  /\ UNCHANGED <<stored, dirty>>
  /\ readOnly' \in BOOLEAN /\ (readOnly => readOnly')
  /\ \/ parked' = parked \cup {queue[1].project}
     \/ /\ parked' = parked
        /\ ~MayProceed(queue[1]) \/ queue[1].step = "maintain"
             \/ (queue[1].step = "queued" /\ IsSuperseded(queue[1]))

LEMMA HeadPassesWhen ==
  ASSUME TypeParts, queue # <<>>, NEW step \in Steps, NEW d \in Nat,
         queue' = [queue EXCEPT ![1] = [queue[1] EXCEPT !.step = step, !.doc = d]],
         UNCHANGED <<newest, enqueued, rejected, readOnly, parked>>
  PROVE  HeadPasses(step, d)
<1> DEFINE next == [queue[1] EXCEPT !.step = step, !.doc = d]
<1>1. queue[1] \in Save
  BY HeadIsSave
<1>2. next \in Save
  BY <1>1, SaveStepTypes
<1>3. queue' \in Seq(Save) /\ HeadBecomes(next)
  BY <1>2, MovedQueue DEF TypeParts, QueueTypes
<1>4. /\ next.project = queue[1].project /\ next.gen = queue[1].gen
      /\ next.epoch = queue[1].epoch /\ next.token = queue[1].token
      /\ next.auto = queue[1].auto /\ next.step = step /\ next.doc = d
  BY <1>1 DEF Save
<1>5. QED
  BY <1>3, <1>4 DEF HeadPasses, HeadBecomes

LEMMA HeadMovesWhen ==
  ASSUME TypeParts, queue # <<>>, NEW step \in Steps, MoveTo(step),
         UNCHANGED <<newest, enqueued, rejected, readOnly, parked>>
  PROVE  HeadPasses(step, queue[1].doc)
<1>1. queue[1] \in Save
  BY HeadIsSave
<1>2. queue[1].doc \in Nat
  BY <1>1 DEF Save
<1>3. [queue[1] EXCEPT !.step = step] = [queue[1] EXCEPT !.step = step, !.doc = queue[1].doc]
  BY <1>1 DEF Save
<1>4. queue' = [queue EXCEPT ![1] = [queue[1] EXCEPT !.step = step, !.doc = queue[1].doc]]
  BY <1>3 DEF MoveTo
<1>5. QED
  BY <1>2, <1>4, HeadPassesWhen

LEMMA HeadEndsWhen ==
  ASSUME TypeParts, queue # <<>>, NEW rejects \in BOOLEAN, EndSave(rejects),
         UNCHANGED <<stored, dirty>>,
         readOnly' \in BOOLEAN, readOnly => readOnly',
         \/ parked' = parked \cup {queue[1].project}
         \/ /\ parked' = parked
            /\ ~MayProceed(queue[1]) \/ queue[1].step = "maintain"
                 \/ (queue[1].step = "queued" /\ IsSuperseded(queue[1]))
  PROVE  HeadEnds
BY EndSaveEffect DEF HeadEnds

SaveFrame == UNCHANGED <<savedElsewhere, durable, lock, granted>>
Passes ==
  \/ /\ queue[1].step = "queued" /\ HeadPasses("prepare", queue[1].doc)
     /\ MayProceed(queue[1]) /\ ~IsSuperseded(queue[1]) /\ UNCHANGED <<stored, dirty>>
  \/ /\ queue[1].step = "prepare" /\ MayProceed(queue[1]) /\ UNCHANGED <<stored, dirty>>
     /\ HeadPasses("admit", IF prepares THEN doc[queue[1].project] ELSE queue[1].doc)
  \/ /\ queue[1].step = "admit" /\ HeadPasses("publish", queue[1].doc)
     /\ MayProceed(queue[1]) /\ UNCHANGED <<stored, dirty>>
  \/ /\ queue[1].step = "publish" /\ HeadPasses("committed", queue[1].doc)
     /\ durable[queue[1].project] = queue[1].token
     /\ stored' = [stored EXCEPT ![queue[1].project] = queue[1].doc] /\ UNCHANGED dirty
  \/ /\ queue[1].step = "committed" /\ HeadPasses("maintain", queue[1].doc)
     /\ MayProceed(queue[1]) /\ UNCHANGED stored
     /\ dirty' = [dirty EXCEPT ![queue[1].project] = @ /\ ~PublishesSaved(queue[1])]

LEMMA SaveStepEffect ==
  ASSUME TypeParts, SaveStep
  PROVE  /\ queue # <<>> /\ queue[1] \in Save /\ SaveFrame
         /\ HeadEnds \/ Passes
<1>1. queue # <<>> /\ SaveFrame
  BY DEF SaveStep, BeginSave, PrepareSave, AdmitSave, PublishSave, FailSave, FinishSave,
     EndMaintenance, SaveAt, SaveFrame
<1>2. queue[1] \in Save
  BY <1>1, HeadIsSave
<1>3. readOnly \in BOOLEAN /\ MayProceed(queue[1]) \in BOOLEAN
  BY DEF TypeParts, LockTypes, MayProceed
<1>4. CASE BeginSave
  <2>1. CASE MayProceed(queue[1]) /\ ~IsSuperseded(queue[1])
    <3>1. MoveTo("prepare") /\ UNCHANGED <<newest, enqueued, rejected, readOnly, parked, stored, dirty>>
      BY <1>4, <2>1 DEF BeginSave, Head1
    <3>2. HeadPasses("prepare", queue[1].doc)
      BY <1>1, <3>1, HeadMovesWhen DEF Steps
    <3>3. queue[1].step = "queued"
      BY <1>4 DEF BeginSave, SaveAt, Head1
    <3>4. QED
      BY <1>1, <1>2, <2>1, <3>1, <3>2, <3>3 DEF Passes
  <2>2. CASE ~(MayProceed(queue[1]) /\ ~IsSuperseded(queue[1]))
    <3>0. queue[1].step = "queued"
      BY <1>4 DEF BeginSave, SaveAt, Head1
    <3>1. EndSave(FALSE) /\ UNCHANGED <<stored, dirty, readOnly, parked>>
      BY <1>4, <2>2 DEF BeginSave, Head1
    <3>2. HeadEnds
      BY <1>1, <1>3, <2>2, <3>1, <3>0, HeadEndsWhen
    <3>3. QED
      BY <1>1, <1>2, <3>2
  <2>3. QED
    BY <1>1, <1>2, <2>1, <2>2
<1>5. CASE PrepareSave
  <2>1. CASE MayProceed(queue[1])
    <3> DEFINE d == IF prepares THEN doc[queue[1].project] ELSE queue[1].doc
    <3>1. d \in Nat
      BY <1>2 DEF Save, TypeParts, TabTypes
    <3>2. queue' = [queue EXCEPT ![1] = [queue[1] EXCEPT !.step = "admit", !.doc = d]]
      BY <1>5, <2>1 DEF PrepareSave, Head1
    <3>3. HeadPasses("admit", d)
      <4>1. UNCHANGED <<newest, enqueued, rejected, readOnly, parked>>
        BY <1>5, <2>1 DEF PrepareSave, Head1
      <4>2. QED
        BY <1>1, <3>1, <3>2, <4>1, HeadPassesWhen DEF Steps
    <3>4. QED
      BY <1>1, <1>2, <1>5, <2>1, <3>3 DEF PrepareSave, SaveAt, Head1, Passes
  <2>2. CASE ~MayProceed(queue[1])
    <3>1. EndSave(FALSE) /\ UNCHANGED <<stored, dirty, readOnly, parked>>
      BY <1>5, <2>2 DEF PrepareSave, Head1
    <3>2. HeadEnds
      BY <1>1, <1>3, <2>2, <3>1, HeadEndsWhen
    <3>3. QED
      BY <1>1, <1>2, <3>2
  <2>3. QED
    BY <1>1, <1>2, <2>1, <2>2
<1>6. CASE AdmitSave
  <2>1. CASE MayProceed(queue[1])
    <3>1. MoveTo("publish") /\ UNCHANGED <<newest, enqueued, rejected, readOnly, parked, stored, dirty>>
      BY <1>6, <2>1 DEF AdmitSave, Head1
    <3>2. HeadPasses("publish", queue[1].doc)
      BY <1>1, <3>1, HeadMovesWhen DEF Steps
    <3>3. queue[1].step = "admit"
      BY <1>6 DEF AdmitSave, SaveAt, Head1
    <3>4. QED
      BY <1>1, <1>2, <2>1, <3>1, <3>2, <3>3 DEF Passes
  <2>2. CASE ~MayProceed(queue[1])
    <3>1. EndSave(FALSE) /\ UNCHANGED <<stored, dirty, readOnly, parked>>
      BY <1>6, <2>2 DEF AdmitSave, Head1
    <3>2. HeadEnds
      BY <1>1, <1>3, <2>2, <3>1, HeadEndsWhen
    <3>3. QED
      BY <1>1, <1>2, <3>2
  <2>3. QED
    BY <1>1, <1>2, <2>1, <2>2
<1>7. CASE PublishSave
  <2>1. CASE durable[queue[1].project] = queue[1].token
    <3>1. MoveTo("committed") /\ UNCHANGED <<newest, enqueued, rejected, readOnly, parked, dirty>>
      BY <1>7, <2>1 DEF PublishSave, Head1
    <3>2. HeadPasses("committed", queue[1].doc)
      BY <1>1, <3>1, HeadMovesWhen DEF Steps
    <3>3. queue[1].step = "publish" /\ stored' = [stored EXCEPT ![queue[1].project] = queue[1].doc]
      BY <1>7, <2>1 DEF PublishSave, SaveAt, Head1
    <3>4. QED
      BY <1>1, <1>2, <2>1, <3>1, <3>2, <3>3 DEF Passes
  <2>2. CASE durable[queue[1].project] # queue[1].token
    <3>1. EndSave(epoch[queue[1].project] = queue[1].epoch) /\ UNCHANGED <<stored, dirty>>
      BY <1>7, <2>2 DEF PublishSave, Head1
    <3>2. readOnly' = (readOnly \/ active = queue[1].project)
             /\ parked' = parked \cup {queue[1].project}
      BY <1>7, <2>2 DEF PublishSave, Head1
    <3>3. HeadEnds
      <4>1. (epoch[queue[1].project] = queue[1].epoch) \in BOOLEAN /\ readOnly' \in BOOLEAN
        BY <1>3, <3>2
      <4>2. QED
        BY <1>1, <3>1, <3>2, <4>1, HeadEndsWhen
    <3>4. QED
      BY <1>1, <1>2, <3>3
  <2>3. QED
    BY <1>1, <1>2, <2>1, <2>2
<1>8. CASE FailSave
  <2>1. EndSave(MayProceed(queue[1])) /\ parked' = parked \cup {queue[1].project}
           /\ UNCHANGED <<stored, dirty, readOnly>>
    BY <1>8 DEF FailSave, Head1
  <2>2. HeadEnds
    BY <1>1, <1>3, <2>1, HeadEndsWhen
  <2>3. QED
    BY <1>1, <1>2, <2>2
<1>9. CASE FinishSave
  <2>1. CASE MayProceed(queue[1])
    <3>1. HeadPasses("maintain", queue[1].doc)
      <4>1. MoveTo("maintain") /\ UNCHANGED <<newest, enqueued, rejected, readOnly, parked>>
        BY <1>9, <2>1 DEF FinishSave, Head1
      <4>2. QED
        BY <1>1, <4>1, HeadMovesWhen DEF Steps
    <3>2. dirty' = [dirty EXCEPT ![queue[1].project] = @ /\ ~PublishesSaved(queue[1])]
      BY <1>9, <2>1 DEF FinishSave, Head1
    <3>3. QED
      BY <1>1, <1>2, <1>9, <2>1, <3>1, <3>2 DEF FinishSave, SaveAt, Head1, Passes
  <2>2. CASE ~MayProceed(queue[1])
    <3>1. dirty' = dirty
      <4>1. dirty \in [Projects -> BOOLEAN] /\ queue[1].project \in Projects
        BY <1>2 DEF TypeParts, TabTypes, Save
      <4>2. dirty' = [dirty EXCEPT ![queue[1].project] = @ /\ ~FALSE]
        BY <1>9, <2>2 DEF FinishSave, Head1
      <4>3. QED
        BY <4>1, <4>2
    <3>2. HeadEnds
      <4>1. EndSave(FALSE) /\ UNCHANGED <<stored, readOnly, parked>>
        BY <1>9, <2>2 DEF FinishSave, Head1
      <4>2. QED
        BY <1>1, <1>3, <2>2, <3>1, <4>1, HeadEndsWhen
    <3>3. QED
      BY <1>1, <1>2, <3>2
  <2>3. QED
    BY <2>1, <2>2
<1>10. CASE EndMaintenance
  <2>1. EndSave(FALSE) /\ UNCHANGED <<stored, dirty, readOnly, parked>>
    BY <1>10 DEF EndMaintenance, Head1
  <2>2. queue[1].step = "maintain"
    BY <1>10 DEF EndMaintenance, SaveAt, Head1
  <2>3. HeadEnds
    BY <1>1, <1>3, <2>1, <2>2, HeadEndsWhen
  <2>4. QED
    BY <1>1, <1>2, <2>3
<1>11. QED
  BY <1>4, <1>5, <1>6, <1>7, <1>8, <1>9, <1>10 DEF SaveStep

LEMMA SaveStepType ==
  ASSUME TypeInv, SaveStep
  PROVE  TypeInv'
<1>1. TypeParts /\ queue # <<>> /\ queue[1] \in Save /\ SaveFrame
  BY SaveStepEffect DEF TypeInv
<1>2. queue[1].project \in Projects /\ queue[1].doc \in Nat
  BY <1>1 DEF Save
<1>3. HeadEnds \/ Passes
  BY SaveStepEffect DEF TypeInv
<1>4. CASE HeadEnds
  <2>1. QueueTypes'
    BY <1>1, <1>4 DEF HeadEnds, HeadGone, TypeParts, QueueTypes
  <2>2. TabTypes' /\ PipeTypes'
    BY <1>1, <1>4 DEF HeadEnds, SaveFrame, TypeParts, TabTypes, PipeTypes
  <2>3. LockTypes' /\ SwitchTypes'
    BY <1>1, <1>4 DEF HeadEnds, SaveFrame, TypeParts, LockTypes, SwitchTypes
  <2>4. CallTypes' /\ SwitchesPending'
    BY <1>1, <1>4 DEF HeadEnds, SaveFrame, TypeInv, TypeParts, CallTypes, SwitchesPending
  <2>5. HistoryTypes'
    BY <1>1, <1>2, <1>4 DEF HeadEnds, SaveFrame, TypeParts, HistoryTypes
  <2>6. QED
    BY <2>1, <2>2, <2>3, <2>4, <2>5 DEF TypeInv, TypeParts
<1>5. CASE Passes
  <2>1. /\ queue' \in Seq(Save) /\ Len(queue') = Len(queue)
        /\ UNCHANGED <<newest, enqueued, rejected, readOnly, parked>>
    BY <1>5 DEF Passes, HeadPasses
  <2>2. QueueTypes'
    BY <1>1, <2>1, QueueGrows DEF TypeParts
  <2>3. stored' \in [Projects -> Nat]
    BY <1>1, <1>2, <1>5 DEF Passes, TypeParts, TabTypes
  <2>4. dirty' \in [Projects -> BOOLEAN]
    <3>1. (queue[1].project = active /\ queue[1].gen = generation) \in BOOLEAN
      OBVIOUS
    <3>2. QED
      BY <1>1, <1>2, <1>5 DEF Passes, TypeParts, TabTypes, PublishesSaved
  <2>5. TabTypes' /\ PipeTypes'
    BY <1>1, <2>1, <2>3, <2>4 DEF SaveFrame, TypeParts, TabTypes, PipeTypes
  <2>6. LockTypes' /\ SwitchTypes'
    BY <1>1, <2>1 DEF SaveFrame, TypeParts, LockTypes, SwitchTypes
  <2>7. CallTypes' /\ SwitchesPending'
    BY <1>1, <2>1 DEF SaveFrame, TypeInv, TypeParts, CallTypes, SwitchesPending
  <2>8. HistoryTypes'
    BY <1>1, <2>1 DEF SaveFrame, TypeParts, HistoryTypes
  <2>9. QED
    BY <2>2, <2>5, <2>6, <2>7, <2>8 DEF TypeInv, TypeParts
<1>6. QED
  BY <1>3, <1>4, <1>5

LEMMA TokenTypes ==
  ASSUME TypeParts, NEW p \in Projects, TakeToken(p), readOnly' \in BOOLEAN
  PROVE  LockTypes'
<1>1. granted + 1 \in Nat /\ granted' = granted + 1 /\ durable \in [Projects -> Nat]
  BY DEF TakeToken, TypeParts, LockTypes
<1>2. durable' \in [Projects -> Nat]
  BY <1>1 DEF TakeToken
<1>3. lock' \in [project : Projects \cup {NoProject}, token : Nat]
  BY <1>1 DEF TakeToken
<1>4. QED
  BY <1>1, <1>2, <1>3 DEF LockTypes

LEMMA LockStepType ==
  ASSUME TypeInv, LockStep
  PROVE  TypeInv'
<1>1. TypeParts
  BY DEF TypeInv
<1>2. /\ UNCHANGED <<active, open, doc, dirty, made, stored, generation, epoch, timer, queueVars,
                    switchVars, closing, lease, heldBack, ceiling, orphaned, prepares>>
      /\ calls' \in 0..MaxCalls /\ parked' \in {parked, parked \cup {active}}
  BY <1>1 DEF LockStep, StealLock, NoticeLoss, RecoverLock, WaitForLock, Asked, TypeParts, TabTypes
<1>3. LockTypes'
  <2>1. CASE StealLock
    <3>1. granted + 1 \in Nat /\ granted' = granted + 1 /\ durable \in [Projects -> Nat]
      BY <1>1, <2>1 DEF StealLock, TypeParts, LockTypes
    <3>2. durable' \in [Projects -> Nat]
      BY <2>1, <3>1 DEF StealLock
    <3>3. QED
      BY <1>1, <2>1, <3>1, <3>2 DEF StealLock, TypeParts, LockTypes
  <2>2. CASE NoticeLoss
    BY <1>1, <2>2 DEF NoticeLoss, TypeParts, LockTypes
  <2>3. CASE RecoverLock
    <3>1. TakeToken(active) /\ readOnly' = FALSE /\ active \in Projects
      BY <1>1, <2>3 DEF RecoverLock, TypeParts, TabTypes
    <3>2. QED
      BY <1>1, <3>1, TokenTypes
  <2>4. CASE WaitForLock
    BY <1>1, <2>4 DEF WaitForLock, TypeParts, LockTypes
  <2>5. QED
    BY <1>1, <2>1, <2>2, <2>3, <2>4 DEF LockStep
<1>4. TabTypes' /\ PipeTypes' /\ QueueTypes'
  BY <1>1, <1>2 DEF TypeParts, TabTypes, PipeTypes, QueueTypes
<1>5. SwitchTypes' /\ CallTypes' /\ HistoryTypes' /\ SwitchesPending'
  BY <1>1, <1>2 DEF TypeInv, TypeParts, TabTypes, SwitchTypes, CallTypes, HistoryTypes, SwitchesPending
<1>6. QED
  BY <1>3, <1>4, <1>5 DEF TypeInv, TypeParts

LEMMA ClosingKept ==
  ASSUME TypeParts, closing' \in Closings, closing'.until = closing.until,
         UNCHANGED <<waiting, enqueued, lease>>, awaited' \in {0, awaited}
  PROVE  CallTypes'
BY DEF TypeParts, CallTypes, QueueTypes

LEMMA SwitchStepType ==
  ASSUME TypeInv, SwitchStep, ~FlushLeft
  PROVE  TypeInv'
<1>1. TypeParts /\ SwitchesPending
  BY DEF TypeInv
<1>2. CASE \E p \in Projects : RequestSwitch(p)
  <2>1. PICK p \in Projects : RequestSwitch(p)
    BY <1>2
  <2>2. EnqueueSwitch(p, FALSE, "user")
    BY <2>1 DEF RequestSwitch
  <2>3. switches' \in Seq(SwitchOrder) /\ switches' # <<>>
    BY <1>1, <2>2, EnqueueSwitchEffect DEF TypeParts
  <2>4. SwitchTypes' /\ SwitchesPending'
    BY <1>1, <2>1, <2>3 DEF RequestSwitch, TypeParts, SwitchTypes, SwitchesPending
  <2>5. TabTypes' /\ PipeTypes' /\ LockTypes'
    <3>1. calls' \in 0..MaxCalls
      BY <1>1, <2>1 DEF RequestSwitch, Asked, TypeParts, TabTypes
    <3>2. QED
      BY <1>1, <2>1, <3>1 DEF RequestSwitch, TypeParts, TabTypes, PipeTypes, LockTypes
  <2>6. QueueTypes' /\ CallTypes' /\ HistoryTypes'
    BY <1>1, <2>1 DEF RequestSwitch, TypeParts, QueueTypes, CallTypes, HistoryTypes
  <2>7. QED
    BY <2>4, <2>5, <2>6 DEF TypeInv, TypeParts
<1>3. CASE BeginSwitch
  <2>1. TabTypes' /\ PipeTypes' /\ LockTypes' /\ QueueTypes' /\ HistoryTypes'
    BY <1>1, <1>3 DEF BeginSwitch, TypeParts, TabTypes, PipeTypes, LockTypes, QueueTypes, HistoryTypes
  <2>2. CASE switches[1].target = active
    <3>1. EndSwitch /\ switches # <<>> /\ UNCHANGED <<waiting, enqueued, lease, awaited>>
      BY <1>3, <2>2 DEF BeginSwitch
    <3>2. /\ switches' \in Seq(SwitchOrder) /\ switchStep' = "idle"
          /\ closing' \in Closings /\ closing'.until = closing.until
      BY <1>1, <3>1, EndSwitchEffect DEF TypeParts
    <3>3. CallTypes'
      BY <1>1, <3>1, <3>2, ClosingKept
    <3>4. QED
      BY <2>1, <3>2, <3>3 DEF TypeInv, TypeParts, SwitchTypes, SwitchesPending
  <2>3. CASE switches[1].target # active
    <3>1. CallTypes'
      BY <1>1, <1>3, <2>3 DEF BeginSwitch, TypeParts, CallTypes
    <3>2. SwitchTypes' /\ SwitchesPending'
      BY <1>1, <1>3, <2>3 DEF BeginSwitch, TypeParts, SwitchTypes, SwitchesPending
    <3>3. QED
      BY <2>1, <3>1, <3>2 DEF TypeInv, TypeParts
  <2>4. QED
    BY <2>2, <2>3
<1>4. CASE FlushReturned
  <2>1. TabTypes' /\ PipeTypes' /\ LockTypes' /\ QueueTypes' /\ HistoryTypes'
    BY <1>1, <1>4 DEF FlushReturned, TypeParts, TabTypes, PipeTypes, LockTypes, QueueTypes, HistoryTypes
  <2>2. switches # <<>> /\ UNCHANGED <<waiting, enqueued, lease>> /\ awaited' = 0
    BY <1>1, <1>4 DEF FlushReturned, SwitchesPending
  <2>3. CASE awaited \in rejected
    <3>1. EndSwitch
      BY <1>4, <2>3 DEF FlushReturned
    <3>2. /\ switches' \in Seq(SwitchOrder) /\ switchStep' = "idle"
          /\ closing' \in Closings /\ closing'.until = closing.until
      BY <1>1, <2>2, <3>1, EndSwitchEffect DEF TypeParts
    <3>3. CallTypes'
      BY <1>1, <2>2, <3>2, ClosingKept
    <3>4. QED
      BY <2>1, <3>2, <3>3 DEF TypeInv, TypeParts, SwitchTypes, SwitchesPending
  <2>4. CASE awaited \notin rejected
    <3>1. switchStep' = "leaving" /\ UNCHANGED <<switches, closing>>
      BY <1>4, <2>4 DEF FlushReturned
    <3>2. CallTypes'
      BY <1>1, <2>2, <3>1, ClosingKept DEF TypeParts, CallTypes
    <3>3. SwitchTypes' /\ SwitchesPending'
      BY <1>1, <2>2, <3>1 DEF TypeParts, SwitchTypes, SwitchesPending
    <3>4. QED
      BY <2>1, <3>2, <3>3 DEF TypeInv, TypeParts
  <2>5. QED
    BY <2>3, <2>4
<1>5. CASE ReleaseLock
  <2>1. TabTypes' /\ PipeTypes' /\ QueueTypes' /\ HistoryTypes'
    BY <1>1, <1>5 DEF ReleaseLock, TypeParts, TabTypes, PipeTypes, QueueTypes, HistoryTypes
  <2>2. LockTypes'
    BY <1>1, <1>5 DEF ReleaseLock, TypeParts, LockTypes
  <2>3. SwitchTypes' /\ CallTypes' /\ SwitchesPending'
    BY <1>1, <1>5 DEF ReleaseLock, TypeParts, SwitchTypes, CallTypes, SwitchesPending
  <2>4. QED
    BY <2>1, <2>2, <2>3 DEF TypeInv, TypeParts
<1>6. CASE ClaimLock
  <2>1. TabTypes' /\ PipeTypes' /\ QueueTypes' /\ HistoryTypes'
    BY <1>1, <1>6 DEF ClaimLock, TypeParts, TabTypes, PipeTypes, QueueTypes, HistoryTypes
  <2>2. switches[1].target \in Projects
    BY <1>1, <1>6, HeadSwitch DEF ClaimLock, SwitchesPending, TypeParts, SwitchOrder
  <2>3. LockTypes'
    BY <1>1, <1>6, <2>2, TokenTypes DEF ClaimLock, TypeParts, LockTypes
  <2>4. SwitchTypes' /\ CallTypes' /\ SwitchesPending'
    BY <1>1, <1>6 DEF ClaimLock, TypeParts, SwitchTypes, CallTypes, SwitchesPending
  <2>5. QED
    BY <2>1, <2>3, <2>4 DEF TypeInv, TypeParts
<1>7. CASE EnterProject
  <2>1. PipeTypes' /\ QueueTypes'
    BY <1>1, <1>7 DEF EnterProject, TypeParts, PipeTypes, QueueTypes
  <2>2. switches # <<>> /\ switches[1].target \in Projects
    BY <1>1, <1>7, HeadSwitch DEF EnterProject, SwitchesPending, TypeParts, SwitchOrder
  <2>3. LockTypes'
    BY <1>1, <1>7, <2>2 DEF EnterProject, TypeParts, LockTypes
  <2>4. EndSwitch /\ UNCHANGED <<waiting, enqueued, lease, awaited>>
    BY <1>7 DEF EnterProject
  <2>5. /\ switches' \in Seq(SwitchOrder) /\ switchStep' = "idle"
        /\ closing' \in Closings /\ closing'.until = closing.until
    BY <1>1, <2>2, <2>4, EndSwitchEffect DEF TypeParts
  <2>6. CallTypes'
    BY <1>1, <2>4, <2>5, ClosingKept
  <2>7. HistoryTypes'
    BY <1>1, <1>7 DEF EnterProject, TypeParts, HistoryTypes
  <2>8. TabTypes'
    BY <1>1, <1>7, <2>2 DEF EnterProject, TypeParts, TabTypes
  <2>9. QED
    BY <2>1, <2>3, <2>5, <2>6, <2>7, <2>8 DEF TypeInv, TypeParts, SwitchTypes, SwitchesPending
<1>8. QED
  BY <1>2, <1>3, <1>4, <1>5, <1>6, <1>7 DEF SwitchStep

LEMMA NoCloseType == NoClose \in Closings /\ NoClose.until = 0 /\ NoLease \in Leases /\ NoLease.until = 0
BY DEF NoClose, Closings, NoLease, Leases

LEMMA ClosingStepType ==
  ASSUME NEW x \in Closings, NEW step \in {"drain", "switch", "close"}
  PROVE  [x EXCEPT !.step = step] \in Closings /\ [x EXCEPT !.step = step].until = x.until
         /\ [x EXCEPT !.step = step].project = x.project
         /\ [x EXCEPT !.step = step].step = step
         /\ [x EXCEPT !.step = step].wasActive = x.wasActive
BY DEF Closings

\* The newest document a discarding close may still find stored is one of two.
LEMMA CeilingIsNewest ==
  ASSUME TypeParts, NEW p \in Projects, BeginDiscard(p)
  PROVE  /\ ceiling' \in {stored[p]} \cup RunningDocOf(p) /\ ceiling' \in Nat
         /\ \A e \in {stored[p]} \cup RunningDocOf(p) : e <= ceiling'
<1> DEFINE D == {stored[p]} \cup RunningDocOf(p)
<1>1. stored[p] \in Nat
  BY DEF TypeParts, TabTypes
<1>2. RunningDocOf(p) = {} \/ (RunningDocOf(p) = {queue[1].doc} /\ queue[1].doc \in Nat)
  <2>1. CASE SaveAt("publish")
    <3>1. queue[1] \in Save
      BY <2>1, HeadIsSave DEF SaveAt
    <3>2. queue[1].doc \in Nat
      BY <3>1 DEF Save
    <3>3. QED
      BY <3>2 DEF RunningDocOf, Head1
  <2>2. QED
    BY <2>1 DEF RunningDocOf
<1>3. D \subseteq Nat
  BY <1>1, <1>2
<1>4. \E d \in D : \A e \in D : e <= d
  <2>1. CASE RunningDocOf(p) = {}
    BY <1>1, <2>1
  <2>2. CASE RunningDocOf(p) = {queue[1].doc} /\ queue[1].doc \in Nat
    <3>1. CASE stored[p] <= queue[1].doc
      BY <1>1, <2>2, <3>1
    <3>2. CASE queue[1].doc <= stored[p]
      BY <1>1, <2>2, <3>2
    <3>3. QED
      BY <1>1, <2>2, <3>1, <3>2
  <2>3. QED
    BY <1>2, <2>1, <2>2
<1>5. ceiling' = CHOOSE d \in D : \A e \in D : e <= d
  BY DEF BeginDiscard
<1>6. ceiling' \in D /\ \A e \in D : e <= ceiling'
  BY <1>4, <1>5, Zenon
<1>7. QED
  BY <1>3, <1>6

LEMMA CloseSessionEffect ==
  ASSUME TypeParts, NEW p, CloseSession(p)
  PROVE  /\ open' \subseteq Projects /\ dirty' \in [Projects -> BOOLEAN]
         /\ parked' \subseteq Projects /\ heldBack' \subseteq Projects /\ orphaned' \subseteq Projects
         /\ closing' = NoClose
BY DEF CloseSession, TypeParts, TabTypes, HistoryTypes

LEMMA CloseStepType ==
  ASSUME TypeInv, CloseStep
  PROVE  TypeInv'
<1>1. TypeParts /\ SwitchesPending /\ closing \in Closings
  BY DEF TypeInv, TypeParts, CallTypes
<1>2. CASE \E p \in Projects : BeginDiscard(p)
  <2>1. PICK p \in Projects : BeginDiscard(p)
    BY <1>2
  <2>2. ceiling' \in Nat
    BY <1>1, <2>1, CeilingIsNewest
  <2>3. /\ closing' = [project |-> p, step |-> "drain", until |-> enqueued, wasActive |-> p = active]
        /\ UNCHANGED <<waiting, enqueued, awaited, lease>>
    BY <2>1 DEF BeginDiscard
  <2>4. CallTypes'
    BY <1>1, <2>3 DEF TypeParts, CallTypes, QueueTypes, Closings
  <2>5. calls' \in 0..MaxCalls
    BY <1>1, <2>1 DEF BeginDiscard, Asked, TypeParts, TabTypes
  <2>6. TabTypes' /\ PipeTypes'
    BY <1>1, <2>1, <2>5 DEF BeginDiscard, TimerWithout, TypeParts, TabTypes, PipeTypes
  <2>7. LockTypes' /\ QueueTypes' /\ SwitchTypes' /\ SwitchesPending'
    BY <1>1, <2>1 DEF BeginDiscard, TypeParts, LockTypes, QueueTypes, SwitchTypes, SwitchesPending
  <2>8. HistoryTypes'
    BY <1>1, <2>1, <2>2 DEF BeginDiscard, TypeParts, HistoryTypes
  <2>9. QED
    BY <2>4, <2>6, <2>7, <2>8 DEF TypeInv, TypeParts
<1>3. ASSUME discardElsewhere' = discardElsewhere,
             open' \subseteq Projects, dirty' \in [Projects -> BOOLEAN],
             parked' \subseteq Projects, heldBack' \subseteq Projects, orphaned' \subseteq Projects,
             closing' \in Closings, closing'.until <= enqueued,
             switches' \in Seq(SwitchOrder), switches # <<>> => switches' # <<>>
      PROVE  TypeInv'
  <2>1. TabTypes' /\ PipeTypes' /\ LockTypes'
    BY <1>1, <1>3 DEF TypeParts, TabTypes, PipeTypes, LockTypes
  <2>2. QueueTypes' /\ HistoryTypes'
    BY <1>1, <1>3 DEF TypeParts, QueueTypes, HistoryTypes
  <2>3. SwitchTypes' /\ CallTypes' /\ SwitchesPending'
    BY <1>1, <1>3 DEF TypeParts, SwitchTypes, CallTypes, SwitchesPending
  <2>4. QED
    BY <2>1, <2>2, <2>3 DEF TypeInv, TypeParts
<1>4. NoClose \in Closings /\ NoClose.until <= enqueued
  BY <1>1, NoCloseType DEF TypeParts, QueueTypes
<1>5. /\ open \subseteq Projects /\ dirty \in [Projects -> BOOLEAN]
      /\ parked \subseteq Projects /\ heldBack \subseteq Projects /\ orphaned \subseteq Projects
      /\ switches \in Seq(SwitchOrder) /\ closing.until <= enqueued
  BY <1>1 DEF TypeParts, TabTypes, HistoryTypes, SwitchTypes, CallTypes
<1>6. CASE DiscardDrained
  <2>1. /\ discardElsewhere' = discardElsewhere /\ switches' = switches
        /\ \/ closing' = NoClose /\ UNCHANGED <<open, dirty, parked, heldBack, orphaned>>
           \/ CloseSession(closing.project)
    BY <1>6 DEF DiscardDrained
  <2>2. CASE closing' = NoClose /\ UNCHANGED <<open, dirty, parked, heldBack, orphaned>>
    BY <1>3, <1>4, <1>5, <2>1, <2>2
  <2>3. CASE CloseSession(closing.project)
    <3>1. /\ open' \subseteq Projects /\ dirty' \in [Projects -> BOOLEAN]
          /\ parked' \subseteq Projects /\ heldBack' \subseteq Projects
          /\ orphaned' \subseteq Projects /\ closing' = NoClose
      BY <1>1, <2>3, CloseSessionEffect
    <3>2. QED
      BY <1>3, <1>4, <1>5, <2>1, <3>1
  <2>4. QED
    BY <2>1, <2>2, <2>3
<1>7. CASE ActivateSuccessor
  <2>1. PICK q \in Projects :
          IF switches = <<>> /\ q = active
          THEN closing' = [closing EXCEPT !.step = "close"] /\ UNCHANGED switches
          ELSE /\ closing' = [closing EXCEPT !.step = "switch"]
               /\ EnqueueSwitch(q, TRUE, "close")
    BY <1>7 DEF ActivateSuccessor
  <2>2. closing' \in Closings /\ closing'.until <= enqueued
    BY <1>1, <1>5, <2>1, ClosingStepType
  <2>3. switches' \in Seq(SwitchOrder) /\ (switches # <<>> => switches' # <<>>)
    BY <1>1, <1>5, <2>1, EnqueueSwitchEffect DEF TypeParts
  <2>4. discardElsewhere' = discardElsewhere /\ UNCHANGED <<open, dirty, parked, heldBack, orphaned>>
    BY <1>7 DEF ActivateSuccessor
  <2>5. QED
    BY <1>3, <1>5, <2>2, <2>3, <2>4
<1>8. CASE CloseTab
  <2>1. CloseSession(closing.project) /\ discardElsewhere' = discardElsewhere /\ switches' = switches
    BY <1>8 DEF CloseTab
  <2>2. /\ open' \subseteq Projects /\ dirty' \in [Projects -> BOOLEAN]
        /\ parked' \subseteq Projects /\ heldBack' \subseteq Projects
        /\ orphaned' \subseteq Projects /\ closing' = NoClose
    BY <1>1, <2>1, CloseSessionEffect
  <2>3. QED
    BY <1>3, <1>4, <1>5, <2>1, <2>2
<1>9. QED
  BY <1>2, <1>6, <1>7, <1>8 DEF CloseStep

\* The release of a lease schedules the active project again, or nothing.
ReleaseSchedules == active = lease.project /\ dirty[active] /\ ~readOnly

LEMMA ReleaseEffect ==
  ASSUME TypeParts, ReleaseLease
  PROVE  /\ lease # NoLease /\ lease' = NoLease
         /\ UNCHANGED <<tabVars, stored, lockVars, epoch, queueVars, switchVars,
                        closing, calls, ceiling, orphaned, prepares>>
         /\ \/ /\ ReleaseSchedules /\ timer' = {CaptureOf(active, doc[active])}
               /\ CaptureOf(active, doc[active]) \in Capture
               /\ generation' = generation + 1
               /\ parked' = parked \ Scheduled(active) /\ heldBack' = heldBack \ Scheduled(active)
            \/ ~ReleaseSchedules /\ UNCHANGED <<timer, generation, parked, heldBack>>
<1>1. CaptureOf(active, doc[active]) \in Capture
  BY CaptureTypes DEF TypeParts, TabTypes
<1>2. QED
  BY <1>1 DEF ReleaseLease, ReleaseSchedules

LEMMA LeaseStepType ==
  ASSUME TypeInv, LeaseStep
  PROVE  TypeInv'
<1>1. TypeParts /\ SwitchesPending
  BY DEF TypeInv
<1>2. CASE \E p \in Projects : BeginQuiesce(p)
  <2>1. PICK p \in Projects : BeginQuiesce(p)
    BY <1>2
  <2>2. /\ lease' = [project |-> p, held |-> FALSE, until |-> enqueued]
        /\ UNCHANGED <<waiting, enqueued, awaited, closing>>
    BY <2>1 DEF BeginQuiesce
  <2>3. CallTypes'
    BY <1>1, <2>2 DEF TypeParts, CallTypes, QueueTypes, Leases
  <2>4. calls' \in 0..MaxCalls
    BY <1>1, <2>1 DEF BeginQuiesce, Asked, TypeParts, TabTypes
  <2>5. TabTypes' /\ PipeTypes'
    BY <1>1, <2>1, <2>4 DEF BeginQuiesce, TimerWithout, TypeParts, TabTypes, PipeTypes
  <2>6. LockTypes' /\ QueueTypes' /\ SwitchTypes' /\ SwitchesPending'
    BY <1>1, <2>1 DEF BeginQuiesce, TypeParts, LockTypes, QueueTypes, SwitchTypes, SwitchesPending
  <2>7. HistoryTypes'
    BY <1>1, <2>1 DEF BeginQuiesce, TypeParts, HistoryTypes
  <2>8. QED
    BY <2>3, <2>5, <2>6, <2>7 DEF TypeInv, TypeParts
<1>3. CASE QuiesceDrained
  <2>1. lease' = [lease EXCEPT !.held = TRUE] /\ lease \in Leases /\ lease.until <= enqueued
    BY <1>1, <1>3 DEF QuiesceDrained, TypeParts, CallTypes
  <2>2. lease' \in Leases /\ lease'.until = lease.until
    BY <2>1 DEF Leases
  <2>3. CallTypes'
    BY <1>1, <1>3, <2>1, <2>2 DEF QuiesceDrained, TypeParts, CallTypes
  <2>4. TabTypes' /\ PipeTypes' /\ LockTypes'
    BY <1>1, <1>3 DEF QuiesceDrained, TypeParts, TabTypes, PipeTypes, LockTypes
  <2>5. QueueTypes' /\ SwitchTypes' /\ SwitchesPending' /\ HistoryTypes'
    BY <1>1, <1>3 DEF QuiesceDrained, TypeParts, QueueTypes, SwitchTypes, SwitchesPending, HistoryTypes
  <2>6. QED
    BY <2>3, <2>4, <2>5 DEF TypeInv, TypeParts
<1>4. CASE ReleaseLease
  <2>1. /\ lease' = NoLease
        /\ UNCHANGED <<tabVars, stored, lockVars, epoch, queueVars, switchVars,
                       closing, calls, ceiling, orphaned, prepares>>
    BY <1>1, <1>4, ReleaseEffect
  <2>2. /\ timer' \subseteq Capture /\ generation' \in Nat
        /\ parked' \subseteq Projects /\ heldBack' \subseteq Projects
    BY <1>1, <1>4, ReleaseEffect DEF TypeParts, PipeTypes, HistoryTypes
  <2>3. CallTypes'
    BY <1>1, <2>1, NoCloseType DEF TypeParts, CallTypes, QueueTypes
  <2>4. TabTypes' /\ PipeTypes' /\ LockTypes'
    BY <1>1, <2>1, <2>2 DEF TypeParts, TabTypes, PipeTypes, LockTypes
  <2>5. QueueTypes' /\ SwitchTypes' /\ SwitchesPending' /\ HistoryTypes'
    BY <1>1, <2>1, <2>2 DEF TypeParts, QueueTypes, SwitchTypes, SwitchesPending, HistoryTypes
  <2>6. QED
    BY <2>3, <2>4, <2>5 DEF TypeInv, TypeParts
<1>5. QED
  BY <1>2, <1>3, <1>4 DEF LeaseStep

LEMMA NextType == TypeInv /\ [Next]_vars => TypeInv'
<1> SUFFICES ASSUME TypeInv, [Next]_vars PROVE TypeInv'
  OBVIOUS
<1>1. CASE Edit
  BY <1>1, EditType
<1>2. CASE FireTimer
  BY <1>2, FireType
<1>3. CASE SaveNow \/ (\E w \in Flushers : ResumeFlush(w)) \/ FlushLeft
  BY <1>3, FlushesType
<1>4. CASE SaveStep
  BY <1>4, SaveStepType
<1>5. CASE LockStep
  BY <1>5, LockStepType
<1>6. CASE SwitchStep /\ ~FlushLeft
  BY <1>6, SwitchStepType
<1>7. CASE CloseStep
  BY <1>7, CloseStepType
<1>8. CASE LeaseStep
  BY <1>8, LeaseStepType
<1>9. CASE UNCHANGED vars
  BY <1>9 DEF vars, TypeInv, TypeParts, TabTypes, PipeTypes, LockTypes, QueueTypes, SwitchTypes,
     CallTypes, HistoryTypes, SwitchesPending
<1>10. QED
  BY <1>1, <1>2, <1>3, <1>4, <1>5, <1>6, <1>7, <1>8, <1>9 DEF Next

LEMMA TypeInvariant == Spec => []TypeInv
<1>1. Init => TypeInv
  BY InitType
<1>2. TypeInv /\ [Next]_vars => TypeInv'
  BY NextType
<1>3. QED
  BY <1>1, <1>2, PTL DEF Spec

(* Every variable of the tab keeps its type: no save is numbered past the  *)
(* saves enqueued, and no call waits for a save that was not enqueued.     *)
THEOREM TypeCorrect == Spec => []TypeOK
<1>1. TypeInv => TypeOK
  BY TypePartsSuffice DEF TypeInv
<1>2. QED
  BY <1>1, TypeInvariant, PTL

-----------------------------------------------------------------------------
(* Activations and closes keep to one another: an activation in progress   *)
(* has a target other than the active project, and an activation that a    *)
(* close asked for is the only one, for as long as the close waits for it. *)
Target == switches[1].target
TargetIsOther == switchStep # "idle" => Target # active
ClosesOnce ==
  /\ \A i \in 1..Len(switches) : switches[i].by = "close" => closing.step = "switch"
  /\ \A i, j \in 1..Len(switches) :
       switches[i].by = "close" /\ switches[j].by = "close" => i = j
NoCloseIsNone ==
  /\ closing.step = "none" <=> closing = NoClose
  /\ closing.project = NoProject <=> closing = NoClose
NoLeaseIsNone == lease.project = NoProject <=> lease = NoLease
SwitchInv == TargetIsOther /\ ClosesOnce /\ NoCloseIsNone /\ NoLeaseIsNone

LEMMA InitSwitches == Init => SwitchInv
BY DEF Init, SwitchInv, TargetIsOther, ClosesOnce, NoCloseIsNone, NoLeaseIsNone, NoClose, NoLease

\* The head leaves; the others move up.
LEMMA SwitchesShrink ==
  ASSUME SwitchTypes, switches # <<>>, switches' = Tail(switches)
  PROVE  /\ Len(switches) \in Nat /\ Len(switches) > 0 /\ Len(switches') = Len(switches) - 1
         /\ \A i \in 1..Len(switches') : switches'[i] = switches[i + 1]
BY DEF SwitchTypes

LEMMA EndSwitchInv ==
  ASSUME TypeInv, SwitchInv, switches # <<>>, EndSwitch, UNCHANGED lease
  PROVE  SwitchInv'
<1>1. /\ switches' = Tail(switches) /\ switchStep' = "idle"
      /\ closing' = IF switches[1].by = "close" THEN [closing EXCEPT !.step = "close"] ELSE closing
      /\ Len(switches) \in Nat /\ Len(switches) > 0 /\ Len(switches') = Len(switches) - 1
      /\ \A i \in 1..Len(switches') : switches'[i] = switches[i + 1]
  BY SwitchesShrink DEF EndSwitch, TypeInv, TypeParts
<1>2. CASE switches[1].by = "close"
  <2>1. closing.step = "switch"
    BY <1>1, <1>2 DEF SwitchInv, ClosesOnce
  <2>2. closing \in Closings /\ closing # NoClose
    BY <2>1 DEF TypeInv, TypeParts, CallTypes, NoClose
  <2>3. closing'.step = "close" /\ closing'.project = closing.project
    BY <1>1, <1>2, <2>2, ClosingStepType
  <2>4. closing' # NoClose /\ closing'.project # NoProject
    BY <2>2, <2>3 DEF NoClose, SwitchInv, NoCloseIsNone
  <2>5. \A i \in 1..Len(switches') : switches'[i].by # "close"
    BY <1>1, <1>2 DEF SwitchInv, ClosesOnce
  <2>6. QED
    BY <1>1, <2>3, <2>4, <2>5 DEF SwitchInv, TargetIsOther, ClosesOnce, NoCloseIsNone, NoLeaseIsNone
<1>3. CASE switches[1].by # "close"
  <2>1. \A i, j \in 1..Len(switches') :
          switches'[i].by = "close" /\ switches'[j].by = "close" => i = j
    <3>1. \A i \in 1..Len(switches') : i + 1 \in 1..Len(switches) /\ i \in Nat
      BY <1>1
    <3>2. QED
      BY <1>1, <3>1 DEF SwitchInv, ClosesOnce
  <2>2. \A i \in 1..Len(switches') : switches'[i].by = "close" => closing.step = "switch"
    BY <1>1 DEF SwitchInv, ClosesOnce
  <2>3. QED
    BY <1>1, <1>3, <2>1, <2>2 DEF SwitchInv, TargetIsOther, ClosesOnce, NoCloseIsNone, NoLeaseIsNone
<1>4. QED
  BY <1>2, <1>3

\* What goes on at the tail: one more activation is asked for.
LEMMA SwitchesGrow ==
  ASSUME TypeInv, SwitchInv, NEW p \in Projects, NEW skip \in BOOLEAN, NEW by \in {"user", "close"},
         EnqueueSwitch(p, skip, by), UNCHANGED <<lease, active, switchStep>>,
         \/ by = "user" /\ closing' = closing
         \/ by = "close" /\ closing.step = "drain" /\ closing' = [closing EXCEPT !.step = "switch"]
  PROVE  SwitchInv'
<1>1. /\ Len(switches) \in Nat /\ Len(switches') = Len(switches) + 1
      /\ switches'[Len(switches) + 1].by = by
      /\ \A i \in 1..Len(switches) : switches'[i] = switches[i]
  <2>1. SwitchTypes /\ Len(switches) \in Nat
    BY DEF TypeInv, TypeParts, SwitchTypes
  <2>2. /\ Len(switches') = Len(switches) + 1
        /\ switches'[Len(switches) + 1] = [target |-> p, skipFlush |-> skip, by |-> by]
        /\ \A i \in 1..Len(switches) : switches'[i] = switches[i]
    BY <2>1, EnqueueSwitchEffect
  <2>3. QED
    BY <2>1, <2>2
<1>2. TargetIsOther'
  <2>1. switchStep # "idle" => Len(switches) >= 1
    BY <1>1 DEF TypeInv, SwitchesPending, TypeParts, SwitchTypes
  <2>2. QED
    BY <1>1, <2>1 DEF SwitchInv, TargetIsOther, Target
<1>3. CASE by = "user"
  <2>1. \A i \in 1..Len(switches') : switches'[i].by = "close" =>
          i \in 1..Len(switches) /\ switches[i].by = "close"
    BY <1>1, <1>3
  <2>2. closing' = closing
    BY <1>3
  <2>3. QED
    BY <1>2, <2>1, <2>2 DEF SwitchInv, ClosesOnce, NoCloseIsNone, NoLeaseIsNone
<1>4. CASE by = "close"
  <2>1. closing.step = "drain" /\ closing' = [closing EXCEPT !.step = "switch"]
    BY <1>4
  <2>2. closing \in Closings /\ closing # NoClose
    BY <2>1 DEF TypeInv, TypeParts, CallTypes, NoClose
  <2>3. closing'.step = "switch" /\ closing'.project = closing.project
    BY <2>1, <2>2, ClosingStepType
  <2>4. closing' # NoClose /\ closing'.project # NoProject
    BY <2>2, <2>3 DEF NoClose, SwitchInv, NoCloseIsNone
  <2>5. \A i \in 1..Len(switches') : switches'[i].by = "close" => i = Len(switches) + 1
    BY <1>1, <2>1 DEF SwitchInv, ClosesOnce
  <2>6. QED
    BY <1>2, <2>3, <2>4, <2>5 DEF SwitchInv, ClosesOnce, NoCloseIsNone, NoLeaseIsNone
<1>5. QED
  BY <1>3, <1>4

LEMMA SwitchesKept ==
  ASSUME SwitchInv, UNCHANGED <<switches, active, closing, lease>>,
         switchStep' # "idle" => switchStep # "idle"
  PROVE  SwitchInv'
BY DEF SwitchInv, TargetIsOther, Target, ClosesOnce, NoCloseIsNone, NoLeaseIsNone

LEMMA ClosingChanges ==
  ASSUME SwitchInv, UNCHANGED <<switches, active, lease, switchStep>>, closing.step # "switch",
         closing' = NoClose \/ (closing'.step \in {"drain", "close"} /\ closing'.project \in Projects)
  PROVE  SwitchInv'
<1>1. \A i \in 1..Len(switches) : switches[i].by # "close"
  BY DEF SwitchInv, ClosesOnce
<1>2. NoCloseIsNone'
  BY DEF NoCloseIsNone, NoClose
<1>3. QED
  BY <1>1, <1>2 DEF SwitchInv, TargetIsOther, Target, ClosesOnce, NoLeaseIsNone

LEMMA NextSwitches ==
  ASSUME TypeInv, SwitchInv, Next
  PROVE  SwitchInv'
<1>1. CASE Edit \/ FireTimer \/ SaveNow \/ (\E w \in Flushers : ResumeFlush(w)) \/ SaveStep \/ LockStep
             \/ FlushLeft \/ ReleaseLock \/ ClaimLock
  <2>1. /\ UNCHANGED <<switches, active, closing, lease>>
        /\ switchStep' # "idle" => switchStep # "idle"
    <3>1. CASE Edit \/ FireTimer \/ SaveNow \/ (\E w \in Flushers : ResumeFlush(w))
      BY <3>1 DEF Edit, FireTimer, SaveNow, ResumeFlush
    <3>2. CASE SaveStep
      BY <3>2, SaveStepEffect DEF TypeInv, SaveFrame
    <3>3. CASE LockStep
      BY <3>3 DEF LockStep, StealLock, NoticeLoss, RecoverLock, WaitForLock
    <3>4. CASE FlushLeft \/ ReleaseLock \/ ClaimLock
      BY <3>4 DEF FlushLeft, ReleaseLock, ClaimLock
    <3>5. QED
      BY <1>1, <3>1, <3>2, <3>3, <3>4
  <2>2. QED
    BY <2>1, SwitchesKept
<1>2. CASE \E p \in Projects : RequestSwitch(p)
  <2>1. PICK p \in Projects : RequestSwitch(p)
    BY <1>2
  <2>2. EnqueueSwitch(p, FALSE, "user") /\ UNCHANGED <<lease, active, switchStep, closing>>
    BY <2>1 DEF RequestSwitch
  <2>3. QED
    BY <2>2, SwitchesGrow
<1>3. CASE BeginSwitch
  <2>1. CASE switches[1].target = active
    BY <1>3, <2>1, EndSwitchInv DEF BeginSwitch
  <2>2. CASE switches[1].target # active
    BY <1>3, <2>2 DEF BeginSwitch, SwitchInv, TargetIsOther, Target, ClosesOnce, NoCloseIsNone, NoLeaseIsNone
  <2>3. QED
    BY <2>1, <2>2
<1>4. CASE FlushReturned
  <2>1. CASE awaited \in rejected
    BY <1>4, <2>1, EndSwitchInv DEF FlushReturned, TypeInv, SwitchesPending
  <2>2. CASE awaited \notin rejected
    BY <1>4, <2>2, SwitchesKept DEF FlushReturned
  <2>3. QED
    BY <2>1, <2>2
<1>5. CASE EnterProject
  BY <1>5, EndSwitchInv DEF EnterProject, TypeInv, SwitchesPending
<1>6. CASE \E p \in Projects : BeginDiscard(p)
  <2>1. PICK p \in Projects : BeginDiscard(p)
    BY <1>6
  <2>2. closing.step = "none" /\ closing'.step = "drain" /\ closing'.project = p
    BY <2>1 DEF BeginDiscard, NoClose
  <2>3. QED
    BY <2>1, <2>2, ClosingChanges DEF BeginDiscard
<1>7. CASE DiscardDrained \/ CloseTab
  <2>1. closing' = NoClose /\ closing.step # "switch" /\ UNCHANGED <<switches, active, lease, switchStep>>
    BY <1>7 DEF DiscardDrained, CloseTab, CloseSession
  <2>2. QED
    BY <2>1, ClosingChanges
<1>8. CASE ActivateSuccessor
  <2>1. closing.step = "drain" /\ UNCHANGED <<lease, active, switchStep>>
    BY <1>8 DEF ActivateSuccessor
  <2>2. PICK q \in Projects :
          IF switches = <<>> /\ q = active
          THEN closing' = [closing EXCEPT !.step = "close"] /\ UNCHANGED switches
          ELSE /\ closing' = [closing EXCEPT !.step = "switch"]
               /\ EnqueueSwitch(q, TRUE, "close")
    BY <1>8 DEF ActivateSuccessor
  <2>3. CASE switches = <<>> /\ q = active
    <3>1. closing \in Closings /\ closing # NoClose
      BY <2>1 DEF TypeInv, TypeParts, CallTypes, NoClose
    <3>2. closing.project \in Projects
      BY <3>1 DEF Closings, SwitchInv, NoCloseIsNone
    <3>3. closing'.step = "close" /\ closing'.project = closing.project
      BY <2>2, <2>3, <3>1, ClosingStepType
    <3>4. QED
      BY <2>1, <2>2, <2>3, <3>2, <3>3, ClosingChanges
  <2>4. CASE ~(switches = <<>> /\ q = active)
    <3>1. closing' = [closing EXCEPT !.step = "switch"] /\ EnqueueSwitch(q, TRUE, "close")
      BY <2>2, <2>4
    <3>2. QED
      BY <2>1, <3>1, SwitchesGrow
  <2>5. QED
    BY <2>3, <2>4
<1>9. CASE LeaseStep
  <2>1. UNCHANGED <<switches, active, closing, switchStep>>
    BY <1>9 DEF LeaseStep, BeginQuiesce, QuiesceDrained, ReleaseLease
  <2>2. NoLeaseIsNone'
    <3>1. CASE \E p \in Projects : BeginQuiesce(p)
      BY <3>1 DEF BeginQuiesce, NoLeaseIsNone, NoLease
    <3>2. CASE QuiesceDrained
      <4>1. lease \in Leases /\ lease.project # NoProject /\ lease' = [lease EXCEPT !.held = TRUE]
        BY <3>2 DEF QuiesceDrained, TypeInv, TypeParts, CallTypes, SwitchInv, NoLeaseIsNone
      <4>2. lease'.project # NoProject
        BY <4>1 DEF Leases
      <4>3. QED
        BY <4>2 DEF NoLeaseIsNone, NoLease
    <3>3. CASE ReleaseLease
      BY <3>3 DEF ReleaseLease, NoLeaseIsNone, NoLease
    <3>4. QED
      BY <1>9, <3>1, <3>2, <3>3 DEF LeaseStep
  <2>3. QED
    BY <2>1, <2>2 DEF SwitchInv, TargetIsOther, Target, ClosesOnce, NoCloseIsNone
<1>10. QED
  BY <1>1, <1>2, <1>3, <1>4, <1>5, <1>6, <1>7, <1>8, <1>9 DEF Next, SwitchStep, CloseStep

-----------------------------------------------------------------------------
(* What a step does to the timer and to the queue, whatever its action:    *)
(* the timer may lose captures or take a new one, its capture or a flush   *)
(* may join the queue, or the head of the queue goes on.                   *)
TimerShrinks == UNCHANGED queueVars /\ timer' \subseteq timer /\ generation' = generation
TimerCaptures ==
  /\ UNCHANGED queueVars /\ ~readOnly /\ generation' = generation + 1
  /\ CaptureOf(active, doc'[active]) \in Capture
  /\ timer' = {CaptureOf(active, doc'[active])}
  /\ UNCHANGED <<active, stored, durable, lock, granted, readOnly, epoch, prepares, switchVars,
                 closing, orphaned, open>>
  /\ \/ Edit /\ ~Suspended(active)
     \/ lease.project = active /\ ReleaseLease
TimerJoins ==
  \E c \in timer :
    /\ c \in Capture /\ SaveOf(c, TRUE) \in Save /\ timer' = {}
    /\ queue' \in Seq(Save) /\ Joined(SaveOf(c, TRUE))
    /\ enqueued' = enqueued + 1 /\ rejected' = rejected
    /\ newest' = [newest EXCEPT ![c.project] = c.gen]
    /\ UNCHANGED <<tabVars, stored, lockVars, generation, epoch, switchVars, closing,
                   lease, calls, parked, heldBack, ceiling, orphaned, prepares>>
FlushJoins ==
  /\ ~NothingToFlush /\ ~Suspended(active)
  /\ timer' = {} /\ FlushedSave \in Save
  /\ queue' \in Seq(Save) /\ Joined(FlushedSave) /\ enqueued' = enqueued + 1
  /\ parked' = parked \ Scheduled(active) /\ heldBack' = heldBack \ Scheduled(active)
  /\ UNCHANGED <<newest, rejected, tabVars, stored, lockVars, generation, epoch, switches,
                 closing, lease, ceiling, orphaned, prepares>>
HeadGoesOn ==
  /\ queue # <<>> /\ queue[1] \in Save /\ SaveFrame
  /\ HeadEnds \/ Passes

LEMMA FlushPipe ==
  ASSUME TypeParts, NEW w \in Flushers, Flush(w), FlushFrame
  PROVE  (TimerShrinks /\ UNCHANGED <<parked, heldBack>>) \/ FlushJoins
BY FlushEffect DEF FlushFrame, TimerShrinks, FlushJoins, TimerWithout

LEMMA EditPipe ==
  ASSUME TypeParts, Edit
  PROVE  TimerShrinks \/ TimerCaptures
<1>1. made \in Nat /\ made + 1 \in Nat /\ doc'[active] = made + 1
  BY DEF Edit, TypeParts, TabTypes
<1>2. CaptureOf(active, doc'[active]) \in Capture
  BY <1>1, CaptureTypes DEF TypeParts, TabTypes
<1>3. UNCHANGED queueVars
  BY DEF Edit
<1>4. CASE Suspended(active)
  BY <1>3, <1>4 DEF Edit, TimerShrinks, TimerWithout
<1>5. CASE ~Suspended(active)
  <2>1. ~readOnly /\ generation' = generation + 1 /\ timer' = {CaptureOf(active, doc'[active])}
    BY <1>1, <1>5 DEF Edit
  <2>2. UNCHANGED <<active, stored, durable, lock, granted, readOnly, epoch, prepares, switchVars,
                    closing, orphaned, open>>
    BY DEF Edit
  <2>3. QED
    BY <1>2, <1>3, <1>5, <2>1, <2>2 DEF TimerCaptures
<1>6. QED
  BY <1>4, <1>5

LEMMA ReleasePipe ==
  ASSUME TypeParts, ReleaseLease
  PROVE  TimerShrinks \/ TimerCaptures
<1>1. UNCHANGED <<queueVars, doc>>
  BY DEF ReleaseLease
<1>2. CASE ReleaseSchedules
  <2>1. ~readOnly /\ lease.project = active
    BY <1>2 DEF ReleaseSchedules
  <2>2. /\ generation' = generation + 1 /\ CaptureOf(active, doc[active]) \in Capture
        /\ timer' = {CaptureOf(active, doc[active])}
    BY <1>2, ReleaseEffect
  <2>3. UNCHANGED <<active, stored, durable, lock, granted, readOnly, epoch, prepares, switchVars,
                    closing, orphaned, open>>
    BY DEF ReleaseLease
  <2>4. QED
    BY <1>1, <2>1, <2>2, <2>3 DEF TimerCaptures
<1>3. CASE ~ReleaseSchedules
  BY <1>1, <1>3, ReleaseEffect DEF TimerShrinks
<1>4. QED
  BY <1>2, <1>3

LEMMA PipeEffect ==
  ASSUME TypeInv, Next
  PROVE  TimerShrinks \/ TimerCaptures \/ TimerJoins \/ FlushJoins \/ HeadGoesOn
<1>1. TypeParts
  BY DEF TypeInv
<1>2. CASE Edit
  BY <1>1, <1>2, EditPipe
<1>3. CASE FireTimer
  BY <1>1, <1>3, FireEffect DEF TimerJoins
<1>4. CASE SaveNow
  <2>1. Flush("user") /\ FlushFrame
    BY <1>4 DEF SaveNow, FlushFrame
  <2>2. QED
    BY <1>1, <2>1, FlushPipe DEF Flushers
<1>5. CASE \E w \in Flushers : ResumeFlush(w)
  <2>1. PICK w \in Flushers : Flush(w) /\ FlushFrame
    BY <1>5 DEF ResumeFlush, FlushFrame
  <2>2. QED
    BY <1>1, <2>1, FlushPipe
<1>6. CASE FlushLeft
  <2>1. CASE switches[1].skipFlush \/ readOnly
    BY <1>6, <2>1 DEF FlushLeft, TimerShrinks
  <2>2. CASE ~(switches[1].skipFlush \/ readOnly)
    <3>1. Flush("switch") /\ FlushFrame
      BY <1>6, <2>2 DEF FlushLeft, FlushFrame
    <3>2. QED
      BY <1>1, <3>1, FlushPipe DEF Flushers
  <2>3. QED
    BY <2>1, <2>2
<1>7. CASE SaveStep
  BY <1>1, <1>7, SaveStepEffect DEF HeadGoesOn
<1>8. CASE LockStep
  BY <1>8 DEF LockStep, StealLock, NoticeLoss, RecoverLock, WaitForLock, TimerShrinks
<1>9. CASE SwitchStep /\ ~FlushLeft
  BY <1>9 DEF SwitchStep, RequestSwitch, BeginSwitch, FlushReturned, ReleaseLock, ClaimLock,
     EnterProject, TimerShrinks
<1>10. CASE CloseStep
  BY <1>10 DEF CloseStep, BeginDiscard, DiscardDrained, ActivateSuccessor, CloseTab, TimerShrinks,
     TimerWithout
<1>11. CASE LeaseStep /\ ~ReleaseLease
  BY <1>11 DEF LeaseStep, BeginQuiesce, QuiesceDrained, TimerShrinks, TimerWithout
<1>12. CASE ReleaseLease
  BY <1>1, <1>12, ReleasePipe
<1>13. QED
  BY <1>2, <1>3, <1>4, <1>5, <1>6, <1>7, <1>8, <1>9, <1>10, <1>11, <1>12 DEF Next, LeaseStep

-----------------------------------------------------------------------------
(* Draining.  Saves settle in the order of the queue, so the i-th of the   *)
(* queue is the (Settled + i)-th ever enqueued, and while the saves of a   *)
(* project are suspended those that are left of it were enqueued before.   *)
Quiet(p, until) ==
  /\ \A c \in timer : c.project # p
  /\ \A i \in 1..Len(queue) : queue[i].project = p => enqueued - Len(queue) + i <= until

QuietNext(p, until) ==
  /\ \A c \in timer' : c.project # p
  /\ \A i \in 1..Len(queue') : queue'[i].project = p => enqueued' - Len(queue') + i <= until

LEMMA QuietJoined ==
  ASSUME TypeInv, NEW p, NEW until \in Nat, Quiet(p, until), timer' = {},
         NEW save, save.project # p, Joined(save), enqueued' = enqueued + 1
  PROVE  QuietNext(p, until)
<1>1. Len(queue) \in Nat /\ enqueued \in Nat
  BY DEF TypeInv, TypeParts, QueueTypes
<1>2. Len(queue') = Len(queue) + 1 /\ queue'[Len(queue) + 1] = save
  BY DEF Joined
<1>3. \A i \in 1..Len(queue) : queue'[i] = queue[i]
  BY DEF Joined
<1>4. enqueued' - Len(queue') = enqueued - Len(queue)
  BY <1>1, <1>2
<1>5. \A i \in 1..Len(queue') : queue'[i].project = p =>
        i \in 1..Len(queue) /\ queue[i].project = p
  BY <1>1, <1>2, <1>3
<1>6. QED
  BY <1>4, <1>5 DEF Quiet, QuietNext

LEMMA QuietStep ==
  ASSUME TypeInv, Next, NEW p, NEW until \in Nat, Quiet(p, until), Suspended(p),
         ReleaseLease => lease.project # p
  PROVE  QuietNext(p, until)
<1>1. Len(queue) \in Nat /\ enqueued \in Nat /\ queue \in Seq(Save)
  BY DEF TypeInv, TypeParts, QueueTypes
<1>2. CASE TimerShrinks
  BY <1>2 DEF TimerShrinks, Quiet, QuietNext
<1>3. CASE TimerCaptures
  <2>1. active # p
    BY <1>3 DEF TimerCaptures
  <2>2. UNCHANGED queueVars /\ timer' = {CaptureOf(active, doc'[active])}
    BY <1>3 DEF TimerCaptures
  <2>3. CaptureOf(active, doc'[active]).project = active
    BY DEF CaptureOf
  <2>4. QED
    BY <2>1, <2>2, <2>3 DEF Quiet, QuietNext
<1>4. CASE TimerJoins
  <2>1. PICK c \in timer : timer' = {} /\ Joined(SaveOf(c, TRUE)) /\ enqueued' = enqueued + 1
    BY <1>4 DEF TimerJoins
  <2>2. SaveOf(c, TRUE).project # p
    BY DEF Quiet, SaveOf
  <2>3. QED
    BY <2>1, <2>2, QuietJoined
<1>5. CASE FlushJoins
  <2>1. timer' = {} /\ Joined(FlushedSave) /\ enqueued' = enqueued + 1 /\ active # p
    BY <1>5 DEF FlushJoins
  <2>2. FlushedSave.project # p
    BY <2>1 DEF FlushedSave, SaveOf, CaptureOf
  <2>3. QED
    BY <2>1, <2>2, QuietJoined
<1>6. CASE HeadGoesOn
  <2>1. timer' = timer
    BY <1>6 DEF HeadGoesOn, SaveFrame
  <2>2. CASE HeadEnds
    <3>1. HeadGone /\ enqueued' = enqueued
      BY <2>2 DEF HeadEnds
    <3>2. \A i \in 1..Len(queue') : i + 1 \in 1..Len(queue) /\ queue'[i] = queue[i + 1]
      BY <1>1, <3>1 DEF HeadGone
    <3>3. QED
      BY <1>1, <2>1, <3>1, <3>2 DEF HeadGone, Quiet, QuietNext
  <2>3. CASE Passes
    <3>1. /\ Len(queue') = Len(queue) /\ enqueued' = enqueued /\ queue'[1].project = queue[1].project
          /\ \A i \in 2..Len(queue) : queue'[i] = queue[i]
      BY <2>3 DEF Passes, HeadPasses
    <3>2. \A i \in 1..Len(queue) : queue'[i].project = queue[i].project
      BY <1>1, <3>1
    <3>3. QED
      BY <2>1, <3>1, <3>2 DEF Quiet, QuietNext
  <2>4. QED
    BY <1>6, <2>2, <2>3 DEF HeadGoesOn
<1>7. QED
  BY <1>2, <1>3, <1>4, <1>5, <1>6, PipeEffect

\* How a close goes on.
CloseGoesOn ==
  /\ closing # NoClose /\ closing' # NoClose
  /\ closing'.project = closing.project /\ closing'.until = closing.until
  /\ closing'.wasActive = closing.wasActive
  /\ closing'.step \in {"switch", "close"}
  /\ closing.step = "switch" \/ Drained(closing.until)
  /\ closing'.step = "close" \/ closing.wasActive
  /\ UNCHANGED <<lease, queue, timer, enqueued, epoch, stored, ceiling>>

LEMMA EndSwitchClosing ==
  ASSUME TypeInv, SwitchInv, switches # <<>>, EndSwitch,
         UNCHANGED <<lease, queue, timer, enqueued, epoch, stored, ceiling>>
  PROVE  closing' = closing \/ CloseGoesOn
<1>1. CASE switches[1].by = "close"
  <2>1. Len(switches) >= 1
    BY DEF TypeInv, TypeParts, SwitchTypes
  <2>2. closing.step = "switch"
    BY <1>1, <2>1 DEF SwitchInv, ClosesOnce
  <2>3. closing \in Closings /\ closing # NoClose /\ closing' = [closing EXCEPT !.step = "close"]
    BY <1>1, <2>2 DEF TypeInv, TypeParts, CallTypes, NoClose, EndSwitch
  <2>4. /\ closing'.step = "close" /\ closing'.project = closing.project
        /\ closing'.until = closing.until /\ closing'.wasActive = closing.wasActive
    BY <2>3, ClosingStepType
  <2>5. closing' # NoClose
    BY <2>4 DEF NoClose
  <2>6. QED
    BY <2>2, <2>3, <2>4, <2>5 DEF CloseGoesOn
<1>2. CASE switches[1].by # "close"
  BY <1>2 DEF EndSwitch
<1>3. QED
  BY <1>1, <1>2

LEMMA ClosingEffect ==
  ASSUME TypeInv, SwitchInv, Next
  PROVE  closing' = closing \/ closing' = NoClose \/ CloseGoesOn
           \/ \E p \in Projects : BeginDiscard(p)
<1>1. CASE Edit \/ FireTimer \/ SaveNow \/ (\E w \in Flushers : ResumeFlush(w)) \/ LockStep \/ LeaseStep
  BY <1>1 DEF Edit, FireTimer, SaveNow, ResumeFlush, LockStep, StealLock, NoticeLoss, RecoverLock, WaitForLock,
     LeaseStep, BeginQuiesce, QuiesceDrained, ReleaseLease
<1>2. CASE SaveStep
  BY <1>2, SaveStepEffect DEF TypeInv, SaveFrame
<1>3. CASE (\E p \in Projects : RequestSwitch(p)) \/ FlushLeft \/ ReleaseLock \/ ClaimLock
  BY <1>3 DEF RequestSwitch, FlushLeft, ReleaseLock, ClaimLock
<1>4. CASE BeginSwitch
  <2>1. CASE switches[1].target = active
    BY <1>4, <2>1, EndSwitchClosing DEF BeginSwitch
  <2>2. QED
    BY <1>4, <2>1 DEF BeginSwitch
<1>5. CASE FlushReturned
  <2>1. CASE awaited \in rejected
    BY <1>5, <2>1, EndSwitchClosing DEF FlushReturned, TypeInv, SwitchesPending
  <2>2. QED
    BY <1>5, <2>1 DEF FlushReturned
<1>6. CASE EnterProject
  BY <1>6, EndSwitchClosing DEF EnterProject, TypeInv, SwitchesPending
<1>7. CASE DiscardDrained \/ CloseTab
  BY <1>7 DEF DiscardDrained, CloseTab, CloseSession
<1>8. CASE ActivateSuccessor
  <2>1. /\ closing.step = "drain" /\ Drained(closing.until) /\ closing.wasActive
        /\ UNCHANGED <<lease, queue, timer, enqueued, epoch, stored, ceiling>>
    BY <1>8 DEF ActivateSuccessor
  <2>2. \E s \in {"switch", "close"} : closing' = [closing EXCEPT !.step = s]
    BY <1>8 DEF ActivateSuccessor
  <2>3. closing \in Closings /\ closing # NoClose
    BY <2>1 DEF TypeInv, TypeParts, CallTypes, NoClose
  <2>4. /\ closing'.step \in {"switch", "close"} /\ closing'.project = closing.project
        /\ closing'.until = closing.until /\ closing'.wasActive = closing.wasActive
    BY <2>2, <2>3, ClosingStepType
  <2>5. closing' # NoClose
    BY <2>4 DEF NoClose
  <2>6. QED
    BY <2>1, <2>3, <2>4, <2>5 DEF CloseGoesOn
<1>9. CASE \E p \in Projects : BeginDiscard(p)
  BY <1>9
<1>10. QED
  BY <1>1, <1>2, <1>3, <1>4, <1>5, <1>6, <1>7, <1>8, <1>9 DEF Next, SwitchStep, CloseStep

LEMMA LeaseEffect ==
  ASSUME TypeInv, Next
  PROVE  \/ lease' = lease /\ ~ReleaseLease
         \/ lease' = NoLease /\ closing' = closing
         \/ \E p \in Projects : BeginQuiesce(p)
         \/ QuiesceDrained
<1>1. CASE Edit \/ FireTimer \/ SaveNow \/ (\E w \in Flushers : ResumeFlush(w)) \/ LockStep
  BY <1>1 DEF Edit, FireTimer, SaveNow, ResumeFlush, LockStep, StealLock, NoticeLoss, RecoverLock, WaitForLock,
     ReleaseLease
<1>2. CASE SaveStep
  BY <1>2, SaveStepEffect DEF TypeInv, SaveFrame, ReleaseLease
<1>3. CASE SwitchStep
  BY <1>3 DEF SwitchStep, RequestSwitch, BeginSwitch, FlushLeft, FlushReturned, ReleaseLock,
     ClaimLock, EnterProject, ReleaseLease
<1>4. CASE CloseStep
  BY <1>4 DEF CloseStep, BeginDiscard, DiscardDrained, ActivateSuccessor, CloseTab, ReleaseLease
<1>5. CASE LeaseStep
  BY <1>5 DEF LeaseStep, ReleaseLease
<1>6. QED
  BY <1>1, <1>2, <1>3, <1>4, <1>5 DEF Next

\* Saves settle; none comes back.
LEMMA SettledGrows ==
  ASSUME TypeInv, Next
  PROVE  /\ Settled \in Nat /\ enqueued - Len(queue) \in Nat
         /\ enqueued' - Len(queue') \in Nat /\ enqueued' \in Nat
         /\ enqueued' - Len(queue') >= enqueued - Len(queue) /\ enqueued' >= enqueued
<1>1. Len(queue) \in Nat /\ enqueued \in Nat /\ Len(queue) <= enqueued
  BY DEF TypeInv, TypeParts, QueueTypes
<1>2. CASE TimerShrinks \/ TimerCaptures
  BY <1>1, <1>2 DEF TimerShrinks, TimerCaptures, Settled
<1>3. CASE TimerJoins \/ FlushJoins
  <2>1. enqueued' = enqueued + 1 /\ Len(queue') = Len(queue) + 1
    BY <1>3 DEF TimerJoins, FlushJoins, Joined
  <2>2. QED
    BY <1>1, <2>1 DEF Settled
<1>4. CASE HeadGoesOn
  <2>1. enqueued' = enqueued /\ (Len(queue') = Len(queue) \/ Len(queue') = Len(queue) - 1)
    BY <1>4 DEF HeadGoesOn, HeadEnds, HeadGone, Passes, HeadPasses
  <2>2. QED
    BY <1>1, <2>1 DEF Settled
<1>5. QED
  BY <1>2, <1>3, <1>4, PipeEffect

ClosingDrains ==
  /\ closing # NoClose => Quiet(closing.project, closing.until)
  /\ closing.step \in {"switch", "close"} => Settled >= closing.until
LeaseDrains ==
  /\ lease # NoLease => Quiet(lease.project, lease.until)
  /\ lease.held => Settled >= lease.until
LeasesApart == lease # NoLease => closing.project # lease.project
DrainInv == ClosingDrains /\ LeaseDrains /\ LeasesApart

LEMMA InitDrain == Init => DrainInv
BY DEF Init, DrainInv, ClosingDrains, LeaseDrains, LeasesApart, NoClose, NoLease

\* The numbers of the saves that are left reach up to the last enqueued.
LEMMA QuietFromNow ==
  ASSUME TypeInv, NEW p, timer' = TimerWithout(p), UNCHANGED <<queue, enqueued>>
  PROVE  QuietNext(p, enqueued)
<1>1. Len(queue) \in Nat /\ enqueued \in Nat
  BY DEF TypeInv, TypeParts, QueueTypes
<1>2. QED
  BY <1>1 DEF QuietNext, TimerWithout

LEMMA NextClosingDrains ==
  ASSUME TypeInv, SwitchInv, DrainInv, Next
  PROVE  ClosingDrains'
<1>1. closing \in Closings /\ closing.until \in Nat
  BY DEF TypeInv, TypeParts, CallTypes, Closings
<1>2. Settled \in Nat /\ enqueued' - Len(queue') >= enqueued - Len(queue)
  BY SettledGrows
<1>3. ASSUME closing # NoClose, closing'.project = closing.project, closing'.until = closing.until
      PROVE  QuietNext(closing.project, closing.until)
  <2>1. Quiet(closing.project, closing.until) /\ Suspended(closing.project)
    BY <1>3 DEF DrainInv, ClosingDrains, Suspended
  <2>2. ReleaseLease => lease.project # closing.project
    BY DEF ReleaseLease, DrainInv, LeasesApart
  <2>3. QED
    BY <1>1, <2>1, <2>2, QuietStep
<1>4. CASE closing' = closing
  <2>1. closing # NoClose => QuietNext(closing.project, closing.until)
    BY <1>3, <1>4
  <2>2. enqueued - Len(queue) \in Nat /\ (closing.step \in {"switch", "close"} => enqueued - Len(queue) >= closing.until)
    BY SettledGrows DEF DrainInv, ClosingDrains, Settled
  <2>3. closing.step \in {"switch", "close"} => enqueued' - Len(queue') >= closing.until
    BY <1>1, <1>2, <2>2, SettledGrows
  <2>4. QED
    BY <1>4, <2>1, <2>3 DEF ClosingDrains, Settled, Quiet, QuietNext
<1>5. CASE closing' = NoClose
  BY <1>5 DEF ClosingDrains, NoClose
<1>6. CASE CloseGoesOn
  <2>1. QuietNext(closing.project, closing.until)
    BY <1>3, <1>6 DEF CloseGoesOn
  <2>2. Settled >= closing.until /\ UNCHANGED <<queue, enqueued>>
    BY <1>6 DEF CloseGoesOn, DrainInv, ClosingDrains, Drained
  <2>3. closing'.project = closing.project /\ closing'.until = closing.until
    BY <1>6 DEF CloseGoesOn
  <2>4. QED
    BY <2>1, <2>2, <2>3 DEF ClosingDrains, Settled, Quiet, QuietNext
<1>7. CASE \E p \in Projects : BeginDiscard(p)
  <2>1. PICK p \in Projects : BeginDiscard(p)
    BY <1>7
  <2>2. closing'.project = p /\ closing'.until = enqueued /\ closing'.step = "drain"
    BY <2>1 DEF BeginDiscard
  <2>3. timer' = TimerWithout(p) /\ UNCHANGED <<queue, enqueued>>
    BY <2>1 DEF BeginDiscard
  <2>4. QuietNext(p, enqueued)
    BY <2>3, QuietFromNow
  <2>5. QED
    BY <2>2, <2>4 DEF ClosingDrains, Quiet, QuietNext
<1>8. QED
  BY <1>4, <1>5, <1>6, <1>7, ClosingEffect

LEMMA NextLeaseDrains ==
  ASSUME TypeInv, SwitchInv, DrainInv, Next
  PROVE  LeaseDrains'
<1>1. lease \in Leases /\ lease.until \in Nat
  BY DEF TypeInv, TypeParts, CallTypes, Leases
<1>2. enqueued - Len(queue) \in Nat /\ enqueued' - Len(queue') >= enqueued - Len(queue)
  BY SettledGrows
<1>3. ASSUME lease # NoLease, ~ReleaseLease
      PROVE  QuietNext(lease.project, lease.until)
  <2>1. Quiet(lease.project, lease.until) /\ Suspended(lease.project)
    BY <1>3 DEF DrainInv, LeaseDrains, Suspended
  <2>2. QED
    BY <1>1, <1>3, <2>1, QuietStep
<1>4. CASE lease' = lease /\ ~ReleaseLease
  <2>1. lease # NoLease => QuietNext(lease.project, lease.until)
    BY <1>3, <1>4
  <2>2. lease.held => enqueued - Len(queue) >= lease.until
    BY DEF DrainInv, LeaseDrains, Settled
  <2>3. lease.held => enqueued' - Len(queue') >= lease.until
    BY <1>1, <1>2, <2>2, SettledGrows
  <2>4. QED
    BY <1>4, <2>1, <2>3 DEF LeaseDrains, Settled, Quiet, QuietNext
<1>5. CASE lease' = NoLease
  BY <1>5 DEF LeaseDrains, NoLease
<1>6. CASE \E p \in Projects : BeginQuiesce(p)
  <2>1. PICK p \in Projects : BeginQuiesce(p)
    BY <1>6
  <2>2. lease'.project = p /\ lease'.until = enqueued /\ ~lease'.held
    BY <2>1 DEF BeginQuiesce
  <2>3. timer' = TimerWithout(p) /\ UNCHANGED <<queue, enqueued>>
    BY <2>1 DEF BeginQuiesce
  <2>4. QuietNext(p, enqueued)
    BY <2>3, QuietFromNow
  <2>5. QED
    BY <2>2, <2>4 DEF LeaseDrains, Quiet, QuietNext
<1>7. CASE QuiesceDrained
  <2>1. /\ lease # NoLease /\ Settled >= lease.until /\ UNCHANGED <<queue, enqueued, timer>>
        /\ lease' = [lease EXCEPT !.held = TRUE]
    BY <1>7 DEF QuiesceDrained, Drained
  <2>2. lease'.project = lease.project /\ lease'.until = lease.until
    BY <1>1, <2>1 DEF Leases
  <2>3. Quiet(lease.project, lease.until)
    BY <2>1 DEF DrainInv, LeaseDrains
  <2>4. QED
    BY <2>1, <2>2, <2>3 DEF LeaseDrains, Settled, Quiet
<1>8. QED
  BY <1>4, <1>5, <1>6, <1>7, LeaseEffect

LEMMA NextLeasesApart ==
  ASSUME TypeInv, SwitchInv, DrainInv, Next
  PROVE  LeasesApart'
<1>1. lease # NoLease => lease.project # NoProject
  BY DEF SwitchInv, NoLeaseIsNone
<1>2. CASE \E p \in Projects : BeginQuiesce(p)
  BY <1>2 DEF BeginQuiesce, LeasesApart
<1>3. CASE \E p \in Projects : BeginDiscard(p)
  BY <1>3 DEF BeginDiscard, LeasesApart
<1>4. CASE lease' = NoLease
  BY <1>4 DEF LeasesApart
<1>5. CASE lease' = lease \/ QuiesceDrained
  <2>1. lease # NoLease => lease'.project = lease.project
    BY <1>5 DEF QuiesceDrained, TypeInv, TypeParts, CallTypes, Leases
  <2>2. lease = NoLease => lease' = NoLease
    BY <1>5 DEF QuiesceDrained
  <2>3. CASE closing'.project = closing.project
    BY <2>1, <2>2, <2>3 DEF DrainInv, LeasesApart
  <2>4. CASE closing' = NoClose
    BY <1>1, <2>1, <2>2, <2>4 DEF LeasesApart, NoClose
  <2>5. QED
    BY <1>3, <2>3, <2>4, ClosingEffect DEF CloseGoesOn
<1>6. QED
  BY <1>2, <1>4, <1>5, LeaseEffect

LEMMA DrainsKept ==
  ASSUME UNCHANGED vars
  PROVE  (SwitchInv => SwitchInv') /\ (DrainInv => DrainInv')
BY DEF vars, SwitchInv, TargetIsOther, Target, ClosesOnce, NoCloseIsNone, NoLeaseIsNone,
   DrainInv, ClosingDrains, LeaseDrains, LeasesApart, Quiet, Settled

LEMMA DrainInvariant == Spec => [](SwitchInv /\ DrainInv)
<1>1. Init => SwitchInv /\ DrainInv
  BY InitSwitches, InitDrain
<1>2. TypeInv /\ SwitchInv /\ DrainInv /\ [Next]_vars => (SwitchInv /\ DrainInv)'
  BY NextSwitches, NextClosingDrains, NextLeaseDrains, NextLeasesApart, DrainsKept DEF DrainInv
<1>3. QED
  BY <1>1, <1>2, TypeInvariant, PTL DEF Spec

(* While a captured proxy holds the save lease of its project, no save of  *)
(* the project runs or waits: the drain waited for the last one enqueued,  *)
(* and the shut gate lets no timer and no flush put another into the queue.*)
THEOREM LeaseQuiets == Spec => []LeasedProjectIsQuiet
<1>1. TypeInv /\ DrainInv => LeasedProjectIsQuiet
  <2> SUFFICES ASSUME TypeInv, DrainInv, lease.held, NEW i \in 1..Len(queue),
                      queue[i].project = lease.project
               PROVE  FALSE
    BY DEF LeasedProjectIsQuiet
  <2>1. lease # NoLease
    BY DEF NoLease
  <2>2. enqueued - Len(queue) + i <= lease.until /\ enqueued - Len(queue) >= lease.until
    BY <2>1 DEF DrainInv, LeaseDrains, Quiet, Settled
  <2>3. enqueued \in Nat /\ Len(queue) \in Nat /\ lease.until \in Nat /\ i \in Nat /\ i >= 1
    BY DEF TypeInv, TypeParts, QueueTypes, CallTypes, Leases
  <2>4. QED
    BY <2>2, <2>3
<1>2. QED
  BY <1>1, TypeInvariant, DrainInvariant, PTL

-----------------------------------------------------------------------------
(* Closed tabs.  Whatever is captured is of a project with a session tab,  *)
(* or of one that lost its tab while the editor showed it.                 *)
Known == open \cup orphaned
ClosedInv ==
  /\ active \in Known
  /\ \A c \in timer : c.project \in Known
  /\ \A i \in 1..Len(queue) : queue[i].project \in Known

LEMMA InitClosed == Init => ClosedInv
BY DEF Init, ClosedInv, Known

\* Once its drain has settled nothing is left of a closing project.
LEMMA DrainedIsQuiet ==
  ASSUME TypeInv, DrainInv, closing # NoClose, Settled >= closing.until
  PROVE  /\ \A c \in timer : c.project # closing.project
         /\ \A i \in 1..Len(queue) : queue[i].project # closing.project
<1>1. closing.until \in Nat /\ enqueued \in Nat /\ Len(queue) \in Nat
  BY DEF TypeInv, TypeParts, QueueTypes, CallTypes, Closings
<1>2. Quiet(closing.project, closing.until)
  BY DEF DrainInv, ClosingDrains
<1>3. \A i \in 1..Len(queue) : enqueued - Len(queue) + i > closing.until
  BY <1>1 DEF Settled
<1>4. QED
  BY <1>1, <1>2, <1>3 DEF Quiet

SessionEnds ==
  /\ closing # NoClose /\ Settled >= closing.until /\ UNCHANGED <<queue, timer, active, stored>>
  /\ Known \ {closing.project} \subseteq open' \cup orphaned'
  /\ active = closing.project => active \in Known'

LEMMA SessionEndsWhen ==
  ASSUME closing # NoClose, Settled >= closing.until, CloseSession(closing.project),
         UNCHANGED <<queue, timer, active, stored>>, ClosedInv
  PROVE  SessionEnds
BY DEF SessionEnds, CloseSession, Known, ClosedInv

LEMMA KnownEffect ==
  ASSUME TypeInv, SwitchInv, DrainInv, ClosedInv, Next
  PROVE  SessionEnds \/ (Known \subseteq open' \cup orphaned' /\ (active' = active \/ active' \in open'))
<1>1. CASE Edit \/ FireTimer \/ SaveNow \/ (\E w \in Flushers : ResumeFlush(w)) \/ LockStep \/ LeaseStep
  BY <1>1 DEF Edit, FireTimer, SaveNow, ResumeFlush, LockStep, StealLock, NoticeLoss, RecoverLock, WaitForLock,
     LeaseStep, BeginQuiesce, QuiesceDrained, ReleaseLease, Known
<1>2. CASE SaveStep
  BY <1>2, SaveStepEffect DEF TypeInv, SaveFrame, Known
<1>3. CASE SwitchStep /\ ~EnterProject
  BY <1>3 DEF SwitchStep, RequestSwitch, BeginSwitch, FlushLeft, FlushReturned, ReleaseLock,
     ClaimLock, Known
<1>4. CASE EnterProject
  BY <1>4 DEF EnterProject, Known
<1>5. CASE (\E p \in Projects : BeginDiscard(p)) \/ ActivateSuccessor
  BY <1>5 DEF BeginDiscard, ActivateSuccessor, Known
<1>6. CASE DiscardDrained
  <2>1. closing # NoClose /\ Settled >= closing.until /\ UNCHANGED <<queue, timer, active, stored>>
    BY <1>6 DEF DiscardDrained, Drained, NoClose
  <2>2. CASE CloseSession(closing.project)
    BY <2>1, <2>2, SessionEndsWhen
  <2>3. CASE UNCHANGED <<open, orphaned>>
    BY <2>1, <2>3 DEF Known
  <2>4. QED
    BY <1>6, <2>2, <2>3 DEF DiscardDrained
<1>7. CASE CloseTab
  <2>1. closing # NoClose /\ UNCHANGED <<queue, timer, active, stored>> /\ CloseSession(closing.project)
    BY <1>7 DEF CloseTab, NoClose
  <2>2. Settled >= closing.until
    BY <1>7 DEF CloseTab, DrainInv, ClosingDrains
  <2>3. QED
    BY <2>1, <2>2, SessionEndsWhen
<1>8. QED
  BY <1>1, <1>2, <1>3, <1>4, <1>5, <1>6, <1>7 DEF Next, CloseStep

LEMMA NextClosed ==
  ASSUME TypeInv, SwitchInv, DrainInv, ClosedInv, Next
  PROVE  ClosedInv'
<1>1. CASE SessionEnds
  <2>1. /\ \A c \in timer : c.project # closing.project
        /\ \A i \in 1..Len(queue) : queue[i].project # closing.project
    BY <1>1, DrainedIsQuiet DEF SessionEnds
  <2>2. QED
    BY <1>1, <2>1 DEF SessionEnds, ClosedInv, Known
<1>2. CASE Known \subseteq open' \cup orphaned' /\ (active' = active \/ active' \in open')
  <2>1. active' \in Known' /\ active \in Known' /\ Known \subseteq Known'
    BY <1>2 DEF ClosedInv, Known
  <2>2. CASE TimerShrinks
    BY <2>1, <2>2 DEF TimerShrinks, ClosedInv
  <2>3. CASE TimerCaptures
    <3>1. CaptureOf(active, doc'[active]).project = active
      BY DEF CaptureOf
    <3>2. QED
      BY <2>1, <2>3, <3>1 DEF TimerCaptures, ClosedInv
  <2>4. ASSUME NEW save, save.project \in Known, Joined(save), timer' = {}
        PROVE  ClosedInv'
    <3>1. Len(queue) \in Nat
      BY DEF TypeInv, TypeParts, QueueTypes
    <3>2. \A i \in 1..Len(queue') : i \in 1..Len(queue) \/ i = Len(queue) + 1
      BY <2>4, <3>1 DEF Joined
    <3>3. \A i \in 1..Len(queue') : queue'[i].project \in Known
      BY <2>4, <3>2 DEF Joined, ClosedInv
    <3>4. QED
      BY <2>1, <2>4, <3>3 DEF ClosedInv
  <2>5. CASE TimerJoins
    <3>1. PICK c \in timer : timer' = {} /\ Joined(SaveOf(c, TRUE))
      BY <2>5 DEF TimerJoins
    <3>2. SaveOf(c, TRUE).project \in Known
      BY DEF SaveOf, ClosedInv
    <3>3. QED
      BY <2>4, <3>1, <3>2
  <2>6. CASE FlushJoins
    <3>1. timer' = {} /\ Joined(FlushedSave)
      BY <2>6 DEF FlushJoins
    <3>2. FlushedSave.project \in Known
      BY DEF FlushedSave, CaptureOf, SaveOf, ClosedInv
    <3>3. QED
      BY <2>4, <3>1, <3>2
  <2>7. CASE HeadGoesOn
    <3>1. timer' = timer
      BY <2>7 DEF HeadGoesOn, SaveFrame
    <3>2. Len(queue) \in Nat
      BY DEF TypeInv, TypeParts, QueueTypes
    <3>3. CASE HeadEnds
      <4>1. \A i \in 1..Len(queue') : i + 1 \in 1..Len(queue) /\ queue'[i] = queue[i + 1]
        BY <3>2, <3>3 DEF HeadEnds, HeadGone
      <4>2. QED
        BY <2>1, <3>1, <4>1 DEF ClosedInv
    <3>4. CASE Passes
      <4>1. /\ Len(queue') = Len(queue) /\ queue'[1].project = queue[1].project
            /\ \A i \in 2..Len(queue) : queue'[i] = queue[i]
        BY <3>4 DEF Passes, HeadPasses
      <4>2. \A i \in 1..Len(queue) : queue'[i].project = queue[i].project
        BY <3>2, <4>1
      <4>3. QED
        BY <2>1, <3>1, <4>1, <4>2 DEF ClosedInv
    <3>5. QED
      BY <2>7, <3>3, <3>4 DEF HeadGoesOn
  <2>8. QED
    BY <2>2, <2>3, <2>5, <2>6, <2>7, PipeEffect
<1>3. QED
  BY <1>1, <1>2, KnownEffect

LEMMA ClosedInvariant == Spec => []ClosedInv
<1>1. Init => ClosedInv
  BY InitClosed
<1>2. TypeInv /\ SwitchInv /\ DrainInv /\ ClosedInv /\ [Next]_vars => ClosedInv'
  <2>1. CASE UNCHANGED vars
    BY <2>1 DEF vars, ClosedInv, Known
  <2>2. QED
    BY <2>1, NextClosed
<1>3. QED
  BY <1>1, <1>2, TypeInvariant, DrainInvariant, PTL DEF Spec

\* Only a transaction that commits changes what is stored, for its project.
LEMMA StoredEffect ==
  ASSUME TypeInv, Next, stored' # stored
  PROVE  HeadGoesOn /\ Passes /\ queue[1].step = "publish"
         /\ durable[queue[1].project] = queue[1].token
         /\ stored' = [stored EXCEPT ![queue[1].project] = queue[1].doc]
<1>1. CASE SaveStep
  <2>1. HeadGoesOn
    BY <1>1, SaveStepEffect DEF TypeInv, HeadGoesOn
  <2>2. ~HeadEnds
    BY DEF HeadEnds
  <2>3. Passes
    BY <2>1, <2>2 DEF HeadGoesOn
  <2>4. QED
    BY <2>1, <2>3 DEF Passes
<1>2. CASE Edit \/ FireTimer \/ SaveNow \/ (\E w \in Flushers : ResumeFlush(w)) \/ LockStep \/ LeaseStep
  BY <1>2 DEF Edit, FireTimer, SaveNow, ResumeFlush, LockStep, StealLock, NoticeLoss, RecoverLock, WaitForLock,
     LeaseStep, BeginQuiesce, QuiesceDrained, ReleaseLease
<1>3. CASE SwitchStep
  BY <1>3 DEF SwitchStep, RequestSwitch, BeginSwitch, FlushLeft, FlushReturned, ReleaseLock,
     ClaimLock, EnterProject
<1>4. CASE CloseStep
  BY <1>4 DEF CloseStep, BeginDiscard, DiscardDrained, ActivateSuccessor, CloseTab
<1>5. QED
  BY <1>1, <1>2, <1>3, <1>4 DEF Next

(* A closed tab writes nothing, unless the editor still shows its project: *)
(* the close waited for the last save of the project before it dropped the *)
(* session tab, and nothing captures a project without one.                *)
THEOREM ClosedTabsAreSilent == Spec => ClosedTabsWriteNothing
<1> DEFINE A == \A p \in Projects \ orphaned : p \notin open => stored'[p] = stored[p]
<1>1. ClosedInv /\ TypeInv /\ [Next]_vars => [A]_vars
  <2> SUFFICES ASSUME ClosedInv, TypeInv, Next PROVE A
    OBVIOUS
  <2>1. CASE stored' = stored
    BY <2>1
  <2>2. CASE stored' # stored
    <3>1. queue # <<>> /\ stored' = [stored EXCEPT ![queue[1].project] = queue[1].doc]
      BY <2>2, StoredEffect DEF HeadGoesOn
    <3>2. Len(queue) >= 1 /\ stored \in [Projects -> Nat]
      BY <3>1 DEF TypeInv, TypeParts, QueueTypes, TabTypes
    <3>3. queue[1].project \in Known
      BY <3>2 DEF ClosedInv
    <3>4. QED
      BY <3>1, <3>2, <3>3 DEF Known
  <2>3. QED
    BY <2>1, <2>2
<1>2. QED
  BY <1>1, TypeInvariant, ClosedInvariant, PTL DEF Spec, ClosedTabsWriteNothing

-----------------------------------------------------------------------------
(* Discarding.  One save runs at a time, the head of the queue; a close    *)
(* retires the saves of its project by a newer epoch, so that only a save  *)
(* whose transaction has begun, with a document no newer than the ceiling, *)
(* can still commit.                                                       *)
OneRuns == \A i \in 2..Len(queue) : queue[i].step = "queued"
EpochsPass ==
  /\ \A c \in timer : c.epoch <= epoch[c.project]
  /\ \A i \in 1..Len(queue) : queue[i].epoch <= epoch[queue[i].project]
CloseRetires ==
  closing # NoClose =>
    /\ stored[closing.project] <= ceiling
    /\ \A i \in 1..Len(queue) : queue[i].project = closing.project =>
         /\ queue[i].epoch < epoch[queue[i].project]
         /\ queue[i].step = "publish" => queue[i].doc <= ceiling
EpochInv == OneRuns /\ EpochsPass /\ CloseRetires

LEMMA InitEpochs == Init => EpochInv
BY DEF Init, EpochInv, OneRuns, EpochsPass, CloseRetires

LEMMA QueuedAreSaves ==
  ASSUME TypeInv, NEW i \in 1..Len(queue)
  PROVE  /\ queue[i] \in Save /\ queue[i].project \in Projects
         /\ queue[i].gen \in Nat /\ queue[i].epoch \in Nat /\ queue[i].token \in Nat
         /\ queue[i].doc \in Nat /\ queue[i].auto \in BOOLEAN /\ queue[i].step \in Steps
<1>1. queue[i] \in Save
  BY DEF TypeInv, TypeParts, QueueTypes
<1>2. QED
  BY <1>1 DEF Save, Steps

LEMMA HeldAreCaptures ==
  ASSUME TypeInv, NEW c \in timer
  PROVE  /\ c \in Capture /\ c.project \in Projects /\ c.gen \in Nat /\ c.epoch \in Nat
         /\ c.token \in Nat /\ c.doc \in Nat
BY DEF TypeInv, TypeParts, PipeTypes, Capture

\* An element of the new queue is one of the old queue, or it has just joined.
LEMMA JoinedIndex ==
  ASSUME TypeInv, NEW save, Joined(save), NEW i \in 1..Len(queue')
  PROVE  \/ i \in 1..Len(queue) /\ queue'[i] = queue[i]
         \/ i = Len(queue) + 1 /\ queue'[i] = save
<1>1. Len(queue) \in Nat
  BY DEF TypeInv, TypeParts, QueueTypes
<1>2. QED
  BY <1>1 DEF Joined

LEMMA GoneIndex ==
  ASSUME TypeInv, HeadGone, NEW i \in 1..Len(queue')
  PROVE  i + 1 \in 2..Len(queue) /\ i + 1 \in 1..Len(queue) /\ queue'[i] = queue[i + 1]
<1>1. Len(queue) \in Nat
  BY DEF TypeInv, TypeParts, QueueTypes
<1>2. QED
  BY <1>1 DEF HeadGone

LEMMA PassedIndex ==
  ASSUME TypeInv, NEW step, NEW d, HeadPasses(step, d), NEW i \in 1..Len(queue')
  PROVE  /\ i \in 1..Len(queue)
         /\ queue'[i].project = queue[i].project /\ queue'[i].gen = queue[i].gen
         /\ queue'[i].epoch = queue[i].epoch /\ queue'[i].token = queue[i].token
         /\ queue'[i].auto = queue[i].auto
         /\ \/ i = 1 /\ queue'[i].step = step /\ queue'[i].doc = d
            \/ i \in 2..Len(queue) /\ queue'[i] = queue[i]
<1>1. Len(queue) \in Nat
  BY DEF TypeInv, TypeParts, QueueTypes
<1>2. CASE i = 1
  BY <1>1, <1>2 DEF HeadPasses
<1>3. CASE i # 1
  BY <1>1, <1>3 DEF HeadPasses
<1>4. QED
  BY <1>2, <1>3

LEMMA PassesSomewhere ==
  ASSUME Passes
  PROVE  \E step \in Steps, d \in {queue[1].doc, doc[queue[1].project]} : HeadPasses(step, d)
BY DEF Passes, Steps

LEMMA NextOneRuns ==
  ASSUME TypeInv, OneRuns, Next
  PROVE  OneRuns'
<1>1. Len(queue) \in Nat
  BY DEF TypeInv, TypeParts, QueueTypes
<1>2. CASE TimerShrinks \/ TimerCaptures
  BY <1>2 DEF TimerShrinks, TimerCaptures, OneRuns
<1>3. ASSUME NEW save, save.step = "queued", Joined(save)
      PROVE  OneRuns'
  BY <1>1, <1>3, JoinedIndex DEF OneRuns
<1>4. CASE TimerJoins
  <2>1. PICK c \in timer : Joined(SaveOf(c, TRUE))
    BY <1>4 DEF TimerJoins
  <2>2. SaveOf(c, TRUE).step = "queued"
    BY DEF SaveOf
  <2>3. QED
    BY <1>3, <2>1, <2>2
<1>5. CASE FlushJoins
  <2>1. Joined(FlushedSave) /\ FlushedSave.step = "queued"
    BY <1>5 DEF FlushJoins, FlushedSave, SaveOf
  <2>2. QED
    BY <1>3, <2>1
<1>6. CASE HeadGoesOn /\ HeadEnds
  BY <1>1, <1>6, GoneIndex DEF HeadEnds, OneRuns
<1>7. CASE HeadGoesOn /\ Passes
  <2>1. PICK step \in Steps, d \in {queue[1].doc, doc[queue[1].project]} : HeadPasses(step, d)
    BY <1>7, PassesSomewhere
  <2>2. QED
    BY <1>1, <2>1 DEF HeadPasses, OneRuns
<1>8. QED
  BY <1>2, <1>4, <1>5, <1>6, <1>7, PipeEffect DEF HeadGoesOn

LEMMA EpochEffect ==
  ASSUME TypeInv, Next
  PROVE  \/ epoch' = epoch /\ ceiling' = ceiling
         \/ \E p \in Projects : BeginDiscard(p)
<1>1. CASE Edit \/ FireTimer \/ SaveNow \/ (\E w \in Flushers : ResumeFlush(w)) \/ LockStep \/ LeaseStep
  BY <1>1 DEF Edit, FireTimer, SaveNow, ResumeFlush, LockStep, StealLock, NoticeLoss, RecoverLock, WaitForLock,
     LeaseStep, BeginQuiesce, QuiesceDrained, ReleaseLease
<1>2. CASE SaveStep
  BY <1>2, SaveStepEffect DEF TypeInv, SaveFrame
<1>3. CASE SwitchStep
  BY <1>3 DEF SwitchStep, RequestSwitch, BeginSwitch, FlushLeft, FlushReturned, ReleaseLock,
     ClaimLock, EnterProject
<1>4. CASE CloseStep
  BY <1>4 DEF CloseStep, DiscardDrained, ActivateSuccessor, CloseTab
<1>5. QED
  BY <1>1, <1>2, <1>3, <1>4 DEF Next

LEMMA DiscardEpochs ==
  ASSUME TypeInv, EpochInv, NEW p \in Projects, BeginDiscard(p)
  PROVE  EpochsPass' /\ CloseRetires'
<1>1. /\ epoch \in [Projects -> Nat] /\ epoch' = [epoch EXCEPT ![p] = @ + 1]
      /\ timer' \subseteq timer /\ queue' = queue /\ stored' = stored
      /\ closing'.project = p
  BY DEF BeginDiscard, TimerWithout, TypeInv, TypeParts, PipeTypes
<1>2. \A q \in Projects : epoch[q] \in Nat /\ epoch[q] <= epoch'[q] /\ epoch'[q] \in Nat
  BY <1>1
<1>3. epoch'[p] = epoch[p] + 1
  BY <1>1
<1>4. \A c \in timer : c.project \in Projects /\ c.epoch \in Nat
  BY DEF TypeInv, TypeParts, PipeTypes, Capture
<1>5. \A i \in 1..Len(queue) : queue[i].project \in Projects /\ queue[i].epoch \in Nat
  BY QueuedAreSaves
<1>6. EpochsPass'
  <2>1. \A c \in timer' : c.epoch <= epoch'[c.project]
    BY <1>1, <1>2, <1>4 DEF EpochInv, EpochsPass
  <2>2. \A i \in 1..Len(queue') : queue'[i].epoch <= epoch'[queue'[i].project]
    BY <1>1, <1>2, <1>5 DEF EpochInv, EpochsPass
  <2>3. QED
    BY <2>1, <2>2 DEF EpochsPass
<1>7. /\ stored[p] <= ceiling' /\ \A e \in RunningDocOf(p) : e <= ceiling'
  BY CeilingIsNewest DEF TypeInv
<1>8. ASSUME NEW i \in 1..Len(queue), queue[i].project = p
      PROVE  queue[i].epoch < epoch'[p] /\ (queue[i].step = "publish" => queue[i].doc <= ceiling')
  <2>1. queue[i].epoch < epoch'[p]
    BY <1>2, <1>3, <1>5, <1>8 DEF EpochInv, EpochsPass
  <2>2. ASSUME queue[i].step = "publish"
        PROVE  queue[i].doc <= ceiling'
    <3>1. i = 1 /\ queue # <<>>
      <4>1. Len(queue) \in Nat
        BY DEF TypeInv, TypeParts, QueueTypes
      <4>2. QED
        BY <2>2, <4>1 DEF EpochInv, OneRuns
    <3>2. queue[1].doc \in RunningDocOf(p)
      BY <1>8, <2>2, <3>1 DEF RunningDocOf, SaveAt, Head1
    <3>3. QED
      BY <1>7, <3>1, <3>2
  <2>3. QED
    BY <2>1, <2>2
<1>9. CloseRetires'
  BY <1>1, <1>7, <1>8 DEF CloseRetires
<1>10. QED
  BY <1>6, <1>9

LEMMA NextEpochsPass ==
  ASSUME TypeInv, EpochInv, Next, epoch' = epoch
  PROVE  EpochsPass'
<1>1. CASE TimerShrinks
  BY <1>1 DEF TimerShrinks, EpochInv, EpochsPass
<1>2. \A d : CaptureOf(active, d).project = active /\ CaptureOf(active, d).epoch = epoch[active]
  BY DEF CaptureOf
<1>3. epoch[active] \in Nat
  BY DEF TypeInv, TypeParts, TabTypes, PipeTypes
<1>4. CASE TimerCaptures
  BY <1>2, <1>3, <1>4 DEF TimerCaptures, EpochInv, EpochsPass
<1>5. ASSUME NEW save, save.epoch <= epoch[save.project], Joined(save), timer' = {}
      PROVE  EpochsPass'
  BY <1>5, JoinedIndex DEF EpochInv, EpochsPass
<1>6. CASE TimerJoins
  <2>1. PICK c \in timer : Joined(SaveOf(c, TRUE)) /\ timer' = {}
    BY <1>6 DEF TimerJoins
  <2>2. SaveOf(c, TRUE).epoch = c.epoch /\ SaveOf(c, TRUE).project = c.project
    BY DEF SaveOf
  <2>3. SaveOf(c, TRUE).epoch <= epoch[SaveOf(c, TRUE).project]
    BY <2>2 DEF EpochInv, EpochsPass
  <2>4. QED
    BY <1>5, <2>1, <2>3
<1>7. CASE FlushJoins
  <2>1. Joined(FlushedSave) /\ timer' = {}
    BY <1>7 DEF FlushJoins
  <2>2. FlushedSave.epoch = epoch[active] /\ FlushedSave.project = active
    BY DEF FlushedSave, SaveOf, CaptureOf
  <2>3. QED
    BY <1>3, <1>5, <2>1, <2>2
<1>8. CASE HeadGoesOn
  <2>1. timer' = timer
    BY <1>8 DEF HeadGoesOn, SaveFrame
  <2>2. CASE HeadEnds
    BY <2>1, <2>2, GoneIndex DEF HeadEnds, EpochInv, EpochsPass
  <2>3. CASE Passes
    <3>1. PICK step \in Steps, d \in {queue[1].doc, doc[queue[1].project]} : HeadPasses(step, d)
      BY <2>3, PassesSomewhere
    <3>2. QED
      BY <2>1, <3>1, PassedIndex DEF EpochInv, EpochsPass
  <2>4. QED
    BY <1>8, <2>2, <2>3 DEF HeadGoesOn
<1>9. QED
  BY <1>1, <1>4, <1>6, <1>7, <1>8, PipeEffect

\* The saves of a closing project stay retired until the close ends.
LEMMA NextCloseRetires ==
  ASSUME TypeInv, SwitchInv, DrainInv, EpochInv, Next, epoch' = epoch, ceiling' = ceiling,
         closing # NoClose, closing'.project = closing.project
  PROVE  CloseRetires'
<1> DEFINE p == closing.project
<1>1. Quiet(p, closing.until) /\ Suspended(p)
  BY DEF DrainInv, ClosingDrains, Suspended
<1>2. /\ stored[p] <= ceiling
      /\ \A i \in 1..Len(queue) : queue[i].project = p =>
           /\ queue[i].epoch < epoch[queue[i].project]
           /\ queue[i].step = "publish" => queue[i].doc <= ceiling
  BY DEF EpochInv, CloseRetires
<1>3. stored'[p] <= ceiling
  <2>1. CASE stored' = stored
    BY <1>2, <2>1
  <2>2. CASE stored' # stored
    <3>1. /\ queue # <<>> /\ queue[1].step = "publish"
          /\ stored' = [stored EXCEPT ![queue[1].project] = queue[1].doc]
      BY <2>2, StoredEffect DEF HeadGoesOn
    <3>2. Len(queue) >= 1 /\ stored \in [Projects -> Nat]
      BY <3>1 DEF TypeInv, TypeParts, QueueTypes, TabTypes
    <3>3. queue[1].project = p => queue[1].doc <= ceiling
      BY <1>2, <3>1, <3>2
    <3>4. QED
      BY <1>2, <3>1, <3>2, <3>3
  <2>3. QED
    BY <2>1, <2>2
<1>4. \A i \in 1..Len(queue') : queue'[i].project = p =>
        /\ queue'[i].epoch < epoch[queue'[i].project]
        /\ queue'[i].step = "publish" => queue'[i].doc <= ceiling
  <2>1. CASE TimerShrinks \/ TimerCaptures
    BY <1>2, <2>1 DEF TimerShrinks, TimerCaptures
  <2>2. CASE TimerJoins
    <3>1. PICK c \in timer : Joined(SaveOf(c, TRUE))
      BY <2>2 DEF TimerJoins
    <3>2. SaveOf(c, TRUE).project # p
      BY <1>1 DEF SaveOf, Quiet
    <3>3. QED
      BY <1>2, <3>1, <3>2, JoinedIndex
  <2>3. CASE FlushJoins
    <3>1. Joined(FlushedSave) /\ active # p
      BY <1>1, <2>3 DEF FlushJoins
    <3>2. FlushedSave.project # p
      BY <3>1 DEF FlushedSave, SaveOf, CaptureOf
    <3>3. QED
      BY <1>2, <3>1, <3>2, JoinedIndex
  <2>4. CASE HeadGoesOn /\ HeadEnds
    BY <1>2, <2>4, GoneIndex DEF HeadEnds
  <2>5. CASE HeadGoesOn /\ Passes
    <3>1. Len(queue) >= 1
      BY <2>5 DEF HeadGoesOn, TypeInv, TypeParts, QueueTypes
    <3>2. queue[1].project = p => ~MayProceed(queue[1])
      <4>1. queue[1].project = p => queue[1].epoch < epoch[queue[1].project]
        BY <1>2, <3>1
      <4>2. queue[1].project \in Projects /\ queue[1].epoch \in Nat /\ epoch[queue[1].project] \in Nat
        BY <2>5 DEF HeadGoesOn, Save, TypeInv, TypeParts, PipeTypes
      <4>3. QED
        BY <4>1, <4>2 DEF MayProceed
    <3>3. CASE queue[1].step = "publish" /\ HeadPasses("committed", queue[1].doc)
      BY <1>2, <3>3, PassedIndex
    <3>4. CASE MayProceed(queue[1])
      <4>1. queue[1].project # p
        BY <3>2, <3>4
      <4>2. PICK step \in Steps, d \in {queue[1].doc, doc[queue[1].project]} : HeadPasses(step, d)
        BY <2>5, PassesSomewhere
      <4>3. QED
        BY <1>2, <4>1, <4>2, PassedIndex
    <3>5. QED
      BY <2>5, <3>3, <3>4 DEF Passes
  <2>6. QED
    BY <2>1, <2>2, <2>3, <2>4, <2>5, PipeEffect DEF HeadGoesOn
<1>5. QED
  BY <1>3, <1>4 DEF CloseRetires

LEMMA NextEpochs ==
  ASSUME TypeInv, SwitchInv, DrainInv, EpochInv, Next
  PROVE  EpochInv'
<1>1. OneRuns'
  BY NextOneRuns DEF EpochInv
<1>2. CASE \E p \in Projects : BeginDiscard(p)
  BY <1>1, <1>2, DiscardEpochs DEF EpochInv
<1>3. CASE epoch' = epoch /\ ceiling' = ceiling
  <2>1. EpochsPass'
    BY <1>3, NextEpochsPass
  <2>2. CloseRetires'
    <3>1. CASE closing' = NoClose
      BY <3>1 DEF CloseRetires, NoClose
    <3>2. CASE closing' = closing \/ CloseGoesOn
      <4>1. CASE closing = NoClose
        BY <3>2, <4>1 DEF CloseRetires, CloseGoesOn, NoClose
      <4>2. CASE closing # NoClose
        <5>1. closing'.project = closing.project
          BY <3>2 DEF CloseGoesOn
        <5>2. QED
          BY <1>3, <4>2, <5>1, NextCloseRetires
      <4>3. QED
        BY <4>1, <4>2
    <3>3. CASE \E p \in Projects : BeginDiscard(p)
      BY <3>3, DiscardEpochs
    <3>4. QED
      BY <3>1, <3>2, <3>3, ClosingEffect
  <2>3. QED
    BY <1>1, <2>1, <2>2 DEF EpochInv
<1>4. QED
  BY <1>2, <1>3, EpochEffect

LEMMA EpochInvariant == Spec => []EpochInv
<1>1. Init => EpochInv
  BY InitEpochs
<1>2. TypeInv /\ SwitchInv /\ DrainInv /\ EpochInv /\ [Next]_vars => EpochInv'
  <2>1. CASE UNCHANGED vars
    BY <2>1 DEF vars, EpochInv, OneRuns, EpochsPass, CloseRetires
  <2>2. QED
    BY <2>1, NextEpochs
<1>3. QED
  BY <1>1, <1>2, TypeInvariant, DrainInvariant, PTL DEF Spec

(* Closing without saving discards: once the call has retired the saves of *)
(* the project, what is stored is never newer than what was stored or was  *)
(* being written at that moment.                                           *)
THEOREM DiscardDiscards == Spec => []DiscardedStaysOut
<1>1. EpochInv => DiscardedStaysOut
  BY DEF EpochInv, CloseRetires, DiscardedStaysOut
<1>2. QED
  BY <1>1, EpochInvariant, PTL

-----------------------------------------------------------------------------
(* The lock, held or lost, is of the project shown, except while an        *)
(* activation is between two projects.                                     *)
Between == switchStep \in {"locking", "entering"}
LockInv ==
  /\ lock.token # 0 => lock.project = IF switchStep = "entering" THEN Target ELSE active
  /\ switchStep = "entering" => lock.project = Target
  /\ switchStep = "locking" => lock.project = NoProject /\ lock.token = 0
  /\ ~Between => lock.project = active

LEMMA InitLock == Init => LockInv
BY DEF Init, LockInv, Between

LEMMA TargetKept ==
  ASSUME TypeInv, switches # <<>>, NEW order \in SwitchOrder,
         switches' = Append(switches, order) \/ switches' = switches
  PROVE  Target' = Target
<1>1. switches \in Seq(SwitchOrder) /\ Len(switches) >= 1
  BY DEF TypeInv, TypeParts, SwitchTypes
<1>2. QED
  BY <1>1 DEF Target

\* What the other steps do to an activation in progress.
LockElsewhere ==
  /\ lock' = lock /\ active' = active
  /\ \/ switchStep' = switchStep /\ (switchStep # "idle" => Target' = Target)
     \/ ~Between /\ ~(Between')

LEMMA LockRest ==
  ASSUME TypeInv, Next, ~NoticeLoss, ~RecoverLock, ~ReleaseLock, ~ClaimLock, ~EnterProject
  PROVE  LockElsewhere
<1>1. CASE \/ Edit \/ FireTimer \/ SaveNow \/ (\E w \in Flushers : ResumeFlush(w))
           \/ StealLock \/ WaitForLock \/ LeaseStep
  <2>1. CASE Edit \/ FireTimer \/ SaveNow \/ (\E w \in Flushers : ResumeFlush(w))
    <3>1. UNCHANGED <<lock, active, switches, switchStep>>
      BY <2>1 DEF Edit, FireTimer, SaveNow, ResumeFlush
    <3>2. QED
      BY <3>1 DEF LockElsewhere, Target
  <2>2. CASE StealLock \/ WaitForLock \/ LeaseStep
    BY <2>2 DEF StealLock, WaitForLock, LeaseStep, BeginQuiesce, QuiesceDrained, ReleaseLease, LockElsewhere, Target
  <2>3. QED
    BY <1>1, <2>1, <2>2
<1>2. CASE SaveStep
  <2>1. SaveFrame /\ (HeadEnds \/ Passes)
    BY <1>2, SaveStepEffect DEF TypeInv
  <2>2. QED
    BY <2>1 DEF SaveFrame, LockElsewhere, Target
<1>3. CASE \E p \in Projects : RequestSwitch(p)
  <2>1. PICK p \in Projects : RequestSwitch(p)
    BY <1>3
  <2>2. switches' = Append(switches, [target |-> p, skipFlush |-> FALSE, by |-> "user"])
    BY <2>1 DEF RequestSwitch, EnqueueSwitch
  <2>3. [target |-> p, skipFlush |-> FALSE, by |-> "user"] \in SwitchOrder
    BY DEF SwitchOrder
  <2>4. switchStep # "idle" => Target' = Target
    BY <2>2, <2>3, TargetKept DEF TypeInv, SwitchesPending
  <2>5. QED
    BY <2>1, <2>4 DEF RequestSwitch, LockElsewhere
<1>4. CASE BeginSwitch \/ FlushLeft \/ FlushReturned
  BY <1>4 DEF BeginSwitch, FlushLeft, FlushReturned, EndSwitch, LockElsewhere, Between
<1>5. CASE (\E p \in Projects : BeginDiscard(p)) \/ DiscardDrained \/ CloseTab
  BY <1>5 DEF BeginDiscard, DiscardDrained, CloseTab, LockElsewhere, Target
<1>6. CASE ActivateSuccessor
  <2>1. PICK q \in Projects : UNCHANGED switches \/ EnqueueSwitch(q, TRUE, "close")
    BY <1>6 DEF ActivateSuccessor
  <2>2. [target |-> q, skipFlush |-> TRUE, by |-> "close"] \in SwitchOrder
    BY DEF SwitchOrder
  <2>3. switchStep # "idle" => Target' = Target
    BY <2>1, <2>2, TargetKept DEF TypeInv, SwitchesPending, EnqueueSwitch
  <2>4. QED
    BY <1>6, <2>3 DEF ActivateSuccessor, LockElsewhere
<1>7. QED
  BY <1>1, <1>2, <1>3, <1>4, <1>5, <1>6 DEF Next, LockStep, SwitchStep, CloseStep

LEMMA NextLock ==
  ASSUME TypeInv, SwitchInv, LockInv, Next
  PROVE  LockInv'
<1>1. active \in Projects /\ active # NoProject
  BY DEF TypeInv, TypeParts, TabTypes
<1>2. lock \in [project : Projects \cup {NoProject}, token : Nat] /\ granted \in Nat
  BY DEF TypeInv, TypeParts, LockTypes
<1>3. CASE NoticeLoss
  <2>1. lock'.token = 0 /\ lock'.project = lock.project
    BY <1>2, <1>3 DEF NoticeLoss
  <2>2. UNCHANGED <<active, switches, switchStep>>
    BY <1>3 DEF NoticeLoss
  <2>3. QED
    BY <2>1, <2>2 DEF LockInv, Between, Target
<1>4. CASE RecoverLock
  <2>1. ~Between
    BY <1>1, <1>4 DEF RecoverLock, LockInv, Between, SwitchInv, TargetIsOther
  <2>2. lock'.project = active /\ lock'.token = granted + 1 /\ granted + 1 # 0
    BY <1>2, <1>4 DEF RecoverLock, TakeToken
  <2>3. QED
    BY <1>4, <2>1, <2>2 DEF RecoverLock, LockInv, Between, Target
<1>5. CASE ReleaseLock
  BY <1>5 DEF ReleaseLock, LockInv, Between
<1>6. CASE ClaimLock
  <2>1. lock'.project = Target /\ switchStep' = "entering" /\ UNCHANGED switches
    BY <1>6 DEF ClaimLock, TakeToken, Target
  <2>2. QED
    BY <2>1 DEF LockInv, Between, Target
<1>7. CASE EnterProject
  <2>1. lock' = lock /\ switchStep' = "idle" /\ active' = Target
    BY <1>7 DEF EnterProject, EndSwitch, Target
  <2>2. lock.project = Target
    BY <1>7 DEF EnterProject, LockInv
  <2>3. QED
    BY <2>1, <2>2 DEF LockInv, Between
<1>8. CASE LockElsewhere
  BY <1>8 DEF LockElsewhere, LockInv, Between
<1>9. QED
  BY <1>3, <1>4, <1>5, <1>6, <1>7, <1>8, LockRest

-----------------------------------------------------------------------------
(* Where captures come from: a new one is of the project shown, under the  *)
(* token the tab holds for it; the others keep what they were made with.   *)
SameCapture(r, s) ==
  /\ r.project = s.project /\ r.gen = s.gen /\ r.epoch = s.epoch /\ r.token = s.token
FreshCapture(r) ==
  /\ r.project = active /\ r.token = WriteFence(active) /\ r.epoch = epoch[active]
  /\ r.gen \in {generation, generation + 1} /\ ~readOnly
Comes(r) ==
  \/ \E c \in timer : SameCapture(r, c)
  \/ \E i \in 1..Len(queue) : SameCapture(r, queue[i])
  \/ FreshCapture(r)

LEMMA CapturesCome ==
  ASSUME TypeInv, Next
  PROVE  /\ \A c \in timer' : Comes(c)
         /\ \A i \in 1..Len(queue') : Comes(queue'[i])
<1>1. CASE TimerShrinks
  BY <1>1 DEF TimerShrinks, Comes, SameCapture
<1>2. CASE TimerCaptures
  <2>1. FreshCapture(CaptureOf(active, doc'[active]))
    BY <1>2 DEF TimerCaptures, FreshCapture, CaptureOf
  <2>2. QED
    BY <1>2, <2>1 DEF TimerCaptures, Comes, SameCapture
<1>3. ASSUME NEW save, Comes(save), Joined(save), timer' = {}
      PROVE  \A i \in 1..Len(queue') : Comes(queue'[i])
  <2>1. \A i \in 1..Len(queue) : Comes(queue[i])
    BY DEF Comes, SameCapture
  <2>2. QED
    BY <1>3, <2>1, JoinedIndex
<1>4. CASE TimerJoins
  <2>1. PICK c \in timer : Joined(SaveOf(c, TRUE)) /\ timer' = {}
    BY <1>4 DEF TimerJoins
  <2>2. Comes(SaveOf(c, TRUE))
    BY DEF Comes, SameCapture, SaveOf
  <2>3. QED
    BY <1>3, <2>1, <2>2
<1>5. CASE FlushJoins
  <2>1. Joined(FlushedSave) /\ timer' = {} /\ ~readOnly
    BY <1>5 DEF FlushJoins, NothingToFlush
  <2>2. FreshCapture(FlushedSave)
    BY <2>1 DEF FreshCapture, FlushedSave, SaveOf, CaptureOf
  <2>3. QED
    BY <1>3, <2>1, <2>2 DEF Comes
<1>6. CASE HeadGoesOn
  <2>1. timer' = timer
    BY <1>6 DEF HeadGoesOn, SaveFrame
  <2>2. CASE HeadEnds
    BY <2>1, <2>2, GoneIndex DEF HeadEnds, Comes, SameCapture
  <2>3. CASE Passes
    <3>1. PICK step \in Steps, d \in {queue[1].doc, doc[queue[1].project]} : HeadPasses(step, d)
      BY <2>3, PassesSomewhere
    <3>2. QED
      BY <2>1, <3>1, PassedIndex DEF Comes, SameCapture
  <2>4. QED
    BY <1>6, <2>2, <2>3 DEF HeadGoesOn
<1>7. QED
  BY <1>1, <1>2, <1>4, <1>5, <1>6, PipeEffect

\* Tokens are new when they are granted.
GrantEffect ==
  \/ UNCHANGED <<durable, granted, lock>>
  \/ UNCHANGED <<durable, granted>> /\ lock'.token = 0
  \/ /\ granted' = granted + 1
     /\ \E p \in Projects \cup {NoProject} :
          /\ durable' = [durable EXCEPT ![p] = granted + 1]
          /\ lock' \in {lock, [project |-> p, token |-> granted + 1]}

LEMMA NextGrant ==
  ASSUME TypeInv, Next
  PROVE  GrantEffect
<1>1. lock \in [project : Projects \cup {NoProject}, token : Nat] /\ active \in Projects
  BY DEF TypeInv, TypeParts, LockTypes, TabTypes
<1>2. CASE StealLock
  BY <1>1, <1>2 DEF StealLock, GrantEffect
<1>3. CASE NoticeLoss \/ ReleaseLock
  BY <1>1, <1>3 DEF NoticeLoss, ReleaseLock, GrantEffect
<1>4. CASE RecoverLock
  BY <1>1, <1>4 DEF RecoverLock, TakeToken, GrantEffect
<1>5. CASE ClaimLock
  <2>1. switches[1].target \in Projects
    BY <1>5, HeadSwitch DEF ClaimLock, TypeInv, SwitchesPending, TypeParts, SwitchOrder
  <2>2. QED
    BY <1>5, <2>1 DEF ClaimLock, TakeToken, GrantEffect
<1>6. CASE \/ Edit \/ FireTimer \/ SaveNow \/ (\E w \in Flushers : ResumeFlush(w))
           \/ WaitForLock \/ LeaseStep
  BY <1>6 DEF Edit, FireTimer, SaveNow, ResumeFlush, WaitForLock, LeaseStep, BeginQuiesce,
     QuiesceDrained, ReleaseLease, GrantEffect
<1>7. CASE SaveStep
  BY <1>7, SaveStepEffect DEF TypeInv, SaveFrame, GrantEffect
<1>8. CASE SwitchStep /\ ~ReleaseLock /\ ~ClaimLock
  BY <1>8 DEF SwitchStep, RequestSwitch, BeginSwitch, FlushLeft, FlushReturned, EnterProject, GrantEffect
<1>9. CASE CloseStep
  BY <1>9 DEF CloseStep, BeginDiscard, DiscardDrained, ActivateSuccessor, CloseTab, GrantEffect
<1>10. QED
  BY <1>2, <1>3, <1>4, <1>5, <1>6, <1>7, <1>8, <1>9 DEF Next, LockStep

(* No capture of the project an activation enters has its new token.       *)
TokensGranted ==
  /\ \A c \in timer : c.token <= granted
  /\ \A i \in 1..Len(queue) : queue[i].token <= granted
  /\ \A p \in Projects : durable[p] <= granted
  /\ lock.token <= granted
OldToken(r) ==
  r.project = Target => r.token = 0 \/ (r.token # durable[Target] /\ r.token # lock.token)
EntersAnew ==
  switchStep = "entering" =>
    /\ \A c \in timer : OldToken(c)
    /\ \A i \in 1..Len(queue) : OldToken(queue[i])
TokenInv == TokensGranted /\ EntersAnew

LEMMA InitTokens == Init => TokenInv
BY DEF Init, TokenInv, TokensGranted, EntersAnew

LEMMA NextTokensGranted ==
  ASSUME TypeInv, TokensGranted, Next
  PROVE  TokensGranted'
<1>1. granted \in Nat /\ lock.token \in Nat /\ durable \in [Projects -> Nat]
  BY DEF TypeInv, TypeParts, LockTypes
<1>2. granted' \in Nat /\ granted <= granted'
  BY <1>1, NextGrant DEF GrantEffect
<1>3. WriteFence(active) \in Nat /\ WriteFence(active) <= granted
  BY <1>1 DEF WriteFence, TokensGranted
<1>4. ASSUME NEW r, Comes(r)
      PROVE  r.token <= granted'
  <2>1. r.token \in Nat /\ r.token <= granted
    <3>1. CASE \E c \in timer : SameCapture(r, c)
      BY <3>1, HeldAreCaptures DEF SameCapture, TokensGranted
    <3>2. CASE \E i \in 1..Len(queue) : SameCapture(r, queue[i])
      BY <3>2, QueuedAreSaves DEF SameCapture, TokensGranted
    <3>3. CASE FreshCapture(r)
      BY <1>3, <3>3 DEF FreshCapture
    <3>4. QED
      BY <1>4, <3>1, <3>2, <3>3 DEF Comes
  <2>2. QED
    BY <1>1, <1>2, <2>1
<1>5. (\A c \in timer' : c.token <= granted') /\ (\A i \in 1..Len(queue') : queue'[i].token <= granted')
  BY <1>4, CapturesCome
<1>6. (\A p \in Projects : durable'[p] <= granted') /\ lock'.token <= granted'
  <2>1. CASE granted' = granted
    BY <1>1, <2>1, NextGrant DEF GrantEffect, TokensGranted
  <2>2. CASE granted' # granted
    <3>1. PICK p \in Projects \cup {NoProject} :
            /\ durable' = [durable EXCEPT ![p] = granted + 1]
            /\ lock' \in {lock, [project |-> p, token |-> granted + 1]}
      BY <2>2, NextGrant DEF GrantEffect
    <3>2. granted' = granted + 1
      BY <2>2, NextGrant DEF GrantEffect
    <3>3. \A q \in Projects : durable'[q] = durable[q] \/ durable'[q] = granted + 1
      BY <1>1, <3>1
    <3>4. lock'.token = lock.token \/ lock'.token = granted + 1
      BY <3>1
    <3>5. QED
      BY <1>1, <3>2, <3>3, <3>4 DEF TokensGranted
  <2>3. QED
    BY <2>1, <2>2
<1>7. QED
  BY <1>5, <1>6 DEF TokensGranted

LEMMA NextEntersAnew ==
  ASSUME TypeInv, SwitchInv, LockInv, TokenInv, Next
  PROVE  EntersAnew'
<1>1. granted \in Nat /\ lock.token \in Nat /\ durable \in [Projects -> Nat]
  BY DEF TypeInv, TypeParts, LockTypes
<1>2. /\ \A c \in timer : c.token \in Nat /\ c.token <= granted
      /\ \A i \in 1..Len(queue) : queue[i].token \in Nat /\ queue[i].token <= granted
  BY HeldAreCaptures, QueuedAreSaves DEF TokenInv, TokensGranted
<1>3. CASE ClaimLock
  <2>1. Target \in Projects
    BY <1>3, HeadSwitch DEF ClaimLock, TypeInv, SwitchesPending, TypeParts, SwitchOrder, Target
  <2>2. /\ Target' = Target /\ durable'[Target] = granted + 1 /\ lock'.token = granted + 1
        /\ UNCHANGED <<timer, queue>>
    BY <1>1, <1>3, <2>1 DEF ClaimLock, TakeToken, Target
  <2>3. QED
    BY <1>1, <1>2, <2>2 DEF EntersAnew, OldToken
<1>4. CASE switchStep' = "entering" /\ ~ClaimLock
  <2>1. switchStep = "entering" /\ Target' = Target
    <3>1. CASE NoticeLoss \/ RecoverLock
      BY <1>4, <3>1 DEF NoticeLoss, RecoverLock, Target
    <3>2. CASE ReleaseLock \/ EnterProject
      BY <1>4, <3>2 DEF ReleaseLock, EnterProject, EndSwitch
    <3>3. CASE LockElsewhere
      BY <1>4, <3>3 DEF LockElsewhere, Between
    <3>4. QED
      BY <1>4, <3>1, <3>2, <3>3, LockRest
  <2>2. Target # active
    BY <2>1 DEF SwitchInv, TargetIsOther
  <2>3. durable'[Target] \in {durable[Target], granted + 1}
    <3>1. Target \in Projects
      BY <2>1, HeadSwitch DEF TypeInv, SwitchesPending, TypeParts, SwitchOrder, Target
    <3>2. QED
      BY <1>1, <3>1, NextGrant DEF GrantEffect
  <2>4. lock'.token \in {lock.token, 0, granted + 1}
    BY NextGrant DEF GrantEffect
  <2>5. ASSUME NEW r, Comes(r), r.project = Target, r.token # 0
        PROVE  r.token # durable'[Target] /\ r.token # lock'.token
    <3>1. /\ r.token \in Nat /\ r.token <= granted
          /\ r.token # durable[Target] /\ r.token # lock.token
      <4>1. CASE \E c \in timer : SameCapture(r, c)
        BY <1>2, <2>1, <2>5, <4>1 DEF SameCapture, TokenInv, EntersAnew, OldToken
      <4>2. CASE \E i \in 1..Len(queue) : SameCapture(r, queue[i])
        BY <1>2, <2>1, <2>5, <4>2 DEF SameCapture, TokenInv, EntersAnew, OldToken
      <4>3. CASE FreshCapture(r)
        BY <2>2, <2>5, <4>3 DEF FreshCapture
      <4>4. QED
        BY <2>5, <4>1, <4>2, <4>3 DEF Comes
    <3>2. QED
      BY <1>1, <2>3, <2>4, <2>5, <3>1
  <2>6. QED
    BY <2>1, <2>5, CapturesCome DEF EntersAnew, OldToken
<1>5. QED
  BY <1>3, <1>4 DEF EntersAnew

LEMMA LockInvariant == Spec => [](LockInv /\ TokenInv)
<1>1. Init => LockInv /\ TokenInv
  BY InitLock, InitTokens
<1>2. TypeInv /\ SwitchInv /\ LockInv /\ TokenInv /\ [Next]_vars => (LockInv /\ TokenInv)'
  <2>1. CASE UNCHANGED vars
    <3>1. LockInv => LockInv'
      BY <2>1 DEF vars, LockInv, Between, Target
    <3>2. TokenInv => TokenInv'
      BY <2>1 DEF vars, Target, TokenInv, TokensGranted, EntersAnew, OldToken
    <3>3. QED
      BY <3>1, <3>2
  <2>2. QED
    BY <2>1, NextLock, NextTokensGranted, NextEntersAnew DEF TokenInv
<1>3. QED
  BY <1>1, <1>2, TypeInvariant, DrainInvariant, PTL DEF Spec

\* Only the project shown has saves that may proceed.
LEMMA ProceedsIsActive ==
  ASSUME TypeInv, LockInv, TokenInv, NEW r,
         r \in timer \/ (\E i \in 1..Len(queue) : r = queue[i]),
         r.token # 0, WriteFence(r.project) = r.token
  PROVE  r.project = active /\ ~Between /\ lock.project = active /\ lock.token = r.token
<1>1. lock.project = r.project /\ lock.token = r.token
  BY DEF WriteFence
<1>2. switchStep # "entering"
  BY <1>1 DEF TokenInv, EntersAnew, OldToken, LockInv
<1>3. QED
  BY <1>1, <1>2 DEF LockInv, Between

-----------------------------------------------------------------------------
(* Documents.  A save is live while the token it was captured with is the  *)
(* one stored: only a live save can commit.  Live saves hold no more than  *)
(* the present document, no less than the stored one, and where the        *)
(* product does not re-read the document they are in the order of the      *)
(* queue, the timer last.                                                  *)
Live(r) == r.token # 0 /\ r.token = durable[r.project]
Rereads(r) == prepares /\ r.step \in {"queued", "prepare"}
Shown == open \cup {active}

DocsMade ==
  /\ \A p \in Projects : doc[p] <= made /\ stored[p] <= made
  /\ \A c \in timer : c.doc <= made
  /\ \A i \in 1..Len(queue) : queue[i].doc <= made
ShownAhead == \A p \in Shown : stored[p] <= doc[p]
LiveBehind ==
  /\ \A c \in timer : Live(c) /\ c.project \in Shown => c.doc <= doc[c.project]
  /\ \A i \in 1..Len(queue) :
       Live(queue[i]) /\ queue[i].project \in Shown => queue[i].doc <= doc[queue[i].project]
LiveAhead ==
  \A i \in 1..Len(queue) :
    Live(queue[i]) => Rereads(queue[i]) \/ stored[queue[i].project] <= queue[i].doc
TimerNewest ==
  ~prepares => \A c \in timer : Live(c) =>
    /\ stored[c.project] <= c.doc
    /\ \A i \in 1..Len(queue) :
         queue[i].project = c.project /\ Live(queue[i]) => queue[i].doc <= c.doc
LiveInOrder ==
  ~prepares => \A i, j \in 1..Len(queue) :
    i < j /\ queue[i].project = queue[j].project /\ Live(queue[i]) /\ Live(queue[j])
      => queue[i].doc <= queue[j].doc
RunsWithToken == \A i \in 1..Len(queue) : queue[i].step # "queued" => queue[i].token # 0
DocsInv ==
  /\ DocsMade /\ ShownAhead /\ LiveBehind /\ LiveAhead /\ TimerNewest /\ LiveInOrder
  /\ RunsWithToken

LEMMA InitDocs == Init => DocsInv
<1> SUFFICES ASSUME Init PROVE DocsInv
  OBVIOUS
<1>1. DocsMade /\ ShownAhead
  BY DEF Init, DocsMade, ShownAhead, Shown
<1>2. LiveBehind /\ LiveAhead /\ TimerNewest /\ LiveInOrder /\ RunsWithToken
  BY DEF Init, LiveBehind, LiveAhead, TimerNewest, LiveInOrder, RunsWithToken
<1>3. QED
  BY <1>1, <1>2 DEF DocsInv

\* A granted token makes no old save live.
LEMMA LiveWasLive ==
  ASSUME TypeInv, TokenInv, Next, NEW r,
         r \in timer \/ (\E i \in 1..Len(queue) : r = queue[i]),
         r.token # 0, r.token = durable'[r.project]
  PROVE  Live(r)
<1>1. r.project \in Projects /\ r.token \in Nat /\ r.token <= granted
  BY HeldAreCaptures, QueuedAreSaves DEF TokenInv, TokensGranted
<1>2. granted \in Nat /\ durable \in [Projects -> Nat]
  BY DEF TypeInv, TypeParts, LockTypes
<1>3. durable'[r.project] = durable[r.project] \/ durable'[r.project] = granted + 1
  BY <1>1, <1>2, NextGrant DEF GrantEffect
<1>4. QED
  BY <1>1, <1>2, <1>3 DEF Live

\* Steps that make no document and no save only make fewer saves live.
LEMMA ShrinkDocs ==
  ASSUME TypeInv, TokenInv, DocsInv, Next, timer' \subseteq timer, queue' = queue,
         UNCHANGED <<doc, stored, made, prepares>>, open' \cup {active'} \subseteq Shown
  PROVE  DocsInv'
<1>1. /\ \A c \in timer' : c \in timer /\ (Live(c)' => Live(c))
      /\ \A i \in 1..Len(queue) : Live(queue[i])' => Live(queue[i])
  BY LiveWasLive DEF Live
<1>2. DocsMade' /\ ShownAhead'
  BY DEF DocsInv, DocsMade, ShownAhead, Shown
<1>3. LiveBehind'
  BY <1>1 DEF DocsInv, LiveBehind, Shown
<1>4. LiveAhead'
  BY <1>1 DEF DocsInv, LiveAhead, Rereads
<1>5. TimerNewest'
  BY <1>1 DEF DocsInv, TimerNewest
<1>6. LiveInOrder' /\ RunsWithToken'
  BY <1>1 DEF DocsInv, LiveInOrder, RunsWithToken
<1>7. QED
  BY <1>2, <1>3, <1>4, <1>5, <1>6 DEF DocsInv

\* The lock the tab holds for the project shown makes its capture no older.
LEMMA EnterDocs ==
  ASSUME TypeInv, SwitchInv, TokenInv, DocsInv, EnterProject
  PROVE  DocsInv'
<1>1. Next
  BY DEF Next, SwitchStep
<1>2. /\ Target \in Projects /\ active' = Target /\ open' = open \cup {Target}
      /\ UNCHANGED <<timer, queue, stored, made, durable, prepares>>
      /\ doc' = IF Target \in open THEN doc ELSE [doc EXCEPT ![Target] = stored[Target]]
  BY HeadSwitch DEF EnterProject, Target, TypeInv, SwitchesPending, TypeParts, SwitchOrder
<1>3. CASE Target \in open
  BY <1>1, <1>2, <1>3, ShrinkDocs DEF Shown
<1>4. CASE Target \notin open
  <2>1. doc \in [Projects -> Nat] /\ stored \in [Projects -> Nat] /\ made \in Nat
    BY DEF TypeInv, TypeParts, TabTypes
  <2>2. doc'[Target] = stored[Target] /\ \A p \in Projects \ {Target} : doc'[p] = doc[p]
    BY <1>2, <1>4, <2>1
  <2>3. /\ \A c \in timer : c.project = Target => ~Live(c)
        /\ \A i \in 1..Len(queue) : queue[i].project = Target => ~Live(queue[i])
    BY DEF EnterProject, TokenInv, EntersAnew, OldToken, Live
  <2>4. /\ \A c \in timer : Live(c)' <=> Live(c)
        /\ \A i \in 1..Len(queue) : Live(queue[i])' <=> Live(queue[i])
    BY <1>2 DEF Live
  <2>5. DocsMade' /\ ShownAhead'
    <3>1. DocsMade'
      BY <1>2, <2>1, <2>2 DEF DocsInv, DocsMade
    <3>2. \A p \in open' \cup {active'} : p \in Projects /\ (p = Target \/ p \in Shown)
      BY <1>2 DEF Shown, TypeInv, TypeParts, TabTypes
    <3>3. ShownAhead'
      BY <1>2, <2>1, <2>2, <3>2 DEF DocsInv, ShownAhead, Shown
    <3>4. QED
      BY <3>1, <3>3
  <2>6. LiveBehind'
    <3>1. ASSUME NEW c \in timer, Live(c), c.project \in open \cup {Target}
          PROVE  c.doc <= doc'[c.project]
      <4>1. c.project # Target /\ c.project \in Projects
        BY <2>3, <3>1, HeldAreCaptures
      <4>2. QED
        BY <2>2, <3>1, <4>1 DEF DocsInv, LiveBehind, Shown
    <3>2. ASSUME NEW i \in 1..Len(queue), Live(queue[i]), queue[i].project \in open \cup {Target}
          PROVE  queue[i].doc <= doc'[queue[i].project]
      <4>1. queue[i].project # Target /\ queue[i].project \in Projects
        BY <2>3, <3>2, QueuedAreSaves
      <4>2. QED
        BY <2>2, <3>2, <4>1 DEF DocsInv, LiveBehind, Shown
    <3>3. QED
      BY <1>2, <2>4, <3>1, <3>2 DEF LiveBehind, Shown
  <2>7. LiveAhead' /\ RunsWithToken'
    BY <1>2, <2>4 DEF DocsInv, LiveAhead, RunsWithToken, Rereads
  <2>8. TimerNewest' /\ LiveInOrder'
    BY <1>2, <2>4 DEF DocsInv, TimerNewest, LiveInOrder
  <2>9. QED
    BY <2>5, <2>6, <2>7, <2>8 DEF DocsInv
<1>5. QED
  BY <1>3, <1>4

\* An edit or a capture of the present document.
LEMMA CaptureDocs ==
  ASSUME TypeInv, DocsInv, queue' = queue,
         timer' \subseteq timer \cup {CaptureOf(active, doc'[active])},
         UNCHANGED <<active, stored, durable, prepares, open>>,
         made' \in Nat, made <= made', doc' \in [Projects -> Nat],
         \A q \in Projects \ {active} : doc'[q] = doc[q],
         doc[active] <= doc'[active], doc'[active] <= made'
  PROVE  DocsInv'
<1> DEFINE c0 == CaptureOf(active, doc'[active])
<1>1. /\ doc \in [Projects -> Nat] /\ stored \in [Projects -> Nat] /\ made \in Nat
      /\ active \in Projects /\ Shown \subseteq Projects
  BY DEF TypeInv, TypeParts, TabTypes, Shown
<1>2. c0.project = active /\ c0.doc = doc'[active]
  BY DEF CaptureOf
<1>3. \A q \in Projects : doc[q] \in Nat /\ doc'[q] \in Nat /\ doc[q] <= doc'[q]
  BY <1>1
<1>4. /\ Shown' = Shown /\ \A i \in 1..Len(queue) : Live(queue[i])' <=> Live(queue[i])
      /\ \A c \in timer : Live(c)' <=> Live(c)
  BY DEF Shown, Live
<1>5. DocsMade'
  <2>1. \A p \in Projects : doc'[p] <= made' /\ stored[p] <= made'
    <3> SUFFICES ASSUME NEW p \in Projects PROVE doc'[p] <= made' /\ stored[p] <= made'
      OBVIOUS
    <3>1. doc[p] <= made /\ stored[p] <= made /\ doc[p] \in Nat /\ stored[p] \in Nat
      BY <1>1 DEF DocsInv, DocsMade
    <3>2. doc'[p] = doc[p] \/ p = active
      OBVIOUS
    <3>3. QED
      BY <1>1, <3>1, <3>2
  <2>2. \A c \in timer' : c.doc <= made'
    BY <1>1, <1>2, HeldAreCaptures DEF DocsInv, DocsMade
  <2>3. \A i \in 1..Len(queue) : queue[i].doc <= made'
    BY <1>1, QueuedAreSaves DEF DocsInv, DocsMade
  <2>4. QED
    BY <2>1, <2>2, <2>3 DEF DocsMade
<1>6. ShownAhead'
  BY <1>1, <1>3, <1>4 DEF DocsInv, ShownAhead
<1>7. LiveBehind'
  <2>1. \A c \in timer' : Live(c)' /\ c.project \in Shown => c.doc <= doc'[c.project]
    <3> SUFFICES ASSUME NEW c \in timer', Live(c)', c.project \in Shown
                 PROVE  c.doc <= doc'[c.project]
      OBVIOUS
    <3>1. CASE c = c0
      BY <1>1, <1>2, <1>3, <3>1
    <3>2. CASE c \in timer
      BY <1>3, <1>4, <3>2, HeldAreCaptures DEF DocsInv, LiveBehind
    <3>3. QED
      BY <3>1, <3>2
  <2>2. \A i \in 1..Len(queue) :
          Live(queue[i]) /\ queue[i].project \in Shown => queue[i].doc <= doc'[queue[i].project]
    BY <1>3, QueuedAreSaves DEF DocsInv, LiveBehind
  <2>3. QED
    BY <1>4, <2>1, <2>2 DEF LiveBehind
<1>8. LiveAhead' /\ LiveInOrder' /\ RunsWithToken'
  BY <1>4 DEF DocsInv, LiveAhead, LiveInOrder, RunsWithToken, Rereads
<1>9. TimerNewest'
  <2> SUFFICES ASSUME ~prepares, NEW c \in timer', Live(c)'
               PROVE  /\ stored[c.project] <= c.doc
                      /\ \A i \in 1..Len(queue) :
                           queue[i].project = c.project /\ Live(queue[i]) => queue[i].doc <= c.doc
    BY <1>4 DEF TimerNewest
  <2>1. CASE c \in timer
    BY <1>4, <2>1 DEF DocsInv, TimerNewest
  <2>2. CASE c = c0
    <3>1. active \in Shown
      BY DEF Shown
    <3>2. stored[active] <= doc[active] /\ stored[active] \in Nat
      BY <1>1, <3>1 DEF DocsInv, ShownAhead
    <3>3. \A i \in 1..Len(queue) :
            queue[i].project = active /\ Live(queue[i]) => queue[i].doc <= doc[active]
      BY <3>1 DEF DocsInv, LiveBehind
    <3>4. QED
      BY <1>1, <1>2, <1>3, <2>2, <3>2, <3>3, QueuedAreSaves
  <2>3. QED
    BY <2>1, <2>2
<1>10. QED
  BY <1>5, <1>6, <1>7, <1>8, <1>9 DEF DocsInv

LEMMA EditDocs ==
  ASSUME TypeInv, DocsInv, Edit
  PROVE  DocsInv'
<1>1. /\ doc \in [Projects -> Nat] /\ made \in Nat /\ active \in Projects
      /\ made' = made + 1 /\ doc' = [doc EXCEPT ![active] = made + 1]
  BY DEF Edit, TypeInv, TypeParts, TabTypes
<1>2. /\ doc'[active] = made + 1 /\ doc' \in [Projects -> Nat] /\ made' \in Nat /\ made <= made'
      /\ \A q \in Projects \ {active} : doc'[q] = doc[q]
  BY <1>1
<1>3. doc[active] <= doc'[active] /\ doc'[active] <= made'
  BY <1>1, <1>2 DEF DocsInv, DocsMade
<1>4. timer' \subseteq timer \cup {CaptureOf(active, doc'[active])}
  BY <1>2 DEF Edit, TimerWithout
<1>5. queue' = queue /\ UNCHANGED <<active, stored, durable, prepares, open>>
  BY DEF Edit
<1>6. QED
  BY <1>2, <1>3, <1>4, <1>5, CaptureDocs

LEMMA ReleaseDocs ==
  ASSUME TypeInv, DocsInv, ReleaseLease
  PROVE  DocsInv'
<1>1. doc \in [Projects -> Nat] /\ made \in Nat /\ active \in Projects
  BY DEF TypeInv, TypeParts, TabTypes
<1>2. queue' = queue /\ UNCHANGED <<active, stored, durable, prepares, open, doc, made>>
  BY DEF ReleaseLease
<1>3. timer' \subseteq timer \cup {CaptureOf(active, doc'[active])}
  BY <1>2 DEF ReleaseLease
<1>4. doc[active] <= doc'[active] /\ doc'[active] <= made' /\ made <= made'
  BY <1>1, <1>2 DEF DocsInv, DocsMade
<1>5. QED
  BY <1>1, <1>2, <1>3, <1>4, CaptureDocs

\* A save joins the queue.
LEMMA JoinDocs ==
  ASSUME TypeInv, DocsInv, timer' = {},
         NEW save \in Save, save.step = "queued", Joined(save),
         UNCHANGED <<doc, stored, made, durable, prepares, open, active>>,
         save.doc <= made,
         Live(save) /\ save.project \in Shown => save.doc <= doc[save.project],
         ~prepares /\ Live(save) =>
           /\ stored[save.project] <= save.doc
           /\ \A i \in 1..Len(queue) :
                queue[i].project = save.project /\ Live(queue[i]) => queue[i].doc <= save.doc
  PROVE  DocsInv'
<1>1. Shown' = Shown /\ Len(queue) \in Nat /\ Len(queue') = Len(queue) + 1
  BY DEF Shown, Joined, TypeInv, TypeParts, QueueTypes
<1>2. \A i \in 1..Len(queue') : (i \in 1..Len(queue) /\ queue'[i] = queue[i])
                                  \/ (i = Len(queue) + 1 /\ queue'[i] = save)
  BY JoinedIndex
<1>3. \A i \in 1..Len(queue') :
        \/ i \in 1..Len(queue) /\ queue'[i] = queue[i] /\ (Live(queue[i])' <=> Live(queue[i]))
        \/ i = Len(queue) + 1 /\ queue'[i] = save /\ (Live(queue[i])' <=> Live(save))
  BY <1>2 DEF Live
<1>4. DocsMade' /\ ShownAhead'
  BY <1>1, <1>2 DEF DocsInv, DocsMade, ShownAhead
<1>5. LiveBehind'
  <2> SUFFICES ASSUME NEW i \in 1..Len(queue'), Live(queue[i])', queue'[i].project \in Shown
               PROVE  queue'[i].doc <= doc[queue'[i].project]
    BY <1>1 DEF LiveBehind
  <2>1. QED
    BY <1>2, <1>3 DEF DocsInv, LiveBehind
<1>6. LiveAhead'
  <2> SUFFICES ASSUME NEW i \in 1..Len(queue'), Live(queue[i])'
               PROVE  Rereads(queue[i])' \/ stored[queue'[i].project] <= queue'[i].doc
    BY DEF LiveAhead
  <2>1. QED
    BY <1>2, <1>3 DEF DocsInv, LiveAhead, Rereads
<1>7. TimerNewest'
  BY DEF TimerNewest
<1>8. LiveInOrder'
  <2> SUFFICES ASSUME ~prepares, NEW i \in 1..Len(queue'), NEW j \in 1..Len(queue'), i < j,
                      queue'[i].project = queue'[j].project, Live(queue[i])', Live(queue[j])'
               PROVE  queue'[i].doc <= queue'[j].doc
    BY DEF LiveInOrder
  <2>1. i \in 1..Len(queue) /\ queue'[i] = queue[i] /\ Live(queue[i])
    BY <1>1, <1>2, <1>3
  <2>2. CASE j \in 1..Len(queue) /\ queue'[j] = queue[j]
    BY <1>3, <2>1, <2>2 DEF DocsInv, LiveInOrder
  <2>3. CASE queue'[j] = save
    BY <1>3, <2>1, <2>3
  <2>4. QED
    BY <1>2, <2>2, <2>3
<1>9. RunsWithToken'
  BY <1>2 DEF DocsInv, RunsWithToken
<1>10. QED
  BY <1>4, <1>5, <1>6, <1>7, <1>8, <1>9 DEF DocsInv

LEMMA FireDocs ==
  ASSUME TypeInv, DocsInv, FireTimer
  PROVE  DocsInv'
<1>1. PICK c \in timer :
        /\ SaveOf(c, TRUE) \in Save /\ timer' = {} /\ Joined(SaveOf(c, TRUE))
        /\ UNCHANGED <<doc, stored, made, durable, prepares, open, active>>
  BY FireEffect DEF TypeInv
<1> DEFINE save == SaveOf(c, TRUE)
<1>2. /\ save.step = "queued" /\ save.project = c.project /\ save.doc = c.doc
      /\ save.token = c.token
  BY DEF SaveOf
<1>3. Live(save) <=> Live(c)
  BY <1>2 DEF Live
<1>4. save.doc <= made
  BY <1>2 DEF DocsInv, DocsMade
<1>5. Live(save) /\ save.project \in Shown => save.doc <= doc[save.project]
  BY <1>2, <1>3 DEF DocsInv, LiveBehind
<1>6. ~prepares /\ Live(save) =>
        /\ stored[save.project] <= save.doc
        /\ \A i \in 1..Len(queue) :
             queue[i].project = save.project /\ Live(queue[i]) => queue[i].doc <= save.doc
  BY <1>2, <1>3 DEF DocsInv, TimerNewest
<1> HIDE DEF save
<1>7. QED
  BY <1>1, <1>2, <1>4, <1>5, <1>6, JoinDocs DEF save

LEMMA FlushDocs ==
  ASSUME TypeInv, DocsInv, FlushJoins
  PROVE  DocsInv'
<1>1. /\ FlushedSave \in Save /\ timer' = {} /\ Joined(FlushedSave)
      /\ UNCHANGED <<doc, stored, made, durable, prepares, open, active>>
  BY DEF FlushJoins
<1>2. FlushedSave.step = "queued" /\ FlushedSave.project = active /\ FlushedSave.doc = doc[active]
  BY DEF FlushedSave, SaveOf, CaptureOf
<1>3. active \in Projects /\ active \in Shown /\ doc[active] \in Nat
  BY DEF TypeInv, TypeParts, TabTypes, Shown
<1>4. FlushedSave.doc <= made /\ FlushedSave.doc <= doc[active] /\ stored[active] <= FlushedSave.doc
  BY <1>2, <1>3 DEF DocsInv, DocsMade, ShownAhead
<1>5. \A i \in 1..Len(queue) :
        queue[i].project = active /\ Live(queue[i]) => queue[i].doc <= FlushedSave.doc
  BY <1>2, <1>3 DEF DocsInv, LiveBehind
<1>6. QED
  BY <1>1, <1>2, <1>4, <1>5, JoinDocs

\* The head goes on with a document, and perhaps it is stored.
LEMMA HeadDocs ==
  ASSUME TypeInv, OneRuns, DocsInv, SaveFrame, queue # <<>>,
         NEW step \in Steps, step # "queued", NEW d \in Nat, HeadPasses(step, d),
         queue[1].token # 0, d <= made,
         Live(queue[1]) /\ queue[1].project \in Shown => d <= doc[queue[1].project],
         ~prepares => d = queue[1].doc,
         Live(queue[1]) => (prepares /\ step = "prepare") \/ stored'[queue[1].project] <= d,
         \A q \in Projects : stored'[q] <= made,
         \A q \in Shown : stored'[q] <= doc[q],
         ~prepares =>
           /\ \A c \in timer : Live(c) => stored'[c.project] <= c.doc
           /\ \A i \in 2..Len(queue) :
                Live(queue[i]) => stored'[queue[i].project] <= queue[i].doc
  PROVE  DocsInv'
<1>1. /\ UNCHANGED <<doc, made, timer, durable, active, open, prepares>> /\ Shown' = Shown
      /\ Len(queue') = Len(queue) /\ Len(queue) \in Nat /\ Len(queue) >= 1
  BY DEF SaveFrame, Shown, HeadPasses, TypeInv, TypeParts, QueueTypes
<1>2. \A i \in 1..Len(queue') :
        /\ i \in 1..Len(queue) /\ queue'[i].project = queue[i].project
        /\ queue'[i].token = queue[i].token
        /\ \/ i = 1 /\ queue'[i].step = step /\ queue'[i].doc = d
           \/ i \in 2..Len(queue) /\ queue'[i] = queue[i] /\ queue[i].step = "queued"
  BY PassedIndex DEF OneRuns
<1>3. /\ \A c \in timer : Live(c)' <=> Live(c)
      /\ \A i \in 1..Len(queue') : Live(queue[i])' <=> Live(queue[i])
  BY <1>1, <1>2 DEF Live
<1>4. DocsMade' /\ ShownAhead'
  BY <1>1, <1>2 DEF DocsInv, DocsMade, ShownAhead
<1>5. LiveBehind'
  <2>1. ASSUME NEW i \in 1..Len(queue'), Live(queue[i])', queue'[i].project \in Shown
        PROVE  queue'[i].doc <= doc[queue'[i].project]
    BY <1>2, <1>3, <2>1 DEF DocsInv, LiveBehind
  <2>2. QED
    BY <1>1, <1>3, <2>1 DEF DocsInv, LiveBehind
<1>6. LiveAhead'
  <2> SUFFICES ASSUME NEW i \in 1..Len(queue'), Live(queue[i])'
               PROVE  Rereads(queue[i])' \/ stored'[queue'[i].project] <= queue'[i].doc
    BY DEF LiveAhead
  <2>1. CASE i = 1
    BY <1>1, <1>2, <1>3, <2>1 DEF Rereads
  <2>2. CASE i \in 2..Len(queue)
    BY <1>1, <1>2, <1>3, <2>2 DEF Rereads
  <2>3. QED
    BY <1>2, <2>1, <2>2
<1>7. TimerNewest'
  <2> SUFFICES ASSUME ~prepares, NEW c \in timer, Live(c)
               PROVE  /\ stored'[c.project] <= c.doc
                      /\ \A i \in 1..Len(queue') :
                           queue'[i].project = c.project /\ Live(queue[i])' => queue'[i].doc <= c.doc
    BY <1>1, <1>3 DEF TimerNewest
  <2>1. \A i \in 1..Len(queue') : queue'[i].doc = queue[i].doc
    BY <1>2
  <2>2. QED
    BY <1>2, <1>3, <2>1 DEF DocsInv, TimerNewest
<1>8. LiveInOrder'
  <2> SUFFICES ASSUME ~prepares, NEW i \in 1..Len(queue'), NEW j \in 1..Len(queue'), i < j,
                      queue'[i].project = queue'[j].project, Live(queue[i])', Live(queue[j])'
               PROVE  queue'[i].doc <= queue'[j].doc
    BY <1>1 DEF LiveInOrder
  <2>1. queue'[i].doc = queue[i].doc /\ queue'[j].doc = queue[j].doc
    BY <1>2
  <2>2. QED
    BY <1>2, <1>3, <2>1 DEF DocsInv, LiveInOrder
<1>9. RunsWithToken'
  BY <1>2 DEF DocsInv, RunsWithToken
<1>10. QED
  BY <1>4, <1>5, <1>6, <1>7, <1>8, <1>9 DEF DocsInv

LEMMA EndDocs ==
  ASSUME TypeInv, DocsInv, SaveFrame, HeadEnds
  PROVE  DocsInv'
<1>1. /\ UNCHANGED <<doc, made, timer, durable, active, open, prepares, stored>> /\ Shown' = Shown
      /\ HeadGone
  BY DEF SaveFrame, Shown, HeadEnds
<1>2. \A i \in 1..Len(queue') : i + 1 \in 1..Len(queue) /\ queue'[i] = queue[i + 1]
  BY <1>1, GoneIndex
<1>3. /\ \A c \in timer : Live(c)' <=> Live(c)
      /\ \A i \in 1..Len(queue') : Live(queue[i])' <=> Live(queue[i + 1])
  BY <1>1, <1>2 DEF Live
<1>4. DocsMade' /\ ShownAhead'
  BY <1>1, <1>2 DEF DocsInv, DocsMade, ShownAhead
<1>5. LiveBehind'
  BY <1>1, <1>2, <1>3 DEF DocsInv, LiveBehind
<1>6. LiveAhead' /\ RunsWithToken'
  BY <1>1, <1>2, <1>3 DEF DocsInv, LiveAhead, RunsWithToken, Rereads
<1>7. TimerNewest'
  BY <1>1, <1>2, <1>3 DEF DocsInv, TimerNewest
<1>8. LiveInOrder'
  <2> SUFFICES ASSUME ~prepares, NEW i \in 1..Len(queue'), NEW j \in 1..Len(queue'), i < j,
                      queue'[i].project = queue'[j].project, Live(queue[i])', Live(queue[j])'
               PROVE  queue'[i].doc <= queue'[j].doc
    BY <1>1 DEF LiveInOrder
  <2>1. i + 1 < j + 1
    OBVIOUS
  <2>2. QED
    BY <1>2, <1>3, <2>1 DEF DocsInv, LiveInOrder
<1>9. QED
  BY <1>4, <1>5, <1>6, <1>7, <1>8 DEF DocsInv

\* Storing the head's document takes nothing back.
LEMMA HeadIsNewer ==
  ASSUME TypeInv, DocsInv, queue # <<>>, queue[1].step = "publish",
         durable[queue[1].project] = queue[1].token
  PROVE  Live(queue[1]) /\ stored[queue[1].project] <= queue[1].doc
<1>1. 1 \in 1..Len(queue)
  BY DEF TypeInv, TypeParts, QueueTypes
<1>2. Live(queue[1])
  BY <1>1 DEF Live, DocsInv, RunsWithToken
<1>3. QED
  BY <1>1, <1>2 DEF DocsInv, LiveAhead, Rereads

LEMMA PassDocs ==
  ASSUME TypeInv, LockInv, TokenInv, OneRuns, DocsInv, HeadGoesOn, Passes
  PROVE  DocsInv'
<1>1. /\ 1 \in 1..Len(queue) /\ Len(queue) \in Nat /\ queue # <<>> /\ SaveFrame
      /\ stored \in [Projects -> Nat] /\ doc \in [Projects -> Nat]
      /\ Shown \subseteq Projects
  BY DEF HeadGoesOn, TypeInv, TypeParts, QueueTypes, TabTypes, Shown
<1>2. queue[1].project \in Projects /\ queue[1].doc \in Nat
  BY <1>1, QueuedAreSaves
<1>3. /\ queue[1].doc <= made
      /\ Live(queue[1]) /\ queue[1].project \in Shown => queue[1].doc <= doc[queue[1].project]
      /\ Live(queue[1]) => Rereads(queue[1]) \/ stored[queue[1].project] <= queue[1].doc
      /\ queue[1].step # "queued" => queue[1].token # 0
  BY <1>1 DEF DocsInv, DocsMade, LiveBehind, LiveAhead, RunsWithToken
<1>4. ASSUME stored' = stored
      PROVE  /\ \A q \in Projects : stored'[q] <= made
             /\ \A q \in Shown : stored'[q] <= doc[q]
             /\ ~prepares =>
                  /\ \A c \in timer : Live(c) => stored'[c.project] <= c.doc
                  /\ \A i \in 2..Len(queue) :
                       Live(queue[i]) => stored'[queue[i].project] <= queue[i].doc
  <2>1. \A i \in 2..Len(queue) : i \in 1..Len(queue)
    BY <1>1
  <2>2. QED
    BY <1>4, <2>1 DEF DocsInv, DocsMade, ShownAhead, TimerNewest, LiveAhead, Rereads
<1>5. CASE queue[1].step = "queued" /\ HeadPasses("prepare", queue[1].doc)
             /\ MayProceed(queue[1]) /\ UNCHANGED stored
  <2>1. queue[1].token # 0
    BY <1>5 DEF MayProceed, OwnsWriteFence
  <2>2. Live(queue[1]) => prepares \/ stored'[queue[1].project] <= queue[1].doc
    BY <1>3, <1>5 DEF Rereads
  <2>3. QED
    BY <1>1, <1>2, <1>3, <1>4, <1>5, <2>1, <2>2, HeadDocs DEF Steps
<1>6. CASE /\ queue[1].step = "prepare" /\ MayProceed(queue[1]) /\ UNCHANGED stored
           /\ HeadPasses("admit", IF prepares THEN doc[queue[1].project] ELSE queue[1].doc)
  <2>1. queue[1].token # 0 /\ WriteFence(queue[1].project) = queue[1].token
    BY <1>6 DEF MayProceed, OwnsWriteFence
  <2>2. queue[1].project = active /\ active \in Shown
    BY <1>1, <2>1, ProceedsIsActive DEF Shown
  <2>3. CASE prepares
    <3>1. HeadPasses("admit", doc[queue[1].project])
      BY <1>6, <2>3
    <3>2. /\ doc[queue[1].project] \in Nat /\ doc[queue[1].project] <= made
          /\ stored'[queue[1].project] <= doc[queue[1].project]
      BY <1>1, <1>2, <1>6, <2>2 DEF DocsInv, DocsMade, ShownAhead
    <3>3. doc[queue[1].project] <= doc[queue[1].project]
      BY <3>2
    <3>4. QED
      BY <1>1, <1>4, <1>6, <2>1, <2>3, <3>1, <3>2, <3>3, HeadDocs DEF Steps
  <2>4. CASE ~prepares
    <3>1. HeadPasses("admit", queue[1].doc)
      BY <1>6, <2>4
    <3>2. Live(queue[1]) => stored'[queue[1].project] <= queue[1].doc
      BY <1>3, <1>6, <2>4 DEF Rereads
    <3>3. QED
      BY <1>1, <1>2, <1>3, <1>4, <1>6, <2>1, <2>4, <3>1, <3>2, HeadDocs DEF Steps
  <2>5. QED
    BY <2>3, <2>4
<1>7. ASSUME queue[1].step \in {"admit", "committed"}, UNCHANGED stored,
             NEW step \in {"publish", "maintain"}, HeadPasses(step, queue[1].doc)
      PROVE  DocsInv'
  <2>1. Live(queue[1]) => stored'[queue[1].project] <= queue[1].doc
    BY <1>3, <1>7 DEF Rereads
  <2>2. step \in Steps /\ step # "queued" /\ queue[1].token # 0
    BY <1>3, <1>7 DEF Steps
  <2>3. QED
    BY <1>1, <1>2, <1>3, <1>4, <1>7, <2>1, <2>2, HeadDocs
<1>8. CASE /\ queue[1].step = "publish" /\ HeadPasses("committed", queue[1].doc)
           /\ durable[queue[1].project] = queue[1].token
           /\ stored' = [stored EXCEPT ![queue[1].project] = queue[1].doc]
  <2>1. Live(queue[1]) /\ queue[1].token # 0
    BY <1>1, <1>8, HeadIsNewer DEF Live
  <2>2. /\ stored'[queue[1].project] = queue[1].doc
        /\ \A q \in Projects : q # queue[1].project => stored'[q] = stored[q]
    BY <1>1, <1>2, <1>8
  <2>3. \A q \in Projects : stored'[q] <= made
    BY <1>3, <2>2 DEF DocsInv, DocsMade
  <2>4. \A q \in Shown : stored'[q] <= doc[q]
    BY <1>1, <1>3, <2>1, <2>2 DEF DocsInv, ShownAhead
  <2>5. ASSUME ~prepares, NEW c \in timer, Live(c)
        PROVE  stored'[c.project] <= c.doc
    <3>1. c.project \in Projects
      BY HeldAreCaptures
    <3>2. stored[c.project] <= c.doc /\ (queue[1].project = c.project => queue[1].doc <= c.doc)
      BY <1>1, <2>1, <2>5 DEF DocsInv, TimerNewest
    <3>3. QED
      BY <2>2, <3>1, <3>2
  <2>6. ASSUME ~prepares, NEW i \in 2..Len(queue), Live(queue[i])
        PROVE  stored'[queue[i].project] <= queue[i].doc
    <3>1. i \in 1..Len(queue) /\ 1 < i
      BY <1>1
    <3>2. queue[i].project \in Projects
      BY <3>1, QueuedAreSaves
    <3>3. stored[queue[i].project] <= queue[i].doc
      BY <2>6, <3>1 DEF DocsInv, LiveAhead, Rereads
    <3>4. queue[1].project = queue[i].project => queue[1].doc <= queue[i].doc
      BY <1>1, <2>1, <2>6, <3>1 DEF DocsInv, LiveInOrder
    <3>5. QED
      BY <2>2, <3>2, <3>3, <3>4
  <2>7. Live(queue[1]) => stored'[queue[1].project] <= queue[1].doc
    BY <1>2, <2>2
  <2>8. QED
    BY <1>1, <1>2, <1>3, <1>8, <2>1, <2>3, <2>4, <2>5, <2>6, <2>7, HeadDocs DEF Steps
<1>9. QED
  BY <1>5, <1>6, <1>7, <1>8 DEF Passes

LEMMA FlushStepEffect ==
  ASSUME TypeInv, SaveNow \/ (\E w \in Flushers : ResumeFlush(w)) \/ FlushLeft
  PROVE  /\ (TimerShrinks /\ UNCHANGED <<parked, heldBack>>) \/ FlushJoins
         /\ UNCHANGED <<tabVars, stored, lockVars, generation, epoch, switches, closing, lease,
                        ceiling, orphaned, prepares>>
<1>1. CASE SaveNow
  <2>1. Flush("user") /\ FlushFrame
    BY <1>1 DEF SaveNow, FlushFrame
  <2>2. QED
    BY <2>1, FlushPipe DEF Flushers, FlushFrame, TypeInv
<1>2. CASE \E w \in Flushers : ResumeFlush(w)
  <2>1. PICK w \in Flushers : Flush(w) /\ FlushFrame
    BY <1>2 DEF ResumeFlush, FlushFrame
  <2>2. QED
    BY <2>1, FlushPipe DEF FlushFrame, TypeInv
<1>3. CASE FlushLeft
  <2>1. CASE switches[1].skipFlush \/ readOnly
    BY <1>3, <2>1 DEF FlushLeft, TimerShrinks
  <2>2. CASE ~(switches[1].skipFlush \/ readOnly)
    <3>1. Flush("switch") /\ FlushFrame
      BY <1>3, <2>2 DEF FlushLeft, FlushFrame
    <3>2. QED
      BY <3>1, FlushPipe DEF Flushers, FlushFrame, TypeInv
  <2>3. QED
    BY <2>1, <2>2
<1>4. QED
  BY <1>1, <1>2, <1>3

LEMMA NextDocs ==
  ASSUME TypeInv, SwitchInv, LockInv, TokenInv, OneRuns, DocsInv, Next
  PROVE  DocsInv'
<1>1. CASE Edit \/ FireTimer \/ EnterProject \/ ReleaseLease
  BY <1>1, EditDocs, FireDocs, EnterDocs, ReleaseDocs
<1>2. CASE SaveNow \/ (\E w \in Flushers : ResumeFlush(w)) \/ FlushLeft
  <2>1. TimerShrinks \/ FlushJoins
    BY <1>2, FlushStepEffect
  <2>2. UNCHANGED <<doc, stored, made, prepares, open, active>>
    BY <1>2, FlushStepEffect
  <2>3. CASE TimerShrinks
    BY <2>2, <2>3, ShrinkDocs DEF TimerShrinks, Shown
  <2>4. CASE FlushJoins
    BY <2>4, FlushDocs
  <2>5. QED
    BY <2>1, <2>3, <2>4
<1>3. CASE SaveStep
  BY <1>3, SaveStepEffect, EndDocs, PassDocs DEF TypeInv, HeadGoesOn
<1>4. CASE LockStep
  BY <1>4, ShrinkDocs DEF LockStep, StealLock, NoticeLoss, RecoverLock, WaitForLock, Shown
<1>5. CASE SwitchStep /\ ~FlushLeft /\ ~EnterProject
  BY <1>5, ShrinkDocs DEF SwitchStep, RequestSwitch, BeginSwitch, FlushReturned, ReleaseLock,
     ClaimLock, Shown
<1>6. CASE CloseStep
  <2>1. timer' \subseteq timer /\ queue' = queue /\ UNCHANGED <<doc, stored, made, prepares, active>>
    BY <1>6 DEF CloseStep, BeginDiscard, DiscardDrained, ActivateSuccessor, CloseTab, TimerWithout
  <2>2. open' \subseteq open
    BY <1>6 DEF CloseStep, BeginDiscard, DiscardDrained, ActivateSuccessor, CloseTab, CloseSession
  <2>3. QED
    BY <2>1, <2>2, ShrinkDocs DEF Shown
<1>7. CASE LeaseStep /\ ~ReleaseLease
  BY <1>7, ShrinkDocs DEF LeaseStep, BeginQuiesce, QuiesceDrained, TimerWithout, Shown
<1>8. QED
  BY <1>1, <1>2, <1>3, <1>4, <1>5, <1>6, <1>7 DEF Next, LeaseStep

LEMMA DocsInvariant == Spec => []DocsInv
<1>1. Init => DocsInv
  BY InitDocs
<1>2. TypeInv /\ SwitchInv /\ LockInv /\ TokenInv /\ EpochInv /\ DocsInv /\ [Next]_vars => DocsInv'
  <2>1. CASE UNCHANGED vars
    <3>1. DocsMade /\ ShownAhead /\ LiveBehind => (DocsMade /\ ShownAhead /\ LiveBehind)'
      BY <2>1 DEF vars, DocsMade, ShownAhead, LiveBehind, Live, Shown
    <3>2. LiveAhead /\ TimerNewest /\ LiveInOrder /\ RunsWithToken
            => (LiveAhead /\ TimerNewest /\ LiveInOrder /\ RunsWithToken)'
      BY <2>1 DEF vars, LiveAhead, TimerNewest, LiveInOrder, RunsWithToken, Live, Rereads
    <3>3. QED
      BY <3>1, <3>2 DEF DocsInv
  <2>2. QED
    BY <2>1, NextDocs DEF EpochInv
<1>3. QED
  BY <1>1, <1>2, TypeInvariant, DrainInvariant, LockInvariant, EpochInvariant, PTL DEF Spec

(* An older snapshot never overwrites a newer one.  Only a save whose      *)
(* token is still the stored one commits, and those hold documents in the  *)
(* order of the queue, none older than what is stored, in whatever order   *)
(* timers, flushes, switches, thefts and failures put them there.          *)
THEOREM StoredIsMonotone == Spec => StoredNeverGoesBack
<1> DEFINE A == \A p \in Projects : stored[p] <= stored'[p]
<1>1. TypeInv /\ DocsInv /\ [Next]_vars => [A]_vars
  <2> SUFFICES ASSUME TypeInv, DocsInv, Next PROVE A
    OBVIOUS
  <2>1. stored \in [Projects -> Nat]
    BY DEF TypeInv, TypeParts, TabTypes
  <2>2. CASE stored' = stored
    BY <2>1, <2>2
  <2>3. CASE stored' # stored
    <3>1. /\ queue # <<>> /\ queue[1].step = "publish"
          /\ durable[queue[1].project] = queue[1].token
          /\ stored' = [stored EXCEPT ![queue[1].project] = queue[1].doc]
      BY <2>3, StoredEffect DEF HeadGoesOn
    <3>2. stored[queue[1].project] <= queue[1].doc
      BY <3>1, HeadIsNewer
    <3>3. QED
      BY <2>1, <3>1, <3>2
  <2>4. QED
    BY <2>2, <2>3
<1>2. QED
  BY <1>1, TypeInvariant, DocsInvariant, PTL DEF Spec, StoredNeverGoesBack

-----------------------------------------------------------------------------
(* Generations.  No capture is of a generation to come; those of the timer *)
(* are in order: the capture it holds, one at most, is newer than every    *)
(* autosave in the queue, and those are in the order of the queue.         *)
GensPass ==
  /\ \A c \in timer : c.gen <= generation
  /\ \A i \in 1..Len(queue) : queue[i].gen <= generation
AutosInOrder ==
  /\ \A c, d \in timer : c = d
  /\ \A c \in timer : \A i \in 1..Len(queue) : queue[i].auto => queue[i].gen < c.gen
  /\ \A i, j \in 1..Len(queue) :
       i < j /\ queue[i].auto /\ queue[j].auto => queue[i].gen < queue[j].gen
GenInv == GensPass /\ AutosInOrder

LEMMA InitGens == Init => GenInv
BY DEF Init, GenInv, GensPass, AutosInOrder

LEMMA NextGens ==
  ASSUME TypeInv, GenInv, Next
  PROVE  GenInv'
<1>1. generation \in Nat /\ Len(queue) \in Nat
  BY DEF TypeInv, TypeParts, PipeTypes, QueueTypes
<1>2. CASE TimerShrinks
  BY <1>2 DEF TimerShrinks, GenInv, GensPass, AutosInOrder
<1>3. CASE TimerCaptures
  <2>1. /\ queue' = queue /\ generation' = generation + 1
        /\ timer' = {CaptureOf(active, doc'[active])}
        /\ CaptureOf(active, doc'[active]).gen = generation + 1
    BY <1>3 DEF TimerCaptures, CaptureOf
  <2>2. \A i \in 1..Len(queue) : queue[i].gen <= generation /\ queue[i].gen \in Nat
    BY QueuedAreSaves DEF GenInv, GensPass
  <2>3. GensPass'
    BY <1>1, <2>1, <2>2 DEF GensPass
  <2>4. AutosInOrder'
    BY <1>1, <2>1, <2>2 DEF GenInv, AutosInOrder
  <2>5. QED
    BY <2>3, <2>4 DEF GenInv
<1>4. ASSUME NEW save, save.gen <= generation, Joined(save), timer' = {}, generation' = generation,
             save.auto => \A i \in 1..Len(queue) : queue[i].auto => queue[i].gen < save.gen
      PROVE  GenInv'
  <2>1. \A i \in 1..Len(queue') : \/ i \in 1..Len(queue) /\ queue'[i] = queue[i]
                                  \/ i = Len(queue) + 1 /\ queue'[i] = save
    BY <1>4, JoinedIndex
  <2>2. GensPass'
    BY <1>4, <2>1 DEF GenInv, GensPass
  <2>3. ASSUME NEW i \in 1..Len(queue'), NEW j \in 1..Len(queue'), i < j,
               queue'[i].auto, queue'[j].auto
        PROVE  queue'[i].gen < queue'[j].gen
    <3>1. i \in 1..Len(queue) /\ queue'[i] = queue[i]
      BY <1>1, <1>4, <2>1, <2>3 DEF Joined
    <3>2. QED
      BY <1>4, <2>1, <2>3, <3>1 DEF GenInv, AutosInOrder
  <2>4. AutosInOrder'
    BY <1>4, <2>3 DEF AutosInOrder
  <2>5. QED
    BY <2>2, <2>4 DEF GenInv
<1>5. CASE TimerJoins
  <2>1. PICK c \in timer : Joined(SaveOf(c, TRUE)) /\ timer' = {} /\ generation' = generation
    BY <1>5 DEF TimerJoins
  <2>2. SaveOf(c, TRUE).gen = c.gen
    BY DEF SaveOf
  <2>3. QED
    BY <1>4, <2>1, <2>2 DEF GenInv, GensPass, AutosInOrder
<1>6. CASE FlushJoins
  <2>1. Joined(FlushedSave) /\ timer' = {} /\ generation' = generation
    BY <1>6 DEF FlushJoins
  <2>2. FlushedSave.gen = generation /\ ~FlushedSave.auto
    BY DEF FlushedSave, SaveOf, CaptureOf
  <2>3. FlushedSave.gen <= generation
    BY <1>1, <2>2
  <2>4. QED
    BY <1>4, <2>1, <2>2, <2>3
<1>7. CASE HeadGoesOn /\ HeadEnds
  <2>1. timer' = timer /\ generation' = generation
    BY <1>7 DEF HeadGoesOn, SaveFrame
  <2>2. \A i \in 1..Len(queue') : i + 1 \in 1..Len(queue) /\ queue'[i] = queue[i + 1]
    BY <1>7, GoneIndex DEF HeadEnds
  <2>3. GensPass'
    BY <2>1, <2>2 DEF GenInv, GensPass
  <2>4. ASSUME NEW i \in 1..Len(queue'), NEW j \in 1..Len(queue'), i < j,
               queue'[i].auto, queue'[j].auto
        PROVE  queue'[i].gen < queue'[j].gen
    <3>1. i + 1 < j + 1
      BY <2>4
    <3>2. QED
      BY <2>2, <2>4, <3>1 DEF GenInv, AutosInOrder
  <2>5. AutosInOrder'
    BY <2>1, <2>2, <2>4 DEF GenInv, AutosInOrder
  <2>6. QED
    BY <2>3, <2>5 DEF GenInv
<1>8. CASE HeadGoesOn /\ Passes
  <2>1. timer' = timer /\ generation' = generation
    BY <1>8 DEF HeadGoesOn, SaveFrame
  <2>2. PICK step \in Steps, d \in {queue[1].doc, doc[queue[1].project]} : HeadPasses(step, d)
    BY <1>8, PassesSomewhere
  <2>3. \A i \in 1..Len(queue') : i \in 1..Len(queue) /\ queue'[i].gen = queue[i].gen
                                    /\ queue'[i].auto = queue[i].auto
    BY <2>2, PassedIndex
  <2>4. QED
    BY <2>1, <2>3 DEF GenInv, GensPass, AutosInOrder
<1>9. QED
  BY <1>2, <1>3, <1>5, <1>6, <1>7, <1>8, PipeEffect DEF HeadGoesOn

LEMMA GenInvariant == Spec => []GenInv
<1>1. Init => GenInv
  BY InitGens
<1>2. TypeInv /\ GenInv /\ [Next]_vars => GenInv'
  <2>1. CASE UNCHANGED vars
    BY <2>1 DEF vars, GenInv, GensPass, AutosInOrder
  <2>2. QED
    BY <2>1, NextGens
<1>3. QED
  BY <1>1, <1>2, TypeInvariant, PTL DEF Spec

-----------------------------------------------------------------------------
(* Clean tabs.  A save that could clear the unsaved flag, of the newest    *)
(* generation and under current authority, holds the present document, or  *)
(* the project was edited while its saves were suspended.                  *)
Current(r) == r.token # 0 /\ WriteFence(r.project) = r.token /\ epoch[r.project] = r.epoch
Excused(p) == p \in heldBack /\ (lease.project = p \/ readOnly \/ ~dirty[p])

CleanHolds ==
  \A p \in open : ~dirty[p] => doc[p] = stored[p] \/ (p \in heldBack /\ ~prepares)
CommittedIsStored ==
  \A i \in 1..Len(queue) :
    queue[i].step \in {"committed", "maintain"} => stored[queue[i].project] = queue[i].doc
CurrentIsPresent ==
  \A i \in 1..Len(queue) : Current(queue[i]) /\ queue[i].gen = generation =>
    \/ queue[i].doc = doc[queue[i].project] \/ Rereads(queue[i])
    \/ Excused(queue[i].project) /\ ~prepares
TimerIsPresent == \A c \in timer : c.doc = doc[c.project]
TimerBetween == Between => \A c \in timer : c.project = active
LeaseCaptures == lease # NoLease => ~prepares
CleanInv ==
  /\ CleanHolds /\ CommittedIsStored /\ CurrentIsPresent /\ TimerIsPresent /\ TimerBetween
  /\ LeaseCaptures

LEMMA InitClean == Init => CleanInv
<1> SUFFICES ASSUME Init PROVE CleanInv
  OBVIOUS
<1>1. CleanHolds /\ CommittedIsStored
  BY DEF Init, CleanHolds, CommittedIsStored
<1>2. CurrentIsPresent /\ TimerIsPresent
  BY DEF Init, CurrentIsPresent, TimerIsPresent
<1>3. TimerBetween /\ LeaseCaptures
  BY DEF Init, TimerBetween, LeaseCaptures
<1>4. QED
  BY <1>1, <1>2, <1>3 DEF CleanInv

LEMMA NextCommitted ==
  ASSUME TypeInv, OneRuns, CommittedIsStored, Next
  PROVE  CommittedIsStored'
<1>1. Len(queue) \in Nat /\ stored \in [Projects -> Nat]
  BY DEF TypeInv, TypeParts, QueueTypes, TabTypes
<1>2. CASE stored' # stored
  <2>1. /\ HeadPasses("committed", queue[1].doc) /\ queue[1].project \in Projects
        /\ stored' = [stored EXCEPT ![queue[1].project] = queue[1].doc]
    BY <1>2, StoredEffect DEF HeadGoesOn, Passes, HeadPasses, Save
  <2>2. \A i \in 1..Len(queue') :
          \/ i = 1 /\ queue'[i].doc = queue[1].doc /\ queue'[i].project = queue[1].project
          \/ queue'[i].step = "queued"
    BY <2>1, PassedIndex DEF OneRuns
  <2>3. QED
    BY <1>1, <2>1, <2>2 DEF CommittedIsStored
<1>3. CASE stored' = stored
  <2>1. CASE TimerShrinks \/ TimerCaptures
    BY <1>3, <2>1 DEF TimerShrinks, TimerCaptures, CommittedIsStored
  <2>2. CASE TimerJoins \/ FlushJoins
    <3>1. \E save : save.step = "queued" /\ Joined(save)
      BY <2>2 DEF TimerJoins, FlushJoins, FlushedSave, SaveOf
    <3>2. QED
      BY <1>3, <3>1, JoinedIndex DEF CommittedIsStored
  <2>3. CASE HeadGoesOn /\ HeadEnds
    BY <1>3, <2>3, GoneIndex DEF HeadEnds, CommittedIsStored
  <2>4. CASE HeadGoesOn /\ Passes
    <3>1. CASE queue[1].step = "publish"
      <4>1. HeadPasses("committed", queue[1].doc) /\ queue[1].project \in Projects
            /\ stored' = [stored EXCEPT ![queue[1].project] = queue[1].doc]
        BY <2>4, <3>1 DEF HeadGoesOn, Passes, Save
      <4>2. stored'[queue[1].project] = queue[1].doc
        BY <1>1, <4>1
      <4>3. \A i \in 1..Len(queue') :
              \/ i = 1 /\ queue'[i].doc = queue[1].doc /\ queue'[i].project = queue[1].project
              \/ queue'[i].step = "queued"
        BY <4>1, PassedIndex DEF OneRuns
      <4>4. QED
        BY <4>2, <4>3 DEF CommittedIsStored
    <3>2. CASE queue[1].step # "publish"
      <4>1. PICK step \in Steps, d \in {queue[1].doc, doc[queue[1].project]} :
              /\ HeadPasses(step, d)
              /\ step \in {"committed", "maintain"} => queue[1].step = "committed" /\ d = queue[1].doc
        BY <2>4, <3>2 DEF Passes, Steps
      <4>2. QED
        BY <1>3, <4>1, PassedIndex DEF CommittedIsStored
    <3>3. QED
      BY <3>1, <3>2
  <2>5. QED
    BY <2>1, <2>2, <2>3, <2>4, PipeEffect DEF HeadGoesOn
<1>4. QED
  BY <1>2, <1>3

LEMMA PreparesKept ==
  ASSUME TypeInv, Next
  PROVE  prepares' = prepares
<1>1. CASE Edit \/ FireTimer \/ SaveNow \/ (\E w \in Flushers : ResumeFlush(w)) \/ LockStep
  BY <1>1 DEF Edit, FireTimer, SaveNow, ResumeFlush, LockStep, StealLock, NoticeLoss, RecoverLock, WaitForLock
<1>2. CASE SaveStep
  BY <1>2, SaveStepEffect DEF TypeInv, SaveFrame
<1>3. CASE SwitchStep
  BY <1>3 DEF SwitchStep, RequestSwitch, BeginSwitch, FlushLeft, FlushReturned, ReleaseLock,
     ClaimLock, EnterProject
<1>4. CASE CloseStep \/ LeaseStep
  BY <1>4 DEF CloseStep, BeginDiscard, DiscardDrained, ActivateSuccessor, CloseTab,
     LeaseStep, BeginQuiesce, QuiesceDrained, ReleaseLease
<1>5. QED
  BY <1>1, <1>2, <1>3, <1>4 DEF Next

LEMMA NextLeaseCaptures ==
  ASSUME TypeInv, LeaseCaptures, Next
  PROVE  LeaseCaptures'
<1>1. prepares' = prepares
  BY PreparesKept
<1>2. CASE \E p \in Projects : BeginQuiesce(p)
  BY <1>1, <1>2 DEF BeginQuiesce, LeaseCaptures
<1>3. CASE QuiesceDrained
  BY <1>1, <1>3 DEF QuiesceDrained, LeaseCaptures
<1>4. QED
  BY <1>1, <1>2, <1>3, LeaseEffect DEF LeaseCaptures

\* Only edits and fresh tabs change documents.
LEMMA DocEffect ==
  ASSUME TypeInv, Next, ~Edit, ~EnterProject
  PROVE  doc' = doc /\ active' = active
<1>1. CASE FireTimer \/ SaveNow \/ (\E w \in Flushers : ResumeFlush(w)) \/ LockStep
  BY <1>1 DEF FireTimer, SaveNow, ResumeFlush, LockStep, StealLock, NoticeLoss, RecoverLock, WaitForLock
<1>2. CASE SaveStep
  BY <1>2, SaveStepEffect DEF TypeInv, SaveFrame
<1>3. CASE SwitchStep
  BY <1>3 DEF SwitchStep, RequestSwitch, BeginSwitch, FlushLeft, FlushReturned, ReleaseLock, ClaimLock
<1>4. CASE CloseStep \/ LeaseStep
  BY <1>4 DEF CloseStep, BeginDiscard, DiscardDrained, ActivateSuccessor, CloseTab,
     LeaseStep, BeginQuiesce, QuiesceDrained, ReleaseLease
<1>5. QED
  BY <1>1, <1>2, <1>3, <1>4 DEF Next

LEMMA EnterEffect ==
  ASSUME TypeInv, EnterProject
  PROVE  /\ Target \in Projects /\ active' = Target /\ open' = open \cup {Target}
         /\ doc' = (IF Target \in open THEN doc ELSE [doc EXCEPT ![Target] = stored[Target]])
         /\ dirty' = [dirty EXCEPT ![Target] = Target \in open /\ @]
         /\ orphaned' = orphaned \ {Target}
         /\ UNCHANGED <<timer, queue, stored, made, lock, durable, prepares, generation, epoch,
                        heldBack, parked, lease, waiting>>
         /\ ~readOnly' /\ switchStep = "entering" /\ switchStep' = "idle"
BY HeadSwitch DEF EnterProject, EndSwitch, Target, TypeInv, SwitchesPending, TypeParts, SwitchOrder

LEMMA NextTimerBetween ==
  ASSUME TypeInv, SwitchInv, TimerBetween, Next
  PROVE  TimerBetween'
<1>1. CASE ReleaseLock \/ EnterProject
  BY <1>1 DEF ReleaseLock, EnterProject, EndSwitch, TimerBetween, Between
<1>2. CASE ~ReleaseLock /\ ~EnterProject
  <2>1. (Between' => Between) /\ active' = active
    <3>1. CASE NoticeLoss \/ RecoverLock \/ ClaimLock
      BY <3>1 DEF NoticeLoss, RecoverLock, ClaimLock, Between
    <3>2. CASE LockElsewhere
      BY <3>2 DEF LockElsewhere, Between
    <3>3. QED
      BY <1>2, <3>1, <3>2, LockRest
  <2>2. CASE TimerShrinks
    BY <2>1, <2>2 DEF TimerShrinks, TimerBetween
  <2>3. CASE TimerCaptures
    BY <2>1, <2>3 DEF TimerCaptures, CaptureOf, TimerBetween
  <2>4. CASE TimerJoins \/ FlushJoins
    BY <2>4 DEF TimerJoins, FlushJoins, TimerBetween
  <2>5. CASE HeadGoesOn
    BY <2>1, <2>5 DEF HeadGoesOn, SaveFrame, TimerBetween
  <2>6. QED
    BY <2>2, <2>3, <2>4, <2>5, PipeEffect
<1>3. QED
  BY <1>1, <1>2

LEMMA NextTimerPresent ==
  ASSUME TypeInv, SwitchInv, TimerIsPresent, TimerBetween, Next
  PROVE  TimerIsPresent'
<1>1. /\ doc \in [Projects -> Nat] /\ made \in Nat
      /\ \A c \in timer : c.project \in Projects
  BY HeldAreCaptures DEF TypeInv, TypeParts, TabTypes
<1>2. CASE EnterProject
  <2>1. /\ timer' = timer /\ Target \in Projects /\ Target # active /\ Between
        /\ doc' = IF Target \in open THEN doc ELSE [doc EXCEPT ![Target] = stored[Target]]
    BY <1>2, EnterEffect DEF SwitchInv, TargetIsOther, Between
  <2>2. \A c \in timer : doc'[c.project] = doc[c.project]
    BY <1>1, <2>1 DEF TimerBetween
  <2>3. QED
    BY <2>1, <2>2 DEF TimerIsPresent
<1>3. CASE Edit
  <2>1. /\ \A q \in Projects \ {active} : doc'[q] = doc[q]
        /\ doc'[active] = made + 1
    BY <1>1, <1>3 DEF Edit, TypeInv, TypeParts, TabTypes
  <2>2. CASE Suspended(active)
    BY <1>1, <1>3, <2>1, <2>2 DEF Edit, TimerWithout, TimerIsPresent
  <2>3. CASE ~Suspended(active)
    BY <1>3, <2>1, <2>3 DEF Edit, CaptureOf, TimerIsPresent
  <2>4. QED
    BY <2>2, <2>3
<1>4. CASE ~Edit /\ ~EnterProject
  <2>1. doc' = doc
    BY <1>4, DocEffect
  <2>2. CASE TimerShrinks
    BY <2>1, <2>2 DEF TimerShrinks, TimerIsPresent
  <2>3. CASE TimerCaptures
    BY <2>1, <2>3 DEF TimerCaptures, CaptureOf, TimerIsPresent
  <2>4. CASE TimerJoins \/ FlushJoins
    BY <2>4 DEF TimerJoins, FlushJoins, TimerIsPresent
  <2>5. CASE HeadGoesOn
    BY <2>1, <2>5 DEF HeadGoesOn, SaveFrame, TimerIsPresent
  <2>6. QED
    BY <2>2, <2>3, <2>4, <2>5, PipeEffect
<1>5. QED
  BY <1>2, <1>3, <1>4

\* Steps that change no save, no generation and no document: what is current
\* was current, and what was excused still is.
LEMMA SameCurrent ==
  ASSUME CurrentIsPresent, UNCHANGED <<queue, generation, prepares, doc>>,
         \A i \in 1..Len(queue) : Current(queue[i])' =>
           /\ Current(queue[i])
           /\ Excused(queue[i].project) /\ ~prepares => Excused(queue[i].project)'
  PROVE  CurrentIsPresent'
BY DEF CurrentIsPresent, Rereads

\* An edit made while saves of the project are suspended.
LEMMA HeldCurrent ==
  ASSUME TypeInv, SwitchInv, LockInv, TokenInv, CloseRetires, CurrentIsPresent, LeaseCaptures,
         Edit, Suspended(active)
  PROVE  CurrentIsPresent'
<1>1. /\ UNCHANGED <<queue, generation, prepares, lock, epoch, lease, readOnly>>
      /\ heldBack' = heldBack \cup {active} /\ active \in Projects
      /\ doc \in [Projects -> Nat] /\ dirty \in [Projects -> BOOLEAN]
  BY DEF Edit, TypeInv, TypeParts, TabTypes
<1>2. ASSUME NEW i \in 1..Len(queue), Current(queue[i])
      PROVE  Excused(queue[i].project)' /\ ~prepares
  <2>1. queue[i].project = active /\ queue[i].epoch = epoch[active]
    BY <1>2, ProceedsIsActive DEF Current
  <2>2. queue[i].epoch \in Nat
    BY QueuedAreSaves
  <2>3. closing.project # active
    <3>1. SUFFICES ASSUME closing.project = active PROVE FALSE
      OBVIOUS
    <3>2. closing # NoClose
      BY <1>1, <3>1, SaveConstants DEF NoClose
    <3>3. queue[i].epoch < epoch[active]
      BY <2>1, <3>1, <3>2 DEF CloseRetires
    <3>4. QED
      BY <2>1, <2>2, <3>3
  <2>4. lease.project = active
    BY <2>3 DEF Suspended
  <2>5. lease # NoLease
    BY <1>1, <2>4, SaveConstants DEF NoLease
  <2>6. QED
    BY <1>1, <2>1, <2>4, <2>5 DEF LeaseCaptures, Excused
<1>3. \A i \in 1..Len(queue) : Current(queue[i])' => Current(queue[i])
  BY <1>1 DEF Current, WriteFence
<1>4. QED
  BY <1>1, <1>2, <1>3 DEF CurrentIsPresent

LEMMA EditCurrent ==
  ASSUME TypeInv, SwitchInv, LockInv, TokenInv, CloseRetires, GenInv, CurrentIsPresent,
         LeaseCaptures, Edit
  PROVE  CurrentIsPresent'
<1>1. CASE Suspended(active)
  BY <1>1, HeldCurrent
<1>2. CASE ~Suspended(active)
  <2>1. queue' = queue /\ generation' = generation + 1 /\ generation \in Nat
    BY <1>2 DEF Edit, TypeInv, TypeParts, PipeTypes
  <2>2. \A i \in 1..Len(queue) : queue[i].gen <= generation /\ queue[i].gen \in Nat
    BY QueuedAreSaves DEF GenInv, GensPass
  <2>3. QED
    BY <2>1, <2>2 DEF CurrentIsPresent
<1>3. QED
  BY <1>1, <1>2

LEMMA FireCurrent ==
  ASSUME TypeInv, CurrentIsPresent, TimerIsPresent, FireTimer
  PROVE  CurrentIsPresent'
<1>1. PICK c \in timer :
        /\ Joined(SaveOf(c, TRUE))
        /\ UNCHANGED <<doc, dirty, generation, lock, epoch, lease, heldBack, prepares, readOnly>>
  BY FireEffect DEF TypeInv
<1>2. SaveOf(c, TRUE).doc = doc[SaveOf(c, TRUE).project]
  BY DEF SaveOf, TimerIsPresent
<1>3. \A i \in 1..Len(queue') : \/ i \in 1..Len(queue) /\ queue'[i] = queue[i]
                                \/ queue'[i] = SaveOf(c, TRUE)
  BY <1>1, JoinedIndex
<1>5. ASSUME NEW i \in 1..Len(queue'), Current(queue[i])', queue'[i].gen = generation'
      PROVE  \/ queue'[i].doc = doc'[queue'[i].project] \/ Rereads(queue[i])'
             \/ Excused(queue[i].project)' /\ ~prepares'
  <2>1. CASE i \in 1..Len(queue) /\ queue'[i] = queue[i]
    <3>1. Current(queue[i]) /\ queue[i].gen = generation
      BY <1>1, <1>5, <2>1 DEF Current, WriteFence
    <3>2. \/ queue[i].doc = doc[queue[i].project] \/ Rereads(queue[i])
          \/ Excused(queue[i].project) /\ ~prepares
      BY <2>1, <3>1 DEF CurrentIsPresent
    <3>3. Rereads(queue[i])' <=> Rereads(queue[i])
      BY <1>1, <2>1 DEF Rereads
    <3>4. Excused(queue[i].project)' <=> Excused(queue[i].project)
      BY <1>1, <2>1 DEF Excused
    <3>5. QED
      BY <1>1, <2>1, <3>2, <3>3, <3>4
  <2>2. CASE queue'[i] = SaveOf(c, TRUE)
    BY <1>1, <1>2, <2>2
  <2>3. QED
    BY <1>3, <2>1, <2>2
<1>6. QED
  BY <1>5 DEF CurrentIsPresent

LEMMA FlushCurrent ==
  ASSUME TypeInv, LockInv, TokenInv, CurrentIsPresent, FlushJoins
  PROVE  CurrentIsPresent'
<1>1. /\ Joined(FlushedSave) /\ ~NothingToFlush /\ ~Suspended(active)
      /\ UNCHANGED <<doc, generation, lock, epoch, prepares>>
  BY DEF FlushJoins
<1>2. FlushedSave.doc = doc[FlushedSave.project]
  BY DEF FlushedSave, SaveOf, CaptureOf
<1>3. \A i \in 1..Len(queue') : \/ i \in 1..Len(queue) /\ queue'[i] = queue[i]
                                \/ queue'[i] = FlushedSave
  BY <1>1, JoinedIndex
<1>4. ASSUME NEW i \in 1..Len(queue), Current(queue[i]), queue[i].gen = generation
      PROVE  queue[i].doc = doc[queue[i].project] \/ Rereads(queue[i])
  <2>1. queue[i].project = active
    BY <1>4, ProceedsIsActive DEF Current
  <2>2. ~(Excused(active) /\ ~prepares)
    BY <1>1 DEF Excused, NothingToFlush, Suspended
  <2>3. QED
    BY <1>4, <2>1, <2>2 DEF CurrentIsPresent
<1>5. ASSUME NEW i \in 1..Len(queue'), Current(queue[i])', queue'[i].gen = generation'
      PROVE  queue'[i].doc = doc'[queue'[i].project] \/ Rereads(queue[i])'
  <2>1. CASE i \in 1..Len(queue) /\ queue'[i] = queue[i]
    <3>1. Current(queue[i])
      BY <1>1, <1>5, <2>1 DEF Current, WriteFence
    <3>2. QED
      <4>1. queue[i].doc = doc[queue[i].project] \/ Rereads(queue[i])
        BY <1>1, <1>4, <1>5, <2>1, <3>1
      <4>2. Rereads(queue[i])' <=> Rereads(queue[i])
        BY <1>1, <2>1 DEF Rereads
      <4>3. QED
        BY <1>1, <2>1, <4>1, <4>2
  <2>2. CASE queue'[i] = FlushedSave
    BY <1>1, <1>2, <2>2
  <2>3. QED
    BY <1>3, <2>1, <2>2
<1>6. QED
  BY <1>5 DEF CurrentIsPresent

LEMMA SaveCurrent ==
  ASSUME TypeInv, OneRuns, CurrentIsPresent, SaveStep
  PROVE  CurrentIsPresent'
<1>1. /\ queue # <<>> /\ SaveFrame /\ (HeadEnds \/ Passes)
      /\ queue[1].project \in Projects /\ 1 \in 1..Len(queue) /\ Len(queue) \in Nat
      /\ dirty \in [Projects -> BOOLEAN]
  <2>1. queue # <<>> /\ SaveFrame /\ (HeadEnds \/ Passes) /\ queue[1] \in Save
    BY SaveStepEffect DEF TypeInv
  <2>2. Len(queue) \in Nat /\ queue \in Seq(Save) /\ dirty \in [Projects -> BOOLEAN]
    BY DEF TypeInv, TypeParts, QueueTypes, TabTypes
  <2>3. QED
    BY <2>1, <2>2 DEF Save
<1>2. /\ UNCHANGED <<doc, generation, lock, epoch, lease, heldBack, prepares>>
      /\ readOnly => readOnly'
  BY <1>1 DEF SaveFrame, HeadEnds, Passes, HeadPasses
<1>3. \A p \in Projects : dirty'[p] => dirty[p]
  BY <1>1 DEF HeadEnds, Passes
<1>4. \A p \in Projects : Excused(p) => Excused(p)'
  BY <1>2, <1>3 DEF Excused
<1>6. CASE HeadEnds
  <2>1. ASSUME NEW i \in 1..Len(queue'), Current(queue[i])', queue'[i].gen = generation'
        PROVE  \/ queue'[i].doc = doc'[queue'[i].project] \/ Rereads(queue[i])'
               \/ Excused(queue[i].project)' /\ ~prepares'
    <3>1. i + 1 \in 1..Len(queue) /\ queue'[i] = queue[i + 1]
      BY <1>6, GoneIndex DEF HeadEnds
    <3>2. Current(queue[i + 1]) /\ queue[i + 1].gen = generation
      BY <1>2, <2>1, <3>1 DEF Current, WriteFence
    <3>3. \/ queue[i + 1].doc = doc[queue[i + 1].project] \/ Rereads(queue[i + 1])
          \/ Excused(queue[i + 1].project) /\ ~prepares
      BY <3>1, <3>2 DEF CurrentIsPresent
    <3>4. Rereads(queue[i])' <=> Rereads(queue[i + 1])
      BY <1>2, <3>1 DEF Rereads
    <3>5. PICK p \in Projects : p = queue[i + 1].project
      BY <3>1, QueuedAreSaves
    <3>6. Excused(p)' <=> Excused(queue[i].project)'
      BY <3>1, <3>5 DEF Excused
    <3>7. QED
      BY <1>2, <1>4, <3>1, <3>3, <3>4, <3>5, <3>6
  <2>2. QED
    BY <2>1 DEF CurrentIsPresent
<1>7. CASE Passes
  <2>1. PICK step \in Steps, d \in {queue[1].doc, doc[queue[1].project]} :
          /\ HeadPasses(step, d)
          /\ queue[1].step # "prepare" => d = queue[1].doc
          /\ queue[1].step = "queued" => step = "prepare"
          /\ queue[1].step = "prepare" /\ prepares => d = doc[queue[1].project]
          /\ queue[1].step = "prepare" /\ ~prepares => d = queue[1].doc
    BY <1>7 DEF Passes, Steps
  <2>2. ASSUME NEW i \in 1..Len(queue'), Current(queue[i])', queue'[i].gen = generation'
        PROVE  \/ queue'[i].doc = doc'[queue'[i].project] \/ Rereads(queue[i])'
               \/ Excused(queue[i].project)' /\ ~prepares'
    <3>1. /\ i \in 1..Len(queue)
          /\ queue'[i].project = queue[i].project /\ queue'[i].gen = queue[i].gen
          /\ queue'[i].epoch = queue[i].epoch /\ queue'[i].token = queue[i].token
          /\ \/ i = 1 /\ queue'[i].step = step /\ queue'[i].doc = d
             \/ i \in 2..Len(queue) /\ queue'[i] = queue[i]
      BY <2>1, PassedIndex
    <3>2. Current(queue[i]) /\ queue[i].gen = generation
      BY <1>2, <2>2, <3>1 DEF Current, WriteFence
    <3>3. \/ queue[i].doc = doc[queue[i].project] \/ Rereads(queue[i])
          \/ Excused(queue[i].project) /\ ~prepares
      BY <3>1, <3>2 DEF CurrentIsPresent
    <3>4. PICK p \in Projects : p = queue[i].project
      BY <3>1, QueuedAreSaves
    <3>5. CASE Excused(p) /\ ~prepares
      <4>1. Excused(queue[i].project)' <=> Excused(p)'
        BY <3>1, <3>4 DEF Excused
      <4>2. QED
        BY <1>2, <1>4, <3>5, <4>1
    <3>6. CASE i \in 2..Len(queue) /\ queue'[i] = queue[i] /\ ~(Excused(p) /\ ~prepares)
      <4>1. Rereads(queue[i])' <=> Rereads(queue[i])
        BY <1>2, <3>6 DEF Rereads
      <4>2. QED
        BY <1>2, <3>3, <3>4, <3>6, <4>1
    <3>7. CASE i = 1 /\ queue'[i].step = step /\ queue'[i].doc = d /\ ~(Excused(p) /\ ~prepares)
      <4>1. CASE queue[1].step \in {"queued", "prepare"} /\ prepares
        BY <1>2, <2>1, <3>1, <3>7, <4>1 DEF Rereads
      <4>2. CASE ~(queue[1].step \in {"queued", "prepare"} /\ prepares)
        <5>1. d = queue[1].doc
          BY <2>1, <4>2
        <5>2. queue[1].doc = doc[queue[1].project]
          BY <3>3, <3>4, <3>7, <4>2 DEF Rereads
        <5>3. QED
          BY <1>2, <3>1, <3>7, <5>1, <5>2
      <4>3. QED
        BY <4>1, <4>2
    <3>8. QED
      BY <3>1, <3>5, <3>6, <3>7
  <2>3. QED
    BY <2>2 DEF CurrentIsPresent
<1>8. QED
  BY <1>1, <1>6, <1>7

\* No save is of a token that is granted just now, or of the lock that an
\* activation has claimed.
LEMMA NoneCurrent ==
  ASSUME TypeInv, SwitchInv, LockInv, TokenInv,
         RecoverLock \/ ReleaseLock \/ ClaimLock \/ EnterProject \/ NoticeLoss
  PROVE  /\ UNCHANGED <<queue, timer>> \/ ReleaseLock
         /\ UNCHANGED <<queue, generation, epoch>>
         /\ \A i \in 1..Len(queue) : ~Current(queue[i])'
         /\ ~ReleaseLock => \A c \in timer : ~Current(c)'
<1>1. UNCHANGED <<queue, generation, epoch>> /\ (timer' = timer \/ ReleaseLock)
  BY DEF RecoverLock, ReleaseLock, ClaimLock, EnterProject, NoticeLoss
<1>2. /\ granted \in Nat /\ \A i \in 1..Len(queue) : queue[i].token \in Nat /\ queue[i].token <= granted
      /\ \A c \in timer : c.token \in Nat /\ c.token <= granted
  BY QueuedAreSaves, HeldAreCaptures DEF TypeInv, TypeParts, LockTypes, TokenInv, TokensGranted
<1>3. CASE NoticeLoss \/ ReleaseLock
  <2>1. lock'.token = 0
    BY <1>3 DEF NoticeLoss, ReleaseLock, TypeInv, TypeParts, LockTypes
  <2>2. QED
    BY <1>1, <2>1 DEF Current, WriteFence
<1>4. CASE RecoverLock \/ ClaimLock
  <2>1. lock'.token = granted + 1
    BY <1>4 DEF RecoverLock, ClaimLock, TakeToken
  <2>2. QED
    BY <1>1, <1>2, <2>1 DEF Current, WriteFence
<1>5. CASE EnterProject
  <2>1. lock' = lock /\ switchStep = "entering"
    BY <1>5 DEF EnterProject
  <2>2. lock.project = Target
    BY <2>1 DEF LockInv
  <2>3. /\ \A i \in 1..Len(queue) : OldToken(queue[i])
        /\ \A c \in timer : OldToken(c)
    BY <2>1 DEF TokenInv, EntersAnew
  <2>4. QED
    BY <1>1, <2>1, <2>2, <2>3 DEF OldToken, Current, WriteFence
<1>6. QED
  BY <1>1, <1>3, <1>4, <1>5

LEMMA CloseCurrent ==
  ASSUME TypeInv, SwitchInv, EpochsPass, CloseRetires, CurrentIsPresent, CloseStep
  PROVE  CurrentIsPresent'
<1>1. UNCHANGED <<queue, generation, prepares, doc, lock, readOnly, lease>>
  BY DEF CloseStep, BeginDiscard, DiscardDrained, ActivateSuccessor, CloseTab
<1>2. \A i \in 1..Len(queue) :
        /\ queue[i].project \in Projects /\ queue[i].epoch \in Nat
        /\ queue[i].epoch <= epoch[queue[i].project]
  BY QueuedAreSaves DEF EpochsPass
<1>3. CASE \E p \in Projects : BeginDiscard(p)
  <2>1. PICK p \in Projects : BeginDiscard(p)
    BY <1>3
  <2>2. epoch' = [epoch EXCEPT ![p] = @ + 1] /\ UNCHANGED <<heldBack, dirty>>
    BY <2>1 DEF BeginDiscard
  <2>3. \A q \in Projects : epoch'[q] = epoch[q] \/ epoch'[q] = epoch[q] + 1
    BY <2>2 DEF TypeInv, TypeParts, PipeTypes
  <2>4. \A q \in Projects : epoch[q] \in Nat
    BY DEF TypeInv, TypeParts, PipeTypes
  <2>5. \A i \in 1..Len(queue) : Current(queue[i])' => Current(queue[i])
    BY <1>1, <1>2, <2>3, <2>4 DEF Current, WriteFence
  <2>6. QED
    BY <1>1, <2>2, <2>5, SameCurrent DEF Excused
<1>4. CASE DiscardDrained \/ ActivateSuccessor \/ CloseTab
  <2>1. closing # NoClose /\ epoch' = epoch
    <3>1. closing.step \in {"drain", "close"}
      BY <1>4 DEF DiscardDrained, ActivateSuccessor, CloseTab
    <3>2. closing # NoClose
      BY <3>1 DEF NoClose
    <3>3. epoch' = epoch
      BY <1>4 DEF DiscardDrained, ActivateSuccessor, CloseTab
    <3>4. QED
      BY <3>2, <3>3
  <2>2. \A q \in Projects \ {closing.project} :
          (q \in heldBack => q \in heldBack') /\ (~dirty[q] => ~dirty'[q])
    BY <1>4 DEF DiscardDrained, ActivateSuccessor, CloseTab, CloseSession, TypeInv, TypeParts, TabTypes
  <2>3. \A i \in 1..Len(queue) : Current(queue[i])' => Current(queue[i])
    BY <1>1, <2>1 DEF Current, WriteFence
  <2>4. \A i \in 1..Len(queue) : Current(queue[i]) => queue[i].project # closing.project
    BY <1>2, <2>1 DEF Current, CloseRetires
  <2>5. \A q \in Projects \ {closing.project} : Excused(q) => Excused(q)'
    BY <1>1, <2>2 DEF Excused
  <2>6. ASSUME NEW i \in 1..Len(queue), Current(queue[i])', Excused(queue[i].project)
        PROVE  Excused(queue[i].project)'
    <3>1. PICK q \in Projects \ {closing.project} : q = queue[i].project
      BY <1>2, <2>3, <2>4, <2>6
    <3>2. Excused(q)'
      BY <2>5, <2>6, <3>1
    <3>3. QED
      BY <1>1, <3>1, <3>2 DEF Excused
  <2>7. QED
    BY <1>1, <2>3, <2>6, SameCurrent
<1>5. QED
  BY <1>3, <1>4 DEF CloseStep

LEMMA LeaseCurrent ==
  ASSUME TypeInv, SwitchInv, LockInv, TokenInv, GenInv, CurrentIsPresent, LeaseStep
  PROVE  CurrentIsPresent'
<1>1. UNCHANGED <<queue, prepares, doc, lock, readOnly, epoch, dirty>>
  BY DEF LeaseStep, BeginQuiesce, QuiesceDrained, ReleaseLease
<1>2. \A i \in 1..Len(queue) : /\ queue[i].project \in Projects
                               /\ Current(queue[i])' => Current(queue[i])
  BY <1>1, QueuedAreSaves DEF Current, WriteFence
<1>3. CASE \E p \in Projects : BeginQuiesce(p)
  <2>1. lease = NoLease /\ generation' = generation /\ heldBack' = heldBack
    BY <1>3 DEF BeginQuiesce
  <2>2. \A i \in 1..Len(queue) : Excused(queue[i].project) => Excused(queue[i].project)'
    BY <1>1, <1>2, <2>1, SaveConstants DEF Excused, NoLease
  <2>3. QED
    BY <1>1, <1>2, <2>1, <2>2, SameCurrent
<1>4. CASE QuiesceDrained
  <2>1. lease'.project = lease.project /\ generation' = generation /\ heldBack' = heldBack
    BY <1>4 DEF QuiesceDrained, TypeInv, TypeParts, CallTypes
  <2>2. \A i \in 1..Len(queue) : Excused(queue[i].project) => Excused(queue[i].project)'
    BY <1>1, <2>1 DEF Excused
  <2>3. QED
    BY <1>1, <1>2, <2>1, <2>2, SameCurrent
<1>5. CASE ReleaseLease /\ ReleaseSchedules
  <2>1. generation' = generation + 1 /\ generation \in Nat
    BY <1>5, ReleaseEffect DEF TypeInv, TypeParts, PipeTypes
  <2>2. \A i \in 1..Len(queue) : queue[i].gen <= generation /\ queue[i].gen \in Nat
    BY QueuedAreSaves DEF GenInv, GensPass
  <2>3. QED
    BY <1>1, <2>1, <2>2 DEF CurrentIsPresent
<1>6. CASE ReleaseLease /\ ~ReleaseSchedules
  <2>1. generation' = generation /\ heldBack' = heldBack
    BY <1>6, ReleaseEffect DEF TypeInv
  <2>2. ASSUME NEW i \in 1..Len(queue), Current(queue[i]), Excused(queue[i].project)
        PROVE  Excused(queue[i].project)'
    <3>1. queue[i].project = active
      BY <2>2, ProceedsIsActive DEF Current
    <3>2. readOnly \/ ~dirty[active]
      BY <1>6, <2>2, <3>1 DEF Excused, ReleaseSchedules
    <3>3. QED
      BY <1>1, <2>1, <2>2, <3>1, <3>2 DEF Excused
  <2>3. QED
    BY <1>1, <1>2, <2>1, <2>2, SameCurrent
<1>7. QED
  BY <1>3, <1>4, <1>5, <1>6 DEF LeaseStep

LEMMA NextCurrent ==
  ASSUME TypeInv, SwitchInv, EpochInv, LockInv, TokenInv, GenInv, CleanInv, Next
  PROVE  CurrentIsPresent'
<1> USE DEF CleanInv, EpochInv
<1>1. CASE Edit \/ FireTimer \/ SaveStep
  BY <1>1, EditCurrent, FireCurrent, SaveCurrent
<1>2. CASE CloseStep \/ LeaseStep
  BY <1>2, CloseCurrent, LeaseCurrent
<1>3. CASE SaveNow \/ (\E w \in Flushers : ResumeFlush(w)) \/ FlushLeft
  <2>1. /\ (TimerShrinks /\ heldBack' = heldBack) \/ FlushJoins
        /\ UNCHANGED <<doc, dirty, lock, readOnly, generation, epoch, lease, prepares>>
    BY <1>3, FlushStepEffect
  <2>2. CASE TimerShrinks /\ heldBack' = heldBack
    <3>1. queue' = queue
      BY <2>2 DEF TimerShrinks
    <3>2. \A i \in 1..Len(queue) : Current(queue[i])' => Current(queue[i])
      BY <2>1, <3>1 DEF Current, WriteFence
    <3>3. \A i \in 1..Len(queue) : Excused(queue[i].project) => Excused(queue[i].project)'
      BY <2>1, <2>2, <3>1 DEF Excused
    <3>4. QED
      BY <2>1, <3>1, <3>2, <3>3, SameCurrent
  <2>3. CASE FlushJoins
    BY <2>3, FlushCurrent
  <2>4. QED
    BY <2>1, <2>2, <2>3
<1>4. CASE RecoverLock \/ ReleaseLock \/ ClaimLock \/ EnterProject \/ NoticeLoss
  BY <1>4, NoneCurrent DEF CurrentIsPresent
<1>5. CASE \/ StealLock \/ WaitForLock \/ (\E p \in Projects : RequestSwitch(p))
           \/ BeginSwitch \/ FlushReturned
  <2>1. UNCHANGED <<queue, doc, dirty, lock, generation, epoch, lease, prepares, heldBack>>
    BY <1>5 DEF StealLock, WaitForLock, RequestSwitch, BeginSwitch, FlushReturned
  <2>2. readOnly => readOnly'
    BY <1>5 DEF StealLock, WaitForLock, RequestSwitch, BeginSwitch, FlushReturned
  <2>3. \A i \in 1..Len(queue) :
          /\ Current(queue[i])' => Current(queue[i])
          /\ Excused(queue[i].project) => Excused(queue[i].project)'
    BY <2>1, <2>2 DEF Current, WriteFence, Excused
  <2>4. QED
    BY <2>1, <2>3, SameCurrent
<1>6. QED
  BY <1>1, <1>2, <1>3, <1>4, <1>5 DEF Next, LockStep, SwitchStep

\* A commit leaves a clean tab as it was stored, and the save that clears the
\* flag has stored the present document.
LEMMA SaveClean ==
  ASSUME TypeInv, DocsInv, CleanInv, SaveStep
  PROVE  CleanHolds'
<1>1. /\ queue # <<>> /\ SaveFrame /\ (HeadEnds \/ Passes)
      /\ queue[1] \in Save /\ 1 \in 1..Len(queue)
      /\ dirty \in [Projects -> BOOLEAN] /\ stored \in [Projects -> Nat]
      /\ doc \in [Projects -> Nat] /\ open \subseteq Projects
  BY SaveStepEffect DEF TypeInv, TypeParts, QueueTypes, TabTypes
<1>2. /\ UNCHANGED <<doc, open, heldBack, prepares>>
      /\ queue[1].project \in Projects /\ queue[1].doc \in Nat
  BY <1>1 DEF SaveFrame, Save
<1>3. CASE stored' = stored /\ dirty' = dirty
  BY <1>2, <1>3 DEF CleanInv, CleanHolds
<1>4. CASE /\ queue[1].step = "publish" /\ durable[queue[1].project] = queue[1].token
           /\ stored' = [stored EXCEPT ![queue[1].project] = queue[1].doc] /\ dirty' = dirty
  <2>1. Live(queue[1]) /\ stored[queue[1].project] <= queue[1].doc
    BY <1>1, <1>4, HeadIsNewer
  <2>2. queue[1].project \in open => queue[1].doc <= doc[queue[1].project]
    BY <1>1, <2>1 DEF DocsInv, LiveBehind, Shown
  <2>3. ASSUME NEW p \in open, ~dirty[p]
        PROVE  doc[p] = stored'[p] \/ (p \in heldBack /\ ~prepares)
    <3>1. doc[p] = stored[p] \/ (p \in heldBack /\ ~prepares)
      BY <2>3 DEF CleanInv, CleanHolds
    <3>2. CASE p = queue[1].project
      BY <1>1, <1>2, <1>4, <2>1, <2>2, <3>1, <3>2
    <3>3. CASE p # queue[1].project
      BY <1>1, <1>4, <3>1, <3>3
    <3>4. QED
      BY <3>2, <3>3
  <2>4. QED
    BY <1>2, <1>4, <2>3 DEF CleanHolds
<1>5. CASE /\ queue[1].step = "committed" /\ MayProceed(queue[1]) /\ stored' = stored
           /\ dirty' = [dirty EXCEPT ![queue[1].project] = @ /\ ~PublishesSaved(queue[1])]
  <2>1. \A p \in open : dirty'[p] = dirty[p] \/ (p = queue[1].project /\ PublishesSaved(queue[1]))
    BY <1>1, <1>5
  <2>2. ASSUME NEW p \in open, p = queue[1].project, PublishesSaved(queue[1])
        PROVE  doc[p] = stored[p] \/ (p \in heldBack /\ ~prepares)
    <3>1. Current(queue[1]) /\ queue[1].gen = generation
      BY <1>5, <2>2 DEF MayProceed, OwnsWriteFence, Current, PublishesSaved
    <3>2. ~Rereads(queue[1]) /\ stored[p] = queue[1].doc
      BY <1>1, <1>5, <2>2 DEF Rereads, CleanInv, CommittedIsStored
    <3>3. QED
      BY <1>1, <2>2, <3>1, <3>2 DEF CleanInv, CurrentIsPresent, Excused
  <2>3. QED
    BY <1>2, <1>5, <2>1, <2>2 DEF CleanInv, CleanHolds
<1>6. QED
  BY <1>1, <1>3, <1>4, <1>5 DEF HeadEnds, Passes

LEMMA NextCleanHolds ==
  ASSUME TypeInv, DocsInv, CleanInv, Next
  PROVE  CleanHolds'
<1>1. /\ dirty \in [Projects -> BOOLEAN] /\ stored \in [Projects -> Nat] /\ active \in Projects
      /\ doc \in [Projects -> Nat] /\ open \subseteq Projects
  BY DEF TypeInv, TypeParts, TabTypes
<1>2. \A p \in open : ~dirty[p] => doc[p] = stored[p] \/ (p \in heldBack /\ ~prepares)
  BY DEF CleanInv, CleanHolds
<1>3. CASE SaveStep
  BY <1>3, SaveClean
<1>4. CASE Edit
  <2>1. /\ UNCHANGED <<open, stored, prepares>>
        /\ doc' = [doc EXCEPT ![active] = made + 1] /\ dirty' = [dirty EXCEPT ![active] = active \in open]
        /\ heldBack' = heldBack \cup {active} \/ heldBack' = heldBack \ {active}
    BY <1>4 DEF Edit
  <2>2. ASSUME NEW p \in open, ~dirty'[p]
        PROVE  p # active /\ dirty'[p] = dirty[p] /\ doc'[p] = doc[p]
    BY <1>1, <2>1, <2>2
  <2>3. QED
    BY <1>2, <2>1, <2>2 DEF CleanHolds
<1>5. CASE \/ UNCHANGED <<open, doc, dirty, stored, prepares, heldBack>>
           \/ /\ UNCHANGED <<open, doc, dirty, stored, prepares>> /\ (prepares \/ dirty[active])
              /\ heldBack' = heldBack \ Scheduled(active)
  BY <1>2, <1>5 DEF CleanHolds, Scheduled
<1>6. CASE SaveNow \/ (\E w \in Flushers : ResumeFlush(w)) \/ FlushLeft
  BY <1>5, <1>6, FlushStepEffect DEF FlushJoins, NothingToFlush
<1>7. CASE FireTimer \/ LockStep
  BY <1>5, <1>7 DEF FireTimer, LockStep, StealLock, NoticeLoss, RecoverLock, WaitForLock
<1>8. CASE SwitchStep /\ ~EnterProject /\ ~FlushLeft
  BY <1>5, <1>8 DEF SwitchStep, RequestSwitch, BeginSwitch, FlushReturned, ReleaseLock, ClaimLock
<1>9. CASE LeaseStep /\ ~ReleaseLease
  BY <1>5, <1>9 DEF LeaseStep, BeginQuiesce, QuiesceDrained
<1>10. CASE ReleaseLease
  <2>1. UNCHANGED <<open, doc, dirty, stored, prepares>>
    BY <1>10 DEF ReleaseLease
  <2>2. heldBack' = heldBack \/ (dirty[active] /\ heldBack' = heldBack \ Scheduled(active))
    BY <1>10, ReleaseEffect DEF TypeInv, ReleaseSchedules
  <2>3. QED
    BY <1>5, <2>1, <2>2
<1>11. CASE EnterProject
  <2>1. /\ Target \in Projects /\ open' = open \cup {Target} /\ UNCHANGED <<stored, prepares, heldBack>>
        /\ doc' = (IF Target \in open THEN doc ELSE [doc EXCEPT ![Target] = stored[Target]])
        /\ dirty' = [dirty EXCEPT ![Target] = Target \in open /\ @]
    BY <1>11, EnterEffect
  <2>2. ASSUME NEW p \in open', ~dirty'[p]
        PROVE  \/ p \in open /\ ~dirty[p] /\ doc'[p] = doc[p]
               \/ doc'[p] = stored[p]
    BY <1>1, <2>1, <2>2
  <2>3. QED
    BY <1>2, <2>1, <2>2 DEF CleanHolds
<1>12. CASE CloseStep
  <2>1. UNCHANGED <<doc, stored, prepares>>
    BY <1>12 DEF CloseStep, BeginDiscard, DiscardDrained, ActivateSuccessor, CloseTab
  <2>2. \/ UNCHANGED <<open, dirty, heldBack>>
        \/ \E p \in Projects \cup {NoProject} :
             open' = open \ {p} /\ dirty' = [dirty EXCEPT ![p] = FALSE] /\ heldBack' = heldBack \ {p}
    <3>1. closing.project \in Projects \cup {NoProject}
      BY DEF TypeInv, TypeParts, CallTypes, Closings
    <3>2. CASE (\E p \in Projects : BeginDiscard(p)) \/ ActivateSuccessor
      <4>1. UNCHANGED <<open, dirty, heldBack>>
        BY <3>2 DEF BeginDiscard, ActivateSuccessor
      <4>2. QED
        BY <4>1
    <3>3. CASE DiscardDrained \/ CloseTab
      <4>1. UNCHANGED <<open, dirty, heldBack>> \/ CloseSession(closing.project)
        BY <3>3 DEF DiscardDrained, CloseTab
      <4>2. \/ UNCHANGED <<open, dirty, heldBack>>
            \/ /\ open' = open \ {closing.project} /\ heldBack' = heldBack \ {closing.project}
               /\ dirty' = [dirty EXCEPT ![closing.project] = FALSE]
        BY <4>1 DEF CloseSession
      <4>3. QED
        BY <3>1, <4>2
    <3>4. QED
      BY <1>12, <3>2, <3>3 DEF CloseStep
  <2>3. CASE UNCHANGED <<open, dirty, heldBack>>
    BY <1>5, <2>1, <2>3
  <2>4. ASSUME NEW p, open' = open \ {p}, dirty' = [dirty EXCEPT ![p] = FALSE],
               heldBack' = heldBack \ {p}
        PROVE  CleanHolds'
    BY <1>1, <1>2, <2>1, <2>4 DEF CleanHolds
  <2>5. QED
    BY <2>2, <2>3, <2>4
<1>13. QED
  BY <1>3, <1>4, <1>6, <1>7, <1>8, <1>9, <1>10, <1>11, <1>12 DEF Next, LeaseStep

LEMMA CleanInvariant == Spec => []CleanInv
<1>1. Init => CleanInv
  BY InitClean
<1>2. TypeInv /\ SwitchInv /\ LockInv /\ TokenInv /\ EpochInv /\ DocsInv /\ GenInv /\ CleanInv
        /\ [Next]_vars => CleanInv'
  <2>1. CASE UNCHANGED vars
    <3>1. CleanHolds /\ CommittedIsStored => (CleanHolds /\ CommittedIsStored)'
      BY <2>1 DEF vars, tabVars, queueVars, CleanHolds, CommittedIsStored
    <3>2. CurrentIsPresent => CurrentIsPresent'
      BY <2>1 DEF vars, tabVars, queueVars, lockVars, CurrentIsPresent, Current, WriteFence, Excused, Rereads
    <3>3. TimerIsPresent /\ TimerBetween /\ LeaseCaptures
            => (TimerIsPresent /\ TimerBetween /\ LeaseCaptures)'
      BY <2>1 DEF vars, tabVars, switchVars, TimerIsPresent, TimerBetween, Between, LeaseCaptures
    <3>4. QED
      BY <3>1, <3>2, <3>3 DEF CleanInv
  <2>2. ASSUME TypeInv, SwitchInv, LockInv, TokenInv, EpochInv, DocsInv, GenInv, CleanInv, Next
        PROVE  CleanInv'
    <3>1. CleanHolds' /\ CurrentIsPresent'
      BY <2>2, NextCleanHolds, NextCurrent
    <3>2. CommittedIsStored' /\ LeaseCaptures'
      BY <2>2, NextCommitted, NextLeaseCaptures DEF EpochInv, CleanInv
    <3>3. TimerIsPresent' /\ TimerBetween'
      BY <2>2, NextTimerPresent, NextTimerBetween DEF CleanInv
    <3>4. QED
      BY <3>1, <3>2, <3>3 DEF CleanInv
  <2>3. QED
    BY <2>1, <2>2
<1>3. QED
  BY <1>1, <1>2, TypeInvariant, DrainInvariant, LockInvariant, EpochInvariant, DocsInvariant,
     GenInvariant, PTL DEF Spec

(* A tab shown as saved is saved: the save that cleared the flag was of    *)
(* the newest generation and held the present document, and no later       *)
(* commit, switch or fresh tab takes the two apart, unless the project was *)
(* edited while its saves were suspended.                                  *)
THEOREM CleanIsStored == Spec => []CleanMeansStored
<1>1. CleanInv => CleanMeansStored
  BY DEF CleanInv, CleanHolds, CleanMeansStored
<1>2. QED
  BY <1>1, CleanInvariant, PTL

-----------------------------------------------------------------------------
(* Unsaved documents.  The document of the project shown that is dirty and *)
(* not parked is carried by a capture of the newest generation, in the     *)
(* timer or in the queue, or by a flush that waits; what an activation     *)
(* leaves, what the tab shows no longer and what lost its lock is parked.  *)
Carries(r) == WillStore(r, active) /\ r.gen = generation /\ r.step # "maintain"
Carried ==
  \/ \E c \in timer : c.project = active /\ c.gen = generation
  \/ \E i \in 1..Len(queue) : Carries(queue[i])
  \/ \E w \in Flushers : waiting[w] = active

DirtyHasTab == \A p \in Projects : dirty[p] => p \in open
LeftIsParked == Between => active \in parked
AwayIsParked == \A p \in open \ {active} : dirty[p] => p \in parked
LostIsParked == lock.token = 0 /\ active \in open /\ dirty[active] => active \in parked
TimerMayProceed == \A c \in timer : c.project = active /\ active \notin parked => Current(c)
DirtyIsCarried == active \in open \ parked /\ dirty[active] /\ ~readOnly => Carried
ParkInv == DirtyHasTab /\ LeftIsParked /\ AwayIsParked /\ LostIsParked
CarrierInv == TimerMayProceed /\ DirtyIsCarried

LEMMA InitCarrier == Init => ParkInv /\ CarrierInv
<1> SUFFICES ASSUME Init PROVE ParkInv /\ CarrierInv
  OBVIOUS
<1>1. ParkInv
  BY DEF Init, ParkInv, DirtyHasTab, LeftIsParked, AwayIsParked, LostIsParked, Between
<1>2. CarrierInv
  BY DEF Init, CarrierInv, TimerMayProceed, DirtyIsCarried
<1>3. QED
  BY <1>1, <1>2

\* What a step does to the parked projects and to the session tabs.
ParkGrows ==
  /\ parked \subseteq parked' /\ UNCHANGED <<open, active>>
  /\ \A p \in Projects : dirty'[p] => dirty[p]
ParkShrinks ==
  /\ parked' = parked \ Scheduled(active)
  /\ FlushJoins \/ (ReleaseLease /\ ReleaseSchedules)
  /\ UNCHANGED <<open, active, dirty, lock, readOnly, epoch, doc>>
TabCloses ==
  \E p \in Projects :
    /\ open' = open \ {p} /\ dirty' = [dirty EXCEPT ![p] = FALSE] /\ parked' = parked \ {p}
    /\ closing # NoClose /\ p = closing.project /\ ~Reserved(p)
    /\ UNCHANGED <<active, lock, readOnly, epoch, doc, timer, queueVars, generation, waiting,
                   switchStep, prepares>>

LEMMA CloseParks ==
  ASSUME TypeInv, SwitchInv, DiscardDrained \/ CloseTab
  PROVE  ParkGrows \/ TabCloses
<1>1. /\ closing.project \in Projects \cup {NoProject}
      /\ dirty \in [Projects -> BOOLEAN]
  BY DEF TypeInv, TypeParts, TabTypes, CallTypes, Closings
<1>2. closing # NoClose
  <2>1. closing.step \in {"drain", "close"}
    BY DEF DiscardDrained, CloseTab
  <2>2. QED
    BY <2>1 DEF NoClose
<1>3. closing.project \in Projects
  BY <1>1, <1>2 DEF SwitchInv, NoCloseIsNone
<1>4. /\ UNCHANGED <<open, dirty, parked>> \/ CloseSession(closing.project)
      /\ UNCHANGED <<active, lock, readOnly, epoch, doc, timer, queueVars, generation, waiting,
                     switchStep, prepares>>
  BY DEF DiscardDrained, CloseTab
<1>5. \/ UNCHANGED <<open, dirty, parked>>
      \/ /\ open' = open \ {closing.project} /\ parked' = parked \ {closing.project}
         /\ dirty' = [dirty EXCEPT ![closing.project] = FALSE] /\ ~Reserved(closing.project)
  BY <1>4 DEF CloseSession
<1>6. CASE UNCHANGED <<open, dirty, parked>>
  BY <1>4, <1>6 DEF ParkGrows
<1>7. QED
  BY <1>2, <1>3, <1>4, <1>5, <1>6 DEF TabCloses

LEMMA ParkEffect ==
  ASSUME TypeInv, SwitchInv, Next
  PROVE  ParkGrows \/ Edit \/ ParkShrinks \/ EnterProject \/ TabCloses
<1>1. CASE SaveNow \/ (\E w \in Flushers : ResumeFlush(w)) \/ FlushLeft
  <2>1. (TimerShrinks /\ parked' = parked) \/ FlushJoins
    BY <1>1, FlushStepEffect
  <2>2. UNCHANGED <<open, active, dirty, lock, readOnly, epoch, doc>>
    BY <1>1, FlushStepEffect
  <2>3. QED
    BY <2>1, <2>2 DEF ParkGrows, ParkShrinks, FlushJoins
<1>2. CASE FireTimer \/ LockStep
  BY <1>2 DEF FireTimer, LockStep, StealLock, NoticeLoss, RecoverLock, WaitForLock, ParkGrows
<1>3. CASE SaveStep
  <2>1. /\ SaveFrame /\ (HeadEnds \/ Passes) /\ queue[1].project \in Projects
        /\ dirty \in [Projects -> BOOLEAN]
    BY <1>3, SaveStepEffect DEF TypeInv, TypeParts, TabTypes, Save
  <2>2. parked \subseteq parked'
    BY <2>1 DEF HeadEnds, Passes, HeadPasses
  <2>3. \A p \in Projects : dirty'[p] => dirty[p]
    BY <2>1 DEF HeadEnds, Passes
  <2>4. QED
    BY <2>1, <2>2, <2>3 DEF SaveFrame, ParkGrows
<1>4. CASE SwitchStep /\ ~FlushLeft /\ ~EnterProject
  BY <1>4 DEF SwitchStep, RequestSwitch, BeginSwitch, FlushReturned, ReleaseLock, ClaimLock, ParkGrows
<1>5. CASE (\E p \in Projects : BeginDiscard(p)) \/ ActivateSuccessor
  <2>1. parked \subseteq parked' /\ UNCHANGED <<open, active, dirty>>
    BY <1>5 DEF BeginDiscard, ActivateSuccessor
  <2>2. QED
    BY <2>1 DEF ParkGrows
<1>6. CASE DiscardDrained \/ CloseTab
  BY <1>6, CloseParks
<1>7. CASE LeaseStep /\ ~ReleaseLease
  BY <1>7 DEF LeaseStep, BeginQuiesce, QuiesceDrained, ParkGrows
<1>8. CASE ReleaseLease
  <2>1. (ReleaseSchedules /\ parked' = parked \ Scheduled(active)) \/ parked' = parked
    BY <1>8, ReleaseEffect DEF TypeInv
  <2>2. UNCHANGED <<open, active, dirty, lock, readOnly, epoch, doc>>
    BY <1>8 DEF ReleaseLease
  <2>3. QED
    BY <1>8, <2>1, <2>2 DEF ParkGrows, ParkShrinks
<1>9. QED
  BY <1>1, <1>2, <1>3, <1>4, <1>5, <1>6, <1>7, <1>8 DEF Next, SwitchStep, CloseStep, LeaseStep

\* What keeps the project shown parked: no token of it is held.
LEMMA NothingScheduled ==
  ASSUME SwitchInv, LockInv, TypeInv, Between \/ lock.token = 0
  PROVE  Scheduled(active) = {}
<1>1. CASE lock.token = 0
  BY <1>1 DEF Scheduled, WriteFence
<1>2. CASE switchStep = "entering"
  BY <1>2 DEF Scheduled, WriteFence, LockInv, SwitchInv, TargetIsOther
<1>3. QED
  BY <1>1, <1>2 DEF Between, LockInv

LEMMA EditHolds ==
  ASSUME TypeInv, LockInv, Edit
  PROVE  /\ ~readOnly /\ ~Between /\ lock.project = active
         /\ active \notin parked' => lock.token # 0
         /\ active \in Projects
         /\ dirty' = [dirty EXCEPT ![active] = active \in open] /\ dirty \in [Projects -> BOOLEAN]
         /\ parked' \in {parked \cup {active}, parked \ {active}}
         /\ UNCHANGED <<open, active, lock, switchStep>>
<1>1. switchStep = "idle"
  BY DEF Edit, TypeInv, SwitchesPending
<1>2. active \notin parked' => lock.token # 0
  BY DEF Edit, Scheduled, WriteFence
<1>3. parked' \in {parked \cup {active}, parked \ {active}}
  BY DEF Edit, Scheduled
<1>4. QED
  BY <1>1, <1>2, <1>3 DEF Edit, LockInv, Between, TypeInv, TypeParts, TabTypes

LEMMA NextPark ==
  ASSUME TypeInv, SwitchInv, LockInv, ParkInv, Next
  PROVE  ParkInv'
<1>1. /\ active \in Projects /\ dirty \in [Projects -> BOOLEAN] /\ open \subseteq Projects
      /\ granted \in Nat
  BY DEF TypeInv, TypeParts, TabTypes, LockTypes
<1>2. /\ \A p \in Projects : dirty[p] => p \in open
      /\ Between => active \in parked
      /\ \A p \in open \ {active} : dirty[p] => p \in parked
      /\ lock.token = 0 /\ active \in open /\ dirty[active] => active \in parked
  BY DEF ParkInv, DirtyHasTab, LeftIsParked, AwayIsParked, LostIsParked
<1>3. CASE EnterProject
  <2>1. /\ Target \in Projects /\ active' = Target /\ open' = open \cup {Target}
        /\ dirty' = [dirty EXCEPT ![Target] = Target \in open /\ @]
        /\ parked' = parked /\ lock' = lock /\ switchStep' = "idle"
        /\ Target # active /\ Between
    BY <1>3, EnterEffect DEF SwitchInv, TargetIsOther, Between
  <2>2. \A p \in Projects : dirty'[p] => dirty[p] /\ p \in open
    BY <1>1, <1>2, <2>1
  <2>3. DirtyHasTab' /\ LeftIsParked'
    BY <2>1, <2>2 DEF DirtyHasTab, LeftIsParked, Between
  <2>4. AwayIsParked' /\ LostIsParked'
    BY <1>1, <1>2, <2>1, <2>2 DEF AwayIsParked, LostIsParked
  <2>5. QED
    BY <2>3, <2>4 DEF ParkInv
<1>4. CASE ~EnterProject
  <2>1. /\ active' = active
        /\ Between' => Between \/ active \in parked'
        /\ lock'.token = 0 => lock' = lock \/ active \in parked'
    <3>1. CASE ReleaseLock \/ NoticeLoss
      BY <3>1 DEF ReleaseLock, NoticeLoss
    <3>2. CASE RecoverLock \/ ClaimLock
      <4>1. lock'.token = granted + 1 /\ active' = active
        BY <3>2 DEF RecoverLock, ClaimLock, TakeToken
      <4>2. Between' => Between
        BY <3>2 DEF RecoverLock, ClaimLock, Between
      <4>3. QED
        BY <1>1, <4>1, <4>2
    <3>3. CASE LockElsewhere
      BY <3>3 DEF LockElsewhere, Between
    <3>4. QED
      BY <1>4, <3>1, <3>2, <3>3, LockRest
  <2>2. CASE ParkGrows
    <3>1. DirtyHasTab' /\ LeftIsParked'
      BY <1>2, <2>1, <2>2 DEF ParkGrows, DirtyHasTab, LeftIsParked
    <3>2. AwayIsParked' /\ LostIsParked'
      BY <1>1, <1>2, <2>1, <2>2 DEF ParkGrows, AwayIsParked, LostIsParked
    <3>3. QED
      BY <3>1, <3>2 DEF ParkInv
  <2>3. CASE Edit
    <3>1. /\ ~(Between') /\ (active \notin parked' => lock'.token # 0)
          /\ \A p \in Projects \ {active} : dirty'[p] = dirty[p] /\ (p \in parked' <=> p \in parked)
          /\ dirty'[active] = (active \in open) /\ open' = open /\ active' = active
      BY <1>1, <2>3, EditHolds DEF Between
    <3>2. DirtyHasTab' /\ LeftIsParked'
      BY <1>2, <3>1 DEF DirtyHasTab, LeftIsParked
    <3>3. AwayIsParked' /\ LostIsParked'
      BY <1>1, <1>2, <3>1 DEF AwayIsParked, LostIsParked
    <3>4. QED
      BY <3>2, <3>3 DEF ParkInv
  <2>4. CASE ParkShrinks
    <3>1. /\ Between \/ lock.token = 0 => parked' = parked
          /\ parked \ {active} \subseteq parked'
      BY <2>4, NothingScheduled DEF ParkShrinks, Scheduled
    <3>2. UNCHANGED <<open, active, dirty, lock>>
      BY <2>4 DEF ParkShrinks
    <3>3. DirtyHasTab' /\ LeftIsParked'
      BY <1>2, <2>1, <3>1, <3>2 DEF DirtyHasTab, LeftIsParked
    <3>4. AwayIsParked' /\ LostIsParked'
      BY <1>2, <2>1, <3>1, <3>2 DEF AwayIsParked, LostIsParked
    <3>5. QED
      BY <3>3, <3>4 DEF ParkInv
  <2>5. CASE TabCloses
    <3>1. PICK p \in Projects :
            /\ open' = open \ {p} /\ dirty' = [dirty EXCEPT ![p] = FALSE] /\ parked' = parked \ {p}
            /\ ~Reserved(p) /\ UNCHANGED <<active, lock, switchStep>>
      BY <2>5 DEF TabCloses
    <3>2. Between => p # active
      BY <3>1 DEF Reserved, Between
    <3>3. \A q \in Projects \ {p} : dirty'[q] = dirty[q]
      BY <1>1, <3>1
    <3>4. ~dirty'[p]
      BY <1>1, <3>1
    <3>5. DirtyHasTab' /\ LeftIsParked'
      BY <1>2, <3>1, <3>2, <3>3, <3>4 DEF DirtyHasTab, LeftIsParked, Between
    <3>6. AwayIsParked' /\ LostIsParked'
      BY <1>1, <1>2, <3>1, <3>3, <3>4 DEF AwayIsParked, LostIsParked
    <3>7. QED
      BY <3>5, <3>6 DEF ParkInv
  <2>6. QED
    BY <1>4, <2>2, <2>3, <2>4, <2>5, ParkEffect
<1>5. QED
  BY <1>3, <1>4

\* A dirty project that is shown and not parked is one the tab may write.
LEMMA UnparkedHasToken ==
  ASSUME TypeInv, SwitchInv, LockInv, ParkInv, active \notin parked, dirty[active]
  PROVE  WriteFence(active) # 0 /\ lock.project = active /\ lock.token # 0 /\ ~Between
<1>1. active \in Projects /\ active \in open
  BY DEF TypeInv, TypeParts, TabTypes, ParkInv, DirtyHasTab
<1>2. lock.token # 0 /\ ~Between
  BY <1>1 DEF ParkInv, LostIsParked, LeftIsParked
<1>3. QED
  BY <1>2 DEF LockInv, Between, WriteFence

LEMMA NextTimerMayProceed ==
  ASSUME TypeInv, SwitchInv, DrainInv, LockInv, TokenInv, TimerBetween, ParkInv,
         TimerMayProceed, Next
  PROVE  TimerMayProceed'
<1>1. active \in Projects /\ epoch \in [Projects -> Nat]
  BY DEF TypeInv, TypeParts, TabTypes, PipeTypes
<1>2. CASE FlushJoins
  BY <1>2 DEF FlushJoins, TimerMayProceed
<1>3. CASE ReleaseLease /\ ReleaseSchedules
  <2>1. /\ timer' = {CaptureOf(active, doc[active])} /\ UNCHANGED <<active, lock, epoch>>
        /\ parked' = parked \ Scheduled(active) /\ dirty[active]
    BY <1>3, ReleaseEffect DEF TypeInv, ReleaseSchedules
  <2>2. active \notin parked' => WriteFence(active) # 0
    BY <2>1, UnparkedHasToken DEF Scheduled
  <2>3. QED
    BY <2>1, <2>2 DEF TimerMayProceed, CaptureOf, Current, WriteFence
<1>4. CASE Edit
  <2>1. /\ active \notin parked' => lock.token # 0
        /\ lock.project = active /\ UNCHANGED <<active, lock>>
    BY <1>4, EditHolds
  <2>2. CASE Suspended(active)
    BY <1>4, <2>1, <2>2 DEF Edit, TimerWithout, TimerMayProceed
  <2>3. CASE ~Suspended(active)
    <3>1. timer' = {CaptureOf(active, made + 1)} /\ epoch' = epoch
      BY <1>4, <2>3 DEF Edit
    <3>2. QED
      BY <2>1, <3>1 DEF TimerMayProceed, CaptureOf, Current, WriteFence
  <2>4. QED
    BY <2>2, <2>3
<1>5. CASE EnterProject
  <2>1. active' = Target /\ timer' = timer /\ Target # active /\ Between
    BY <1>5, EnterEffect DEF SwitchInv, TargetIsOther, Between
  <2>2. QED
    BY <2>1 DEF TimerBetween, TimerMayProceed
<1>6. CASE TabCloses
  <2>1. PICK p \in Projects :
          /\ parked' = parked \ {p} /\ closing # NoClose /\ p = closing.project
          /\ UNCHANGED <<active, lock, epoch, timer>>
    BY <1>6 DEF TabCloses
  <2>2. \A c \in timer : c.project # p
    BY <2>1 DEF DrainInv, ClosingDrains, Quiet
  <2>3. QED
    BY <2>1, <2>2 DEF TimerMayProceed, Current, WriteFence
<1>7. CASE ParkGrows /\ ~Edit /\ ~(ReleaseLease /\ ReleaseSchedules)
  <2>1. active' = active /\ parked \subseteq parked'
    BY <1>7 DEF ParkGrows
  <2>2. timer' \subseteq timer
    <3>1. ~TimerCaptures
      <4>1. SUFFICES ASSUME TimerCaptures PROVE FALSE
        OBVIOUS
      <4>2. ReleaseLease /\ generation' = generation + 1
        BY <1>7, <4>1 DEF TimerCaptures
      <4>3. generation' = generation /\ generation \in Nat
        BY <1>7, <4>2, ReleaseEffect DEF TypeInv, TypeParts, PipeTypes
      <4>4. QED
        BY <4>2, <4>3
    <3>2. CASE TimerShrinks \/ TimerJoins \/ FlushJoins
      BY <3>2 DEF TimerShrinks, TimerJoins, FlushJoins
    <3>3. CASE HeadGoesOn
      BY <3>3 DEF HeadGoesOn, SaveFrame
    <3>4. QED
      BY <3>1, <3>2, <3>3, PipeEffect
  <2>3. CASE NoticeLoss \/ ReleaseLock
    <3>1. active \in parked'
      BY <2>3 DEF NoticeLoss, ReleaseLock
    <3>2. QED
      BY <2>1, <3>1 DEF TimerMayProceed
  <2>4. CASE RecoverLock \/ ClaimLock
    <3>1. lock.token = 0
      BY <2>4 DEF RecoverLock, ClaimLock, LockInv
    <3>2. QED
      BY <2>1, <2>2, <3>1 DEF TimerMayProceed, Current, WriteFence
  <2>5. CASE lock' = lock
    <3>1. \A c \in timer' : epoch'[c.project] = epoch[c.project]
      <4>1. CASE epoch' = epoch
        BY <4>1
      <4>2. CASE \E p \in Projects : BeginDiscard(p)
        <5>1. PICK p \in Projects : BeginDiscard(p)
          BY <4>2
        <5>2. \A c \in timer' : c.project # p /\ c.project \in Projects
          BY <2>2, <5>1, HeldAreCaptures DEF BeginDiscard, TimerWithout
        <5>3. QED
          BY <1>1, <5>1, <5>2 DEF BeginDiscard
      <4>3. QED
        BY <4>1, <4>2, EpochEffect
    <3>2. QED
      BY <2>1, <2>2, <2>5, <3>1 DEF TimerMayProceed, Current, WriteFence
  <2>6. CASE EnterProject
    BY <1>5, <2>6
  <2>7. QED
    BY <2>3, <2>4, <2>5, <2>6, LockRest DEF LockElsewhere
<1>8. QED
  BY <1>2, <1>3, <1>4, <1>5, <1>6, <1>7, ParkEffect DEF ParkShrinks

\* A save carries the document when it is current, of the newest generation,
\* not superseded, and holds the present document or will take it.
LEMMA CarriesMeans ==
  ASSUME NEW r, Carries(r)
  PROVE  /\ r.project = active /\ ~readOnly /\ r.token # 0
         /\ lock.project = active /\ lock.token = r.token /\ epoch[active] = r.epoch
         /\ r.doc = doc[active] \/ (prepares /\ r.step \in {"queued", "prepare"})
         /\ r.step = "queued" /\ r.auto => newest[active] = r.gen
         /\ r.gen = generation /\ r.step # "maintain"
         /\ MayProceed(r)
BY DEF Carries, WillStore, MayProceed, OwnsWriteFence, WriteFence, IsSuperseded

LEMMA SaveCarries ==
  ASSUME NEW i \in 1..Len(queue'), NEW r, queue'[i] = r, r.project = active', ~readOnly',
         r.token # 0, lock'.project = active', lock'.token = r.token, epoch'[active'] = r.epoch,
         r.doc = doc'[active'] \/ (prepares' /\ r.step \in {"queued", "prepare"}),
         r.step = "queued" /\ r.auto => newest'[active'] = r.gen,
         r.gen = generation', r.step # "maintain"
  PROVE  Carried'
<1>1. Carries(r)'
  BY DEF Carries, WillStore, MayProceed, OwnsWriteFence, WriteFence, IsSuperseded
<1>2. Carries(queue[i])'
  BY <1>1 DEF Carries, WillStore, MayProceed, OwnsWriteFence, WriteFence, IsSuperseded
<1>3. QED
  BY <1>2 DEF Carried

\* Steps that leave alone what carries the document.
LEMMA StaysCarried ==
  ASSUME DirtyIsCarried,
         active' \in open' \ parked' /\ dirty'[active'] /\ ~readOnly' =>
           /\ active \in open \ parked /\ dirty[active] /\ ~readOnly
           /\ UNCHANGED <<active, queue, newest, generation, doc, lock, waiting, prepares>>
           /\ epoch'[active] = epoch[active]
           /\ \A c \in timer : c.project = active => c \in timer'
  PROVE  DirtyIsCarried'
<1> SUFFICES ASSUME active' \in open' \ parked', dirty'[active'], ~readOnly' PROVE Carried'
  BY DEF DirtyIsCarried
<1>1. /\ UNCHANGED <<active, queue, newest, generation, doc, lock, waiting, prepares>>
      /\ epoch'[active] = epoch[active] /\ \A c \in timer : c.project = active => c \in timer'
      /\ Carried
  BY DEF DirtyIsCarried
<1>2. CASE \E c \in timer : c.project = active /\ c.gen = generation
  BY <1>1, <1>2 DEF Carried
<1>3. CASE \E i \in 1..Len(queue) : Carries(queue[i])
  <2>1. PICK i \in 1..Len(queue) : Carries(queue[i])
    BY <1>3
  <2>2. Carries(queue[i])'
    BY <1>1, <2>1, CarriesMeans
    DEF Carries, WillStore, MayProceed, OwnsWriteFence, WriteFence, IsSuperseded
  <2>3. QED
    BY <1>1, <2>2 DEF Carried
<1>4. CASE \E w \in Flushers : waiting[w] = active
  BY <1>1, <1>4 DEF Carried
<1>5. QED
  BY <1>1, <1>2, <1>3, <1>4 DEF Carried

LEMMA FireCarries ==
  ASSUME TypeInv, GenInv, TimerIsPresent, TimerMayProceed, DirtyIsCarried, FireTimer
  PROVE  DirtyIsCarried'
<1> SUFFICES ASSUME active' \in open' \ parked', dirty'[active'], ~readOnly' PROVE Carried'
  BY DEF DirtyIsCarried
<1>1. PICK c \in timer :
        /\ Joined(SaveOf(c, TRUE)) /\ newest' = [newest EXCEPT ![c.project] = c.gen]
        /\ UNCHANGED <<tabVars, lockVars, generation, epoch, waiting, parked, prepares>>
  BY FireEffect DEF TypeInv
<1>2. /\ active' = active /\ active \in open \ parked /\ dirty[active] /\ ~readOnly
      /\ lock' = lock /\ readOnly' = readOnly /\ doc' = doc
  BY <1>1
<1>3. /\ active \in Projects /\ newest \in [Projects -> Nat] /\ Len(queue) \in Nat
      /\ generation \in Nat
  BY DEF TypeInv, TypeParts, TabTypes, QueueTypes, PipeTypes
<1>4. c.gen \in Nat /\ c.gen <= generation /\ c.project \in Projects
  BY HeldAreCaptures DEF GenInv, GensPass
<1>5. CASE c.project = active /\ c.gen = generation
  <2>1. c.doc = doc[active] /\ Current(c)
    BY <1>2, <1>5 DEF TimerIsPresent, TimerMayProceed
  <2>2. c.token # 0 /\ lock.project = active /\ lock.token = c.token /\ epoch[active] = c.epoch
    BY <1>5, <2>1 DEF Current, WriteFence
  <2>3. newest'[active] = c.gen
    <3>1. newest' = [newest EXCEPT ![active] = c.gen]
      BY <1>1, <1>5
    <3>2. QED
      BY <1>3, <3>1
  <2>4. Len(queue) + 1 \in 1..Len(queue') /\ queue'[Len(queue) + 1] = SaveOf(c, TRUE)
    <3>1. Len(queue') = Len(queue) + 1 /\ queue'[Len(queue) + 1] = SaveOf(c, TRUE)
      BY <1>1, Zenon DEF Joined
    <3>2. Len(queue) + 1 \in 1..Len(queue')
      BY <1>3, <3>1
    <3>3. QED
      BY <3>1, <3>2
  <2>5. /\ SaveOf(c, TRUE).project = c.project /\ SaveOf(c, TRUE).token = c.token
        /\ SaveOf(c, TRUE).epoch = c.epoch /\ SaveOf(c, TRUE).doc = c.doc
        /\ SaveOf(c, TRUE).gen = c.gen /\ SaveOf(c, TRUE).step = "queued"
    BY DEF SaveOf
  <2>6. PICK j \in 1..Len(queue') : queue'[j] = SaveOf(c, TRUE)
    BY <2>4
  <2>7. QED
    BY <1>1, <1>2, <1>5, <2>1, <2>2, <2>3, <2>5, <2>6, SaveCarries
<1>6. CASE ~(c.project = active /\ c.gen = generation)
  <2>1. \A d \in timer : d = c
    BY DEF GenInv, AutosInOrder
  <2>2. CASE \E i \in 1..Len(queue) : Carries(queue[i])
    <3>1. PICK i \in 1..Len(queue) : Carries(queue[i])
      BY <2>2
    <3>2. i \in 1..Len(queue') /\ queue'[i] = queue[i]
      BY <1>1, <1>3 DEF Joined
    <3>3. PICK r : r = queue[i]
      OBVIOUS
    <3>4. Carries(r)
      BY <3>1, <3>3
    <3>5. r.step = "queued" /\ r.auto => newest'[active] = r.gen
      <4>1. c.project # active => newest'[active] = newest[active]
        BY <1>1, <1>3, <1>4
      <4>2. r.auto => r.gen < c.gen
        BY <3>3 DEF GenInv, AutosInOrder
      <4>3. r.gen = generation
        BY <3>4, CarriesMeans
      <4>4. ~r.auto
        BY <1>3, <1>4, <4>2, <4>3
      <4>5. QED
        BY <4>4
    <3>6. /\ r.project = active /\ r.token # 0 /\ lock.project = active /\ lock.token = r.token
          /\ epoch[active] = r.epoch /\ r.gen = generation /\ r.step # "maintain"
          /\ r.doc = doc[active] \/ (prepares /\ r.step \in {"queued", "prepare"})
      BY <3>4, CarriesMeans
    <3>7. QED
      BY <1>1, <1>2, <3>2, <3>3, <3>5, <3>6, SaveCarries
  <2>3. CASE \E w \in Flushers : waiting[w] = active
    BY <1>1, <1>2, <2>3 DEF Carried
  <2>4. QED
    BY <1>2, <1>6, <2>1, <2>2, <2>3 DEF DirtyIsCarried, Carried
<1>7. QED
  BY <1>5, <1>6

\* A flush that finds something to save waits, or its save joins the queue.
LEMMA FlushCarries ==
  ASSUME TypeInv, SwitchInv, LockInv, ParkInv, DirtyIsCarried, NEW w \in Flushers,
         Flush(w), FlushFrame
  PROVE  DirtyIsCarried'
<1> SUFFICES ASSUME active' \in open' \ parked', dirty'[active'], ~readOnly' PROVE Carried'
  BY DEF DirtyIsCarried
<1>1. UNCHANGED <<active, open, dirty, doc, lock, readOnly, epoch, generation, prepares>>
  BY DEF FlushFrame
<1>2. active' = active /\ active \in open /\ dirty[active] /\ ~readOnly /\ ~NothingToFlush
  BY <1>1 DEF NothingToFlush
<1>3. CASE Suspended(active)
  <2>1. waiting'[w] = active
    BY <1>2, <1>3, FlushEffect DEF TypeInv
  <2>2. QED
    BY <1>2, <2>1 DEF Carried
<1>4. CASE ~Suspended(active)
  <2>1. Joined(FlushedSave) /\ parked' = parked \ Scheduled(active) /\ newest' = newest
    BY <1>2, <1>4, FlushEffect DEF TypeInv
  <2>2. WriteFence(active) # 0
    BY <1>2, <2>1, UnparkedHasToken DEF Scheduled
  <2>3. lock.project = active /\ lock.token = WriteFence(active)
    BY <2>2 DEF WriteFence
  <2>4. Len(queue) + 1 \in 1..Len(queue') /\ queue'[Len(queue) + 1] = FlushedSave
    BY <2>1 DEF Joined, TypeInv, TypeParts, QueueTypes
  <2>5. PICK j \in 1..Len(queue') : queue'[j] = FlushedSave
    BY <2>4
  <2>6. PICK r : r = FlushedSave
    OBVIOUS
  <2>7. /\ r.project = active /\ r.token = WriteFence(active) /\ r.epoch = epoch[active]
        /\ r.doc = doc[active] /\ r.gen = generation /\ r.step = "queued" /\ ~r.auto
    BY <2>6 DEF FlushedSave, SaveOf, CaptureOf
  <2>8. queue'[j] = r
    BY <2>5, <2>6
  <2>9. QED
    BY <1>1, <1>2, <2>2, <2>3, <2>5, <2>7, <2>8, SaveCarries
<1>5. QED
  BY <1>3, <1>4

LEMMA HeadEndsCarries ==
  ASSUME TypeInv, GenInv, DirtyIsCarried, HeadGoesOn, HeadEnds
  PROVE  DirtyIsCarried'
<1> SUFFICES ASSUME active' \in open' \ parked', dirty'[active'], ~readOnly' PROVE Carried'
  BY DEF DirtyIsCarried
<1>1. /\ UNCHANGED <<active, open, doc, generation, epoch, timer, waiting, prepares, lock, dirty>>
      /\ HeadGone /\ parked \subseteq parked'
      /\ newest' = [newest EXCEPT ![queue[1].project] =
                      IF queue[1].auto /\ @ = queue[1].gen THEN 0 ELSE @]
  BY DEF HeadGoesOn, SaveFrame, HeadEnds
<1>2. active' = active /\ active \in open \ parked /\ dirty[active] /\ ~readOnly
  BY <1>1 DEF HeadEnds
<1>3. /\ active \in Projects /\ newest \in [Projects -> Nat] /\ Len(queue) \in Nat
      /\ queue[1].project \in Projects /\ 1 \in 1..Len(queue)
  <2>1. active \in Projects /\ newest \in [Projects -> Nat] /\ Len(queue) \in Nat
    BY DEF TypeInv, TypeParts, TabTypes, PipeTypes, QueueTypes
  <2>2. queue[1].project \in Projects
    BY DEF HeadGoesOn, Save
  <2>3. 1 \in 1..Len(queue)
    BY <1>1, <2>1 DEF HeadGone
  <2>4. QED
    BY <2>1, <2>2, <2>3
<1>4. CASE \E i \in 1..Len(queue) : Carries(queue[i])
  <2>1. PICK i \in 1..Len(queue) : Carries(queue[i])
    BY <1>4
  <2>2. PICK r : r = queue[i]
    OBVIOUS
  <2>3. Carries(r)
    BY <2>1, <2>2
  <2>4. /\ r.project = active /\ r.token # 0 /\ lock.project = active /\ lock.token = r.token
        /\ epoch[active] = r.epoch /\ r.gen = generation /\ r.step # "maintain"
        /\ r.doc = doc[active] \/ (prepares /\ r.step \in {"queued", "prepare"})
        /\ r.step = "queued" /\ r.auto => newest[active] = r.gen
        /\ MayProceed(r)
    BY <2>3, CarriesMeans
  <2>5. i # 1
    <3>1. SUFFICES ASSUME i = 1 PROVE FALSE
      OBVIOUS
    <3>2. r = queue[1]
      BY <2>2, <3>1
    <3>3. parked' # parked \cup {r.project}
      BY <1>2, <2>4
    <3>4. ~MayProceed(r) \/ r.step = "maintain" \/ (r.step = "queued" /\ IsSuperseded(r))
      BY <3>2, <3>3 DEF HeadEnds
    <3>5. QED
      BY <2>4, <3>4 DEF IsSuperseded
  <2>6. i - 1 \in 1..Len(queue') /\ queue'[i - 1] = r
    BY <1>1, <1>3, <2>2, <2>5 DEF HeadGone
  <2>7. r.step = "queued" /\ r.auto => newest'[active] = r.gen
    <3>1. SUFFICES ASSUME r.step = "queued", r.auto PROVE newest'[active] = newest[active]
      BY <2>4
    <3>2. queue[1].auto => queue[1].gen < r.gen
      BY <1>3, <2>2, <2>5, <3>1 DEF GenInv, AutosInOrder
    <3>3. queue[1].gen \in Nat
      BY <1>3, QueuedAreSaves
    <3>4. ~(queue[1].auto /\ newest[active] = queue[1].gen)
      BY <2>4, <3>1, <3>2, <3>3
    <3>5. QED
      BY <1>1, <1>3, <3>4
  <2>8. PICK j \in 1..Len(queue') : queue'[j] = r
    BY <2>6
  <2>9. QED
    BY <1>1, <1>2, <2>4, <2>7, <2>8, SaveCarries
<1>5. CASE (\E c \in timer : c.project = active /\ c.gen = generation)
             \/ (\E w \in Flushers : waiting[w] = active)
  BY <1>1, <1>5 DEF Carried
<1>6. QED
  BY <1>2, <1>4, <1>5 DEF DirtyIsCarried, Carried

LEMMA PassCarries ==
  ASSUME TypeInv, DirtyIsCarried, HeadGoesOn, Passes
  PROVE  DirtyIsCarried'
<1> SUFFICES ASSUME active' \in open' \ parked', dirty'[active'], ~readOnly' PROVE Carried'
  BY DEF DirtyIsCarried
<1>1. /\ UNCHANGED <<active, open, doc, generation, epoch, timer, waiting, prepares, lock>>
      /\ UNCHANGED <<newest, readOnly, parked>>
      /\ Len(queue) \in Nat /\ 1 \in 1..Len(queue)
  BY DEF HeadGoesOn, SaveFrame, Passes, HeadPasses, TypeInv, TypeParts, QueueTypes
<1>2. active' = active /\ active \in open \ parked /\ dirty[active] /\ ~readOnly
  <2>1. /\ queue[1].project \in Projects /\ dirty \in [Projects -> BOOLEAN] /\ active \in Projects
        /\ dirty'[active]
    BY <1>1 DEF HeadGoesOn, Save, TypeInv, TypeParts, TabTypes
  <2>2. dirty[active]
    BY <2>1 DEF Passes
  <2>3. QED
    BY <1>1, <2>2
<1>3. PICK step \in Steps, d \in {queue[1].doc, doc[queue[1].project]} :
        /\ HeadPasses(step, d)
        /\ step # "queued"
        /\ step = "maintain" =>
             dirty' = [dirty EXCEPT ![queue[1].project] = @ /\ ~PublishesSaved(queue[1])]
        /\ queue[1].step # "prepare" => d = queue[1].doc
        /\ queue[1].step = "queued" => step = "prepare"
        /\ queue[1].step = "prepare" /\ prepares => d = doc[queue[1].project]
        /\ queue[1].step = "prepare" /\ ~prepares => d = queue[1].doc
  BY DEF Passes, Steps
<1>4. CASE \E i \in 1..Len(queue) : Carries(queue[i])
  <2>1. PICK i \in 1..Len(queue) : Carries(queue[i])
    BY <1>4
  <2>2. PICK r : r = queue[i]
    OBVIOUS
  <2>3. Carries(r)
    BY <2>1, <2>2
  <2>4. /\ r.project = active /\ r.token # 0 /\ lock.project = active /\ lock.token = r.token
        /\ epoch[active] = r.epoch /\ r.gen = generation /\ r.step # "maintain"
        /\ r.doc = doc[active] \/ (prepares /\ r.step \in {"queued", "prepare"})
        /\ r.step = "queued" /\ r.auto => newest[active] = r.gen
    BY <2>3, CarriesMeans
  <2>5. i \in 1..Len(queue')
    BY <1>3 DEF HeadPasses
  <2>6. PICK s : s = queue'[i]
    OBVIOUS
  <2>7. /\ s.project = r.project /\ s.gen = r.gen /\ s.epoch = r.epoch /\ s.token = r.token
        /\ s.auto = r.auto
        /\ \/ i = 1 /\ s.step = step /\ s.doc = d
           \/ i \in 2..Len(queue) /\ s = r
    BY <1>3, <2>2, <2>5, <2>6, PassedIndex
  <2>8. CASE i = 1 /\ s.step = step /\ s.doc = d
    <3>1. r = queue[1]
      BY <2>2, <2>8
    <3>2. step # "maintain"
      <4>1. SUFFICES ASSUME step = "maintain" PROVE FALSE
        OBVIOUS
      <4>2. PublishesSaved(queue[1]) /\ queue[1].project = active
        BY <2>4, <3>1 DEF PublishesSaved
      <4>3. dirty \in [Projects -> BOOLEAN] /\ active \in Projects
        BY DEF TypeInv, TypeParts, TabTypes
      <4>4. dirty' = [dirty EXCEPT ![active] = @ /\ ~PublishesSaved(queue[1])]
        BY <1>3, <4>1, <4>2
      <4>5. ~dirty'[active]
        BY <4>2, <4>3, <4>4
      <4>6. QED
        BY <1>2, <4>5
    <3>3. d = doc[active] \/ (prepares /\ step \in {"queued", "prepare"})
      BY <1>3, <2>4, <3>1
    <3>4. QED
      BY <1>1, <1>2, <1>3, <2>4, <2>5, <2>6, <2>7, <2>8, <3>2, <3>3, SaveCarries
  <2>9. CASE i \in 2..Len(queue) /\ s = r
    BY <1>1, <1>2, <2>4, <2>5, <2>6, <2>9, SaveCarries
  <2>10. QED
    BY <2>7, <2>8, <2>9
<1>5. CASE (\E c \in timer : c.project = active /\ c.gen = generation)
             \/ (\E w \in Flushers : waiting[w] = active)
  BY <1>1, <1>5 DEF Carried
<1>6. QED
  BY <1>2, <1>4, <1>5 DEF DirtyIsCarried, Carried

\* A document that has just been captured.
LEMMA CapturedCarries ==
  ASSUME CaptureOf(active, doc'[active]) \in timer', active' = active, generation' = generation + 1
  PROVE  Carried'
<1>1. /\ CaptureOf(active, doc'[active]).project = active
      /\ CaptureOf(active, doc'[active]).gen = generation + 1
  BY DEF CaptureOf
<1>2. PICK c \in timer' : c = CaptureOf(active, doc'[active])
  OBVIOUS
<1>3. QED
  BY <1>1, <1>2 DEF Carried

LEMMA EditCarries ==
  ASSUME TypeInv, LockInv, Edit
  PROVE  DirtyIsCarried'
<1>1. active' = active /\ doc \in [Projects -> Nat] /\ active \in Projects
  BY DEF Edit, TypeInv, TypeParts, TabTypes
<1>2. CASE Suspended(active)
  <2>1. active \in parked'
    BY <1>2 DEF Edit
  <2>2. QED
    BY <1>1, <2>1 DEF DirtyIsCarried
<1>3. CASE ~Suspended(active)
  <2>1. doc'[active] = made + 1
    BY <1>1 DEF Edit
  <2>2. timer' = {CaptureOf(active, doc'[active])} /\ generation' = generation + 1
    BY <1>3, <2>1 DEF Edit
  <2>3. QED
    BY <1>1, <2>2, CapturedCarries DEF DirtyIsCarried
<1>4. QED
  BY <1>2, <1>3

LEMMA LockCarries ==
  ASSUME TypeInv, SwitchInv, LockInv, ParkInv, DirtyIsCarried,
         LockStep \/ ReleaseLock \/ ClaimLock \/ EnterProject
  PROVE  DirtyIsCarried'
<1>1. CASE NoticeLoss \/ ReleaseLock
  BY <1>1 DEF NoticeLoss, ReleaseLock, DirtyIsCarried
<1>2. CASE RecoverLock \/ ClaimLock
  <2>1. lock.token = 0 /\ UNCHANGED <<active, open, dirty, parked>>
    BY <1>2 DEF RecoverLock, ClaimLock, LockInv
  <2>2. QED
    BY <2>1 DEF ParkInv, LostIsParked, DirtyIsCarried
<1>3. CASE EnterProject
  <2>1. /\ Target \in Projects /\ active' = Target /\ parked' = parked
        /\ dirty' = [dirty EXCEPT ![Target] = Target \in open /\ @] /\ Target # active
    BY <1>3, EnterEffect DEF SwitchInv, TargetIsOther
  <2>2. dirty'[Target] => dirty[Target] /\ Target \in open
    BY <2>1 DEF TypeInv, TypeParts, TabTypes
  <2>3. QED
    BY <2>1, <2>2 DEF ParkInv, AwayIsParked, DirtyIsCarried
<1>4. CASE StealLock
  BY <1>4, StaysCarried DEF StealLock
<1>5. CASE WaitForLock
  BY <1>5 DEF WaitForLock, DirtyIsCarried
<1>6. QED
  BY <1>1, <1>2, <1>3, <1>4, <1>5 DEF LockStep

LEMMA CloseCarries ==
  ASSUME TypeInv, SwitchInv, DirtyIsCarried, CloseStep
  PROVE  DirtyIsCarried'
<1>1. active \in Projects /\ epoch \in [Projects -> Nat] /\ dirty \in [Projects -> BOOLEAN]
  BY DEF TypeInv, TypeParts, TabTypes, PipeTypes
<1>2. CASE \E p \in Projects : BeginDiscard(p)
  <2>1. PICK p \in Projects : BeginDiscard(p)
    BY <1>2
  <2>2. /\ UNCHANGED <<active, open, dirty, queue, newest, generation, doc, lock, readOnly, waiting,
                       prepares>>
        /\ parked' = parked \cup {p} /\ epoch' = [epoch EXCEPT ![p] = @ + 1]
        /\ timer' = TimerWithout(p)
    BY <2>1 DEF BeginDiscard
  <2>3. active \notin parked' => /\ epoch'[active] = epoch[active] /\ active \notin parked
                                 /\ \A c \in timer : c.project = active => c \in timer'
    BY <1>1, <2>2 DEF TimerWithout
  <2>4. QED
    BY <2>2, <2>3, StaysCarried
<1>3. CASE ActivateSuccessor
  <2>1. UNCHANGED <<active, open, dirty, parked, queue, newest, generation, doc, lock, readOnly>>
    BY <1>3 DEF ActivateSuccessor
  <2>2. UNCHANGED <<epoch, timer, waiting, prepares>>
    BY <1>3 DEF ActivateSuccessor
  <2>3. QED
    BY <2>1, <2>2, StaysCarried
<1>4. CASE DiscardDrained \/ CloseTab
  <2>1. /\ UNCHANGED <<active, lock, readOnly, epoch, doc, timer>>
        /\ UNCHANGED <<queue, newest, generation, waiting, prepares>>
    BY <1>4 DEF DiscardDrained, CloseTab
  <2>2. CASE ParkGrows
    BY <1>1, <2>1, <2>2, StaysCarried DEF ParkGrows
  <2>3. CASE TabCloses
    <3>1. PICK p \in Projects :
            open' = open \ {p} /\ dirty' = [dirty EXCEPT ![p] = FALSE] /\ parked' = parked \ {p}
      BY <2>3 DEF TabCloses
    <3>2. active \in open' => active # p /\ active \in open
      BY <3>1
    <3>3. QED
      BY <1>1, <2>1, <3>1, <3>2, StaysCarried
  <2>4. QED
    BY <1>4, <2>2, <2>3, CloseParks
<1>5. QED
  BY <1>2, <1>3, <1>4 DEF CloseStep

LEMMA LeaseCarries ==
  ASSUME TypeInv, DirtyIsCarried, LeaseStep
  PROVE  DirtyIsCarried'
<1>1. /\ UNCHANGED <<active, open, dirty, queue, newest, doc, lock, readOnly>>
      /\ UNCHANGED <<waiting, prepares, epoch>>
  BY DEF LeaseStep, BeginQuiesce, QuiesceDrained, ReleaseLease
<1>2. CASE \E p \in Projects : BeginQuiesce(p)
  <2>1. PICK p \in Projects :
          parked' = parked \cup {p} /\ timer' = TimerWithout(p) /\ generation' = generation
    BY <1>2 DEF BeginQuiesce
  <2>2. active \notin parked' => /\ active \notin parked
                                 /\ \A c \in timer : c.project = active => c \in timer'
    BY <2>1 DEF TimerWithout
  <2>3. QED
    BY <1>1, <2>1, <2>2, StaysCarried
<1>3. CASE QuiesceDrained \/ (ReleaseLease /\ ~ReleaseSchedules)
  <2>1. UNCHANGED <<timer, generation, parked>>
    BY <1>3, ReleaseEffect DEF QuiesceDrained, TypeInv
  <2>2. QED
    BY <1>1, <2>1, StaysCarried
<1>4. CASE ReleaseLease /\ ReleaseSchedules
  <2>1. timer' = {CaptureOf(active, doc'[active])} /\ generation' = generation + 1
    BY <1>1, <1>4, ReleaseEffect DEF TypeInv
  <2>2. QED
    BY <1>1, <2>1, CapturedCarries DEF DirtyIsCarried
<1>5. QED
  BY <1>2, <1>3, <1>4 DEF LeaseStep

LEMMA NextCarries ==
  ASSUME TypeInv, SwitchInv, LockInv, GenInv, CleanInv, ParkInv, CarrierInv, Next
  PROVE  DirtyIsCarried'
<1> USE DEF CarrierInv
<1>1. CASE Edit \/ FireTimer
  BY <1>1, EditCarries, FireCarries DEF CleanInv
<1>2. CASE SaveNow \/ (\E w \in Flushers : ResumeFlush(w)) \/ (FlushLeft /\ ~switches[1].skipFlush /\ ~readOnly)
  <2>1. \E w \in Flushers : Flush(w) /\ FlushFrame
    BY <1>2 DEF SaveNow, ResumeFlush, FlushLeft, FlushFrame, Flushers
  <2>2. QED
    BY <2>1, FlushCarries
<1>3. CASE SaveStep
  <2>1. HeadGoesOn
    BY <1>3, SaveStepEffect DEF HeadGoesOn, TypeInv
  <2>2. QED
    BY <2>1, HeadEndsCarries, PassCarries DEF HeadGoesOn
<1>4. CASE LockStep \/ ReleaseLock \/ ClaimLock \/ EnterProject
  BY <1>4, LockCarries
<1>5. CASE \/ (\E p \in Projects : RequestSwitch(p)) \/ BeginSwitch \/ FlushReturned
           \/ FlushLeft /\ (switches[1].skipFlush \/ readOnly)
  <2>1. UNCHANGED <<active, open, dirty, parked, queue, newest, generation, doc, lock, readOnly>>
    BY <1>5 DEF RequestSwitch, BeginSwitch, FlushReturned, FlushLeft
  <2>2. UNCHANGED <<epoch, timer, waiting, prepares>>
    BY <1>5 DEF RequestSwitch, BeginSwitch, FlushReturned, FlushLeft
  <2>3. QED
    BY <2>1, <2>2, StaysCarried
<1>6. CASE CloseStep \/ LeaseStep
  BY <1>6, CloseCarries, LeaseCarries
<1>7. QED
  BY <1>1, <1>2, <1>3, <1>4, <1>5, <1>6 DEF Next, SwitchStep

LEMMA CarrierInvariant == Spec => [](ParkInv /\ CarrierInv)
<1>1. Init => ParkInv /\ CarrierInv
  BY InitCarrier
<1>2. TypeInv /\ SwitchInv /\ DrainInv /\ LockInv /\ TokenInv /\ GenInv /\ CleanInv /\ ParkInv
        /\ CarrierInv /\ [Next]_vars => (ParkInv /\ CarrierInv)'
  <2>1. CASE UNCHANGED vars
    <3>1. UNCHANGED <<active, open, dirty, parked, switchStep, lock, epoch, timer, readOnly>>
      BY <2>1 DEF vars, tabVars, lockVars, switchVars
    <3>2. UNCHANGED <<queue, newest, generation, doc, waiting, prepares>>
      BY <2>1 DEF vars, tabVars, queueVars, switchVars
    <3>3. ParkInv => ParkInv'
      BY <3>1 DEF ParkInv, DirtyHasTab, LeftIsParked, AwayIsParked, LostIsParked, Between
    <3>4. TimerMayProceed => TimerMayProceed'
      BY <3>1 DEF TimerMayProceed, Current, WriteFence
    <3>5. DirtyIsCarried => DirtyIsCarried'
      BY <3>1, <3>2, StaysCarried
    <3>6. QED
      BY <3>3, <3>4, <3>5 DEF CarrierInv
  <2>2. ASSUME TypeInv, SwitchInv, DrainInv, LockInv, TokenInv, GenInv, CleanInv, ParkInv,
               CarrierInv, Next
        PROVE  ParkInv' /\ CarrierInv'
    BY <2>2, NextPark, NextTimerMayProceed, NextCarries DEF CarrierInv, CleanInv
  <2>3. QED
    BY <2>1, <2>2
<1>3. QED
  BY <1>1, <1>2, TypeInvariant, DrainInvariant, LockInvariant, GenInvariant, CleanInvariant, PTL
  DEF Spec

(* Coalescing, cancelled timers, superseded autosaves and flushes that     *)
(* wait never lose the newest unsaved document: the capture or the flush   *)
(* that carries it is of the newest generation, may proceed, and hands it  *)
(* on when it joins the queue, until an event parks it.                    *)
THEOREM UnsavedIsCarried == Spec => []UnsavedIsOnItsWay
<1>1. CleanInv /\ CarrierInv => UnsavedIsOnItsWay
  <2> SUFFICES ASSUME CleanInv, CarrierInv, active \in open \ parked, dirty[active], ~readOnly
               PROVE  OnItsWay(active)
    BY DEF UnsavedIsOnItsWay
  <2>1. Carried
    BY DEF CarrierInv, DirtyIsCarried
  <2>2. CASE \E c \in timer : c.project = active /\ c.gen = generation
    <3>1. PICK c \in timer : c.project = active
      BY <2>2
    <3>2. Current(c) /\ c.doc = doc[active]
      BY <3>1 DEF CarrierInv, TimerMayProceed, CleanInv, TimerIsPresent
    <3>3. MayProceed(c)
      BY <3>2 DEF Current, MayProceed, OwnsWriteFence
    <3>4. QED
      BY <3>1, <3>2, <3>3 DEF OnItsWay
  <2>3. QED
    BY <2>1, <2>2 DEF Carried, Carries, OnItsWay
<1>2. QED
  BY <1>1, CleanInvariant, CarrierInvariant, PTL
=============================================================================
