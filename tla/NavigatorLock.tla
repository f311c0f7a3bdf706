--------------------------- MODULE NavigatorLock ---------------------------
(***************************************************************************)
(* The project lock on top of the browser's lock manager, for one project:  *)
(* a tab asks for the lock, queues for it, or steals it; who steals tells    *)
(* the others on a broadcast channel.  A tab that lost the lock, or that     *)
(* waits read-only, recovers by itself.  The lock manager and the channel    *)
(* are the browser's: what they do is modelled from how the code uses them.  *)
(***************************************************************************)
EXTENDS Naturals, Sequences, SequencesExt

CONSTANTS
  Tabs,
  MaxClaims,  \* bound: forced claims
  NoTab

ASSUME NoTabAssumption == NoTab \notin Tabs
ASSUME MaxClaimsAssumption == MaxClaims \in Nat

VARIABLES
  held,    \* lock manager: the tab whose request holds the lock
  queue,   \* lock manager: the tabs whose requests wait
  robbed,  \* tabs whose request was broken by a steal and that have to learn of it
  told,    \* tabs with a takeover message on its way to their channel
  phase,   \* of each tab: none, asking, queued, pending, claiming, stealing, holding
  claims   \* number of forced claims so far

vars == <<held, queue, robbed, told, phase, claims>>

Holds(t) == phase[t] = "holding"
Waits(t) == phase[t] \in {"queued", "pending"}
Become(t, p) == phase' = [phase EXCEPT ![t] = p]

Init ==
  /\ held = NoTab /\ queue = <<>> /\ robbed = {} /\ told = {}
  /\ phase = [t \in Tabs |-> "none"] /\ claims = 0

-----------------------------------------------------------------------------
(* The lock manager.                                                       *)

\* A request is granted if nobody holds the lock and nobody waits for it.
Free == held = NoTab /\ queue = <<>>

\* The request of t goes: the lock passes to the next, or t leaves the queue.
Leave(t) ==
  IF held = t
  THEN IF queue = <<>> THEN held' = NoTab /\ UNCHANGED queue
       ELSE held' = Head(queue) /\ queue' = Tail(queue)
  ELSE queue' = SelectSeq(queue, LAMBDA u : u # t) /\ UNCHANGED held

-----------------------------------------------------------------------------
(* acquireNavigatorLock.                                                   *)

\* The request that does not wait, of a project that opens or a lock that recovers.
Ask(t) ==
  /\ phase[t] \in {"none", "recovering"}
  /\ IF Free THEN held' = t /\ Become(t, "asking") ELSE Become(t, "refused") /\ UNCHANGED held
  /\ UNCHANGED <<queue, robbed, told, claims>>

\* It was refused: a second request queues.
Queued(t) == Append(queue, t)

Enqueue(t) ==
  /\ phase[t] = "refused" /\ Become(t, "queued")
  /\ IF Free THEN held' = t /\ UNCHANGED queue ELSE queue' = Queued(t) /\ UNCHANGED held
  /\ UNCHANGED <<robbed, told, claims>>

\* Not granted in time for the handoff: the tab goes on read-only and stays queued.
HandoffTimeout(t) ==
  /\ phase[t] = "queued" /\ Become(t, "pending")
  /\ UNCHANGED <<held, queue, robbed, told, claims>>

\* The callback of the request runs with the lock: the tab opens its channel and
\* may write.  The lock may have been stolen since it was granted.
GrantedAnyway(t) == TRUE
Granted(t) == held = t \/ t \in robbed
AcquireInTimeOnly(t) ==
  /\ phase[t] = "asking" \/ (phase[t] = "queued" /\ Granted(t))
  /\ Become(t, "holding") /\ UNCHANGED <<held, queue, robbed, told, claims>>
Acquire(t) ==
  /\ phase[t] = "asking" \/ (Waits(t) /\ Granted(t))
  /\ Become(t, "holding") /\ UNCHANGED <<held, queue, robbed, told, claims>>

-----------------------------------------------------------------------------
(* A forced claim, of a tab that is read-only.                             *)

\* claimProjectLock first gives the queued request up, granted or not.
Claim(t) ==
  /\ phase[t] = "pending" /\ claims < MaxClaims /\ claims' = claims + 1
  /\ Become(t, "claiming") /\ Leave(t) /\ robbed' = robbed \ {t} /\ UNCHANGED told

\* The stealing request breaks the one that holds the lock.
Victim == {held} \ {NoTab}

Steal(t) ==
  /\ phase[t] = "claiming" /\ Become(t, "stealing")
  /\ robbed' = robbed \cup Victim /\ held' = t
  /\ UNCHANGED <<queue, told, claims>>

\* Its callback runs: the tab opens its channel and posts a takeover, which reaches
\* the channels that are open now.
TakeOver(t) ==
  /\ phase[t] = "stealing" /\ Become(t, "holding")
  /\ told' = told \cup {u \in Tabs \ {t} : Holds(u)}
  /\ UNCHANGED <<held, queue, robbed, claims>>

-----------------------------------------------------------------------------
(* The end of a hold.                                                      *)

\* A broken request is finished: the tab is told that the lock is lost, and recovers.
TheftAnnounced(t) == t \in robbed \cap told
Theft(t) == t \in robbed

LearnOfTheft(t) ==
  /\ Holds(t) /\ Theft(t) /\ robbed' = robbed \ {t} /\ told' = told \ {t}
  /\ Become(t, "recovering") /\ UNCHANGED <<held, queue, claims>>

\* loseLock, at any takeover of another.
LoseToMessage(t) ==
  /\ Holds(t) /\ t \in told /\ told' = told \ {t} /\ robbed' = robbed \ {t}
  /\ Become(t, "recovering") /\ Leave(t) /\ UNCHANGED claims

\* The project is closed in the tab, or the page goes away.
Release(t) ==
  /\ Holds(t) \/ phase[t] = "pending"
  /\ Become(t, "none") /\ Leave(t)
  /\ robbed' = robbed \ {t} /\ told' = told \ {t} /\ UNCHANGED claims

ClosePage(t) ==
  /\ phase[t] # "closed" /\ Become(t, "closed") /\ Leave(t)
  /\ robbed' = robbed \ {t} /\ told' = told \ {t} /\ UNCHANGED claims

-----------------------------------------------------------------------------
\* What a tab does by itself once its callbacks are due.
Proceed(t) ==
  \/ phase[t] = "recovering" /\ Ask(t)
  \/ Enqueue(t) \/ HandoffTimeout(t) \/ Acquire(t) \/ Steal(t) \/ TakeOver(t)
  \/ LearnOfTheft(t) \/ LoseToMessage(t)

Next ==
  \E t \in Tabs : Ask(t) \/ Claim(t) \/ Release(t) \/ ClosePage(t) \/ Proceed(t)

Spec == Init /\ [][Next]_vars
\* Callbacks and timers of a page that is not closed run.
FairSpec == Spec /\ \A t \in Tabs : WF_vars(Proceed(t))

-----------------------------------------------------------------------------
\* "Navigator Locks is authoritative" (project-lock.js): two tabs believe that they
\* may write only while one of them has to learn that its lock was stolen.
OneRightfulWriter == \A t, u \in Tabs : Holds(t) /\ Holds(u) /\ t # u => robbed \cap {t, u} # {}

\* A stolen lock does not leave two tabs writing.
TwoWritersEnd ==
  \A t, u \in Tabs : t # u => ((Holds(t) /\ Holds(u)) ~> (~Holds(t) \/ ~Holds(u)))

\* A tab that waits read-only for a lock that has become its own gets to write.
HandoffHappens == \A t \in Tabs : (Waits(t) /\ held = t) ~> (Holds(t) \/ held # t)

\* Only the manager takes the lock from a tab that has it: no message does.
AuthorityIsTheManagers ==
  [][\A t \in Tabs : Holds(t) /\ held = t /\ phase'[t] = "recovering" => t \in robbed]_vars
=============================================================================
