---------------------------- MODULE ProjectLease ----------------------------
(***************************************************************************)
(* The fallback of the project lock for browsers without Web Locks: a       *)
(* lease in localStorage that its owner refreshes, and a BroadcastChannel   *)
(* on which tabs probe an owner, announce claims and take the lease over.   *)
(* One project, several tabs; every attempt of a tab draws a fresh owner    *)
(* id, and of simultaneous claims the one with the least id wins.           *)
(***************************************************************************)
EXTENDS Naturals

CONSTANTS
  Tabs,
  Owners,   \* the owner ids there are, in the order their strings sort in
  Timely,   \* may timers and messages be trusted to be in time?
  Atomic,   \* does a tab write, read back and announce its claim in one step?
  NoOwner

ASSUME OwnersAssumption == Owners \subseteq Nat /\ NoOwner \notin Owners
ASSUME TimelyAssumption == Timely \in BOOLEAN /\ Atomic \in BOOLEAN

VARIABLES
  lease,     \* the entry of localStorage: its owner, and whether it has expired
  used,      \* owner ids drawn so far
  phase,     \* of each tab: where its attempt is
  owner,     \* of each tab: the id of its attempt
  force,     \* of each tab: does the attempt take over?
  probed,    \* of each tab: the owner it probes
  claimants, \* of each tab: the claims it knows of
  released,  \* of each tab: the attempt has lost or given up its claim
  inbox,     \* of each tab: messages on their way to its channel
  ahead      \* of each tab that waits for claims: those that began to wait before

tabVars == <<phase, owner, force, probed, claimants, released>>
vars == <<lease, used, tabVars, inbox, ahead>>

NoLease == [owner |-> NoOwner, expired |-> FALSE]
Live == lease.owner # NoOwner /\ ~lease.expired
Listening(t) == phase[t] \in {"settling", "holding"} /\ ~released[t]
Holds(t) == phase[t] = "holding"

Init ==
  /\ lease = NoLease /\ used = {}
  /\ phase = [t \in Tabs |-> "idle"] /\ owner = [t \in Tabs |-> NoOwner]
  /\ force = [t \in Tabs |-> FALSE] /\ probed = [t \in Tabs |-> NoOwner]
  /\ claimants = [t \in Tabs |-> {}] /\ released = [t \in Tabs |-> FALSE]
  /\ inbox = [t \in Tabs |-> {}] /\ ahead = [t \in Tabs |-> {}]

\* postMessage reaches the channels that are open now, save the sender's.
Posted(boxes, sender, messages) ==
  [t \in Tabs |-> IF t # sender /\ (Listening(t) \/ phase[t] = "probing")
                  THEN boxes[t] \cup messages ELSE boxes[t]]
Message(kind, o) == [kind |-> kind, owner |-> o]

\* What was posted about an owner has arrived.
Heard(o) == \A t \in Tabs : Listening(t) => \A m \in inbox[t] : m.owner # o

AllHeard == \A o \in Owners : Heard(o)

\* Without t: its channel is closed and its place among the waiting is given up.
Left(t) == [u \in Tabs |-> IF u = t THEN {} ELSE ahead[u] \ {t}]

\* A request that was refused, or a lock that was lost, leaves a tab that reads.
ReadOnly(t) ==
  /\ phase' = [phase EXCEPT ![t] = "idle"]
  /\ owner' = [owner EXCEPT ![t] = NoOwner]

\* The code between the write of a lease and the end of its announcement waits for
\* nothing, but another process may run in between, unless Atomic.
Claiming == {t \in Tabs : phase[t] = "verifying"}
MayRun(t) == Atomic => Claiming \subseteq {t}
-----------------------------------------------------------------------------
(* acquireLease.                                                           *)

\* An attempt looks at the lease; a live one of another is not taken without
\* asking its owner first.
Request(t, o, f) ==
  /\ phase[t] = "idle" /\ o \in Owners \ used /\ MayRun(t)
  /\ used' = used \cup {o}
  /\ owner' = [owner EXCEPT ![t] = o] /\ force' = [force EXCEPT ![t] = f]
  /\ released' = [released EXCEPT ![t] = FALSE]
  /\ IF ~f /\ Live
     THEN /\ phase' = [phase EXCEPT ![t] = "probing"]
          /\ probed' = [probed EXCEPT ![t] = lease.owner]
          /\ inbox' = Posted([inbox EXCEPT ![t] = {}], t, {Message("probe", lease.owner)})
     ELSE /\ phase' = [phase EXCEPT ![t] = "writing"]
          /\ UNCHANGED <<probed, inbox>>
  /\ UNCHANGED <<lease, claimants, ahead>>

\* The probe has been answered, or not in time: the lease is read again.
EndProbe(t, alive) ==
  /\ MayRun(t)
  /\ LET stale == ~Live \/ (lease.owner = probed[t] /\ ~alive) IN
     IF stale
     THEN /\ phase' = [phase EXCEPT ![t] = "writing"] /\ UNCHANGED owner
          /\ lease' = IF lease.owner = probed[t] THEN NoLease ELSE lease
     ELSE ReadOnly(t) /\ UNCHANGED lease
  /\ inbox' = [inbox EXCEPT ![t] = {}]
  /\ UNCHANGED <<used, force, probed, claimants, released, ahead>>

ProbeAnswered(t) ==
  /\ phase[t] = "probing" /\ Message("owned", probed[t]) \in inbox[t]
  /\ EndProbe(t, TRUE)

\* In time means that a probe to a listening owner, and its answer, arrive first.
ProbeTimeout(t) ==
  /\ phase[t] = "probing"
  /\ Timely => AllHeard /\ Message("owned", probed[t]) \notin inbox[t]
  /\ EndProbe(t, FALSE)

WriteLease(t) ==
  /\ phase[t] = "writing" /\ MayRun(t) /\ phase' = [phase EXCEPT ![t] = "verifying"]
  /\ lease' = [owner |-> owner[t], expired |-> FALSE]
  /\ UNCHANGED <<used, owner, force, probed, claimants, released, inbox, ahead>>

\* The lease is read back; who still owns it opens the channel and announces itself.
VerifyLease(t) ==
  /\ phase[t] = "verifying"
  /\ IF lease.owner # owner[t] THEN ReadOnly(t) /\ UNCHANGED <<claimants, inbox, ahead>>
     ELSE /\ phase' = [phase EXCEPT ![t] = "settling"] /\ UNCHANGED owner
          /\ claimants' = [claimants EXCEPT ![t] = {owner[t]}]
          /\ ahead' = [ahead EXCEPT ![t] = {u \in Tabs : phase[u] = "settling"}]
          /\ inbox' = Posted([inbox EXCEPT ![t] = {}], t,
                        {Message("claimed", owner[t])} \cup
                        IF force[t] THEN {Message("takeover", owner[t])} ELSE {})
  /\ UNCHANGED <<lease, used, force, probed, released>>

\* After 60 ms the least of the claims it knows of wins.  In time means that the
\* waits end in order, behind the messages sent before, and that no tab needs
\* 60 ms between reading the lease and announcing its claim.
InTime(t) ==
  /\ ahead[t] = {} /\ inbox[t] = {}
  /\ Heard(owner[t])
  /\ \A u \in Tabs : phase[u] \notin {"writing", "verifying"}

KnownToItself(t) == {owner[t]}
Known(t) == claimants[t] \cup IF Live THEN {lease.owner} ELSE {}
Wins(t) == \A o \in Known(t) : owner[t] <= o

Settle(t) ==
  /\ phase[t] = "settling" /\ MayRun(t) /\ (Timely => InTime(t))
  /\ lease' = IF Wins(t) THEN [owner |-> owner[t], expired |-> FALSE]
              ELSE IF lease.owner = owner[t] THEN NoLease ELSE lease
  /\ IF Wins(t) /\ ~released[t]
     THEN phase' = [phase EXCEPT ![t] = "holding"] /\ UNCHANGED <<owner, inbox>>
     ELSE ReadOnly(t) /\ inbox' = [inbox EXCEPT ![t] = {}]
  /\ ahead' = Left(t)
  /\ UNCHANGED <<used, force, probed, claimants, released>>

-----------------------------------------------------------------------------
(* The channel of a claim, and the end of a lease.                         *)

\* loseLease: the claim is over; a holder learns of it, a waiting attempt later.
Lose(t) ==
  /\ released' = [released EXCEPT ![t] = TRUE]
  /\ IF Holds(t) THEN ReadOnly(t) ELSE UNCHANGED <<phase, owner>>
  /\ UNCHANGED claimants

Deliver(t) ==
  /\ Listening(t) /\ MayRun(t) /\ \E m \in inbox[t] :
     LET rest == [inbox EXCEPT ![t] = @ \ {m}] IN
     \/ /\ m.kind = "takeover" /\ Lose(t)
        /\ inbox' = [inbox EXCEPT ![t] = {}]
     \/ /\ m.kind = "claimed" /\ inbox' = rest
        /\ claimants' = [claimants EXCEPT ![t] = @ \cup {m.owner}]
        /\ UNCHANGED <<phase, owner, released>>
     \/ /\ m.kind = "probe"
        /\ inbox' = IF m.owner = owner[t] THEN Posted(rest, t, {Message("owned", owner[t])})
                    ELSE rest
        /\ UNCHANGED <<phase, owner, claimants, released>>
     \/ m.kind = "owned" /\ inbox' = rest /\ UNCHANGED <<phase, owner, claimants, released>>
  /\ UNCHANGED <<lease, used, force, probed, ahead>>

\* The timer of a holder: it refreshes the lease, or finds it gone.
FindsItGone(t) == lease.owner # owner[t]

Heartbeat(t) ==
  /\ Holds(t) /\ MayRun(t)
  /\ \/ /\ lease.owner = owner[t] /\ lease.expired
        /\ lease' = [lease EXCEPT !.expired = FALSE]
        /\ UNCHANGED <<phase, owner, claimants, released, inbox>>
     \/ /\ FindsItGone(t) /\ Lose(t)
        /\ inbox' = [inbox EXCEPT ![t] = {}] /\ UNCHANGED lease
  /\ UNCHANGED <<used, force, probed, ahead>>

\* releaseLease, by the tab or as its page hides.
Release(t) ==
  /\ Holds(t) /\ MayRun(t) /\ ReadOnly(t)
  /\ released' = [released EXCEPT ![t] = TRUE]
  /\ lease' = IF lease.owner = owner[t] THEN NoLease ELSE lease
  /\ inbox' = [inbox EXCEPT ![t] = {}]
  /\ UNCHANGED <<used, force, probed, claimants, ahead>>

Crash(t) ==
  /\ phase[t] # "dead" /\ (Atomic => Claiming = {}) /\ phase' = [phase EXCEPT ![t] = "dead"]
  /\ inbox' = [inbox EXCEPT ![t] = {}] /\ ahead' = Left(t)
  /\ UNCHANGED <<lease, used, owner, force, probed, claimants, released>>

\* The duration has passed without a refresh.  In time means that neither a
\* heartbeat nor the short waits of an attempt ever last that long.
Expire ==
  /\ Live /\ lease' = [lease EXCEPT !.expired = TRUE]
  /\ Timely => \A t \in Tabs : phase[t] \in {"verifying", "settling", "holding"} =>
                                 owner[t] # lease.owner
  /\ Timely => AllHeard
  /\ UNCHANGED <<used, tabVars, inbox, ahead>>

-----------------------------------------------------------------------------
Step(t) ==
  \/ \E o \in Owners, f \in BOOLEAN : Request(t, o, f)
  \/ ProbeAnswered(t) \/ ProbeTimeout(t) \/ WriteLease(t) \/ VerifyLease(t)
  \/ Settle(t) \/ Deliver(t) \/ Heartbeat(t) \/ Release(t) \/ Crash(t)

Next ==
  \/ \E t \in Tabs : Step(t)
  \/ Expire

Spec == Init /\ [][Next]_vars

-----------------------------------------------------------------------------
\* "Acquire a single-writer project lease" (project-lock.js).
SingleWriter == \A t, u \in Tabs : Holds(t) /\ Holds(u) => t = u
=============================================================================
