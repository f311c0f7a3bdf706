------------------------- MODULE ProjectLeaseProofs -------------------------
(***************************************************************************)
(* Theorems about ProjectLease, for any number of tabs and owner ids, with  *)
(* timers and messages in time and claims that are announced in one step.   *)
(***************************************************************************)
EXTENDS ProjectLease, TLAPS

USE OwnersAssumption, TimelyAssumption

Phases == {"idle", "probing", "writing", "verifying", "settling", "holding", "dead"}
Messages == [kind : {"probe", "owned", "claimed", "takeover"}, owner : Owners]

TypeInv ==
  /\ lease \in [owner : Owners \cup {NoOwner}, expired : BOOLEAN]
  /\ used \subseteq Owners
  /\ phase \in [Tabs -> Phases]
  /\ owner \in [Tabs -> Owners \cup {NoOwner}]
  /\ force \in [Tabs -> BOOLEAN]
  /\ probed \in [Tabs -> Owners \cup {NoOwner}]
  /\ claimants \in [Tabs -> SUBSET Owners]
  /\ released \in [Tabs -> BOOLEAN]
  /\ inbox \in [Tabs -> SUBSET Messages]
  /\ ahead \in [Tabs -> SUBSET Tabs]

-----------------------------------------------------------------------------
(* SingleWriter is not inductive.  What keeps a second tab out is spread    *)
(* over the lease, the messages on their way and the order of the waits:    *)
(* a takeover that is still in an inbox, a claim a waiting tab has yet to   *)
(* hear of, the answer to a probe.                                         *)
Waits(t) == phase[t] = "settling"
Attempts(t) == phase[t] \notin {"idle", "dead"}
Warned(u) == \E o \in Owners : Message("takeover", o) \in inbox[u]
Steals(t) == phase[t] = "verifying" /\ force[t]

\* An owner id belongs to one attempt.
OwnInv ==
  /\ lease.owner \in used \cup {NoOwner}
  /\ \A t \in Tabs : Attempts(t) => owner[t] \in used
  /\ \A t, u \in Tabs : Attempts(t) /\ Attempts(u) /\ owner[t] = owner[u] => t = u
  /\ \A t \in Tabs : phase[t] = "probing" => probed[t] \in used

\* The waits are ordered.
OrderInv ==
  /\ \A t, u \in Tabs : u \in ahead[t] => Waits(t) /\ Waits(u) /\ u # t
  /\ \A t, u \in Tabs : Waits(t) /\ Waits(u) /\ t # u => t \in ahead[u] \/ u \in ahead[t]

\* What a tab has written is its own until it is read back, and nobody probes
\* an owner that has yet to announce itself.
ClaimInv ==
  /\ \A t \in Tabs : phase[t] = "verifying" => lease.owner = owner[t]
  /\ \A t \in Tabs : phase[t] \in {"probing", "writing"} => lease.owner # owner[t]
  /\ \A t, u \in Tabs : phase[t] = "probing" /\ phase[u] \in {"probing", "writing", "verifying"} =>
                          probed[t] # owner[u]

\* An owner that listens has the probe before it, or has answered.
ProbeInv ==
  \A t, u \in Tabs : phase[t] = "probing" /\ Listening(u) /\ owner[u] = probed[t] =>
     Message("probe", owner[u]) \in inbox[u] \/ Message("owned", owner[u]) \in inbox[t]

\* A holder's lease is live; it is its own, or a takeover will tell the holder.
\* Who comes after a holder takes over, or waits with a greater id.
Secure(u) ==
  /\ ~released[u] /\ Live
  /\ lease.owner = owner[u] \/ Warned(u) \/ \E t \in Tabs : Steals(t)
Followed(u, t) ==
  /\ phase[t] \in {"writing", "verifying"} => force[t]
  /\ Waits(t) /\ force[t] => Message("takeover", owner[t]) \in inbox[u]
  /\ Waits(t) /\ ~force[t] => owner[u] < owner[t] /\ lease.owner # owner[t]
  /\ Waits(t) /\ ~force[t] /\ Warned(u) => released[t] \/ Warned(t)
HoldInv == \A u \in Tabs : Holds(u) => Secure(u) /\ \A t \in Tabs : Followed(u, t)

\* Who waits hears of every claim made after its own.
Heeds(u, t) ==
  /\ Message("claimed", owner[t]) \in inbox[u] \/ owner[t] \in claimants[u]
  /\ force[t] => Message("takeover", owner[t]) \in inbox[u]
WaitInv == \A u, t \in Tabs : Waits(u) /\ ~released[u] /\ u \in ahead[t] => Heeds(u, t)

LeaseInv ==
  OwnInv /\ OrderInv /\ ClaimInv /\ ProbeInv /\ HoldInv /\ WaitInv /\ SingleWriter

-----------------------------------------------------------------------------
(* What the actions do, tab by tab.                                        *)

\* The attempts of the other tabs stay as they are.
Kept(t) ==
  \A u \in Tabs \ {t} :
    /\ phase'[u] = phase[u] /\ owner'[u] = owner[u] /\ force'[u] = force[u]
    /\ probed'[u] = probed[u] /\ claimants'[u] = claimants[u] /\ released'[u] = released[u]
Hears(u) == Listening(u) \/ phase[u] = "probing"
BoxesKept(t) == \A u \in Tabs \ {t} : inbox'[u] = inbox[u]
Sent(t, messages) ==
  \A u \in Tabs \ {t} : inbox'[u] = IF Hears(u) THEN inbox[u] \cup messages ELSE inbox[u]
Alone(t) == \A u \in Tabs \ {t} : phase[u] # "verifying"
OwnLease(t) == [owner |-> owner[t], expired |-> FALSE]

(* A message is its kind and its owner.                                    *)
LEMMA MessageIsPair ==
  /\ \A k, o : Message(k, o).kind = k /\ Message(k, o).owner = o
  /\ \A k, o, l, p : Message(k, o) = Message(l, p) => k = l /\ o = p
  /\ \A k \in {"probe", "owned", "claimed", "takeover"}, o \in Owners : Message(k, o) \in Messages
<1>1. ASSUME NEW k, NEW o PROVE Message(k, o).kind = k /\ Message(k, o).owner = o
  BY DEF Message
<1>2. ASSUME NEW k \in {"probe", "owned", "claimed", "takeover"}, NEW o \in Owners
      PROVE  Message(k, o) \in Messages
  BY DEF Message, Messages
<1>3. ASSUME NEW k, NEW o, NEW l, NEW p, Message(k, o) = Message(l, p) PROVE k = l /\ o = p
  BY <1>1, <1>3
<1>4. QED
  BY <1>1, <1>2, <1>3

(* Of two messages with one kind and one owner there is one.               *)
LEMMA MessageOf ==
  ASSUME NEW m \in Messages
  PROVE  m = Message(m.kind, m.owner) /\ m.owner \in Owners
BY DEF Message, Messages

(* postMessage adds to the inboxes of the others that hear.                *)
LEMMA PostedBoxes ==
  ASSUME NEW t \in Tabs, NEW boxes \in [Tabs -> SUBSET Messages],
         NEW messages \in SUBSET Messages
  PROVE  /\ Posted(boxes, t, messages) \in [Tabs -> SUBSET Messages]
         /\ Posted(boxes, t, messages)[t] = boxes[t]
         /\ \A u \in Tabs \ {t} : Posted(boxes, t, messages)[u] =
              IF Hears(u) THEN boxes[u] \cup messages ELSE boxes[u]
BY DEF Posted, Hears

(* A tab that opens its channel anew has an empty inbox, and posts.        *)
LEMMA OpenedAndPosted ==
  ASSUME NEW t \in Tabs, NEW messages \in SUBSET Messages, inbox \in [Tabs -> SUBSET Messages],
         inbox' = Posted([inbox EXCEPT ![t] = {}], t, messages)
  PROVE  inbox' \in [Tabs -> SUBSET Messages] /\ inbox'[t] = {} /\ Sent(t, messages)
<1> DEFINE boxes == [inbox EXCEPT ![t] = {}]
<1>1. boxes \in [Tabs -> SUBSET Messages] /\ boxes[t] = {}
  OBVIOUS
<1>2. \A u \in Tabs \ {t} : boxes[u] = inbox[u]
  OBVIOUS
<1>3. inbox' = Posted(boxes, t, messages)
  OBVIOUS
<1> HIDE DEF boxes
<1>4. /\ inbox' \in [Tabs -> SUBSET Messages] /\ inbox'[t] = boxes[t]
      /\ \A u \in Tabs \ {t} : inbox'[u] = IF Hears(u) THEN boxes[u] \cup messages ELSE boxes[u]
  <2>1. /\ Posted(boxes, t, messages) \in [Tabs -> SUBSET Messages]
        /\ Posted(boxes, t, messages)[t] = boxes[t]
        /\ \A u \in Tabs \ {t} : Posted(boxes, t, messages)[u] =
             IF Hears(u) THEN boxes[u] \cup messages ELSE boxes[u]
    BY <1>1, PostedBoxes
  <2>2. QED
    BY <1>3, <2>1, Zenon
<1>5. Sent(t, messages)
  BY <1>2, <1>4 DEF Sent
<1>6. QED
  BY <1>1, <1>4, <1>5

(* With Atomic, no other tab is between the write and the announcement.    *)
LEMMA RunsAlone ==
  ASSUME Atomic, TypeInv, NEW t \in Tabs, MayRun(t)
  PROVE  Alone(t)
BY DEF MayRun, Claiming, Alone

RequestDoes(t, o, f) ==
  /\ phase[t] = "idle" /\ o \in Owners \ used /\ used' = used \cup {o} /\ Kept(t) /\ Alone(t)
  /\ owner'[t] = o /\ force'[t] = f /\ released'[t] = FALSE
  /\ lease' = lease /\ ahead' = ahead
  /\ \/ /\ Live /\ phase'[t] = "probing" /\ probed'[t] = lease.owner
        /\ inbox'[t] = {} /\ Sent(t, {Message("probe", lease.owner)})
     \/ /\ f \/ ~Live
        /\ phase'[t] = "writing" /\ inbox' = inbox

LEMMA RequestEffect ==
  ASSUME Atomic, TypeInv, NEW t \in Tabs, NEW o \in Owners, NEW f \in BOOLEAN, Request(t, o, f)
  PROVE  TypeInv' /\ RequestDoes(t, o, f)
<1>1. Alone(t)
  BY RunsAlone DEF Request
<1>2. CASE ~f /\ Live
  <2>1. lease.owner \in Owners
    BY <1>2 DEF Live, TypeInv
  <2>2. Message("probe", lease.owner) \in Messages
    BY <2>1, MessageIsPair
  <2>4. inbox' = Posted([inbox EXCEPT ![t] = {}], t, {Message("probe", lease.owner)})
    BY <1>2 DEF Request
  <2>5. inbox' \in [Tabs -> SUBSET Messages] /\ inbox'[t] = {}
        /\ Sent(t, {Message("probe", lease.owner)})
    BY <2>2, <2>4, OpenedAndPosted DEF TypeInv
  <2>6. Kept(t) /\ phase'[t] = "probing" /\ probed'[t] = lease.owner
        /\ owner'[t] = o /\ force'[t] = f /\ released'[t] = FALSE
    BY <1>2 DEF Request, Kept, TypeInv
  <2>7. TypeInv'
    BY <1>2, <2>1, <2>5 DEF Request, TypeInv, Phases
  <2>8. QED
    BY <1>1, <1>2, <2>5, <2>6, <2>7 DEF RequestDoes, Request
<1>3. CASE ~(~f /\ Live)
  <2>1. Kept(t) /\ phase'[t] = "writing" /\ owner'[t] = o /\ force'[t] = f
        /\ released'[t] = FALSE /\ inbox' = inbox
    BY <1>3 DEF Request, Kept, TypeInv
  <2>2. TypeInv'
    BY <1>3 DEF Request, TypeInv, Phases
  <2>3. QED
    BY <1>1, <1>3, <2>1, <2>2 DEF RequestDoes, Request
<1>4. QED
  BY <1>2, <1>3

EndProbeDoes(t, alive) ==
  /\ Kept(t) /\ Alone(t) /\ inbox'[t] = {} /\ BoxesKept(t)
  /\ force'[t] = force[t]
  /\ used' = used /\ ahead' = ahead
  /\ \/ /\ ~Live \/ (lease.owner = probed[t] /\ ~alive)
        /\ phase'[t] = "writing" /\ owner'[t] = owner[t]
        /\ lease' = IF lease.owner = probed[t] THEN NoLease ELSE lease
     \/ phase'[t] = "idle" /\ lease' = lease

LEMMA EndProbeEffect ==
  ASSUME Atomic, TypeInv, NEW t \in Tabs, NEW alive \in BOOLEAN, EndProbe(t, alive)
  PROVE  TypeInv' /\ EndProbeDoes(t, alive)
<1>1. Alone(t)
  BY RunsAlone DEF EndProbe
<1>2. inbox'[t] = {} /\ BoxesKept(t) /\ inbox' \in [Tabs -> SUBSET Messages]
  BY DEF EndProbe, BoxesKept, TypeInv
<1>3. NoLease \in [owner : Owners \cup {NoOwner}, expired : BOOLEAN]
  BY DEF NoLease
<1>4. CASE ~Live \/ (lease.owner = probed[t] /\ ~alive)
  <2>1. Kept(t) /\ phase'[t] = "writing" /\ owner'[t] = owner[t] /\ force'[t] = force[t]
    BY <1>4 DEF EndProbe, Kept, TypeInv
  <2>2. TypeInv'
    BY <1>2, <1>3, <1>4 DEF EndProbe, TypeInv, Phases
  <2>3. QED
    BY <1>1, <1>2, <1>4, <2>1, <2>2 DEF EndProbeDoes, EndProbe
<1>5. CASE ~(~Live \/ (lease.owner = probed[t] /\ ~alive))
  <2>1. Kept(t) /\ phase'[t] = "idle" /\ force'[t] = force[t] /\ lease' = lease
    BY <1>5 DEF EndProbe, ReadOnly, Kept, TypeInv
  <2>2. TypeInv'
    BY <1>2, <1>5 DEF EndProbe, ReadOnly, TypeInv, Phases
  <2>3. QED
    BY <1>1, <1>2, <2>1, <2>2 DEF EndProbeDoes, EndProbe
<1>6. QED
  BY <1>4, <1>5

WriteLeaseDoes(t) ==
  /\ phase[t] = "writing" /\ phase'[t] = "verifying" /\ Kept(t) /\ Alone(t)
  /\ lease' = OwnLease(t)
  /\ owner'[t] = owner[t] /\ force'[t] = force[t]
  /\ inbox' = inbox /\ used' = used /\ ahead' = ahead

LEMMA WriteLeaseEffect ==
  ASSUME Atomic, TypeInv, OwnInv, NEW t \in Tabs, WriteLease(t)
  PROVE  TypeInv' /\ WriteLeaseDoes(t)
<1>1. Alone(t)
  BY RunsAlone DEF WriteLease
<1>2. Kept(t) /\ phase'[t] = "verifying"
  BY DEF WriteLease, Kept, TypeInv
<1>3. OwnLease(t) \in [owner : Owners \cup {NoOwner}, expired : BOOLEAN]
  BY DEF OwnLease, TypeInv
<1>4. TypeInv'
  BY <1>3 DEF WriteLease, TypeInv, Phases, OwnLease
<1>5. QED
  BY <1>1, <1>2, <1>4 DEF WriteLease, WriteLeaseDoes, OwnLease

Announcement(t) ==
  {Message("claimed", owner[t])} \cup IF force[t] THEN {Message("takeover", owner[t])} ELSE {}

VerifyLeaseDoes(t) ==
  /\ phase[t] = "verifying" /\ phase'[t] = "settling" /\ Kept(t)
  /\ owner'[t] = owner[t] /\ force'[t] = force[t]
  /\ ahead'[t] = {u \in Tabs : Waits(u)} /\ \A u \in Tabs \ {t} : ahead'[u] = ahead[u]
  /\ inbox'[t] = {} /\ Sent(t, Announcement(t))
  /\ lease' = lease /\ used' = used

LEMMA VerifyLeaseEffect ==
  ASSUME TypeInv, OwnInv, ClaimInv, NEW t \in Tabs, VerifyLease(t)
  PROVE  TypeInv' /\ VerifyLeaseDoes(t)
<1>1. phase[t] = "verifying" /\ lease.owner = owner[t] /\ owner[t] \in Owners
  BY DEF VerifyLease, ClaimInv, OwnInv, Attempts, TypeInv
<1>2. Announcement(t) \in SUBSET Messages
  <2>1. Message("claimed", owner[t]) \in Messages /\ Message("takeover", owner[t]) \in Messages
    BY <1>1, MessageIsPair
  <2>2. QED
    BY <2>1 DEF Announcement
<1>4. inbox' = Posted([inbox EXCEPT ![t] = {}], t, Announcement(t))
  BY <1>1 DEF VerifyLease, Announcement
<1>5. inbox' \in [Tabs -> SUBSET Messages] /\ inbox'[t] = {} /\ Sent(t, Announcement(t))
  BY <1>2, <1>4, OpenedAndPosted DEF TypeInv
<1>6. Kept(t) /\ phase'[t] = "settling"
  BY <1>1 DEF VerifyLease, Kept, TypeInv
<1>7. ahead'[t] = {u \in Tabs : Waits(u)} /\ \A u \in Tabs \ {t} : ahead'[u] = ahead[u]
  BY <1>1 DEF VerifyLease, Waits, TypeInv
<1>8. TypeInv'
  <2>1. phase' \in [Tabs -> Phases]
    BY <1>1 DEF VerifyLease, TypeInv, Phases
  <2>2. claimants' \in [Tabs -> SUBSET Owners]
    BY <1>1 DEF VerifyLease, TypeInv
  <2>3. ahead' \in [Tabs -> SUBSET Tabs]
    BY <1>1 DEF VerifyLease, TypeInv
  <2>4. UNCHANGED <<lease, used, owner, force, probed, released>>
    BY <1>1 DEF VerifyLease
  <2>5. QED
    BY <1>5, <2>1, <2>2, <2>3, <2>4 DEF TypeInv
<1>9. QED
  BY <1>1, <1>5, <1>6, <1>7, <1>8 DEF VerifyLease, VerifyLeaseDoes

AheadWithout(t) == \A u \in Tabs : ahead'[u] = IF u = t THEN {} ELSE ahead[u] \ {t}

LEMMA LeftAhead ==
  ASSUME TypeInv, NEW t \in Tabs, ahead' = Left(t)
  PROVE  ahead' \in [Tabs -> SUBSET Tabs] /\ AheadWithout(t)
BY DEF Left, AheadWithout, TypeInv

(* Who waits for nobody has no place among the waiting.                    *)
LEMMA NotWaiting ==
  ASSUME TypeInv, OrderInv, NEW t \in Tabs, ~Waits(t), ahead' = ahead
  PROVE  AheadWithout(t)
BY DEF OrderInv, AheadWithout, TypeInv

(* The inbox of a tab that closes its channel is gone.                     *)
LEMMA ClosedBox ==
  ASSUME TypeInv, NEW t \in Tabs, inbox' = [inbox EXCEPT ![t] = {}]
  PROVE  inbox' \in [Tabs -> SUBSET Messages] /\ inbox'[t] = {} /\ BoxesKept(t)
BY DEF BoxesKept, TypeInv

SettleDoes(t) ==
  /\ phase[t] = "settling" /\ Alone(t) /\ Kept(t) /\ BoxesKept(t) /\ AheadWithout(t)
  /\ force'[t] = force[t] /\ used' = used
  /\ \/ /\ Wins(t) /\ ~released[t] /\ ~released'[t]
        /\ phase'[t] = "holding" /\ owner'[t] = owner[t] /\ inbox'[t] = inbox[t]
        /\ lease' = OwnLease(t)
     \/ /\ phase'[t] = "idle" /\ inbox'[t] = {}
        /\ lease' = IF Wins(t) THEN OwnLease(t)
                    ELSE IF lease.owner = owner[t] THEN NoLease ELSE lease

LEMMA SettleEffect ==
  ASSUME Atomic, TypeInv, NEW t \in Tabs, Settle(t)
  PROVE  TypeInv' /\ SettleDoes(t)
<1>1. Alone(t)
  BY RunsAlone DEF Settle
<1>2. ahead' \in [Tabs -> SUBSET Tabs] /\ AheadWithout(t)
  BY LeftAhead DEF Settle
<1>3. /\ OwnLease(t) \in [owner : Owners \cup {NoOwner}, expired : BOOLEAN]
      /\ NoLease \in [owner : Owners \cup {NoOwner}, expired : BOOLEAN]
  BY DEF OwnLease, NoLease, TypeInv
<1>4. lease' \in [owner : Owners \cup {NoOwner}, expired : BOOLEAN]
  BY <1>3 DEF Settle, OwnLease, TypeInv
<1>5. CASE Wins(t) /\ ~released[t]
  <2>1. /\ phase' = [phase EXCEPT ![t] = "holding"]
        /\ UNCHANGED <<owner, inbox, used, force, probed, claimants, released>>
        /\ lease' = OwnLease(t)
    BY <1>5 DEF Settle, OwnLease
  <2>2. Kept(t) /\ BoxesKept(t) /\ phase'[t] = "holding"
    BY <2>1 DEF Kept, BoxesKept, TypeInv
  <2>3. TypeInv'
    BY <1>2, <1>4, <2>1 DEF TypeInv, Phases
  <2>4. QED
    BY <1>1, <1>2, <1>5, <2>1, <2>2, <2>3 DEF Settle, SettleDoes
<1>6. CASE ~(Wins(t) /\ ~released[t])
  <2>1. /\ phase' = [phase EXCEPT ![t] = "idle"] /\ owner' = [owner EXCEPT ![t] = NoOwner]
        /\ inbox' = [inbox EXCEPT ![t] = {}]
        /\ UNCHANGED <<used, force, probed, claimants, released>>
        /\ lease' = IF Wins(t) THEN OwnLease(t)
                    ELSE IF lease.owner = owner[t] THEN NoLease ELSE lease
    BY <1>6 DEF Settle, ReadOnly, OwnLease
  <2>2. Kept(t) /\ phase'[t] = "idle"
    BY <2>1 DEF Kept, TypeInv
  <2>3. inbox' \in [Tabs -> SUBSET Messages] /\ inbox'[t] = {} /\ BoxesKept(t)
    BY <2>1, ClosedBox
  <2>4. TypeInv'
    BY <1>2, <1>4, <2>1, <2>3 DEF TypeInv, Phases
  <2>5. QED
    BY <1>1, <1>2, <2>1, <2>2, <2>3, <2>4 DEF Settle, SettleDoes
<1>7. QED
  BY <1>5, <1>6

(* A step that ends the attempt of a tab and leaves the lease alone, or     *)
(* removes it, touches nothing else.                                       *)
EndsQuietly(t) ==
  /\ phase'[t] \in {"idle", "dead"} /\ Kept(t) /\ BoxesKept(t) /\ inbox'[t] = {}
  /\ AheadWithout(t) /\ used' = used

(* loseLease of an attempt that still waits.                               *)
LosesWaiting(t) ==
  /\ phase[t] = "settling" /\ phase' = phase /\ owner' = owner /\ force' = force
  /\ Kept(t) /\ released'[t] /\ inbox'[t] = {} /\ BoxesKept(t)
  /\ lease' = lease /\ used' = used /\ ahead' = ahead

(* Any other message: its tab learns of a claim, answers, or does nothing. *)
GoesOn(t, m) ==
  /\ Listening(t) /\ phase' = phase /\ owner' = owner /\ force' = force
  /\ probed' = probed /\ released' = released
  /\ lease' = lease /\ used' = used /\ ahead' = ahead
  /\ m.kind # "takeover" /\ inbox'[t] = inbox[t] \ {m}
  /\ \A u \in Tabs : claimants[u] \subseteq claimants'[u]
  /\ m.kind = "claimed" => m.owner \in claimants'[t]
  /\ \A u \in Tabs \ {t} : inbox[u] \subseteq inbox'[u]
  /\ \A u \in Tabs, o \in Owners :
       Message("takeover", o) \in inbox'[u] => Message("takeover", o) \in inbox[u]
  /\ m.kind = "probe" /\ m.owner = owner[t] =>
       \A u \in Tabs : phase[u] = "probing" => Message("owned", owner[t]) \in inbox'[u]

LEMMA TakeoverEffect ==
  ASSUME TypeInv, OrderInv, NEW t \in Tabs, Listening(t), Lose(t),
         inbox' = [inbox EXCEPT ![t] = {}],
         UNCHANGED <<used, force, probed, ahead>>
  PROVE  /\ lease' = lease => TypeInv'
         /\ Holds(t) => EndsQuietly(t)
         /\ ~Holds(t) /\ lease' = lease => LosesWaiting(t)
<1>1. inbox' \in [Tabs -> SUBSET Messages] /\ inbox'[t] = {} /\ BoxesKept(t)
  BY ClosedBox
<1>2. CASE Holds(t)
  <2>1. Kept(t) /\ phase'[t] = "idle"
    BY <1>2 DEF Lose, ReadOnly, Kept, TypeInv
  <2>2. AheadWithout(t)
    BY <1>2, NotWaiting DEF Holds, Waits
  <2>3. lease' = lease => TypeInv'
    BY <1>1, <1>2 DEF Lose, ReadOnly, TypeInv, Phases
  <2>4. QED
    BY <1>1, <1>2, <2>1, <2>2, <2>3 DEF EndsQuietly
<1>3. CASE ~Holds(t)
  <2>1. Kept(t) /\ released'[t] /\ phase' = phase /\ owner' = owner
    BY <1>3 DEF Lose, Kept, TypeInv
  <2>2. phase[t] = "settling"
    BY <1>3 DEF Listening, Holds
  <2>3. lease' = lease => TypeInv'
    BY <1>1, <1>3 DEF Lose, TypeInv, Phases
  <2>4. QED
    BY <1>1, <1>3, <2>1, <2>2, <2>3 DEF LosesWaiting
<1>4. QED
  BY <1>2, <1>3

(* The answer to a probe reaches who probes.                               *)
LEMMA AnswerEffect ==
  ASSUME TypeInv, NEW t \in Tabs, NEW m \in inbox[t], Listening(t),
         owner[t] \in Owners,
         inbox' = Posted([inbox EXCEPT ![t] = @ \ {m}], t, {Message("owned", owner[t])})
  PROVE  /\ inbox' \in [Tabs -> SUBSET Messages] /\ inbox'[t] = inbox[t] \ {m}
         /\ Sent(t, {Message("owned", owner[t])})
<1> DEFINE boxes == [inbox EXCEPT ![t] = @ \ {m}]
<1> DEFINE messages == {Message("owned", owner[t])}
<1>1. boxes \in [Tabs -> SUBSET Messages] /\ boxes[t] = inbox[t] \ {m}
  BY DEF TypeInv
<1>2. \A u \in Tabs \ {t} : boxes[u] = inbox[u]
  BY DEF TypeInv
<1>3. messages \in SUBSET Messages
  <2>1. Message("owned", owner[t]) \in Messages
    BY MessageIsPair
  <2>2. QED
    BY <2>1
<1>4. inbox' = Posted(boxes, t, messages)
  OBVIOUS
<1> HIDE DEF boxes, messages
<1>5. /\ Posted(boxes, t, messages) \in [Tabs -> SUBSET Messages]
      /\ Posted(boxes, t, messages)[t] = boxes[t]
      /\ \A u \in Tabs \ {t} : Posted(boxes, t, messages)[u] =
           IF Hears(u) THEN boxes[u] \cup messages ELSE boxes[u]
  BY <1>1, <1>3, PostedBoxes
<1>6. /\ inbox' \in [Tabs -> SUBSET Messages] /\ inbox'[t] = boxes[t]
      /\ \A u \in Tabs \ {t} : inbox'[u] = IF Hears(u) THEN boxes[u] \cup messages ELSE boxes[u]
  BY <1>4, <1>5, Zenon
<1>7. Sent(t, messages)
  BY <1>2, <1>6 DEF Sent
<1>8. QED
  BY <1>1, <1>6, <1>7 DEF messages

(* A message that is taken from an inbox leaves the other inboxes alone.   *)
LEMMA TakenBox ==
  ASSUME TypeInv, NEW t \in Tabs, NEW m, inbox' = [inbox EXCEPT ![t] = @ \ {m}]
  PROVE  /\ inbox' \in [Tabs -> SUBSET Messages] /\ inbox'[t] = inbox[t] \ {m}
         /\ BoxesKept(t)
BY DEF BoxesKept, TypeInv

DeliverDoes(t) ==
  \/ EndsQuietly(t) /\ lease' = lease /\ phase[t] = "holding"
  \/ LosesWaiting(t)
  \/ \E m \in inbox[t] : GoesOn(t, m)

LEMMA DeliverEffect ==
  ASSUME TypeInv, OwnInv, OrderInv, NEW t \in Tabs, Deliver(t)
  PROVE  TypeInv' /\ DeliverDoes(t)
<1>1. Listening(t) /\ UNCHANGED <<lease, used, force, probed, ahead>>
  BY DEF Deliver
<1>2. phase[t] \in {"settling", "holding"} /\ owner[t] \in Owners
  BY <1>1 DEF Listening, OwnInv, Attempts, TypeInv
<1>3. PICK m \in inbox[t] :
        \/ m.kind = "takeover" /\ Lose(t) /\ inbox' = [inbox EXCEPT ![t] = {}]
        \/ /\ m.kind = "claimed" /\ inbox' = [inbox EXCEPT ![t] = @ \ {m}]
           /\ claimants' = [claimants EXCEPT ![t] = @ \cup {m.owner}]
           /\ UNCHANGED <<phase, owner, released>>
        \/ /\ m.kind = "probe"
           /\ inbox' = IF m.owner = owner[t]
                       THEN Posted([inbox EXCEPT ![t] = @ \ {m}], t, {Message("owned", owner[t])})
                       ELSE [inbox EXCEPT ![t] = @ \ {m}]
           /\ UNCHANGED <<phase, owner, claimants, released>>
        \/ /\ m.kind = "owned" /\ inbox' = [inbox EXCEPT ![t] = @ \ {m}]
           /\ UNCHANGED <<phase, owner, claimants, released>>
  BY DEF Deliver
<1>4. m \in Messages
  BY DEF TypeInv
<1>5. m.owner \in Owners
  BY <1>4 DEF Messages
<1>6. CASE m.kind = "takeover" /\ Lose(t) /\ inbox' = [inbox EXCEPT ![t] = {}]
  BY <1>1, <1>2, <1>6, TakeoverEffect DEF DeliverDoes, Holds
<1>7. CASE /\ m.kind = "claimed" /\ inbox' = [inbox EXCEPT ![t] = @ \ {m}]
           /\ claimants' = [claimants EXCEPT ![t] = @ \cup {m.owner}]
           /\ UNCHANGED <<phase, owner, released>>
  <2>1. /\ inbox' \in [Tabs -> SUBSET Messages] /\ inbox'[t] = inbox[t] \ {m}
        /\ BoxesKept(t)
    BY <1>7, TakenBox
  <2>2. /\ claimants' \in [Tabs -> SUBSET Owners] /\ m.owner \in claimants'[t]
        /\ \A u \in Tabs : claimants[u] \subseteq claimants'[u]
    BY <1>5, <1>7 DEF TypeInv
  <2>3. /\ \A u \in Tabs \ {t} : inbox[u] \subseteq inbox'[u]
        /\ \A u \in Tabs, o \in Owners :
             Message("takeover", o) \in inbox'[u] => Message("takeover", o) \in inbox[u]
    BY <2>1 DEF BoxesKept
  <2>4. TypeInv'
    BY <1>1, <1>7, <2>1, <2>2 DEF TypeInv
  <2>5. GoesOn(t, m)
    BY <1>1, <1>7, <2>1, <2>2, <2>3 DEF GoesOn
  <2>6. QED
    BY <2>4, <2>5 DEF DeliverDoes
<1>8. CASE /\ m.kind = "probe" /\ m.owner = owner[t]
           /\ inbox' = Posted([inbox EXCEPT ![t] = @ \ {m}], t, {Message("owned", owner[t])})
           /\ UNCHANGED <<phase, owner, claimants, released>>
  <2>1. /\ inbox' \in [Tabs -> SUBSET Messages] /\ inbox'[t] = inbox[t] \ {m}
        /\ Sent(t, {Message("owned", owner[t])})
    BY <1>1, <1>2, <1>8, AnswerEffect
  <2>2. \A u \in Tabs : phase[u] = "probing" => Message("owned", owner[t]) \in inbox'[u]
    BY <1>2, <2>1 DEF Sent, Hears
  <2>3. \A u \in Tabs \ {t} : inbox[u] \subseteq inbox'[u]
    BY <2>1 DEF Sent
  <2>4. \A u \in Tabs, o \in Owners :
          Message("takeover", o) \in inbox'[u] => Message("takeover", o) \in inbox[u]
    <3>1. \A o \in Owners : Message("takeover", o) # Message("owned", owner[t])
      BY MessageIsPair
    <3>2. QED
      BY <2>1, <3>1 DEF Sent
  <2>5. TypeInv'
    BY <1>1, <1>8, <2>1 DEF TypeInv
  <2>6. GoesOn(t, m)
    BY <1>1, <1>8, <2>1, <2>2, <2>3, <2>4 DEF GoesOn
  <2>7. QED
    BY <2>5, <2>6 DEF DeliverDoes
<1>9. CASE /\ (m.kind = "probe" /\ m.owner # owner[t]) \/ m.kind = "owned"
           /\ inbox' = [inbox EXCEPT ![t] = @ \ {m}]
           /\ UNCHANGED <<phase, owner, claimants, released>>
  <2>1. /\ inbox' \in [Tabs -> SUBSET Messages] /\ inbox'[t] = inbox[t] \ {m}
        /\ BoxesKept(t)
    BY <1>9, TakenBox
  <2>2. /\ \A u \in Tabs \ {t} : inbox[u] \subseteq inbox'[u]
        /\ \A u \in Tabs, o \in Owners :
             Message("takeover", o) \in inbox'[u] => Message("takeover", o) \in inbox[u]
    BY <2>1 DEF BoxesKept
  <2>3. TypeInv'
    BY <1>1, <1>9, <2>1 DEF TypeInv
  <2>4. GoesOn(t, m)
    BY <1>1, <1>9, <2>1, <2>2 DEF GoesOn
  <2>5. QED
    BY <2>3, <2>4 DEF DeliverDoes
<1>10. QED
  BY <1>3, <1>6, <1>7, <1>8, <1>9

LEMMA HeartbeatEffect ==
  ASSUME TypeInv, OrderInv, HoldInv, NEW t \in Tabs, Heartbeat(t)
  PROVE  TypeInv' /\ EndsQuietly(t) /\ lease' = lease /\ phase[t] = "holding"
<1>1. Holds(t) /\ Live
  BY DEF Heartbeat, HoldInv, Secure
<1>2. /\ Lose(t) /\ inbox' = [inbox EXCEPT ![t] = {}] /\ lease' = lease
      /\ UNCHANGED <<used, force, probed, ahead>>
  BY <1>1 DEF Heartbeat, Live
<1>3. ~released[t]
  BY <1>1 DEF HoldInv, Secure
<1>4. Listening(t)
  BY <1>1, <1>3 DEF Listening, Holds
<1>5. QED
  BY <1>1, <1>2, <1>4, TakeoverEffect DEF Holds

ReleaseDoes(t) ==
  /\ phase[t] = "holding" /\ Alone(t) /\ EndsQuietly(t)
  /\ lease' = IF lease.owner = owner[t] THEN NoLease ELSE lease

LEMMA ReleaseEffect ==
  ASSUME Atomic, TypeInv, OrderInv, NEW t \in Tabs, Release(t)
  PROVE  TypeInv' /\ ReleaseDoes(t)
<1>1. Alone(t)
  BY RunsAlone DEF Release
<1>2. inbox' \in [Tabs -> SUBSET Messages] /\ inbox'[t] = {} /\ BoxesKept(t)
  BY ClosedBox DEF Release
<1>3. Kept(t) /\ phase'[t] = "idle" /\ phase[t] = "holding"
  BY DEF Release, ReadOnly, Holds, Kept, TypeInv
<1>4. AheadWithout(t)
  BY <1>3, NotWaiting DEF Release, Waits
<1>5. NoLease \in [owner : Owners \cup {NoOwner}, expired : BOOLEAN]
  BY DEF NoLease
<1>6. TypeInv'
  BY <1>2, <1>5 DEF Release, ReadOnly, TypeInv, Phases
<1>7. QED
  BY <1>1, <1>2, <1>3, <1>4, <1>6 DEF Release, ReleaseDoes, EndsQuietly

LEMMA CrashEffect ==
  ASSUME Atomic, TypeInv, NEW t \in Tabs, Crash(t)
  PROVE  TypeInv' /\ EndsQuietly(t) /\ lease' = lease /\ phase[t] # "verifying"
<1>1. inbox' \in [Tabs -> SUBSET Messages] /\ inbox'[t] = {} /\ BoxesKept(t)
  BY ClosedBox DEF Crash
<1>2. ahead' \in [Tabs -> SUBSET Tabs] /\ AheadWithout(t)
  BY LeftAhead DEF Crash
<1>3. Kept(t) /\ phase'[t] = "dead"
  BY DEF Crash, Kept, TypeInv
<1>4. TypeInv'
  BY <1>1, <1>2 DEF Crash, TypeInv, Phases
<1>5. phase[t] # "verifying"
  BY DEF Crash, Claiming
<1>6. QED
  BY <1>1, <1>2, <1>3, <1>4, <1>5 DEF Crash, EndsQuietly

-----------------------------------------------------------------------------
(* The end of an attempt, whatever ended it.                               *)

LEMMA InitLease == Init => TypeInv /\ LeaseInv
<1> SUFFICES ASSUME Init PROVE TypeInv /\ LeaseInv
  OBVIOUS
<1>1. TypeInv
  BY DEF Init, TypeInv, NoLease, Phases
<1>2. OwnInv /\ OrderInv /\ ClaimInv
  BY DEF Init, OwnInv, OrderInv, ClaimInv, NoLease, Attempts, Waits
<1>3. ProbeInv /\ HoldInv /\ WaitInv /\ SingleWriter
  BY DEF Init, ProbeInv, HoldInv, WaitInv, SingleWriter, Holds, Waits
<1>4. QED
  BY <1>1, <1>2, <1>3 DEF LeaseInv

\* It leaves the lease, removes it when nobody counts on it, or, released while
\* it waited, writes it a last time.
LeaseGoes(t) ==
  \/ lease' = lease
  \/ lease' = NoLease /\ Alone(t) /\ \A u \in Tabs \ {t} : ~Holds(u)
  \/ /\ lease' = OwnLease(t) /\ Attempts(t)
     /\ \A u \in Tabs : phase[u] \notin {"writing", "verifying"}
     /\ \A u \in Tabs \ {t} : Holds(u) => Warned(u)

LEMMA AttemptEnds ==
  ASSUME TypeInv, TypeInv', LeaseInv, NEW t \in Tabs,
         phase[t] # "verifying", EndsQuietly(t), LeaseGoes(t)
  PROVE  LeaseInv'
<1>1. /\ \A u \in Tabs : phase'[u] \notin {"idle", "dead"} => u # t
      /\ \A u \in Tabs \ {t} :
           /\ phase'[u] = phase[u] /\ owner'[u] = owner[u] /\ force'[u] = force[u]
           /\ probed'[u] = probed[u] /\ claimants'[u] = claimants[u]
           /\ released'[u] = released[u] /\ inbox'[u] = inbox[u]
  BY DEF EndsQuietly, Kept, BoxesKept
<1>2. NoLease.owner = NoOwner /\ OwnLease(t).owner = owner[t] /\ ~OwnLease(t).expired
  BY DEF NoLease, OwnLease
<1>3. OwnInv'
  <2>1. used' = used
    BY DEF EndsQuietly
  <2>2. lease'.owner \in used' \cup {NoOwner}
    <3>1. lease.owner \in used \cup {NoOwner} /\ (Attempts(t) => owner[t] \in used)
      BY DEF LeaseInv, OwnInv
    <3>2. lease' = lease \/ lease' = NoLease \/ (lease' = OwnLease(t) /\ Attempts(t))
      BY DEF LeaseGoes
    <3>3. QED
      BY <1>2, <2>1, <3>1, <3>2
  <2>3. QED
    BY <1>1, <2>1, <2>2 DEF LeaseInv, OwnInv, Attempts
<1>4. OrderInv'
  <2>1. \A u \in Tabs : ahead'[u] = IF u = t THEN {} ELSE ahead[u] \ {t}
    BY DEF EndsQuietly, AheadWithout
  <2>2. \A x, u \in Tabs : u \in ahead'[x] => Waits(x)' /\ Waits(u)' /\ u # x
    BY <1>1, <2>1 DEF LeaseInv, OrderInv, Waits
  <2>3. \A x, u \in Tabs : Waits(x)' /\ Waits(u)' /\ x # u => x \in ahead'[u] \/ u \in ahead'[x]
    <3>1. \A x \in Tabs : Waits(x)' => x # t /\ Waits(x)
      BY <1>1 DEF Waits
    <3>2. \A x, u \in Tabs : Waits(x) /\ Waits(u) /\ x # u => x \in ahead[u] \/ u \in ahead[x]
      BY DEF LeaseInv, OrderInv
    <3>3. QED
      BY <2>1, <3>1, <3>2
  <2>4. QED
    BY <2>2, <2>3 DEF OrderInv
<1>5. ClaimInv'
  <2>1. \A u \in Tabs : phase'[u] = "verifying" => lease'.owner = owner'[u]
    BY <1>1, <1>2 DEF LeaseGoes, Alone, LeaseInv, ClaimInv
  <2>2. \A u \in Tabs : phase'[u] \in {"probing", "writing"} => lease'.owner # owner'[u]
    <3>1. \A u \in Tabs : phase[u] \in {"probing", "writing"} =>
            lease.owner # owner[u] /\ owner[u] \in Owners
      BY DEF LeaseInv, ClaimInv, OwnInv, Attempts, TypeInv
    <3>2. CASE lease' = lease \/ lease' = NoLease
      BY <1>1, <1>2, <3>1, <3>2
    <3>3. CASE lease' = OwnLease(t) /\ Attempts(t)
      <4>1. \A u \in Tabs \ {t} : phase[u] \in {"probing", "writing"} => owner[t] # owner[u]
        BY <3>3 DEF LeaseInv, OwnInv, Attempts
      <4>2. QED
        BY <1>1, <1>2, <3>3, <4>1
    <3>4. QED
      BY <3>2, <3>3 DEF LeaseGoes
  <2>3. QED
    BY <1>1, <2>1, <2>2 DEF LeaseInv, ClaimInv
<1>6. ProbeInv'
  BY <1>1 DEF LeaseInv, ProbeInv, Listening
<1>7. HoldInv'
  <2> SUFFICES ASSUME NEW u \in Tabs, Holds(u)' PROVE Secure(u)' /\ \A x \in Tabs : Followed(u, x)'
    BY DEF HoldInv
  <2>1. u # t /\ Holds(u) /\ inbox'[u] = inbox[u] /\ owner'[u] = owner[u]
    BY <1>1 DEF Holds
  <2>2. Secure(u) /\ \A x \in Tabs : Followed(u, x)
    BY <2>1 DEF LeaseInv, HoldInv
  <2>3. \A x \in Tabs \ {t} : Warned(x)' = Warned(x)
    BY <1>1 DEF Warned
  <2>4. lease' = lease \/ (lease' = OwnLease(t) /\ Warned(u) /\ Attempts(t))
    BY <2>1 DEF LeaseGoes
  <2>5. Secure(u)'
    <3>1. \A x \in Tabs : Steals(x) => x # t /\ Steals(x)'
      BY <1>1 DEF Steals
    <3>2. Live'
      <4>1. CASE lease' = lease
        BY <2>2, <4>1 DEF Secure, Live
      <4>2. CASE lease' = OwnLease(t) /\ lease' # lease
        <5>1. owner[t] \in Owners
          BY <1>2, <2>1, <4>2 DEF LeaseGoes, LeaseInv, OwnInv, TypeInv
        <5>2. QED
          BY <1>2, <4>2, <5>1 DEF Live
      <4>3. QED
        BY <2>4, <4>1, <4>2
    <3>3. lease'.owner = owner'[u] \/ Warned(u)' \/ \E x \in Tabs : Steals(x)'
      BY <2>1, <2>2, <2>3, <2>4, <3>1 DEF Secure
    <3>4. ~released'[u]
      BY <1>1, <2>1, <2>2 DEF Secure
    <3>5. QED
      BY <3>2, <3>3, <3>4 DEF Secure
  <2>6. ASSUME NEW x \in Tabs PROVE Followed(u, x)'
    <3>1. CASE x = t
      BY <1>1, <3>1 DEF Followed, Waits
    <3>2. CASE x # t
      <4>1. /\ phase'[x] = phase[x] /\ owner'[x] = owner[x] /\ force'[x] = force[x]
            /\ released'[x] = released[x] /\ Warned(x)' = Warned(x) /\ Warned(u)' = Warned(u)
        BY <1>1, <2>1, <2>3, <3>2
      <4>2. Waits(x) => lease'.owner = lease.owner \/ lease'.owner # owner[x]
        <5>1. Attempts(t) /\ Attempts(x) => owner[t] # owner[x]
          BY <3>2 DEF LeaseInv, OwnInv
        <5>2. Waits(x) => Attempts(x)
          BY DEF Waits, Attempts
        <5>3. QED
          BY <1>2, <2>4, <5>1, <5>2
      <4>3. QED
        BY <2>1, <2>2, <4>1, <4>2 DEF Followed, Waits
    <3>3. QED
      BY <3>1, <3>2
  <2>7. QED
    BY <2>5, <2>6
<1>8. WaitInv'
  <2>1. \A u \in Tabs : ahead'[u] = IF u = t THEN {} ELSE ahead[u] \ {t}
    BY DEF EndsQuietly, AheadWithout
  <2> SUFFICES ASSUME NEW u \in Tabs, NEW x \in Tabs,
                      Waits(u)', ~released'[u], u \in ahead'[x]
               PROVE  Heeds(u, x)'
    BY DEF WaitInv
  <2>2. u # t /\ x # t /\ u \in ahead[x] /\ Waits(u) /\ ~released[u]
    BY <1>1, <2>1 DEF Waits
  <2>3. QED
    BY <1>1, <2>2 DEF LeaseInv, WaitInv, Heeds
<1>9. SingleWriter'
  BY <1>1 DEF LeaseInv, SingleWriter, Holds
<1>10. QED
  BY <1>3, <1>4, <1>5, <1>6, <1>7, <1>8, <1>9 DEF LeaseInv

-----------------------------------------------------------------------------
(* The steps of an attempt.                                                *)

LEMMA RequestKeeps ==
  ASSUME TypeInv, LeaseInv, NEW t \in Tabs, NEW o \in Owners, NEW f \in BOOLEAN,
         RequestDoes(t, o, f)
  PROVE  LeaseInv'
<1>1. /\ phase[t] = "idle" /\ phase'[t] \in {"probing", "writing"} /\ owner'[t] = o
      /\ o \in Owners \ used /\ used' = used \cup {o} /\ lease' = lease /\ ahead' = ahead
  BY DEF RequestDoes
<1>2. \A u \in Tabs \ {t} :
        /\ phase'[u] = phase[u] /\ owner'[u] = owner[u] /\ force'[u] = force[u]
        /\ probed'[u] = probed[u] /\ claimants'[u] = claimants[u] /\ released'[u] = released[u]
  BY DEF RequestDoes, Kept
<1>3. \A u \in Tabs \ {t} : phase[u] # "verifying"
  BY DEF RequestDoes, Alone
<1>4. \A u \in Tabs \ {t} : inbox[u] \subseteq inbox'[u] /\ Warned(u)' = Warned(u)
  <2>1. CASE inbox' = inbox
    BY <2>1 DEF Warned
  <2>2. CASE Sent(t, {Message("probe", lease.owner)})
    <3>1. \A u \in Tabs \ {t} : inbox[u] \subseteq inbox'[u]
      BY <2>2 DEF Sent
    <3>2. \A x \in Owners : Message("takeover", x) # Message("probe", lease.owner)
      BY MessageIsPair
    <3>3. \A u \in Tabs \ {t}, x \in Owners :
            Message("takeover", x) \in inbox'[u] <=> Message("takeover", x) \in inbox[u]
      BY <2>2, <3>2 DEF Sent
    <3>4. QED
      BY <3>1, <3>3 DEF Warned
  <2>3. QED
    BY <2>1, <2>2 DEF RequestDoes
<1>5. OwnInv'
  <2>1. phase'[t] = "probing" => probed'[t] = lease.owner /\ Live
    BY DEF RequestDoes
  <2>2. phase'[t] = "probing" => probed'[t] \in used
    BY <2>1 DEF Live, LeaseInv, OwnInv
  <2>3. \A u \in Tabs : phase'[u] = "probing" => probed'[u] \in used'
    BY <1>1, <1>2, <2>2 DEF LeaseInv, OwnInv
  <2>4. \A u \in Tabs \ {t} : Attempts(u)' => Attempts(u) /\ owner'[u] \in used /\ owner'[u] # o
    BY <1>1, <1>2 DEF LeaseInv, OwnInv, Attempts
  <2>5. \A u \in Tabs : Attempts(u)' => owner'[u] \in used'
    BY <1>1, <2>4
  <2>6. \A u, x \in Tabs : Attempts(u)' /\ Attempts(x)' /\ owner'[u] = owner'[x] => u = x
    BY <1>1, <1>2, <2>4 DEF LeaseInv, OwnInv
  <2>7. lease'.owner \in used' \cup {NoOwner}
    BY <1>1 DEF LeaseInv, OwnInv
  <2>8. QED
    BY <2>3, <2>5, <2>6, <2>7 DEF OwnInv
<1>6. OrderInv'
  BY <1>1, <1>2 DEF LeaseInv, OrderInv, Waits
<1>7. ClaimInv'
  <2>1. \A u \in Tabs : phase'[u] = "verifying" => lease'.owner = owner'[u]
    BY <1>1, <1>2 DEF LeaseInv, ClaimInv
  <2>2. \A u \in Tabs : phase'[u] \in {"probing", "writing"} => lease'.owner # owner'[u]
    <3>1. lease.owner # o
      BY <1>1 DEF LeaseInv, OwnInv
    <3>2. QED
      BY <1>1, <1>2, <3>1 DEF LeaseInv, ClaimInv
  <2>3. ASSUME NEW x \in Tabs, NEW u \in Tabs, phase'[x] = "probing",
               phase'[u] \in {"probing", "writing", "verifying"}
        PROVE  probed'[x] # owner'[u]
    <3>1. CASE x = t
      <4>1. probed'[x] = lease.owner
        BY <2>3, <3>1 DEF RequestDoes
      <4>2. phase'[u] \in {"probing", "writing"}
        BY <1>1, <1>2, <1>3, <2>3
      <4>3. QED
        BY <1>1, <2>2, <4>1, <4>2
    <3>2. CASE x # t /\ u = t
      BY <1>1, <1>2, <2>3, <3>2 DEF LeaseInv, OwnInv
    <3>3. CASE x # t /\ u # t
      BY <1>2, <2>3, <3>3 DEF LeaseInv, ClaimInv
    <3>4. QED
      BY <3>1, <3>2, <3>3
  <2>4. QED
    BY <2>1, <2>2, <2>3 DEF ClaimInv
<1>8. ProbeInv'
  <2> SUFFICES ASSUME NEW x \in Tabs, NEW u \in Tabs,
                      phase'[x] = "probing", Listening(u)', owner'[u] = probed'[x]
               PROVE  \/ Message("probe", owner'[u]) \in inbox'[u]
                      \/ Message("owned", owner'[u]) \in inbox'[x]
    BY DEF ProbeInv
  <2>1. u # t /\ Listening(u) /\ owner'[u] = owner[u]
    BY <1>1, <1>2 DEF Listening
  <2>2. CASE x = t
    <3>1. Sent(t, {Message("probe", owner[u])})
      BY <2>1, <2>2 DEF RequestDoes
    <3>2. QED
      BY <2>1, <3>1 DEF Sent, Hears
  <2>3. CASE x # t
    BY <1>2, <1>4, <2>1, <2>3 DEF LeaseInv, ProbeInv
  <2>4. QED
    BY <2>2, <2>3
<1>9. HoldInv'
  <2> SUFFICES ASSUME NEW u \in Tabs, Holds(u)' PROVE Secure(u)' /\ \A x \in Tabs : Followed(u, x)'
    BY DEF HoldInv
  <2>1. u # t /\ Holds(u)
    BY <1>1, <1>2 DEF Holds
  <2>2. Secure(u) /\ \A x \in Tabs : Followed(u, x)
    BY <2>1 DEF LeaseInv, HoldInv
  <2>3. Live' = Live /\ Live
    BY <1>1, <2>2 DEF Live, Secure
  <2>4. Secure(u)'
    <3>1. ~released'[u] /\ Live'
      BY <1>2, <2>1, <2>2, <2>3 DEF Secure
    <3>2. \A x \in Tabs : Steals(x) => Steals(x)'
      BY <1>1, <1>2 DEF Steals
    <3>3. lease'.owner = owner'[u] \/ Warned(u)' \/ \E x \in Tabs : Steals(x)'
      BY <1>1, <1>2, <1>4, <2>1, <2>2, <3>2 DEF Secure
    <3>4. QED
      BY <3>1, <3>3 DEF Secure
  <2>5. ASSUME NEW x \in Tabs PROVE Followed(u, x)'
    <3>1. CASE x = t
      <4>1. phase'[t] = "writing" => force'[t]
        BY <2>3 DEF RequestDoes
      <4>2. QED
        BY <1>1, <3>1, <4>1 DEF Followed, Waits
    <3>2. CASE x # t
      BY <1>1, <1>2, <1>4, <2>1, <2>2, <3>2 DEF Followed, Waits
    <3>3. QED
      BY <3>1, <3>2
  <2>6. QED
    BY <2>4, <2>5
<1>10. WaitInv'
  <2> SUFFICES ASSUME NEW u \in Tabs, NEW x \in Tabs,
                      Waits(u)', ~released'[u], u \in ahead'[x]
               PROVE  Heeds(u, x)'
    BY DEF WaitInv
  <2>1. u # t /\ Waits(u) /\ ~released[u] /\ u \in ahead[x]
    BY <1>1, <1>2 DEF Waits
  <2>2. x # t
    BY <1>1, <2>1 DEF LeaseInv, OrderInv, Waits
  <2>3. Heeds(u, x)
    BY <2>1 DEF LeaseInv, WaitInv
  <2>4. QED
    BY <1>2, <1>4, <2>1, <2>2, <2>3 DEF Heeds
<1>11. SingleWriter'
  BY <1>1, <1>2 DEF LeaseInv, SingleWriter, Holds
<1>12. QED
  BY <1>5, <1>6, <1>7, <1>8, <1>9, <1>10, <1>11 DEF LeaseInv

(* When everything has been heard, the inbox of a listener is empty.       *)
LEMMA HeardIsEmpty ==
  ASSUME TypeInv, AllHeard, NEW u \in Tabs, Listening(u)
  PROVE  inbox[u] = {} /\ ~Warned(u)
<1>1. \A m \in inbox[u] : m.owner \in Owners
  BY DEF TypeInv, Messages
<1>2. \A o \in Owners : \A m \in inbox[u] : m.owner # o
  BY DEF AllHeard, Heard
<1>3. inbox[u] = {}
  BY <1>1, <1>2
<1>4. QED
  BY <1>3 DEF Warned

LEMMA HolderListens ==
  ASSUME LeaseInv, NEW u \in Tabs, Holds(u)
  PROVE  /\ Secure(u) /\ \A x \in Tabs : Followed(u, x)
         /\ Listening(u) /\ Live
BY DEF LeaseInv, HoldInv, Secure, Holds, Listening

(* An attempt goes on after its probe only when nobody holds.              *)
LEMMA ProbeWins ==
  ASSUME TypeInv, LeaseInv, NEW t \in Tabs, NEW alive \in BOOLEAN, phase[t] = "probing",
         EndProbeDoes(t, alive), phase'[t] = "writing", \A u \in Tabs : ~Holds(u)
  PROVE  LeaseInv'
<1>1. /\ owner'[t] = owner[t] /\ used' = used /\ ahead' = ahead
      /\ lease' = lease \/ lease' = NoLease
  BY DEF EndProbeDoes
<1>2. \A u \in Tabs \ {t} :
        /\ phase'[u] = phase[u] /\ owner'[u] = owner[u] /\ force'[u] = force[u]
        /\ probed'[u] = probed[u] /\ claimants'[u] = claimants[u]
        /\ released'[u] = released[u] /\ inbox'[u] = inbox[u]
  BY DEF EndProbeDoes, Kept, BoxesKept
<1>3. NoLease.owner = NoOwner
  BY DEF NoLease
<1>4. OwnInv'
  BY <1>1, <1>2, <1>3 DEF LeaseInv, OwnInv, Attempts
<1>5. OrderInv'
  BY <1>1, <1>2 DEF LeaseInv, OrderInv, Waits
<1>6. ClaimInv'
  <2>1. \A u \in Tabs : phase'[u] # "verifying"
    BY <1>2 DEF EndProbeDoes, Alone
  <2>2. \A u \in Tabs : phase'[u] \in {"probing", "writing"} =>
          phase[u] \in {"probing", "writing"} /\ owner'[u] = owner[u] /\ owner[u] \in Owners
    BY <1>1, <1>2 DEF LeaseInv, OwnInv, Attempts, TypeInv
  <2>3. \A u \in Tabs : phase'[u] \in {"probing", "writing"} => lease'.owner # owner'[u]
    BY <1>1, <1>3, <2>2 DEF LeaseInv, ClaimInv
  <2>4. \A x, u \in Tabs : phase'[x] = "probing" /\ phase'[u] \in {"probing", "writing", "verifying"} =>
          probed'[x] # owner'[u]
    BY <1>2, <2>1, <2>2 DEF LeaseInv, ClaimInv
  <2>5. QED
    BY <2>1, <2>3, <2>4 DEF ClaimInv
<1>7. ProbeInv'
  <2>1. \A u \in Tabs : Listening(u)' => u # t /\ Listening(u)
    BY <1>2 DEF Listening
  <2>2. QED
    BY <1>2, <2>1 DEF LeaseInv, ProbeInv
<1>8. HoldInv' /\ SingleWriter'
  <2>1. \A u \in Tabs : ~Holds(u)'
    BY <1>2 DEF Holds
  <2>2. QED
    BY <2>1 DEF HoldInv, SingleWriter
<1>9. WaitInv'
  <2> SUFFICES ASSUME NEW u \in Tabs, NEW x \in Tabs,
                      Waits(u)', ~released'[u], u \in ahead'[x]
               PROVE  Heeds(u, x)'
    BY DEF WaitInv
  <2>1. u # t /\ Waits(u) /\ ~released[u] /\ u \in ahead[x]
    BY <1>1, <1>2 DEF Waits
  <2>2. x # t
    BY <2>1 DEF LeaseInv, OrderInv, Waits
  <2>3. Heeds(u, x)
    BY <2>1 DEF LeaseInv, WaitInv
  <2>4. QED
    BY <1>2, <2>1, <2>2, <2>3 DEF Heeds
<1>10. QED
  BY <1>4, <1>5, <1>6, <1>7, <1>8, <1>9 DEF LeaseInv

(* The end of a probe: a holder in time is found alive.                    *)
LEMMA ProbeKeeps ==
  ASSUME Timely, TypeInv, TypeInv', LeaseInv, NEW t \in Tabs, NEW alive \in BOOLEAN,
         phase[t] = "probing", EndProbeDoes(t, alive),
         alive \/ (AllHeard /\ Message("owned", probed[t]) \notin inbox[t])
  PROVE  LeaseInv'
<1>1. CASE phase'[t] = "writing"
  <2>1. ASSUME NEW u \in Tabs, Holds(u) PROVE FALSE
    <3>1. Secure(u) /\ Listening(u) /\ Live
      BY <2>1, HolderListens
    <3>2. lease.owner = probed[t] /\ ~alive
      BY <1>1, <3>1 DEF EndProbeDoes
    <3>3. inbox[u] = {} /\ ~Warned(u)
      BY <3>1, <3>2, HeardIsEmpty
    <3>4. \A x \in Tabs : ~Steals(x)
      BY DEF EndProbeDoes, Alone, Steals
    <3>5. owner[u] = probed[t]
      BY <3>1, <3>2, <3>3, <3>4 DEF Secure
    <3>6. Message("owned", probed[t]) \in inbox[t]
      BY <3>1, <3>3, <3>5 DEF LeaseInv, ProbeInv
    <3>7. QED
      BY <3>2, <3>6
  <2>2. QED
    BY <1>1, <2>1, ProbeWins
<1>2. CASE phase'[t] # "writing"
  <2>1. phase'[t] = "idle" /\ lease' = lease
    BY <1>2 DEF EndProbeDoes
  <2>2. AheadWithout(t)
    BY NotWaiting DEF EndProbeDoes, LeaseInv, Waits
  <2>3. EndsQuietly(t)
    BY <2>1, <2>2 DEF EndProbeDoes, EndsQuietly
  <2>4. QED
    BY <2>1, <2>3, AttemptEnds DEF LeaseGoes
<1>3. QED
  BY <1>1, <1>2

LEMMA WriteLeaseKeeps ==
  ASSUME TypeInv, LeaseInv, NEW t \in Tabs, WriteLeaseDoes(t)
  PROVE  LeaseInv'
<1>1. /\ phase[t] = "writing" /\ phase'[t] = "verifying"
      /\ owner'[t] = owner[t] /\ force'[t] = force[t]
      /\ inbox' = inbox /\ used' = used /\ ahead' = ahead
      /\ lease'.owner = owner[t] /\ ~lease'.expired
  BY DEF WriteLeaseDoes, OwnLease
<1>2. \A u \in Tabs \ {t} :
        /\ phase'[u] = phase[u] /\ owner'[u] = owner[u] /\ force'[u] = force[u]
        /\ probed'[u] = probed[u] /\ claimants'[u] = claimants[u] /\ released'[u] = released[u]
  BY DEF WriteLeaseDoes, Kept
<1>3. owner' [t] = owner[t] /\ owner[t] \in used /\ owner[t] \in Owners
  BY <1>1 DEF LeaseInv, OwnInv, Attempts, TypeInv
<1>4. \A u \in Tabs \ {t} : Attempts(u) => owner[u] # owner[t]
  BY <1>1 DEF LeaseInv, OwnInv, Attempts
<1>5. OwnInv'
  BY <1>1, <1>2, <1>3 DEF LeaseInv, OwnInv, Attempts
<1>6. OrderInv'
  BY <1>1, <1>2 DEF LeaseInv, OrderInv, Waits
<1>7. ClaimInv'
  <2>1. \A u \in Tabs : phase'[u] = "verifying" => u = t
    BY <1>2 DEF WriteLeaseDoes, Alone
  <2>2. \A u \in Tabs : phase'[u] = "verifying" => lease'.owner = owner'[u]
    BY <1>1, <2>1
  <2>3. \A u \in Tabs : phase'[u] \in {"probing", "writing"} => lease'.owner # owner'[u]
    BY <1>1, <1>2, <1>4 DEF Attempts
  <2>4. \A x, u \in Tabs : phase'[x] = "probing" /\ phase'[u] \in {"probing", "writing", "verifying"} =>
          probed'[x] # owner'[u]
    BY <1>1, <1>2 DEF LeaseInv, ClaimInv
  <2>5. QED
    BY <2>2, <2>3, <2>4 DEF ClaimInv
<1>8. ProbeInv'
  BY <1>1, <1>2 DEF LeaseInv, ProbeInv, Listening
<1>9. HoldInv'
  <2> SUFFICES ASSUME NEW u \in Tabs, Holds(u)' PROVE Secure(u)' /\ \A x \in Tabs : Followed(u, x)'
    BY DEF HoldInv
  <2>1. u # t /\ Holds(u)
    BY <1>1, <1>2 DEF Holds
  <2>2. Secure(u) /\ \A x \in Tabs : Followed(u, x)
    BY <2>1 DEF LeaseInv, HoldInv
  <2>3. Steals(t)'
    BY <1>1, <2>2 DEF Steals, Followed
  <2>4. Secure(u)'
    BY <1>1, <1>2, <1>3, <2>1, <2>2, <2>3 DEF Secure, Live
  <2>5. ASSUME NEW x \in Tabs PROVE Followed(u, x)'
    <3>1. CASE x = t
      BY <1>1, <2>2, <3>1 DEF Followed, Waits
    <3>2. CASE x # t
      <4>1. Waits(x) => lease'.owner # owner[x]
        BY <1>1, <1>4, <3>2 DEF Waits, Attempts
      <4>2. Warned(x)' = Warned(x) /\ Warned(u)' = Warned(u)
        BY <1>1 DEF Warned
      <4>3. QED
        BY <1>1, <1>2, <2>1, <2>2, <3>2, <4>1, <4>2 DEF Followed, Waits
    <3>3. QED
      BY <3>1, <3>2
  <2>6. QED
    BY <2>4, <2>5
<1>10. WaitInv'
  <2> SUFFICES ASSUME NEW u \in Tabs, NEW x \in Tabs,
                      Waits(u)', ~released'[u], u \in ahead'[x]
               PROVE  Heeds(u, x)'
    BY DEF WaitInv
  <2>1. u # t /\ Waits(u) /\ ~released[u] /\ u \in ahead[x]
    BY <1>1, <1>2 DEF Waits
  <2>2. x # t
    BY <1>1, <2>1 DEF LeaseInv, OrderInv, Waits
  <2>3. Heeds(u, x)
    BY <2>1 DEF LeaseInv, WaitInv
  <2>4. QED
    BY <1>1, <1>2, <2>1, <2>2, <2>3 DEF Heeds
<1>11. SingleWriter'
  BY <1>1, <1>2 DEF LeaseInv, SingleWriter, Holds
<1>12. QED
  BY <1>5, <1>6, <1>7, <1>8, <1>9, <1>10, <1>11 DEF LeaseInv

(* The announcement of a claim reaches every holder and every tab that     *)
(* waits.                                                                  *)
LEMMA VerifyLeaseKeeps ==
  ASSUME TypeInv, LeaseInv, NEW t \in Tabs, VerifyLeaseDoes(t)
  PROVE  LeaseInv'
<1>1. /\ phase[t] = "verifying" /\ phase'[t] = "settling"
      /\ owner'[t] = owner[t] /\ force'[t] = force[t] /\ inbox'[t] = {}
      /\ lease' = lease /\ used' = used
  BY DEF VerifyLeaseDoes
<1>2. \A u \in Tabs \ {t} :
        /\ phase'[u] = phase[u] /\ owner'[u] = owner[u] /\ force'[u] = force[u]
        /\ probed'[u] = probed[u] /\ claimants'[u] = claimants[u] /\ released'[u] = released[u]
        /\ ahead'[u] = ahead[u]
  BY DEF VerifyLeaseDoes, Kept
<1>3. lease.owner = owner[t] /\ owner[t] \in Owners
  BY <1>1 DEF LeaseInv, ClaimInv, OwnInv, Attempts, TypeInv
<1>4. \A u \in Tabs \ {t} : Attempts(u) => owner[u] # owner[t]
  BY <1>1 DEF LeaseInv, OwnInv, Attempts
<1>5. \A u \in Tabs \ {t} : phase[u] # "verifying"
  BY <1>3, <1>4 DEF LeaseInv, ClaimInv, Attempts
<1>6. \A u \in Tabs \ {t} :
        /\ inbox[u] \subseteq inbox'[u]
        /\ Listening(u) => Message("claimed", owner[t]) \in inbox'[u]
        /\ Listening(u) /\ force[t] => Message("takeover", owner[t]) \in inbox'[u]
  BY DEF VerifyLeaseDoes, Sent, Hears, Announcement
<1>7. ~force[t] => \A u \in Tabs \ {t} : Warned(u)' = Warned(u)
  <2> SUFFICES ASSUME ~force[t] PROVE \A u \in Tabs \ {t} : Warned(u)' = Warned(u)
    OBVIOUS
  <2>1. Announcement(t) = {Message("claimed", owner[t])}
    BY DEF Announcement
  <2>2. \A o \in Owners : Message("takeover", o) # Message("claimed", owner[t])
    BY MessageIsPair
  <2>3. \A u \in Tabs \ {t}, o \in Owners :
          Message("takeover", o) \in inbox'[u] <=> Message("takeover", o) \in inbox[u]
    BY <2>1, <2>2 DEF VerifyLeaseDoes, Sent
  <2>4. QED
    BY <2>3 DEF Warned
<1>8. \A u \in Tabs : Waits(u)' <=> u = t \/ Waits(u)
  BY <1>1, <1>2 DEF Waits
<1>9. t \notin {u \in Tabs : Waits(u)} /\ ahead'[t] = {u \in Tabs : Waits(u)}
  BY <1>1 DEF VerifyLeaseDoes, Waits
<1>10. OwnInv'
  BY <1>1, <1>2 DEF LeaseInv, OwnInv, Attempts
<1>11. OrderInv'
  <2>1. \A x, u \in Tabs : u \in ahead[x] => Waits(x) /\ Waits(u) /\ u # x
    BY DEF LeaseInv, OrderInv
  <2>2. \A x, u \in Tabs : Waits(x) /\ Waits(u) /\ x # u => x \in ahead[u] \/ u \in ahead[x]
    BY DEF LeaseInv, OrderInv
  <2>3. \A x, u \in Tabs : u \in ahead'[x] => Waits(x)' /\ Waits(u)' /\ u # x
    BY <1>2, <1>8, <1>9, <2>1
  <2>4. \A x, u \in Tabs : Waits(x)' /\ Waits(u)' /\ x # u => x \in ahead'[u] \/ u \in ahead'[x]
    BY <1>2, <1>8, <1>9, <2>2
  <2>5. QED
    BY <2>3, <2>4 DEF OrderInv
<1>12. ClaimInv'
  <2>1. \A u \in Tabs : phase'[u] # "verifying"
    BY <1>1, <1>2, <1>5
  <2>2. QED
    BY <1>1, <1>2, <2>1 DEF LeaseInv, ClaimInv
<1>13. ProbeInv'
  <2> SUFFICES ASSUME NEW x \in Tabs, NEW u \in Tabs,
                      phase'[x] = "probing", Listening(u)', owner'[u] = probed'[x]
               PROVE  \/ Message("probe", owner'[u]) \in inbox'[u]
                      \/ Message("owned", owner'[u]) \in inbox'[x]
    BY DEF ProbeInv
  <2>1. x # t /\ phase[x] = "probing" /\ probed'[x] = probed[x]
    BY <1>1, <1>2
  <2>2. u # t
    BY <1>1, <2>1 DEF LeaseInv, ClaimInv
  <2>3. Listening(u) /\ owner'[u] = owner[u]
    BY <1>2, <2>2 DEF Listening
  <2>4. QED
    BY <1>6, <2>1, <2>2, <2>3 DEF LeaseInv, ProbeInv
<1>14. HoldInv'
  <2> SUFFICES ASSUME NEW u \in Tabs, Holds(u)' PROVE Secure(u)' /\ \A x \in Tabs : Followed(u, x)'
    BY DEF HoldInv
  <2>1. u # t /\ Holds(u)
    BY <1>1, <1>2 DEF Holds
  <2>2. Secure(u) /\ (\A x \in Tabs : Followed(u, x)) /\ Listening(u)
    BY <2>1, HolderListens
  <2>3. force[t]
    BY <1>1, <2>2 DEF Followed
  <2>4. Message("takeover", owner[t]) \in inbox'[u]
    BY <1>6, <2>1, <2>2, <2>3
  <2>5. Warned(u)'
    BY <1>3, <2>4 DEF Warned
  <2>6. Secure(u)'
    BY <1>1, <1>2, <2>1, <2>2, <2>5 DEF Secure, Live
  <2>7. ASSUME NEW x \in Tabs PROVE Followed(u, x)'
    <3>1. CASE x = t
      BY <1>1, <2>3, <2>4, <3>1 DEF Followed
    <3>2. CASE x # t
      <4>1. phase'[x] \in {"writing", "verifying"} => force'[x]
        BY <1>2, <2>2, <3>2 DEF Followed
      <4>2. Waits(x)' /\ force'[x] => Message("takeover", owner'[x]) \in inbox'[u]
        BY <1>2, <1>6, <2>1, <2>2, <3>2 DEF Followed, Waits
      <4>3. Waits(x)' /\ ~force'[x] => owner'[u] < owner'[x] /\ lease'.owner # owner'[x]
        BY <1>1, <1>2, <2>1, <2>2, <3>2 DEF Followed, Waits
      <4>4. Waits(x)' => released'[x] \/ Warned(x)'
        <5>1. Waits(x)' /\ ~released'[x] => Listening(x)
          BY <1>2, <3>2 DEF Waits, Listening
        <5>2. QED
          BY <1>3, <1>6, <2>3, <3>2, <5>1 DEF Warned
      <4>5. QED
        BY <4>1, <4>2, <4>3, <4>4 DEF Followed
    <3>3. QED
      BY <3>1, <3>2
  <2>8. QED
    BY <2>6, <2>7
<1>15. WaitInv'
  <2> SUFFICES ASSUME NEW u \in Tabs, NEW x \in Tabs,
                      Waits(u)', ~released'[u], u \in ahead'[x]
               PROVE  Heeds(u, x)'
    BY DEF WaitInv
  <2>1. u # t
    <3>1. x = t => u # t
      BY <1>9
    <3>2. x # t => u \in ahead[x]
      BY <1>2
    <3>3. u \in ahead[x] => Waits(u)
      BY DEF LeaseInv, OrderInv
    <3>4. ~Waits(t)
      BY <1>1 DEF Waits
    <3>5. QED
      BY <3>1, <3>2, <3>3, <3>4
  <2>2. Waits(u) /\ ~released[u] /\ Listening(u) /\ claimants'[u] = claimants[u]
    BY <1>2, <2>1 DEF Waits, Listening
  <2>3. CASE x = t
    BY <1>1, <1>6, <2>1, <2>2, <2>3 DEF Heeds
  <2>4. CASE x # t
    <3>1. Heeds(u, x)
      BY <1>2, <2>2, <2>4 DEF LeaseInv, WaitInv
    <3>2. QED
      BY <1>2, <1>6, <2>1, <2>2, <2>4, <3>1 DEF Heeds
  <2>5. QED
    BY <2>3, <2>4
<1>16. SingleWriter'
  BY <1>1, <1>2 DEF LeaseInv, SingleWriter, Holds
<1>17. QED
  BY <1>10, <1>11, <1>12, <1>13, <1>14, <1>15, <1>16 DEF LeaseInv

(* A wait that ends in time while another holds ends without the lock: it  *)
(* leaves the holder's lease, or writes over it when the holder is told.   *)
LEMMA SettlesBehindHolder ==
  ASSUME TypeInv, LeaseInv, NEW t \in Tabs, NEW u \in Tabs, Holds(u),
         Waits(t), InTime(t)
  PROVE  /\ ~force[t] /\ lease.owner # owner[t]
         /\ Wins(t) => released[t] /\ Warned(u)
<1>1. Secure(u) /\ Followed(u, t) /\ Listening(u) /\ Live
  BY HolderListens
<1>2. inbox[t] = {} /\ (\A m \in inbox[u] : m.owner # owner[t])
      /\ \A x \in Tabs : phase[x] \notin {"writing", "verifying"}
  BY <1>1 DEF InTime, Heard
<1>3. ~force[t]
  <2>1. Message("takeover", owner[t]).owner = owner[t]
    BY MessageIsPair
  <2>2. QED
    BY <1>1, <1>2, <2>1 DEF Followed
<1>4. owner[u] < owner[t] /\ lease.owner # owner[t]
  BY <1>1, <1>3 DEF Followed
<1>5. lease.owner = owner[u] \/ Warned(u)
  BY <1>1, <1>2 DEF Secure, Steals
<1>6. owner[u] \in Nat /\ owner[t] \in Nat
  BY DEF LeaseInv, OwnInv, Attempts, Holds, Waits, TypeInv
<1>7. lease.owner = owner[u] => ~Wins(t)
  BY <1>1, <1>4, <1>6 DEF Wins, Known
<1>8. ~Warned(t)
  BY <1>2 DEF Warned
<1>9. Warned(u) => released[t]
  BY <1>1, <1>3, <1>8 DEF Followed
<1>10. QED
  BY <1>3, <1>4, <1>5, <1>7, <1>9

(* A wait that ends with the lock: there was no holder, and who waits on    *)
(* has a greater id.                                                       *)
LEMMA SettleHolds ==
  ASSUME TypeInv, LeaseInv, NEW t \in Tabs, InTime(t), SettleDoes(t), phase'[t] = "holding"
  PROVE  LeaseInv'
<1>1. /\ phase[t] = "settling" /\ Wins(t) /\ ~released[t] /\ ~released'[t]
      /\ owner'[t] = owner[t] /\ force'[t] = force[t] /\ inbox'[t] = inbox[t] /\ used' = used
      /\ lease'.owner = owner[t] /\ ~lease'.expired
  BY DEF SettleDoes, OwnLease
<1>2. \A u \in Tabs \ {t} :
        /\ phase'[u] = phase[u] /\ owner'[u] = owner[u] /\ force'[u] = force[u]
        /\ probed'[u] = probed[u] /\ claimants'[u] = claimants[u]
        /\ released'[u] = released[u] /\ inbox'[u] = inbox[u]
  BY DEF SettleDoes, Kept, BoxesKept
<1>3. Waits(t) /\ Attempts(t) /\ owner[t] \in Owners /\ owner[t] \in used
  BY <1>1 DEF Waits, LeaseInv, OwnInv, Attempts, TypeInv
<1>4. /\ ahead[t] = {} /\ inbox[t] = {}
      /\ \A u \in Tabs : phase[u] \notin {"writing", "verifying"}
  BY DEF InTime
<1>5. \A u \in Tabs : ~Holds(u)
  BY <1>1, <1>3, SettlesBehindHolder
<1>6. \A u \in Tabs \ {t} : Attempts(u) => owner[u] # owner[t]
  BY <1>3 DEF LeaseInv, OwnInv
<1>7. \A u \in Tabs : ahead'[u] = IF u = t THEN {} ELSE ahead[u] \ {t}
  BY DEF SettleDoes, AheadWithout
<1>8. \A u \in Tabs : inbox'[u] = inbox[u]
  BY <1>1, <1>2
<1>9. \A u \in Tabs : Waits(u)' <=> Waits(u) /\ u # t
  BY <1>1, <1>2 DEF Waits
<1>10. OwnInv'
  BY <1>1, <1>2, <1>3 DEF LeaseInv, OwnInv, Attempts
<1>11. OrderInv'
  <2>1. \A x, u \in Tabs : u \in ahead[x] => Waits(x) /\ Waits(u) /\ u # x
    BY DEF LeaseInv, OrderInv
  <2>2. \A x, u \in Tabs : Waits(x) /\ Waits(u) /\ x # u => x \in ahead[u] \/ u \in ahead[x]
    BY DEF LeaseInv, OrderInv
  <2>3. \A x, u \in Tabs : u \in ahead'[x] => Waits(x)' /\ Waits(u)' /\ u # x
    BY <1>7, <1>9, <2>1
  <2>4. \A x, u \in Tabs : Waits(x)' /\ Waits(u)' /\ x # u => x \in ahead'[u] \/ u \in ahead'[x]
    BY <1>7, <1>9, <2>2
  <2>5. QED
    BY <2>3, <2>4 DEF OrderInv
<1>12. ClaimInv'
  <2>1. \A u \in Tabs : phase'[u] \notin {"writing", "verifying"}
    BY <1>2, <1>4 DEF SettleDoes
  <2>2. \A u \in Tabs : phase'[u] = "probing" => u # t /\ phase[u] = "probing"
    BY <1>2
  <2>3. \A u \in Tabs : phase'[u] \in {"probing", "writing"} => lease'.owner # owner'[u]
    BY <1>1, <1>2, <1>6, <2>1, <2>2 DEF Attempts
  <2>4. \A x, u \in Tabs : phase'[x] = "probing" /\ phase'[u] \in {"probing", "writing", "verifying"} =>
          probed'[x] # owner'[u]
    BY <1>2, <2>1, <2>2 DEF LeaseInv, ClaimInv
  <2>5. QED
    BY <2>1, <2>3, <2>4 DEF ClaimInv
<1>13. ProbeInv'
  <2>1. \A u \in Tabs : Listening(u)' => Listening(u) /\ owner'[u] = owner[u]
    BY <1>1, <1>2 DEF Listening
  <2>2. \A u \in Tabs : phase'[u] = "probing" => phase[u] = "probing" /\ probed'[u] = probed[u]
    BY <1>2
  <2>3. QED
    BY <1>8, <2>1, <2>2 DEF LeaseInv, ProbeInv
<1>14. HoldInv'
  <2> SUFFICES ASSUME NEW u \in Tabs, Holds(u)' PROVE Secure(u)' /\ \A x \in Tabs : Followed(u, x)'
    BY DEF HoldInv
  <2>1. u = t
    BY <1>2, <1>5 DEF Holds
  <2>2. Secure(u)'
    BY <1>1, <1>3, <2>1 DEF Secure, Live
  <2>3. ~Warned(u)'
    BY <1>1, <1>4, <2>1 DEF Warned
  <2>4. ASSUME NEW x \in Tabs PROVE Followed(u, x)'
    <3>1. phase'[x] \notin {"writing", "verifying"}
      BY <1>2, <1>4 DEF SettleDoes
    <3>2. CASE Waits(x)'
      <4>1. x # t /\ Waits(x) /\ t \in ahead[x]
        BY <1>3, <1>4, <1>9, <3>2 DEF LeaseInv, OrderInv
      <4>2. Heeds(t, x)
        BY <1>1, <1>3, <4>1 DEF LeaseInv, WaitInv
      <4>3. ~force[x] /\ owner[x] \in claimants[t]
        BY <1>4, <4>2 DEF Heeds
      <4>4. owner[t] <= owner[x]
        BY <1>1, <4>3 DEF Wins, Known
      <4>5. owner[x] # owner[t] /\ owner[x] \in Nat /\ owner[t] \in Nat
        <5>1. Attempts(x)
          BY <4>1 DEF Waits, Attempts
        <5>2. owner[x] \in Owners
          BY <5>1 DEF LeaseInv, OwnInv, TypeInv
        <5>3. QED
          BY <1>3, <1>6, <4>1, <5>1, <5>2
      <4>6. QED
        BY <1>1, <1>2, <2>1, <2>3, <3>1, <4>1, <4>3, <4>4, <4>5 DEF Followed
    <3>3. CASE ~Waits(x)'
      BY <3>1, <3>3 DEF Followed
    <3>4. QED
      BY <3>2, <3>3
  <2>5. QED
    BY <2>2, <2>4
<1>15. WaitInv'
  <2> SUFFICES ASSUME NEW u \in Tabs, NEW x \in Tabs,
                      Waits(u)', ~released'[u], u \in ahead'[x]
               PROVE  Heeds(u, x)'
    BY DEF WaitInv
  <2>1. u # t /\ x # t /\ u \in ahead[x] /\ Waits(u) /\ ~released[u]
    BY <1>2, <1>7, <1>9
  <2>2. QED
    BY <1>2, <2>1 DEF LeaseInv, WaitInv, Heeds
<1>16. SingleWriter'
  BY <1>2, <1>5 DEF SingleWriter, Holds
<1>17. QED
  BY <1>10, <1>11, <1>12, <1>13, <1>14, <1>15, <1>16 DEF LeaseInv

LEMMA SettleKeeps ==
  ASSUME TypeInv, TypeInv', LeaseInv, NEW t \in Tabs, InTime(t), SettleDoes(t)
  PROVE  LeaseInv'
<1>1. CASE phase'[t] = "holding"
  BY <1>1, SettleHolds
<1>2. CASE phase'[t] # "holding"
  <2>1. /\ phase'[t] = "idle" /\ phase[t] = "settling"
        /\ lease' = IF Wins(t) THEN OwnLease(t)
                    ELSE IF lease.owner = owner[t] THEN NoLease ELSE lease
    BY <1>2 DEF SettleDoes
  <2>2. EndsQuietly(t)
    BY <1>2 DEF SettleDoes, EndsQuietly
  <2>3. \A u \in Tabs : Holds(u) => lease.owner # owner[t] /\ (Wins(t) => Warned(u))
    BY <2>1, SettlesBehindHolder DEF Waits
  <2>4. \A u \in Tabs : phase[u] \notin {"writing", "verifying"}
    BY DEF InTime
  <2>5. LeaseGoes(t)
    BY <2>1, <2>3, <2>4 DEF LeaseGoes, Alone, Attempts
  <2>6. QED
    BY <2>1, <2>2, <2>5, AttemptEnds
<1>3. QED
  BY <1>1, <1>2

LEMMA LosesWaitingKeeps ==
  ASSUME TypeInv, LeaseInv, NEW t \in Tabs, LosesWaiting(t)
  PROVE  LeaseInv'
<1>1. /\ phase[t] = "settling" /\ phase' = phase /\ owner' = owner /\ force' = force
      /\ released'[t] /\ inbox'[t] = {} /\ lease' = lease /\ used' = used /\ ahead' = ahead
  BY DEF LosesWaiting
<1>2. \A u \in Tabs \ {t} :
        /\ probed'[u] = probed[u] /\ claimants'[u] = claimants[u]
        /\ released'[u] = released[u] /\ inbox'[u] = inbox[u]
  BY DEF LosesWaiting, Kept, BoxesKept
<1>3. OwnInv' /\ OrderInv' /\ SingleWriter'
  <2>1. OwnInv'
    BY <1>1, <1>2 DEF LeaseInv, OwnInv, Attempts
  <2>2. OrderInv'
    BY <1>1 DEF LeaseInv, OrderInv, Waits
  <2>3. SingleWriter'
    BY <1>1 DEF LeaseInv, SingleWriter, Holds
  <2>4. QED
    BY <2>1, <2>2, <2>3
<1>4. ClaimInv'
  BY <1>1, <1>2 DEF LeaseInv, ClaimInv
<1>5. ProbeInv'
  BY <1>1, <1>2 DEF LeaseInv, ProbeInv, Listening
<1>6. HoldInv'
  <2> SUFFICES ASSUME NEW u \in Tabs, Holds(u)' PROVE Secure(u)' /\ \A x \in Tabs : Followed(u, x)'
    BY DEF HoldInv
  <2>1. u # t /\ Holds(u)
    BY <1>1 DEF Holds
  <2>2. Secure(u) /\ \A x \in Tabs : Followed(u, x)
    BY <2>1 DEF LeaseInv, HoldInv
  <2>3. \A x \in Tabs \ {t} : Warned(x)' = Warned(x)
    BY <1>2 DEF Warned
  <2>4. Secure(u)'
    BY <1>1, <1>2, <2>1, <2>2, <2>3 DEF Secure, Live, Steals
  <2>5. ASSUME NEW x \in Tabs PROVE Followed(u, x)'
    BY <1>1, <1>2, <2>1, <2>2, <2>3 DEF Followed, Waits
  <2>6. QED
    BY <2>4, <2>5
<1>7. WaitInv'
  <2> SUFFICES ASSUME NEW u \in Tabs, NEW x \in Tabs,
                      Waits(u)', ~released'[u], u \in ahead'[x]
               PROVE  Heeds(u, x)'
    BY DEF WaitInv
  <2>1. u # t /\ Waits(u) /\ ~released[u] /\ u \in ahead[x]
    BY <1>1, <1>2 DEF Waits
  <2>2. Heeds(u, x)
    BY <2>1 DEF LeaseInv, WaitInv
  <2>3. QED
    BY <1>1, <1>2, <2>1, <2>2 DEF Heeds
<1>8. QED
  BY <1>3, <1>4, <1>5, <1>6, <1>7 DEF LeaseInv

LEMMA GoesOnKeeps ==
  ASSUME TypeInv, LeaseInv, NEW t \in Tabs, NEW m \in inbox[t], GoesOn(t, m)
  PROVE  LeaseInv'
<1>1. /\ phase' = phase /\ owner' = owner /\ force' = force /\ probed' = probed
      /\ released' = released /\ lease' = lease /\ used' = used /\ ahead' = ahead
  BY DEF GoesOn
<1>2. m \in Messages /\ m = Message(m.kind, m.owner) /\ m.owner \in Owners
  <2>1. m \in Messages
    BY DEF TypeInv
  <2>2. QED
    BY <2>1, MessageOf
<1>3. \A u \in Tabs : \A n \in inbox[u] : n # m => n \in inbox'[u]
  BY DEF GoesOn
<1>4. \A o \in Owners : Message("takeover", o) # m
  BY <1>2, MessageIsPair DEF GoesOn
<1>5. \A u \in Tabs, o \in Owners :
        Message("takeover", o) \in inbox'[u] <=> Message("takeover", o) \in inbox[u]
  BY <1>3, <1>4 DEF GoesOn
<1>6. \A u \in Tabs : Warned(u)' = Warned(u)
  BY <1>5 DEF Warned
<1>7. \A u \in Tabs : Attempts(u) => owner[u] \in Owners
  BY DEF LeaseInv, OwnInv, TypeInv
<1>8. OwnInv' /\ OrderInv' /\ ClaimInv' /\ SingleWriter'
  <2>1. OwnInv'
    BY <1>1 DEF LeaseInv, OwnInv, Attempts
  <2>2. OrderInv'
    BY <1>1 DEF LeaseInv, OrderInv, Waits
  <2>3. ClaimInv'
    BY <1>1 DEF LeaseInv, ClaimInv
  <2>4. SingleWriter'
    BY <1>1 DEF LeaseInv, SingleWriter, Holds
  <2>5. QED
    BY <2>1, <2>2, <2>3, <2>4
<1>9. ProbeInv'
  <2> SUFFICES ASSUME NEW x \in Tabs, NEW u \in Tabs,
                      phase[x] = "probing", Listening(u), owner[u] = probed[x]
               PROVE  \/ Message("probe", owner[u]) \in inbox'[u]
                      \/ Message("owned", owner[u]) \in inbox'[x]
    BY <1>1 DEF ProbeInv, Listening
  <2>1. Message("probe", owner[u]) \in inbox[u] \/ Message("owned", owner[u]) \in inbox[x]
    BY DEF LeaseInv, ProbeInv
  <2>2. CASE Message("owned", owner[u]) \in inbox[x]
    <3>1. x # t
      BY DEF GoesOn, Listening
    <3>2. QED
      BY <2>2, <3>1 DEF GoesOn
  <2>3. CASE Message("probe", owner[u]) \in inbox[u] /\ (m # Message("probe", owner[u]) \/ u # t)
    BY <2>3 DEF GoesOn
  <2>4. CASE m = Message("probe", owner[u]) /\ u = t
    <3>1. m.kind = "probe" /\ m.owner = owner[t]
      BY <2>4, MessageIsPair
    <3>2. QED
      BY <2>4, <3>1 DEF GoesOn
  <2>5. QED
    BY <2>1, <2>2, <2>3, <2>4
<1>10. HoldInv'
  <2> SUFFICES ASSUME NEW u \in Tabs, Holds(u)' PROVE Secure(u)' /\ \A x \in Tabs : Followed(u, x)'
    BY DEF HoldInv
  <2>1. Holds(u)
    BY <1>1 DEF Holds
  <2>2. Secure(u) /\ \A x \in Tabs : Followed(u, x)
    BY <2>1 DEF LeaseInv, HoldInv
  <2>3. Secure(u)'
    BY <1>1, <1>6, <2>2 DEF Secure, Live, Steals
  <2>4. ASSUME NEW x \in Tabs PROVE Followed(u, x)'
    <3>1. Waits(x) => owner[x] \in Owners
      BY <1>7 DEF Waits, Attempts
    <3>2. QED
      BY <1>1, <1>5, <1>6, <2>2, <3>1 DEF Followed, Waits
  <2>5. QED
    BY <2>3, <2>4
<1>11. WaitInv'
  <2> SUFFICES ASSUME NEW u \in Tabs, NEW x \in Tabs,
                      Waits(u)', ~released'[u], u \in ahead'[x]
               PROVE  Heeds(u, x)'
    BY DEF WaitInv
  <2>1. Waits(u) /\ ~released[u] /\ u \in ahead[x]
    BY <1>1 DEF Waits
  <2>2. Heeds(u, x)
    BY <2>1 DEF LeaseInv, WaitInv
  <2>3. owner[x] \in Owners
    BY <1>7, <2>1 DEF LeaseInv, OrderInv, Waits, Attempts
  <2>4. force[x] => Message("takeover", owner[x]) \in inbox'[u]
    BY <1>5, <2>2, <2>3 DEF Heeds
  <2>5. Message("claimed", owner[x]) \in inbox'[u] \/ owner[x] \in claimants'[u]
    <3>1. CASE owner[x] \in claimants[u]
      BY <3>1 DEF GoesOn
    <3>2. CASE Message("claimed", owner[x]) \in inbox[u] /\ (m # Message("claimed", owner[x]) \/ u # t)
      BY <3>2 DEF GoesOn
    <3>3. CASE m = Message("claimed", owner[x]) /\ u = t
      BY <3>3, MessageIsPair DEF GoesOn
    <3>4. QED
      BY <2>2, <3>1, <3>2, <3>3 DEF Heeds
  <2>6. QED
    BY <1>1, <2>4, <2>5 DEF Heeds
<1>12. QED
  BY <1>8, <1>9, <1>10, <1>11 DEF LeaseInv

LEMMA ExpireKeeps ==
  ASSUME Timely, TypeInv, LeaseInv, Expire
  PROVE  TypeInv' /\ LeaseInv'
<1>1. UNCHANGED <<used, phase, owner, force, probed, claimants, released, inbox, ahead>>
  BY DEF Expire, tabVars
<1>2. lease' \in [owner : Owners \cup {NoOwner}, expired : BOOLEAN] /\ lease'.owner = lease.owner
  BY DEF Expire, TypeInv
<1>3. TypeInv'
  BY <1>1, <1>2 DEF TypeInv
<1>4. ASSUME NEW u \in Tabs, Holds(u) PROVE FALSE
  <2>1. Secure(u) /\ Listening(u)
    BY <1>4, HolderListens
  <2>2. ~Warned(u)
    BY <2>1, HeardIsEmpty DEF Expire
  <2>3. owner[u] # lease.owner
    BY <1>4 DEF Expire, Holds
  <2>4. \A t \in Tabs : ~Steals(t)
    BY DEF Expire, Steals, LeaseInv, ClaimInv
  <2>5. QED
    BY <2>1, <2>2, <2>3, <2>4 DEF Secure
<1>5. OwnInv'
  BY <1>1, <1>2 DEF LeaseInv, OwnInv, Attempts
<1>6. OrderInv' /\ ProbeInv'
  <2>1. OrderInv'
    BY <1>1 DEF LeaseInv, OrderInv, Waits
  <2>2. ProbeInv'
    BY <1>1 DEF LeaseInv, ProbeInv, Listening
  <2>3. QED
    BY <2>1, <2>2
<1>7. ClaimInv'
  BY <1>1, <1>2 DEF LeaseInv, ClaimInv
<1>8. HoldInv' /\ SingleWriter'
  BY <1>1, <1>4 DEF HoldInv, SingleWriter, Holds
<1>9. WaitInv'
  BY <1>1 DEF LeaseInv, WaitInv, Heeds, Waits
<1>10. QED
  BY <1>3, <1>5, <1>6, <1>7, <1>8, <1>9 DEF LeaseInv

-----------------------------------------------------------------------------
LEMMA StepKeeps ==
  ASSUME Timely, Atomic, TypeInv, LeaseInv, NEW t \in Tabs, Step(t)
  PROVE  TypeInv' /\ LeaseInv'
<1>1. ASSUME NEW o \in Owners, NEW f \in BOOLEAN, Request(t, o, f)
      PROVE  TypeInv' /\ LeaseInv'
  BY <1>1, RequestEffect, RequestKeeps
<1>2. CASE ProbeAnswered(t)
  <2>1. phase[t] = "probing" /\ EndProbe(t, TRUE)
    BY <1>2 DEF ProbeAnswered
  <2>2. TypeInv' /\ EndProbeDoes(t, TRUE)
    BY <2>1, EndProbeEffect
  <2>3. QED
    BY <2>1, <2>2, ProbeKeeps
<1>3. CASE ProbeTimeout(t)
  <2>1. /\ phase[t] = "probing" /\ EndProbe(t, FALSE)
        /\ AllHeard /\ Message("owned", probed[t]) \notin inbox[t]
    BY <1>3 DEF ProbeTimeout
  <2>2. TypeInv' /\ EndProbeDoes(t, FALSE)
    BY <2>1, EndProbeEffect
  <2>3. QED
    BY <2>1, <2>2, ProbeKeeps
<1>4. CASE WriteLease(t)
  BY <1>4, WriteLeaseEffect, WriteLeaseKeeps DEF LeaseInv
<1>5. CASE VerifyLease(t)
  BY <1>5, VerifyLeaseEffect, VerifyLeaseKeeps DEF LeaseInv
<1>6. CASE Settle(t)
  <2>1. InTime(t)
    BY <1>6 DEF Settle
  <2>2. QED
    BY <1>6, <2>1, SettleEffect, SettleKeeps
<1>7. CASE Deliver(t)
  <2>1. TypeInv' /\ DeliverDoes(t)
    BY <1>7, DeliverEffect DEF LeaseInv
  <2>2. CASE EndsQuietly(t) /\ lease' = lease /\ phase[t] = "holding"
    BY <2>1, <2>2, AttemptEnds DEF LeaseGoes
  <2>3. CASE LosesWaiting(t)
    BY <2>1, <2>3, LosesWaitingKeeps
  <2>4. CASE \E m \in inbox[t] : GoesOn(t, m)
    BY <2>1, <2>4, GoesOnKeeps
  <2>5. QED
    BY <2>1, <2>2, <2>3, <2>4 DEF DeliverDoes
<1>8. CASE Heartbeat(t)
  BY <1>8, HeartbeatEffect, AttemptEnds DEF LeaseInv, LeaseGoes
<1>9. CASE Release(t)
  <2>1. TypeInv' /\ ReleaseDoes(t)
    BY <1>9, ReleaseEffect DEF LeaseInv
  <2>2. \A u \in Tabs \ {t} : ~Holds(u)
    BY <2>1 DEF ReleaseDoes, LeaseInv, SingleWriter, Holds
  <2>3. LeaseGoes(t)
    BY <2>1, <2>2 DEF ReleaseDoes, LeaseGoes
  <2>4. QED
    BY <2>1, <2>3, AttemptEnds DEF ReleaseDoes
<1>10. CASE Crash(t)
  BY <1>10, CrashEffect, AttemptEnds DEF LeaseGoes
<1>11. QED
  BY <1>1, <1>2, <1>3, <1>4, <1>5, <1>6, <1>7, <1>8, <1>9, <1>10 DEF Step

LEMMA LeaseInductive ==
  ASSUME Timely, Atomic
  PROVE  TypeInv /\ LeaseInv /\ [Next]_vars => TypeInv' /\ LeaseInv'
<1> SUFFICES ASSUME TypeInv, LeaseInv, [Next]_vars PROVE TypeInv' /\ LeaseInv'
  OBVIOUS
<1>1. CASE UNCHANGED vars
  <2>1. UNCHANGED <<lease, used, phase, owner, force, probed, claimants, released, inbox, ahead>>
    BY <1>1 DEF vars, tabVars
  <2>2. TypeInv' /\ OwnInv' /\ OrderInv' /\ ClaimInv'
    BY <2>1 DEF TypeInv, LeaseInv, OwnInv, OrderInv, ClaimInv, Attempts, Waits
  <2>3. ProbeInv' /\ SingleWriter'
    BY <2>1 DEF LeaseInv, ProbeInv, Listening, SingleWriter, Holds
  <2>4. HoldInv' /\ WaitInv'
    BY <2>1 DEF LeaseInv, HoldInv, WaitInv, Holds, Waits, Secure, Followed, Heeds, Live,
                Warned, Steals
  <2>5. QED
    BY <2>2, <2>3, <2>4 DEF LeaseInv
<1>2. ASSUME NEW t \in Tabs, Step(t) PROVE TypeInv' /\ LeaseInv'
  BY <1>2, StepKeeps
<1>3. CASE Expire
  BY <1>3, ExpireKeeps
<1>4. QED
  BY <1>1, <1>2, <1>3 DEF Next

(* acquireLease: with timers and messages in time and a claim that is       *)
(* written, read back and announced in one step, no two tabs hold the       *)
(* lease at once, however many tabs there are and however often they ask.   *)
THEOREM OneWriterInTime ==
  ASSUME Timely, Atomic
  PROVE  Spec => []SingleWriter
<1>1. Init => TypeInv /\ LeaseInv
  BY InitLease
<1>2. TypeInv /\ LeaseInv /\ [Next]_vars => TypeInv' /\ LeaseInv'
  BY LeaseInductive
<1>3. LeaseInv => SingleWriter
  BY DEF LeaseInv
<1>4. QED
  BY <1>1, <1>2, <1>3, PTL DEF Spec

=============================================================================
