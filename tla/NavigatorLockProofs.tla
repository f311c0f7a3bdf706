------------------------- MODULE NavigatorLockProofs -------------------------
(***************************************************************************)
(* Theorems about NavigatorLock, for any number of tabs and forced claims. *)
(***************************************************************************)
EXTENDS NavigatorLock, TLAPS

USE NoTabAssumption

(* OneRightfulWriter is not inductive: a tab turns writable in a callback  *)
(* that runs some time after its request was granted.  The claim on the    *)
(* lock is therefore followed from the grant on: it is the manager's       *)
(* current one, or its tab has a theft to learn of.                        *)
Phases == {"none", "asking", "refused", "queued", "pending", "claiming", "stealing",
           "holding", "recovering", "closed"}

Claims(t) == phase[t] \in {"asking", "stealing", "holding"}
ClaimIsCurrent(t) == Claims(t) => held = t \/ t \in robbed

LockInv == phase \in [Tabs -> Phases] /\ \A t \in Tabs : ClaimIsCurrent(t)

LEMMA InitLock == Init => LockInv
BY DEF Init, LockInv, Phases, ClaimIsCurrent, Claims

(* A request that goes frees the lock only if it was the granted one.      *)
LEMMA LeaveKeepsHolder ==
  ASSUME NEW t \in Tabs, Leave(t), held # t
  PROVE  held' = held
BY DEF Leave

(* A step moves one tab, to a phase of the protocol.                       *)
LEMMA BecomeType ==
  ASSUME NEW t \in Tabs, NEW p \in Phases, phase \in [Tabs -> Phases], Become(t, p)
  PROVE  /\ phase' \in [Tabs -> Phases]
         /\ phase'[t] = p
         /\ \A u \in Tabs \ {t} : phase'[u] = phase[u]
BY DEF Become

(* A tab gives the lock up: the claims of the others do not change.        *)
LEMMA GivingUpKeepsClaims ==
  ASSUME LockInv, NEW t \in Tabs, NEW p \in Phases, Become(t, p), Leave(t),
         robbed' = robbed \ {t}, p \notin {"asking", "stealing", "holding"}
  PROVE  LockInv'
<1>1. phase' \in [Tabs -> Phases]
  BY BecomeType DEF LockInv
<1>2. ASSUME NEW u \in Tabs PROVE ClaimIsCurrent(u)'
  <2>1. CASE u = t
    BY <2>1, BecomeType DEF LockInv, ClaimIsCurrent, Claims
  <2>2. CASE u # t
    <3>1. held = u => held' = u
      BY <2>2, LeaveKeepsHolder
    <3>2. phase'[u] = phase[u]
      BY <2>2, BecomeType DEF LockInv
    <3>3. QED
      BY <2>2, <3>1, <3>2 DEF LockInv, ClaimIsCurrent, Claims
  <2>3. QED
    BY <2>1, <2>2
<1>3. QED
  BY <1>1, <1>2 DEF LockInv

(* A tab is granted the free lock, or goes on without a claim: what the    *)
(* manager and the thefts say of the other tabs is not touched.            *)
LEMMA GrantKeepsClaims ==
  ASSUME LockInv, NEW t \in Tabs, NEW p \in Phases, Become(t, p), robbed \subseteq robbed',
         \A u \in Tabs \ {t} : held = u => held' = u \/ u \in robbed',
         p \in {"asking", "stealing", "holding"} => held' = t \/ t \in robbed'
  PROVE  LockInv'
<1>1. phase' \in [Tabs -> Phases]
  BY BecomeType DEF LockInv
<1>2. ASSUME NEW u \in Tabs PROVE ClaimIsCurrent(u)'
  <2>1. phase'[t] = p /\ \A v \in Tabs \ {t} : phase'[v] = phase[v]
    BY BecomeType DEF LockInv
  <2>2. QED
    BY <2>1 DEF LockInv, ClaimIsCurrent, Claims
<1>3. QED
  BY <1>1, <1>2 DEF LockInv

LEMMA StepLock ==
  ASSUME LockInv, [Next]_vars
  PROVE  LockInv'
<1> USE DEF Phases
<1>1. ASSUME NEW t \in Tabs, Ask(t) PROVE LockInv'
  <2>1. CASE Free
    <3>1. held = NoTab /\ held' = t /\ Become(t, "asking") /\ robbed' = robbed
      BY <1>1, <2>1 DEF Ask, Free
    <3>2. QED
      BY <3>1, GrantKeepsClaims
  <2>2. CASE ~Free
    <3>1. held' = held /\ Become(t, "refused") /\ robbed' = robbed
      BY <1>1, <2>2 DEF Ask
    <3>2. QED
      BY <3>1, GrantKeepsClaims
  <2>3. QED
    BY <2>1, <2>2
<1>2. ASSUME NEW t \in Tabs, Enqueue(t) PROVE LockInv'
  <2>1. Become(t, "queued") /\ robbed' = robbed /\ (held' = held \/ held = NoTab)
    BY <1>2 DEF Enqueue, Free
  <2>2. QED
    BY <2>1, GrantKeepsClaims
<1>3. ASSUME NEW t \in Tabs, HandoffTimeout(t) PROVE LockInv'
  <2>1. Become(t, "pending") /\ robbed' = robbed /\ held' = held
    BY <1>3 DEF HandoffTimeout
  <2>2. QED
    BY <2>1, GrantKeepsClaims
<1>4. ASSUME NEW t \in Tabs, Acquire(t) PROVE LockInv'
  <2>1. Become(t, "holding") /\ robbed' = robbed /\ held' = held
    BY <1>4 DEF Acquire
  <2>2. held = t \/ t \in robbed
    BY <1>4 DEF Acquire, Granted, LockInv, ClaimIsCurrent, Claims
  <2>3. QED
    BY <2>1, <2>2, GrantKeepsClaims
<1>5. ASSUME NEW t \in Tabs, Steal(t) PROVE LockInv'
  <2>1. Become(t, "stealing") /\ robbed' = robbed \cup Victim /\ held' = t
    BY <1>5 DEF Steal
  <2>2. \A u \in Tabs : held = u => u \in robbed'
    BY <2>1 DEF Victim
  <2>3. QED
    BY <2>1, <2>2, GrantKeepsClaims
<1>6. ASSUME NEW t \in Tabs, TakeOver(t) PROVE LockInv'
  <2>1. Become(t, "holding") /\ robbed' = robbed /\ held' = held
    BY <1>6 DEF TakeOver
  <2>2. held = t \/ t \in robbed
    BY <1>6 DEF TakeOver, LockInv, ClaimIsCurrent, Claims
  <2>3. QED
    BY <2>1, <2>2, GrantKeepsClaims
<1>7. ASSUME NEW t \in Tabs, LearnOfTheft(t) PROVE LockInv'
  <2>1. Become(t, "recovering") /\ robbed' = robbed \ {t} /\ held' = held
    BY <1>7 DEF LearnOfTheft
  <2>2. phase' \in [Tabs -> Phases] /\ phase'[t] = "recovering"
          /\ \A u \in Tabs \ {t} : phase'[u] = phase[u]
    BY <2>1, BecomeType DEF LockInv
  <2>3. QED
    BY <2>1, <2>2 DEF LockInv, ClaimIsCurrent, Claims
<1>8. ASSUME NEW t \in Tabs, Claim(t) \/ LoseToMessage(t) \/ Release(t) \/ ClosePage(t)
      PROVE LockInv'
  <2>1. PICK p \in {"claiming", "recovering", "none", "closed"} : Become(t, p)
    BY <1>8 DEF Claim, LoseToMessage, Release, ClosePage
  <2>2. Leave(t) /\ robbed' = robbed \ {t}
    BY <1>8 DEF Claim, LoseToMessage, Release, ClosePage
  <2>3. QED
    BY <2>1, <2>2, GivingUpKeepsClaims
<1>9. CASE Next
  BY <1>1, <1>2, <1>3, <1>4, <1>5, <1>6, <1>7, <1>8, <1>9 DEF Next, Proceed
<1>10. CASE UNCHANGED vars
  BY <1>10 DEF vars, LockInv, ClaimIsCurrent, Claims
<1>11. QED
  BY <1>9, <1>10

(* For any number of tabs and of forced claims: two tabs believe that they *)
(* may write only while one of them has to learn that its lock was stolen. *)
THEOREM OneWriterIsRightful == Spec => []OneRightfulWriter
<1>1. Init => LockInv
  BY InitLock
<1>2. LockInv /\ [Next]_vars => LockInv'
  BY StepLock
<1>3. LockInv => OneRightfulWriter
  BY DEF LockInv, ClaimIsCurrent, Claims, Holds, OneRightfulWriter
<1>4. QED
  BY <1>1, <1>2, <1>3, PTL DEF Spec
=============================================================================
