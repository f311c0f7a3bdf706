------------------------ MODULE EffectMailboxProofs ------------------------
(***************************************************************************)
(* Theorems about EffectMailbox, for updates of any number and length, on   *)
(* a machine that does not delay plain reads past an atomic one.            *)
(***************************************************************************)
EXTENDS EffectMailbox, TLAPS

USE SizeAssumption, VersionAssumption

\* The buffer holds an update and its length.
Holds(u) == u \in Updates /\ length = Size[u] /\ \A p \in 1..Size[u] : payload[p] = u

(* Between publications the version is even and the buffer holds the update *)
(* published last; while one runs, the version is odd.                      *)
WriterInv ==
  /\ wpc = "idle" => Even(version) /\ (version # 0 => Holds(stored))
  /\ wpc # "idle" => /\ ~Even(version) /\ version <= MaxVersion + 1 /\ update \in Updates
                     /\ written \subseteq 1..Size[update]
                     /\ \A p \in written : payload[p] = update
  /\ wpc = "version" => written = 1..Size[update] /\ length = Size[update]

(* What the reader has of the version it read is what the buffer holds, as   *)
(* long as the version is the same.                                         *)
ReaderInv ==
  /\ lastVersion <= version
  /\ rpc # "idle" => Even(rversion) /\ lastVersion < rversion /\ rversion <= version
  /\ rpc = "bytes" => ~checked
  /\ rpc = "bytes" /\ rversion = version =>
       rlength = length /\ \A p \in 1..rlength : copy[p] \in {NoUpdate, payload[p]}

MailboxInv == TypeOK /\ WriterInv /\ ReaderInv /\ NeverTorn

LEMMA OddIsNext == \A n \in Nat : Even(n) <=> ~Even(n + 1)
BY DEF Even

LEMMA EmptyType == Empty \in [Parts -> Updates \cup {NoUpdate}] /\ \A p \in Parts : Empty[p] = NoUpdate
BY DEF Empty

LEMMA InitInv == Init => MailboxInv
<1> SUFFICES ASSUME Init PROVE MailboxInv
  OBVIOUS
<1>1. Even(0)
  BY DEF Even
<1>2. TypeOK
  <2>1. 0 \in 0..(MaxVersion + 2) /\ 0 \in 0..MaxParts
    OBVIOUS
  <2>2. payload \in [Parts -> Updates \cup {NoUpdate}] /\ copy \in [Parts -> Updates \cup {NoUpdate}]
    BY EmptyType DEF Init
  <2>3. QED
    BY <2>1, <2>2 DEF Init, TypeOK
<1>3. WriterInv /\ ReaderInv /\ NeverTorn
  BY <1>1 DEF Init, WriterInv, ReaderInv, NeverTorn
<1>4. QED
  BY <1>2, <1>3 DEF MailboxInv

\* While the version is even, no publication runs.
LEMMA EvenIsIdle == MailboxInv /\ Even(version) => wpc = "idle"
BY DEF MailboxInv, WriterInv

\* Comparing the version finds a whole copy of the update published last, or no update.
LEMMA CompareGivesStored ==
  ASSUME ~ReordersReads, MailboxInv, CompareVersion, version = rversion
  PROVE  wpc = "idle" /\ applied' = stored /\ applied' \in Updates /\ lastVersion' = rversion
         /\ rpc' = "idle"
<1>1. wpc = "idle" /\ Holds(stored)
  BY EvenIsIdle DEF MailboxInv, ReaderInv, WriterInv, CompareVersion, SameVersion, TypeOK
<1>2. Copied(copy)
  BY DEF CompareVersion, SameVersion
<1>3. rlength = Size[stored] /\ rlength >= 1
  BY <1>1 DEF MailboxInv, ReaderInv, CompareVersion, SameVersion, Holds
<1>4. \A p \in 1..rlength : copy[p] = stored
  BY <1>1, <1>2, <1>3 DEF MailboxInv, ReaderInv, CompareVersion, SameVersion, Holds, Copied
<1>5. Decodes(copy, rlength, stored) /\ stored \in Updates
  BY <1>1, <1>3, <1>4 DEF Decodes, Holds
<1>6. GiveToEffect(copy)
  BY <1>2 DEF CompareVersion, SameVersion
<1>7. applied' # Torn
  BY <1>5, <1>6 DEF GiveToEffect
<1>8. applied' \in Updates /\ Decodes(copy, rlength, applied')
  BY <1>6, <1>7 DEF GiveToEffect
<1>9. 1 \in 1..rlength
  BY <1>3 DEF MailboxInv, TypeOK
<1>10. applied' = stored
  BY <1>4, <1>8, <1>9 DEF Decodes
<1>11. QED
  BY <1>1, <1>6, <1>8, <1>10 DEF GiveToEffect

LEMMA PublishKeepsInv ==
  ASSUME MailboxInv, Publish
  PROVE  MailboxInv'
<1> USE DEF MailboxInv, TypeOK, WriterInv, ReaderInv, NeverTorn, Holds, readerVars, Parts
<1>0. version \in Nat
  OBVIOUS
<1>1. ASSUME NEW u \in Updates, BeginPublish(u) PROVE MailboxInv'
  <2>1. ~Even(version') /\ version' = version + 1 /\ version <= MaxVersion
    BY <1>0, <1>1, OddIsNext DEF BeginPublish, MayPublish
  <2>2. TypeOK'
    BY <1>1, <2>1 DEF BeginPublish, MayPublish
  <2>3. WriterInv'
    BY <1>0, <1>1, <2>1 DEF BeginPublish, MayPublish
  <2>4. ReaderInv' /\ NeverTorn'
    BY <1>0, <1>1, <2>1 DEF BeginPublish, MayPublish
  <2>5. QED
    BY <2>2, <2>3, <2>4
<1>2. ASSUME NEW p \in Parts, WritePart(p) PROVE MailboxInv'
  BY <1>0, <1>2 DEF WritePart
<1>3. CASE WriteLength
  BY <1>0, <1>3 DEF WriteLength
<1>4. CASE EndPublish
  <2>1. Even(version') /\ version' = version + 1 /\ version <= MaxVersion + 1
    BY <1>0, <1>4, OddIsNext DEF EndPublish
  <2>2. TypeOK'
    BY <1>4, <2>1 DEF EndPublish
  <2>3. WriterInv'
    BY <1>0, <1>4, <2>1 DEF EndPublish
  <2>4. ReaderInv' /\ NeverTorn'
    BY <1>0, <1>4, <2>1 DEF EndPublish
  <2>5. QED
    BY <2>2, <2>3, <2>4
<1>5. QED
  BY <1>1, <1>2, <1>3, <1>4 DEF Publish

LEMMA ReadKeepsInv ==
  ASSUME ~ReordersReads, MailboxInv, ReadUpdate
  PROVE  MailboxInv'
<1> USE DEF MailboxInv, TypeOK, WriterInv, ReaderInv, NeverTorn, Holds, writerVars, Parts
<1>1. CASE ReadVersion
  <2>1. lastVersion < version /\ rversion' = version /\ Even(rversion') /\ rpc' = "length"
    BY <1>1 DEF ReadVersion, Unseen
  <2>2. TypeOK' /\ NeverTorn'
    BY <1>1, <2>1 DEF ReadVersion, Unseen
  <2>3. WriterInv'
    BY <1>1 DEF ReadVersion, Unseen
  <2>4. ReaderInv'
    BY <1>1, <2>1 DEF ReadVersion, Unseen
  <2>5. QED
    BY <2>2, <2>3, <2>4
<1>2. CASE ReadLength
  <2>1. TypeOK' /\ NeverTorn'
    BY <1>2, EmptyType DEF ReadLength
  <2>2. WriterInv'
    BY <1>2 DEF ReadLength
  <2>3. \A p \in 1..rlength' : copy'[p] = NoUpdate
    BY <1>2, EmptyType DEF ReadLength
  <2>4. ReaderInv'
    BY <1>2, <2>3 DEF ReadLength
  <2>5. QED
    BY <2>1, <2>2, <2>4
<1>3. ASSUME NEW p \in Parts, CopyPart(p) PROVE MailboxInv'
  <2>1. ~checked /\ rpc' = rpc /\ lastVersion' = lastVersion /\ applied' = applied
    BY <1>3 DEF CopyPart
  <2>2. QED
    BY <1>3, <2>1 DEF CopyPart
<1>4. CASE CompareVersion
  <2>1. CASE version = rversion
    BY <1>4, <2>1, CompareGivesStored DEF CompareVersion, SameVersion
  <2>2. CASE version # rversion
    BY <1>4, <2>2 DEF CompareVersion, SameVersion
  <2>3. QED
    BY <2>1, <2>2
<1>5. QED
  BY <1>1, <1>2, <1>3, <1>4 DEF ReadUpdate

LEMMA StutterInv == MailboxInv /\ UNCHANGED vars => MailboxInv'
BY DEF MailboxInv, TypeOK, WriterInv, ReaderInv, NeverTorn, Holds, vars, writerVars, readerVars

THEOREM MailboxInvariant == ~ReordersReads => (Spec => []MailboxInv)
<1> SUFFICES ASSUME ~ReordersReads PROVE Spec => []MailboxInv
  OBVIOUS
<1>1. Init => MailboxInv
  BY InitInv
<1>2. MailboxInv /\ [Next]_vars => MailboxInv'
  BY PublishKeepsInv, ReadKeepsInv, StutterInv DEF Next
<1>3. QED
  BY <1>1, <1>2, PTL DEF Spec

(* The effect never gets the bytes of two updates: the comparison of the     *)
(* version in readParallelStackEffectUpdate is enough without a lock.        *)
THEOREM SnapshotsAreWhole == ~ReordersReads => (Spec => []NeverTorn)
<1> SUFFICES ASSUME ~ReordersReads PROVE Spec => []NeverTorn
  OBVIOUS
<1>1. MailboxInv => NeverTorn
  BY DEF MailboxInv
<1>2. QED
  BY <1>1, MailboxInvariant, PTL

(* Whatever the effect is given is the update published last, with a version *)
(* above the one it had, and no publication runs at that moment.             *)
THEOREM ReaderGivesTheNewest == ~ReordersReads => (Spec => GivesTheNewest)
<1> SUFFICES ASSUME ~ReordersReads PROVE Spec => GivesTheNewest
  OBVIOUS
<1> DEFINE Newest == lastVersion' # lastVersion =>
                       applied' = stored /\ lastVersion' > lastVersion /\ wpc = "idle"
<1>1. ASSUME MailboxInv, [Next]_vars PROVE Newest
  <2>1. CASE CompareVersion
    <3>1. CASE version = rversion
      BY <1>1, <2>1, <3>1, CompareGivesStored
         DEF MailboxInv, ReaderInv, TypeOK, CompareVersion, SameVersion
    <3>2. CASE version # rversion
      BY <2>1, <3>2 DEF CompareVersion, SameVersion
    <3>3. QED
      BY <3>1, <3>2
  <2>2. ASSUME NEW p \in Parts, CopyPart(p) PROVE lastVersion' = lastVersion
    BY <1>1, <2>2 DEF CopyPart, MailboxInv, ReaderInv
  <2>3. CASE UNCHANGED vars
    BY <2>3 DEF vars
  <2>4. CASE Publish
    BY <2>4 DEF Publish, BeginPublish, MayPublish, WritePart, WriteLength, EndPublish
  <2>5. CASE ReadVersion \/ ReadLength
    BY <2>5 DEF ReadVersion, Unseen, ReadLength
  <2>6. QED
    BY <1>1, <2>1, <2>2, <2>3, <2>4, <2>5 DEF Next, ReadUpdate
<1>2. MailboxInv /\ [Next]_vars => [Newest]_vars
  BY <1>1
<1>3. QED
  BY <1>2, MailboxInvariant, PTL DEF Spec, GivesTheNewest
=============================================================================
