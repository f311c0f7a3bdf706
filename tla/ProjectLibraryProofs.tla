------------------------ MODULE ProjectLibraryProofs ------------------------
(***************************************************************************)
(* Theorems about ProjectLibrary, for any number of mains, projects and     *)
(* documents, whether or not live mains outlive their lease.                 *)
(***************************************************************************)
EXTENDS ProjectLibrary, FiniteSetTheorems, TLAPS

USE DocumentsAssumption, BoundsAssumption

(* The strengthened invariant.  A document being published was newer than   *)
(* the stored one at the begin, and still is if the catalog did not move;    *)
(* each term of the lease belongs to one main; and the journal is settled    *)
(* before the owner of the lease begins anything.                            *)

Publishing == {"begun", "writing", "journalling", "renaming", "materializing", "committing"}

Newer(d) == rows[d.project] # NoDocument => d.revision > rows[d.project].revision

PublishesNewer ==
  \A m \in Mains : step[m] \in Publishing =>
    /\ pub[m].doc \in Documents /\ pub[m].meta <= meta
    /\ pub[m].meta = meta => Newer(pub[m].doc)

TermsAreOwn ==
  /\ \A m \in Mains :
       /\ token[m] <= lease.token
       /\ phase[m] # "down" => token[m] > 0
       /\ phase[m] # "open" => step[m] \in {"idle", "reading", "removing"}
  /\ \A m, n \in Mains : token[m] = token[n] /\ token[m] > 0 => m = n

HoldsTerm(m) == phase[m] = "open" /\ token[m] = lease.token

OwnersJournal ==
  /\ \A j, k \in journal : j = k
  /\ \A m \in Mains : HoldsTerm(m) => \A j \in journal : j.token = token[m]
  /\ \A m \in Mains : HoldsTerm(m) /\ ~fenced[m] /\ step[m] \in {"idle", "begun"}
       => journal = {}

LibraryInv == TypeOK /\ PublishesNewer /\ TermsAreOwn /\ OwnersJournal

(* The types.                                                              *)
LEMMA NoPubType == NoPub \in Publication
BY DEF NoPub, Publication

LEMMA InitType == Init => TypeOK
<1> SUFFICES ASSUME Init PROVE TypeOK
  OBVIOUS
<1>1. lease \in [active : BOOLEAN, token : 0..MaxTerms, expired : BOOLEAN] /\ journal \subseteq Entry
  BY DEF Init
<1>2. /\ rows \in [Projects -> Documents \cup {NoDocument}] /\ meta \in Nat
      /\ files \subseteq Documents \cup Contents /\ stored \subseteq Documents \cup Contents
  BY DEF Init
<1>3. heldUp \in BOOLEAN
  BY DEF Init
<1>4. /\ phase \in [Mains -> {"down", "recovering", "open", "closing"}]
      /\ token \in [Mains -> 0..MaxTerms] /\ fenced \in [Mains -> BOOLEAN]
      /\ step \in [Mains -> Steps] /\ todo \in [Mains -> SUBSET (Documents \cup Contents)]
  BY DEF Init, Steps
<1>5. pub \in [Mains -> Publication]
  BY NoPubType DEF Init
<1>6. QED
  BY <1>1, <1>2, <1>3, <1>4, <1>5 DEF TypeOK

LEMMA EntryType ==
  ASSUME journal \subseteq Entry, NEW m \in Mains,
         NEW state \in {"prepared", "materialized", "committed"}, Enter(m, state)
  PROVE  journal' \subseteq Entry
<1>1. ASSUME NEW j \in journal PROVE [j EXCEPT !.state = state] \in Entry
  <2>1. j \in Entry
    OBVIOUS
  <2>2. QED
    BY <2>1 DEF Entry
<1>2. ASSUME NEW k \in journal' PROVE k \in Entry
  <2>1. k \in journal \/ \E j \in Entries(m) : k = [j EXCEPT !.state = state]
    BY DEF Enter
  <2>2. Entries(m) \subseteq journal
    BY DEF Entries
  <2>3. QED
    BY <1>1, <2>1, <2>2
<1>3. QED
  BY <1>2

LEMMA FilesOfType ==
  ASSUME NEW d \in Documents
  PROVE  FilesOf(d) \subseteq Documents \cup Contents
BY DEF FilesOf, ContentsOf, Contents

LEMMA MissingType == \A d \in Documents : Missing(d) \subseteq Contents
BY DEF Missing, ContentsOf, Contents

LEMMA UnneededType ==
  ASSUME NEW j \in Entry
  PROVE  Unneeded(j) \subseteq Documents \cup Contents
<1>1. j.doc \in Documents /\ j.bodies \subseteq Bodies
  BY DEF Entry
<1>2. QED
  BY <1>1 DEF Unneeded, ContentsOf, Contents

LEMMA LeaseStepType ==
  ASSUME TypeOK, NEW m \in Mains,
         Start(m) \/ Renew(m) \/ Crash(m) \/ Notice(m) \/ Revoked(m) \/ Close(m) \/ Refused(m)
  PROVE  TypeOK'
<1> USE NoPubType DEF TypeOK, database, mainVars, Down, Go, Steps
<1>1. CASE Start(m)
  BY <1>1 DEF Start, NextToken
<1>2. CASE Renew(m)
  BY <1>2 DEF Renew
<1>3. CASE Crash(m)
  BY <1>3 DEF Crash
<1>4. CASE Notice(m)
  BY <1>4 DEF Notice
<1>5. CASE Revoked(m)
  BY <1>5 DEF Revoked
<1>6. CASE Close(m)
  BY <1>6 DEF Close
<1>7. CASE Refused(m)
  BY <1>7 DEF Refused
<1>8. QED
  BY <1>1, <1>2, <1>3, <1>4, <1>5, <1>6, <1>7

LEMMA PublicationStepType ==
  ASSUME TypeOK, NEW m \in Mains,
         \/ \E d \in Documents : Begin(m, d)
         \/ Prepare(m) \/ Write(m) \/ JournalBodies(m) \/ RenameBody(m) \/ RenameDocument(m)
         \/ Materialize(m) \/ Commit(m) \/ Confirm(m) \/ Complete(m),
         step[m] \in Publishing => pub[m].doc \in Documents,
         step[m] = "begun" => token[m] \in 1..MaxTerms
  PROVE  TypeOK'
<1> USE NoPubType DEF TypeOK, database, mainVars, Go, Steps, Publishing
<1>1. ASSUME NEW d \in Documents, Begin(m, d) PROVE TypeOK'
  <2>1. [doc |-> d, meta |-> meta, offered |-> Missing(d)] \in Publication
    BY MissingType DEF Publication
  <2>2. QED
    BY <1>1, <2>1 DEF Begin, IsNewer
<1>2. CASE Prepare(m)
  <2>1. [token |-> token[m], state |-> "prepared", doc |-> pub[m].doc, bodies |-> {}] \in Entry
    BY <1>2 DEF Prepare, Entry
  <2>2. QED
    BY <1>2, <2>1 DEF Prepare
<1>3. CASE Write(m)
  <2>1. Missing(pub[m].doc) \subseteq Contents
    BY <1>3, MissingType DEF Write
  <2>2. QED
    BY <1>3, <2>1 DEF Write
<1>4. CASE JournalBodies(m)
  <2>1. Written(m) \subseteq Bodies
    BY <1>4 DEF Written, JournalBodies
  <2>2. ASSUME NEW j \in journal PROVE [j EXCEPT !.bodies = Written(m)] \in Entry
    BY <2>1 DEF Entry
  <2>3. journal' \subseteq Entry
    <3>1. Entries(m) \subseteq journal
      BY DEF Entries
    <3>2. ASSUME NEW k \in journal' PROVE k \in Entry
      BY <1>4, <2>2, <3>1 DEF JournalBodies
    <3>3. QED
      BY <3>2
  <2>4. QED
    BY <1>4, <2>3 DEF JournalBodies
<1>5. CASE RenameBody(m)
  BY <1>5 DEF RenameBody
<1>6. CASE RenameDocument(m)
  BY <1>6 DEF RenameDocument
<1>7. CASE Materialize(m)
  BY <1>7, EntryType DEF Materialize
<1>8. CASE Commit(m)
  <2>1. FilesOf(pub[m].doc) \subseteq Documents \cup Contents /\ pub[m].doc \in Documents
    BY <1>8, FilesOfType DEF Commit
  <2>2. rows' \in [Projects -> Documents \cup {NoDocument}] /\ meta' \in Nat
    BY <1>8, <2>1 DEF Commit
  <2>3. stored' \subseteq Documents \cup Contents
    BY <1>8, <2>1 DEF Commit
  <2>4. QED
    BY <1>8, <2>2, <2>3 DEF Commit
<1>9. CASE Confirm(m)
  BY <1>9, EntryType DEF Confirm
<1>10. CASE Complete(m)
  BY <1>10 DEF Complete, WithoutEntry, Finished
<1>11. QED
  BY <1>1, <1>2, <1>3, <1>4, <1>5, <1>6, <1>7, <1>8, <1>9, <1>10

LEMMA RemovalStepType ==
  ASSUME TypeOK, NEW m \in Mains,
         \/ Abort(m) \/ ReadJournal(m) \/ Remove(m) \/ EndAbort(m) \/ EndRecovery(m)
         \/ EndClose(m) \/ \E p \in Projects : Delete(m, p)
  PROVE  TypeOK'
<1> USE NoPubType DEF TypeOK, database, mainVars, Go, Steps, Finished
<1>1. CASE Abort(m)
  <2>1. UNION {Unneeded(j) : j \in Entries(m)} \subseteq Documents \cup Contents
    BY UnneededType DEF Entries
  <2>2. todo' \in [Mains -> SUBSET (Documents \cup Contents)]
    BY <1>1, <2>1 DEF Abort
  <2>3. journal' \subseteq Entry /\ fenced' \in [Mains -> BOOLEAN]
    BY <1>1 DEF Abort, CanUse, Owns
  <2>4. step' \in [Mains -> Steps] /\ pub' \in [Mains -> Publication]
    BY <1>1 DEF Abort
  <2>5. QED
    BY <1>1, <2>2, <2>3, <2>4 DEF Abort
<1>2. CASE ReadJournal(m)
  <2>1. UNION {Unneeded(j) : j \in {k \in journal : ~InCatalog(k.doc)}} \subseteq Documents \cup Contents
    BY UnneededType
  <2>2. todo' \in [Mains -> SUBSET (Documents \cup Contents)]
    BY <1>2, <2>1 DEF ReadJournal
  <2>3. QED
    BY <1>2, <2>2 DEF ReadJournal
<1>3. CASE Remove(m)
  BY <1>3 DEF Remove
<1>4. CASE EndAbort(m)
  <2>1. CASE CanUse(m)
    BY <1>4, <2>1 DEF EndAbort
  <2>2. CASE ~CanUse(m)
    <3>1. fenced' = [fenced EXCEPT ![m] = TRUE] /\ journal' = journal
      BY <1>4, <2>2 DEF EndAbort
    <3>2. step' \in [Mains -> Steps] /\ pub' \in [Mains -> Publication]
      BY <1>4 DEF EndAbort
    <3>3. QED
      BY <1>4, <3>1, <3>2 DEF EndAbort
  <2>3. QED
    BY <2>1, <2>2
<1>5. CASE EndRecovery(m)
  <2>1. CASE CanUse(m)
    BY <1>5, <2>1 DEF EndRecovery, Settled
  <2>2. CASE ~CanUse(m)
    BY <1>5, <2>2 DEF EndRecovery, Settled, Down
  <2>3. QED
    BY <2>1, <2>2
<1>6. CASE EndClose(m)
  BY <1>6 DEF EndClose, Down
<1>7. ASSUME NEW p \in Projects, Delete(m, p) PROVE TypeOK'
  BY <1>7 DEF Delete
<1>8. QED
  BY <1>1, <1>2, <1>3, <1>4, <1>5, <1>6, <1>7

-----------------------------------------------------------------------------
(* Every step keeps the invariant.                                         *)
MainStep(m) ==
  \/ Start(m) \/ Renew(m) \/ Crash(m) \/ Notice(m) \/ Revoked(m) \/ Close(m) \/ Work(m)
  \/ \E d \in Documents : Begin(m, d)
  \/ \E p \in Projects : Delete(m, p)

LEMMA NextIsMainStep == Next => Expire \/ HoldUp \/ \E m \in Mains : MainStep(m)
BY DEF Next, MainStep

LEMMA StepType ==
  ASSUME LibraryInv, Next
  PROVE  TypeOK'
<1>1. CASE Expire \/ HoldUp
  BY <1>1 DEF LibraryInv, TypeOK, Expire, HoldUp, Lapse, mainVars
<1>2. ASSUME NEW m \in Mains, MainStep(m) PROVE TypeOK'
  <2>1. step[m] \in Publishing => pub[m].doc \in Documents
    BY DEF LibraryInv, PublishesNewer
  <2>2. step[m] = "begun" => token[m] \in 1..MaxTerms
    BY DEF LibraryInv, TypeOK, TermsAreOwn, Publishing
  <2>3. QED
    BY <1>2, <2>1, <2>2, LeaseStepType, PublicationStepType, RemovalStepType
       DEF MainStep, Work, LibraryInv
<1>3. QED
  BY <1>1, <1>2, NextIsMainStep

\* Only Begin, Commit and Delete matter to what is newer than what.
LEMMA StepPublishesNewer ==
  ASSUME LibraryInv, Next
  PROVE  PublishesNewer'
<1> USE DEF LibraryInv, TypeOK, PublishesNewer, Newer, Publishing, Go
<1>0. \A n \in Mains : pub[n].meta \in Nat
  BY DEF Publication
<1>1. CASE Expire \/ HoldUp
  BY <1>1 DEF Expire, HoldUp, Lapse, mainVars
<1>2. ASSUME NEW m \in Mains, MainStep(m) PROVE PublishesNewer'
  <2>1. ASSUME NEW d \in Documents, Begin(m, d) PROVE PublishesNewer'
    BY <2>1 DEF Begin, IsNewer, database
  <2>2. CASE Commit(m)
    <3>1. CASE meta = pub[m].meta
      BY <1>0, <2>2, <3>1 DEF Commit
    <3>2. CASE meta # pub[m].meta
      BY <2>2, <3>2 DEF Commit
    <3>3. QED
      BY <3>1, <3>2
  <2>3. ASSUME NEW p \in Projects, Delete(m, p) PROVE PublishesNewer'
    BY <1>0, <2>3 DEF Delete, mainVars
  <2>4. CASE Start(m)
    BY <2>4 DEF Start, NextToken
  <2>5. CASE Renew(m) \/ Notice(m)
    BY <2>5 DEF Renew, Notice, database
  <2>6. CASE Crash(m) \/ Close(m)
    BY <2>6 DEF Crash, Close, Down, database
  <2>7. CASE Revoked(m) \/ Refused(m)
    BY <2>7 DEF Revoked, Refused, database
  <2>8. CASE Prepare(m)
    BY <2>8 DEF Prepare
  <2>9. CASE Write(m)
    BY <2>9 DEF Write, database
  <2>10. CASE JournalBodies(m)
    BY <2>10 DEF JournalBodies
  <2>11. CASE RenameBody(m) \/ RenameDocument(m)
    BY <2>11 DEF RenameBody, RenameDocument, database
  <2>12. CASE Materialize(m)
    BY <2>12 DEF Materialize
  <2>13. CASE Confirm(m) \/ Complete(m)
    BY <2>13 DEF Confirm, Complete, WithoutEntry, Finished
  <2>14. CASE Abort(m) \/ EndAbort(m)
    BY <2>14 DEF Abort, EndAbort, Finished
  <2>15. CASE ReadJournal(m) \/ Remove(m)
    BY <2>15 DEF ReadJournal, Remove, database
  <2>16. CASE EndRecovery(m)
    BY <2>16 DEF EndRecovery, Settled, Down
  <2>17. CASE EndClose(m)
    BY <2>17 DEF EndClose, Down
  <2>18. QED
    BY <1>2, <2>1, <2>2, <2>3, <2>4, <2>5, <2>6, <2>7, <2>8, <2>9, <2>10, <2>11, <2>12, <2>13,
       <2>14, <2>15, <2>16, <2>17 DEF MainStep, Work
<1>3. QED
  BY <1>1, <1>2, NextIsMainStep

LEMMA StepTermsAreOwn ==
  ASSUME LibraryInv, Next
  PROVE  TermsAreOwn'
<1> USE DEF LibraryInv, TypeOK, TermsAreOwn, Go
<1>1. CASE Expire \/ HoldUp
  BY <1>1 DEF Expire, HoldUp, Lapse, mainVars
<1>2. ASSUME NEW m \in Mains, MainStep(m) PROVE TermsAreOwn'
  <2>1. ASSUME NEW d \in Documents, Begin(m, d) PROVE TermsAreOwn'
    BY <2>1 DEF Begin, IsNewer, database
  <2>2. CASE Commit(m)
    BY <2>2 DEF Commit
  <2>3. ASSUME NEW p \in Projects, Delete(m, p) PROVE TermsAreOwn'
    BY <2>3 DEF Delete, mainVars
  <2>4. CASE Start(m)
    BY <2>4 DEF Start, NextToken
  <2>5. CASE Renew(m) \/ Notice(m)
    BY <2>5 DEF Renew, Notice, database
  <2>6. CASE Crash(m) \/ Close(m)
    BY <2>6 DEF Crash, Close, Down, database
  <2>7. CASE Revoked(m) \/ Refused(m)
    BY <2>7 DEF Revoked, Refused, database
  <2>8. CASE Prepare(m)
    BY <2>8 DEF Prepare
  <2>9. CASE Write(m)
    BY <2>9 DEF Write, database
  <2>10. CASE JournalBodies(m)
    BY <2>10 DEF JournalBodies
  <2>11. CASE RenameBody(m) \/ RenameDocument(m)
    BY <2>11 DEF RenameBody, RenameDocument, database
  <2>12. CASE Materialize(m)
    BY <2>12 DEF Materialize
  <2>13. CASE Confirm(m) \/ Complete(m)
    BY <2>13 DEF Confirm, Complete, WithoutEntry, Finished
  <2>14. CASE Abort(m) \/ EndAbort(m)
    BY <2>14 DEF Abort, EndAbort, Finished
  <2>15. CASE ReadJournal(m) \/ Remove(m)
    BY <2>15 DEF ReadJournal, Remove, database
  <2>16. CASE EndRecovery(m)
    BY <2>16 DEF EndRecovery, Settled, Down
  <2>17. CASE EndClose(m)
    BY <2>17 DEF EndClose, Down
  <2>18. QED
    BY <1>2, <2>1, <2>2, <2>3, <2>4, <2>5, <2>6, <2>7, <2>8, <2>9, <2>10, <2>11, <2>12, <2>13,
       <2>14, <2>15, <2>16, <2>17 DEF MainStep, Work
<1>3. QED
  BY <1>1, <1>2, NextIsMainStep

\* A step that adds no entry and lets nobody hold a term anew keeps the journal's part.
LEMMA JournalShrinks ==
  ASSUME LibraryInv, TermsAreOwn', journal' \subseteq journal, lease'.token = lease.token,
         NEW m \in Mains,
         \A n \in Mains \ {m} : /\ phase'[n] = phase[n] /\ token'[n] = token[n]
                               /\ fenced'[n] = fenced[n] /\ step'[n] = step[n],
         token'[m] = token[m],
         HoldsTerm(m)' => HoldsTerm(m) \/ journal' = {},
         HoldsTerm(m)' /\ ~fenced'[m] /\ step'[m] \in {"idle", "begun"} =>
           journal' = {} \/ (~fenced[m] /\ step[m] \in {"idle", "begun"})
  PROVE  OwnersJournal'
BY DEF LibraryInv, OwnersJournal, HoldsTerm

\* Only a prepared entry is new, and only of an owner whose journal is empty.
LEMMA PrepareOwnsJournal ==
  ASSUME LibraryInv, NEW m \in Mains, Prepare(m)
  PROVE  OwnersJournal'
<1>1. HoldsTerm(m) /\ ~fenced[m] /\ token[m] > 0
  BY DEF LibraryInv, TypeOK, TermsAreOwn, HoldsTerm, Prepare, CanUse, Owns
<1>2. journal = {}
  BY <1>1 DEF LibraryInv, OwnersJournal, Prepare
<1>3. \A n \in Mains : HoldsTerm(n) => n = m
  BY <1>1 DEF LibraryInv, TermsAreOwn, HoldsTerm
<1>4. journal' =
        {[token |-> token[m], state |-> "prepared", doc |-> pub[m].doc, bodies |-> {}]}
  BY <1>2 DEF Prepare
<1>5. HoldsTerm(m)' /\ \A n \in Mains : HoldsTerm(n)' => n = m
  BY <1>1, <1>3 DEF HoldsTerm, Prepare
<1>6. step' = [step EXCEPT ![m] = "writing"] /\ token' = token
  BY DEF Prepare, Go
<1>7. QED
  BY <1>4, <1>5, <1>6 DEF LibraryInv, TypeOK, OwnersJournal

\* An entry that is changed keeps the token it was made with.
LEMMA ChangedEntry ==
  ASSUME LibraryInv, NEW m \in Mains,
         \A j, k \in journal' : j = k,
         \A j \in journal' : \E k \in journal : j.token = k.token,
         lease' = lease, phase' = phase, token' = token, fenced' = fenced,
         step' = [step EXCEPT ![m] = step'[m]], step'[m] \notin {"idle", "begun"}
  PROVE  OwnersJournal'
<1>1. \A n \in Mains : HoldsTerm(n)' => HoldsTerm(n)
  BY DEF HoldsTerm
<1>2. QED
  BY <1>1 DEF LibraryInv, TypeOK, OwnersJournal

LEMMA EnterOwnsJournal ==
  ASSUME LibraryInv, NEW m \in Mains, NEW state,
         Enter(m, state), lease' = lease, phase' = phase, token' = token, fenced' = fenced,
         step' = [step EXCEPT ![m] = step'[m]], step'[m] \notin {"idle", "begun"}
  PROVE  OwnersJournal'
<1>1. \A j \in journal : [j EXCEPT !.state = state].token = j.token
  BY DEF LibraryInv, TypeOK, Entry
<1>2. \A j \in journal' : \E k \in journal : j.token = k.token
  BY <1>1 DEF Enter, Entries
<1>3. \A j, k \in journal' : j = k
  BY DEF LibraryInv, OwnersJournal, Enter, Entries
<1>4. QED
  BY <1>2, <1>3, ChangedEntry

LEMMA StepOwnersJournal ==
  ASSUME LibraryInv, TermsAreOwn', Next
  PROVE  OwnersJournal'
<1> USE DEF Go
<1>0. step \in [Mains -> Steps] /\ fenced \in [Mains -> BOOLEAN] /\ phase = [n \in Mains |-> phase[n]]
      /\ token = [n \in Mains |-> token[n]]
  BY DEF LibraryInv, TypeOK
<1>1. CASE Expire \/ HoldUp
  <2>1. lease'.token = lease.token /\ UNCHANGED <<journal, mainVars>>
    BY <1>1 DEF Expire, HoldUp, Lapse, LibraryInv, TypeOK
  <2>2. QED
    BY <2>1 DEF mainVars, LibraryInv, OwnersJournal, HoldsTerm
<1>2. ASSUME NEW m \in Mains, MainStep(m) PROVE OwnersJournal'
  <2>1. ASSUME NEW d \in Documents, Begin(m, d) PROVE OwnersJournal'
    BY <1>0, <2>1, JournalShrinks DEF Begin, IsNewer, database, HoldsTerm
  <2>2. CASE Commit(m)
    BY <1>0, <2>2, JournalShrinks DEF Commit, HoldsTerm
  <2>3. ASSUME NEW p \in Projects, Delete(m, p) PROVE OwnersJournal'
    BY <1>0, <2>3, JournalShrinks DEF Delete, mainVars, HoldsTerm
  <2>4. CASE Start(m)
    <3>1. ~HoldsTerm(m)' /\ \A n \in Mains \ {m} : ~HoldsTerm(n)'
      BY <1>0, <2>4 DEF Start, NextToken, HoldsTerm, LibraryInv, TypeOK, TermsAreOwn
    <3>2. QED
      BY <2>4, <3>1 DEF Start, NextToken, LibraryInv, OwnersJournal
  <2>5. CASE Renew(m) \/ Notice(m)
    BY <1>0, <2>5, JournalShrinks DEF Renew, Notice, database, HoldsTerm, LibraryInv, TypeOK
  <2>6. CASE Crash(m) \/ Close(m)
    BY <1>0, <2>6, JournalShrinks DEF Crash, Close, Down, database, HoldsTerm
  <2>7. CASE Revoked(m) \/ Refused(m)
    BY <1>0, <2>7, JournalShrinks DEF Revoked, Refused, database, HoldsTerm
  <2>8. CASE Prepare(m)
    BY <2>8, PrepareOwnsJournal
  <2>9. CASE Write(m)
    BY <1>0, <2>9, JournalShrinks DEF Write, database, HoldsTerm
  <2>10. CASE JournalBodies(m)
    <3>1. CASE Unique(Written(m))
      <4>1. \A j \in journal : [j EXCEPT !.bodies = Written(m)].token = j.token
        BY DEF LibraryInv, TypeOK, Entry
      <4>2. \A j \in journal' : \E k \in journal : j.token = k.token
        <5>1. ASSUME NEW j \in journal'
              PROVE  j \in journal \/ \E k \in Entries(m) : j = [k EXCEPT !.bodies = Written(m)]
          BY <2>10, <3>1 DEF JournalBodies
        <5>2. Entries(m) \subseteq journal
          BY DEF Entries
        <5>3. QED
          BY <4>1, <5>1, <5>2
      <4>3. \A j, k \in journal' : j = k
        BY <2>10, <3>1 DEF LibraryInv, OwnersJournal, JournalBodies, Entries
      <4>4. QED
        BY <1>0, <2>10, <3>1, <4>2, <4>3, ChangedEntry DEF JournalBodies
    <3>2. CASE ~Unique(Written(m))
      BY <1>0, <2>10, <3>2, JournalShrinks DEF JournalBodies, HoldsTerm
    <3>3. QED
      BY <3>1, <3>2
  <2>11. CASE RenameBody(m) \/ RenameDocument(m)
    BY <1>0, <2>11, JournalShrinks DEF RenameBody, RenameDocument, database, HoldsTerm
  <2>12. CASE Materialize(m)
    BY <1>0, <2>12, EnterOwnsJournal DEF Materialize
  <2>13. CASE Confirm(m)
    BY <1>0, <2>13, EnterOwnsJournal DEF Confirm
  <2>14. CASE Complete(m)
    <3>1. HoldsTerm(m)' => journal' = {}
      BY <2>14 DEF LibraryInv, OwnersJournal, HoldsTerm, Complete, WithoutEntry, Finished, Entries
    <3>2. QED
      BY <1>0, <2>14, <3>1, JournalShrinks DEF Complete, WithoutEntry, Finished, HoldsTerm
  <2>15. CASE Abort(m)
    <3>1. HoldsTerm(m)' /\ ~fenced'[m] /\ step'[m] \in {"idle", "begun"} => journal' = {}
      BY <1>0, <2>15 DEF LibraryInv, OwnersJournal, HoldsTerm, Abort, Finished, Entries
    <3>2. QED
      BY <1>0, <2>15, <3>1, JournalShrinks DEF Abort, Finished, HoldsTerm
  <2>16. CASE EndAbort(m)
    <3>1. HoldsTerm(m)' /\ ~fenced'[m] => journal' = {}
      BY <1>0, <2>16 DEF LibraryInv, OwnersJournal, HoldsTerm, EndAbort, Finished, Entries
    <3>2. QED
      BY <1>0, <2>16, <3>1, JournalShrinks DEF EndAbort, Finished, HoldsTerm
  <2>17. CASE ReadJournal(m) \/ Remove(m)
    BY <1>0, <2>17, JournalShrinks DEF ReadJournal, Remove, database, HoldsTerm
  <2>18. CASE EndRecovery(m)
    BY <1>0, <2>18, JournalShrinks DEF EndRecovery, Settled, Down, HoldsTerm
  <2>19. CASE EndClose(m)
    BY <1>0, <2>19, JournalShrinks DEF EndClose, Down, HoldsTerm, LibraryInv, TypeOK
  <2>20. QED
    BY <1>2, <2>1, <2>2, <2>3, <2>4, <2>5, <2>6, <2>7, <2>8, <2>9, <2>10, <2>11, <2>12, <2>13,
       <2>14, <2>15, <2>16, <2>17, <2>18, <2>19 DEF MainStep, Work
<1>3. QED
  BY <1>1, <1>2, NextIsMainStep

-----------------------------------------------------------------------------
LEMMA InitInv == Init => LibraryInv
<1> SUFFICES ASSUME Init PROVE LibraryInv
  OBVIOUS
<1>1. TypeOK
  BY InitType
<1>2. PublishesNewer /\ TermsAreOwn /\ OwnersJournal
  BY DEF Init, PublishesNewer, Publishing, TermsAreOwn, OwnersJournal, HoldsTerm
<1>3. QED
  BY <1>1, <1>2 DEF LibraryInv

LEMMA StutterInv == LibraryInv /\ UNCHANGED vars => LibraryInv'
BY DEF LibraryInv, TypeOK, PublishesNewer, Newer, TermsAreOwn, OwnersJournal, HoldsTerm,
       vars, database, mainVars

THEOREM LibraryInvariant == Spec => []LibraryInv
<1>1. Init => LibraryInv
  BY InitInv
<1>2. LibraryInv /\ [Next]_vars => LibraryInv'
  BY StepType, StepPublishesNewer, StepTermsAreOwn, StepOwnersJournal, StutterInv DEF LibraryInv
<1>3. QED
  BY <1>1, <1>2, PTL DEF Spec

(* The variables of the library keep their types: writer.ts and the storage *)
(* never hand over a document, an entry or a file of another kind.          *)
THEOREM LibraryTypeCorrect == Spec => []TypeOK
<1>1. LibraryInv => TypeOK
  BY DEF LibraryInv
<1>2. QED
  BY <1>1, LibraryInvariant, PTL

(* The journal never has two entries, so recover never refuses to open the  *)
(* library, however many mains crash or are held up past their lease.       *)
THEOREM JournalHasOneEntry == Spec => []OneEntry
<1>1. LibraryInv => OneEntry
  <2> SUFFICES ASSUME LibraryInv PROVE Cardinality(journal) <= 1
    BY DEF OneEntry
  <2>1. CASE journal = {}
    BY <2>1, FS_EmptySet
  <2>2. CASE journal # {}
    <3>1. PICK j : j \in journal
      BY <2>2
    <3>2. \A k \in journal : k = j
      BY <3>1 DEF LibraryInv, OwnersJournal
    <3>3. journal = {j}
      BY <3>1, <3>2
    <3>4. Cardinality({j}) = 1
      BY FS_Singleton
    <3>5. QED
      BY <3>3, <3>4
  <2>3. QED
    BY <2>1, <2>2
<1>2. QED
  BY <1>1, LibraryInvariant, PTL

(* The library implements the catalog: every project moves from a document   *)
(* to a newer one or is deleted, one revision a step, whoever writes.        *)
THEOREM CatalogMovesForward == Spec => ImplementsCatalog
<1>1. Init => Catalog!Init
  BY DEF Init, Catalog!Init
<1>2. ASSUME LibraryInv, [Next]_vars PROVE [Catalog!Next]_<<rows, meta>>
  <2>1. ASSUME NEW m \in Mains, Commit(m) PROVE [Catalog!Next]_<<rows, meta>>
    <3>1. CASE meta = pub[m].meta
      <4>1. pub[m].doc \in Documents /\ Newer(pub[m].doc)
        <5>1. step[m] = "committing"
          BY <2>1 DEF Commit
        <5>2. QED
          BY <3>1, <5>1, <1>2 DEF LibraryInv, PublishesNewer, Publishing
      <4>2. Catalog!Publish(pub[m].doc)
        <5>1. Catalog!NewerThan(pub[m].doc, rows[pub[m].doc.project])
          BY <4>1 DEF Newer, Catalog!NewerThan
        <5>2. QED
          BY <2>1, <3>1, <5>1 DEF Commit, Catalog!Publish
      <4>3. QED
        BY <4>1, <4>2 DEF Catalog!Next
    <3>2. CASE meta # pub[m].meta
      BY <2>1, <3>2 DEF Commit
    <3>3. QED
      BY <3>1, <3>2
  <2>2. ASSUME NEW m \in Mains, NEW p \in Projects, Delete(m, p) PROVE Catalog!Next
    BY <2>2 DEF Delete, Catalog!Next, Catalog!Delete
  <2>3. ASSUME NEW m \in Mains,
               MainStep(m), ~Commit(m), \A p \in Projects : ~Delete(m, p)
        PROVE  UNCHANGED <<rows, meta>>
    BY <2>3 DEF MainStep, Work, Start, NextToken, Renew, Crash, Notice, Revoked, Close, Begin, IsNewer, Prepare, Write,
                JournalBodies, RenameBody, RenameDocument, Materialize, Confirm, Complete, WithoutEntry, Refused,
                Abort, ReadJournal, Remove, EndAbort, EndRecovery, Settled, EndClose, database
  <2>4. CASE Expire \/ HoldUp
    BY <2>4 DEF Expire, HoldUp, Lapse
  <2>5. CASE UNCHANGED vars
    BY <2>5 DEF vars, database
  <2>6. QED
    BY <1>2, <2>1, <2>2, <2>3, <2>4, <2>5, NextIsMainStep
<1>3. QED
  BY <1>1, <1>2, LibraryInvariant, PTL DEF Spec, ImplementsCatalog, Catalog!CatalogSpec
-----------------------------------------------------------------------------
(* The files.  Until a live main outlives its lease, there is one at most;  *)
(* what it removes no row needs, and what it commits is in its place.       *)

Clear(removed) ==
  \A p \in Projects : rows[p] # NoDocument => removed \cap FilesOf(rows[p]) = {}

ClearBut(removed, d) ==
  \A p \in Projects : rows[p] \notin {NoDocument, d} => removed \cap FilesOf(rows[p]) = {}

RowsAreOwn == \A p \in Projects : rows[p] # NoDocument => rows[p].project = p

Alone ==
  \A m \in Mains :
    /\ phase[m] = "down" => step[m] = "idle"
    /\ phase[m] # "down" =>
         lease.active /\ ~lease.expired /\ token[m] = lease.token /\ ~fenced[m]

EntriesAreSafe ==
  \A j \in journal : /\ j.bodies \subseteq BodiesOf[j.doc]
                     /\ ClearBut({j.doc} \cup ContentsOf(j.bodies), j.doc)

Journalling == {"writing", "journalling", "renaming", "materializing", "committing"}

FilesAreReady(m) ==
  /\ step[m] \in Publishing => ~InCatalog(pub[m].doc)
  /\ step[m] \in Journalling => \A j \in journal : j.doc = pub[m].doc
  /\ step[m] \in {"journalling", "renaming"} =>
       ContentsOf(BodiesOf[pub[m].doc]) \subseteq files \cup todo[m]
  /\ step[m] \in {"materializing", "committing"} => FilesOf(pub[m].doc) \subseteq files
  /\ step[m] \in {"journalling", "removing"} => Clear(todo[m])

FilesInv ==
  /\ LibraryInv /\ Alone /\ RowsAreOwn /\ EntriesAreSafe /\ NothingIsMissing
  /\ \A m \in Mains : FilesAreReady(m)

\* Nobody else is up.
LEMMA OthersAreIdle ==
  ASSUME FilesInv, NEW m \in Mains, phase[m] # "down"
  PROVE  \A n \in Mains \ {m} : phase[n] = "down" /\ step[n] = "idle"
<1>1. token[m] > 0 /\ token[m] = lease.token
  BY DEF FilesInv, LibraryInv, TermsAreOwn, Alone
<1>2. ASSUME NEW n \in Mains \ {m} PROVE phase[n] = "down"
  BY <1>1, <1>2 DEF FilesInv, LibraryInv, TermsAreOwn, Alone
<1>3. QED
  BY <1>2 DEF FilesInv, Alone

LEMMA IdleIsReady ==
  ASSUME NEW m \in Mains, step[m] \in {"idle", "aborting", "reading", "confirming", "completing"}
  PROVE  FilesAreReady(m)
BY DEF FilesAreReady, Publishing, Journalling

\* What is not named by a row is not needed, unless a row comes to name it.
LEMMA ClearStays ==
  ASSUME NEW F, Clear(F), \A p \in Projects : rows'[p] \in {rows[p], NoDocument}
  PROVE  Clear(F)'
BY DEF Clear, FilesOf, ContentsOf

\* A document no row names has its own file, and no body has it.
LEMMA DocumentIsClear ==
  ASSUME FilesInv, NEW d \in Documents, ~InCatalog(d)
  PROVE  Clear({d})
<1> SUFFICES ASSUME NEW p \in Projects, rows[p] # NoDocument PROVE d \notin FilesOf(rows[p])
  BY DEF Clear
<1>1. rows[p] \in Documents /\ rows[p].project = p
  BY DEF FilesInv, LibraryInv, TypeOK, RowsAreOwn
<1>2. d # rows[p]
  BY <1>1 DEF InCatalog
<1>3. d \notin ContentsOf(BodiesOf[rows[p]])
  BY <1>1, FilesAssumption DEF ContentsOf
<1>4. QED
  BY <1>2, <1>3 DEF FilesOf

\* The files of a journalled publication that no row needs are those it may remove.
LEMMA UnneededIsClear ==
  ASSUME FilesInv, NEW j \in journal
  PROVE  Clear(Unneeded(j))
<1>1. j.doc \in Documents /\ j.bodies \subseteq BodiesOf[j.doc]
  BY DEF FilesInv, LibraryInv, TypeOK, Entry, EntriesAreSafe
<1>2. CASE InCatalog(j.doc)
  <2>1. j.doc.project \in Projects /\ rows[j.doc.project] = j.doc /\ j.doc # NoDocument
    BY <1>1, <1>2 DEF InCatalog
  <2>2. j.bodies \subseteq ReferencedBodies
    BY <1>1, <2>1 DEF ReferencedBodies
  <2>3. Unneeded(j) = {}
    BY <2>1, <2>2 DEF Unneeded, ContentsOf
  <2>4. QED
    BY <2>3 DEF Clear
<1>3. CASE ~InCatalog(j.doc)
  <2>1. ClearBut({j.doc} \cup ContentsOf(j.bodies), j.doc)
    BY DEF FilesInv, EntriesAreSafe
  <2>2. \A p \in Projects : rows[p] # j.doc
    BY <1>1, <1>3 DEF FilesInv, RowsAreOwn, InCatalog
  <2>3. Unneeded(j) \subseteq {j.doc} \cup ContentsOf(j.bodies)
    BY DEF Unneeded, ContentsOf
  <2>4. QED
    BY <2>1, <2>2, <2>3 DEF Clear, ClearBut
<1>4. QED
  BY <1>2, <1>3

\* Until then, no lease is lost by a main that is up.
LEMMA StepAlone ==
  ASSUME FilesInv, Next, ~heldUp'
  PROVE  Alone'
<1> USE DEF FilesInv, LibraryInv, TypeOK, TermsAreOwn, Alone, Go, CanUse, Owns
<1>1. CASE Expire \/ HoldUp
  <2>1. ~HoldUp
    BY DEF HoldUp
  <2>2. phase' = phase /\ step' = step /\ \A m \in Mains : phase[m] = "down"
    BY <1>1, <2>1 DEF Expire, Lapse, InUse, mainVars
  <2>3. QED
    BY <2>2
<1>2. ASSUME NEW m \in Mains, MainStep(m) PROVE Alone'
  <2>1. CASE Start(m)
    <3>1. \A n \in Mains : phase[n] = "down"
      BY <2>1 DEF Start, NextToken
    <3>2. QED
      BY <2>1, <3>1 DEF Start, NextToken
  <2>2. CASE Renew(m) \/ Notice(m) \/ Refused(m)
    BY <2>2 DEF Renew, Notice, Refused
  <2>3. CASE Crash(m) \/ Close(m)
    BY <2>3 DEF Crash, Close, Down, database
  <2>4. CASE Revoked(m) \/ \E d \in Documents : Begin(m, d)
    BY <2>4 DEF Revoked, Begin, IsNewer, database
  <2>5. CASE Prepare(m) \/ Write(m) \/ JournalBodies(m) \/ RenameBody(m) \/ RenameDocument(m)
    BY <2>5 DEF Prepare, Write, JournalBodies, RenameBody, RenameDocument, database
  <2>6. CASE Materialize(m) \/ Commit(m) \/ Confirm(m) \/ Complete(m)
    BY <2>6 DEF Materialize, Commit, Confirm, Complete, WithoutEntry, Finished
  <2>7. CASE \E p \in Projects : Delete(m, p)
    BY <2>7 DEF Delete, mainVars
  <2>8. CASE Abort(m)
    BY <2>8 DEF Abort, Finished
  <2>9. CASE ReadJournal(m) \/ Remove(m)
    BY <2>9 DEF ReadJournal, Remove, database
  <2>10. CASE EndAbort(m)
    BY <2>10 DEF EndAbort, Finished
  <2>11. CASE EndRecovery(m)
    BY <2>11 DEF EndRecovery, Settled, Down
  <2>12. CASE EndClose(m)
    <3>1. \A n \in Mains \ {m} : phase[n] = "down"
      BY <2>12, OthersAreIdle DEF EndClose
    <3>2. QED
      BY <2>12, <3>1 DEF EndClose, Down
  <2>13. QED
    BY <1>2, <2>1, <2>2, <2>3, <2>4, <2>5, <2>6, <2>7, <2>8, <2>9, <2>10, <2>11, <2>12
       DEF MainStep, Work
<1>3. QED
  BY <1>1, <1>2, NextIsMainStep

\* What a step of one main has to show.
LEMMA OneMain ==
  ASSUME FilesInv, LibraryInv', Alone', NEW m \in Mains,
         \A n \in Mains \ {m} : step'[n] = step[n] /\ phase[n] = "down",
         RowsAreOwn', EntriesAreSafe', NothingIsMissing', FilesAreReady(m)'
  PROVE  FilesInv'
<1>1. ASSUME NEW n \in Mains \ {m} PROVE FilesAreReady(n)'
  <2>1. step'[n] = "idle"
    BY DEF FilesInv, Alone
  <2>2. QED
    BY <2>1 DEF FilesAreReady, Publishing, Journalling
<1>2. QED
  BY <1>1 DEF FilesInv

\* A step that leaves the catalog and takes no file away, and no entry on.
LEMMA CatalogStays ==
  ASSUME FilesInv, rows' = rows, files \subseteq files',
         \A k \in journal' : \E j \in journal : k.doc = j.doc /\ k.bodies = j.bodies
  PROVE  RowsAreOwn' /\ EntriesAreSafe' /\ NothingIsMissing'
<1>1. RowsAreOwn' /\ NothingIsMissing'
  BY DEF FilesInv, RowsAreOwn, NothingIsMissing, FilesOf, ContentsOf
<1>2. ASSUME NEW k \in journal'
      PROVE  k.bodies \subseteq BodiesOf[k.doc] /\
             ClearBut({k.doc} \cup ContentsOf(k.bodies), k.doc)'
  <2>1. PICK j \in journal : k.doc = j.doc /\ k.bodies = j.bodies
    OBVIOUS
  <2>2. j.bodies \subseteq BodiesOf[j.doc] /\ ClearBut({j.doc} \cup ContentsOf(j.bodies), j.doc)
    BY DEF FilesInv, EntriesAreSafe
  <2>3. QED
    BY <2>1, <2>2 DEF ClearBut, FilesOf, ContentsOf
<1>3. QED
  BY <1>1, <1>2 DEF EntriesAreSafe

LEMMA EnterKeepsEntries ==
  ASSUME FilesInv, NEW m \in Mains, NEW state, Enter(m, state)
  PROVE  \A k \in journal' : \E j \in journal : k.doc = j.doc /\ k.bodies = j.bodies
<1>1. \A j \in journal : [j EXCEPT !.state = state].doc = j.doc
                      /\ [j EXCEPT !.state = state].bodies = j.bodies
  BY DEF FilesInv, LibraryInv, TypeOK, Entry
<1>2. Entries(m) \subseteq journal
  BY DEF Entries
<1>3. ASSUME NEW k \in journal'
      PROVE  k \in journal \/ \E j \in Entries(m) : k = [j EXCEPT !.state = state]
  BY DEF Enter
<1>4. QED
  BY <1>1, <1>2, <1>3

\* Starting, closing and crashing, and what ends a publication or a recovery.
LEMMA UnhurriedStep ==
  ASSUME FilesInv, LibraryInv', Alone', NEW m \in Mains,
         \/ Start(m) \/ Crash(m) \/ Close(m) \/ Revoked(m) \/ ReadJournal(m)
         \/ Confirm(m) \/ Complete(m) \/ Abort(m) \/ EndAbort(m) \/ EndRecovery(m) \/ EndClose(m)
  PROVE  FilesInv'
<1> USE DEF Go
<1>0. step \in [Mains -> Steps] /\ todo \in [Mains -> SUBSET (Documents \cup Contents)]
  BY DEF FilesInv, LibraryInv, TypeOK
<1>1. \A n \in Mains \ {m} : phase[n] = "down"
  <2>1. CASE Start(m)
    BY <2>1 DEF Start, NextToken, FilesInv, Alone
  <2>2. CASE ~Start(m)
    <3>1. phase[m] # "down"
      BY <2>2 DEF Crash, Close, Revoked, ReadJournal, Confirm, Complete, WithoutEntry, Abort, EndAbort,
                  EndRecovery, Settled, EndClose, FilesInv, Alone
    <3>2. QED
      BY <3>1, OthersAreIdle
  <2>3. QED
    BY <2>1, <2>2
<1>2. /\ rows' = rows /\ files' = files
      /\ \A k \in journal' : \E j \in journal : k.doc = j.doc /\ k.bodies = j.bodies
      /\ \A n \in Mains \ {m} : step'[n] = step[n]
  <2>1. CASE Confirm(m)
    BY <1>0, <2>1, EnterKeepsEntries DEF Confirm
  <2>2. CASE ~Confirm(m)
    BY <1>0, <2>2 DEF Start, NextToken, Crash, Close, Revoked, ReadJournal, Complete, WithoutEntry, Abort, EndAbort, EndRecovery, Settled,
                EndClose, Down, Finished, database
  <2>3. QED
    BY <2>1, <2>2
<1>3. FilesAreReady(m)'
  <2>1. CASE step'[m] # "removing"
    <3>1. step'[m] \in {"idle", "aborting", "reading", "confirming", "completing"}
      BY <1>0, <2>1 DEF Start, NextToken, Crash, Close, Revoked, ReadJournal, Confirm, Complete, WithoutEntry, Abort, EndAbort,
                  EndRecovery, Settled, EndClose, Down, Finished
    <3>2. QED
      BY <3>1 DEF FilesAreReady, Publishing, Journalling
  <2>2. CASE step'[m] = "removing"
    <3>1. CASE Abort(m)
      <4>1. todo'[m] = UNION {Unneeded(j) : j \in Entries(m)}
        BY <1>0, <2>2, <3>1 DEF Abort, Finished
      <4>2. Clear(todo'[m])
        BY <4>1, UnneededIsClear DEF Clear, Entries
      <4>3. QED
        BY <1>2, <2>2, <4>2 DEF FilesAreReady, Publishing, Journalling, Clear, FilesOf, ContentsOf
    <3>2. CASE ReadJournal(m)
      <4>1. todo'[m] = UNION {Unneeded(j) : j \in {k \in journal : ~InCatalog(k.doc)}}
        BY <1>0, <2>2, <3>2 DEF ReadJournal
      <4>2. Clear(todo'[m])
        BY <4>1, UnneededIsClear DEF Clear
      <4>3. QED
        BY <1>2, <2>2, <4>2 DEF FilesAreReady, Publishing, Journalling, Clear, FilesOf, ContentsOf
    <3>3. QED
      BY <1>0, <2>2, <3>1, <3>2 DEF Start, NextToken, Crash, Close, Revoked, Confirm, Complete, WithoutEntry, EndAbort,
                  EndRecovery, Settled, EndClose, Down, Finished
  <2>3. QED
    BY <2>1, <2>2
<1>4. QED
  BY <1>1, <1>2, <1>3, CatalogStays, OneMain

\* A publication up to its commit.
LEMMA PublishingStep ==
  ASSUME FilesInv, LibraryInv', Alone', NEW m \in Mains,
         \/ \E d \in Documents : Begin(m, d)
         \/ Prepare(m) \/ Write(m) \/ JournalBodies(m) \/ RenameBody(m) \/ RenameDocument(m)
         \/ Materialize(m)
  PROVE  FilesInv'
<1> USE DEF Go
<1>0. /\ step \in [Mains -> Steps] /\ todo \in [Mains -> SUBSET (Documents \cup Contents)]
      /\ pub \in [Mains -> Publication] /\ phase[m] # "down"
      /\ step[m] \in Publishing => pub[m].doc \in Documents
  BY DEF FilesInv, LibraryInv, TypeOK, Alone, PublishesNewer, Begin, IsNewer, Prepare, Write, JournalBodies,
         RenameBody, RenameDocument, Materialize
<1>1. \A n \in Mains \ {m} : phase[n] = "down"
  BY <1>0, OthersAreIdle
<1> HIDE <1>0
<1>2. ASSUME NEW d \in Documents, Begin(m, d) PROVE FilesInv'
  <2>1. rows' = rows /\ files' = files /\ journal' = journal
    BY <1>2 DEF Begin, IsNewer, database
  <2>2. step' = [step EXCEPT ![m] = "begun"] /\ pub'[m].doc = d
    BY <1>0, <1>2 DEF Begin, IsNewer
  <2>3. ~InCatalog(d)
    BY <1>2 DEF Begin, IsNewer, InCatalog
  <2>4. FilesAreReady(m)'
    BY <1>0, <2>1, <2>2, <2>3 DEF FilesAreReady, Publishing, Journalling, InCatalog
  <2>5. QED
    BY <1>0, <1>1, <2>1, <2>2, <2>4, CatalogStays, OneMain
<1>3. CASE Prepare(m)
  <2> DEFINE d == pub[m].doc
             entry == [token |-> token[m], state |-> "prepared", doc |-> d, bodies |-> {}]
  <2>1. d \in Documents /\ ~InCatalog(d)
    BY <1>0, <1>3 DEF Prepare, FilesInv, FilesAreReady, Publishing
  <2>2. HoldsTerm(m) /\ ~fenced[m]
    BY <1>3 DEF Prepare, CanUse, Owns, HoldsTerm, FilesInv, LibraryInv, TermsAreOwn
  <2>3. journal = {}
    BY <1>3, <2>2 DEF Prepare, FilesInv, LibraryInv, OwnersJournal
  <2>4. journal' = {entry}
    BY <1>3, <2>3 DEF Prepare
  <2>5. rows' = rows /\ files' = files /\ pub' = pub /\ step' = [step EXCEPT ![m] = "writing"]
    BY <1>3 DEF Prepare
  <2>6. Clear({d})
    BY <2>1, DocumentIsClear
  <2>7. ContentsOf({}) = {}
    BY DEF ContentsOf
  <2>8. entry.doc = d /\ entry.bodies = {}
    OBVIOUS
  <2>9. EntriesAreSafe'
    <3>1. ASSUME NEW k \in journal'
          PROVE  /\ k.bodies \subseteq BodiesOf[k.doc]
                 /\ ClearBut({k.doc} \cup ContentsOf(k.bodies), k.doc)
      <4>1. k.doc = d /\ k.bodies = {}
        BY <2>4, <2>8
      <4>2. {k.doc} \cup ContentsOf(k.bodies) = {d}
        BY <2>7, <4>1
      <4>3. QED
        BY <2>6, <4>1, <4>2 DEF Clear, ClearBut
    <3>2. QED
      BY <2>5, <3>1 DEF EntriesAreSafe, ClearBut, FilesOf, ContentsOf
  <2>10. RowsAreOwn' /\ NothingIsMissing'
    BY <2>5 DEF FilesInv, RowsAreOwn, NothingIsMissing, FilesOf, ContentsOf
  <2>11. FilesAreReady(m)'
    BY <1>0, <2>1, <2>4, <2>5, <2>8 DEF FilesAreReady, Publishing, Journalling, InCatalog
  <2>12. QED
    BY <1>0, <1>1, <2>5, <2>9, <2>10, <2>11, OneMain
<1>4. CASE Write(m)
  <2>1. rows' = rows /\ files' = files /\ journal' = journal /\ pub' = pub
    BY <1>4 DEF Write, database
  <2>2. \A n \in Mains \ {m} : step'[n] = step[n]
    BY <1>0, <1>4 DEF Write
  <2>3. FilesAreReady(m)'
    <3>1. CASE step'[m] = "aborting"
      BY <3>1 DEF FilesAreReady, Publishing, Journalling
    <3>2. CASE step'[m] # "aborting"
      <4>1. step'[m] = "journalling" /\ todo'[m] = Missing(pub[m].doc)
        BY <1>0, <1>4, <3>2 DEF Write
      <4>2. \A p \in Projects : rows[p] # NoDocument => FilesOf(rows[p]) \subseteq files
        BY DEF FilesInv, NothingIsMissing
      <4>3. Missing(pub[m].doc) \cap files = {}
        BY DEF Missing
      <4>4. Clear(Missing(pub[m].doc))
        BY <4>2, <4>3 DEF Clear
      <4>5. ContentsOf(BodiesOf[pub[m].doc]) \subseteq files \cup Missing(pub[m].doc)
        BY DEF Missing
      <4>6. ~InCatalog(pub[m].doc) /\ \A j \in journal : j.doc = pub[m].doc
        BY <1>4 DEF Write, FilesInv, FilesAreReady, Publishing, Journalling
      <4>7. QED
        BY <2>1, <4>1, <4>4, <4>5, <4>6
           DEF FilesAreReady, Publishing, Journalling, InCatalog, Clear, FilesOf, ContentsOf
    <3>3. QED
      BY <3>1, <3>2
  <2>4. QED
    BY <1>0, <1>1, <2>1, <2>2, <2>3, CatalogStays, OneMain
<1>5. CASE JournalBodies(m)
  <2>1. rows' = rows /\ files' = files /\ pub' = pub /\ todo' = todo
    BY <1>5 DEF JournalBodies
  <2>2. \A n \in Mains \ {m} : step'[n] = step[n]
    BY <1>0, <1>5 DEF JournalBodies
  <2>3. CASE step'[m] = "aborting"
    <3>1. journal' = journal
      BY <1>0, <1>5, <2>3 DEF JournalBodies
    <3>2. FilesAreReady(m)'
      BY <2>3 DEF FilesAreReady, Publishing, Journalling
    <3>3. QED
      BY <1>0, <1>1, <2>1, <2>2, <3>1, <3>2, CatalogStays, OneMain
  <2>4. CASE step'[m] # "aborting"
    <3>1. /\ step'[m] = "renaming"
          /\ journal' = (journal \ Entries(m)) \cup
                          {[j EXCEPT !.bodies = Written(m)] : j \in Entries(m)}
      BY <1>0, <1>5, <2>4 DEF JournalBodies
    <3>2. ~InCatalog(pub[m].doc) /\ (\A j \in journal : j.doc = pub[m].doc)
          /\ ContentsOf(BodiesOf[pub[m].doc]) \subseteq files \cup todo[m] /\ Clear(todo[m])
      BY <1>5 DEF JournalBodies, FilesInv, FilesAreReady, Publishing, Journalling
    <3>3. Written(m) \subseteq BodiesOf[pub[m].doc] /\ ContentsOf(Written(m)) \subseteq todo[m]
      BY DEF Written, ContentsOf
    <3>4. Clear({pub[m].doc})
      BY <1>0, <1>5, <3>2, DocumentIsClear DEF JournalBodies, Publishing
    <3>5. Clear({pub[m].doc} \cup ContentsOf(Written(m)))
      BY <3>2, <3>3, <3>4 DEF Clear
    <3>6. ASSUME NEW k \in journal'
          PROVE  \/ k \in journal
                 \/ k.doc = pub[m].doc /\ k.bodies = Written(m)
      <4>1. ASSUME k \notin journal PROVE k.doc = pub[m].doc /\ k.bodies = Written(m)
        <5>1. PICK j \in Entries(m) : k = [j EXCEPT !.bodies = Written(m)]
          BY <3>1, <4>1
        <5>2. j \in Entry /\ j.doc = pub[m].doc
          BY <3>2 DEF Entries, FilesInv, LibraryInv, TypeOK
        <5>3. QED
          BY <5>1, <5>2 DEF Entry
      <4>2. QED
        BY <4>1
    <3>7. ASSUME NEW k \in journal'
          PROVE  /\ k.bodies \subseteq BodiesOf[k.doc]
                 /\ ClearBut({k.doc} \cup ContentsOf(k.bodies), k.doc)
      BY <3>3, <3>5, <3>6 DEF FilesInv, EntriesAreSafe, Clear, ClearBut
    <3>8. EntriesAreSafe'
      BY <2>1, <3>7 DEF EntriesAreSafe, ClearBut, FilesOf, ContentsOf
    <3>9. RowsAreOwn' /\ NothingIsMissing'
      BY <2>1 DEF FilesInv, RowsAreOwn, NothingIsMissing, FilesOf, ContentsOf
    <3>10. FilesAreReady(m)'
      BY <2>1, <3>1, <3>2, <3>6 DEF FilesAreReady, Publishing, Journalling, InCatalog, ContentsOf
    <3>11. QED
      BY <1>0, <1>1, <2>2, <3>8, <3>9, <3>10, OneMain
  <2>5. QED
    BY <2>3, <2>4
<1>6. CASE RenameBody(m) \/ RenameDocument(m)
  <2>1. rows' = rows /\ files \subseteq files' /\ journal' = journal /\ pub' = pub
    BY <1>6 DEF RenameBody, RenameDocument, database
  <2>2. \A n \in Mains \ {m} : step'[n] = step[n]
    BY <1>0, <1>6 DEF RenameBody, RenameDocument
  <2>3. ~InCatalog(pub[m].doc) /\ (\A j \in journal : j.doc = pub[m].doc)
        /\ ContentsOf(BodiesOf[pub[m].doc]) \subseteq files \cup todo[m]
    BY <1>6 DEF RenameBody, RenameDocument, FilesInv, FilesAreReady, Publishing, Journalling
  <2>4. FilesAreReady(m)'
    <3>1. CASE RenameBody(m)
      <4>1. step'[m] = "renaming" /\ files \cup todo[m] = files' \cup todo'[m]
        BY <1>0, <3>1 DEF RenameBody
      <4>2. QED
        BY <2>1, <2>3, <4>1 DEF FilesAreReady, Publishing, Journalling, InCatalog, ContentsOf
    <3>2. CASE RenameDocument(m)
      <4>1. step'[m] = "materializing" /\ FilesOf(pub[m].doc) \subseteq files'
        BY <1>0, <2>3, <3>2 DEF RenameDocument, FilesOf
      <4>2. QED
        BY <2>1, <2>3, <4>1
           DEF FilesAreReady, Publishing, Journalling, InCatalog, ContentsOf, FilesOf
    <3>3. QED
      BY <1>6, <3>1, <3>2
  <2>5. QED
    BY <1>0, <1>1, <2>1, <2>2, <2>4, CatalogStays, OneMain
<1>7. CASE Materialize(m)
  <2>1. rows' = rows /\ files' = files /\ pub' = pub
        /\ step' = [step EXCEPT ![m] = "committing"]
    BY <1>7 DEF Materialize
  <2>2. \A k \in journal' : \E j \in journal : k.doc = j.doc /\ k.bodies = j.bodies
    BY <1>7, EnterKeepsEntries DEF Materialize
  <2>3. ~InCatalog(pub[m].doc) /\ (\A j \in journal : j.doc = pub[m].doc)
        /\ FilesOf(pub[m].doc) \subseteq files
    BY <1>7 DEF Materialize, FilesInv, FilesAreReady, Publishing, Journalling
  <2>4. FilesAreReady(m)'
    BY <1>0, <2>1, <2>2, <2>3
       DEF FilesAreReady, Publishing, Journalling, InCatalog, ContentsOf, FilesOf
  <2>5. QED
    BY <1>0, <1>1, <2>1, <2>2, <2>4, CatalogStays, OneMain
<1>8. QED
  BY <1>2, <1>3, <1>4, <1>5, <1>6, <1>7

\* The commit, and what happens to files and rows afterwards.
LEMMA CommitStep ==
  ASSUME FilesInv, LibraryInv', Alone', NEW m \in Mains, Commit(m)
  PROVE  FilesInv'
<1> DEFINE d == pub[m].doc
<1>0. /\ step \in [Mains -> Steps] /\ step[m] = "committing" /\ phase[m] # "down"
      /\ rows \in [Projects -> Documents \cup {NoDocument}]
      /\ d \in Documents /\ d.project \in Projects
  BY DEF FilesInv, LibraryInv, TypeOK, Alone, PublishesNewer, Publishing, Commit
<1>1. \A n \in Mains \ {m} : phase[n] = "down"
  BY <1>0, OthersAreIdle
<1>2. files' = files /\ journal' = journal /\ \A n \in Mains \ {m} : step'[n] = step[n]
  BY <1>0 DEF Commit, Go
<1>3. FilesAreReady(m)'
  BY <1>0 DEF Commit, Go, FilesAreReady, Publishing, Journalling
<1>4. CASE meta = pub[m].meta
  <2>1. rows' = [rows EXCEPT ![d.project] = d]
    BY <1>4 DEF Commit
  <2>2. FilesOf(d) \subseteq files /\ \A j \in journal : j.doc = d
    BY <1>0 DEF FilesInv, FilesAreReady, Journalling
  <2>3. RowsAreOwn'
    BY <1>0, <2>1 DEF FilesInv, RowsAreOwn
  <2>4. NothingIsMissing'
    BY <1>0, <1>2, <2>1, <2>2 DEF FilesInv, NothingIsMissing, FilesOf, ContentsOf
  <2>5. ASSUME NEW j \in journal' PROVE ClearBut({j.doc} \cup ContentsOf(j.bodies), j.doc)'
    <3>1. ClearBut({j.doc} \cup ContentsOf(j.bodies), d) /\ j.doc = d
      BY <1>2, <2>2 DEF FilesInv, EntriesAreSafe
    <3>2. \A p \in Projects : rows'[p] \in {rows[p], d}
      BY <1>0, <2>1
    <3>3. QED
      BY <3>1, <3>2 DEF ClearBut, FilesOf, ContentsOf
  <2>6. EntriesAreSafe'
    BY <1>2, <2>5 DEF FilesInv, EntriesAreSafe
  <2>7. QED
    BY <1>0, <1>1, <1>2, <1>3, <2>3, <2>4, <2>6, OneMain
<1>5. CASE meta # pub[m].meta
  <2>1. rows' = rows
    BY <1>5 DEF Commit
  <2>2. QED
    BY <1>0, <1>1, <1>2, <1>3, <2>1, CatalogStays, OneMain
<1>6. QED
  BY <1>4, <1>5

LEMMA RemoveStep ==
  ASSUME FilesInv, LibraryInv', Alone', NEW m \in Mains, Remove(m)
  PROVE  FilesInv'
<1>0. /\ step[m] = "removing" /\ phase[m] # "down"
      /\ todo \in [Mains -> SUBSET (Documents \cup Contents)]
  BY DEF FilesInv, LibraryInv, TypeOK, Alone, Remove
<1>1. \A n \in Mains \ {m} : phase[n] = "down"
  BY <1>0, OthersAreIdle
<1>2. PICK f \in todo[m] : files' = files \ {f} /\ todo' = [todo EXCEPT ![m] = @ \ {f}]
  BY DEF Remove
<1>3. Clear(todo[m])
  BY <1>0 DEF FilesInv, FilesAreReady
<1>4. rows' = rows /\ journal' = journal /\ step' = step
  BY DEF Remove, database
<1>5. NothingIsMissing'
  BY <1>2, <1>3, <1>4 DEF FilesInv, NothingIsMissing, Clear, FilesOf, ContentsOf
<1>6. RowsAreOwn' /\ EntriesAreSafe'
  BY <1>4 DEF FilesInv, RowsAreOwn, EntriesAreSafe, ClearBut, FilesOf, ContentsOf
<1>7. FilesAreReady(m)'
  BY <1>0, <1>2, <1>3, <1>4
     DEF FilesAreReady, Publishing, Journalling, Clear, FilesOf, ContentsOf
<1>8. QED
  BY <1>1, <1>4, <1>5, <1>6, <1>7, OneMain

LEMMA DeleteStep ==
  ASSUME FilesInv, LibraryInv', Alone', NEW m \in Mains, NEW p \in Projects, Delete(m, p)
  PROVE  FilesInv'
<1>0. phase[m] # "down" /\ rows \in [Projects -> Documents \cup {NoDocument}]
  BY DEF FilesInv, LibraryInv, TypeOK, Alone, Delete
<1>1. \A n \in Mains \ {m} : phase[n] = "down"
  BY <1>0, OthersAreIdle
<1>2. rows' = [rows EXCEPT ![p] = NoDocument]
  BY DEF Delete
<1>3. journal' = journal /\ files' = files /\ step' = step /\ pub' = pub /\ todo' = todo
  BY DEF Delete, mainVars
<1>4. \A q \in Projects : rows'[q] \in {rows[q], NoDocument}
  BY <1>0, <1>2
<1>5. RowsAreOwn' /\ NothingIsMissing'
  BY <1>3, <1>4 DEF FilesInv, RowsAreOwn, NothingIsMissing, FilesOf, ContentsOf
<1>6. EntriesAreSafe'
  <2>1. ASSUME NEW j \in journal' PROVE ClearBut({j.doc} \cup ContentsOf(j.bodies), j.doc)'
    BY <1>3, <1>4 DEF FilesInv, EntriesAreSafe, ClearBut, FilesOf, ContentsOf
  <2>2. QED
    BY <1>3, <2>1 DEF FilesInv, EntriesAreSafe
<1>7. FilesAreReady(m)'
  <2>1. step[m] \in Publishing => pub[m].doc \in Documents /\ ~InCatalog(pub[m].doc)
    BY DEF FilesInv, FilesAreReady, LibraryInv, PublishesNewer
  <2>2. step[m] \in Publishing => ~InCatalog(pub[m].doc)'
    BY <1>3, <1>4, <2>1 DEF InCatalog
  <2>3. step[m] \in {"journalling", "removing"} => Clear(todo[m])'
    BY <1>3, <1>4, ClearStays DEF FilesInv, FilesAreReady, Clear, FilesOf, ContentsOf
  <2>4. QED
    BY <1>3, <2>2, <2>3
       DEF FilesInv, FilesAreReady, Publishing, Journalling, FilesOf, ContentsOf
<1>8. QED
  BY <1>1, <1>3, <1>5, <1>6, <1>7, OneMain

LEMMA ExpireStep ==
  ASSUME FilesInv, LibraryInv', Alone', Expire \/ HoldUp
  PROVE  FilesInv'
<1>1. UNCHANGED <<journal, rows, files, mainVars>>
  BY DEF Expire, HoldUp
<1>2. RowsAreOwn' /\ EntriesAreSafe' /\ NothingIsMissing'
  BY <1>1, CatalogStays
<1>3. \A m \in Mains : FilesAreReady(m)'
  BY <1>1 DEF mainVars, FilesInv, FilesAreReady, Publishing, Journalling, InCatalog, Clear,
              FilesOf, ContentsOf
<1>4. QED
  BY <1>2, <1>3 DEF FilesInv

\* Whoever is up may use its lease.
LEMMA NothingLapses ==
  ASSUME FilesInv, NEW m \in Mains
  PROVE  /\ phase[m] # "down" => CanUse(m)
         /\ ~Renew(m) /\ ~Notice(m) /\ ~Refused(m)
<1>1. step[m] # "idle" => phase[m] # "down"
  BY DEF FilesInv, Alone
<1>2. phase[m] # "down" => CanUse(m) /\ ~lease.expired
  BY DEF FilesInv, Alone, CanUse, Owns
<1>3. QED
  BY <1>1, <1>2 DEF Renew, Notice, Refused, CanUse

LEMMA FilesInvStep ==
  ASSUME FilesInv, Next, ~heldUp'
  PROVE  FilesInv'
<1>1. LibraryInv'
  BY StepType, StepPublishesNewer, StepTermsAreOwn, StepOwnersJournal DEF FilesInv, LibraryInv
<1>2. Alone'
  BY StepAlone
<1>3. ASSUME NEW m \in Mains, MainStep(m) PROVE FilesInv'
  <2>1. ~Renew(m) /\ ~Notice(m) /\ ~Refused(m)
    BY NothingLapses
  <2>2. QED
    BY <1>1, <1>2, <1>3, <2>1, UnhurriedStep, PublishingStep, CommitStep, RemoveStep, DeleteStep
       DEF MainStep, Work
<1>4. QED
  BY <1>1, <1>2, <1>3, ExpireStep, NextIsMainStep

LEMMA FilesInvInit == Init => FilesInv
<1> SUFFICES ASSUME Init PROVE FilesInv
  OBVIOUS
<1>1. LibraryInv
  BY InitInv
<1>2. QED
  BY <1>1 DEF Init, FilesInv, Alone, RowsAreOwn, EntriesAreSafe, NothingIsMissing, FilesAreReady,
              Publishing, Journalling

LEMMA FilesInvStutter == FilesInv /\ UNCHANGED vars => FilesInv'
<1> SUFFICES ASSUME FilesInv, UNCHANGED vars PROVE FilesInv'
  OBVIOUS
<1>1. LibraryInv'
  BY StutterInv DEF FilesInv
<1>2. QED
  BY <1>1 DEF FilesInv, Alone, RowsAreOwn, EntriesAreSafe, NothingIsMissing, FilesAreReady, InCatalog,
              Publishing, Journalling, Clear, ClearBut, FilesOf, ContentsOf, vars, database, mainVars

\* No step but HoldUp makes a main outlive its lease, and none takes it back.
LEMMA HeldUpStays ==
  ASSUME Next, ~heldUp', heldUp \in BOOLEAN
  PROVE  ~heldUp
<1>1. ASSUME NEW m \in Mains, MainStep(m) PROVE heldUp' = heldUp
  BY <1>1 DEF MainStep, Work, Start, Renew, Crash, Notice, Revoked, Close, Begin, Prepare, Write,
              JournalBodies, RenameBody, RenameDocument, Materialize, Confirm, Complete, Refused,
              Abort, ReadJournal, Remove, EndAbort, EndRecovery, EndClose, Commit, Delete
<1>2. QED
  BY <1>1, NextIsMainStep DEF Expire, HoldUp

(* Until a live main outlives its lease, every row of the catalog has its    *)
(* document and all its bodies in place, at every step of a publication, a   *)
(* crash, a recovery and a removal: the order of journal, files and row in   *)
(* the storage, and the reference check of reclaimPublication, see to it.    *)
THEOREM StoredStaysComplete == Spec => []StoredIsComplete
<1> DEFINE Held == LibraryInv /\ (~heldUp => FilesInv)
<1>1. Init => Held
  BY InitInv, FilesInvInit
<1>2. Held /\ [Next]_vars => Held'
  <2> SUFFICES ASSUME Held, [Next]_vars PROVE Held'
    OBVIOUS
  <2>1. LibraryInv'
    BY StepType, StepPublishesNewer, StepTermsAreOwn, StepOwnersJournal, StutterInv DEF LibraryInv
  <2>2. ASSUME ~heldUp' PROVE FilesInv'
    <3>1. heldUp \in BOOLEAN
      BY DEF LibraryInv, TypeOK
    <3>2. ~heldUp
      BY <2>2, <3>1, HeldUpStays DEF vars
    <3>3. QED
      BY <2>2, <3>2, FilesInvStep, FilesInvStutter
  <2>3. QED
    BY <2>1, <2>2
<1>3. Held => StoredIsComplete
  BY DEF FilesInv, StoredIsComplete
<1>4. QED
  BY <1>1, <1>2, <1>3, PTL DEF Spec
-----------------------------------------------------------------------------
(* What no row ever named.  Until a live main outlives its lease, such files *)
(* are those of the journal: they are journalled before they take their      *)
(* names, and an entry goes only when its files were stored or are removed.  *)

EntryFiles(j) == {j.doc} \cup ContentsOf(j.bodies)
JournalFiles == UNION {EntryFiles(j) : j \in journal}

FilesAreNamed == files \subseteq stored \cup JournalFiles
RowsAreStored == \A p \in Projects : rows[p] # NoDocument => FilesOf(rows[p]) \subseteq stored
CommittedIsStored == \A j \in journal : j.state = "committed" => EntryFiles(j) \subseteq stored

Accounted(m) ==
  /\ step[m] \in Journalling => \E j \in Entries(m) : j.doc = pub[m].doc
  /\ step[m] \in {"writing", "journalling"} =>
       \A j \in journal : j.state = "prepared" /\ j.bodies = {}
  /\ step[m] = "journalling" => todo[m] \subseteq ContentsOf(BodiesOf[pub[m].doc])
  /\ step[m] = "renaming" => todo[m] \subseteq JournalFiles
  /\ step[m] \in {"confirming", "completing"} =>
       \A j \in journal : EntryFiles(j) \subseteq stored
  /\ step[m] = "removing" =>
       \A j \in journal : EntryFiles(j) \cap files \subseteq stored \cup todo[m]

DebrisInv ==
  /\ FilesAreNamed /\ RowsAreStored /\ CommittedIsStored
  /\ \A m \in Mains : Accounted(m)

\* What a step of one main has to show.
LEMMA OneMainAccounts ==
  ASSUME Alone', NEW m \in Mains, \A n \in Mains \ {m} : phase'[n] = "down",
         FilesAreNamed', RowsAreStored', CommittedIsStored', Accounted(m)'
  PROVE  DebrisInv'
<1>1. ASSUME NEW n \in Mains \ {m} PROVE Accounted(n)'
  <2>1. step'[n] = "idle"
    BY DEF Alone
  <2>2. QED
    BY <2>1 DEF Accounted, Journalling
<1>2. QED
  BY <1>1 DEF DebrisInv

\* A step that adds no file, no row and no entry.
LEMMA AccountsStay ==
  ASSUME DebrisInv, journal' = journal, files' \subseteq files, stored' = stored,
         \A p \in Projects : rows'[p] \in {rows[p], NoDocument}
  PROVE  FilesAreNamed' /\ RowsAreStored' /\ CommittedIsStored'
<1>1. FilesAreNamed'
  BY DEF DebrisInv, FilesAreNamed, JournalFiles, EntryFiles, ContentsOf
<1>2. RowsAreStored'
  BY DEF DebrisInv, RowsAreStored, FilesOf, ContentsOf
<1>3. CommittedIsStored'
  BY DEF DebrisInv, CommittedIsStored, EntryFiles, ContentsOf
<1>4. QED
  BY <1>1, <1>2, <1>3

\* An entry that changes its state keeps its files.
LEMMA EntryKeepsFiles ==
  ASSUME FilesInv, DebrisInv, NEW m \in Mains, NEW state, Enter(m, state), stored' = stored,
         files' = files, rows' = rows,
         state = "committed" => \A j \in journal : EntryFiles(j) \subseteq stored
  PROVE  /\ FilesAreNamed' /\ RowsAreStored' /\ CommittedIsStored'
         /\ \A k \in journal' : \E j \in journal : EntryFiles(k)' = EntryFiles(j)
         /\ \A j \in Entries(m) : \E k \in journal' : k.token = j.token /\ k.doc = j.doc
<1>1. ASSUME NEW j \in journal
      PROVE  /\ [j EXCEPT !.state = state].state = state
             /\ [j EXCEPT !.state = state].token = j.token
             /\ [j EXCEPT !.state = state].doc = j.doc
             /\ [j EXCEPT !.state = state].bodies = j.bodies
  BY DEF FilesInv, LibraryInv, TypeOK, Entry
<1>2. Entries(m) \subseteq journal
  BY DEF Entries
<1>3. \A k \in journal' : k \in journal \/ \E j \in Entries(m) : k = [j EXCEPT !.state = state]
  BY DEF Enter
<1>4. \A j \in journal : \E k \in journal' : k.token = j.token /\ k.doc = j.doc /\ k.bodies = j.bodies
  <2>1. TAKE j \in journal
  <2>2. CASE j \in Entries(m)
    <3>1. [j EXCEPT !.state = state] \in journal'
      BY <2>2 DEF Enter
    <3>2. QED
      BY <1>1, <3>1
  <2>3. CASE j \notin Entries(m)
    BY <2>3 DEF Enter
  <2>4. QED
    BY <2>2, <2>3
<1>5. \A k \in journal' : \E j \in journal : /\ k.doc = j.doc /\ k.bodies = j.bodies
                                             /\ k = j \/ k.state = state
  <2>1. TAKE k \in journal'
  <2>2. CASE k \in journal
    BY <2>2
  <2>3. CASE k \notin journal
    <3>1. PICK j \in Entries(m) : k = [j EXCEPT !.state = state]
      BY <1>3, <2>3
    <3>2. j \in journal /\ k.doc = j.doc /\ k.bodies = j.bodies /\ k.state = state
      BY <1>1, <1>2, <3>1
    <3>3. QED
      BY <3>2
  <2>4. QED
    BY <2>2, <2>3
<1>6. FilesAreNamed'
  BY <1>4 DEF DebrisInv, FilesAreNamed, JournalFiles, EntryFiles, ContentsOf
<1>7. RowsAreStored'
  BY DEF DebrisInv, RowsAreStored, FilesOf, ContentsOf
<1>8. CommittedIsStored'
  BY <1>5 DEF DebrisInv, CommittedIsStored, EntryFiles, ContentsOf
<1>9. \A k \in journal' : \E j \in journal : EntryFiles(k)' = EntryFiles(j)
  BY <1>5 DEF EntryFiles, ContentsOf
<1>10. QED
  BY <1>2, <1>4, <1>6, <1>7, <1>8, <1>9

\* What of an entry is not to be removed was stored with a row.
LEMMA UnneededIsTheRest ==
  ASSUME FilesInv, DebrisInv, NEW j \in journal
  PROVE  EntryFiles(j) \subseteq stored \cup Unneeded(j)
<1>1. ASSUME \E p \in Projects : rows[p] = j.doc PROVE j.doc \in stored
  <2>1. j.doc # NoDocument
    BY DocumentsAssumption DEF FilesInv, LibraryInv, TypeOK, Entry
  <2>2. QED
    BY <1>1, <2>1 DEF DebrisInv, RowsAreStored, FilesOf
<1>2. ASSUME NEW b \in j.bodies, b \in ReferencedBodies PROVE ContentOf[b] \in stored
  <2>1. PICK p \in Projects : rows[p] # NoDocument /\ b \in BodiesOf[rows[p]]
    BY <1>2 DEF ReferencedBodies
  <2>2. QED
    BY <2>1 DEF DebrisInv, RowsAreStored, FilesOf, ContentsOf
<1>3. QED
  BY <1>1, <1>2 DEF EntryFiles, Unneeded, ContentsOf

LEMMA InCatalogIsStored ==
  ASSUME FilesInv, DebrisInv, NEW j \in journal, InCatalog(j.doc)
  PROVE  EntryFiles(j) \subseteq stored
<1>1. j.doc \in Documents /\ j.bodies \subseteq BodiesOf[j.doc]
  BY DEF FilesInv, LibraryInv, TypeOK, Entry, EntriesAreSafe
<1>2. j.doc.project \in Projects /\ rows[j.doc.project] = j.doc /\ j.doc # NoDocument
  BY <1>1 DEF InCatalog
<1>3. FilesOf(j.doc) \subseteq stored
  BY <1>2 DEF DebrisInv, RowsAreStored
<1>4. QED
  BY <1>1, <1>3 DEF EntryFiles, FilesOf, ContentsOf

\* Only one main is up after a step of a main.
LEMMA OneIsUp ==
  ASSUME FilesInv, NEW m \in Mains, MainStep(m)
  PROVE  /\ \A n \in Mains \ {m} : phase'[n] = "down"
         /\ step \in [Mains -> Steps] /\ todo \in [Mains -> SUBSET (Documents \cup Contents)]
         /\ pub \in [Mains -> Publication] /\ phase \in [Mains -> {"down", "recovering", "open", "closing"}]
<1>1. /\ step \in [Mains -> Steps] /\ todo \in [Mains -> SUBSET (Documents \cup Contents)]
      /\ pub \in [Mains -> Publication] /\ phase \in [Mains -> {"down", "recovering", "open", "closing"}]
  BY DEF FilesInv, LibraryInv, TypeOK
<1>2. \A n \in Mains \ {m} : phase'[n] = phase[n]
  BY <1>1 DEF MainStep, Work, Start, Renew, Crash, Notice, Revoked, Close, Begin, Prepare, Write,
              JournalBodies, RenameBody, RenameDocument, Materialize, Confirm, Complete, Refused,
              Abort, ReadJournal, Remove, EndAbort, EndRecovery, EndClose, Commit, Delete, Down, mainVars
<1>3. phase[m] = "down" => \A n \in Mains : phase[n] = "down"
  <2>1. SUFFICES ASSUME phase[m] = "down" PROVE \A n \in Mains : phase[n] = "down"
    OBVIOUS
  <2>2. step[m] = "idle"
    BY <2>1 DEF FilesInv, Alone
  <2>3. Start(m)
    BY <2>1, <2>2, NothingLapses DEF MainStep, Work, Crash, Revoked, Close, Begin, Prepare, Write,
              JournalBodies, RenameBody, RenameDocument, Materialize, Confirm, Complete,
              Abort, ReadJournal, Remove, EndAbort, EndRecovery, EndClose, Commit, Delete
  <2>4. QED
    BY <2>3 DEF Start, FilesInv, Alone
<1>4. QED
  BY <1>1, <1>2, <1>3, OthersAreIdle

\* The steps that leave the journal alone and add no file.
LEMMA JournalStays ==
  ASSUME FilesInv, DebrisInv, Alone', NEW m \in Mains, MainStep(m),
         \/ Start(m) \/ Crash(m) \/ Close(m) \/ Revoked(m) \/ Write(m) \/ ReadJournal(m) \/ Remove(m)
         \/ (\E d \in Documents : Begin(m, d)) \/ (\E p \in Projects : Delete(m, p))
  PROVE  DebrisInv'
<1> USE DEF Go
<1>0. /\ \A n \in Mains \ {m} : phase'[n] = "down"
      /\ step \in [Mains -> Steps] /\ todo \in [Mains -> SUBSET (Documents \cup Contents)]
      /\ pub \in [Mains -> Publication] /\ rows \in [Projects -> Documents \cup {NoDocument}]
  BY OneIsUp DEF FilesInv, LibraryInv, TypeOK
<1>1. /\ journal' = journal /\ files' \subseteq files /\ stored' = stored
      /\ \A p \in Projects : rows'[p] \in {rows[p], NoDocument}
  BY <1>0 DEF Start, Crash, Close, Revoked, Write, ReadJournal, Remove, Begin, Delete, Down, database
<1>2. FilesAreNamed' /\ RowsAreStored' /\ CommittedIsStored'
  BY <1>1, AccountsStay
<1>3. Accounted(m)
  BY DEF DebrisInv
<1>4. Accounted(m)'
  <2>1. CASE Start(m) \/ Crash(m) \/ Close(m) \/ Revoked(m) \/ \E d \in Documents : Begin(m, d)
    <3>1. step'[m] \in {"idle", "reading", "aborting", "begun"}
      BY <1>0, <2>1 DEF Start, Crash, Close, Revoked, Begin, Down
    <3>2. QED
      BY <3>1 DEF Accounted, Journalling
  <2>2. CASE Write(m)
    <3>1. CASE step'[m] = "aborting"
      BY <3>1 DEF Accounted, Journalling
    <3>2. CASE step'[m] # "aborting"
      <4>1. step[m] = "writing" /\ step'[m] = "journalling" /\ todo'[m] = Missing(pub[m].doc)
            /\ pub' = pub /\ token' = token
        BY <1>0, <2>2, <3>2 DEF Write
      <4>2. /\ \E j \in Entries(m) : j.doc = pub[m].doc
            /\ \A j \in journal : j.state = "prepared" /\ j.bodies = {}
        BY <1>3, <4>1 DEF Accounted, Journalling
      <4>3. Missing(pub[m].doc) \subseteq ContentsOf(BodiesOf[pub[m].doc])
        BY DEF Missing
      <4>4. QED
        BY <1>1, <4>1, <4>2, <4>3 DEF Accounted, Journalling, Entries, ContentsOf
    <3>3. QED
      BY <3>1, <3>2
  <2>3. CASE \E p \in Projects : Delete(m, p)
    BY <1>1, <1>3, <2>3
       DEF Delete, mainVars, Accounted, Journalling, Entries, EntryFiles, JournalFiles, ContentsOf
  <2>4. CASE Remove(m)
    <3>1. PICK f \in todo[m] : files' = files \ {f} /\ todo' = [todo EXCEPT ![m] = @ \ {f}]
      BY <2>4 DEF Remove
    <3>2. step[m] = "removing" /\ step'[m] = "removing"
      BY <2>4 DEF Remove
    <3>3. todo'[m] = todo[m] \ {f}
      BY <1>0, <3>1
    <3>4. \A j \in journal : EntryFiles(j) \cap files \subseteq stored \cup todo[m]
      BY <1>3, <3>2 DEF Accounted
    <3>5. \A j \in journal : EntryFiles(j) \cap files' \subseteq stored \cup todo'[m]
      BY <3>1, <3>3, <3>4
    <3>6. QED
      BY <1>1, <3>2, <3>5 DEF Accounted, Journalling, EntryFiles, ContentsOf
  <2>5. CASE ReadJournal(m)
    <3>1. CASE step'[m] # "removing"
      <4>1. step'[m] = "idle"
        BY <1>0, <2>5, <3>1 DEF ReadJournal
      <4>2. QED
        BY <4>1 DEF Accounted, Journalling
    <3>2. CASE step'[m] = "removing"
      <4>1. todo'[m] = UNION {Unneeded(j) : j \in {k \in journal : ~InCatalog(k.doc)}}
        BY <1>0, <2>5, <3>2 DEF ReadJournal
      <4>2. ASSUME NEW j \in journal, InCatalog(j.doc) PROVE EntryFiles(j) \subseteq stored
        BY <4>2, InCatalogIsStored
      <4>3. ASSUME NEW j \in journal PROVE EntryFiles(j) \subseteq stored \cup Unneeded(j)
        BY UnneededIsTheRest
      <4>4. \A j \in journal : EntryFiles(j) \cap files' \subseteq stored \cup todo'[m]
        BY <4>1, <4>2, <4>3
      <4>5. QED
        BY <1>1, <3>2, <4>4 DEF Accounted, Journalling, EntryFiles, ContentsOf
    <3>3. QED
      BY <3>1, <3>2
  <2>6. QED
    BY <2>1, <2>2, <2>3, <2>4, <2>5
<1>5. QED
  BY <1>0, <1>2, <1>4, OneMainAccounts

\* The entry, its bodies and the files they name.
LEMMA NamingSteps ==
  ASSUME FilesInv, DebrisInv, Alone', NEW m \in Mains, MainStep(m),
         Prepare(m) \/ JournalBodies(m) \/ RenameBody(m) \/ RenameDocument(m)
  PROVE  DebrisInv'
<1> USE DEF Go
<1>0. /\ \A n \in Mains \ {m} : phase'[n] = "down"
      /\ step \in [Mains -> Steps] /\ todo \in [Mains -> SUBSET (Documents \cup Contents)]
      /\ pub \in [Mains -> Publication]
  BY OneIsUp DEF FilesInv, LibraryInv, TypeOK
<1>1. Accounted(m) /\ rows' = rows /\ stored' = stored /\ token' = token /\ pub' = pub
  BY DEF DebrisInv, Prepare, JournalBodies, RenameBody, RenameDocument, database
<1>2. RowsAreStored'
  BY <1>1 DEF DebrisInv, RowsAreStored, FilesOf, ContentsOf
<1>3. CASE Prepare(m)
  <2> DEFINE entry == [token |-> token[m], state |-> "prepared", doc |-> pub[m].doc, bodies |-> {}]
  <2>1. HoldsTerm(m) /\ ~fenced[m]
    BY <1>3 DEF Prepare, CanUse, Owns, HoldsTerm, FilesInv, LibraryInv, TermsAreOwn
  <2>2. journal = {}
    BY <1>3, <2>1 DEF Prepare, FilesInv, LibraryInv, OwnersJournal
  <2>3. journal' = {entry} /\ files' = files /\ step'[m] = "writing"
    BY <1>0, <1>3, <2>2 DEF Prepare
  <2>4. FilesAreNamed'
    BY <1>1, <2>2, <2>3 DEF DebrisInv, FilesAreNamed, JournalFiles
  <2>5. entry.state = "prepared" /\ entry.token = token[m] /\ entry.doc = pub[m].doc /\ entry.bodies = {}
    OBVIOUS
  <2>6. CommittedIsStored'
    BY <2>3, <2>5 DEF CommittedIsStored
  <2>7. \E j \in Entries(m)' : j.doc = pub[m].doc
    BY <1>1, <2>3, <2>5 DEF Entries
  <2>8. Accounted(m)'
    BY <1>1, <2>3, <2>5, <2>7 DEF Accounted, Journalling
  <2>9. QED
    BY <1>0, <1>2, <2>4, <2>6, <2>8, OneMainAccounts
<1>4. CASE JournalBodies(m)
  <2>0. step[m] = "journalling" /\ files' = files /\ todo' = todo
    BY <1>4 DEF JournalBodies
  <2>1. CASE step'[m] = "aborting"
    <3>1. journal' = journal
      BY <1>0, <1>4, <2>1 DEF JournalBodies
    <3>2. Accounted(m)'
      BY <2>1 DEF Accounted, Journalling
    <3>3. QED
      BY <1>0, <1>1, <2>0, <3>1, <3>2, AccountsStay, OneMainAccounts
  <2>2. CASE step'[m] # "aborting"
    <3> DEFINE With(j) == [j EXCEPT !.bodies = Written(m)]
    <3>1. /\ step'[m] = "renaming"
          /\ journal' = (journal \ Entries(m)) \cup {With(j) : j \in Entries(m)}
      BY <1>0, <1>4, <2>2 DEF JournalBodies
    <3>2. PICK e \in Entries(m) : e.doc = pub[m].doc
      BY <1>1, <2>0 DEF Accounted, Journalling
    <3>3. (\A j \in journal : j.state = "prepared" /\ j.bodies = {}) /\ todo[m] \subseteq ContentsOf(BodiesOf[pub[m].doc])
      BY <1>1, <2>0 DEF Accounted
    <3>4. ASSUME NEW j \in journal
          PROVE  With(j).doc = j.doc /\ With(j).token = j.token /\ With(j).state = j.state
                 /\ With(j).bodies = Written(m)
      BY DEF FilesInv, LibraryInv, TypeOK, Entry
    <3>5. Entries(m) \subseteq journal
      BY DEF Entries
    <3> HIDE DEF With
    <3>6. \A j \in Entries(m) : With(j) \in journal'
      BY <3>1
    <3>7. \A j \in journal : \E k \in journal' : k.doc = j.doc
      <4>1. TAKE j \in journal
      <4>2. CASE j \in Entries(m)
        BY <3>4, <3>6, <4>2
      <4>3. CASE j \notin Entries(m)
        BY <3>1, <4>3
      <4>4. QED
        BY <4>2, <4>3
    <3>8. \A j \in journal : EntryFiles(j) = {j.doc}
      BY <3>3 DEF EntryFiles, ContentsOf
    <3>9. FilesAreNamed'
      <4>1. ASSUME NEW f \in files, f \notin stored PROVE \E k \in journal' : f \in EntryFiles(k)'
        <5>1. PICK j \in journal : f \in EntryFiles(j)
          BY <4>1 DEF DebrisInv, FilesAreNamed, JournalFiles
        <5>2. PICK k \in journal' : k.doc = j.doc
          BY <3>7
        <5>3. QED
          BY <3>8, <5>1, <5>2 DEF EntryFiles
      <4>2. QED
        BY <1>1, <2>0, <4>1 DEF FilesAreNamed, JournalFiles
    <3>10. \A j \in journal : j.doc = pub[m].doc
      BY <2>0 DEF FilesInv, FilesAreReady, Journalling
    <3>12. CommittedIsStored'
      <4>1. \A k \in journal' : k.state # "committed"
        BY <3>1, <3>3, <3>4, <3>5
      <4>2. QED
        BY <4>1 DEF CommittedIsStored
    <3>13. ContentsOf(Written(m)) = todo[m]
      BY <3>3 DEF ContentsOf, Written
    <3>14. With(e) \in Entries(m)' /\ With(e).doc = pub[m].doc /\ With(e).bodies = Written(m)
      <4>1. e \in journal /\ e.token = token[m]
        BY DEF Entries
      <4>2. QED
        BY <1>1, <3>2, <3>4, <3>6, <4>1 DEF Entries
    <3>15. todo[m] \subseteq JournalFiles'
      BY <3>6, <3>13, <3>14 DEF JournalFiles, EntryFiles, ContentsOf
    <3>16. Accounted(m)'
      BY <1>1, <2>0, <3>1, <3>14, <3>15 DEF Accounted, Journalling
    <3>17. QED
      BY <1>0, <1>2, <3>9, <3>12, <3>16, OneMainAccounts
  <2>3. QED
    BY <2>1, <2>2
<1>5. CASE RenameBody(m) \/ RenameDocument(m)
  <2>1. journal' = journal /\ step[m] = "renaming"
    BY <1>5 DEF RenameBody, RenameDocument, database
  <2>2. (\E j \in Entries(m) : j.doc = pub[m].doc) /\ todo[m] \subseteq JournalFiles
    BY <1>1, <2>1 DEF Accounted, Journalling
  <2>3. files' \subseteq files \cup JournalFiles
    <3>1. CASE RenameBody(m)
      BY <2>2, <3>1 DEF RenameBody
    <3>2. CASE RenameDocument(m)
      BY <2>2, <3>2 DEF RenameDocument, JournalFiles, EntryFiles, Entries
    <3>3. QED
      BY <1>5, <3>1, <3>2
  <2>4. FilesAreNamed' /\ CommittedIsStored'
    BY <1>1, <2>1, <2>3 DEF DebrisInv, FilesAreNamed, CommittedIsStored, JournalFiles, EntryFiles, ContentsOf
  <2>5. Accounted(m)'
    <3>1. CASE RenameBody(m)
      <4>1. step'[m] = "renaming" /\ todo'[m] \subseteq todo[m]
        BY <1>0, <2>1, <3>1 DEF RenameBody
      <4>2. QED
        BY <1>1, <2>1, <2>2, <4>1 DEF Accounted, Journalling, Entries, JournalFiles, EntryFiles, ContentsOf
    <3>2. CASE RenameDocument(m)
      <4>1. step'[m] = "materializing"
        BY <1>0, <3>2 DEF RenameDocument
      <4>2. QED
        BY <1>1, <2>1, <2>2, <4>1 DEF Accounted, Journalling, Entries
    <3>3. QED
      BY <1>5, <3>1, <3>2
  <2>6. QED
    BY <1>0, <1>2, <2>4, <2>5, OneMainAccounts
<1>6. QED
  BY <1>3, <1>4, <1>5

\* The documents are in place, the row names them, the entry says so.
LEMMA EnteringSteps ==
  ASSUME FilesInv, DebrisInv, Alone', NEW m \in Mains, MainStep(m),
         Materialize(m) \/ Commit(m) \/ Confirm(m)
  PROVE  DebrisInv'
<1> USE DEF Go
<1>0. /\ \A n \in Mains \ {m} : phase'[n] = "down"
      /\ step \in [Mains -> Steps] /\ rows \in [Projects -> Documents \cup {NoDocument}]
  BY OneIsUp DEF FilesInv, LibraryInv, TypeOK
<1>1. Accounted(m) /\ token' = token /\ pub' = pub /\ files' = files
  BY DEF DebrisInv, Materialize, Commit, Confirm
<1>2. CASE Materialize(m)
  <2>1. step[m] = "materializing" /\ step'[m] = "committing" /\ Enter(m, "materialized")
        /\ stored' = stored /\ rows' = rows
    BY <1>0, <1>2 DEF Materialize
  <2>2. /\ FilesAreNamed' /\ RowsAreStored' /\ CommittedIsStored'
        /\ \A j \in Entries(m) : \E k \in journal' : k.token = j.token /\ k.doc = j.doc
    BY <1>1, <2>1, EntryKeepsFiles
  <2>3. PICK j \in Entries(m) : j.doc = pub[m].doc
    BY <1>1, <2>1 DEF Accounted, Journalling
  <2>4. PICK k \in journal' : k.token = j.token /\ k.doc = j.doc
    BY <2>2
  <2>5. Accounted(m)'
    BY <1>1, <2>1, <2>3, <2>4 DEF Accounted, Journalling, Entries
  <2>6. QED
    BY <1>0, <2>2, <2>5, OneMainAccounts
<1>3. CASE Commit(m)
  <2> DEFINE d == pub[m].doc
  <2>1. journal' = journal /\ step[m] = "committing"
    BY <1>3 DEF Commit
  <2>2. CASE meta # pub[m].meta
    <3>1. rows' = rows /\ stored' = stored /\ step'[m] = "aborting"
      BY <1>0, <1>3, <2>2 DEF Commit
    <3>2. Accounted(m)'
      BY <3>1 DEF Accounted, Journalling
    <3>3. QED
      BY <1>0, <1>1, <2>1, <3>1, <3>2, AccountsStay, OneMainAccounts
  <2>3. CASE meta = pub[m].meta
    <3>1. /\ rows' = [rows EXCEPT ![d.project] = d] /\ stored' = stored \cup FilesOf(d)
          /\ step'[m] = "confirming"
      BY <1>0, <1>3, <2>3 DEF Commit
    <3>2. \A j \in journal : j.doc = d /\ j.bodies \subseteq BodiesOf[d]
      BY <2>1 DEF FilesInv, FilesAreReady, Journalling, EntriesAreSafe
    <3>3. \A j \in journal : EntryFiles(j) \subseteq stored'
      BY <3>1, <3>2 DEF EntryFiles, FilesOf, ContentsOf
    <3>4. FilesAreNamed'
      BY <1>1, <2>1, <3>1 DEF DebrisInv, FilesAreNamed, JournalFiles, EntryFiles, ContentsOf
    <3>5. \A p \in Projects : rows'[p] \in {rows[p], d}
      BY <1>0, <3>1
    <3>6. RowsAreStored'
      <4>1. ASSUME NEW p \in Projects, rows'[p] # NoDocument
            PROVE  FilesOf(rows'[p]) \subseteq stored'
        BY <3>1, <3>5, <4>1 DEF DebrisInv, RowsAreStored
      <4>2. QED
        BY <4>1 DEF RowsAreStored, FilesOf, ContentsOf
    <3>7. CommittedIsStored'
      BY <2>1, <3>3 DEF CommittedIsStored, EntryFiles, ContentsOf
    <3>8. Accounted(m)'
      BY <2>1, <3>1, <3>3 DEF Accounted, Journalling, EntryFiles, ContentsOf
    <3>9. QED
      BY <1>0, <3>4, <3>6, <3>7, <3>8, OneMainAccounts
  <2>4. QED
    BY <2>2, <2>3
<1>4. CASE Confirm(m)
  <2>1. step[m] = "confirming" /\ step'[m] = "completing" /\ Enter(m, "committed")
        /\ stored' = stored /\ rows' = rows
    BY <1>0, <1>4 DEF Confirm
  <2>2. \A j \in journal : EntryFiles(j) \subseteq stored
    BY <1>1, <2>1 DEF Accounted
  <2>3. /\ FilesAreNamed' /\ RowsAreStored' /\ CommittedIsStored'
        /\ \A k \in journal' : \E j \in journal : EntryFiles(k)' = EntryFiles(j)
    BY <1>1, <2>1, <2>2, EntryKeepsFiles
  <2>4. Accounted(m)'
    BY <2>1, <2>2, <2>3 DEF Accounted, Journalling
  <2>5. QED
    BY <1>0, <2>3, <2>4, OneMainAccounts
<1>5. QED
  BY <1>2, <1>3, <1>4

\* An entry goes when what it names was stored, or is not in its place any more.
LEMMA EntriesGo ==
  ASSUME DebrisInv, journal' \subseteq journal, files' = files, stored' = stored, rows' = rows,
         \A j \in journal \ journal' : EntryFiles(j) \cap files \subseteq stored
  PROVE  FilesAreNamed' /\ RowsAreStored' /\ CommittedIsStored'
<1>1. FilesAreNamed'
  BY DEF DebrisInv, FilesAreNamed, JournalFiles, EntryFiles, ContentsOf
<1>2. RowsAreStored' /\ CommittedIsStored'
  BY DEF DebrisInv, RowsAreStored, CommittedIsStored, EntryFiles, FilesOf, ContentsOf
<1>3. QED
  BY <1>1, <1>2

LEMMA EndingSteps ==
  ASSUME FilesInv, DebrisInv, Alone', NEW m \in Mains, MainStep(m),
         Complete(m) \/ Abort(m) \/ EndAbort(m) \/ EndRecovery(m) \/ EndClose(m)
  PROVE  DebrisInv'
<1> USE DEF Go
<1>0. /\ \A n \in Mains \ {m} : phase'[n] = "down"
      /\ step \in [Mains -> Steps] /\ todo \in [Mains -> SUBSET (Documents \cup Contents)]
  BY OneIsUp DEF FilesInv, LibraryInv, TypeOK
<1>1. Accounted(m) /\ files' = files /\ stored' = stored /\ rows' = rows /\ token' = token
  BY DEF DebrisInv, Complete, Abort, EndAbort, EndRecovery, EndClose
<1>2. Entries(m) \subseteq journal
  BY DEF Entries
<1>3. CASE Complete(m)
  <2>1. step[m] = "completing" /\ step'[m] = "idle" /\ journal' = journal \ Entries(m)
    BY <1>0, <1>3 DEF Complete, Finished, WithoutEntry
  <2>2. \A j \in journal : EntryFiles(j) \subseteq stored
    BY <1>1, <2>1 DEF Accounted
  <2>3. FilesAreNamed' /\ RowsAreStored' /\ CommittedIsStored'
    BY <1>1, <2>1, <2>2, EntriesGo
  <2>4. Accounted(m)'
    BY <2>1 DEF Accounted, Journalling
  <2>5. QED
    BY <1>0, <2>3, <2>4, OneMainAccounts
<1>4. CASE Abort(m)
  <2>1. phase[m] = "open" /\ token[m] = lease.token
    <3>1. phase[m] # "down"
      BY <1>4 DEF Abort, FilesInv, Alone
    <3>2. QED
      BY <1>4, <3>1 DEF Abort, FilesInv, Alone, LibraryInv, TypeOK, TermsAreOwn
  <2>2. Entries(m) = journal
    BY <2>1 DEF FilesInv, LibraryInv, OwnersJournal, HoldsTerm, Entries
  <2>3. CASE step'[m] = "removing"
    <3>1. journal' = journal /\ todo'[m] = UNION {Unneeded(j) : j \in Entries(m)}
      BY <1>0, <1>4, <2>3 DEF Abort, Finished
    <3>2. \A j \in journal : EntryFiles(j) \subseteq stored \cup Unneeded(j)
      BY UnneededIsTheRest
    <3>3. \A j \in journal : EntryFiles(j) \cap files \subseteq stored \cup todo'[m]
      BY <2>2, <3>1, <3>2
    <3>4. Accounted(m)'
      BY <1>1, <2>3, <3>1, <3>3 DEF Accounted, Journalling, EntryFiles, ContentsOf
    <3>5. QED
      BY <1>0, <1>1, <3>1, <3>4, AccountsStay, OneMainAccounts
  <2>4. CASE step'[m] # "removing"
    <3>1. step'[m] = "idle" /\ (journal' = journal \/ (Journalled(m, "committed") /\ journal' = {}))
      <4>1. \/ (Finished(m) /\ journal' = journal)
            \/ (Finished(m) /\ Journalled(m, "committed") /\ journal' \in {journal \ Entries(m), journal})
            \/ Go(m, "removing")
        BY <1>4 DEF Abort
      <4>2. ~Go(m, "removing")
        BY <1>0, <2>4
      <4>3. step'[m] = "idle"
        BY <1>0, <4>1, <4>2 DEF Finished
      <4>4. journal \ Entries(m) = {}
        BY <2>2
      <4>5. QED
        BY <4>1, <4>2, <4>3, <4>4
    <3>2. Journalled(m, "committed") => \A j \in journal : EntryFiles(j) \subseteq stored
      BY <1>2 DEF Journalled, DebrisInv, CommittedIsStored, FilesInv, LibraryInv, OwnersJournal
    <3>3. FilesAreNamed' /\ RowsAreStored' /\ CommittedIsStored'
      BY <1>1, <3>1, <3>2, EntriesGo
    <3>4. Accounted(m)'
      BY <3>1 DEF Accounted, Journalling
    <3>5. QED
      BY <1>0, <3>3, <3>4, OneMainAccounts
  <2>5. QED
    BY <2>3, <2>4
<1>5. CASE EndAbort(m) \/ EndRecovery(m) \/ EndClose(m)
  <2>1. step[m] = "removing" /\ todo[m] = {} /\ step'[m] = "idle" /\ journal' \subseteq journal
    BY <1>0, <1>5 DEF EndAbort, EndRecovery, EndClose, Finished, Settled, Down
  <2>2. \A j \in journal : EntryFiles(j) \cap files \subseteq stored
    BY <1>1, <2>1 DEF Accounted
  <2>3. FilesAreNamed' /\ RowsAreStored' /\ CommittedIsStored'
    BY <1>1, <2>1, <2>2, EntriesGo
  <2>4. Accounted(m)'
    BY <2>1 DEF Accounted, Journalling
  <2>5. QED
    BY <1>0, <2>3, <2>4, OneMainAccounts
<1>6. QED
  BY <1>3, <1>4, <1>5

LEMMA DebrisInvStep ==
  ASSUME FilesInv, DebrisInv, Next, ~heldUp'
  PROVE  DebrisInv'
<1>1. Alone'
  BY StepAlone
<1>2. ASSUME NEW m \in Mains, MainStep(m) PROVE DebrisInv'
  BY <1>1, <1>2, NothingLapses, JournalStays, NamingSteps, EnteringSteps, EndingSteps DEF MainStep, Work
<1>3. CASE Expire \/ HoldUp
  <2>1. UNCHANGED <<journal, rows, files, stored, mainVars>>
    BY <1>3 DEF Expire, HoldUp
  <2>2. FilesAreNamed' /\ RowsAreStored' /\ CommittedIsStored'
    BY <2>1, AccountsStay
  <2>3. \A m \in Mains : Accounted(m)'
    BY <2>1 DEF mainVars, DebrisInv, Accounted, Journalling, Entries, JournalFiles, EntryFiles, ContentsOf
  <2>4. QED
    BY <2>2, <2>3 DEF DebrisInv
<1>4. QED
  BY <1>2, <1>3, NextIsMainStep

LEMMA DebrisInvStutter == DebrisInv /\ UNCHANGED vars => DebrisInv'
BY DEF DebrisInv, FilesAreNamed, RowsAreStored, CommittedIsStored, Accounted, Journalling, Entries,
       JournalFiles, EntryFiles, FilesOf, ContentsOf, vars, database, mainVars

LEMMA DebrisInvInit == Init => DebrisInv
BY DEF Init, DebrisInv, FilesAreNamed, RowsAreStored, CommittedIsStored, Accounted, Journalling

(* Until a live main outlives its lease, a file that no row of the catalog   *)
(* ever named is one of the publication the journal still lists: files are   *)
(* journalled before they take their names, and preparePublication,          *)
(* abortPublication and recover drop an entry only after its files.          *)
THEOREM NothingIsLeftBehind == Spec => []NoDebris
<1> DEFINE Held == LibraryInv /\ (~heldUp => FilesInv /\ DebrisInv)
<1>1. Init => Held
  BY InitInv, FilesInvInit, DebrisInvInit
<1>2. Held /\ [Next]_vars => Held'
  <2> SUFFICES ASSUME Held, [Next]_vars PROVE Held'
    OBVIOUS
  <2>1. LibraryInv'
    BY StepType, StepPublishesNewer, StepTermsAreOwn, StepOwnersJournal, StutterInv DEF LibraryInv
  <2>2. ASSUME ~heldUp' PROVE FilesInv' /\ DebrisInv'
    <3>1. heldUp \in BOOLEAN
      BY DEF LibraryInv, TypeOK
    <3>2. ~heldUp
      BY <2>2, <3>1, HeldUpStays DEF vars
    <3>3. QED
      BY <2>2, <3>2, FilesInvStep, FilesInvStutter, DebrisInvStep, DebrisInvStutter
  <2>3. QED
    BY <2>1, <2>2
<1>3. Held => NoDebris
  BY DEF DebrisInv, FilesAreNamed, JournalFiles, EntryFiles, NoDebris
<1>4. QED
  BY <1>1, <1>2, <1>3, PTL DEF Spec
=============================================================================
