--------------------------- MODULE ProjectLibrary ---------------------------
(***************************************************************************)
(* The Framescaper desktop project library: main processes that share one   *)
(* SQLite database and one tree of files.  A main takes the writer lease,   *)
(* recovers the publication journal, and then publishes documents: journal  *)
(* first, files next, the catalog row last.  A main may crash, or be held   *)
(* up past its lease, at any step.                                          *)
(***************************************************************************)
EXTENDS Naturals, FiniteSets

CONSTANTS
  Mains, Projects,
  Documents,     \* [project, revision, text]: the documents there can be
  Bodies,        \* storage keys of media bodies
  BodiesOf,      \* of each document: the keys it refers to
  ContentOf,     \* of each key: the content, which names the file
  MaxTerms,      \* bound: how often the lease is acquired
  MaxMeta,       \* bound: catalog revisions
  HeldUpTerms,   \* bound: the terms of the lease that a live main may outlive
  NoDocument

ASSUME DocumentsAssumption ==
  /\ \A d \in Documents : d.project \in Projects /\ d.revision \in Nat
  /\ NoDocument \notin Documents
  /\ BodiesOf \in [Documents -> SUBSET Bodies]
ASSUME FilesAssumption == \A b \in Bodies : ContentOf[b] \notin Documents
ASSUME BoundsAssumption == MaxTerms \in Nat /\ MaxMeta \in Nat

VARIABLES
  lease,     \* the row of library_lease: active, its fencing token, expired
  journal,   \* publication_journal, with the bodies of publication_body_journal
  rows,      \* the document file each row of projects names
  meta,      \* the metadata revision
  files,     \* the document and body files in place
  stored,    \* history: the files some catalog row has named
  heldUp,    \* history: has a live main outlived its lease?
  phase,     \* of each main: down, recovering, open or closing
  token,     \* of each main: its fencing token
  fenced,    \* of each main: has it noticed that its lease is gone?
  step,      \* of each main: where its publication or its recovery is
  pub,       \* of each main: the document it publishes, with what begin captured
  todo       \* of each main: files it has still to put in place or to remove

database == <<lease, journal, rows, meta>>
mainVars == <<phase, token, fenced, step, pub, todo>>
vars == <<database, files, stored, heldUp, mainVars>>

Contents == {ContentOf[b] : b \in Bodies}
ContentsOf(bodies) == {ContentOf[b] : b \in bodies}
FilesOf(d) == {d} \cup ContentsOf(BodiesOf[d])
NoPub == [doc |-> NoDocument, meta |-> 0, offered |-> {}]
Steps == {"idle", "begun", "writing", "journalling", "renaming", "materializing",
          "committing", "confirming", "completing", "aborting", "reading", "removing"}

Init ==
  /\ lease = [active |-> FALSE, token |-> 0, expired |-> FALSE]
  /\ journal = {} /\ rows = [p \in Projects |-> NoDocument] /\ meta = 0
  /\ files = {} /\ stored = {} /\ heldUp = FALSE
  /\ phase = [m \in Mains |-> "down"] /\ token = [m \in Mains |-> 0]
  /\ fenced = [m \in Mains |-> FALSE] /\ step = [m \in Mains |-> "idle"]
  /\ pub = [m \in Mains |-> NoPub] /\ todo = [m \in Mains |-> {}]

-----------------------------------------------------------------------------
(* The lease.  A main compares clocks with its own copy of the expiry; that *)
(* and the row say the same, for only an expired lease changes hands.       *)

Owns(m) == lease.active /\ lease.token = token[m]
CanUse(m) == ~fenced[m] /\ Owns(m) /\ ~lease.expired

\* acquireLease of a starting main, in one transaction; recovery comes next.
SameToken == lease.token
NextToken == lease.token + 1

Start(m) ==
  /\ phase[m] = "down" /\ ~(lease.active /\ ~lease.expired) /\ lease.token < MaxTerms
  /\ lease' = [active |-> TRUE, token |-> NextToken, expired |-> FALSE]
  /\ token' = [token EXCEPT ![m] = NextToken]
  /\ fenced' = [fenced EXCEPT ![m] = FALSE]
  /\ phase' = [phase EXCEPT ![m] = "recovering"] /\ step' = [step EXCEPT ![m] = "reading"]
  /\ UNCHANGED <<journal, rows, meta, files, stored, heldUp, pub, todo>>

\* The renewal timer: it revives the lease of its term, or fences the main.
Renew(m) ==
  /\ phase[m] \in {"recovering", "open"} /\ ~fenced[m]
  /\ \/ Owns(m) /\ lease.expired /\ lease' = [lease EXCEPT !.expired = FALSE] /\ UNCHANGED fenced
     \/ ~Owns(m) /\ fenced' = [fenced EXCEPT ![m] = TRUE] /\ UNCHANGED lease
  /\ UNCHANGED <<journal, rows, meta, files, stored, heldUp, phase, token, step, pub, todo>>

\* The lease has not been renewed for its time to live: the main that took it is down,
\* or it is held up.
InUse == \E m \in Mains : phase[m] # "down" /\ Owns(m)
Lapse == lease.active /\ ~lease.expired /\ lease' = [lease EXCEPT !.expired = TRUE]

Expire == ~InUse /\ Lapse /\ UNCHANGED <<journal, rows, meta, files, stored, heldUp, mainVars>>

HoldUp ==
  /\ lease.token \in HeldUpTerms
  /\ InUse /\ Lapse /\ heldUp' = TRUE
  /\ UNCHANGED <<journal, rows, meta, files, stored, mainVars>>

Down(m) ==
  /\ phase' = [phase EXCEPT ![m] = "down"] /\ step' = [step EXCEPT ![m] = "idle"]
  /\ pub' = [pub EXCEPT ![m] = NoPub] /\ todo' = [todo EXCEPT ![m] = {}]

\* The bound keeps a term for a main that does not crash.
Crash(m) ==
  /\ phase[m] # "down" /\ lease.token < MaxTerms /\ Down(m)
  /\ UNCHANGED <<database, files, stored, heldUp, token, fenced>>

-----------------------------------------------------------------------------
(* A publication.                                                          *)

Go(m, next) == step' = [step EXCEPT ![m] = next]
Entries(m) == {j \in journal : j.token = token[m]}
Missing(d) == ContentsOf(BodiesOf[d]) \ files

\* beginPublication: the revision of the catalog is captured, and the bodies that
\* are not in place yet are asked for; the chunks follow.
IsNotOlder(d) == rows[d.project] # NoDocument => d.revision >= rows[d.project].revision
IsNewer(d) == rows[d.project] # NoDocument => d.revision > rows[d.project].revision

Begin(m, d) ==
  /\ phase[m] = "open" /\ step[m] = "idle" /\ CanUse(m)
  /\ IsNewer(d)
  /\ pub' = [pub EXCEPT ![m] = [doc |-> d, meta |-> meta, offered |-> Missing(d)]]
  /\ Go(m, "begun")
  /\ UNCHANGED <<database, files, stored, heldUp, phase, token, fenced, todo>>

\* preparePublication, in a transaction.
Prepare(m) ==
  /\ step[m] = "begun" /\ CanUse(m)
  /\ journal' = journal \cup
       {[token |-> token[m], state |-> "prepared", doc |-> pub[m].doc, bodies |-> {}]}
  /\ Go(m, "writing")
  /\ UNCHANGED <<lease, rows, meta, files, stored, heldUp, phase, token, fenced, pub, todo>>

\* The document and the missing bodies are written to temporary files; a body that
\* was in place at the begin and is not now cannot be written.
Write(m) ==
  /\ step[m] = "writing"
  /\ LET missing == Missing(pub[m].doc) IN
     IF missing \subseteq pub[m].offered
     THEN todo' = [todo EXCEPT ![m] = missing] /\ Go(m, "journalling")
     ELSE Go(m, "aborting") /\ UNCHANGED todo
  /\ UNCHANGED <<database, files, stored, heldUp, phase, token, fenced, pub>>

\* preparePublicationBodies: one row per body written, and one per file at most.
WrittenUnrecorded(m) == {}
Written(m) == {b \in BodiesOf[pub[m].doc] : ContentOf[b] \in todo[m]}
Unique(bodies) == \A b, c \in bodies : ContentOf[b] = ContentOf[c] => b = c
JournalBodies(m) ==
  /\ step[m] = "journalling" /\ (todo[m] # {} => CanUse(m))
  /\ IF Unique(Written(m))
     THEN /\ journal' = (journal \ Entries(m)) \cup
                          {[j EXCEPT !.bodies = Written(m)] : j \in Entries(m)}
          /\ Go(m, "renaming")
     ELSE Go(m, "aborting") /\ UNCHANGED journal
  /\ UNCHANGED <<lease, rows, meta, files, stored, heldUp, phase, token, fenced, pub, todo>>

\* The temporary files take their names, the document last; nothing is checked.
RenameBody(m) ==
  /\ step[m] = "renaming" /\ \E f \in todo[m] :
       files' = files \cup {f} /\ todo' = [todo EXCEPT ![m] = @ \ {f}]
  /\ UNCHANGED <<database, stored, heldUp, phase, token, fenced, step, pub>>

RenameDocumentFirst(m) ==
  /\ step[m] = "renaming"
  /\ files' = files \cup {pub[m].doc} /\ Go(m, "materializing")
  /\ UNCHANGED <<database, stored, heldUp, phase, token, fenced, pub, todo>>

RenameDocument(m) ==
  /\ step[m] = "renaming" /\ todo[m] = {}
  /\ files' = files \cup {pub[m].doc} /\ Go(m, "materializing")
  /\ UNCHANGED <<database, stored, heldUp, phase, token, fenced, pub, todo>>

Journalled(m, state) == \E j \in Entries(m) : j.state = state
Enter(m, state) ==
  journal' = (journal \ Entries(m)) \cup {[j EXCEPT !.state = state] : j \in Entries(m)}

Materialize(m) ==
  /\ step[m] = "materializing" /\ CanUse(m) /\ Journalled(m, "prepared")
  /\ Enter(m, "materialized") /\ Go(m, "committing")
  /\ UNCHANGED <<lease, rows, meta, files, stored, heldUp, phase, token, fenced, pub, todo>>

\* The transaction that makes it so, if the catalog is as it was at the begin.
Commit(m) ==
  /\ step[m] = "committing" /\ CanUse(m) /\ Journalled(m, "materialized")
  /\ IF meta = pub[m].meta
     THEN /\ rows' = [rows EXCEPT ![pub[m].doc.project] = pub[m].doc]
          /\ meta' = meta + 1 /\ stored' = stored \cup FilesOf(pub[m].doc)
          /\ Go(m, "confirming")
     ELSE Go(m, "aborting") /\ UNCHANGED <<rows, meta, stored>>
  /\ UNCHANGED <<lease, journal, files, heldUp, phase, token, fenced, pub, todo>>

Confirm(m) ==
  /\ step[m] = "confirming" /\ CanUse(m) /\ Journalled(m, "materialized")
  /\ Enter(m, "committed") /\ Go(m, "completing")
  /\ UNCHANGED <<lease, rows, meta, files, stored, heldUp, phase, token, fenced, pub, todo>>

Finished(m) == Go(m, "idle") /\ pub' = [pub EXCEPT ![m] = NoPub]
WithoutEntry(m) == journal \ Entries(m)

Complete(m) ==
  /\ step[m] = "completing" /\ CanUse(m) /\ Finished(m)
  /\ journal' = WithoutEntry(m)
  /\ UNCHANGED <<lease, rows, meta, files, stored, heldUp, phase, token, fenced, todo>>

\* A step that checks the lease finds it gone: the main is fenced for good.
Refused(m) ==
  /\ \/ step[m] \in {"begun", "materializing", "committing", "confirming", "completing"}
     \/ step[m] = "journalling" /\ todo[m] # {}
  /\ ~CanUse(m)
  /\ fenced' = [fenced EXCEPT ![m] = TRUE] /\ Go(m, "aborting")
  /\ UNCHANGED <<database, files, stored, heldUp, phase, token, pub, todo>>

\* So does any other operation.
Notice(m) ==
  /\ phase[m] = "open" /\ step[m] = "idle" /\ ~fenced[m] /\ ~CanUse(m)
  /\ fenced' = [fenced EXCEPT ![m] = TRUE]
  /\ UNCHANGED <<database, files, stored, heldUp, phase, token, step, pub, todo>>

\* The session is revoked, or the write fence of the project claimed anew.
Revoked(m) ==
  /\ step[m] \in {"begun", "materializing", "committing"} /\ Go(m, "aborting")
  /\ UNCHANGED <<database, files, stored, heldUp, phase, token, fenced, pub, todo>>

-----------------------------------------------------------------------------
(* The removal of what a publication left behind.                          *)

ReferencedBodies == UNION {BodiesOf[rows[p]] : p \in {q \in Projects : rows[q] # NoDocument}}
\* reclaimPublication reads first: the journalled files no row of projects needs.
Unneeded(j) ==
  {d \in {j.doc} : \A p \in Projects : rows[p] # d} \cup ContentsOf(j.bodies \ ReferencedBodies)

\* abortPublication reads its entry; a committed one is only completed.
Abort(m) ==
  /\ step[m] = "aborting"
  /\ \/ /\ Entries(m) = {} /\ Finished(m)
        /\ todo' = [todo EXCEPT ![m] = {}] /\ UNCHANGED <<journal, fenced>>
     \/ /\ Journalled(m, "committed") /\ Finished(m)
        /\ fenced' = [fenced EXCEPT ![m] = ~CanUse(m)]
        /\ journal' = IF CanUse(m) THEN journal \ Entries(m) ELSE journal
        /\ todo' = [todo EXCEPT ![m] = {}]
     \/ /\ Journalled(m, "prepared") \/ Journalled(m, "materialized")
        /\ todo' = [todo EXCEPT ![m] = UNION {Unneeded(j) : j \in Entries(m)}]
        /\ Go(m, "removing") /\ UNCHANGED <<journal, fenced, pub>>
  /\ UNCHANGED <<lease, rows, meta, files, stored, heldUp, phase, token>>

\* recover reads the one entry there is, whoever wrote it.
InCatalog(d) == rows[d.project] = d
ReadJournal(m) ==
  /\ step[m] = "reading" /\ Cardinality(journal) <= 1
  /\ IF journal = {} /\ phase[m] = "recovering"
     THEN Go(m, "idle") /\ phase' = [phase EXCEPT ![m] = "open"] /\ UNCHANGED todo
     ELSE /\ todo' = [todo EXCEPT ![m] =
                UNION {Unneeded(j) : j \in {k \in journal : ~InCatalog(k.doc)}}]
          /\ Go(m, "removing") /\ UNCHANGED phase
  /\ UNCHANGED <<database, files, stored, heldUp, token, fenced, pub>>

\* The files go one by one; nothing is checked.
Remove(m) ==
  /\ step[m] = "removing" /\ \E f \in todo[m] :
       files' = files \ {f} /\ todo' = [todo EXCEPT ![m] = @ \ {f}]
  /\ UNCHANGED <<database, stored, heldUp, phase, token, fenced, step, pub>>

\* Then the entry goes, in a transaction that checks the lease.
EndAbort(m) ==
  /\ phase[m] = "open" /\ step[m] = "removing" /\ todo[m] = {} /\ Finished(m)
  /\ IF CanUse(m) THEN journal' = journal \ Entries(m) /\ UNCHANGED fenced
     ELSE fenced' = [fenced EXCEPT ![m] = TRUE] /\ UNCHANGED journal
  /\ UNCHANGED <<lease, rows, meta, files, stored, heldUp, phase, token, todo>>

\* The writer is ready, or its start fails and it closes fenced.
Unsettled == journal
Settled == {}

EndRecovery(m) ==
  /\ phase[m] = "recovering" /\ step[m] = "removing" /\ todo[m] = {}
  /\ IF CanUse(m)
     THEN journal' = Settled /\ phase' = [phase EXCEPT ![m] = "open"] /\ Go(m, "idle")
          /\ UNCHANGED <<pub, todo>>
     ELSE Down(m) /\ UNCHANGED journal
  /\ UNCHANGED <<lease, rows, meta, files, stored, heldUp, token, fenced>>

-----------------------------------------------------------------------------
(* The other operations.                                                   *)

Delete(m, p) ==
  /\ phase[m] = "open" /\ CanUse(m) /\ rows[p] # NoDocument
  /\ rows' = [rows EXCEPT ![p] = NoDocument] /\ meta' = meta + 1
  /\ UNCHANGED <<lease, journal, files, stored, heldUp, mainVars>>

\* close lets a running publication settle; a fenced writer leaves everything, any
\* other recovers once more before it gives the lease up.
Close(m) ==
  /\ phase[m] = "open" /\ step[m] \in {"idle", "begun"} /\ lease.token < MaxTerms
  /\ IF fenced[m] THEN Down(m)
     ELSE /\ phase' = [phase EXCEPT ![m] = "closing"] /\ Go(m, "reading")
          /\ pub' = [pub EXCEPT ![m] = NoPub] /\ UNCHANGED todo
  /\ UNCHANGED <<database, files, stored, heldUp, token, fenced>>

EndClose(m) ==
  /\ phase[m] = "closing" /\ step[m] = "removing" /\ todo[m] = {}
  /\ journal' = IF CanUse(m) THEN {} ELSE journal
  /\ lease' = [lease EXCEPT !.active = @ /\ ~(Owns(m) /\ (journal = {} \/ CanUse(m)))]
  /\ Down(m)
  /\ UNCHANGED <<rows, meta, files, stored, heldUp, token, fenced>>

-----------------------------------------------------------------------------
Work(m) ==
  \/ Prepare(m) \/ Write(m) \/ JournalBodies(m) \/ RenameBody(m) \/ RenameDocument(m)
  \/ Materialize(m) \/ Commit(m) \/ Confirm(m) \/ Complete(m) \/ Refused(m)
  \/ Abort(m) \/ ReadJournal(m) \/ Remove(m) \/ EndAbort(m) \/ EndRecovery(m) \/ EndClose(m)

Next ==
  \/ \E m \in Mains :
       \/ Start(m) \/ Renew(m) \/ Crash(m) \/ Notice(m) \/ Revoked(m) \/ Close(m) \/ Work(m)
       \/ meta < MaxMeta /\ ((\E d \in Documents : Begin(m, d)) \/ (\E p \in Projects : Delete(m, p)))
  \/ Expire \/ HoldUp

Spec == Init /\ [][Next]_vars

\* A main goes on with what it has begun, the lease of a main that is gone expires, and
\* somebody starts the application again.
FairSpec ==
  /\ Spec /\ WF_vars(Expire)
  /\ \A m \in Mains : WF_vars(Work(m)) /\ WF_vars(Start(m)) /\ WF_vars(Renew(m))

-----------------------------------------------------------------------------
Entry == [token : 1..MaxTerms, state : {"prepared", "materialized", "committed"},
          doc : Documents, bodies : SUBSET Bodies]
Publication == [doc : Documents \cup {NoDocument}, meta : Nat, offered : SUBSET Contents]

TypeOK ==
  /\ lease \in [active : BOOLEAN, token : 0..MaxTerms, expired : BOOLEAN]
  /\ journal \subseteq Entry
  /\ rows \in [Projects -> Documents \cup {NoDocument}] /\ meta \in Nat
  /\ files \subseteq Documents \cup Contents /\ stored \subseteq Documents \cup Contents
  /\ heldUp \in BOOLEAN
  /\ phase \in [Mains -> {"down", "recovering", "open", "closing"}]
  /\ token \in [Mains -> 0..MaxTerms] /\ fenced \in [Mains -> BOOLEAN]
  /\ step \in [Mains -> Steps]
  /\ pub \in [Mains -> Publication]
  /\ todo \in [Mains -> SUBSET (Documents \cup Contents)]

\* Until a live main outlives its lease, whatever a row of the catalog names is in its
\* place: a publication shows nothing unfinished, and no crash, abort or recovery takes a
\* file that is needed.
NothingIsMissing == \A p \in Projects : rows[p] # NoDocument => FilesOf(rows[p]) \subseteq files
StoredIsComplete == ~heldUp => NothingIsMissing

\* There is one entry in the journal at most: with two, recover refuses and the
\* library could not be opened again.
OneEntry == Cardinality(journal) <= 1

\* Until then, a file that no row ever named is one the journal names, or is gone.
NoDebris == ~heldUp =>
  files \subseteq stored \cup UNION {{j.doc} \cup ContentsOf(j.bodies) : j \in journal}

Catalog == INSTANCE LibraryCatalog
\* Held-up and crashed mains included, the catalog only moves forward.
ImplementsCatalog == Catalog!CatalogSpec

\* What a crash leaves in the journal is settled after the next start.
JournalIsSettled == journal # {} ~> (journal = {} \/ heldUp)

\* "PRIMARY KEY (publication_id, body_file)" (framescaper-project-library-database.ts):
\* no publication journals one file twice.
FilesJournalledOnce == \A m \in Mains : step[m] = "journalling" => Unique(Written(m))
=============================================================================
