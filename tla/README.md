# Verification of Soundscaper and Framescaper

Soundscaper and Framescaper share an editor (`src/src/common/editor`) that runs in
a browser or in a desktop shell (`src/desktop`). These modules model the parts of
it in which several tabs, threads or processes work on the same state, or where a
crash may leave half of a change behind: how an edit reaches the store and which
tab may write, how realtime effects share memory, how the desktop library keeps
its projects, and how a recording becomes durable. Paths below are relative to
`src/src/common/editor/` unless they start with `src/`.

## 1. Inventory

| Component | State | Operations | Correct when |
|---|---|---|---|
| Project store (`storage/project-compare-and-swap-repository.ts`) | rows `projects`, `settings` with the write-fence token | `claimWriteFence`, `saveIfCurrentAndFenced` | a save is accepted only under the newest token and over the document its tab knows |
| Project lock (`controller/document/project-lock-service.ts`) | `state.projectLock`, `readOnly`, retry timer | acquire, claim the token, watch the loss, recover, claim by the user | a tab that becomes writable knows what is stored; a lost lock is recovered; what is edited is fenced |
| Browser lock (`project-lock.js`) | Web Lock of the project, BroadcastChannel; without Web Locks a lease in localStorage | forced, immediate and queued requests, release, takeover, probe, heartbeat | one tab writes |
| Save service (`controller/document/project-save-service.ts`) | timer, serial queue, generation, epochs, suspension gates, baselines | schedule, flush, suspend, retire, drain, `saveSnapshot` | what is reported saved is saved; nothing unsaved is dropped; older never overwrites newer |
| Opening, activation queue, switch, closing, captured-proxy lease, session tabs (`controller/document/`, `controller/capture/framescaper-capture-proxy-quiescence.ts`, `session.js`) | active project, queue, gates, reservations | open, activate, flush, close without saving, suspend for a proxy | no unsaved document is left silently; a discarded one stays discarded; nothing is saved while the proxy lease is held |
| Parallel effect stacks (`engine/parallel-stack-*.ts`, `controller/transport/internal/parallel-stack-session.ts`) | shared words: status, cause, ring of banks, wake counters | audio callback, workers, start, dispose, fault | workers keep to their planes; blocks are played complete and in order; an ended generation ends once; no wake is missed |
| Live effect mailbox (`engine/parallel-stack-effect-mailbox.ts`) | version, length, payload bytes | publish, read | no torn or outdated parameters; the newest arrive |
| Desktop project library (`src/desktop/framescaper-project-library-*.ts`, `src/desktop/project-library-exact-generation-*.ts`) | writer lease, journal, catalog rows, files | begin, materialise, commit, complete, abort, delete, recover, close | what the catalog names is on disk; nothing unknown stays; the catalog only moves forward |
| Capture spools (`controller/capture/internal/framescaper-capture-durable-*.ts`, `storage/encoded-capture-spool-*.ts`, `storage/capture-spool-*.ts`) | session manifest; per stream metadata, chunks, append intent, tail cleanup; two kinds of Web Lock | append, acknowledge, roll back, seal, discard, delete, recover, list | an acknowledged packet stays; half an append is undone; recovery never refuses |
| History and macros, media retention, revision pruning, take cycles, linked originals, source writes, transfer, document model, engine, native services | - | - | not modelled (section 7) |

Tabs interact through Web Locks, localStorage, BroadcastChannels and IndexedDB;
threads of the audio engine through shared memory; desktop processes through
SQLite and files; inside a tab parts call one another and await promises. What is
hard: every `await` lets other handlers run; a stolen lock is noticed late; lock and
token are two things; gates, queues and drains wait for each other; atomics order
only so much; processes die, or are held up, between any two steps. `PROJECT.json`
lists the hazards at their lines, with the properties that cover them.

## 2. Modules

| Module | Models | Abstract specification |
|---|---|---|
| `ProjectStore`, `ProjectTabs` | one project in several tabs: lock, token, opening, recovery, autosave | - |
| `ProjectSaves` | the save service of one tab with several projects | - |
| `NavigatorLock` | the project lock on Web Locks and a takeover channel | - |
| `ProjectLease` | the project lock on localStorage, without Web Locks | - |
| `ParallelStack` | one generation of the realtime effect backend | `StackPipeline` |
| `EffectMailbox` | the sequence lock that carries live parameters | - |
| `ProjectLibrary` | the desktop library of several main processes | `LibraryCatalog` |
| `CaptureSpools` | the durable storage of one capture session | `CaptureLog` |
| `ProjectTabsProofs`, `ProjectSavesProofs`, `NavigatorLockProofs`, `ProjectLeaseProofs`, `ParallelStackProofs`, `EffectMailboxProofs`, `ProjectLibraryProofs`, `CaptureSpoolsProofs` | theorems (section 4) | - |

The MC modules give the model checker its plans, documents and symmetry sets.

**ProjectStore** has one operator per transaction. A document is the set of edits in
it: every command advances revision and timestamp, so two documents are the same
snapshot exactly when they hold the same edits. **ProjectTabs** gives each tab a
phase of opening, the lock as it sees it (`lock`, `token`), the lock as the browser
keeps it (`holder`), an acquisition and a comparison in flight, the document, the
baseline, and a pipeline of timer, queue and running save. `retry` says what calls
`recoverProjectLock` next: the handler of a loss, the retry timer that all locks of the
tab share, or nothing; `replaced` says that a tab still activating no longer has the
lock it adopted for that. An action is what runs between two awaits. `PreparesSnapshot` separates the products: Soundscaper passes
`prepareProjectSnapshot`, so a save stores the document of the moment it is prepared;
Framescaper stores the document the edit captured. ProjectTabs takes the lock as
requests granted and lost at any time; NavigatorLock and ProjectLease are what is
below it.

**ProjectSaves** has the whole queue with explicit flushes, the gates and epochs,
switches, closing without saving and the proxy lease. Other tabs appear only as
thieves of the lock, so the compare-and-swap reduces to the token, and a document is
named by its last edit. `switches` is the activation queue, `waiting` the flushes
stopped at a gate, `prepares` the product, chosen in Init. A project is entered with the
`readOnly` its lock had when `ClaimLock` took it, whatever became of the lock since; a
recovery that finds the lock taken (`WaitForLock`) makes the tab read-only.

**NavigatorLock** keeps the lock manager's `held` and `queue` beside what each tab
believes (`phase`). A steal breaks the holder's request (`robbed`), and the thief,
once its callback runs, posts a takeover to whoever has a channel open (`told`); a
tab leaves when it learns of either. `Proceed` is all a page does without its user.

**ProjectLease** keeps the entry of localStorage and, of each tab, the attempt:
probing an owner, writing, reading back, announcing the claim, settling on the least
id it knows of, holding with a heartbeat. `Timely` says that messages arrive and
timers fire before the timeouts that wait for them, `Atomic` that write, read-back
and announcement of one tab are not cut by another's.

**ParallelStack** has one step per shared word a thread reads or writes: the
callback claims a bank, writes input, labels and publishes it, looks for the output
that is due and plays it; a worker observes its wake counter, scans banks (state,
sequence, words of the dependencies), runs a task, counts it, and waits on the
counter; `faultParallelStackViews` is three steps of whoever calls it; the session
starts, fails and disposes. `StackPipeline` forgets ring and threads: blocks go in,
each task takes them in order behind its dependencies, a block is played when every
task has finished it.

**EffectMailbox** has one step per part of the payload on both sides. With
`ReordersReads` the plain reads of the payload may be satisfied after the atomic
comparison that follows them in the program.

**ProjectLibrary** has the lease row with its fencing token, the journal, the catalog,
the files, and one program per main: prepare, write bodies and document, materialise,
commit, confirm, complete, or abort; recovery settles an entry it finds. Each
transaction is one action, and files go into place or away one by one between them.
`HoldUp` lets a live main outlive its lease, and `heldUp` remembers it. `LibraryCatalog` is the catalog
alone: a project moves to a newer document or is deleted, one revision per step.

**CaptureSpools** keeps the manifest and, of each stream, metadata, chunks, append
intent and tail cleanup. The operation of a tab is its `program`, the steps it has
still to take; a step that works under the lock of a spool is a list of `requests`
to the storage, each one transaction. `AskStorage` carries one out with an outcome:
done, late (it happened but fails), lost (it only fails). So an append is journal,
chunks, metadata, then the manifest under the session lock, then the intent goes; and
`LoadSpool`, `MatchSpool`, `RestorePrefix` are the repairs of whoever comes next.
`CaptureLog` is what the user is promised: streams that only grow, are fixed by the
seal, and go when the sealed take is discarded.

History variables record no code: `drifted` (tabs whose baseline is not what they
opened), `parked` (projects for whose unsaved document the code schedules nothing
until the next edit or flush), `forgotten` (tabs whose activation ended by clearing the
timer of a lock that had replaced the activation's own), `heldBack`, `ceiling`, `orphaned` in ProjectSaves;
`published` and `played`; `stored` in EffectMailbox; `stored` and `heldUp` in
ProjectLibrary; `told` and `refused` in CaptureSpools. They state the exceptions of the
properties exactly.

## 3. Runs

| Run | What it shows | Instance |
|---|---|---|
| `project_tabs` | a fenced writer's baseline is the stored document, a tab that becomes writable knows what is stored, a lost lock is recovered, save for finding 12, no stored edit is lost, saved means stored | 2 tabs, 2 edits, 4 claims, failing storage |
| `project_tabs_live` | an armed autosave reaches the store, and stages never overtake one another | 2 tabs, 2 claims, captured documents |
| `project_saves` | queue, flushes, switches, discarding close and lease in every order, both products | 2 projects, 3 edits, 3 calls; 5.4 M states |
| `project_saves_live` | activations end | 2 projects, 1 edit, 3 calls |
| `navigator_lock` | two tabs believe they write only while a theft is unnoticed, never for good; a handed-over lock is taken | 3 tabs, 3 forced claims |
| `project_lease` | in time, one tab writes | 3 tabs, 3 owner ids |
| `parallel_stack` | planes have one user, no torn banks, the ring implements the pipeline | two stacks and a master on 2 workers, 5 banks, 11 callbacks |
| `parallel_stack_live` | the generation ends once, keeps its cause, wakes are not missed, workers leave | a chain of two tasks; crash, throw, wrong quantum, disposal |
| `effect_mailbox` | no torn or outdated parameters; the newest arrive | 2 updates of 2 and 3 parts, 3 publications |
| `project_library` | the catalog names only what is on disk, no debris, refinement, the journal is settled | 2 mains, 2 projects, 3 documents that share a body, 3 leases, of which live mains may outlive the second, and 3 revisions |
| `capture_spools` | acknowledged packets stay, tails are undone, recovery never refuses, sealed is settled, no circular wait, refinement | 2 tabs, 2 streams, 2 packets of 2 chunks; 3.4 M states |
| `lost_update` | the disagreement of section 6 | stops at the first trace |

Bounds only cap how often users, tabs and processes act. Two tabs (or mains) meet
every race between a holder and a claimant; the locks have three, so that a theft can
meet another theft and a queue can have two. Four claims let each tab open, lose, and
come back after the other. Two streams let a seal or deletion stop between them, two
packets let an append start on a spool that has data, two chunks let it stop inside a
packet. Latency is the least multiple of the block the code accepts, the ring the
least that fits, and the callback is called until the ring has been reused. Two parts
are the least that can be torn, the third makes lengths differ.

`CHECK_DEADLOCK FALSE` is set where users may stop acting and bounds run out;
CaptureSpools is checked for deadlock. Symmetry is used only without liveness.

Fairness. Timers fire, promises settle and transactions complete, so the steps of a
save, switch, drain or resumed flush, and the callbacks of a page that is not closed,
are weakly fair; so is the end of the work that holds a proxy lease. The browser runs
every thread that can run, so workers, a callback that has begun and the main thread's
messages are; the next callback, the user and an endpoint are not. Playback brings the
reader of the mailbox back block after block, and a publication is one synchronous
call. A main goes on with what it has begun, renews its lease, an unrenewed lease
expires, and someone starts the application again. Nothing is assumed of users, thefts,
other tabs, or storage failures. `SwitchesEnd` excepts the activation that flushes a project
which is being closed without saving (finding 5), and `PromptSpec` (a drain that has settled continues first) only
makes two counterexamples independent of an unlikely delay.

Every property is broken by a plausible mutation of the code, listed in PROJECT.json:
a publication that does not compare the token, a drain that does not wait, a worker
that starts before its inputs, a cleanup that counts packets instead of chunks.

## 4. Proofs

Each theorem holds for every value of the constants that meets the module's
assumptions. Besides ranges and finiteness these are: absent values (`NoSave`, `NoTask`,
`None`) are not values; the geometry of the ring is one that `createParallelStackLayout`
accepts, and a task depends on earlier ones; documents and bodies of the library never
share a file name. Every inductive invariant was checked by TLC before it was proved.

`ProjectTabsProofs`:
- `TypeCorrect`, `SavesStayInOrder`: a captured document moves from the user through timer,
  queue and save to the baseline; each stage holds a document contained in that of the
  stage before it. The inductive `OrderInv` adds that a claim made for an opening exists
  only while the tab is loading; without it a late `AdoptLock` could move an editing tab back.
- `NothingIsLost` (`NoLostUpdate`): only an accepted save changes the stored document; the
  store equals the document it expects, which `SavesInOrder` places inside the one it writes.
- `RecoveryIsNeverForgotten` (`RecoveryIsDue`): every step that leaves a tab without its
  lock arms the retry, starts an acquisition or leaves a request in the browser's queue,
  and the end of an activation clears a timer only to arm it again, unless the tab has
  replaced the activation's lock. The tabs where that happened are `forgotten`, and
  excepted (finding 12). The inductive `RecoveryInv` adds a tab still activating that has
  replaced its lock.
- `TheFencedBaselineIsStored`, `TheWriterKnowsStored`, `SavedIsStored`: tokens are fresh
  when claimed, so the tab that carries the newest one is alone with it, and what it
  compared or saved last is what is stored.

`ProjectSavesProofs`, on an invariant in layers, each resting on those before it:
- `TypeCorrect`. A switch that has flushed has a target; a drain waits for saves that are
  numbered no higher than the last one started (`SwitchInv`, `DrainInv`).
- `ClosedTabsAreSilent`: whatever the timer or the queue holds is of a project with a tab, or
  of one that lost its tab while it was on screen (`ClosedInv`). `DiscardDiscards`: every queued save of the closing project is of an
  epoch that the close has ended, except the transaction already running (`EpochInv`).
- `LeaseQuiets`: while the lease is held its gate is up and the drain behind it is over.
- `StoredIsMonotone`: what is queued for a project is in the order in which it was edited,
  and not older than what is stored, as long as the lock and its token are this tab's
  (`LockInv`, `TokenInv`, `DocsInv`).
- `CleanIsStored`: generations. A save that may still mark its tab saved carries the newest
  document of it (`GenInv`, `CleanInv`).
- `UnsavedIsCarried`: a document that is neither stored nor parked has a carrier: the timer,
  a queued save, a flush at a gate (`ParkInv`, `CarrierInv`). An edit captured without a
  token is parked: its autosave will be dropped (finding 13).

`NavigatorLockProofs`: `OneWriterIsRightful`. A tab that believes it holds the lock is the
manager's holder or has been robbed.

`ProjectLeaseProofs`: `OneWriterInTime`, under `Timely` and `Atomic` (finding 7 and the run
show that it fails without the first). What keeps a second tab out is nowhere written down;
`LeaseInv` collects it. While a tab holds, the lease is live, and its own unless a takeover
is in its inbox or about to be posted; whoever comes behind it takes over by force, which
the holder will hear before the wait of the other ends, or waits with a greater id than
the holder's, which the other reads in the lease (`HoldInv`). Two that wait at once have
heard each other's claims in the order of their waits (`WaitInv`, `OrderInv`), and a
listening owner has the probe before it, or has answered (`ProbeInv`). Owner ids are
compared as numbers, since only their order matters.

`ParallelStackProofs`, on `StackInv`. The blocks handed over and not yet played are live,
at most the latency of them, so with two banks more than that no two of them, nor the one
being captured, share a bank. The words of a live bank say which tasks have finished the
block, and its unfinished count is at least the number of tasks that will still take it
down. It is an inequality: a worker that dies between the word and the count leaves the
count too high for good, and the block is never played.
- `TypeCorrect` (no `Atomics.sub` below zero), `PlanesAreOwned`, `GenerationsEnd`.
- `PipelineIsKept`: `Spec => ImplementsPipeline`. The step that plays is the deep one: a
  complete bank has the count 0, so nobody owes the block, so every task is past it.

`ProjectLibraryProofs`, from an inductive `LibraryInv`: the types; a document being
published is newer than the row, as long as the catalog has not moved since its begin;
each term of the lease belongs to one main; and the journal is empty before the holder
of the lease begins anything.
- `LibraryTypeCorrect`, `JournalHasOneEntry`: recovery, which refuses two entries, never
  finds them.
- `CatalogMovesForward`: `Spec => ImplementsCatalog`, for mains held up past their lease, too:
  the transaction itself compares token, revision and document.
- `StoredStaysComplete`: `Spec => []StoredIsComplete`. `FilesInv`, which holds until a live
  main outlives its lease, adds that one main at most is up, which files each step of it
  has already put in place, and that what an entry, an abort or a recovery would remove is
  named by no other row. Finding 10 shows that after `heldUp` a second main may spoil that.
- `NothingIsLeftBehind`: `Spec => []NoDebris`. `DebrisInv` accounts for every file: a row
  names it, or the entry, or the abort that is removing it has not come to it yet.

`EffectMailboxProofs`, without `ReordersReads`, from an invariant that relates what the
reader has copied to the version it read first:
- `SnapshotsAreWhole` and `ReaderGivesTheNewest`.

`CaptureSpoolsProofs`, under `NoneIsAbsent` (the absence of a record is no record), for any
number of streams, chunks, packets and tabs, with every request failing or going
unanswered and every tab crashing anywhere.
- `NobodyWaitsInACircle`: `Discipline` says of the rest of each tab's program that a spool's
  lock is asked for only without one, the session lock only with none, and that both are
  given back.
- `NothingIsRefused`, `NoTailIsForgotten`, `WhatIsSealedIsSettled`, from `SpoolsInv`, which
  has two halves. `SpoolInv` says what the stores of one stream may hold: chunks, metadata,
  intent, cleanup and acknowledged count agree in one of the stages of an append, a rewind
  or a discard (`Agrees`). What a tab has yet to do must fit that: `Finds` says what each
  step finds, given the facts its program has established before it under the locks
  it holds (`owns`, `clean`, `installed`, `settled`, ...). `Needs` names the facts a step
  relies on, `Gives` and `Loses` those it establishes and destroys, and `Ready` carries
  them along the rest of a program, so that one lemma covers the steps of all programs.
  A fact about a stream rests on its spool's lock or the session lock, so a step of another
  tab cannot disturb it; `LiveInv` ties the recorder's in-memory counts to the manifest.

- `WhatIsToldIsKept` and `TheCaptureIsALog` (`Spec => ImplementsLog`), from `LogInv`, which
  adds to `SpoolsInv` what the chunks contain. Every packet of the acknowledged prefix is
  whole and was captured (`PrefixInv`); whatever is stored beyond the start of an intent is
  the intent's own packet, which the manifest does not count yet and no other intent holds
  (`PendingInv`); and each packet number is given out once, by the journal of one append
  (`BudgetInv`). Every step is of one of a few kinds: on the storage it journals an intent,
  writes a part of it, cuts beyond the acknowledged prefix, erases what is discarded or
  forgets (`OnStorage`); on the manifest it publishes, turns the capture's state or removes
  it (`OnManifest`). So an acknowledged packet stays. A publication adds exactly one
  packet, whole and new (`GrowsBy`), which is `Log!Keep`; a turn is `Log!Seal`,
  `Log!Discard` or nothing; every other step leaves the log as it was.

Every invariant, action property and refinement that a passing run checks is stated by a
theorem. Only model-checked are the liveness properties, since liveness under fairness and
ENABLED are beyond the installed provers: `AutosaveReachesStore`, `SwitchesEnd`,
`TwoWritersEnd`, `HandoffHappens`, `PublishedGetsDone`, `WorkersLeave`, `NewestArrives` and
`JournalIsSettled`. Induction over data is beyond them too; these modules avoid it.

## 5. Abstractions

- **ProjectTabs**: the user asks for write access only when no acquisition is in flight,
  and a recovery starts only then; waiters are a set and a loss is noticed at any
  later time (NavigatorLock has the queue and the messages); only the newest waiting
  autosave is kept, which coalescing makes exact; a failing `claimWriteFence` and a failing
  load are left out; `CloseTab` is a crash as well as a close.
- **ProjectSaves**: the stored document changes only through this tab, so the verification
  of the store before a project is entered succeeds; a preparation that
  throws is the same as lost authority; one discarding close and one lease at a time,
  never on the same project, as the capture interlock asserts; activations fail only by a
  rejected flush.
- **NavigatorLock**, **ProjectLease**: one project; the browser's lock manager, channel and
  storage are modelled from how the code uses them. An expired lease is a flag, not a
  clock. Browsers without BroadcastChannel skip probe and settlement; that path is left out.
- **ParallelStack**: samples are not modelled, only who reads and writes which plane; the
  geometry is scaled down, with the inequalities of the code as an assumption; a wake of
  all workers is one step, since nothing acts on a part of it.
- **EffectMailbox**: the encoding is a number of parts; one writer and one reader.
- **ProjectLibrary**: one session per main; `duplicateProject` is a publication; the write
  fences of sessions appear as `Revoked`. Documents and bodies never share a file name
  (`FilesAssumption`). A file is put in place by an atomic rename; partial files in the
  staging directory are the operating system's.
- **CaptureSpools**: encoded-media spools only (raw PCM spools follow the same protocol);
  the session exists, so the creation journal is left out, as are pause spans, playability
  and the finalizing, published and committed states. All packets have the same number of
  chunks. The re-read that follows a failed request is folded into its outcome. Only the
  recording tab appends; after a failed append the stream's next packet no longer has the
  expected sequence, so later ones are refused. Chunks and metadata of a spool that is
  marked as deleting go without a lock, as in the code.

## 6. Findings

Behaviours of the code that disagree with what the repository says of it. The first is
a run of the project. The others are kept as configurations beside it, each with the
property it refutes; TLC stops at the counterexample.

| | Configuration, property | What happens |
|---|---|---|
| 1 | `LostUpdate` `RecoveredWriterKnowsStored` | `project-switch-service.ts:348` takes whatever is stored at the end of an opening as the baseline. A tab that opened an outdated document read-only becomes writable at the next recovery and overwrites the newer one. |
| 2 | `FenceOverwritten` `HolderCarriesFence` | `project-lock-service.ts:63` puts the durable token without knowing that the lock is still held; the true holder ends up with a refused token. |
| 3 | `SavedUnderSuspension` `SavedIsNewest` | `project-save-service.ts:208` refuses an edit's autosave without advancing the generation; the save in flight reports the edit as saved, and nothing schedules it. |
| 4 | `ClosedActive` `ActiveHasTab` | `project-admin-service.ts:110` reads which project is active before it awaits the drain; after a switch in between it closes the tab on screen. |
| 5 | `CircularWait` `SuspensionIsTemporary` | a discarding close holds a save gate while it awaits its own switch, queued behind one whose flush waits for that gate. |
| 6 | `LateTakeover` `AuthorityIsTheManagers` | a takeover message of a tab that has since lost the lock makes the rightful holder release it (`project-lock.js:83`). |
| 7 | `TwoWriters` `SingleWriter` | with a late timer or message two tabs hold the lease until a heartbeat (`project-lock.js:261`). |
| 8 | `FaultBeforeStart` `FaultEndsGeneration` | the session starts between the two compare-exchanges of a fault (`engine/parallel-stack-protocol.ts:108`): a cause is recorded, and the generation runs on. |
| 9 | `TornUpdate` `NeverTorn` | on a machine that delays plain loads past an atomic one, the copy of the payload may mix two updates (`engine/parallel-stack-effect-mailbox.ts:109`). |
| 10 | `StaleRemoval` `NothingIsMissing` | a main held up past its lease while it aborts removes a body its successor has published (`src/desktop/framescaper-project-library-writer.ts:291`). |
| 11 | `EqualBodies` `FilesJournalledOnce` | two bodies of equal content and different keys are journalled as one file twice; the key constraint fails the publication, and every retry (`src/desktop/framescaper-project-library-writer.ts:224`). |
| 12 | `ForgottenRecovery` `EveryLossRecovers` | the end of an activation clears the shared retry timer (`project-switch-service.ts:373`, `project-lock-service.ts:161`) also when it was armed for a lock that has replaced the activation's; the tab stays read-only until its user acts. |
| 13 | `UnfencedEdit` `EditsAreFenced` | `project-switch-service.ts:237` reads `readOnly` of the lock, awaits, and uses it at 253; a loss in between is ignored (`project-lock-service.ts:194`), the tab accepts edits, and their autosaves are captured without a token (`project-save-service.ts:218`) and dropped (376). |

## 7. Not modelled

- **History and macros, command algebra, document model**: sequential transformations of
  large data with unit tests; here a command is one edit.
- **Deletion, clearing of local data, the saving close, `terminalFlush`, `beforeunload`**:
  further callers of the save service; they would add actions to ProjectSaves, whose state
  space is at its limit.
- **Media retention, revision pruning, source writes, linked originals**: what is kept is
  the reachable set of all rows a document refers to, which needs the document model.
- **Raw PCM spools and take cycles**: the protocol of CaptureSpools with frames for packets.
- **Creation, adoption and retirement of a capture session**: a journal of their own around
  the session modelled here.
- **Transfer between devices, native services**: protocols and processes apart from the
  projects kept here.
- **Engine, effects, codecs, analysis, export, user interface, offline cache, translations**:
  numeric code, layout and text, which have no states a model checker could enumerate.
