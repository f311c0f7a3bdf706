---------------------------- MODULE CaptureSpools ----------------------------
(***************************************************************************)
(* The durable storage of one capture session: a manifest, which says how   *)
(* many packets of each stream are acknowledged, and one spool per stream,  *)
(* with its metadata and its chunks.  An append goes through an intent,     *)
(* the chunks, the spool's metadata and the manifest, in this order, and    *)
(* every tab that finds the session repairs what a stopped one left.        *)
(*                                                                          *)
(* An operation of a tab is its program: the steps it still has to take.    *)
(* A step that works under the lock of a spool is a list of requests to the *)
(* storage, and any request may fail, with or without having been carried   *)
(* out.  A tab may crash before any step, which frees its Web Locks.        *)
(***************************************************************************)
EXTENDS Naturals, Sequences

CONSTANTS
  Tabs,
  Recorder,      \* the tab that records
  StreamCount,
  Chunks,        \* chunks of a packet
  MaxPackets,    \* bound: packets the recorder captures
  None

ASSUME CaptureAssumption ==
  /\ Recorder \in Tabs /\ None \notin Tabs
  /\ StreamCount \in Nat \ {0} /\ Chunks \in Nat \ {0} /\ MaxPackets \in Nat

Streams == 1..StreamCount
Packets == 1..MaxPackets

ManifestStates == {"capturing", "sealed", "discarded"}
SpoolStates == {"capturing", "sealed", "deleting"}

Manifests == [state : ManifestStates, count : [Streams -> Nat]]
Metas == [state : SpoolStates, count : Nat]
Intents == [from : Nat, packet : Nat]

ASSUME NoneIsAbsent ==
  None \notin Nat /\ None \notin Manifests /\ None \notin Metas /\ None \notin Intents

VARIABLES
  manifest,      \* the session manifest: its state and the acknowledged counts
  meta,          \* of each stream: the metadata of its spool
  stored,        \* of each stream: which packet each stored chunk belongs to
  intent,        \* of each stream: the append intent, packets before and the new one
  cleanup,       \* of each stream: the first chunk of a tail to be deleted
  sessionLock,   \* the tab that holds the Web Lock of the session
  spoolLock,     \* of each stream: the tab that holds the lock of its spool
  own,           \* of each tab: the manifest its DurableSession believes in
  spools,        \* of each tab: the spool records its DurableSession holds
  synced,        \* of each tab: has its DurableSession not lost synchronization?
  recording,     \* the streams whose next packet the live session accepts, or None
  program,       \* of each tab: the steps its operation still has to take
  requests,      \* of each tab: what its step still asks under the spool lock
  taken,         \* packets the recorder has tried to store
  told,          \* packets whose append resolved
  refused        \* has an inspection reported missing or changed storage?

durable == <<manifest, meta, stored, intent, cleanup>>
locks == <<sessionLock, spoolLock>>
session == <<own, spools, synced, recording>>
vars == <<durable, locks, session, program, requests, taken, told, refused>>

Do(step, s) == [do |-> step, on |-> s]
EachStream(step) == [s \in Streams |-> Do(step, s)]
Alone(step) == <<Do(step, 1)>>

Capturing(n) == [state |-> "capturing", count |-> n]
Manifest(state, counts) == [state |-> state, count |-> counts]

Empty == Manifest("capturing", [s \in Streams |-> 0])

Init ==
  /\ manifest = Empty
  /\ meta = [s \in Streams |-> Capturing(0)]
  /\ stored = [s \in Streams |-> <<>>]
  /\ intent = [s \in Streams |-> None]
  /\ cleanup = [s \in Streams |-> None]
  /\ sessionLock = None
  /\ spoolLock = [s \in Streams |-> None]
  /\ own = [t \in Tabs |-> IF t = Recorder THEN Empty ELSE None]
  /\ spools = [t \in Tabs |-> [s \in Streams |->
                 IF t = Recorder THEN Capturing(0) ELSE None]]
  /\ synced = [t \in Tabs |-> t = Recorder]
  /\ recording = Streams
  /\ program = [t \in Tabs |-> <<>>]
  /\ requests = [t \in Tabs |-> <<>>]
  /\ taken = 0 /\ told = {} /\ refused = FALSE

Idle(t) == program[t] = <<>>
At(t, steps) == program[t] # <<>> /\ Head(program[t]).do \in steps
On(t) == Head(program[t]).on

Inspection == EachStream("load") \o Alone("install")
\* Seals without looking at the storage again.
SealingUnrefreshed == EachStream("seal") \o Alone("sealed")

Sealing == Inspection \o EachStream("seal") \o Alone("sealed")
Deleting == Inspection \o EachStream("mark") \o Alone("remove")

Discarding(m) ==
  Inspection \o (CASE m.state = "capturing" -> Sealing \o Alone("discarded")
                   [] m.state = "sealed" -> Alone("discarded")
                   [] OTHER -> <<>>) \o Deleting

(***************************************************************************)
(* How a step ends.                                                         *)
(***************************************************************************)
Unlock(t) == [s \in Streams |-> IF spoolLock[s] = t THEN None ELSE spoolLock[s]]

\* On to other steps, without the lock of the spool.
GoTo(t, steps) ==
  /\ program' = [program EXCEPT ![t] = steps]
  /\ requests' = [requests EXCEPT ![t] = <<>>]
  /\ spoolLock' = Unlock(t)
  /\ sessionLock' = IF steps = <<>> /\ sessionLock = t THEN None ELSE sessionLock

Rest(t) == Tail(program[t])
Finish(t) == GoTo(t, Rest(t))
Throw(t) == GoTo(t, <<>>)

\* The step takes the lock of its spool and asks for what it has to do.
Ask(t, what) ==
  /\ spoolLock' = [spoolLock EXCEPT ![On(t)] = t]
  /\ requests' = [requests EXCEPT ![t] = what]
  /\ UNCHANGED <<program, sessionLock>>

LoseSync(t) == synced' = [synced EXCEPT ![t] = FALSE] /\ UNCHANGED <<own, spools, recording>>

(***************************************************************************)
(* The requests of a step under the lock of spool s.  Each is one storage   *)
(* transaction.                                                             *)
(***************************************************************************)
Request(ask, at) == [ask |-> ask, at |-> at]

Before(s) == Capturing(intent[s].from)
After(s) == Capturing(intent[s].from + 1)
Tailed(s) == Chunks * meta[s].count

\* Journal, write each chunk, and only then let the metadata count the packet.
AppendPlan(s) ==
  <<Request("journal", 0)>> \o [i \in 1..Chunks |-> Request("write", Tailed(s) + i)]
    \o <<Request("commit", 0)>>

\* Drops the intent before the chunks it accounts for.
RewindForgetsFirst(s) == <<Request("forget", 0), Request("cut", Chunks * intent[s].from)>>

\* Counts packets where it should count chunks.
RewindByPackets(s) == <<Request("cut", intent[s].from), Request("forget", 0)>>

\* A stopped append whose metadata never moved leaves only chunks to cut off.
Rewind(s) == <<Request("cut", Chunks * intent[s].from), Request("forget", 0)>>
RewindPlan(s) == IF intent[s] # None /\ meta[s] = Before(s) THEN Rewind(s) ELSE <<>>

Sweep(first) == <<Request("cut", first), Request("swept", 0)>>
SweepPlan(s) == IF cleanup[s] = None THEN <<>> ELSE Sweep(cleanup[s])

\* Back to the acknowledged prefix: metadata and cleanup intent in one transaction.
RestorePlan(s) ==
  <<Request("back", 0)>> \o Sweep(Chunks * intent[s].from) \o Rewind(s)

PutChunk(chunks, at, packet) ==
  [i \in 1..(IF at > Len(chunks) THEN at ELSE Len(chunks)) |->
     IF i = at THEN packet ELSE IF i > Len(chunks) THEN None ELSE chunks[i]]

\* Cuts the last chunk that should stay.
CutTooMuch(chunks, first) == SubSeq(chunks, 1, first - 1)
Cut(chunks, first) == SubSeq(chunks, 1, IF first < Len(chunks) THEN first ELSE Len(chunks))

Journal(s) ==
  /\ intent' = [intent EXCEPT ![s] = [from |-> meta[s].count, packet |-> taken + 1]]
  /\ taken' = taken + 1
  /\ UNCHANGED <<manifest, meta, stored, cleanup>>

WriteChunk(s, at) ==
  /\ stored' = [stored EXCEPT ![s] = PutChunk(@, at, intent[s].packet)]
  /\ UNCHANGED <<manifest, meta, intent, cleanup, taken>>

Commit(s) ==
  /\ meta' = [meta EXCEPT ![s] = After(s)]
  /\ UNCHANGED <<manifest, stored, intent, cleanup, taken>>

CutTail(s, first) ==
  /\ stored' = [stored EXCEPT ![s] = Cut(@, first)]
  /\ UNCHANGED <<manifest, meta, intent, cleanup, taken>>

ForgetIntent(s) ==
  /\ intent' = [intent EXCEPT ![s] = None]
  /\ UNCHANGED <<manifest, meta, stored, cleanup, taken>>

ForgetCleanup(s) ==
  /\ cleanup' = [cleanup EXCEPT ![s] = None]
  /\ UNCHANGED <<manifest, meta, stored, intent, taken>>

StepBack(s) ==
  /\ meta' = [meta EXCEPT ![s] = Before(s)]
  /\ cleanup' = [cleanup EXCEPT ![s] = Chunks * intent[s].from]
  /\ UNCHANGED <<manifest, stored, intent, taken>>

Turn(s, state) ==
  /\ meta' = [meta EXCEPT ![s].state = state]
  /\ UNCHANGED <<manifest, stored, intent, cleanup, taken>>

Perform(r, s) ==
  \/ r.ask = "journal" /\ Journal(s)
  \/ r.ask = "write" /\ WriteChunk(s, r.at)
  \/ r.ask = "commit" /\ Commit(s)
  \/ r.ask = "cut" /\ CutTail(s, r.at)
  \/ r.ask = "forget" /\ ForgetIntent(s)
  \/ r.ask = "swept" /\ ForgetCleanup(s)
  \/ r.ask = "back" /\ StepBack(s)
  \/ r.ask = "seal" /\ Turn(s, "sealed")
  \/ r.ask = "mark" /\ Turn(s, "deleting")

\* A request is carried out and answered, carried out but fails, or only fails.
Outcomes == {"done", "late", "lost"}

(***************************************************************************)
(* The end of a step that ran under the lock of a spool.                    *)
(***************************************************************************)
Hold(t, s) == spools' = [spools EXCEPT ![t][s] = meta'[s]] /\ UNCHANGED <<own, synced, recording>>

\* An append that fails leaves a gap: the next packets of its stream are refused.
Gap(t, s) ==
  recording' = IF t = Recorder /\ recording # None THEN recording \ {s} ELSE recording

Completed(t, s) ==
  \/ /\ At(t, {"load"})
     /\ GoTo(t, <<Do("match", s)>> \o Rest(t)) /\ UNCHANGED <<session, told>>
  \/ /\ At(t, {"list", "match", "rollback"})
     /\ Finish(t) /\ UNCHANGED <<session, told>>
  \/ /\ At(t, {"append", "seal"})
     /\ Finish(t) /\ Hold(t, s) /\ UNCHANGED told
  \/ /\ At(t, {"mark"})
     /\ GoTo(t, <<Do("erase", s)>> \o Rest(t)) /\ Hold(t, s) /\ UNCHANGED told
  \/ /\ At(t, {"acknowledge", "reacknowledge"})
     /\ told' = told \cup {stored[s][Chunks * own[t].count[s]]}
     /\ Finish(t) /\ UNCHANGED session
  \/ /\ At(t, {"repair"})
     /\ Throw(t) /\ spools' = [spools EXCEPT ![t][s] = meta'[s]] /\ Gap(t, s)
     /\ UNCHANGED <<own, synced, told>>

Failed(t, s) ==
  /\ UNCHANGED told
  /\ \/ /\ At(t, {"acknowledge"})
        /\ GoTo(t, <<Do("recheck", s)>>) /\ UNCHANGED session
     \/ /\ At(t, {"reacknowledge", "repair"})
        /\ Throw(t) /\ LoseSync(t)
     \/ /\ At(t, {"append"})
        /\ Throw(t) /\ Gap(t, s) /\ UNCHANGED <<own, spools, synced>>
     \/ /\ At(t, {"list", "load", "match", "rollback", "seal", "mark"})
        /\ Throw(t) /\ UNCHANGED session

AskStorage(t) ==
  /\ requests[t] # <<>>
  /\ LET s == On(t) IN
     \E outcome \in Outcomes :
       /\ IF outcome = "lost" THEN UNCHANGED <<durable, taken>>
          ELSE Perform(Head(requests[t]), s)
       /\ IF outcome # "done" THEN Failed(t, s)
          ELSE IF Len(requests[t]) = 1 THEN Completed(t, s)
          ELSE /\ requests' = [requests EXCEPT ![t] = Tail(@)]
               /\ UNCHANGED <<program, locks, session, told>>
  /\ UNCHANGED refused

(***************************************************************************)
(* The steps of a program.                                                  *)
(***************************************************************************)
Waits(t, steps) == At(t, steps) /\ requests[t] = <<>>
SpoolIsFree(t) == spoolLock[On(t)] = None

\* An operation of a DurableSession: the session lock, then its manifest again.
Enter(t) ==
  /\ At(t, {"enter"}) /\ sessionLock = None
  /\ \/ /\ manifest = own[t]
        /\ sessionLock' = t /\ program' = [program EXCEPT ![t] = Tail(@)]
        /\ UNCHANGED <<synced, requests, spoolLock, own, spools, recording>>
     \/ /\ manifest # own[t]
        /\ Throw(t) /\ LoseSync(t)
  /\ UNCHANGED <<durable, taken, told, refused>>

\* The coordinator looks for the session, under the same lock.
Look(t) ==
  /\ At(t, {"look"}) /\ sessionLock = None
  /\ IF manifest = None THEN Throw(t)
     ELSE /\ sessionLock' = t /\ program' = [program EXCEPT ![t] = Tail(@)]
          /\ UNCHANGED <<requests, spoolLock>>
  /\ UNCHANGED <<durable, session, taken, told, refused>>

\* Storage that no stopped append explains: the inspection gives up.
IntentDisagrees(s) == intent[s] # None /\ meta[s] \notin {Before(s), After(s)}
CleanupDisagrees(s) == cleanup[s] # None /\ cleanup[s] # Tailed(s)

MayMiss == manifest # None /\ manifest.state = "discarded"

Refuse(t) == refused' = TRUE /\ Throw(t)

LoadSpool(t) ==
  /\ Waits(t, {"load"})
  /\ LET s == On(t)
         work == RewindPlan(s) \o SweepPlan(s) IN
     IF meta[s] = None
     THEN IF MayMiss THEN Finish(t) /\ UNCHANGED refused ELSE Refuse(t)
     ELSE /\ SpoolIsFree(t)
          /\ IF IntentDisagrees(s) \/ CleanupDisagrees(s) THEN Refuse(t)
             ELSE /\ IF work = <<>> THEN GoTo(t, <<Do("match", s)>> \o Rest(t)) ELSE Ask(t, work)
                  /\ UNCHANGED refused
  /\ UNCHANGED <<durable, session, taken, told>>

\* The same for every spool of the database, whoever owns its session.
ListSpool(t) ==
  /\ Waits(t, {"list"})
  /\ LET s == On(t)
         work == RewindPlan(s) \o SweepPlan(s) IN
     IF meta[s] = None THEN Finish(t) /\ UNCHANGED refused
     ELSE /\ SpoolIsFree(t)
          /\ IF IntentDisagrees(s) \/ CleanupDisagrees(s) THEN Refuse(t)
             ELSE /\ IF work = <<>> THEN Finish(t) ELSE Ask(t, work)
                  /\ UNCHANGED refused
  /\ UNCHANGED <<durable, session, taken, told>>

\* Takes a spool that was sealed before the manifest for a foreign one.
StateMatchesExactly(state, hasData) ==
  CASE manifest.state = "capturing" -> state = "capturing"
    [] manifest.state = "discarded" -> TRUE
    [] OTHER -> state = (IF hasData THEN "sealed" ELSE "capturing")

StateMatches(state, hasData) ==
  CASE manifest.state = "capturing" -> state \in {"capturing", "sealed"}
    [] manifest.state = "discarded" -> TRUE
    [] OTHER -> state = (IF hasData THEN "sealed" ELSE "capturing")

\* Steps back while it still holds the lock it asks for again.
StepsBackLocked(t, s) ==
  /\ program' = [program EXCEPT ![t] = <<Do("rollback", s)>> \o Rest(t)]
  /\ spoolLock' = [spoolLock EXCEPT ![s] = t] /\ UNCHANGED <<requests, sessionLock>>

\* The lock is not reentrant: it is let go before the restore asks for it.
StepsBack(t, s) == GoTo(t, <<Do("rollback", s)>> \o Rest(t))

\* Which prefix the manifest acknowledges decides what becomes of the intent.
Settle(t, s, acknowledged) ==
  IF intent[s] = None
  THEN IF meta[s].count = acknowledged THEN Finish(t) /\ UNCHANGED refused ELSE Refuse(t)
  ELSE IF meta[s] = After(s) /\ acknowledged = intent[s].from + 1
  THEN Ask(t, <<Request("forget", 0)>>) /\ UNCHANGED refused
  ELSE IF meta[s] = After(s) /\ acknowledged = intent[s].from
  THEN StepsBack(t, s) /\ UNCHANGED refused
  ELSE Refuse(t)

MatchSpool(t) ==
  /\ Waits(t, {"match"}) /\ SpoolIsFree(t)
  /\ LET s == On(t) IN
     IF StateMatches(meta[s].state, manifest.count[s] > 0)
     THEN Settle(t, s, manifest.count[s])
     ELSE Refuse(t)
  /\ UNCHANGED <<durable, session, taken, told>>

\* The lock was let go since the decision, and is taken again to step back.
RestorePrefix(t) ==
  /\ Waits(t, {"rollback", "repair"}) /\ SpoolIsFree(t)
  /\ Ask(t, RestorePlan(On(t)))
  /\ UNCHANGED <<durable, session, taken, told, refused>>

\* Under the session lock nobody changes what was just inspected.
Install(t) ==
  /\ At(t, {"install"})
  /\ spools' = [spools EXCEPT ![t] = meta]
  /\ Finish(t)
  /\ UNCHANGED <<durable, own, synced, recording, taken, told, refused>>

\* The inventory is taken, the lock let go: now a session is loaded for it.
Leave(t) ==
  /\ At(t, {"leave"})
  /\ sessionLock' = None
  /\ program' = [program EXCEPT ![t] = Alone("look") \o EachStream("load")
                   \o Alone(IF manifest.state = "discarded" THEN "retire" ELSE "adopt")]
  /\ UNCHANGED <<durable, spoolLock, session, requests, taken, told, refused>>

\* A session of its own for the tab: it finishes the deletion of what was
\* discarded, and seals what is still capturing.
Adopt(t) ==
  /\ At(t, {"adopt", "retire"})
  /\ own' = [own EXCEPT ![t] = manifest] /\ spools' = [spools EXCEPT ![t] = meta]
  /\ synced' = [synced EXCEPT ![t] = TRUE]
  /\ sessionLock' = None
  /\ program' = [program EXCEPT ![t] =
       CASE At(t, {"retire"}) -> Alone("enter") \o Discarding(manifest)
         [] manifest.state = "capturing" -> Alone("enter") \o Sealing
         [] OTHER -> <<>>]
  /\ UNCHANGED <<durable, spoolLock, recording, requests, taken, told, refused>>

AppendPacket(t) ==
  /\ Waits(t, {"append"}) /\ SpoolIsFree(t)
  /\ LET s == On(t) IN
     IF meta[s] = spools[t][s] /\ meta[s].state = "capturing" /\ intent[s] = None
     THEN Ask(t, AppendPlan(s)) /\ UNCHANGED session
     ELSE Throw(t) /\ Gap(t, s) /\ UNCHANGED <<own, spools, synced>>
  /\ UNCHANGED <<durable, taken, told, refused>>

\* The manifest proves the packet durable, so its intent can go.
Acknowledge(t) ==
  /\ Waits(t, {"acknowledge", "reacknowledge"}) /\ SpoolIsFree(t)
  /\ LET s == On(t) IN
     IF intent[s] = None
     THEN Completed(t, s)
     ELSE Ask(t, <<Request("forget", 0)>>) /\ UNCHANGED <<session, told>>
  /\ UNCHANGED <<durable, taken, refused>>

SealSpool(t) ==
  /\ Waits(t, {"seal"})
  /\ LET s == On(t) IN
     IF spools[t][s].state = "capturing" /\ spools[t][s].count > 0
     THEN /\ SpoolIsFree(t)
          /\ IF meta[s] = spools[t][s] /\ intent[s] = None
             THEN Ask(t, SweepPlan(s) \o <<Request("seal", 0)>>) ELSE Throw(t)
     ELSE Finish(t)
  /\ UNCHANGED <<durable, session, taken, told, refused>>

MarkSpool(t) ==
  /\ Waits(t, {"mark"})
  /\ LET s == On(t) IN
     IF spools[t][s] = None THEN Finish(t)
     ELSE IF spools[t][s].state = "deleting" THEN GoTo(t, <<Do("erase", s)>> \o Rest(t))
     ELSE /\ SpoolIsFree(t)
          /\ IF meta[s] = spools[t][s] /\ intent[s] = None
             THEN Ask(t, SweepPlan(s) \o <<Request("mark", 0)>>) ELSE Throw(t)
  /\ UNCHANGED <<durable, session, taken, told, refused>>

\* A marked spool needs no lock: first the chunks go, then the metadata.
EraseSpool(t) ==
  /\ At(t, {"erase"})
  /\ \E outcome \in Outcomes :
       /\ stored' = IF outcome = "lost" THEN stored ELSE [stored EXCEPT ![On(t)] = <<>>]
       /\ IF outcome = "done" THEN GoTo(t, <<Do("drop", On(t))>> \o Rest(t)) ELSE Throw(t)
  /\ UNCHANGED <<manifest, meta, intent, cleanup, session, taken, told, refused>>

DropSpool(t) ==
  /\ At(t, {"drop"})
  /\ \E outcome \in Outcomes :
       /\ meta' = IF outcome = "lost" THEN meta ELSE [meta EXCEPT ![On(t)] = None]
       /\ IF outcome = "done" THEN Finish(t) ELSE Throw(t)
  /\ UNCHANGED <<manifest, stored, intent, cleanup, session, taken, told, refused>>

(***************************************************************************)
(* The steps that replace the manifest, still under the session lock.       *)
(***************************************************************************)
NextManifest(t) ==
  CASE At(t, {"publish"}) ->
         [own[t] EXCEPT !.count[On(t)] = spools[t][On(t)].count]
    [] At(t, {"sealed"}) -> [own[t] EXCEPT !.state = "sealed"]
    [] At(t, {"discarded"}) -> [own[t] EXCEPT !.state = "discarded"]

ReplaceManifest(t) ==
  /\ At(t, {"publish", "sealed", "discarded"})
  /\ \E outcome \in Outcomes :
       /\ manifest' = IF outcome = "lost" \/ manifest # own[t] THEN manifest ELSE NextManifest(t)
       /\ IF outcome = "done" /\ manifest = own[t]
          THEN Finish(t) /\ own' = [own EXCEPT ![t] = manifest'] /\ UNCHANGED synced
          ELSE IF At(t, {"publish"})
          THEN GoTo(t, <<Do("recheck", On(t))>>) /\ UNCHANGED <<own, synced>>
          ELSE Throw(t) /\ synced' = [synced EXCEPT ![t] = FALSE] /\ UNCHANGED own
  /\ UNCHANGED <<meta, stored, intent, cleanup, spools, recording, taken, told, refused>>

\* Did the refused replacement happen?  Then the packet counts, else it goes.
Recheck(t) ==
  /\ At(t, {"recheck"})
  /\ \/ Throw(t) /\ LoseSync(t)
     \/ /\ manifest.count[On(t)] = spools[t][On(t)].count
        /\ own' = [own EXCEPT ![t] = manifest] /\ UNCHANGED <<spools, synced, recording>>
        /\ GoTo(t, <<Do("reacknowledge", On(t))>>)
     \/ /\ manifest = own[t] /\ manifest.count[On(t)] # spools[t][On(t)].count
        /\ GoTo(t, <<Do("repair", On(t))>>) /\ UNCHANGED session
  /\ UNCHANGED <<durable, taken, told, refused>>

RemoveManifest(t) ==
  /\ At(t, {"remove"})
  /\ \E outcome \in Outcomes :
       /\ manifest' = IF outcome = "lost" THEN manifest ELSE None
       /\ own' = IF outcome = "done" THEN [own EXCEPT ![t] = None] ELSE own
  /\ Throw(t)
  /\ UNCHANGED <<meta, stored, intent, cleanup, spools, synced, recording, taken, told, refused>>

Step(t) ==
  \/ AskStorage(t) \/ Enter(t) \/ Look(t) \/ LoadSpool(t) \/ ListSpool(t) \/ MatchSpool(t)
  \/ RestorePrefix(t) \/ Install(t) \/ Leave(t) \/ Adopt(t) \/ AppendPacket(t)
  \/ Acknowledge(t) \/ SealSpool(t) \/ MarkSpool(t) \/ EraseSpool(t) \/ DropSpool(t)
  \/ ReplaceManifest(t) \/ Recheck(t) \/ RemoveManifest(t)

(***************************************************************************)
(* What a tab can begin, and what can stop it.                              *)
(***************************************************************************)
Live(t) == t = Recorder /\ recording # None /\ own[t] # None

Begin(t, steps) ==
  /\ Idle(t) /\ program' = [program EXCEPT ![t] = steps]
  /\ UNCHANGED <<durable, locks, session, requests, taken, told, refused>>

CapturePacket(t, s) ==
  /\ Live(t) /\ synced[t] /\ own[t].state = "capturing"
  /\ s \in recording /\ taken < MaxPackets
  /\ Begin(t, <<Do("enter", s), Do("append", s), Do("publish", s), Do("acknowledge", s)>>)

SealSession(t) ==
  /\ Live(t) /\ synced[t] /\ own[t].state = "capturing"
  /\ Begin(t, Alone("enter") \o Sealing)

DiscardSession(t) ==
  /\ own[t] # None /\ synced[t]
  /\ Live(t) \/ own[t].state \in {"sealed", "discarded"}
  /\ Begin(t, Alone("enter") \o Discarding(own[t]))

FindRecovery(t) ==
  /\ ~Live(t)
  /\ Begin(t, Alone("look") \o EachStream("load") \o Alone("leave"))

ListSpools(t) == Begin(t, EachStream("list"))

Crash(t) ==
  /\ program' = [program EXCEPT ![t] = <<>>] /\ requests' = [requests EXCEPT ![t] = <<>>]
  /\ spoolLock' = Unlock(t)
  /\ sessionLock' = IF sessionLock = t THEN None ELSE sessionLock
  /\ own' = [own EXCEPT ![t] = None] /\ synced' = [synced EXCEPT ![t] = FALSE]
  /\ spools' = [spools EXCEPT ![t] = [s \in Streams |-> None]]
  /\ recording' = IF t = Recorder THEN None ELSE recording
  /\ UNCHANGED <<durable, taken, told, refused>>

Next == \E t \in Tabs :
  \/ Step(t) \/ SealSession(t) \/ DiscardSession(t) \/ FindRecovery(t) \/ ListSpools(t)
  \/ Crash(t) \/ \E s \in Streams : CapturePacket(t, s)

Spec == Init /\ [][Next]_vars

-----------------------------------------------------------------------------
Kept == manifest # None /\ manifest.state \in {"capturing", "sealed"}

\* Packet i of the stream, as far as all its chunks are there.
PacketAt(s, i) ==
  IF /\ Chunks * i <= Len(stored[s])
     /\ \A k \in 1..Chunks : stored[s][Chunks * (i - 1) + k] = stored[s][Chunks * i]
  THEN stored[s][Chunks * i] ELSE None

Acknowledged == [s \in Streams |->
  IF Kept THEN [i \in 1..manifest.count[s] |-> PacketAt(s, i)] ELSE <<>>]

(***************************************************************************)
(* The acknowledged prefix is a log: each packet is whole, none is lost or  *)
(* replaced whatever stops between two requests, none comes after the seal. *)
(***************************************************************************)
Log == INSTANCE CaptureLog WITH
  log <- Acknowledged,
  phase <- IF Kept THEN manifest.state ELSE "discarded"
ImplementsLog == Log!LogSpec

(***************************************************************************)
(* A packet whose append resolved stays in the capture until the user       *)
(* discards it (framescaper-capture-durable-session.ts, #append).           *)
(***************************************************************************)
ToldIsKept == Kept => \A p \in told :
  \E s \in Streams : \E i \in 1..manifest.count[s] : PacketAt(s, i) = p

(***************************************************************************)
(* Whatever is stored of a stream beyond what the manifest acknowledges has *)
(* an intent that says how to undo it, so nothing is left behind.           *)
(***************************************************************************)
TailsAreJournalled == \A s \in Streams :
  manifest # None /\ meta[s] # None /\ meta[s].state # "deleting" =>
    /\ Len(stored[s]) > Tailed(s) => intent[s] # None \/ cleanup[s] # None
    /\ meta[s].count # manifest.count[s] =>
         intent[s] # None /\ meta[s] = After(s) /\ manifest.count[s] = intent[s].from

(***************************************************************************)
(* No crash, failing request or other tab ever leaves storage that an       *)
(* inspection refuses as missing or changed.                                *)
(***************************************************************************)
NeverRefused == ~refused

(***************************************************************************)
(* A sealed take is settled: every spool with data is sealed at exactly the *)
(* acknowledged prefix, with no intent and no tail.                         *)
(***************************************************************************)
SealedIsSettled == manifest # None /\ manifest.state = "sealed" => \A s \in Streams :
  /\ intent[s] = None /\ cleanup[s] = None
  /\ meta[s] = [state |-> IF meta[s].count > 0 THEN "sealed" ELSE "capturing",
                count |-> manifest.count[s]]
  /\ Len(stored[s]) = Tailed(s)

(***************************************************************************)
(* No tab waits for itself or for a tab that waits for it: the session lock *)
(* is taken before a spool's, and a spool's is let go before it is taken    *)
(* again to step back (capture-spool-operation-lock.ts).                    *)
(***************************************************************************)
WaitsFor(t) ==
  CASE At(t, {"enter", "look"}) -> sessionLock
    [] Waits(t, {"load", "list", "match", "rollback", "repair", "append",
                 "acknowledge", "reacknowledge", "seal", "mark"}) -> spoolLock[On(t)]
    [] OTHER -> None

NoCircularWait == \A t, u \in Tabs : WaitsFor(t) = u => u # t /\ WaitsFor(u) # t
=============================================================================
