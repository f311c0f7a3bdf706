--------------------------- MODULE EffectMailbox ---------------------------
(***************************************************************************)
(* The mailbox that carries live parameters of one effect from the user    *)
(* interface to the worker that runs it: a version word, a length word and *)
(* bytes, shared without a lock.  The writer makes the version odd while   *)
(* it writes; the reader copies the bytes and then compares the version.   *)
(***************************************************************************)
EXTENDS Integers, FiniteSets

CONSTANTS
  Updates,       \* the encoded updates
  Size,          \* how many parts each update has
  MaxParts,      \* the size of the buffer, in parts
  MaxVersion,    \* the last version a publication may start from (0x7ffffffd)
  ReordersReads, \* may the machine delay the plain reads past the atomic one?
  NoUpdate, Torn \* no update, and bytes that are none

ASSUME SizeAssumption ==
  /\ MaxParts \in Nat \ {0} /\ Size \in [Updates -> 1..MaxParts]
  /\ NoUpdate \notin Updates /\ Torn \notin Updates /\ Torn # NoUpdate
ASSUME VersionAssumption == MaxVersion \in Nat
ASSUME ReordersAssumption == ReordersReads \in BOOLEAN

Parts == 1..MaxParts

VARIABLES
  version, length, payload,     \* the shared words and bytes
  wpc, update, written,         \* of the writer: step, update, parts written
  rpc, rversion, rlength, copy, \* of the reader: step, words it read, its copy
  checked,                      \* the version was read again and is the same
  lastVersion, applied,         \* what the effect was last given
  stored                        \* history: the update published last

writerVars == <<wpc, update, written>>
readerVars == <<rpc, rversion, rlength, copy, checked>>
vars == <<version, length, payload, writerVars, readerVars, lastVersion, applied, stored>>

Even(n) == n % 2 = 0
Empty == [p \in Parts |-> NoUpdate]

Init ==
  /\ version = 0 /\ length = 0 /\ payload = Empty
  /\ wpc = "idle" /\ update = NoUpdate /\ written = {}
  /\ rpc = "idle" /\ rversion = 0 /\ rlength = 0 /\ copy = Empty /\ checked = FALSE
  /\ lastVersion = 0 /\ applied = NoUpdate /\ stored = NoUpdate

-----------------------------------------------------------------------------
(* publishParallelStackEffectUpdate, on the user interface's thread.  An    *)
(* update that does not encode or does not fit is refused before any step.  *)

MayPublish == version <= MaxVersion /\ Even(version)

BeginPublish(u) ==
  /\ wpc = "idle" /\ MayPublish
  /\ version' = version + 1
  /\ wpc' = "bytes" /\ update' = u /\ written' = {}
  /\ UNCHANGED <<length, payload, readerVars, lastVersion, applied, stored>>

WritePart(p) ==
  /\ wpc = "bytes" /\ p \in (1..Size[update]) \ written
  /\ payload' = [payload EXCEPT ![p] = update]
  /\ written' = written \cup {p}
  /\ UNCHANGED <<version, length, wpc, update, readerVars, lastVersion, applied, stored>>

WriteLength ==
  /\ wpc = "bytes" /\ written = 1..Size[update]
  /\ length' = Size[update] /\ wpc' = "version"
  /\ UNCHANGED <<version, payload, update, written, readerVars, lastVersion, applied,
                 stored>>

EndPublish ==
  /\ wpc = "version" /\ wpc' = "idle"
  /\ version' = version + 1 /\ stored' = update
  /\ UNCHANGED <<length, payload, update, written, readerVars, lastVersion, applied>>

-----------------------------------------------------------------------------
(* readParallelStackEffectUpdate, once per block on the effect's worker.    *)

UnseenByTwo == version > lastVersion + 2 /\ Even(version)
Unseen == version # lastVersion /\ version # 0 /\ Even(version)

ReadVersion ==
  /\ rpc = "idle" /\ Unseen
  /\ rpc' = "length" /\ rversion' = version
  /\ UNCHANGED <<version, length, payload, writerVars, rlength, copy, checked,
                 lastVersion, applied, stored>>

ReadLength ==
  /\ rpc = "length" /\ rpc' = "bytes"
  /\ rlength' = length /\ copy' = Empty /\ checked' = FALSE
  /\ UNCHANGED <<version, length, payload, writerVars, rversion, lastVersion, applied,
                 stored>>

\* The bytes decode to an update exactly when they are the bytes of one.
Decodes(bytes, n, u) == n = Size[u] /\ \A p \in 1..n : bytes[p] = u
Copied(bytes) == \A p \in 1..rlength : bytes[p] # NoUpdate

\* What the effect is given once the bytes are there and the version was compared;
\* bytes that are no update make the worker throw.
GiveToEffect(bytes) ==
  /\ rpc' = "idle" /\ lastVersion' = rversion
  /\ applied' \in Updates \cup {Torn}
  /\ applied' # Torn => Decodes(bytes, rlength, applied')
  /\ applied' = Torn => \A u \in Updates : ~Decodes(bytes, rlength, u)

\* slice copies part by part.  A machine that delays plain reads may satisfy some
\* of them only after the version was compared.
CopyPart(p) ==
  /\ rpc = "bytes" /\ p \in 1..rlength /\ copy[p] = NoUpdate
  /\ LET bytes == [copy EXCEPT ![p] = payload[p]] IN
     /\ copy' = bytes
     /\ IF checked /\ Copied(bytes)
        THEN GiveToEffect(bytes)
        ELSE UNCHANGED <<rpc, lastVersion, applied>>
  /\ UNCHANGED <<version, length, payload, writerVars, rversion, rlength, checked, stored>>

ComparesNothing == TRUE
SameVersion == version = rversion

CompareVersion ==
  /\ rpc = "bytes" /\ ~checked /\ (Copied(copy) \/ ReordersReads)
  /\ checked' = SameVersion
  /\ IF ~SameVersion THEN rpc' = "idle" /\ UNCHANGED <<lastVersion, applied>>
     ELSE IF Copied(copy) THEN GiveToEffect(copy)
     ELSE UNCHANGED <<rpc, lastVersion, applied>>
  /\ UNCHANGED <<version, length, payload, writerVars, rversion, rlength, copy, stored>>

-----------------------------------------------------------------------------
Publish ==
  \/ \E u \in Updates : BeginPublish(u)
  \/ \E p \in Parts : WritePart(p)
  \/ WriteLength \/ EndPublish

ReadUpdate == ReadVersion \/ ReadLength \/ CompareVersion \/ \E p \in Parts : CopyPart(p)

Next == Publish \/ ReadUpdate
Spec == Init /\ [][Next]_vars

\* A publication is one synchronous call; playback brings the reader block after block.
FairSpec ==
  /\ Spec /\ WF_vars(ReadUpdate)
  /\ WF_vars((\E p \in Parts : WritePart(p)) \/ WriteLength \/ EndPublish)

-----------------------------------------------------------------------------
TypeOK ==
  /\ version \in 0..(MaxVersion + 2) /\ rversion \in 0..(MaxVersion + 2)
  /\ length \in 0..MaxParts /\ rlength \in 0..MaxParts
  /\ payload \in [Parts -> Updates \cup {NoUpdate}]
  /\ copy \in [Parts -> Updates \cup {NoUpdate}]
  /\ wpc \in {"idle", "bytes", "version"} /\ rpc \in {"idle", "length", "bytes"}
  /\ update \in Updates \cup {NoUpdate} /\ written \subseteq Parts
  /\ checked \in BOOLEAN /\ lastVersion \in 0..(MaxVersion + 2)
  /\ applied \in Updates \cup {NoUpdate, Torn} /\ stored \in Updates \cup {NoUpdate}

\* "The worker skips a torn snapshot": bytes of two updates never reach the effect
\* (parallel-stack-effect-mailbox.ts).
NeverTorn == applied # Torn

\* What the effect is given is what is published at that moment, not an older update
\* that a slow copy brought along; and the reader never goes back to an older version.
GivesTheNewest ==
  [][ lastVersion' # lastVersion =>
        /\ applied' = stored /\ lastVersion' > lastVersion
        /\ wpc = "idle" ]_vars

\* Playback goes on, so the effect gets every update that is not followed by another.
NewestArrives == [](wpc = "idle" => <>(wpc # "idle" \/ lastVersion = version))
=============================================================================
