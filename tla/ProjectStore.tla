---------------------------- MODULE ProjectStore ----------------------------
(***************************************************************************)
(* The durable rows of ONE project that its editors share: the current     *)
(* document and the write-fence token (storage/project-compare-and-swap-   *)
(* repository.ts).  IndexedDB runs readwrite transactions over the same    *)
(* rows one after the other, so each operator below is one atomic step.    *)
(*                                                                         *)
(* A document is the set of edits that went into it: two documents are the *)
(* same snapshot exactly when they hold the same edits, because every      *)
(* command advances the revision and the timestamp of the project.         *)
(***************************************************************************)
EXTENDS FiniteSets

CONSTANTS
  Edits,    \* the edits users may make (a bound for TLC)
  Tokens,   \* the random write-fence tokens a run may draw (a bound for TLC)
  NoToken   \* no fence row yet, or a lock without a token

ASSUME NoTokenIsNoToken == NoToken \notin Tokens

VARIABLES
  stored,   \* the current document of the project
  fence,    \* the token in the settings row "project-write-fence:<id>"
  drawn     \* tokens handed out so far: a claim draws a fresh random UUID

storeVars == <<stored, fence, drawn>>

Documents == SUBSET Edits

(* A snapshot a tab may or may not have: NoDoc, or the set of one document. *)
NoDoc == {}
Some(d) == {d}
MaybeDoc == {NoDoc} \cup {Some(d) : d \in Documents}

StoreTypeOK ==
  /\ stored \in Documents
  /\ fence \in Tokens \cup {NoToken}
  /\ drawn \in SUBSET Tokens

StoreInit ==
  /\ stored = {}
  /\ fence = NoToken
  /\ drawn = {}

-----------------------------------------------------------------------------
(* claimWriteFence: a fresh random token unconditionally replaces the row. *)
ClaimWriteFence(k) ==
  /\ k \notin drawn
  /\ drawn' = drawn \cup {k}
  /\ fence' = k
  /\ UNCHANGED stored

(* sameProjectSnapshot / sameProject: a missing baseline equals nothing.   *)
IsCurrent(expected) == stored \in expected

(* The two checks publishIndexedDb makes in the publishing transaction.    *)
MayPublishUnfenced(expected, k) == IsCurrent(expected)
MayPublishUnchecked(expected, k) == fence = k
MayPublish(expected, k) == fence = k /\ IsCurrent(expected)

(* The accepted transaction: the snapshot becomes the current document.    *)
Publish(snapshot) ==
  /\ stored' = snapshot
  /\ UNCHANGED <<fence, drawn>>
=============================================================================
