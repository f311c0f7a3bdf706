--------------------------- MODULE LibraryCatalog ---------------------------
(***************************************************************************)
(* What the desktop project library promises of its catalog, whichever      *)
(* process writes it: each project goes from a stored document to a newer   *)
(* one or is deleted, and every such step is counted by one revision.       *)
(***************************************************************************)
EXTENDS Naturals

CONSTANTS
  Projects,
  Documents,   \* [project, revision, text]: the documents there can be
  NoDocument

VARIABLES
  rows,   \* the document stored of each project
  meta    \* the revision of the catalog

NewerThan(d, stored) == stored # NoDocument => d.revision > stored.revision

Init == rows = [p \in Projects |-> NoDocument] /\ meta = 0

Publish(d) ==
  /\ NewerThan(d, rows[d.project])
  /\ rows' = [rows EXCEPT ![d.project] = d] /\ meta' = meta + 1

Delete(p) ==
  /\ rows[p] # NoDocument
  /\ rows' = [rows EXCEPT ![p] = NoDocument] /\ meta' = meta + 1

Next == (\E d \in Documents : Publish(d)) \/ (\E p \in Projects : Delete(p))

CatalogSpec == Init /\ [][Next]_<<rows, meta>>
=============================================================================
