----------------------------- MODULE CaptureLog -----------------------------
(***************************************************************************)
(* What a durable capture promises its user: every stream is a log of       *)
(* packets that only grows, that nothing touches once the take is sealed,   *)
(* and that goes away only when the user discards the sealed take.          *)
(***************************************************************************)
EXTENDS Sequences

CONSTANTS
  Streams,
  Packets

VARIABLES
  log,    \* of each stream: the packets that recovery would find
  phase   \* capturing, sealed, discarded

Init == log = [s \in Streams |-> <<>>] /\ phase = "capturing"

Keep(s, p) ==
  /\ phase = "capturing"
  /\ \A r \in Streams : \A i \in DOMAIN log[r] : log[r][i] # p
  /\ log' = [log EXCEPT ![s] = Append(@, p)] /\ UNCHANGED phase

Seal == phase = "capturing" /\ phase' = "sealed" /\ UNCHANGED log

Discard ==
  /\ phase = "sealed" /\ phase' = "discarded"
  /\ log' = [s \in Streams |-> <<>>]

\* That a kept packet changes the log is implied; it spares TLC the rest when none does.
Next ==
  \/ log' # log /\ \E s \in Streams, p \in Packets : Keep(s, p)
  \/ Seal
  \/ Discard

LogSpec == Init /\ [][Next]_<<log, phase>>
=============================================================================
