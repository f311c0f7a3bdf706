------------------------ MODULE CaptureSpoolsProofs ------------------------
(***************************************************************************)
(* Theorems about CaptureSpools, for any number of tabs, streams, chunks   *)
(* and packets.                                                            *)
(***************************************************************************)
EXTENDS CaptureSpools, SequenceTheorems, TLAPS

(***************************************************************************)
(* The steps of a program.  A tab lists the spools of the database under   *)
(* their own locks; everything else it does under the session lock, which  *)
(* the first step takes and the end of the program lets go.                *)
(***************************************************************************)
OuterSteps == {"enter", "look"}

\* What only the recorder does, to one packet of one stream.
CaptureSteps == {"append", "publish", "acknowledge", "recheck", "reacknowledge", "repair"}

PlainSteps == {"load", "install", "leave", "adopt", "retire",
               "seal", "sealed", "discarded", "mark", "remove"}

\* What "load" and "mark" turn into, while they work on a stream.
TurnedSteps == {"match", "rollback", "erase", "drop"}

\* The steps that take the lock of a spool.
LockingSteps == {"load", "list", "match", "rollback", "repair", "append",
                 "acknowledge", "reacknowledge", "seal", "mark"}

AnyStep == [do : {"list"} \cup OuterSteps \cup CaptureSteps \cup PlainSteps \cup TurnedSteps,
            on : Streams]

Lists == Seq([do : {"list"}, on : Streams])
Plain == Seq([do : PlainSteps, on : Streams])
Turned == {<<Do(step, s)>> \o p : step \in TurnedSteps, s \in Streams, p \in Plain}
Capture(s) == <<Do("append", s), Do("publish", s), Do("acknowledge", s)>>
Captures == UNION {{Capture(s),
                    <<Do("publish", s), Do("acknowledge", s)>>, <<Do("acknowledge", s)>>,
                    <<Do("recheck", s)>>, <<Do("reacknowledge", s)>>, <<Do("repair", s)>>}
                     : s \in Streams}

\* What tab t may run under the session lock.
Inside(t) == {p \in Plain \cup Turned \cup Captures : p \in Captures => t = Recorder}

\* What it may begin with there.
Starts(t) == {p \in Plain \cup {Capture(s) : s \in Streams} :
                p # <<>> /\ (p \in Captures => t = Recorder)}

Entering(t) == {<<Do(step, s)>> \o p : step \in OuterSteps, s \in Streams, p \in Starts(t)}

ASequence(x) == \E S : x \in Seq(S)

(* One step of a program, alone or once for every stream.                  *)
LEMMA SomeStream == StreamCount \in Nat /\ 1 \in Streams
BY CaptureAssumption DEF Streams

LEMMA OneStep ==
  ASSUME NEW step \in PlainSteps, NEW s \in Streams
  PROVE  <<Do(step, s)>> \in Plain /\ <<Do(step, s)>> # <<>>
BY DEF Do, Plain

LEMMA AloneIsPlain ==
  ASSUME NEW step \in PlainSteps
  PROVE  Alone(step) \in Plain /\ Alone(step) # <<>>
BY OneStep, SomeStream DEF Alone

LEMMA EachStreamIsPlain ==
  ASSUME NEW step \in PlainSteps
  PROVE  EachStream(step) \in Plain
<1>1. EachStream(step) \in [1..StreamCount -> [do : PlainSteps, on : Streams]]
  BY DEF EachStream, Streams, Do
<1> QED BY <1>1, SomeStream, SeqDef DEF Plain

LEMMA ConcatIsPlain ==
  ASSUME NEW p \in Plain, NEW q \in Plain
  PROVE  /\ p \o q \in Plain
         /\ q # <<>> => p \o q # <<>>
         /\ p # <<>> => p \o q # <<>>
BY ConcatProperties, ConcatEqualIffEmpty DEF Plain

LEMMA EmptyProgram == <<>> \in Plain /\ <<>> \in Lists /\ \A t : <<>> \in Inside(t)
<1>1. <<>> \in Plain /\ <<>> \in Lists
  BY EmptySeq DEF Plain, Lists
<1>2. <<>> \notin Captures
  BY DEF Captures, Capture
<1> QED BY <1>1, <1>2 DEF Inside

(* The first step tells plain programs and captures of a packet apart.     *)
LEMMA TurnedProgram ==
  ASSUME NEW p \in Turned
  PROVE  /\ p # <<>> /\ Head(p) \in [do : TurnedSteps, on : Streams] /\ Tail(p) \in Plain
         /\ p \in Seq([do : TurnedSteps \cup PlainSteps, on : Streams])
<1>1. PICK step \in TurnedSteps, s \in Streams, q \in Plain : p = <<Do(step, s)>> \o q
  BY DEF Turned
<1> DEFINE S == [do : TurnedSteps \cup PlainSteps, on : Streams]
<1>2. Do(step, s) \in [do : TurnedSteps, on : Streams] /\ Do(step, s) \in S
  BY DEF Do
<1>3. q \in Seq(S)
  <2>1. [do : PlainSteps, on : Streams] \subseteq S
    OBVIOUS
  <2> HIDE DEF S
  <2> QED BY <2>1, SeqMonotonic DEF Plain
<1> HIDE DEF S
<1>4. <<Do(step, s)>> \in Seq(S)
  BY <1>2
<1>5. p \in Seq(S) /\ p # <<>> /\ Head(p) = Do(step, s) /\ Tail(p) = q
  <2>1. p \in Seq(S)
    BY <1>1, <1>3, <1>4, ConcatProperties
  <2>2. p # <<>>
    BY <1>1, <1>3, <1>4, ConcatEqualIffEmpty
  <2>3. Head(p) = Do(step, s) /\ Tail(p) = q
    BY <1>1, <1>2, <1>3
  <2> QED BY <2>1, <2>2, <2>3
<1> QED BY <1>2, <1>5 DEF S

LEMMA NotTurned ==
  /\ <<>> \notin Turned
  /\ \A p \in Captures : p \notin Turned
<1>1. \A p \in Captures : Head(p).do \in CaptureSteps
  BY DEF Captures, Capture, CaptureSteps, Do
<1>2. \A p \in Turned : p # <<>> /\ Head(p).do \in TurnedSteps
  BY TurnedProgram
<1> QED BY <1>1, <1>2 DEF CaptureSteps, TurnedSteps

LEMMA PlainProgram ==
  ASSUME NEW p \in Plain, p # <<>>
  PROVE  /\ Head(p) \in [do : PlainSteps, on : Streams] /\ Tail(p) \in Plain
         /\ p \notin Captures /\ p \notin Turned
<1>1. Head(p) \in [do : PlainSteps, on : Streams] /\ Tail(p) \in Plain
  BY HeadTailProperties DEF Plain
<1>2. Head(p).do \in PlainSteps
  BY <1>1
<1>3. ASSUME p \in Captures PROVE Head(p).do \in CaptureSteps
  BY <1>3 DEF Captures, Capture, CaptureSteps, Do
<1>4. ASSUME p \in Turned PROVE Head(p).do \in TurnedSteps
  BY <1>4, TurnedProgram
<1> QED BY <1>1, <1>2, <1>3, <1>4 DEF PlainSteps, CaptureSteps, TurnedSteps

LEMMA PlainIsInside ==
  ASSUME NEW p \in Plain, NEW t
  PROVE  p \in Inside(t)
<1>1. <<>> \notin Captures
  BY DEF Captures, Capture
<1> QED BY <1>1, PlainProgram DEF Inside

LEMMA CaptureProgram ==
  ASSUME NEW p \in Captures
  PROVE  /\ p # <<>> /\ Head(p) \in [do : CaptureSteps, on : Streams]
         /\ Tail(p) = <<>> \/ Tail(p) \in Captures
         /\ Head(p).do = "append" => p = Capture(Head(p).on)
         /\ Head(p).do = "append" =>
              Tail(p) = <<Do("publish", Head(p).on), Do("acknowledge", Head(p).on)>>
         /\ Head(p).do = "publish" => Tail(p) = <<Do("acknowledge", Head(p).on)>>
         /\ Head(p).do \notin {"append", "publish"} => Tail(p) = <<>>
         /\ p \in Seq([do : CaptureSteps, on : Streams])
<1>1. PICK s \in Streams :
        p \in {<<Do("append", s), Do("publish", s), Do("acknowledge", s)>>,
               <<Do("publish", s), Do("acknowledge", s)>>, <<Do("acknowledge", s)>>,
               <<Do("recheck", s)>>, <<Do("reacknowledge", s)>>, <<Do("repair", s)>>}
  BY DEF Captures, Capture
<1>2. \A x \in CaptureSteps : Do(x, s) \in [do : CaptureSteps, on : Streams]
  BY DEF Do
<1>3. CASE p = <<Do("append", s), Do("publish", s), Do("acknowledge", s)>>
  <2>1. /\ p # <<>> /\ Head(p) = Do("append", s)
        /\ Tail(p) = <<Do("publish", s), Do("acknowledge", s)>>
    BY <1>3
  <2>2. Do("append", s).do = "append" /\ Do("append", s).on = s
    BY DEF Do
  <2> QED BY <1>2, <1>3, <2>1, <2>2 DEF Captures, Capture, CaptureSteps
<1>4. CASE p = <<Do("publish", s), Do("acknowledge", s)>>
  <2>1. p # <<>> /\ Head(p) = Do("publish", s) /\ Tail(p) = <<Do("acknowledge", s)>>
    BY <1>4
  <2>2. Do("publish", s).do = "publish" /\ Do("publish", s).on = s
    BY DEF Do
  <2> QED BY <1>2, <1>4, <2>1, <2>2 DEF Captures, Capture, CaptureSteps
<1>5. CASE \E x \in CaptureSteps \ {"append", "publish"} : p = <<Do(x, s)>>
  <2>1. PICK x \in CaptureSteps \ {"append", "publish"} : p = <<Do(x, s)>>
    BY <1>5
  <2>2. p # <<>> /\ Head(p) = Do(x, s) /\ Tail(p) = <<>>
    BY <2>1
  <2>3. Do(x, s).do = x
    BY DEF Do
  <2> QED BY <1>2, <2>1, <2>2, <2>3
<1> QED BY <1>1, <1>3, <1>4, <1>5 DEF CaptureSteps

LEMMA OneMore ==
  ASSUME NEW step \in {"recheck", "reacknowledge", "repair"}, NEW s \in Streams
  PROVE  <<Do(step, s)>> \in Inside(Recorder) /\ <<Do(step, s)>> # <<>>
BY DEF Captures, Inside

LEMMA InsideProgram ==
  ASSUME NEW t, NEW p \in Inside(t), p # <<>>
  PROVE  /\ Head(p).do \in PlainSteps \cup TurnedSteps \cup CaptureSteps
         /\ Head(p).on \in Streams /\ Tail(p) \in Inside(t)
         /\ Head(p).do \in PlainSteps \cup TurnedSteps => Tail(p) \in Plain
         /\ Head(p).do \in CaptureSteps => p \in Captures /\ t = Recorder
<1>1. CASE p \in Plain
  BY <1>1, PlainProgram, PlainIsInside DEF PlainSteps, CaptureSteps, TurnedSteps
<1>2. CASE p \in Turned
  BY <1>2, TurnedProgram, PlainIsInside DEF PlainSteps, CaptureSteps, TurnedSteps
<1>3. CASE p \in Captures
  <2>1. t = Recorder /\ Head(p).do \in CaptureSteps /\ Head(p).on \in Streams
    BY <1>3, CaptureProgram DEF Inside
  <2>2. Tail(p) \in Inside(t)
    BY <1>3, <2>1, CaptureProgram, EmptyProgram DEF Inside
  <2> QED BY <1>3, <2>1, <2>2 DEF PlainSteps, CaptureSteps, TurnedSteps
<1> QED BY <1>1, <1>3, <1>2 DEF Inside

LEMMA SealingIsPlain ==
  /\ Inspection \in Plain
  /\ Sealing \in Plain /\ Sealing # <<>>
  /\ Deleting \in Plain /\ Deleting # <<>>
<1>1. /\ EachStream("load") \in Plain /\ EachStream("seal") \in Plain
      /\ EachStream("mark") \in Plain
  BY EachStreamIsPlain DEF PlainSteps
<1>2. /\ Alone("install") \in Plain
      /\ Alone("sealed") \in Plain /\ Alone("sealed") # <<>>
      /\ Alone("remove") \in Plain /\ Alone("remove") # <<>>
  BY AloneIsPlain DEF PlainSteps
<1>3. Inspection \in Plain
  BY <1>1, <1>2, ConcatIsPlain DEF Inspection
<1>4. Inspection \o EachStream("seal") \in Plain /\ Inspection \o EachStream("mark") \in Plain
  BY <1>1, <1>3, ConcatIsPlain
<1> QED BY <1>2, <1>3, <1>4, ConcatIsPlain DEF Sealing, Deleting

LEMMA DiscardingIsPlain ==
  ASSUME NEW m
  PROVE  Discarding(m) \in Plain /\ Discarding(m) # <<>>
<1> DEFINE Middle == CASE m.state = "capturing" -> Sealing \o Alone("discarded")
                       [] m.state = "sealed" -> Alone("discarded")
                       [] OTHER -> <<>>
<1>1. Alone("discarded") \in Plain
  BY AloneIsPlain DEF PlainSteps
<1>2. Sealing \o Alone("discarded") \in Plain
  BY <1>1, SealingIsPlain, ConcatIsPlain
<1>3. Middle \in Plain
  BY <1>1, <1>2, EmptyProgram
<1>4. Discarding(m) = Inspection \o Middle \o Deleting
  BY DEF Discarding
<1> HIDE DEF Middle
<1>5. Inspection \o Middle \in Plain
  BY <1>3, SealingIsPlain, ConcatIsPlain
<1> QED BY <1>4, <1>5, SealingIsPlain, ConcatIsPlain

LEMMA PlainStarts ==
  ASSUME NEW p \in Plain, p # <<>>, NEW t
  PROVE  p \in Starts(t)
BY PlainProgram DEF Starts

LEMMA StartsInside ==
  ASSUME NEW t, NEW p \in Starts(t)
  PROVE  p \in Inside(t) /\ p # <<>>
BY DEF Starts, Inside, Captures

(* Programs are sequences of steps on streams.                             *)
LEMMA ProgramTypes ==
  ASSUME NEW t
  PROVE  Lists \subseteq Seq(AnyStep) /\ Inside(t) \subseteq Seq(AnyStep)
         /\ Entering(t) \subseteq Seq(AnyStep)
<1>1. /\ [do : {"list"}, on : Streams] \subseteq AnyStep
      /\ [do : PlainSteps, on : Streams] \subseteq AnyStep
      /\ [do : CaptureSteps, on : Streams] \subseteq AnyStep
      /\ [do : TurnedSteps \cup PlainSteps, on : Streams] \subseteq AnyStep
      /\ \A step \in OuterSteps, s \in Streams : Do(step, s) \in AnyStep
  BY DEF AnyStep, Do
<1>2. Lists \subseteq Seq(AnyStep) /\ Plain \subseteq Seq(AnyStep)
  BY <1>1, SeqMonotonic DEF Lists, Plain
<1>3. Captures \subseteq Seq(AnyStep)
  BY <1>1, CaptureProgram, SeqMonotonic
<1>4. Turned \subseteq Seq(AnyStep)
  BY <1>1, TurnedProgram, SeqMonotonic
<1>5. Inside(t) \subseteq Seq(AnyStep)
  BY <1>2, <1>3, <1>4 DEF Inside
<1>6. \A step \in OuterSteps, s \in Streams : <<Do(step, s)>> \in Seq(AnyStep)
  BY <1>1
<1>7. ASSUME NEW p \in Entering(t) PROVE p \in Seq(AnyStep)
  <2>1. PICK step \in OuterSteps, s \in Streams, q \in Starts(t) : p = <<Do(step, s)>> \o q
    BY DEF Entering
  <2>2. <<Do(step, s)>> \in Seq(AnyStep) /\ q \in Seq(AnyStep)
    BY <1>5, <1>6, StartsInside
  <2> HIDE DEF Do
  <2> QED BY <2>1, <2>2, ConcatProperties
<1> QED BY <1>2, <1>5, <1>7

LEMMA EnteringProgram ==
  ASSUME NEW t, NEW p \in Entering(t)
  PROVE  /\ p # <<>> /\ Head(p).do \in OuterSteps /\ Head(p).on \in Streams
         /\ Tail(p) \in Starts(t)
<1>1. PICK step \in OuterSteps, s \in Streams, q \in Starts(t) : p = <<Do(step, s)>> \o q
  BY DEF Entering
<1>2. Do(step, s) \in AnyStep /\ q \in Seq(AnyStep)
  <2>1. Do(step, s) \in AnyStep
    BY DEF AnyStep, Do
  <2> QED BY <2>1, ProgramTypes, StartsInside
<1>3. p # <<>>
  BY <1>1, <1>2, ConcatEqualIffEmpty
<1>4. Head(p) = Do(step, s) /\ Tail(p) = q
  BY <1>1, <1>2
<1>5. Do(step, s).do = step /\ Do(step, s).on = s
  BY DEF Do
<1> QED BY <1>1, <1>3, <1>4, <1>5

LEMMA OuterProgram ==
  ASSUME NEW t, NEW step \in OuterSteps, NEW s \in Streams, NEW p \in Starts(t)
  PROVE  <<Do(step, s)>> \o p \in Entering(t)
BY DEF Entering

(***************************************************************************)
(* The discipline of the locks.  A tab lists spools without the session    *)
(* lock, runs a program of steps under it, or has yet to take it.  A tab   *)
(* holds the lock of a spool exactly while it is at a step of that spool   *)
(* and has asked the storage for something.                                *)
(***************************************************************************)
Role(t) ==
  \/ program[t] \in Lists /\ sessionLock # t
  \/ program[t] \in Inside(t) /\ program[t] # <<>> /\ sessionLock = t
  \/ program[t] \in Entering(t) /\ sessionLock # t

Discipline ==
  /\ program \in [Tabs -> Seq(AnyStep)]
  /\ \E S : requests \in [Tabs -> Seq(S)]
  /\ sessionLock \in Tabs \cup {None}
  /\ spoolLock \in [Streams -> Tabs \cup {None}]
  /\ \A t \in Tabs : Role(t)
  /\ \A t \in Tabs : requests[t] # <<>> => At(t, LockingSteps) /\ spoolLock[On(t)] = t
  /\ \A t \in Tabs, s \in Streams : spoolLock[s] = t => requests[t] # <<>> /\ On(t) = s

LEMMA InitDiscipline == Init => Discipline
<1> SUFFICES ASSUME Init PROVE Discipline
  OBVIOUS
<1>1. <<>> \in Seq(AnyStep) /\ <<>> \in Seq({})
  BY EmptySeq
<1> QED BY <1>1, EmptyProgram, CaptureAssumption DEF Init, Discipline, Role

(* The first step of a program works on a stream and tells what kind of    *)
(* program it is.                                                          *)
LEMMA FirstStep ==
  ASSUME Discipline, NEW t \in Tabs, program[t] # <<>>
  PROVE  /\ On(t) \in Streams
         /\ Head(program[t]).do \in
              {"list"} \cup OuterSteps \cup CaptureSteps \cup PlainSteps \cup TurnedSteps
         /\ At(t, {"list"}) => program[t] \in Lists /\ sessionLock # t /\ Rest(t) \in Lists
         /\ At(t, PlainSteps \cup TurnedSteps \cup CaptureSteps) =>
              sessionLock = t /\ Rest(t) \in Inside(t)
         /\ At(t, PlainSteps \cup TurnedSteps) => Rest(t) \in Plain
         /\ At(t, CaptureSteps) => program[t] \in Captures /\ t = Recorder
         /\ At(t, OuterSteps) => /\ program[t] \in Entering(t) /\ sessionLock # t
                                /\ Rest(t) \in Starts(t)
<1>1. CASE program[t] \in Lists /\ sessionLock # t
  <2>1. Head(program[t]) \in [do : {"list"}, on : Streams] /\ Tail(program[t]) \in Lists
    BY <1>1, HeadTailProperties DEF Lists
  <2> QED BY <1>1, <2>1 DEF On, At, Rest, OuterSteps, PlainSteps, CaptureSteps, TurnedSteps
<1>2. CASE program[t] \in Inside(t) /\ sessionLock = t
  BY <1>2, InsideProgram DEF On, At, Rest, OuterSteps, PlainSteps, CaptureSteps, TurnedSteps
<1>3. CASE program[t] \in Entering(t) /\ sessionLock # t
  BY <1>3, EnteringProgram DEF On, At, Rest, OuterSteps, PlainSteps, CaptureSteps, TurnedSteps
<1> QED BY <1>1, <1>2, <1>3 DEF Discipline, Role

(* Who has asked the storage for something is at a step that locks.        *)
LEMMA AskingStep ==
  ASSUME Discipline, NEW t \in Tabs, requests[t] # <<>>
  PROVE  /\ program[t] # <<>> /\ On(t) \in Streams /\ At(t, LockingSteps)
         /\ spoolLock[On(t)] = t
         /\ sessionLock = t \/ At(t, {"list"})
<1>1. At(t, LockingSteps) /\ spoolLock[On(t)] = t /\ program[t] # <<>>
  BY DEF Discipline, At
<1>2. At(t, {"list"}) \/ At(t, PlainSteps \cup TurnedSteps \cup CaptureSteps)
  BY <1>1 DEF At, LockingSteps, PlainSteps, CaptureSteps, TurnedSteps
<1> QED BY <1>1, <1>2, FirstStep

(* The roles of the tabs that do not move.                                 *)
LEMMA OthersKeepRoles ==
  ASSUME Discipline, NEW t \in Tabs,
         program' \in [Tabs -> Seq(AnyStep)],
         \A u \in Tabs \ {t} : program'[u] = program[u],
         \A u \in Tabs \ {t} : sessionLock' = u <=> sessionLock = u,
         Role(t)'
  PROVE  \A u \in Tabs : Role(u)'
<1> SUFFICES ASSUME NEW u \in Tabs \ {t} PROVE Role(u)'
  OBVIOUS
<1>1. Role(u) /\ program'[u] = program[u] /\ (sessionLock' = u <=> sessionLock = u)
  BY DEF Discipline
<1>2. Inside(u)' = Inside(u) /\ Entering(u)' = Entering(u) /\ Lists' = Lists
  BY DEF Inside, Entering, Starts, Lists
<1> QED BY <1>1, <1>2 DEF Role

(* A step ends: its tab goes on to other steps of the same kind, or to     *)
(* none and lets the session lock go.  The spool's lock goes in any case.  *)
LEMMA GoToKeeps ==
  ASSUME Discipline, NEW t \in Tabs, NEW steps, GoTo(t, steps),
         \/ steps = <<>>
         \/ steps \in Inside(t) /\ sessionLock = t
         \/ steps \in Lists /\ sessionLock # t
  PROVE  Discipline'
<1>1. steps \in Seq(AnyStep)
  BY ProgramTypes, EmptyProgram
<1>2. program' \in [Tabs -> Seq(AnyStep)] /\ program'[t] = steps
      /\ \A u \in Tabs \ {t} : program'[u] = program[u]
  BY <1>1 DEF GoTo, Discipline
<1>3. (\E S : requests' \in [Tabs -> Seq(S)]) /\ requests'[t] = <<>>
      /\ \A u \in Tabs \ {t} : requests'[u] = requests[u]
  <2>1. PICK S : requests \in [Tabs -> Seq(S)]
    BY DEF Discipline
  <2>2. requests' = [requests EXCEPT ![t] = <<>>] /\ <<>> \in Seq(S)
    BY EmptySeq DEF GoTo
  <2> QED BY <2>1, <2>2
<1>4. /\ sessionLock' \in Tabs \cup {None}
      /\ sessionLock' = t <=> sessionLock = t /\ steps # <<>>
      /\ \A u \in Tabs \ {t} : sessionLock' = u <=> sessionLock = u
  BY CaptureAssumption DEF GoTo, Discipline
<1>5. /\ spoolLock' \in [Streams -> Tabs \cup {None}]
      /\ \A s \in Streams : spoolLock'[s] # t
      /\ \A u \in Tabs \ {t}, s \in Streams : spoolLock'[s] = u <=> spoolLock[s] = u
  BY CaptureAssumption DEF GoTo, Unlock, Discipline
<1>6. \A u \in Tabs : Role(u)'
  <2>1. Role(t)'
    <3>1. \/ steps \in Lists /\ sessionLock' # t
          \/ steps \in Inside(t) /\ steps # <<>> /\ sessionLock' = t
      <4>1. CASE steps = <<>>
        BY <1>4, <4>1, EmptyProgram
      <4>2. CASE steps # <<>>
        BY <1>4, <4>2
      <4> QED BY <4>1, <4>2
    <3>2. Inside(t)' = Inside(t) /\ Lists' = Lists
      BY DEF Inside, Lists
    <3> QED BY <1>2, <3>1, <3>2 DEF Role
  <2> QED BY <1>2, <1>4, <2>1, OthersKeepRoles
<1>7. ASSUME NEW u \in Tabs, requests'[u] # <<>>
      PROVE  At(u, LockingSteps)' /\ spoolLock'[On(u)'] = u
  <2>1. u # t /\ requests[u] # <<>> /\ program'[u] = program[u]
    BY <1>2, <1>3, <1>7
  <2>2. At(u, LockingSteps) /\ spoolLock[On(u)] = u /\ On(u) \in Streams
    BY <2>1, AskingStep
  <2> QED BY <1>5, <2>1, <2>2 DEF At, On
<1>8. ASSUME NEW u \in Tabs, NEW s \in Streams, spoolLock'[s] = u
      PROVE  requests'[u] # <<>> /\ On(u)' = s
  BY <1>2, <1>3, <1>5, <1>8 DEF Discipline, On
<1> QED BY <1>2, <1>3, <1>4, <1>5, <1>6, <1>7, <1>8 DEF Discipline

(* A step takes the free lock of its spool and asks the storage.           *)
LEMMA AskKeeps ==
  ASSUME Discipline, NEW t \in Tabs, At(t, LockingSteps), SpoolIsFree(t),
         NEW what, ASequence(what), what # <<>>, Ask(t, what)
  PROVE  Discipline'
<1>1. On(t) \in Streams
  BY FirstStep DEF At
<1>2. program' = program /\ sessionLock' = sessionLock
  BY DEF Ask
<1>3. (\E S : requests' \in [Tabs -> Seq(S)]) /\ requests'[t] = what
      /\ \A u \in Tabs \ {t} : requests'[u] = requests[u]
  <2>1. PICK S : requests \in [Tabs -> Seq(S)]
    BY DEF Discipline
  <2>2. PICK T : what \in Seq(T)
    BY DEF ASequence
  <2>3. \A x : x \in Seq(S) \/ x \in Seq(T) => x \in Seq(S \cup T)
    BY SeqMonotonic
  <2> QED BY <2>1, <2>2, <2>3 DEF Ask
<1>4. spoolLock' \in [Streams -> Tabs \cup {None}] /\ spoolLock'[On(t)] = t
      /\ \A s \in Streams : s # On(t) => spoolLock'[s] = spoolLock[s]
  BY <1>1 DEF Ask, Discipline
<1>5. ASSUME NEW u \in Tabs, requests'[u] # <<>>
      PROVE  At(u, LockingSteps)' /\ spoolLock'[On(u)'] = u
  <2>1. At(u, LockingSteps)' <=> At(u, LockingSteps)
    BY <1>2 DEF At
  <2>2. On(u)' = On(u)
    BY <1>2 DEF On
  <2>3. CASE u = t
    BY <1>4, <2>1, <2>2, <2>3
  <2>4. CASE u # t
    <3>1. At(u, LockingSteps) /\ spoolLock[On(u)] = u /\ On(u) \in Streams
      BY <1>3, <1>5, <2>4, AskingStep
    <3>2. On(u) # On(t)
      BY <3>1, CaptureAssumption DEF SpoolIsFree
    <3> QED BY <1>4, <2>1, <2>2, <3>1, <3>2
  <2> QED BY <2>3, <2>4
<1>6. ASSUME NEW u \in Tabs, NEW s \in Streams, spoolLock'[s] = u
      PROVE  requests'[u] # <<>> /\ On(u)' = s
  <2>1. On(u)' = On(u)
    BY <1>2 DEF On
  <2>2. CASE s = On(t)
    BY <1>3, <1>4, <1>6, <2>1, <2>2
  <2>3. CASE s # On(t)
    <3>1. spoolLock[s] = u
      BY <1>4, <1>6, <2>3
    <3>2. requests[u] # <<>> /\ On(u) = s
      BY <3>1 DEF Discipline
    <3> QED BY <1>3, <2>1, <2>3, <3>2
  <2> QED BY <2>2, <2>3
<1>7. \A u \in Tabs : Role(u)'
  <2>1. Role(t)' <=> Role(t)
    BY <1>2 DEF Role, Inside, Entering, Starts, Lists
  <2> QED BY <1>2, <2>1, OthersKeepRoles DEF Discipline
<1> QED BY <1>2, <1>3, <1>4, <1>5, <1>6, <1>7 DEF Discipline

(* The storage has answered one of several requests.                       *)
LEMMA AnswerKeeps ==
  ASSUME Discipline, NEW t \in Tabs, requests[t] # <<>>, Len(requests[t]) # 1,
         requests' = [requests EXCEPT ![t] = Tail(@)], UNCHANGED <<program, locks>>
  PROVE  Discipline'
<1>1. (\E S : requests' \in [Tabs -> Seq(S)]) /\ requests'[t] # <<>>
      /\ \A u \in Tabs \ {t} : requests'[u] = requests[u]
  <2>1. PICK S : requests \in [Tabs -> Seq(S)]
    BY DEF Discipline
  <2>2. /\ Tail(requests[t]) \in Seq(S)
        /\ Len(Tail(requests[t])) = Len(requests[t]) - 1
        /\ Len(requests[t]) \in Nat
    BY <2>1, HeadTailProperties, LenProperties
  <2>3. Len(<<>>) = 0
    BY EmptySeq
  <2>4. ASSUME Tail(requests[t]) = <<>> PROVE FALSE
    <3>1. Len(Tail(requests[t])) = 0
      BY <2>3, <2>4
    <3> QED BY <2>2, <3>1
  <2> QED BY <2>1, <2>2, <2>4
<1>2. \A u \in Tabs : On(u)' = On(u) /\ (At(u, LockingSteps)' <=> At(u, LockingSteps))
  BY DEF On, At
<1>3. program' = program /\ sessionLock' = sessionLock /\ spoolLock' = spoolLock
  BY DEF locks
<1>4. \A u \in Tabs : requests'[u] # <<>> <=> requests[u] # <<>>
  BY <1>1
<1>5. \A u \in Tabs : Role(u)'
  <2>1. Role(t)' <=> Role(t)
    BY <1>3 DEF Role, Inside, Entering, Starts, Lists
  <2> QED BY <1>3, <2>1, OthersKeepRoles DEF Discipline
<1> QED BY <1>1, <1>2, <1>3, <1>4, <1>5 DEF Discipline

(* A tab takes the free session lock.                                      *)
LEMMA EnterKeeps ==
  ASSUME Discipline, NEW t \in Tabs, At(t, OuterSteps), sessionLock = None,
         sessionLock' = t, program' = [program EXCEPT ![t] = Tail(@)],
         UNCHANGED <<requests, spoolLock>>
  PROVE  Discipline'
<1>1. Rest(t) \in Inside(t) /\ Rest(t) # <<>> /\ Rest(t) = Tail(program[t])
  BY FirstStep, StartsInside DEF At, Rest
<1>2. Rest(t) \in Seq(AnyStep)
  BY <1>1, ProgramTypes
<1>3. program' \in [Tabs -> Seq(AnyStep)] /\ program'[t] = Rest(t)
      /\ \A u \in Tabs \ {t} : program'[u] = program[u]
  BY <1>1, <1>2 DEF Discipline
<1>4. requests[t] = <<>>
  BY AskingStep DEF At, OuterSteps, LockingSteps
<1>5. \A u \in Tabs \ {t} : On(u)' = On(u) /\ (At(u, LockingSteps)' <=> At(u, LockingSteps))
  BY <1>3 DEF On, At
<1>6. ASSUME NEW u \in Tabs, requests'[u] # <<>>
      PROVE  At(u, LockingSteps)' /\ spoolLock'[On(u)'] = u
  <2>1. u # t
    BY <1>4, <1>6
  <2> QED BY <1>5, <1>6, <2>1 DEF Discipline
<1>7. ASSUME NEW u \in Tabs, NEW s \in Streams, spoolLock'[s] = u
      PROVE  requests'[u] # <<>> /\ On(u)' = s
  <2>1. requests[u] # <<>> /\ On(u) = s
    BY <1>7 DEF Discipline
  <2> QED BY <1>4, <1>5, <2>1
<1>8. \A u \in Tabs : Role(u)'
  <2>1. Inside(t)' = Inside(t)
    BY DEF Inside
  <2>2. Role(t)'
    BY <1>1, <1>3, <2>1 DEF Role
  <2>3. \A u \in Tabs \ {t} : sessionLock' = u <=> sessionLock = u
    BY CaptureAssumption
  <2> QED BY <1>3, <2>2, <2>3, OthersKeepRoles
<1>9. requests' = requests /\ spoolLock' = spoolLock /\ sessionLock' \in Tabs
  OBVIOUS
<1> QED BY <1>3, <1>6, <1>7, <1>8, <1>9 DEF Discipline

(* A tab without the session lock, or that lets it go, and that has asked  *)
(* for nothing may begin another program.                                  *)
LEMMA RestartKeeps ==
  ASSUME Discipline, NEW t \in Tabs, requests[t] = <<>>,
         NEW steps \in Lists \cup Entering(t), program' = [program EXCEPT ![t] = steps],
         \/ sessionLock' = None /\ sessionLock = t
         \/ sessionLock' = sessionLock /\ sessionLock # t,
         UNCHANGED <<requests, spoolLock>>
  PROVE  Discipline'
<1>1. program' \in [Tabs -> Seq(AnyStep)] /\ program'[t] = steps
      /\ \A u \in Tabs \ {t} : program'[u] = program[u]
  BY ProgramTypes DEF Discipline
<1>2. \A u \in Tabs \ {t} : On(u)' = On(u) /\ (At(u, LockingSteps)' <=> At(u, LockingSteps))
  BY <1>1 DEF On, At
<1>3. ASSUME NEW u \in Tabs, requests'[u] # <<>>
      PROVE  At(u, LockingSteps)' /\ spoolLock'[On(u)'] = u
  <2>1. u # t
    BY <1>3
  <2> QED BY <1>2, <1>3, <2>1 DEF Discipline
<1>4. ASSUME NEW u \in Tabs, NEW s \in Streams, spoolLock'[s] = u
      PROVE  requests'[u] # <<>> /\ On(u)' = s
  <2>1. requests[u] # <<>> /\ On(u) = s
    BY <1>4 DEF Discipline
  <2> QED BY <1>2, <2>1
<1>5. \A u \in Tabs : Role(u)'
  <2>1. Entering(t)' = Entering(t) /\ Lists' = Lists
    BY DEF Entering, Starts, Lists
  <2>2. sessionLock' # t
    BY CaptureAssumption
  <2>3. Role(t)'
    BY <1>1, <2>1, <2>2 DEF Role
  <2>4. \A u \in Tabs \ {t} : sessionLock' = u <=> sessionLock = u
    BY CaptureAssumption
  <2> QED BY <1>1, <2>3, <2>4, OthersKeepRoles
<1>6. requests' = requests /\ spoolLock' = spoolLock /\ sessionLock' \in Tabs \cup {None}
  BY DEF Discipline
<1> QED BY <1>1, <1>3, <1>4, <1>5, <1>6 DEF Discipline

(* Whatever a step asks of the storage is a list of requests.              *)
LEMMA OneRequest ==
  ASSUME NEW r
  PROVE  ASequence(<<r>>) /\ <<r>> # <<>>
<1>1. <<r>> \in Seq({r})
  OBVIOUS
<1> QED BY <1>1 DEF ASequence

LEMMA TwoRequests ==
  ASSUME NEW q, NEW r
  PROVE  ASequence(<<q, r>>) /\ <<q, r>> # <<>>
<1>1. <<q, r>> \in Seq({q, r})
  OBVIOUS
<1> QED BY <1>1 DEF ASequence

LEMMA JoinedRequests ==
  ASSUME NEW p, NEW q, ASequence(p), ASequence(q)
  PROVE  /\ ASequence(p \o q)
         /\ p # <<>> \/ q # <<>> => p \o q # <<>>
<1>1. PICK S : p \in Seq(S)
  BY DEF ASequence
<1>2. PICK T : q \in Seq(T)
  BY DEF ASequence
<1>3. p \in Seq(S \cup T) /\ q \in Seq(S \cup T)
  BY <1>1, <1>2, SeqMonotonic
<1> QED BY <1>3, ConcatProperties, ConcatEqualIffEmpty DEF ASequence

LEMMA NoRequests == ASequence(<<>>)
BY EmptySeq DEF ASequence

LEMMA PlansAreSequences ==
  ASSUME NEW s \in Streams
  PROVE  /\ ASequence(RewindPlan(s) \o SweepPlan(s))
         /\ ASequence(AppendPlan(s)) /\ AppendPlan(s) # <<>>
         /\ ASequence(RestorePlan(s)) /\ RestorePlan(s) # <<>>
         /\ \A r : ASequence(SweepPlan(s) \o <<r>>) /\ SweepPlan(s) \o <<r>> # <<>>
<1>1. ASequence(Rewind(s)) /\ \A n : ASequence(Sweep(n))
  BY TwoRequests DEF Rewind, Sweep
<1>2. ASequence(RewindPlan(s)) /\ ASequence(SweepPlan(s))
  BY <1>1, NoRequests DEF RewindPlan, SweepPlan
<1>3. \A r : ASequence(SweepPlan(s) \o <<r>>) /\ SweepPlan(s) \o <<r>> # <<>>
  BY <1>2, OneRequest, JoinedRequests
<1>4. ASequence(AppendPlan(s)) /\ AppendPlan(s) # <<>>
  <2> DEFINE W == [i \in 1..Chunks |-> Request("write", Tailed(s) + i)]
             J == <<Request("journal", 0)>>
             C == <<Request("commit", 0)>>
             S == {Request("write", Tailed(s) + i) : i \in 1..Chunks}
  <2>1. W \in [1..Chunks -> S]
    OBVIOUS
  <2>2. AppendPlan(s) = J \o W \o C
    BY DEF AppendPlan
  <2>3. ASequence(J) /\ ASequence(C) /\ C # <<>>
    BY OneRequest
  <2> HIDE DEF W, S
  <2>4. W \in Seq(S)
    <3>1. Chunks \in Nat
      BY CaptureAssumption
    <3> QED BY <2>1, <3>1, SeqDef
  <2>5. ASequence(W) /\ ASequence(J) /\ ASequence(C) /\ C # <<>>
    BY <2>4, <2>3 DEF ASequence
  <2> HIDE DEF W, J, C
  <2>6. ASequence(J \o W)
    BY <2>5, JoinedRequests
  <2> QED BY <2>5, <2>2, <2>6, JoinedRequests
<1>5. ASequence(RestorePlan(s)) /\ RestorePlan(s) # <<>>
  <2> DEFINE B == <<Request("back", 0)>>
             F == Sweep(Chunks * intent[s].from)
  <2>1. ASequence(B) /\ B # <<>> /\ ASequence(F)
    BY <1>1, OneRequest
  <2>2. RestorePlan(s) = B \o F \o Rewind(s)
    BY DEF RestorePlan
  <2> HIDE DEF B, F
  <2>3. ASequence(B \o F) /\ B \o F # <<>>
    BY <2>1, JoinedRequests
  <2> QED BY <1>1, <2>2, <2>3, JoinedRequests
<1> QED BY <1>2, <1>3, <1>4, <1>5, JoinedRequests

(***************************************************************************)
(* The ways a step ends.                                                   *)
(***************************************************************************)
LEMMA ThrowKeeps ==
  ASSUME Discipline, NEW t \in Tabs, Throw(t)
  PROVE  Discipline'
BY GoToKeeps DEF Throw

LEMMA FinishKeeps ==
  ASSUME Discipline, NEW t \in Tabs, program[t] # <<>>, ~At(t, OuterSteps), Finish(t)
  PROVE  Discipline'
<1>1. At(t, {"list"}) \/ At(t, PlainSteps \cup TurnedSteps \cup CaptureSteps)
  BY FirstStep DEF At
<1> QED BY <1>1, FirstStep, GoToKeeps DEF Finish

LEMMA GoesOnKeeps ==
  ASSUME Discipline, NEW t \in Tabs, At(t, PlainSteps \cup TurnedSteps),
         NEW step \in TurnedSteps, GoTo(t, <<Do(step, On(t))>> \o Rest(t))
  PROVE  Discipline'
<1>1. On(t) \in Streams /\ Rest(t) \in Plain /\ sessionLock = t
  BY FirstStep DEF At
<1>2. <<Do(step, On(t))>> \o Rest(t) \in Turned
  BY <1>1 DEF Turned
<1>3. <<Do(step, On(t))>> \o Rest(t) \in Inside(t)
  BY <1>2, NotTurned DEF Inside
<1> QED BY <1>1, <1>3, GoToKeeps

LEMMA OneMoreKeeps ==
  ASSUME Discipline, NEW t \in Tabs, At(t, CaptureSteps),
         NEW step \in {"recheck", "reacknowledge", "repair"}, GoTo(t, <<Do(step, On(t))>>)
  PROVE  Discipline'
<1>1. On(t) \in Streams /\ sessionLock = t /\ t = Recorder
  BY FirstStep DEF At
<1> QED BY <1>1, OneMore, GoToKeeps

LEMMA RefuseKeeps ==
  ASSUME Discipline, NEW t \in Tabs, Refuse(t)
  PROVE  Discipline'
BY ThrowKeeps DEF Refuse

(***************************************************************************)
(* The steps under the lock of a spool.                                    *)
(***************************************************************************)
LEMMA CompletedKeeps ==
  ASSUME Discipline, NEW t \in Tabs, Completed(t, On(t))
  PROVE  Discipline'
<1>1. CASE At(t, {"load"}) /\ GoTo(t, <<Do("match", On(t))>> \o Rest(t))
  BY <1>1, GoesOnKeeps DEF At, PlainSteps, TurnedSteps
<1>2. CASE At(t, LockingSteps) /\ Finish(t)
  BY <1>2, FinishKeeps DEF At, LockingSteps, OuterSteps
<1>3. CASE At(t, {"mark"}) /\ GoTo(t, <<Do("erase", On(t))>> \o Rest(t))
  BY <1>3, GoesOnKeeps DEF At, PlainSteps, TurnedSteps
<1>4. CASE Throw(t)
  BY <1>4, ThrowKeeps
<1> QED BY <1>1, <1>2, <1>3, <1>4 DEF Completed, At, LockingSteps

LEMMA FailedKeeps ==
  ASSUME Discipline, NEW t \in Tabs, Failed(t, On(t))
  PROVE  Discipline'
<1>1. CASE At(t, {"acknowledge"}) /\ GoTo(t, <<Do("recheck", On(t))>>)
  BY <1>1, OneMoreKeeps DEF At, CaptureSteps
<1>2. CASE Throw(t)
  BY <1>2, ThrowKeeps
<1> QED BY <1>1, <1>2 DEF Failed

LEMMA AskStorageKeeps ==
  ASSUME Discipline, NEW t \in Tabs, AskStorage(t)
  PROVE  Discipline'
<1>1. CASE Failed(t, On(t))
  BY <1>1, FailedKeeps
<1>2. CASE Completed(t, On(t))
  BY <1>2, CompletedKeeps
<1>3. CASE /\ requests[t] # <<>> /\ Len(requests[t]) # 1
           /\ requests' = [requests EXCEPT ![t] = Tail(@)] /\ UNCHANGED <<program, locks>>
  BY <1>3, AnswerKeeps
<1> QED BY <1>1, <1>2, <1>3 DEF AskStorage

LEMMA LoadSpoolKeeps ==
  ASSUME Discipline, NEW t \in Tabs, LoadSpool(t)
  PROVE  Discipline'
<1> DEFINE work == RewindPlan(On(t)) \o SweepPlan(On(t))
<1>1. At(t, PlainSteps \cup TurnedSteps) /\ program[t] # <<>> /\ ~At(t, OuterSteps)
      /\ At(t, LockingSteps) /\ On(t) \in Streams
  BY FirstStep DEF LoadSpool, Waits, At, LockingSteps, PlainSteps, TurnedSteps, OuterSteps
<1>2. ASequence(work)
  BY <1>1, PlansAreSequences
<1>3. CASE Finish(t)
  BY <1>1, <1>3, FinishKeeps
<1>4. CASE Refuse(t)
  BY <1>4, RefuseKeeps
<1>5. CASE GoTo(t, <<Do("match", On(t))>> \o Rest(t))
  BY <1>1, <1>5, GoesOnKeeps DEF TurnedSteps
<1>6. CASE SpoolIsFree(t) /\ work # <<>> /\ Ask(t, work)
  <2> HIDE DEF work
  <2> QED BY <1>1, <1>2, <1>6, AskKeeps
<1> QED BY <1>3, <1>4, <1>5, <1>6 DEF LoadSpool

LEMMA ListSpoolKeeps ==
  ASSUME Discipline, NEW t \in Tabs, ListSpool(t)
  PROVE  Discipline'
<1> DEFINE work == RewindPlan(On(t)) \o SweepPlan(On(t))
<1>1. program[t] # <<>> /\ ~At(t, OuterSteps) /\ At(t, LockingSteps) /\ On(t) \in Streams
  BY FirstStep DEF ListSpool, Waits, At, LockingSteps, OuterSteps
<1>2. ASequence(work)
  BY <1>1, PlansAreSequences
<1>3. CASE Finish(t)
  BY <1>1, <1>3, FinishKeeps
<1>4. CASE Refuse(t)
  BY <1>4, RefuseKeeps
<1>5. CASE SpoolIsFree(t) /\ work # <<>> /\ Ask(t, work)
  <2> HIDE DEF work
  <2> QED BY <1>1, <1>2, <1>5, AskKeeps
<1> QED BY <1>3, <1>4, <1>5 DEF ListSpool

LEMMA MatchSpoolKeeps ==
  ASSUME Discipline, NEW t \in Tabs, MatchSpool(t)
  PROVE  Discipline'
<1>1. At(t, PlainSteps \cup TurnedSteps) /\ program[t] # <<>> /\ ~At(t, OuterSteps)
      /\ At(t, LockingSteps) /\ SpoolIsFree(t)
  BY DEF MatchSpool, Waits, At, LockingSteps, PlainSteps, TurnedSteps, OuterSteps
<1>2. CASE Refuse(t)
  BY <1>2, RefuseKeeps
<1>3. CASE Finish(t)
  BY <1>1, <1>3, FinishKeeps
<1>4. CASE Ask(t, <<Request("forget", 0)>>)
  BY <1>1, <1>4, OneRequest, AskKeeps
<1>5. CASE StepsBack(t, On(t))
  BY <1>1, <1>5, GoesOnKeeps DEF StepsBack, TurnedSteps
<1> QED BY <1>2, <1>3, <1>4, <1>5 DEF MatchSpool, Settle

LEMMA RestorePrefixKeeps ==
  ASSUME Discipline, NEW t \in Tabs, RestorePrefix(t)
  PROVE  Discipline'
<1>1. At(t, LockingSteps) /\ SpoolIsFree(t) /\ On(t) \in Streams
  BY FirstStep DEF RestorePrefix, Waits, At, LockingSteps
<1>2. ASequence(RestorePlan(On(t))) /\ RestorePlan(On(t)) # <<>>
  BY <1>1, PlansAreSequences
<1> QED BY <1>1, <1>2, AskKeeps DEF RestorePrefix

LEMMA AppendPacketKeeps ==
  ASSUME Discipline, NEW t \in Tabs, AppendPacket(t)
  PROVE  Discipline'
<1>1. At(t, LockingSteps) /\ SpoolIsFree(t) /\ On(t) \in Streams
  BY FirstStep DEF AppendPacket, Waits, At, LockingSteps
<1>2. CASE Throw(t)
  BY <1>2, ThrowKeeps
<1>3. CASE Ask(t, AppendPlan(On(t)))
  <2>1. ASequence(AppendPlan(On(t))) /\ AppendPlan(On(t)) # <<>>
    BY <1>1, PlansAreSequences
  <2> QED BY <1>1, <1>3, <2>1, AskKeeps
<1> QED BY <1>2, <1>3 DEF AppendPacket

LEMMA AcknowledgeKeeps ==
  ASSUME Discipline, NEW t \in Tabs, Acknowledge(t)
  PROVE  Discipline'
<1>1. At(t, LockingSteps) /\ SpoolIsFree(t)
  BY DEF Acknowledge, Waits, At, LockingSteps
<1>2. CASE Completed(t, On(t))
  BY <1>2, CompletedKeeps
<1>3. CASE Ask(t, <<Request("forget", 0)>>)
  BY <1>1, <1>3, OneRequest, AskKeeps
<1> QED BY <1>2, <1>3 DEF Acknowledge

LEMMA SealSpoolKeeps ==
  ASSUME Discipline, NEW t \in Tabs, SealSpool(t)
  PROVE  Discipline'
<1> DEFINE plan == SweepPlan(On(t)) \o <<Request("seal", 0)>>
<1>1. program[t] # <<>> /\ ~At(t, OuterSteps) /\ At(t, LockingSteps) /\ On(t) \in Streams
  BY FirstStep DEF SealSpool, Waits, At, LockingSteps, OuterSteps
<1>2. ASequence(plan) /\ plan # <<>>
  BY <1>1, PlansAreSequences
<1>3. CASE Finish(t)
  BY <1>1, <1>3, FinishKeeps
<1>4. CASE Throw(t)
  BY <1>4, ThrowKeeps
<1>5. CASE SpoolIsFree(t) /\ Ask(t, plan)
  <2> HIDE DEF plan
  <2> QED BY <1>1, <1>2, <1>5, AskKeeps
<1> QED BY <1>3, <1>4, <1>5 DEF SealSpool

LEMMA MarkSpoolKeeps ==
  ASSUME Discipline, NEW t \in Tabs, MarkSpool(t)
  PROVE  Discipline'
<1> DEFINE plan == SweepPlan(On(t)) \o <<Request("mark", 0)>>
<1>1. At(t, PlainSteps \cup TurnedSteps) /\ program[t] # <<>> /\ ~At(t, OuterSteps)
      /\ At(t, LockingSteps) /\ On(t) \in Streams
  BY FirstStep DEF MarkSpool, Waits, At, LockingSteps, PlainSteps, TurnedSteps, OuterSteps
<1>2. ASequence(plan) /\ plan # <<>>
  BY <1>1, PlansAreSequences
<1>3. CASE Finish(t)
  BY <1>1, <1>3, FinishKeeps
<1>4. CASE Throw(t)
  BY <1>4, ThrowKeeps
<1>5. CASE SpoolIsFree(t) /\ Ask(t, plan)
  <2> HIDE DEF plan
  <2> QED BY <1>1, <1>2, <1>5, AskKeeps
<1>6. CASE GoTo(t, <<Do("erase", On(t))>> \o Rest(t))
  BY <1>1, <1>6, GoesOnKeeps DEF TurnedSteps
<1> QED BY <1>3, <1>4, <1>5, <1>6 DEF MarkSpool

(***************************************************************************)
(* The steps under the session lock alone.                                 *)
(***************************************************************************)
LEMMA EnterSessionKeeps ==
  ASSUME Discipline, NEW t \in Tabs, Enter(t) \/ Look(t)
  PROVE  Discipline'
<1>1. CASE Throw(t)
  BY <1>1, ThrowKeeps
<1>2. CASE /\ At(t, OuterSteps) /\ sessionLock = None /\ sessionLock' = t
           /\ program' = [program EXCEPT ![t] = Tail(@)] /\ UNCHANGED <<requests, spoolLock>>
  BY <1>2, EnterKeeps
<1> QED BY <1>1, <1>2 DEF Enter, Look, At, OuterSteps

LEMMA InstallKeeps ==
  ASSUME Discipline, NEW t \in Tabs, Install(t)
  PROVE  Discipline'
BY FinishKeeps DEF Install, At, OuterSteps

\* A program that begins with "enter" or "look".
LEMMA EnterProgram ==
  ASSUME NEW t, NEW p \in Starts(t)
  PROVE  Alone("enter") \o p \in Entering(t)
BY OuterProgram, SomeStream DEF Alone, OuterSteps

LEMMA LookProgram ==
  ASSUME NEW t, NEW step \in PlainSteps
  PROVE  /\ Alone("look") \o EachStream("load") \o Alone(step) \in Entering(t)
         /\ Alone("look") \o EachStream("load") \o Alone(step)
              = Alone("look") \o (EachStream("load") \o Alone(step))
         /\ EachStream("load") \o Alone(step) \in Plain
<1> DEFINE q == EachStream("load") \o Alone(step)
<1>1. EachStream("load") \in Plain /\ Alone(step) \in Plain /\ Alone(step) # <<>>
  BY EachStreamIsPlain, AloneIsPlain DEF PlainSteps
<1>2. q \in Plain /\ q # <<>>
  BY <1>1, ConcatIsPlain
<1>3. Alone("look") \o q \in Entering(t)
  <2>1. q \in Starts(t)
    BY <1>2, PlainStarts
  <2> HIDE DEF q
  <2> QED BY <1>2, <2>1, SomeStream, OuterProgram DEF Alone, OuterSteps
<1>4. Alone("look") \in Seq(AnyStep)
  BY SomeStream DEF Alone, Do, AnyStep, OuterSteps
<1>5. EachStream("load") \in Seq(AnyStep) /\ Alone(step) \in Seq(AnyStep)
  BY <1>1, PlainIsInside, ProgramTypes
<1>6. Alone("look") \o EachStream("load") \o Alone(step) = Alone("look") \o q
  BY <1>4, <1>5, ConcatAssociative
<1> QED BY <1>2, <1>3, <1>6

LEMMA LeaveKeeps ==
  ASSUME Discipline, NEW t \in Tabs, Leave(t)
  PROVE  Discipline'
<1> DEFINE way == IF manifest.state = "discarded" THEN "retire" ELSE "adopt"
           p == Alone("look") \o EachStream("load") \o Alone(way)
<1>1. /\ requests[t] = <<>> /\ sessionLock' = None /\ sessionLock = t
      /\ UNCHANGED <<requests, spoolLock>> /\ program' = [program EXCEPT ![t] = p]
  BY FirstStep DEF Leave, Discipline, At, LockingSteps, PlainSteps
<1>2. p \in Entering(t)
  BY LookProgram DEF PlainSteps
<1> HIDE DEF p
<1> QED BY <1>1, <1>2, RestartKeeps

LEMMA AdoptKeeps ==
  ASSUME Discipline, NEW t \in Tabs, Adopt(t)
  PROVE  Discipline'
<1> DEFINE p == CASE At(t, {"retire"}) -> Alone("enter") \o Discarding(manifest)
                  [] manifest.state = "capturing" -> Alone("enter") \o Sealing
                  [] OTHER -> <<>>
<1>1. /\ requests[t] = <<>> /\ sessionLock' = None /\ sessionLock = t
      /\ UNCHANGED <<requests, spoolLock>> /\ program' = [program EXCEPT ![t] = p]
  BY FirstStep DEF Adopt, Discipline, At, LockingSteps, PlainSteps
<1>2. /\ Alone("enter") \o Discarding(manifest) \in Entering(t)
      /\ Alone("enter") \o Sealing \in Entering(t)
      /\ <<>> \in Lists
  BY EnterProgram, DiscardingIsPlain, SealingIsPlain, EmptyProgram, PlainStarts
<1>3. p \in Lists \cup Entering(t)
  BY <1>2
<1> HIDE DEF p
<1> QED BY <1>1, <1>3, RestartKeeps

LEMMA EraseAndDropKeep ==
  ASSUME Discipline, NEW t \in Tabs, EraseSpool(t) \/ DropSpool(t)
  PROVE  Discipline'
<1>1. At(t, PlainSteps \cup TurnedSteps) /\ program[t] # <<>> /\ ~At(t, OuterSteps)
  BY DEF EraseSpool, DropSpool, At, PlainSteps, TurnedSteps, OuterSteps
<1>2. CASE Throw(t)
  BY <1>2, ThrowKeeps
<1>3. CASE GoTo(t, <<Do("drop", On(t))>> \o Rest(t))
  BY <1>1, <1>3, GoesOnKeeps DEF TurnedSteps
<1>4. CASE Finish(t)
  BY <1>1, <1>4, FinishKeeps
<1> QED BY <1>2, <1>3, <1>4 DEF EraseSpool, DropSpool

LEMMA ManifestStepsKeep ==
  ASSUME Discipline, NEW t \in Tabs, ReplaceManifest(t) \/ Recheck(t) \/ RemoveManifest(t)
  PROVE  Discipline'
<1>1. CASE Throw(t)
  BY <1>1, ThrowKeeps
<1>2. CASE At(t, {"publish", "sealed", "discarded"}) /\ Finish(t)
  BY <1>2, FinishKeeps DEF At, OuterSteps
<1>3. CASE At(t, {"publish", "recheck"})
           /\ \E step \in {"recheck", "reacknowledge", "repair"} : GoTo(t, <<Do(step, On(t))>>)
  BY <1>3, OneMoreKeeps DEF At, CaptureSteps
<1>4. ASSUME ReplaceManifest(t)
      PROVE  \/ Throw(t)
             \/ At(t, {"publish", "sealed", "discarded"}) /\ Finish(t)
             \/ At(t, {"publish"}) /\ GoTo(t, <<Do("recheck", On(t))>>)
  <2>1. PICK outcome \in Outcomes :
          IF outcome = "done" /\ manifest = own[t]
          THEN Finish(t)
          ELSE IF At(t, {"publish"}) THEN GoTo(t, <<Do("recheck", On(t))>>) ELSE Throw(t)
    BY <1>4, Zenon DEF ReplaceManifest
  <2>2. At(t, {"publish", "sealed", "discarded"})
    BY <1>4 DEF ReplaceManifest
  <2> QED BY <2>1, <2>2
<1>5. ASSUME Recheck(t)
      PROVE  /\ At(t, {"recheck"})
             /\ \/ Throw(t) \/ GoTo(t, <<Do("reacknowledge", On(t))>>)
                \/ GoTo(t, <<Do("repair", On(t))>>)
  BY <1>5 DEF Recheck
<1>6. ASSUME RemoveManifest(t) PROVE Throw(t)
  BY <1>6 DEF RemoveManifest
<1>7. \A steps : At(t, {"publish"}) \/ At(t, {"recheck"}) => At(t, {"publish", "recheck"})
  BY DEF At
<1> QED BY <1>1, <1>2, <1>3, <1>4, <1>5, <1>6, <1>7

LEMMA StepKeeps ==
  ASSUME Discipline, NEW t \in Tabs, Step(t)
  PROVE  Discipline'
BY AskStorageKeeps, EnterSessionKeeps, LoadSpoolKeeps, ListSpoolKeeps, MatchSpoolKeeps,
   RestorePrefixKeeps, InstallKeeps, LeaveKeeps, AdoptKeeps, AppendPacketKeeps,
   AcknowledgeKeeps, SealSpoolKeeps, MarkSpoolKeeps, EraseAndDropKeep, ManifestStepsKeep
   DEF Step

(***************************************************************************)
(* What a tab can begin, and what can stop it.                             *)
(***************************************************************************)
LEMMA BeginKeeps ==
  ASSUME Discipline, NEW t \in Tabs, NEW steps \in Lists \cup Entering(t), Begin(t, steps)
  PROVE  Discipline'
<1>1. program[t] = <<>> /\ program' = [program EXCEPT ![t] = steps]
      /\ UNCHANGED <<sessionLock, spoolLock, requests>>
  BY DEF Begin, Idle, locks
<1>2. requests[t] = <<>>
  BY <1>1 DEF Discipline, At
<1>3. sessionLock # t
  BY <1>1 DEF Discipline, Role
<1> QED BY <1>1, <1>2, <1>3, RestartKeeps

\* The program of one packet.
LEMMA CaptureIsEntering ==
  ASSUME NEW s \in Streams
  PROVE  /\ <<Do("enter", s), Do("append", s), Do("publish", s), Do("acknowledge", s)>>
              \in Entering(Recorder)
         /\ Capture(s) \in Captures
<1> DEFINE q == <<Do("append", s), Do("publish", s), Do("acknowledge", s)>>
<1>1. q \in Captures /\ q \in Starts(Recorder) /\ q = Capture(s)
  BY DEF Captures, Capture, Starts
<1>2. <<Do("enter", s), Do("append", s), Do("publish", s), Do("acknowledge", s)>>
        = <<Do("enter", s)>> \o q
  OBVIOUS
<1>3. <<Do("enter", s)>> \o q \in Entering(Recorder)
  <2> HIDE DEF q
  <2> QED BY <1>1, OuterProgram DEF OuterSteps
<1> QED BY <1>1, <1>2, <1>3

LEMMA ListingIsAList == EachStream("list") \in Lists
<1> DEFINE S == [do : {"list"}, on : Streams]
           p == EachStream("list")
<1>1. p \in [1..StreamCount -> S]
  BY DEF EachStream, Streams, Do
<1> HIDE DEF p, S
<1>2. p \in Seq(S)
  BY <1>1, SomeStream, SeqDef
<1> QED BY <1>2 DEF p, S, Lists

LEMMA OperationKeeps ==
  ASSUME Discipline, NEW t \in Tabs,
         \/ SealSession(t) \/ DiscardSession(t) \/ FindRecovery(t) \/ ListSpools(t)
         \/ \E s \in Streams : CapturePacket(t, s)
  PROVE  Discipline'
<1>1. CASE SealSession(t)
  <2>1. Alone("enter") \o Sealing \in Entering(t)
    BY EnterProgram, SealingIsPlain, PlainStarts
  <2> QED BY <1>1, <2>1, BeginKeeps DEF SealSession
<1>2. CASE DiscardSession(t)
  <2>1. Alone("enter") \o Discarding(own[t]) \in Entering(t)
    BY EnterProgram, DiscardingIsPlain, PlainStarts
  <2> QED BY <1>2, <2>1, BeginKeeps DEF DiscardSession
<1>3. CASE FindRecovery(t)
  <2>1. Alone("look") \o EachStream("load") \o Alone("leave") \in Entering(t)
    BY LookProgram DEF PlainSteps
  <2> QED BY <1>3, <2>1, BeginKeeps DEF FindRecovery
<1>4. CASE ListSpools(t)
  BY <1>4, ListingIsAList, BeginKeeps DEF ListSpools
<1>5. ASSUME NEW s \in Streams, CapturePacket(t, s)
      PROVE  Discipline'
  <2> DEFINE p == <<Do("enter", s), Do("append", s), Do("publish", s), Do("acknowledge", s)>>
  <2>1. t = Recorder /\ Begin(t, p)
    BY <1>5 DEF CapturePacket, Live
  <2>2. p \in Entering(t)
    BY <2>1, CaptureIsEntering
  <2> HIDE DEF p
  <2> QED BY <2>1, <2>2, BeginKeeps
<1> QED BY <1>1, <1>2, <1>3, <1>4, <1>5

LEMMA CrashKeeps ==
  ASSUME Discipline, NEW t \in Tabs, Crash(t)
  PROVE  Discipline'
BY ThrowKeeps DEF Crash, Throw, GoTo

LEMMA NextKeepsDiscipline == Discipline /\ [Next]_vars => Discipline'
<1> SUFFICES ASSUME Discipline, [Next]_vars PROVE Discipline'
  OBVIOUS
<1>1. CASE UNCHANGED vars
  <2>1. /\ program' = program /\ requests' = requests
        /\ sessionLock' = sessionLock /\ spoolLock' = spoolLock
    BY <1>1 DEF vars, locks
  <2>2. \A t \in Tabs : Role(t)' <=> Role(t)
    BY <2>1 DEF Role, Inside, Entering, Starts, Lists
  <2>3. \A t \in Tabs : On(t)' = On(t) /\ (At(t, LockingSteps)' <=> At(t, LockingSteps))
    BY <2>1 DEF At, On
  <2> QED BY <2>1, <2>2, <2>3 DEF Discipline
<1>2. CASE Next
  BY <1>2, StepKeeps, OperationKeeps, CrashKeeps DEF Next
<1> QED BY <1>1, <1>2

(* The tab of the session lock never waits for the session lock, and the   *)
(* tab of a spool's lock never waits at all.                               *)
LEMMA DisciplineAvoidsCircles == Discipline => NoCircularWait
<1> SUFFICES ASSUME Discipline, NEW t \in Tabs, NEW u \in Tabs, WaitsFor(t) = u
             PROVE  u # t /\ WaitsFor(u) # t
  BY DEF NoCircularWait
<1>1. \A v \in Tabs : WaitsFor(v) \in Tabs => At(v, OuterSteps) \/ Waits(v, LockingSteps)
  BY CaptureAssumption DEF WaitsFor, OuterSteps, LockingSteps
<1>2. \A v \in Tabs : requests[v] # <<>> =>
        At(v, LockingSteps) /\ ~At(v, OuterSteps) /\ WaitsFor(v) = None
  BY DEF Discipline, At, Waits, OuterSteps, LockingSteps, WaitsFor
<1>3. CASE At(t, OuterSteps)
  <2>1. sessionLock = u
    <3>1. WaitsFor(t) = sessionLock
      BY <1>3 DEF At, Waits, WaitsFor, OuterSteps
    <3> QED BY <3>1
  <2>2. program[u] # <<>>
    BY <2>1, EmptyProgram DEF Discipline, Role
  <2>3. ~At(u, OuterSteps)
    BY <2>1, <2>2, FirstStep
  <2>4. ASSUME WaitsFor(u) = t PROVE FALSE
    <3>1. Waits(u, LockingSteps)
      BY <1>1, <2>3, <2>4
    <3>2. spoolLock[On(u)] = t
      BY <2>3, <2>4, <3>1 DEF WaitsFor, Waits, LockingSteps, OuterSteps
    <3>3. On(u) \in Streams
      BY <2>2, FirstStep
    <3>4. requests[t] # <<>>
      BY <3>2, <3>3 DEF Discipline
    <3> QED BY <1>2, <1>3, <3>4
  <2> QED BY <1>3, <2>3, <2>4
<1>4. CASE Waits(t, LockingSteps) /\ ~At(t, OuterSteps)
  <2>1. spoolLock[On(t)] = u
    <3>1. WaitsFor(t) = spoolLock[On(t)]
      BY <1>4 DEF WaitsFor, LockingSteps, OuterSteps
    <3> QED BY <3>1
  <2>2. On(t) \in Streams
    BY <1>4, FirstStep DEF Waits, At
  <2>3. requests[u] # <<>>
    BY <2>1, <2>2 DEF Discipline
  <2>4. requests[t] = <<>>
    BY <1>4 DEF Waits
  <2> QED BY <1>2, <2>3, <2>4, CaptureAssumption
<1> QED BY <1>1, <1>3, <1>4

(***************************************************************************)
(* Whatever the tabs do and whatever fails, no tab waits for a lock it     *)
(* holds itself, nor two tabs for each other's: a step asks for the lock   *)
(* of a spool only while it holds none, and for the session lock only      *)
(* while it holds nothing (capture-spool-operation-lock.ts).               *)
(***************************************************************************)
THEOREM NobodyWaitsInACircle == Spec => []NoCircularWait
<1>1. Spec => []Discipline
  BY InitDiscipline, NextKeepsDiscipline, PTL DEF Spec
<1>2. Discipline => NoCircularWait
  BY DisciplineAvoidsCircles
<1> QED BY <1>1, <1>2, PTL

(***************************************************************************)
(* What is stored of one capture session.                                  *)
(***************************************************************************)
Types ==
  /\ manifest \in Manifests \cup {None}
  /\ meta \in [Streams -> Metas \cup {None}]
  /\ stored \in [Streams -> Seq(Nat)]
  /\ intent \in [Streams -> Intents \cup {None}]
  /\ cleanup \in [Streams -> Nat \cup {None}]
  /\ own \in [Tabs -> Manifests \cup {None}]
  /\ spools \in [Tabs -> [Streams -> Metas \cup {None}]]
  /\ synced \in [Tabs -> BOOLEAN]
  /\ recording \in (SUBSET Streams) \cup {None}
  /\ taken \in Nat

\* An append stopped before its metadata moved, or after.
Begun(s) == intent[s] # None /\ meta[s].count = intent[s].from
Committed(s) == intent[s] # None /\ meta[s].count = intent[s].from + 1
Clean(s) == intent[s] = None /\ cleanup[s] = None
Exact(s) == Len(stored[s]) = Tailed(s)
IsCapturing(s) == meta[s] # None /\ meta[s].state = "capturing"
IsDeleting(s) == meta[s] # None /\ meta[s].state = "deleting"

\* What a sealed take has of a stream, unless it is being deleted.
Settled(s) == meta[s] # None /\ meta[s].state # "deleting" =>
  Clean(s) /\ meta[s].state = (IF meta[s].count > 0 THEN "sealed" ELSE "capturing")

SpoolInv(s) ==
  /\ IsCapturing(s) =>
       /\ Len(stored[s]) >= Tailed(s)
       /\ cleanup[s] # None => cleanup[s] = Tailed(s)
       /\ Clean(s) => Exact(s)
       /\ intent[s] # None => Begun(s) \/ (Committed(s) /\ cleanup[s] = None /\ Exact(s))
  /\ ~IsCapturing(s) => Clean(s)
  /\ meta[s] # None /\ meta[s].state = "sealed" => meta[s].count > 0 /\ Exact(s)

\* The manifest acknowledges what the spool counts, or one packet less.
Agrees(s) == manifest # None =>
  /\ manifest.state # "discarded" => meta[s] # None /\ meta[s].state # "deleting"
  /\ manifest.state # "capturing" => Settled(s)
  /\ meta[s] # None /\ ~Committed(s) => meta[s].count = manifest.count[s]
  /\ Committed(s) => manifest.count[s] \in {intent[s].from, intent[s].from + 1}

Unacknowledged(s) ==
  Committed(s) /\ manifest # None /\ manifest.count[s] = intent[s].from

(***************************************************************************)
(* What a step may still ask of the storage of stream s.                   *)
(***************************************************************************)
Ask0(what) == Request(what, 0)
CutTo(s) == Request("cut", Tailed(s))
CutBack(s) == Request("cut", Chunks * intent[s].from)

LoadFits(s, r) ==
  \/ r = <<CutTo(s), Ask0("forget"), CutTo(s), Ask0("swept")>> /\ Begun(s) /\ cleanup[s] # None
  \/ r = <<Ask0("forget"), CutTo(s), Ask0("swept")>> /\ Begun(s) /\ cleanup[s] # None
  \/ r = <<CutTo(s), Ask0("swept")>> /\ intent[s] = None /\ cleanup[s] # None
  \/ r = <<Ask0("swept")>> /\ intent[s] = None /\ cleanup[s] # None /\ Exact(s)
  \/ r = <<CutTo(s), Ask0("forget")>> /\ Begun(s) /\ cleanup[s] = None
  \/ r = <<Ask0("forget")>> /\ Begun(s) /\ cleanup[s] = None /\ Exact(s)

RestoreFits(s, r) ==
  \/ r = <<Ask0("back"), CutBack(s), Ask0("swept"), CutBack(s), Ask0("forget")>>
     /\ Unacknowledged(s)
  \/ r = <<CutTo(s), Ask0("swept"), CutTo(s), Ask0("forget")>> /\ Begun(s) /\ cleanup[s] # None
  \/ r = <<Ask0("swept"), CutTo(s), Ask0("forget")>>
     /\ Begun(s) /\ cleanup[s] # None /\ Exact(s)
  \/ r = <<CutTo(s), Ask0("forget")>> /\ Begun(s) /\ cleanup[s] = None
  \/ r = <<Ask0("forget")>> /\ Begun(s) /\ cleanup[s] = None /\ Exact(s)

ForgetFits(s, r) ==
  r = <<Ask0("forget")>> /\ Committed(s) /\ manifest # None
    /\ manifest.count[s] = meta[s].count

FinalFits(s, r, ask) == intent[s] = None /\
  \/ r = <<CutTo(s), Ask0("swept"), Ask0(ask)>> /\ cleanup[s] # None
  \/ r = <<Ask0("swept"), Ask0(ask)>> /\ cleanup[s] # None /\ Exact(s)
  \/ r = <<Ask0(ask)>> /\ cleanup[s] = None

\* After k requests of an append.
AppendFits(s, r) == cleanup[s] = None /\ \E k \in 0..(Chunks + 1) :
  /\ r = SubSeq(AppendPlan(s), k + 1, Chunks + 2)
  /\ k = 0 => intent[s] = None
  /\ k > 0 => Begun(s) /\ Len(stored[s]) = Tailed(s) + (k - 1)

(***************************************************************************)
(* Lemmas about the requests.                                              *)
(***************************************************************************)
LEMMA StreamTypes ==
  ASSUME Types, NEW s \in Streams
  PROVE  /\ meta[s] \in Metas \cup {None} /\ stored[s] \in Seq(Nat)
         /\ intent[s] \in Intents \cup {None} /\ cleanup[s] \in Nat \cup {None}
         /\ meta[s] # None => meta[s].count \in Nat /\ meta[s].state \in SpoolStates
         /\ intent[s] # None => intent[s].from \in Nat /\ intent[s].packet \in Nat
         /\ manifest # None => manifest.count[s] \in Nat /\ manifest.state \in ManifestStates
         /\ Len(stored[s]) \in Nat
<1>1. /\ meta[s] \in Metas \cup {None} /\ stored[s] \in Seq(Nat)
      /\ intent[s] \in Intents \cup {None} /\ cleanup[s] \in Nat \cup {None}
      /\ manifest \in Manifests \cup {None}
  BY DEF Types
<1> QED BY <1>1, LenProperties DEF Metas, Intents, Manifests

LEMMA ProductIsNat == \A n \in Nat : Chunks * n \in Nat
BY CaptureAssumption

LEMMA CutIs ==
  ASSUME NEW chunks \in Seq(Nat), NEW n \in Nat, n <= Len(chunks)
  PROVE  /\ Cut(chunks, n) \in Seq(Nat) /\ Len(Cut(chunks, n)) = n
         /\ \A i \in 1..n : Cut(chunks, n)[i] = chunks[i]
<1>1. Cut(chunks, n) = SubSeq(chunks, 1, n)
  BY LenProperties DEF Cut
<1>2. \A i \in 1..n : chunks[i] \in Nat
  BY LenProperties, ElementOfSeq
<1> QED BY <1>1, <1>2, SubSeqProperties

LEMMA PutIs ==
  ASSUME NEW chunks \in Seq(Nat), NEW packet \in Nat
  PROVE  LET put == PutChunk(chunks, Len(chunks) + 1, packet) IN
         /\ put \in Seq(Nat) /\ Len(put) = Len(chunks) + 1
         /\ \A i \in 1..Len(chunks) : put[i] = chunks[i]
         /\ put[Len(chunks) + 1] = packet
<1> DEFINE n == Len(chunks)
           put == PutChunk(chunks, n + 1, packet)
<1>1. n \in Nat /\ \A i \in 1..n : chunks[i] \in Nat
  BY LenProperties, ElementOfSeq
<1>2. put = [i \in 1..(n + 1) |-> IF i = n + 1 THEN packet ELSE IF i > n THEN None ELSE chunks[i]]
  BY <1>1 DEF PutChunk
<1>3. /\ DOMAIN put = 1..(n + 1) /\ put[n + 1] = packet
      /\ \A i \in 1..n : put[i] = chunks[i]
  <2> HIDE DEF n
  <2> QED BY <1>1, <1>2
<1>4. put \in [1..(n + 1) -> Nat]
  <2> HIDE DEF n
  <2> QED BY <1>1, <1>2
<1>5. put \in Seq(Nat) /\ Len(put) = n + 1
  <2> HIDE DEF put
  <2>1. put \in Seq(Nat)
    BY <1>1, <1>4, SeqDef
  <2> QED BY <1>1, <1>3, <2>1, LenProperties
<1> QED BY <1>3, <1>5

LEMMA RequestsDiffer ==
  /\ \A a, n : Request(a, n).ask = a
  /\ \A a : Ask0(a).ask = a
  /\ \A s \in Streams : CutTo(s).ask = "cut" /\ CutBack(s).ask = "cut"
BY DEF Request, Ask0, CutTo, CutBack

\* One request does one thing.
LEMMA PerformIs ==
  ASSUME NEW s \in Streams, NEW n
  PROVE  /\ Perform(Ask0("journal"), s) => Journal(s)
         /\ Perform(Request("write", n), s) => WriteChunk(s, n)
         /\ Perform(Ask0("commit"), s) => Commit(s)
         /\ Perform(Request("cut", n), s) => CutTail(s, n)
         /\ Perform(Ask0("forget"), s) => ForgetIntent(s)
         /\ Perform(Ask0("swept"), s) => ForgetCleanup(s)
         /\ Perform(Ask0("back"), s) => StepBack(s)
         /\ Perform(Ask0("seal"), s) => Turn(s, "sealed")
         /\ Perform(Ask0("mark"), s) => Turn(s, "deleting")
BY DEF Perform, Ask0, Request

(***************************************************************************)
(* What a request changes.                                                 *)
(***************************************************************************)
SameSpool(s) ==
  /\ meta'[s] = meta[s] /\ stored'[s] = stored[s]
  /\ intent'[s] = intent[s] /\ cleanup'[s] = cleanup[s]

\* Only the spool of stream s changes, and what is stored keeps its types.
OnlySpool(s) ==
  /\ manifest' = manifest
  /\ \A r \in Streams \ {s} : SameSpool(r)
  /\ meta' \in [Streams -> Metas \cup {None}]
  /\ stored' \in [Streams -> Seq(Nat)]
  /\ intent' \in [Streams -> Intents \cup {None}]
  /\ cleanup' \in [Streams -> Nat \cup {None}]
  /\ taken' \in Nat

LEMMA CutEffect ==
  ASSUME Types, NEW s \in Streams, NEW n \in Nat, n <= Len(stored[s]), CutTail(s, n)
  PROVE  /\ OnlySpool(s) /\ taken' = taken
         /\ meta'[s] = meta[s] /\ intent'[s] = intent[s] /\ cleanup'[s] = cleanup[s]
         /\ Len(stored'[s]) = n
         /\ \A i \in 1..n : stored'[s][i] = stored[s][i]
<1> DEFINE kept == Cut(stored[s], n)
<1>1. kept \in Seq(Nat) /\ Len(kept) = n /\ \A i \in 1..n : kept[i] = stored[s][i]
  BY StreamTypes, CutIs
<1>2. stored' = [stored EXCEPT ![s] = kept] /\ UNCHANGED <<manifest, meta, intent, cleanup, taken>>
  BY DEF CutTail
<1> HIDE DEF kept
<1>3. stored' \in [Streams -> Seq(Nat)] /\ stored'[s] = kept
      /\ \A r \in Streams \ {s} : stored'[r] = stored[r]
  BY <1>1, <1>2 DEF Types
<1> QED BY <1>1, <1>2, <1>3 DEF OnlySpool, SameSpool, Types

LEMMA ForgetEffect ==
  ASSUME Types, NEW s \in Streams, ForgetIntent(s)
  PROVE  /\ OnlySpool(s) /\ taken' = taken
         /\ meta'[s] = meta[s] /\ stored'[s] = stored[s] /\ cleanup'[s] = cleanup[s]
         /\ intent'[s] = None
BY DEF ForgetIntent, OnlySpool, SameSpool, Types

LEMMA SweptEffect ==
  ASSUME Types, NEW s \in Streams, ForgetCleanup(s)
  PROVE  /\ OnlySpool(s) /\ taken' = taken
         /\ meta'[s] = meta[s] /\ stored'[s] = stored[s] /\ intent'[s] = intent[s]
         /\ cleanup'[s] = None
BY DEF ForgetCleanup, OnlySpool, SameSpool, Types

LEMMA BackEffect ==
  ASSUME Types, NEW s \in Streams, intent[s] # None, StepBack(s)
  PROVE  /\ OnlySpool(s) /\ taken' = taken
         /\ meta'[s] = Capturing(intent[s].from) /\ cleanup'[s] = Chunks * intent[s].from
         /\ stored'[s] = stored[s] /\ intent'[s] = intent[s]
<1>1. intent[s].from \in Nat /\ Chunks * intent[s].from \in Nat
  BY StreamTypes, ProductIsNat
<1>2. Capturing(intent[s].from) \in Metas
  BY <1>1 DEF Capturing, Metas, SpoolStates
<1> QED BY <1>1, <1>2 DEF StepBack, Before, OnlySpool, SameSpool, Types

LEMMA TurnEffect ==
  ASSUME Types, NEW s \in Streams, meta[s] # None, NEW state \in SpoolStates, Turn(s, state)
  PROVE  /\ OnlySpool(s) /\ taken' = taken
         /\ meta'[s] = [state |-> state, count |-> meta[s].count]
         /\ stored'[s] = stored[s] /\ intent'[s] = intent[s] /\ cleanup'[s] = cleanup[s]
<1>1. meta[s] \in Metas
  BY StreamTypes
<1>2. meta' = [meta EXCEPT ![s] = [state |-> state, count |-> meta[s].count]]
  <2>1. meta' = [meta EXCEPT ![s] = [meta[s] EXCEPT !.state = state]]
    BY DEF Turn
  <2>2. [meta[s] EXCEPT !.state = state] = [state |-> state, count |-> meta[s].count]
    BY <1>1 DEF Metas
  <2> QED BY <2>1, <2>2
<1>3. [state |-> state, count |-> meta[s].count] \in Metas
  BY <1>1 DEF Metas
<1>4. UNCHANGED <<manifest, stored, intent, cleanup, taken>>
  BY DEF Turn
<1> QED BY <1>2, <1>3, <1>4 DEF OnlySpool, SameSpool, Types

LEMMA JournalEffect ==
  ASSUME Types, NEW s \in Streams, meta[s] # None, Journal(s)
  PROVE  /\ OnlySpool(s) /\ taken' = taken + 1
         /\ intent'[s] = [from |-> meta[s].count, packet |-> taken + 1]
         /\ meta'[s] = meta[s] /\ stored'[s] = stored[s] /\ cleanup'[s] = cleanup[s]
<1>1. meta[s].count \in Nat /\ taken \in Nat
  BY StreamTypes DEF Types
<1>2. [from |-> meta[s].count, packet |-> taken + 1] \in Intents
  BY <1>1 DEF Intents
<1> QED BY <1>1, <1>2 DEF Journal, OnlySpool, SameSpool, Types

LEMMA WriteEffect ==
  ASSUME Types, NEW s \in Streams, intent[s] # None, WriteChunk(s, Len(stored[s]) + 1)
  PROVE  /\ OnlySpool(s) /\ taken' = taken
         /\ meta'[s] = meta[s] /\ intent'[s] = intent[s] /\ cleanup'[s] = cleanup[s]
         /\ Len(stored'[s]) = Len(stored[s]) + 1
         /\ \A i \in 1..Len(stored[s]) : stored'[s][i] = stored[s][i]
         /\ stored'[s][Len(stored[s]) + 1] = intent[s].packet
<1> DEFINE put == PutChunk(stored[s], Len(stored[s]) + 1, intent[s].packet)
<1>1. /\ put \in Seq(Nat) /\ Len(put) = Len(stored[s]) + 1
      /\ \A i \in 1..Len(stored[s]) : put[i] = stored[s][i]
      /\ put[Len(stored[s]) + 1] = intent[s].packet
  BY StreamTypes, PutIs
<1>2. stored' = [stored EXCEPT ![s] = put] /\ UNCHANGED <<manifest, meta, intent, cleanup, taken>>
  BY DEF WriteChunk
<1> HIDE DEF put
<1>3. stored' \in [Streams -> Seq(Nat)] /\ stored'[s] = put
      /\ \A r \in Streams \ {s} : stored'[r] = stored[r]
  BY <1>1, <1>2 DEF Types
<1> QED BY <1>1, <1>2, <1>3 DEF OnlySpool, SameSpool, Types

LEMMA CommitEffect ==
  ASSUME Types, NEW s \in Streams, intent[s] # None, Commit(s)
  PROVE  /\ OnlySpool(s) /\ taken' = taken
         /\ meta'[s] = Capturing(intent[s].from + 1)
         /\ stored'[s] = stored[s] /\ intent'[s] = intent[s] /\ cleanup'[s] = cleanup[s]
<1>1. intent[s].from + 1 \in Nat
  BY StreamTypes
<1>2. Capturing(intent[s].from + 1) \in Metas
  BY <1>1 DEF Capturing, Metas, SpoolStates
<1> QED BY <1>2 DEF Commit, After, OnlySpool, SameSpool, Types

(***************************************************************************)
(* Every request that fits leaves a spool that an inspection understands,  *)
(* and what is still to be asked fits it again.                            *)
(***************************************************************************)
LEMMA SpoolNumbers ==
  ASSUME Types, NEW s \in Streams, meta[s] # None
  PROVE  /\ meta[s] \in Metas /\ meta[s].count \in Nat /\ Tailed(s) \in Nat
         /\ Len(stored[s]) \in Nat
BY StreamTypes, ProductIsNat DEF Tailed

LEMMA CutKeeps ==
  ASSUME Types, NEW s \in Streams, SpoolInv(s), IsCapturing(s), Perform(CutTo(s), s)
  PROVE  /\ OnlySpool(s) /\ taken' = taken /\ meta'[s] = meta[s]
         /\ intent'[s] = intent[s] /\ cleanup'[s] = cleanup[s]
         /\ \A i \in 1..Tailed(s) : stored'[s][i] = stored[s][i]
         /\ SpoolInv(s)' /\ Exact(s)'
         /\ Tailed(s)' = Tailed(s) /\ CutTo(s)' = CutTo(s)
         /\ Begun(s)' = Begun(s)
<1>1. Len(stored[s]) \in Nat /\ Tailed(s) \in Nat /\ Tailed(s) <= Len(stored[s])
  BY SpoolNumbers DEF IsCapturing, SpoolInv
<1>2. CutTail(s, Tailed(s))
  BY PerformIs DEF CutTo
<1>3. /\ OnlySpool(s) /\ taken' = taken
      /\ meta'[s] = meta[s] /\ intent'[s] = intent[s] /\ cleanup'[s] = cleanup[s]
      /\ Len(stored'[s]) = Tailed(s)
      /\ \A i \in 1..Tailed(s) : stored'[s][i] = stored[s][i]
  BY <1>1, <1>2, CutEffect
<1>4. Tailed(s)' = Tailed(s) /\ CutTo(s)' = CutTo(s) /\ Exact(s)'
  BY <1>3 DEF Tailed, CutTo, Exact
<1>5. Begun(s)' = Begun(s) /\ Committed(s)' = Committed(s)
  BY <1>3 DEF Begun, Committed
<1>6. SpoolInv(s)'
  BY <1>1, <1>3, <1>4, <1>5 DEF SpoolInv, IsCapturing, Clean, Exact
<1> QED BY <1>3, <1>4, <1>5, <1>6

LEMMA ForgetKeeps ==
  ASSUME Types, NEW s \in Streams, SpoolInv(s), IsCapturing(s),
         cleanup[s] = None => Exact(s), Perform(Ask0("forget"), s)
  PROVE  /\ OnlySpool(s) /\ taken' = taken /\ meta'[s] = meta[s]
         /\ intent'[s] = None /\ cleanup'[s] = cleanup[s] /\ stored'[s] = stored[s]
         /\ SpoolInv(s)' /\ Exact(s)' = Exact(s)
         /\ Tailed(s)' = Tailed(s) /\ CutTo(s)' = CutTo(s)
<1>1. ForgetIntent(s)
  BY PerformIs
<1>2. /\ OnlySpool(s) /\ taken' = taken
      /\ meta'[s] = meta[s] /\ stored'[s] = stored[s] /\ cleanup'[s] = cleanup[s]
      /\ intent'[s] = None
  BY <1>1, ForgetEffect
<1>3. Tailed(s)' = Tailed(s) /\ CutTo(s)' = CutTo(s) /\ Exact(s)' = Exact(s)
  BY <1>2 DEF Tailed, CutTo, Exact
<1>4. SpoolInv(s)'
  BY <1>2, <1>3 DEF SpoolInv, IsCapturing, Clean, Exact
<1> QED BY <1>2, <1>3, <1>4

LEMMA SweptKeeps ==
  ASSUME Types, NEW s \in Streams, SpoolInv(s), IsCapturing(s), Exact(s),
         Perform(Ask0("swept"), s)
  PROVE  /\ OnlySpool(s) /\ taken' = taken /\ meta'[s] = meta[s]
         /\ intent'[s] = intent[s] /\ cleanup'[s] = None /\ stored'[s] = stored[s]
         /\ SpoolInv(s)' /\ Exact(s)' /\ Begun(s)' = Begun(s)
         /\ Tailed(s)' = Tailed(s) /\ CutTo(s)' = CutTo(s)
<1>1. ForgetCleanup(s)
  BY PerformIs
<1>2. /\ OnlySpool(s) /\ taken' = taken
      /\ meta'[s] = meta[s] /\ stored'[s] = stored[s] /\ intent'[s] = intent[s]
      /\ cleanup'[s] = None
  BY <1>1, SweptEffect
<1>3. Tailed(s)' = Tailed(s) /\ CutTo(s)' = CutTo(s) /\ Exact(s)'
  BY <1>2 DEF Tailed, CutTo, Exact
<1>4. Begun(s)' = Begun(s) /\ Committed(s)' = Committed(s)
  BY <1>2 DEF Begun, Committed
<1>5. SpoolInv(s)'
  BY <1>2, <1>3, <1>4 DEF SpoolInv, IsCapturing, Clean, Exact
<1> QED BY <1>2, <1>3, <1>4, <1>5

LEMMA SameRequests ==
  \A what : Ask0(what)' = Ask0(what)
BY DEF Ask0, Request

LEMMA LoadForms ==
  ASSUME NEW s \in Streams, NEW r, LoadFits(s, r)
  PROVE  \/ /\ Begun(s) /\ cleanup[s] # None /\ Head(r) = CutTo(s) /\ Len(r) = 4
            /\ Tail(r) = <<Ask0("forget"), CutTo(s), Ask0("swept")>>
         \/ /\ Begun(s) /\ cleanup[s] # None /\ Head(r) = Ask0("forget") /\ Len(r) = 3
            /\ Tail(r) = <<CutTo(s), Ask0("swept")>>
         \/ /\ intent[s] = None /\ cleanup[s] # None /\ Head(r) = CutTo(s) /\ Len(r) = 2
            /\ Tail(r) = <<Ask0("swept")>>
         \/ /\ intent[s] = None /\ cleanup[s] # None /\ Exact(s)
            /\ Head(r) = Ask0("swept") /\ Len(r) = 1
         \/ /\ Begun(s) /\ cleanup[s] = None /\ Head(r) = CutTo(s) /\ Len(r) = 2
            /\ Tail(r) = <<Ask0("forget")>>
         \/ /\ Begun(s) /\ cleanup[s] = None /\ Exact(s)
            /\ Head(r) = Ask0("forget") /\ Len(r) = 1
<1>1. CASE r = <<CutTo(s), Ask0("forget"), CutTo(s), Ask0("swept")>>
           /\ Begun(s) /\ cleanup[s] # None
  BY <1>1
<1>2. CASE r = <<Ask0("forget"), CutTo(s), Ask0("swept")>> /\ Begun(s) /\ cleanup[s] # None
  BY <1>2
<1>3. CASE r = <<CutTo(s), Ask0("swept")>> /\ intent[s] = None /\ cleanup[s] # None
  BY <1>3
<1>4. CASE r = <<Ask0("swept")>> /\ intent[s] = None /\ cleanup[s] # None /\ Exact(s)
  BY <1>4
<1>5. CASE r = <<CutTo(s), Ask0("forget")>> /\ Begun(s) /\ cleanup[s] = None
  BY <1>5
<1>6. CASE r = <<Ask0("forget")>> /\ Begun(s) /\ cleanup[s] = None /\ Exact(s)
  BY <1>6
<1> QED BY <1>1, <1>2, <1>3, <1>4, <1>5, <1>6 DEF LoadFits

LEMMA LoadRequest ==
  ASSUME Types, NEW s \in Streams, SpoolInv(s), IsCapturing(s), NEW r, LoadFits(s, r),
         Perform(Head(r), s)
  PROVE  /\ OnlySpool(s) /\ taken' = taken /\ meta'[s] = meta[s]
         /\ SpoolInv(s)'
         /\ Len(r) # 1 => LoadFits(s, Tail(r))'
         /\ Len(r) = 1 => Clean(s)'
         /\ cleanup'[s] \in {cleanup[s], None}
         /\ intent'[s] = intent[s] \/ (Begun(s) /\ intent'[s] = None)
<1>1. CASE Head(r) = CutTo(s)
  <2>1. \/ Begun(s) /\ cleanup[s] # None /\ Tail(r) = <<Ask0("forget"), CutTo(s), Ask0("swept")>>
           /\ Len(r) = 4
        \/ intent[s] = None /\ cleanup[s] # None /\ Tail(r) = <<Ask0("swept")>> /\ Len(r) = 2
        \/ Begun(s) /\ cleanup[s] = None /\ Tail(r) = <<Ask0("forget")>> /\ Len(r) = 2
    BY <1>1, LoadForms, RequestsDiffer
  <2>2. Len(r) # 1
    BY <2>1
  <2>3. LoadFits(s, Tail(r))'
    BY <1>1, <2>1, CutKeeps, SameRequests DEF LoadFits
  <2> QED BY <1>1, <2>2, <2>3, CutKeeps
<1>2. CASE Head(r) = Ask0("forget")
  <2>1. \/ Begun(s) /\ cleanup[s] # None /\ Tail(r) = <<CutTo(s), Ask0("swept")>> /\ Len(r) = 3
        \/ Begun(s) /\ cleanup[s] = None /\ Exact(s) /\ Len(r) = 1
    BY <1>2, LoadForms, RequestsDiffer
  <2>2. /\ OnlySpool(s) /\ taken' = taken /\ meta'[s] = meta[s]
        /\ intent'[s] = None /\ cleanup'[s] = cleanup[s]
        /\ SpoolInv(s)' /\ CutTo(s)' = CutTo(s)
    BY <1>2, <2>1, ForgetKeeps
  <2>3. Len(r) # 1 => LoadFits(s, Tail(r))'
    BY <2>1, <2>2, SameRequests DEF LoadFits
  <2>4. Len(r) = 1 => Clean(s)'
    BY <2>1, <2>2 DEF Clean
  <2> QED BY <2>1, <2>2, <2>3, <2>4
<1>3. CASE Head(r) = Ask0("swept")
  <2>1. intent[s] = None /\ Exact(s) /\ Len(r) = 1
    BY <1>3, LoadForms, RequestsDiffer
  <2>2. /\ OnlySpool(s) /\ taken' = taken /\ meta'[s] = meta[s]
        /\ intent'[s] = intent[s] /\ cleanup'[s] = None /\ SpoolInv(s)'
    BY <1>3, <2>1, SweptKeeps
  <2> QED BY <2>1, <2>2 DEF Clean
<1> QED BY <1>1, <1>2, <1>3, LoadForms

LEMMA RestoreForms ==
  ASSUME NEW s \in Streams, NEW r, RestoreFits(s, r)
  PROVE  \/ /\ Unacknowledged(s) /\ Head(r) = Ask0("back") /\ Len(r) = 5
            /\ Tail(r) = <<CutBack(s), Ask0("swept"), CutBack(s), Ask0("forget")>>
         \/ /\ Begun(s) /\ cleanup[s] # None /\ Head(r) = CutTo(s) /\ Len(r) = 4
            /\ Tail(r) = <<Ask0("swept"), CutTo(s), Ask0("forget")>>
         \/ /\ Begun(s) /\ cleanup[s] # None /\ Exact(s) /\ Head(r) = Ask0("swept") /\ Len(r) = 3
            /\ Tail(r) = <<CutTo(s), Ask0("forget")>>
         \/ /\ Begun(s) /\ cleanup[s] = None /\ Head(r) = CutTo(s) /\ Len(r) = 2
            /\ Tail(r) = <<Ask0("forget")>>
         \/ /\ Begun(s) /\ cleanup[s] = None /\ Exact(s)
            /\ Head(r) = Ask0("forget") /\ Len(r) = 1
<1>1. CASE r = <<Ask0("back"), CutBack(s), Ask0("swept"), CutBack(s), Ask0("forget")>>
           /\ Unacknowledged(s)
  BY <1>1
<1>2. CASE r = <<CutTo(s), Ask0("swept"), CutTo(s), Ask0("forget")>>
           /\ Begun(s) /\ cleanup[s] # None
  BY <1>2
<1>3. CASE r = <<Ask0("swept"), CutTo(s), Ask0("forget")>>
           /\ Begun(s) /\ cleanup[s] # None /\ Exact(s)
  BY <1>3
<1>4. CASE r = <<CutTo(s), Ask0("forget")>> /\ Begun(s) /\ cleanup[s] = None
  BY <1>4
<1>5. CASE r = <<Ask0("forget")>> /\ Begun(s) /\ cleanup[s] = None /\ Exact(s)
  BY <1>5
<1> QED BY <1>1, <1>2, <1>3, <1>4, <1>5 DEF RestoreFits

LEMMA RestoreRequest ==
  ASSUME Types, NEW s \in Streams, SpoolInv(s), IsCapturing(s), NEW r, RestoreFits(s, r),
         Perform(Head(r), s)
  PROVE  /\ OnlySpool(s) /\ taken' = taken
         /\ SpoolInv(s)' /\ IsCapturing(s)'
         /\ Len(r) # 1 => RestoreFits(s, Tail(r))'
         /\ Len(r) = 1 => Clean(s)'
         /\ ~Clean(s)
         /\ intent'[s] # None => Begun(s)'
         /\ \/ Begun(s) /\ meta'[s] = meta[s]
            \/ Unacknowledged(s) /\ Begun(s)' /\ meta'[s].count = intent[s].from
<1>1. CASE Head(r) = CutTo(s)
  <2>1. \/ /\ Begun(s) /\ cleanup[s] # None /\ Len(r) = 4
           /\ Tail(r) = <<Ask0("swept"), CutTo(s), Ask0("forget")>>
        \/ /\ Begun(s) /\ cleanup[s] = None /\ Len(r) = 2
           /\ Tail(r) = <<Ask0("forget")>>
    BY <1>1, RestoreForms, RequestsDiffer
  <2>2. /\ OnlySpool(s) /\ taken' = taken /\ meta'[s] = meta[s]
        /\ intent'[s] = intent[s] /\ cleanup'[s] = cleanup[s]
        /\ SpoolInv(s)' /\ Exact(s)' /\ CutTo(s)' = CutTo(s) /\ Begun(s)' = Begun(s)
    BY <1>1, CutKeeps
  <2>3. Len(r) # 1 /\ RestoreFits(s, Tail(r))'
    <3>1. CASE /\ Begun(s) /\ cleanup[s] # None /\ Len(r) = 4
               /\ Tail(r) = <<Ask0("swept"), CutTo(s), Ask0("forget")>>
      BY <2>2, <3>1, SameRequests DEF RestoreFits
    <3>2. CASE /\ Begun(s) /\ cleanup[s] = None /\ Len(r) = 2
               /\ Tail(r) = <<Ask0("forget")>>
      BY <2>2, <3>2, SameRequests DEF RestoreFits
    <3> QED BY <2>1, <3>1, <3>2
  <2> QED BY <2>1, <2>2, <2>3 DEF Clean, Begun, IsCapturing
<1>2. CASE Head(r) = Ask0("forget")
  <2>1. Begun(s) /\ cleanup[s] = None /\ Exact(s) /\ Len(r) = 1
    BY <1>2, RestoreForms, RequestsDiffer
  <2>2. /\ OnlySpool(s) /\ taken' = taken /\ meta'[s] = meta[s]
        /\ intent'[s] = None /\ cleanup'[s] = cleanup[s] /\ SpoolInv(s)'
    BY <1>2, <2>1, ForgetKeeps
  <2> QED BY <2>1, <2>2 DEF Clean, Begun, IsCapturing
<1>3. CASE Head(r) = Ask0("swept")
  <2>1. Begun(s) /\ cleanup[s] # None /\ Exact(s) /\ Len(r) = 3
        /\ Tail(r) = <<CutTo(s), Ask0("forget")>>
    BY <1>3, RestoreForms, RequestsDiffer
  <2>2. /\ OnlySpool(s) /\ taken' = taken /\ meta'[s] = meta[s]
        /\ intent'[s] = intent[s] /\ cleanup'[s] = None /\ SpoolInv(s)'
        /\ Begun(s)' = Begun(s) /\ CutTo(s)' = CutTo(s)
    BY <1>3, <2>1, SweptKeeps
  <2>3. Len(r) # 1 /\ RestoreFits(s, Tail(r))'
    BY <2>1, <2>2, SameRequests DEF RestoreFits
  <2> QED BY <2>1, <2>2, <2>3 DEF Clean, Begun, IsCapturing
<1>4. CASE Head(r) = Ask0("back")
  <2>1. Unacknowledged(s) /\ Len(r) = 5
        /\ Tail(r) = <<CutBack(s), Ask0("swept"), CutBack(s), Ask0("forget")>>
    BY <1>4, RestoreForms, RequestsDiffer
  <2>2. StepBack(s) /\ intent[s] # None
    BY <1>4, <2>1, PerformIs DEF Unacknowledged, Committed
  <2>3. /\ OnlySpool(s) /\ taken' = taken
        /\ meta'[s] = Capturing(intent[s].from) /\ cleanup'[s] = Chunks * intent[s].from
        /\ stored'[s] = stored[s] /\ intent'[s] = intent[s]
    BY <2>2, BackEffect
  <2>4. intent[s].from \in Nat /\ Chunks * intent[s].from \in Nat
        /\ Chunks * (intent[s].from + 1) = Chunks * intent[s].from + Chunks
    BY <2>2, StreamTypes, ProductIsNat, CaptureAssumption
  <2>5. meta'[s].count = intent[s].from /\ meta'[s].state = "capturing" /\ meta'[s] # None
    BY <2>3, <2>4, NoneIsAbsent DEF Capturing, Metas, SpoolStates
  <2>6. Begun(s)' /\ Tailed(s)' = Chunks * intent[s].from /\ cleanup'[s] # None
    BY <2>2, <2>3, <2>4, <2>5, NoneIsAbsent DEF Begun, Tailed
  <2>7. Len(stored[s]) = Chunks * intent[s].from + Chunks
    BY <2>1, <2>4, StreamTypes DEF SpoolInv, Unacknowledged, Committed, Begun, Exact, Tailed
  <2>8. SpoolInv(s)'
    BY <2>3, <2>4, <2>5, <2>6, <2>7, CaptureAssumption DEF SpoolInv, IsCapturing, Clean
  <2>9. CutTo(s)' = CutBack(s)
    BY <2>6 DEF CutTo, CutBack, Request
  <2>10. RestoreFits(s, Tail(r))'
    BY <2>1, <2>6, <2>9, SameRequests DEF RestoreFits
  <2> QED BY <2>1, <2>2, <2>3, <2>5, <2>6, <2>8, <2>10 DEF Clean, IsCapturing
<1> QED BY <1>1, <1>2, <1>3, <1>4, RestoreForms

LEMMA ForgetRequest ==
  ASSUME Types, NEW s \in Streams, SpoolInv(s), IsCapturing(s), NEW r, ForgetFits(s, r),
         Perform(Head(r), s)
  PROVE  /\ OnlySpool(s) /\ taken' = taken /\ meta'[s] = meta[s]
         /\ SpoolInv(s)' /\ Len(r) = 1 /\ Clean(s)' /\ Committed(s)
<1>1. r = <<Ask0("forget")>> /\ Committed(s)
  BY DEF ForgetFits
<1>2. Head(r) = Ask0("forget") /\ Len(r) = 1
  BY <1>1
<1>3. cleanup[s] = None /\ Exact(s)
  BY <1>1, StreamTypes DEF SpoolInv, Committed, Begun
<1> QED BY <1>1, <1>2, <1>3, ForgetKeeps DEF Clean

LEMMA FinalForms ==
  ASSUME NEW s \in Streams, NEW r, NEW ask, FinalFits(s, r, ask)
  PROVE  /\ intent[s] = None
         /\ \/ /\ cleanup[s] # None /\ Head(r) = CutTo(s) /\ Len(r) = 3
               /\ Tail(r) = <<Ask0("swept"), Ask0(ask)>>
            \/ /\ cleanup[s] # None /\ Exact(s) /\ Head(r) = Ask0("swept") /\ Len(r) = 2
               /\ Tail(r) = <<Ask0(ask)>>
            \/ cleanup[s] = None /\ Head(r) = Ask0(ask) /\ Len(r) = 1
<1>1. CASE r = <<CutTo(s), Ask0("swept"), Ask0(ask)>> /\ cleanup[s] # None
  BY <1>1 DEF FinalFits
<1>2. CASE r = <<Ask0("swept"), Ask0(ask)>> /\ cleanup[s] # None /\ Exact(s)
  BY <1>2 DEF FinalFits
<1>3. CASE r = <<Ask0(ask)>> /\ cleanup[s] = None
  BY <1>3 DEF FinalFits
<1> QED BY <1>1, <1>2, <1>3 DEF FinalFits

LEMMA FinalRequest ==
  ASSUME Types, NEW s \in Streams, SpoolInv(s), meta[s] # None, meta[s].state # "deleting",
         NEW ask, NEW state,
         \/ ask = "seal" /\ state = "sealed" /\ meta[s].count > 0 /\ IsCapturing(s)
         \/ ask = "mark" /\ state = "deleting",
         NEW r, FinalFits(s, r, ask), Perform(Head(r), s)
  PROVE  /\ OnlySpool(s) /\ taken' = taken /\ SpoolInv(s)'
         /\ intent[s] = None /\ intent'[s] = None
         /\ Len(r) # 1 => FinalFits(s, Tail(r), ask)' /\ meta'[s] = meta[s] /\ ~Clean(s)
         /\ Len(r) = 1 => /\ Clean(s) /\ Clean(s)'
                          /\ meta'[s] = [state |-> state, count |-> meta[s].count]
<1>1. CASE Head(r) = CutTo(s)
  <2>1. cleanup[s] # None /\ Len(r) = 3 /\ Tail(r) = <<Ask0("swept"), Ask0(ask)>>
        /\ intent[s] = None
    BY <1>1, FinalForms, RequestsDiffer
  <2>2. IsCapturing(s)
    BY <2>1 DEF SpoolInv, Clean
  <2>3. /\ OnlySpool(s) /\ taken' = taken /\ meta'[s] = meta[s]
        /\ intent'[s] = intent[s] /\ cleanup'[s] = cleanup[s]
        /\ SpoolInv(s)' /\ Exact(s)'
    BY <1>1, <2>2, CutKeeps
  <2>4. FinalFits(s, Tail(r), ask)'
    BY <2>1, <2>3, SameRequests DEF FinalFits
  <2> QED BY <2>1, <2>3, <2>4 DEF Clean
<1>2. CASE Head(r) = Ask0("swept")
  <2>1. cleanup[s] # None /\ Exact(s) /\ Len(r) = 2 /\ Tail(r) = <<Ask0(ask)>>
        /\ intent[s] = None
    BY <1>2, FinalForms, RequestsDiffer
  <2>2. IsCapturing(s)
    BY <2>1 DEF SpoolInv, Clean
  <2>3. /\ OnlySpool(s) /\ taken' = taken /\ meta'[s] = meta[s]
        /\ intent'[s] = intent[s] /\ cleanup'[s] = None /\ SpoolInv(s)'
    BY <1>2, <2>1, <2>2, SweptKeeps
  <2>4. FinalFits(s, Tail(r), ask)'
    BY <2>1, <2>3, SameRequests DEF FinalFits
  <2> QED BY <2>1, <2>3, <2>4 DEF Clean
<1>3. CASE Head(r) = Ask0(ask)
  <2>1. cleanup[s] = None /\ Len(r) = 1 /\ intent[s] = None
    BY <1>3, FinalForms, RequestsDiffer
  <2>2. Turn(s, state) /\ state \in SpoolStates
    BY <1>3, PerformIs DEF SpoolStates
  <2>3. /\ OnlySpool(s) /\ taken' = taken
        /\ meta'[s] = [state |-> state, count |-> meta[s].count]
        /\ stored'[s] = stored[s] /\ intent'[s] = intent[s] /\ cleanup'[s] = cleanup[s]
    BY <2>2, TurnEffect
  <2>4. meta'[s].state = state /\ meta'[s].count = meta[s].count /\ Exact(s)' = Exact(s)
    BY <2>3 DEF Exact, Tailed
  <2>5. state # "capturing" /\ Clean(s)' /\ (state = "sealed" => Exact(s) /\ meta[s].count > 0)
    BY <2>1, <2>3 DEF SpoolInv, Clean
  <2>6. SpoolInv(s)'
    BY <2>4, <2>5 DEF SpoolInv, IsCapturing
  <2> QED BY <2>1, <2>3, <2>6 DEF Clean
<1> QED BY <1>1, <1>2, <1>3, FinalForms

\* The requests of an append, one by one.
LEMMA AppendPlanIs ==
  ASSUME NEW s \in Streams
  PROVE  /\ \E S : AppendPlan(s) \in Seq(S)
         /\ Len(AppendPlan(s)) = Chunks + 2
         /\ AppendPlan(s)[1] = Ask0("journal")
         /\ \A i \in 1..Chunks : AppendPlan(s)[i + 1] = Request("write", Tailed(s) + i)
         /\ AppendPlan(s)[Chunks + 2] = Ask0("commit")
<1> DEFINE W == [i \in 1..Chunks |-> Request("write", Tailed(s) + i)]
           J == <<Ask0("journal")>>
           C == <<Ask0("commit")>>
           S == {Request("write", Tailed(s) + i) : i \in 1..Chunks}
                  \cup {Ask0("journal"), Ask0("commit")}
<1>1. Chunks \in Nat
  BY CaptureAssumption
<1>2. W \in [1..Chunks -> S]
  OBVIOUS
<1>3. W \in Seq(S)
  BY <1>1, <1>2, SeqDef
<1>4. J \in Seq(S) /\ C \in Seq(S) /\ Len(J) = 1 /\ Len(C) = 1
      /\ J[1] = Ask0("journal") /\ C[1] = Ask0("commit")
  OBVIOUS
<1>5. Len(W) = Chunks /\ \A i \in 1..Chunks : W[i] = Request("write", Tailed(s) + i)
  <2>1. DOMAIN W = 1..Chunks
    OBVIOUS
  <2> QED BY <1>1, <1>3, <2>1, LenProperties
<1>6. AppendPlan(s) = J \o W \o C
  BY DEF AppendPlan, Ask0
<1> HIDE DEF W, J, C, S
<1>7. /\ J \o W \in Seq(S) /\ Len(J \o W) = Chunks + 1
      /\ (J \o W)[1] = Ask0("journal")
      /\ \A i \in 1..Chunks : (J \o W)[i + 1] = Request("write", Tailed(s) + i)
  <2>1. /\ J \o W \in Seq(S) /\ Len(J \o W) = 1 + Chunks
        /\ \A i \in 1..(1 + Chunks) : (J \o W)[i] = IF i <= 1 THEN J[i] ELSE W[i - 1]
    <3>1. /\ J \o W \in Seq(S) /\ Len(J \o W) = Len(J) + Len(W)
          /\ \A i \in 1..(Len(J) + Len(W)) :
               (J \o W)[i] = IF i <= Len(J) THEN J[i] ELSE W[i - Len(J)]
      BY <1>3, <1>4, ConcatProperties
    <3> QED BY <1>4, <1>5, <3>1
  <2>2. \A i \in 1..Chunks : i + 1 \in 1..(1 + Chunks) /\ ~(i + 1 <= 1) /\ (i + 1) - 1 = i
    BY <1>1
  <2>3. \A i \in 1..Chunks : (J \o W)[i + 1] = W[i]
    BY <2>1, <2>2
  <2>4. (J \o W)[1] = J[1]
    BY <1>1, <2>1
  <2> QED BY <1>1, <1>4, <1>5, <2>1, <2>3, <2>4
<1>8. J \o W \o C \in Seq(S) /\ Len(J \o W \o C) = Chunks + 2
  BY <1>1, <1>4, <1>7, ConcatProperties
<1>9. \A i \in 1..(Chunks + 1) : (J \o W \o C)[i] = (J \o W)[i]
  BY <1>1, <1>4, <1>7, ConcatProperties
<1>10. (J \o W \o C)[Chunks + 2] = Ask0("commit")
  BY <1>1, <1>4, <1>7, ConcatProperties
<1> QED BY <1>1, <1>6, <1>7, <1>8, <1>9, <1>10

LEMMA PlanSuffix ==
  ASSUME NEW s \in Streams, NEW k \in 0..(Chunks + 1)
  PROVE  /\ Head(SubSeq(AppendPlan(s), k + 1, Chunks + 2)) = AppendPlan(s)[k + 1]
         /\ Len(SubSeq(AppendPlan(s), k + 1, Chunks + 2)) = (Chunks + 2) - k
         /\ Tail(SubSeq(AppendPlan(s), k + 1, Chunks + 2))
              = SubSeq(AppendPlan(s), (k + 1) + 1, Chunks + 2)
<1> DEFINE plan == AppendPlan(s)
           n == Chunks + 2
<1>1. PICK S : plan \in Seq(S)
  BY AppendPlanIs
<1>2. Len(plan) = n /\ n \in Nat /\ k + 1 \in Int
      /\ k + 1 \in 1..Len(plan) /\ n \in (k + 1)..Len(plan)
  BY AppendPlanIs, CaptureAssumption
<1> HIDE DEF plan, n
<1>3. /\ Head(SubSeq(plan, k + 1, n)) = plan[k + 1]
      /\ Tail(SubSeq(plan, k + 1, n)) = SubSeq(plan, (k + 1) + 1, n)
  BY <1>1, <1>2, HeadTailOfSubSeq
<1>4. \A i \in (k + 1)..n : plan[i] \in S
  BY <1>1, <1>2, ElementOfSeq
<1>5. Len(SubSeq(plan, k + 1, n)) = IF k + 1 <= n THEN n - (k + 1) + 1 ELSE 0
  BY <1>2, <1>4, SubSeqProperties
<1>6. Len(SubSeq(plan, k + 1, n)) = n - k
  BY <1>2, <1>5
<1> QED BY <1>3, <1>6 DEF plan, n

LEMMA AppendForms ==
  ASSUME NEW s \in Streams, NEW r, AppendFits(s, r)
  PROVE  /\ cleanup[s] = None
         /\ \/ /\ intent[s] = None /\ Head(r) = Ask0("journal") /\ Len(r) # 1
               /\ Tail(r) = SubSeq(AppendPlan(s), 2, Chunks + 2)
            \/ \E k \in 1..Chunks :
               /\ Begun(s) /\ Len(stored[s]) = Tailed(s) + (k - 1)
               /\ Head(r) = Request("write", Tailed(s) + k) /\ Len(r) # 1
               /\ Tail(r) = SubSeq(AppendPlan(s), (k + 1) + 1, Chunks + 2)
            \/ /\ Begun(s) /\ Len(stored[s]) = Tailed(s) + Chunks
               /\ Head(r) = Ask0("commit") /\ Len(r) = 1
<1>1. PICK k \in 0..(Chunks + 1) :
        /\ r = SubSeq(AppendPlan(s), k + 1, Chunks + 2)
        /\ k = 0 => intent[s] = None
        /\ k > 0 => Begun(s) /\ Len(stored[s]) = Tailed(s) + (k - 1)
  BY DEF AppendFits
<1>2. /\ Head(r) = AppendPlan(s)[k + 1]
      /\ Len(r) = (Chunks + 2) - k
      /\ Tail(r) = SubSeq(AppendPlan(s), (k + 1) + 1, Chunks + 2)
  BY <1>1, PlanSuffix
<1>3. cleanup[s] = None /\ Chunks \in Nat \ {0}
  BY CaptureAssumption DEF AppendFits
<1>4. CASE k = 0
  <2>1. k + 1 = 1 /\ (k + 1) + 1 = 2 /\ Len(r) # 1
    BY <1>2, <1>3, <1>4
  <2>2. Head(r) = Ask0("journal") /\ Tail(r) = SubSeq(AppendPlan(s), 2, Chunks + 2)
    BY <1>2, <2>1, AppendPlanIs
  <2> QED BY <1>1, <1>3, <1>4, <2>1, <2>2
<1>5. CASE k \in 1..Chunks
  <2>1. k > 0 /\ Len(r) # 1
    BY <1>2, <1>3, <1>5
  <2>2. Head(r) = Request("write", Tailed(s) + k)
    BY <1>2, <1>5, AppendPlanIs
  <2> QED BY <1>1, <1>2, <1>3, <1>5, <2>1, <2>2
<1>6. CASE k = Chunks + 1
  <2>1. k > 0 /\ Len(r) = 1 /\ k - 1 = Chunks /\ k + 1 = Chunks + 2
    BY <1>2, <1>3, <1>6
  <2> QED BY <1>1, <1>2, <1>3, <2>1, AppendPlanIs
<1> QED BY <1>3, <1>4, <1>5, <1>6

LEMMA SamePlan ==
  ASSUME NEW s \in Streams, Tailed(s)' = Tailed(s)
  PROVE  AppendPlan(s)' = AppendPlan(s)
BY DEF AppendPlan, Request

LEMMA AppendRequest ==
  ASSUME Types, NEW s \in Streams, SpoolInv(s), IsCapturing(s), NEW r, AppendFits(s, r),
         Perform(Head(r), s)
  PROVE  /\ OnlySpool(s) /\ SpoolInv(s)' /\ IsCapturing(s)' /\ cleanup'[s] = None
         /\ intent'[s] # None
         /\ Len(r) # 1 => /\ AppendFits(s, Tail(r))' /\ meta'[s] = meta[s] /\ Begun(s)'
                          /\ intent[s] = None \/ Begun(s)
         /\ Len(r) = 1 => /\ Begun(s) /\ Committed(s)' /\ intent'[s] = intent[s]
                          /\ meta'[s].count = meta[s].count + 1
<1>1. /\ meta[s] # None /\ meta[s] \in Metas /\ meta[s].count \in Nat /\ Tailed(s) \in Nat
      /\ Len(stored[s]) \in Nat /\ Chunks \in Nat /\ cleanup[s] = None
  BY SpoolNumbers, CaptureAssumption, AppendForms DEF IsCapturing
<1>2. CASE Head(r) = Ask0("journal")
  <2>1. intent[s] = None /\ Len(r) # 1 /\ Tail(r) = SubSeq(AppendPlan(s), 2, Chunks + 2)
    <3>1. Head(r).ask = "journal"
      BY <1>2, RequestsDiffer
    <3>2. \A k \in 1..Chunks : Head(r) # Request("write", Tailed(s) + k)
      BY <3>1, RequestsDiffer
    <3>3. Head(r) # Ask0("commit")
      BY <3>1, RequestsDiffer
    <3> QED BY <3>2, <3>3, AppendForms
  <2>2. Journal(s)
    BY <1>2, PerformIs
  <2>3. /\ OnlySpool(s)
        /\ intent'[s] = [from |-> meta[s].count, packet |-> taken + 1]
        /\ meta'[s] = meta[s] /\ stored'[s] = stored[s] /\ cleanup'[s] = cleanup[s]
    BY <1>1, <2>2, JournalEffect
  <2>4. intent'[s] # None /\ intent'[s].from = meta[s].count
    <3>1. [from |-> meta[s].count, packet |-> taken + 1] \in Intents
      BY <1>1 DEF Types, Intents
    <3> QED BY <2>3, <3>1, NoneIsAbsent
  <2>5. Begun(s)' /\ Tailed(s)' = Tailed(s) /\ Exact(s)
    BY <1>1, <2>1, <2>3, <2>4 DEF Begun, Tailed, SpoolInv, Clean
  <2>6. AppendPlan(s)' = AppendPlan(s)
    BY <2>5, SamePlan
  <2>7. Len(stored'[s]) = Tailed(s)' + (1 - 1) /\ 1 \in 0..(Chunks + 1)
    BY <1>1, <2>3, <2>5 DEF Exact
  <2>8. AppendFits(s, Tail(r))'
    BY <1>1, <2>1, <2>3, <2>5, <2>6, <2>7 DEF AppendFits
  <2>9. SpoolInv(s)'
    BY <1>1, <2>3, <2>4, <2>5 DEF SpoolInv, IsCapturing, Clean, Exact
  <2> QED BY <1>1, <2>1, <2>3, <2>4, <2>5, <2>8, <2>9 DEF IsCapturing
<1>3. ASSUME NEW k \in 1..Chunks, Begun(s), Len(stored[s]) = Tailed(s) + (k - 1),
             Head(r) = Request("write", Tailed(s) + k), Len(r) # 1,
             Tail(r) = SubSeq(AppendPlan(s), (k + 1) + 1, Chunks + 2)
      PROVE  /\ OnlySpool(s) /\ SpoolInv(s)' /\ IsCapturing(s)' /\ cleanup'[s] = None
             /\ intent'[s] # None
             /\ AppendFits(s, Tail(r))' /\ meta'[s] = meta[s] /\ Begun(s)'
  <2>1. Tailed(s) + k = Len(stored[s]) + 1 /\ intent[s] # None
    BY <1>1, <1>3 DEF Begun
  <2>2. WriteChunk(s, Len(stored[s]) + 1)
    BY <1>3, <2>1, PerformIs
  <2>3. /\ OnlySpool(s)
        /\ meta'[s] = meta[s] /\ intent'[s] = intent[s] /\ cleanup'[s] = cleanup[s]
        /\ Len(stored'[s]) = Len(stored[s]) + 1
    BY <2>1, <2>2, WriteEffect
  <2>4. Begun(s)' /\ Tailed(s)' = Tailed(s)
    BY <1>3, <2>3 DEF Begun, Tailed
  <2>5. AppendPlan(s)' = AppendPlan(s)
    BY <2>4, SamePlan
  <2>6. k + 1 \in 0..(Chunks + 1) /\ k + 1 > 0 /\ k + 1 # 0
        /\ Len(stored'[s]) = Tailed(s)' + ((k + 1) - 1)
    BY <1>1, <1>3, <2>3, <2>4
  <2>7. AppendFits(s, Tail(r))'
    BY <1>1, <1>3, <2>3, <2>4, <2>5, <2>6 DEF AppendFits
  <2>8. SpoolInv(s)'
    BY <1>1, <1>3, <2>1, <2>3, <2>4 DEF SpoolInv, IsCapturing, Clean
  <2> QED BY <1>1, <2>1, <2>3, <2>4, <2>7, <2>8 DEF IsCapturing
<1>4. CASE Head(r) = Ask0("commit")
  <2>1. Begun(s) /\ Len(stored[s]) = Tailed(s) + Chunks /\ Len(r) = 1
    BY <1>4, AppendForms, RequestsDiffer
  <2>2. Commit(s) /\ intent[s] # None
    BY <1>4, <2>1, PerformIs DEF Begun
  <2>3. /\ OnlySpool(s)
        /\ meta'[s] = Capturing(intent[s].from + 1)
        /\ stored'[s] = stored[s] /\ intent'[s] = intent[s] /\ cleanup'[s] = cleanup[s]
    BY <2>2, CommitEffect
  <2>4. intent[s].from = meta[s].count /\ Capturing(intent[s].from + 1) \in Metas
    BY <1>1, <2>1 DEF Begun, Capturing, Metas, SpoolStates
  <2>5. meta'[s] # None /\ meta'[s].state = "capturing" /\ meta'[s].count = meta[s].count + 1
    BY <2>3, <2>4, NoneIsAbsent DEF Capturing
  <2>6. Tailed(s)' = Tailed(s) + Chunks
    BY <1>1, <2>5 DEF Tailed
  <2>7. Committed(s)' /\ Exact(s)' /\ intent'[s] # None
    BY <1>1, <2>1, <2>2, <2>3, <2>4, <2>5, <2>6 DEF Committed, Exact
  <2>8. SpoolInv(s)'
    BY <1>1, <2>1, <2>3, <2>5, <2>6, <2>7 DEF SpoolInv, IsCapturing, Clean, Exact
  <2> QED BY <1>1, <2>1, <2>3, <2>5, <2>7, <2>8 DEF IsCapturing
<1>5. \/ Head(r) = Ask0("journal") \/ Head(r) = Ask0("commit")
      \/ \E k \in 1..Chunks :
               /\ Begun(s) /\ Len(stored[s]) = Tailed(s) + (k - 1)
               /\ Head(r) = Request("write", Tailed(s) + k) /\ Len(r) # 1
               /\ Tail(r) = SubSeq(AppendPlan(s), (k + 1) + 1, Chunks + 2)
  BY AppendForms
<1> QED BY <1>2, <1>3, <1>4, <1>5

(***************************************************************************)
(* What the steps of a program rely on.  A fact about stream s holds for a *)
(* tab now, or an earlier step of its program gives it and no step between *)
(* loses it.                                                               *)
(***************************************************************************)
FactNames == {"clean", "installed", "settled", "live", "knows", "owns", "kept",
              "capturing", "sealed", "discarded", "away"}

Installed(t, s) ==
  /\ Clean(s)
  /\ \/ spools[t][s] = meta[s]
     \/ meta[s] = None /\ spools[t][s] # None /\ spools[t][s].state = "deleting"

Owns(t, states) == own[t] # None /\ own[t].state \in states

Holds(t, f, s) ==
  \/ f = "clean" /\ sessionLock = t /\ Clean(s)
  \/ f = "installed" /\ sessionLock = t /\ Installed(t, s)
  \/ f = "settled" /\ sessionLock = t /\ Settled(s)
  \/ f = "live" /\ t = Recorder /\ synced[t] /\ recording # None /\ s \in recording
  \/ f = "knows" /\ sessionLock = t /\ own[t] = manifest
  \/ f = "owns" /\ own[t] # None
  \/ f = "kept" /\ Owns(t, {"capturing", "sealed"})
  \/ f = "capturing" /\ Owns(t, {"capturing"})
  \/ f = "sealed" /\ Owns(t, {"sealed", "discarded"})
  \/ f = "discarded" /\ Owns(t, {"discarded"})
  \/ f = "away" /\ (t # Recorder \/ recording = None \/ own[t] = None)

Needs(step, f, s) ==
  \/ f = "owns" /\ step.do = "enter"
  \/ f = "clean" /\ step.do = "install"
  \/ f = "installed" /\ step.do \in {"seal", "mark"} /\ step.on = s
  \/ f = "settled" /\ step.do = "sealed"
  \/ f = "kept" /\ step.do \in {"seal", "sealed"}
  \/ f = "sealed" /\ step.do = "discarded"
  \/ f = "discarded" /\ step.do \in {"mark", "erase", "drop", "remove"}
  \/ f = "capturing" /\ step.do \in CaptureSteps
  \/ f = "live" /\ step.do = "append" /\ step.on = s
  \/ f = "away" /\ step.do \in {"leave", "adopt", "retire"}
  \/ f = "knows" /\ \/ step.do \in {"seal", "sealed", "discarded",
                                    "mark", "erase", "drop", "remove"}
                    \/ step.do \in CaptureSteps \ {"recheck"}

Gives(step, f, s) ==
  \/ f = "knows" /\ step.do = "enter"
  \/ f = "clean" /\ step.do \in {"load", "match", "rollback"} /\ step.on = s
  \/ f = "installed" /\ step.do = "install"
  \/ f = "settled" /\ step.do = "seal" /\ step.on = s
  \/ f = "sealed" /\ step.do = "sealed"
  \/ f = "discarded" /\ step.do = "discarded"

Loses(step, f) ==
  \/ f = "capturing" /\ step.do \in {"sealed", "discarded"}
  \/ f = "kept" /\ step.do = "discarded"
  \/ f \in {"clean", "installed", "settled"} /\ step.do \in CaptureSteps

\* After the first n steps of program p, begun with the facts A.
Comes(A, p, n, f, s) ==
  \/ <<f, s>> \in A /\ \A k \in 1..n : ~Loses(p[k], f)
  \/ \E i \in 1..n : Gives(p[i], f, s) /\ \A k \in (i + 1)..n : ~Loses(p[k], f)

\* Every step of program p finds what it needs.
Carries(A, p) == \A j \in 1..Len(p), f \in FactNames, s \in Streams :
  Needs(p[j], f, s) => Comes(A, p, j - 1, f, s)

Held(t) == {x \in FactNames \X Streams : Holds(t, x[1], x[2])}
Ready(t) == Carries(Held(t), program[t])

(***************************************************************************)
(* What a step finds of its stream when it comes to it.                    *)
(***************************************************************************)
Loose(s) == Begun(s) \/ cleanup[s] # None

Counted(s) == meta[s] # None /\ manifest # None /\ manifest.count[s] = meta[s].count

Finds(t, s) ==
  /\ At(t, {"match"}) => meta[s] # None /\ ~Loose(s)
  /\ At(t, {"rollback", "repair"}) => IsCapturing(s) /\ Unacknowledged(s)
  /\ At(t, {"publish"}) => IsCapturing(s) /\ Unacknowledged(s) /\ spools[t][s] = meta[s]
  /\ At(t, {"acknowledge", "reacknowledge"}) => Counted(s) /\ ~Loose(s) /\ meta[s].count > 0
  /\ At(t, {"acknowledge"}) => spools[t][s] = meta[s]
  /\ At(t, {"recheck"}) =>
       /\ meta[s] # None /\ ~Loose(s) /\ spools[t][s] = meta[s] /\ meta[s].count > 0
       /\ manifest # None /\ manifest.state = "capturing"
  /\ At(t, {"erase", "drop"}) =>
       /\ spools[t][s] # None /\ spools[t][s].state = "deleting" /\ Clean(s)
       /\ meta[s] = None \/ meta[s] = spools[t][s]

\* What it may still ask of the storage.
Fits(t, s, r) ==
  /\ meta[s] # None
  /\ At(t, {"load", "list"}) => IsCapturing(s) /\ LoadFits(s, r)
  /\ At(t, {"rollback", "repair"}) => IsCapturing(s) /\ RestoreFits(s, r)
  /\ At(t, {"match", "acknowledge", "reacknowledge"}) => IsCapturing(s) /\ ForgetFits(s, r)
  /\ At(t, {"acknowledge", "reacknowledge"}) => meta[s].count > 0
  /\ At(t, {"acknowledge"}) => spools[t][s] = meta[s]
  /\ At(t, {"append"}) => IsCapturing(s) /\ AppendFits(s, r)
  /\ At(t, {"seal"}) => IsCapturing(s) /\ meta[s].count > 0 /\ FinalFits(s, r, "seal")
  /\ At(t, {"mark"}) => meta[s].state # "deleting" /\ FinalFits(s, r, "mark")

Placed(t) == program[t] # <<>> =>
  IF requests[t] = <<>> THEN Finds(t, On(t)) ELSE Fits(t, On(t), requests[t])

(***************************************************************************)
(* The recorder goes on appending to the streams that are left to it, and  *)
(* the append does not look for a cleanup.                                 *)
(***************************************************************************)
Busy(s) ==
  /\ sessionLock = Recorder /\ At(Recorder, CaptureSteps) /\ On(Recorder) = s
  /\ At(Recorder, {"append"}) => requests[Recorder] # <<>>

LiveInv ==
  /\ recording # None /\ synced[Recorder] => \A s \in recording : Clean(s) \/ Busy(s)
  /\ recording # None /\ own[Recorder] = None => manifest = None

SpoolsInv ==
  /\ Types /\ Discipline
  /\ \A s \in Streams : SpoolInv(s) /\ Agrees(s)
  /\ sessionLock # None => manifest # None
  /\ LiveInv
  /\ \A t \in Tabs : Ready(t) /\ Placed(t)
  /\ ~refused

(***************************************************************************)
(* A program p, begun with the facts A, finds what it needs and ends with  *)
(* the facts B.                                                            *)
(***************************************************************************)
Leads(A, p, B) ==
  /\ Carries(A, p)
  /\ \A f \in FactNames, s \in Streams : <<f, s>> \in B => Comes(A, p, Len(p), f, s)

LEMMA CarriesHead ==
  ASSUME NEW S, NEW p \in Seq(S), p # <<>>, NEW A, Carries(A, p),
         NEW f \in FactNames, NEW s \in Streams, Needs(Head(p), f, s)
  PROVE  <<f, s>> \in A
<1>1. 1 \in 1..Len(p) /\ Head(p) = p[1]
  BY HeadTailProperties, LenProperties, EmptySeq
<1>2. Comes(A, p, 1 - 1, f, s)
  BY <1>1 DEF Carries
<1> QED BY <1>2 DEF Comes

LEMMA CarriesMore ==
  ASSUME NEW S, NEW p \in Seq(S), p # <<>>, NEW A, NEW B, Carries(A, p),
         \A f \in FactNames, s \in Streams : <<f, s>> \in A =>
           <<f, s>> \in B \/ (Loses(Head(p), f) /\ ~Needs(Head(p), f, s))
  PROVE  Carries(B, p)
<1>1. Len(p) \in Nat /\ Head(p) = p[1]
  BY LenProperties
<1> SUFFICES ASSUME NEW j \in 1..Len(p), NEW f \in FactNames, NEW s \in Streams,
                    Needs(p[j], f, s)
             PROVE  Comes(B, p, j - 1, f, s)
  BY DEF Carries
<1>2. Comes(A, p, j - 1, f, s)
  BY DEF Carries
<1>3. ASSUME <<f, s>> \in A, \A k \in 1..(j - 1) : ~Loses(p[k], f)
      PROVE  <<f, s>> \in B
  <2>1. CASE j = 1
    BY <1>1, <1>3, <2>1
  <2>2. CASE j # 1
    <3>1. 1 \in 1..(j - 1)
      BY <1>1, <2>2
    <3> QED BY <1>1, <1>3, <3>1
  <2> QED BY <2>1, <2>2
<1> QED BY <1>2, <1>3 DEF Comes

LEMMA CarriesTail ==
  ASSUME NEW S, NEW p \in Seq(S), p # <<>>, NEW A, NEW B, Carries(A, p),
         \A f \in FactNames, s \in Streams :
           (<<f, s>> \in A /\ ~Loses(Head(p), f)) \/ Gives(Head(p), f, s) => <<f, s>> \in B
  PROVE  Carries(B, Tail(p))
<1>1. /\ Len(p) \in Nat /\ Head(p) = p[1] /\ Len(Tail(p)) = Len(p) - 1
      /\ \A i \in 1..(Len(p) - 1) : Tail(p)[i] = p[i + 1]
  BY HeadTailProperties, LenProperties
<1> SUFFICES ASSUME NEW j \in 1..(Len(p) - 1), NEW f \in FactNames, NEW s \in Streams,
                    Needs(p[j + 1], f, s)
             PROVE  Comes(B, Tail(p), j - 1, f, s)
  BY <1>1 DEF Carries
<1>2. j \in Nat /\ (j + 1) - 1 = j /\ j + 1 \in 1..Len(p)
  BY <1>1
<1>3. Comes(A, p, j, f, s)
  BY <1>2 DEF Carries
<1>4. \A i \in 1..(j - 1) : Tail(p)[i] = p[i + 1]
  BY <1>1
<1>5. CASE <<f, s>> \in A /\ \A k \in 1..j : ~Loses(p[k], f)
  <2>1. <<f, s>> \in B
    BY <1>1, <1>2, <1>5
  <2>2. \A k \in 1..(j - 1) : ~Loses(Tail(p)[k], f)
    BY <1>2, <1>4, <1>5
  <2> QED BY <2>1, <2>2 DEF Comes
<1>6. ASSUME NEW i \in 1..j, Gives(p[i], f, s), \A k \in (i + 1)..j : ~Loses(p[k], f)
      PROVE  Comes(B, Tail(p), j - 1, f, s)
  <2>1. CASE i = 1
    <3>1. <<f, s>> \in B
      BY <1>1, <1>6, <2>1
    <3>2. \A k \in 1..(j - 1) : ~Loses(Tail(p)[k], f)
      BY <1>2, <1>4, <1>6, <2>1
    <3> QED BY <3>1, <3>2 DEF Comes
  <2>2. CASE i # 1
    <3>1. i - 1 \in 1..(j - 1) /\ Gives(Tail(p)[i - 1], f, s)
      BY <1>2, <1>4, <1>6, <2>2
    <3>2. \A k \in ((i - 1) + 1)..(j - 1) : ~Loses(Tail(p)[k], f)
      BY <1>2, <1>4, <1>6
    <3> QED BY <3>1, <3>2 DEF Comes
  <2> QED BY <2>1, <2>2
<1> QED BY <1>3, <1>5, <1>6 DEF Comes

LEMMA ComesOver ==
  ASSUME NEW S, NEW p \in Seq(S), NEW q \in Seq(S), NEW A, NEW B, NEW n \in 0..Len(q),
         NEW f \in FactNames, NEW s \in Streams,
         <<f, s>> \in B => Comes(A, p, Len(p), f, s), Comes(B, q, n, f, s)
  PROVE  Comes(A, p \o q, Len(p) + n, f, s)
<1> DEFINE m == Len(p)
           r == p \o q
<1>1. m \in Nat /\ n \in Nat
  <2>1. Len(q) \in Nat /\ Len(p) \in Nat
    BY LenProperties
  <2> QED BY <2>1
<1>2. /\ \A k \in 1..m : r[k] = p[k]
      /\ \A k \in 1..n : r[m + k] = q[k]
  <2>1. \A k \in 1..(m + Len(q)) : r[k] = IF k <= m THEN p[k] ELSE q[k - m]
    BY ConcatProperties
  <2>2. Len(q) \in Nat /\ n <= Len(q)
    <3>1. Len(q) \in Nat
      BY LenProperties
    <3> HIDE DEF r, m
    <3> QED BY <3>1
  <2> HIDE DEF r, m
  <2>3. ASSUME NEW k \in 1..m PROVE r[k] = p[k]
    <3>1. k \in 1..(m + Len(q)) /\ k <= m
      BY <1>1, <2>2
    <3> QED BY <2>1, <3>1
  <2>4. ASSUME NEW k \in 1..n PROVE r[m + k] = q[k]
    <3>1. m + k \in 1..(m + Len(q)) /\ ~(m + k <= m) /\ (m + k) - m = k
      BY <1>1, <2>2
    <3> QED BY <2>1, <3>1
  <2> QED BY <2>3, <2>4
<1> HIDE DEF m, r
<1>3. \A k \in (m + 1)..(m + n) : k - m \in 1..n /\ r[k] = q[k - m]
  <2> SUFFICES ASSUME NEW k \in (m + 1)..(m + n)
               PROVE  k - m \in 1..n /\ r[k] = q[k - m]
    OBVIOUS
  <2>1. k - m \in 1..n /\ m + (k - m) = k
    BY <1>1
  <2> QED BY <1>2, <2>1
<1>4. ASSUME NEW i \in 1..n, Gives(q[i], f, s), \A k \in (i + 1)..n : ~Loses(q[k], f)
      PROVE  Comes(A, r, m + n, f, s)
  <2>1. m + i \in 1..(m + n) /\ Gives(r[m + i], f, s)
    BY <1>1, <1>2, <1>4
  <2>2. ASSUME NEW k \in ((m + i) + 1)..(m + n) PROVE ~Loses(r[k], f)
    <3>1. k \in (m + 1)..(m + n) /\ k - m \in (i + 1)..n
      BY <1>1
    <3> QED BY <1>3, <1>4, <3>1
  <2> QED BY <2>1, <2>2 DEF Comes
<1>5. ASSUME <<f, s>> \in B, \A k \in 1..n : ~Loses(q[k], f)
      PROVE  Comes(A, r, m + n, f, s)
  <2>1. Comes(A, p, m, f, s)
    BY <1>5 DEF m
  <2>2. \A k \in (m + 1)..(m + n) : ~Loses(r[k], f)
    BY <1>3, <1>5
  <2>3. CASE <<f, s>> \in A /\ \A k \in 1..m : ~Loses(p[k], f)
    <3>1. \A k \in 1..(m + n) : k \in 1..m \/ k \in (m + 1)..(m + n)
      BY <1>1
    <3>2. \A k \in 1..(m + n) : ~Loses(r[k], f)
      BY <1>2, <2>2, <2>3, <3>1
    <3> QED BY <2>3, <3>2 DEF Comes
  <2>4. ASSUME NEW i \in 1..m, Gives(p[i], f, s), \A k \in (i + 1)..m : ~Loses(p[k], f)
        PROVE  Comes(A, r, m + n, f, s)
    <3>1. i \in 1..(m + n) /\ Gives(r[i], f, s)
      BY <1>1, <1>2, <2>4
    <3>2. \A k \in (i + 1)..(m + n) : (k \in (i + 1)..m /\ k \in 1..m) \/ k \in (m + 1)..(m + n)
      BY <1>1
    <3>3. \A k \in (i + 1)..(m + n) : ~Loses(r[k], f)
      BY <1>2, <2>2, <2>4, <3>2
    <3> QED BY <3>1, <3>3 DEF Comes
  <2> QED BY <2>1, <2>3, <2>4 DEF Comes
<1>6. Comes(A, r, m + n, f, s)
  BY <1>4, <1>5 DEF Comes
<1> QED BY <1>6 DEF m, r

LEMMA ComesUnder ==
  ASSUME NEW p, NEW r, NEW A, NEW n \in Nat, \A k \in 1..n : r[k] = p[k],
         NEW f \in FactNames, NEW s \in Streams, Comes(A, p, n, f, s)
  PROVE  Comes(A, r, n, f, s)
<1>1. CASE <<f, s>> \in A /\ \A k \in 1..n : ~Loses(p[k], f)
  BY <1>1 DEF Comes
<1>2. ASSUME NEW i \in 1..n, Gives(p[i], f, s), \A k \in (i + 1)..n : ~Loses(p[k], f)
      PROVE  Comes(A, r, n, f, s)
  <2>1. \A k \in (i + 1)..n : k \in 1..n
    OBVIOUS
  <2>2. Gives(r[i], f, s) /\ \A k \in (i + 1)..n : ~Loses(r[k], f)
    BY <1>2, <2>1
  <2> QED BY <2>2 DEF Comes
<1> QED BY <1>1, <1>2 DEF Comes

LEMMA LeadsOn ==
  ASSUME NEW S, NEW p \in Seq(S), NEW q \in Seq(S), NEW A, NEW B, NEW C,
         Leads(A, p, B), Leads(B, q, C)
  PROVE  p \o q \in Seq(S) /\ Leads(A, p \o q, C)
<1> DEFINE m == Len(p)
           r == p \o q
<1>1. m \in Nat /\ Len(q) \in Nat /\ Len(r) = m + Len(q) /\ r \in Seq(S)
  BY LenProperties, ConcatProperties
<1>2. \A k \in 1..(m + Len(q)) : r[k] = IF k <= m THEN p[k] ELSE q[k - m]
  BY ConcatProperties
<1>3. ASSUME NEW f \in FactNames, NEW s \in Streams, <<f, s>> \in B
      PROVE  Comes(A, p, m, f, s)
  BY <1>3 DEF Leads
<1>4. ASSUME NEW f \in FactNames, NEW s \in Streams, <<f, s>> \in C
      PROVE  Comes(A, r, m + Len(q), f, s)
  <2>1. Comes(B, q, Len(q), f, s)
    BY <1>4 DEF Leads
  <2>2. Len(q) \in 0..Len(q)
    BY <1>1
  <2> QED BY <1>3, <2>1, <2>2, ComesOver
<1>5. ASSUME NEW j \in 1..(m + Len(q)), NEW f \in FactNames, NEW s \in Streams,
             Needs(r[j], f, s)
      PROVE  Comes(A, r, j - 1, f, s)
  <2> HIDE DEF r, m
  <2>1. CASE j <= m
    <3>1. r[j] = p[j] /\ j \in 1..m /\ j - 1 \in Nat
      BY <1>1, <1>2, <2>1
    <3>2. Comes(A, p, j - 1, f, s)
      BY <1>5, <3>1 DEF Leads, Carries, m
    <3>3. ASSUME NEW k \in 1..(j - 1) PROVE r[k] = p[k]
      <4>1. k \in 1..(m + Len(q)) /\ k <= m
        BY <1>1, <2>1
      <4> QED BY <1>2, <4>1
    <3> QED BY <3>1, <3>2, <3>3, ComesUnder
  <2>2. CASE j > m
    <3>1. r[j] = q[j - m] /\ j - m \in 1..Len(q) /\ j - 1 = m + ((j - m) - 1)
          /\ (j - m) - 1 \in 0..Len(q)
      BY <1>1, <1>2, <2>2
    <3>2. Comes(B, q, (j - m) - 1, f, s)
      BY <1>5, <3>1 DEF Leads, Carries
    <3>3. Comes(A, p \o q, Len(p) + ((j - m) - 1), f, s)
      BY <1>3, <3>1, <3>2, ComesOver DEF m
    <3> QED BY <3>1, <3>3 DEF m, r
  <2> QED BY <1>1, <2>1, <2>2
<1> HIDE DEF r, m
<1>6. Leads(A, r, C)
  BY <1>1, <1>4, <1>5 DEF Leads, Carries
<1> QED BY <1>1, <1>6 DEF r

LEMMA LeadsFrom ==
  ASSUME NEW p, NEW A, NEW B, NEW C, NEW D, Leads(A, p, B),
         \A f \in FactNames, s \in Streams :
           (<<f, s>> \in A => <<f, s>> \in C) /\ (<<f, s>> \in D => <<f, s>> \in B)
  PROVE  Leads(C, p, D)
<1>1. \A n : \A f \in FactNames, s \in Streams : Comes(A, p, n, f, s) => Comes(C, p, n, f, s)
  BY DEF Comes
<1> QED BY <1>1 DEF Leads, Carries

LEMMA OneLeads ==
  ASSUME NEW x, NEW r, NEW A, NEW B,
         \A f \in FactNames, s \in Streams :
           /\ Needs(Do(x, r), f, s) => <<f, s>> \in A
           /\ <<f, s>> \in B =>
                (<<f, s>> \in A /\ ~Loses(Do(x, r), f)) \/ Gives(Do(x, r), f, s)
  PROVE  Leads(A, <<Do(x, r)>>, B)
<1> DEFINE p == <<Do(x, r)>>
<1>1. Len(p) = 1 /\ p[1] = Do(x, r)
  OBVIOUS
<1> HIDE DEF p
<1>2. Carries(A, p)
  BY <1>1 DEF Carries, Comes
<1>3. ASSUME NEW f \in FactNames, NEW s \in Streams, <<f, s>> \in B
      PROVE  Comes(A, p, 1, f, s)
  <2>1. \A k \in 1..1 : k = 1
    OBVIOUS
  <2>2. CASE <<f, s>> \in A /\ ~Loses(Do(x, r), f)
    BY <1>1, <2>1, <2>2 DEF Comes
  <2>3. CASE Gives(Do(x, r), f, s)
    <3>1. 1 \in 1..1 /\ Gives(p[1], f, s) /\ \A k \in (1 + 1)..1 : ~Loses(p[k], f)
      BY <1>1, <2>3
    <3> QED BY <3>1 DEF Comes
  <2> QED BY <1>3, <2>2, <2>3
<1>4. Leads(A, p, B)
  BY <1>1, <1>2, <1>3 DEF Leads
<1> QED BY <1>4 DEF p

\* Facts of these kinds, about every stream.
OfAll(names) == names \X Streams

LEMMA AloneLeads ==
  ASSUME NEW x, NEW N, NEW M,
         \A f \in FactNames, s \in Streams :
           /\ Needs(Do(x, 1), f, s) => f \in N
           /\ f \in M => (f \in N /\ ~Loses(Do(x, 1), f)) \/ Gives(Do(x, 1), f, s)
  PROVE  Leads(OfAll(N), Alone(x), OfAll(M))
BY OneLeads DEF Alone, OfAll

LEMMA EachLeads ==
  ASSUME NEW x, NEW N, NEW M,
         \A r \in Streams, s \in Streams, f \in FactNames :
           ~Loses(Do(x, r), f) /\ (Needs(Do(x, r), f, s) => f \in N),
         \A s \in Streams, f \in FactNames : f \in M => f \in N \/ Gives(Do(x, s), f, s)
  PROVE  Leads(OfAll(N), EachStream(x), OfAll(M))
<1> DEFINE p == EachStream(x)
<1>1. p = [s \in 1..StreamCount |-> Do(x, s)]
  BY DEF EachStream, Streams
<1>2. p \in Seq({Do(x, s) : s \in Streams})
  BY <1>1, SomeStream, SeqDef DEF Streams
<1>3. DOMAIN p = 1..StreamCount /\ \A s \in 1..StreamCount : p[s] = Do(x, s)
  BY <1>1
<1>4. Len(p) = StreamCount /\ StreamCount \in Nat
  <2> HIDE DEF p
  <2> QED BY <1>2, <1>3, SomeStream, LenProperties
<1> HIDE DEF p
<1>5. \A k \in 1..StreamCount, f \in FactNames : ~Loses(p[k], f)
  BY <1>3 DEF Streams
<1>6. ASSUME NEW j \in 1..StreamCount, NEW f \in FactNames, NEW s \in Streams, Needs(p[j], f, s)
      PROVE  Comes(OfAll(N), p, j - 1, f, s)
  <2>1. f \in N
    BY <1>3, <1>6 DEF Streams
  <2>2. \A k \in 1..(j - 1) : k \in 1..StreamCount
    BY <1>4
  <2> QED BY <1>5, <2>1, <2>2 DEF Comes, OfAll
<1>7. ASSUME NEW f \in FactNames, NEW s \in Streams, f \in M
      PROVE  Comes(OfAll(N), p, StreamCount, f, s)
  <2>1. CASE f \in N
    BY <1>5, <2>1 DEF Comes, OfAll
  <2>2. CASE Gives(Do(x, s), f, s)
    <3>1. s \in 1..StreamCount /\ Gives(p[s], f, s)
      BY <1>3, <2>2 DEF Streams
    <3>2. \A k \in (s + 1)..StreamCount : k \in 1..StreamCount
      BY <1>4, <3>1
    <3> QED BY <1>5, <3>1, <3>2 DEF Comes
  <2> QED BY <1>7, <2>1, <2>2
<1>8. Leads(OfAll(N), p, OfAll(M))
  BY <1>4, <1>6, <1>7 DEF Leads, Carries, OfAll
<1> QED BY <1>8 DEF p

LEMMA PlainSeq == Plain \subseteq Seq(AnyStep)
BY ProgramTypes, PlainIsInside

\* Inspecting, sealing and deleting find what they need.
LEMMA InspectionLeads ==
  ASSUME NEW N
  PROVE  Leads(OfAll(N), Inspection, OfAll(N \cup {"clean", "installed"}))
<1> DEFINE M == N \cup {"clean"}
           L == N \cup {"clean", "installed"}
<1>1. Leads(OfAll(N), EachStream("load"), OfAll(M))
  <2>1. \A r, s \in Streams, f \in FactNames :
          ~Loses(Do("load", r), f) /\ ~Needs(Do("load", r), f, s)
    BY DEF Loses, Needs, Do, CaptureSteps
  <2>2. \A s \in Streams : Gives(Do("load", s), "clean", s)
    BY DEF Gives, Do
  <2> QED BY <2>1, <2>2, EachLeads
<1>2. Leads(OfAll(M), Alone("install"), OfAll(L))
  <2>1. \A f \in FactNames, s \in Streams :
          ~Loses(Do("install", 1), f) /\ (Needs(Do("install", 1), f, s) => f = "clean")
    BY DEF Loses, Needs, Do, CaptureSteps
  <2>2. \A s \in Streams : Gives(Do("install", 1), "installed", s)
    BY DEF Gives, Do
  <2> QED BY <2>1, <2>2, AloneLeads
<1>3. EachStream("load") \in Seq(AnyStep) /\ Alone("install") \in Seq(AnyStep)
  BY EachStreamIsPlain, AloneIsPlain, PlainSeq DEF PlainSteps
<1> HIDE DEF M, L
<1>4. Leads(OfAll(N), EachStream("load") \o Alone("install"), OfAll(L))
  BY <1>1, <1>2, <1>3, LeadsOn
<1> QED BY <1>4 DEF Inspection, L

LEMMA SealingLeads ==
  Leads(OfAll({"knows", "kept"}), Sealing, OfAll({"knows", "kept", "sealed"}))
<1> DEFINE A == OfAll({"knows", "kept"})
           B == OfAll({"knows", "kept", "clean", "installed"})
           C == OfAll({"knows", "kept", "settled"})
           D == OfAll({"knows", "kept", "sealed"})
<1>1. Leads(A, Inspection, B)
  <2>1. {"knows", "kept"} \cup {"clean", "installed"} = {"knows", "kept", "clean", "installed"}
    OBVIOUS
  <2> QED BY <2>1, InspectionLeads
<1>2. Leads(B, EachStream("seal"), C)
  <2>1. \A r, s \in Streams, f \in FactNames :
          /\ ~Loses(Do("seal", r), f)
          /\ Needs(Do("seal", r), f, s) => f \in {"knows", "kept", "clean", "installed"}
    BY DEF Loses, Needs, Do, CaptureSteps
  <2>2. \A s \in Streams : Gives(Do("seal", s), "settled", s)
    BY DEF Gives, Do
  <2> QED BY <2>1, <2>2, EachLeads
<1>3. Leads(C, Alone("sealed"), D)
  <2>1. \A s \in Streams, f \in FactNames :
          /\ Needs(Do("sealed", 1), f, s) => f \in {"knows", "kept", "settled"}
          /\ f \in {"knows", "kept"} => ~Loses(Do("sealed", 1), f)
          /\ Gives(Do("sealed", 1), "sealed", s)
    BY DEF Loses, Needs, Gives, Do, CaptureSteps
  <2> QED BY <2>1, AloneLeads
<1>4. /\ Inspection \in Seq(AnyStep) /\ EachStream("seal") \in Seq(AnyStep)
      /\ Alone("sealed") \in Seq(AnyStep)
  BY SealingIsPlain, EachStreamIsPlain, AloneIsPlain, PlainSeq DEF PlainSteps
<1> HIDE DEF A, B, C, D
<1>5. /\ Inspection \o EachStream("seal") \in Seq(AnyStep)
      /\ Leads(A, Inspection \o EachStream("seal"), C)
  BY <1>1, <1>2, <1>4, LeadsOn
<1>6. Leads(A, Sealing, D)
  BY <1>3, <1>4, <1>5, LeadsOn DEF Sealing
<1> QED BY <1>6 DEF A, D

LEMMA DeletingLeads == Leads(OfAll({"knows", "discarded"}), Deleting, {})
<1> DEFINE A == OfAll({"knows", "discarded"})
           B == OfAll({"knows", "discarded", "clean", "installed"})
<1>1. Leads(A, Inspection, B)
  <2>1. {"knows", "discarded"} \cup {"clean", "installed"}
           = {"knows", "discarded", "clean", "installed"}
    OBVIOUS
  <2> QED BY <2>1, InspectionLeads
<1>2. Leads(B, EachStream("mark"), A)
  <2>1. \A r, s \in Streams, f \in FactNames :
          /\ ~Loses(Do("mark", r), f)
          /\ Needs(Do("mark", r), f, s) => f \in {"knows", "discarded", "clean", "installed"}
    BY DEF Loses, Needs, Do, CaptureSteps
  <2> QED BY <2>1, EachLeads
<1>3. Leads(A, Alone("remove"), {})
  <2>1. \A s \in Streams, f \in FactNames :
          Needs(Do("remove", 1), f, s) => f \in {"knows", "discarded"}
    BY DEF Needs, Do, CaptureSteps
  <2>2. Leads(A, Alone("remove"), OfAll({}))
    BY <2>1, AloneLeads
  <2> QED BY <2>2 DEF OfAll
<1>4. /\ Inspection \in Seq(AnyStep) /\ EachStream("mark") \in Seq(AnyStep)
      /\ Alone("remove") \in Seq(AnyStep)
  BY SealingIsPlain, EachStreamIsPlain, AloneIsPlain, PlainSeq DEF PlainSteps
<1> HIDE DEF A, B
<1>5. /\ Inspection \o EachStream("mark") \in Seq(AnyStep)
      /\ Leads(A, Inspection \o EachStream("mark"), A)
  BY <1>1, <1>2, <1>4, LeadsOn
<1>6. Leads(A, Deleting, {})
  BY <1>3, <1>4, <1>5, LeadsOn DEF Deleting
<1> QED BY <1>6 DEF A

\* What discarding needs, in each state of the manifest.
Known(m) == {"knows"} \cup (CASE m.state = "capturing" -> {"kept"}
                              [] m.state = "sealed" -> {"sealed"}
                              [] OTHER -> {"discarded"})

LEMMA DiscardingLeads ==
  ASSUME NEW m, m.state \in ManifestStates
  PROVE  Leads(OfAll(Known(m)), Discarding(m), {})
<1> DEFINE Middle == CASE m.state = "capturing" -> Sealing \o Alone("discarded")
                       [] m.state = "sealed" -> Alone("discarded")
                       [] OTHER -> <<>>
           A == OfAll(Known(m))
           D == OfAll({"knows", "discarded"})
<1>1. Leads(OfAll({"knows", "sealed"}), Alone("discarded"), D)
  <2>1. \A s \in Streams, f \in FactNames :
          /\ Needs(Do("discarded", 1), f, s) => f \in {"knows", "sealed"}
          /\ ~Loses(Do("discarded", 1), "knows")
          /\ Gives(Do("discarded", 1), "discarded", s)
    BY DEF Loses, Needs, Gives, Do, CaptureSteps
  <2> QED BY <2>1, AloneLeads
<1>2. Alone("discarded") \in Seq(AnyStep) /\ Inspection \in Seq(AnyStep)
      /\ Sealing \in Seq(AnyStep) /\ Deleting \in Seq(AnyStep)
  BY SealingIsPlain, AloneIsPlain, PlainSeq DEF PlainSteps
<1>3. Middle \in Seq(AnyStep) /\ Leads(A, Middle, D)
  <2>1. CASE m.state = "capturing"
    <3>1. A = OfAll({"knows", "kept"}) /\ Middle = Sealing \o Alone("discarded")
      BY <2>1 DEF Known, OfAll
    <3>2. Leads(OfAll({"knows", "kept"}), Sealing, OfAll({"knows", "sealed"}))
      BY SealingLeads, LeadsFrom DEF OfAll
    <3> HIDE DEF A, D, Middle
    <3> QED BY <1>1, <1>2, <3>1, <3>2, LeadsOn
  <2>2. CASE m.state = "sealed"
    <3>1. A = OfAll({"knows", "sealed"}) /\ Middle = Alone("discarded")
      BY <2>2 DEF Known, OfAll
    <3> HIDE DEF A, D, Middle
    <3> QED BY <1>1, <1>2, <3>1
  <2>3. CASE m.state = "discarded"
    <3>1. A = D /\ Middle = <<>>
      BY <2>3 DEF Known, OfAll
    <3>2. Leads(D, <<>>, D) /\ <<>> \in Seq(AnyStep)
      <4>1. Len(<<>>) = 0 /\ <<>> \in Seq(AnyStep)
        BY EmptySeq
      <4> HIDE DEF D
      <4> QED BY <4>1 DEF Leads, Carries, Comes
    <3> HIDE DEF A, D, Middle
    <3> QED BY <3>1, <3>2
  <2> QED BY <2>1, <2>2, <2>3 DEF ManifestStates
<1>4. Leads(A, Inspection, A)
  <2>1. Leads(A, Inspection, OfAll(Known(m) \cup {"clean", "installed"}))
    BY InspectionLeads
  <2> HIDE DEF A
  <2> QED BY <2>1, LeadsFrom DEF OfAll, A
<1>5. Discarding(m) = Inspection \o Middle \o Deleting
  BY DEF Discarding
<1> HIDE DEF Middle, A, D
<1>6. /\ Inspection \o Middle \in Seq(AnyStep)
      /\ Leads(A, Inspection \o Middle, D)
  BY <1>2, <1>3, <1>4, LeadsOn
<1>7. Leads(D, Deleting, {})
  BY DeletingLeads DEF D
<1>8. Leads(A, Inspection \o Middle \o Deleting, {})
  BY <1>2, <1>6, <1>7, LeadsOn
<1> QED BY <1>5, <1>8 DEF A

(* What is begun with, for each program that a tab starts.                 *)
LEMMA EnteringLeads ==
  ASSUME NEW N, NEW q \in Seq(AnyStep), Leads(OfAll({"knows"} \cup N), q, {})
  PROVE  Leads(OfAll({"owns"} \cup N), Alone("enter") \o q, {})
<1> DEFINE A == OfAll({"owns"} \cup N)
           B == OfAll({"knows"} \cup N)
<1>1. Leads(A, Alone("enter"), B)
  <2>1. \A s \in Streams, f \in FactNames :
          /\ Needs(Do("enter", 1), f, s) => f = "owns"
          /\ ~Loses(Do("enter", 1), f)
          /\ Gives(Do("enter", 1), "knows", s)
    BY DEF Loses, Needs, Gives, Do, CaptureSteps
  <2> QED BY <2>1, AloneLeads
<1>2. Alone("enter") \in Seq(AnyStep)
  BY SomeStream DEF Alone, Do, AnyStep, OuterSteps
<1> HIDE DEF A, B
<1>3. Leads(A, Alone("enter") \o q, {})
  BY <1>1, <1>2, LeadsOn DEF B
<1> QED BY <1>3 DEF A

LEMMA LookingLeads ==
  ASSUME NEW step \in {"leave", "adopt", "retire"}
  PROVE  Leads(OfAll({"away"}), Alone("look") \o EachStream("load") \o Alone(step), {})
<1> DEFINE A == OfAll({"away"})
<1>1. Leads(A, Alone("look"), A)
  <2>1. \A s \in Streams, f \in FactNames :
          ~Needs(Do("look", 1), f, s) /\ ~Loses(Do("look", 1), f)
    BY DEF Loses, Needs, Do, CaptureSteps
  <2> QED BY <2>1, AloneLeads
<1>2. Leads(A, EachStream("load"), A)
  <2>1. \A r, s \in Streams, f \in FactNames :
          ~Loses(Do("load", r), f) /\ ~Needs(Do("load", r), f, s)
    BY DEF Loses, Needs, Do, CaptureSteps
  <2> QED BY <2>1, EachLeads
<1>3. Leads(A, Alone(step), {})
  <2>1. \A s \in Streams, f \in FactNames : Needs(Do(step, 1), f, s) => f = "away"
    BY DEF Needs, Do, CaptureSteps
  <2>2. Leads(A, Alone(step), OfAll({}))
    BY <2>1, AloneLeads
  <2> QED BY <2>2 DEF OfAll
<1>4. /\ Alone("look") \in Seq(AnyStep) /\ EachStream("load") \in Seq(AnyStep)
      /\ Alone(step) \in Seq(AnyStep)
  <2>1. Alone("look") \in Seq(AnyStep)
    BY SomeStream DEF Alone, Do, AnyStep, OuterSteps
  <2>2. step \in PlainSteps /\ "load" \in PlainSteps
    BY DEF PlainSteps
  <2> QED BY <2>1, <2>2, EachStreamIsPlain, AloneIsPlain, PlainSeq
<1> HIDE DEF A
<1>5. /\ Alone("look") \o EachStream("load") \in Seq(AnyStep)
      /\ Leads(A, Alone("look") \o EachStream("load"), A)
  BY <1>1, <1>2, <1>4, LeadsOn
<1>6. Leads(A, Alone("look") \o EachStream("load") \o Alone(step), {})
  BY <1>3, <1>4, <1>5, LeadsOn
<1> QED BY <1>6 DEF A

LEMMA CaptureLeads ==
  ASSUME NEW r \in Streams
  PROVE  Leads(OfAll({"owns", "capturing"}) \cup {<<"live", r>>},
               <<Do("enter", r), Do("append", r), Do("publish", r), Do("acknowledge", r)>>, {})
<1> DEFINE A == OfAll({"owns", "capturing"}) \cup {<<"live", r>>}
           p == <<Do("enter", r), Do("append", r), Do("publish", r), Do("acknowledge", r)>>
<1>1. /\ Len(p) = 4 /\ p[1] = Do("enter", r) /\ p[2] = Do("append", r)
      /\ p[3] = Do("publish", r) /\ p[4] = Do("acknowledge", r)
  OBVIOUS
<1> HIDE DEF p
<1> SUFFICES ASSUME NEW j \in 1..4, NEW f \in FactNames, NEW s \in Streams, Needs(p[j], f, s)
             PROVE  Comes(A, p, j - 1, f, s)
  BY <1>1 DEF Leads, Carries, p
<1>2. \A k \in 1..4 : f \notin {"clean", "installed", "settled"} => ~Loses(p[k], f)
  BY <1>1 DEF Loses, Do
<1>3. \/ j = 1 /\ f = "owns"
      \/ j # 1 /\ f \in {"knows", "capturing"}
      \/ j # 1 /\ f = "live" /\ s = r
  BY <1>1 DEF Needs, Do, CaptureSteps
<1>4. CASE f \in {"owns", "capturing", "live"}
  <2>1. <<f, s>> \in A
    BY <1>3, <1>4 DEF OfAll
  <2> QED BY <1>2, <1>4, <2>1 DEF Comes
<1>5. CASE f = "knows"
  <2>1. 1 \in 1..(j - 1) /\ Gives(p[1], f, s)
    BY <1>1, <1>3, <1>5 DEF Gives, Do
  <2>2. \A k \in (1 + 1)..(j - 1) : ~Loses(p[k], f)
    BY <1>2, <1>5
  <2> QED BY <2>1, <2>2 DEF Comes
<1> QED BY <1>3, <1>4, <1>5

LEMMA ListsCarry == \A A : \A p \in Lists : Carries(A, p)
<1> SUFFICES ASSUME NEW p \in Lists, NEW A, NEW j \in 1..Len(p),
                    NEW f \in FactNames, NEW s \in Streams
             PROVE  ~Needs(p[j], f, s)
  BY DEF Carries
<1>1. p[j] \in [do : {"list"}, on : Streams]
  BY ElementOfSeq DEF Lists
<1> QED BY <1>1 DEF Needs, CaptureSteps

(***************************************************************************)
(* The facts of a tab along its program.                                   *)
(***************************************************************************)
LEMMA HeldIs ==
  ASSUME NEW t, NEW f \in FactNames, NEW s \in Streams
  PROVE  /\ <<f, s>> \in Held(t) <=> Holds(t, f, s)
         /\ <<f, s>> \in Held(t)' <=> Holds(t, f, s)'
BY DEF Held

LEMMA ProgramIs ==
  ASSUME Discipline, NEW t \in Tabs
  PROVE  program[t] \in Seq(AnyStep)
BY DEF Discipline

\* What the first step of a program relies on.
LEMMA Reliance ==
  ASSUME Discipline, NEW t \in Tabs, Ready(t), program[t] # <<>>
  PROVE  /\ At(t, {"enter"}) => own[t] # None
         /\ At(t, {"install"}) => \A s \in Streams : Clean(s)
         /\ At(t, {"seal", "mark"}) => Installed(t, On(t))
         /\ At(t, {"sealed"}) => \A s \in Streams : Settled(s)
         /\ At(t, {"seal", "sealed"}) => Owns(t, {"capturing", "sealed"})
         /\ At(t, {"discarded"}) => Owns(t, {"sealed", "discarded"})
         /\ At(t, {"mark", "erase", "drop", "remove"}) => Owns(t, {"discarded"})
         /\ At(t, CaptureSteps) => Owns(t, {"capturing"})
         /\ At(t, {"append"}) =>
              t = Recorder /\ synced[t] /\ recording # None /\ On(t) \in recording
         /\ At(t, {"leave", "adopt", "retire"}) =>
              t # Recorder \/ recording = None \/ own[t] = None
         /\ At(t, {"seal", "sealed", "discarded", "mark", "erase", "drop", "remove",
                   "append", "publish", "acknowledge", "reacknowledge", "repair"}) =>
              own[t] = manifest
<1> DEFINE step == Head(program[t])
<1>1. \A f \in FactNames, s \in Streams : Needs(step, f, s) => Holds(t, f, s)
  BY ProgramIs, CarriesHead, HeldIs DEF Ready
<1>2. On(t) = step.on /\ On(t) \in Streams /\ \A steps : At(t, steps) <=> step.do \in steps
  BY FirstStep DEF On, At
<1> HIDE DEF step
<1>3. \A s \in Streams : Holds(t, "owns", s) => own[t] # None
  BY DEF Holds
<1>4. \A s \in Streams : /\ Holds(t, "clean", s) => Clean(s)
                         /\ Holds(t, "installed", s) => Installed(t, s)
                         /\ Holds(t, "settled", s) => Settled(s)
  BY DEF Holds
<1>5. \A s \in Streams : /\ Holds(t, "kept", s) => Owns(t, {"capturing", "sealed"})
                         /\ Holds(t, "sealed", s) => Owns(t, {"sealed", "discarded"})
                         /\ Holds(t, "discarded", s) => Owns(t, {"discarded"})
                         /\ Holds(t, "capturing", s) => Owns(t, {"capturing"})
                         /\ Holds(t, "knows", s) => own[t] = manifest
  BY DEF Holds
<1>6. \A s \in Streams :
        /\ Holds(t, "live", s) => t = Recorder /\ synced[t] /\ recording # None /\ s \in recording
        /\ Holds(t, "away", s) => t # Recorder \/ recording = None \/ own[t] = None
  BY DEF Holds
<1>7. step.do = "enter" => own[t] # None
  BY <1>1, <1>2, <1>3 DEF Needs, FactNames
<1>8. step.do = "install" => \A s \in Streams : Clean(s)
  BY <1>1, <1>4 DEF Needs, FactNames
<1>9. step.do \in {"seal", "mark"} => Installed(t, On(t))
  BY <1>1, <1>2, <1>4 DEF Needs, FactNames
<1>10. step.do = "sealed" => \A s \in Streams : Settled(s)
  BY <1>1, <1>4 DEF Needs, FactNames
<1>11. /\ step.do \in {"seal", "sealed"} => Owns(t, {"capturing", "sealed"})
       /\ step.do = "discarded" => Owns(t, {"sealed", "discarded"})
       /\ step.do \in {"mark", "erase", "drop", "remove"} => Owns(t, {"discarded"})
  BY <1>1, <1>2, <1>5 DEF Needs, FactNames
<1>12. step.do \in CaptureSteps => Owns(t, {"capturing"})
  BY <1>1, <1>2, <1>5 DEF Needs, FactNames
<1>13. step.do = "append" =>
         t = Recorder /\ synced[t] /\ recording # None /\ On(t) \in recording
  BY <1>1, <1>2, <1>6 DEF Needs, FactNames
<1>14. step.do \in {"leave", "adopt", "retire"} =>
         t # Recorder \/ recording = None \/ own[t] = None
  BY <1>1, <1>2, <1>6 DEF Needs, FactNames
<1>15. step.do \in {"seal", "sealed", "discarded", "mark", "erase", "drop", "remove",
                    "append", "publish", "acknowledge", "reacknowledge", "repair"} =>
         own[t] = manifest
  BY <1>1, <1>2, <1>5 DEF Needs, FactNames, CaptureSteps
<1> QED BY <1>2, <1>7, <1>8, <1>9, <1>10, <1>11, <1>12, <1>13, <1>14, <1>15

(* A tab whose program does not move keeps its facts, but for those that   *)
(* its step loses.                                                         *)
LEMMA ReadyStays ==
  ASSUME Discipline, NEW t \in Tabs, Ready(t), program'[t] = program[t],
         program[t] # <<>> => \A f \in FactNames, s \in Streams : Holds(t, f, s) =>
           Holds(t, f, s)' \/ (Loses(Head(program[t]), f) /\ ~Needs(Head(program[t]), f, s))
  PROVE  Ready(t)'
<1>1. CASE program[t] = <<>>
  BY <1>1, EmptySeq DEF Ready, Carries
<1>2. CASE program[t] # <<>>
  <2>1. Carries(Held(t)', program[t])
    BY <1>2, ProgramIs, HeldIs, CarriesMore DEF Ready
  <2> QED BY <2>1 DEF Ready
<1> QED BY <1>1, <1>2

LEMMA ReadyEnds ==
  ASSUME NEW t, program'[t] = <<>>
  PROVE  Ready(t)'
BY EmptySeq DEF Ready, Carries

LEMMA ReadyBegins ==
  ASSUME NEW t, NEW p, NEW A, Leads(A, p, {}), program'[t] = p,
         \A f \in FactNames, s \in Streams : <<f, s>> \in A => Holds(t, f, s)'
  PROVE  Ready(t)'
<1>1. Leads(Held(t)', p, {})
  BY HeldIs, LeadsFrom
<1> QED BY <1>1 DEF Leads, Ready

\* What a step leaves behind when it ends well.
Passes(t, f, s) ==
  (Holds(t, f, s) /\ ~Loses(Head(program[t]), f)) \/ Gives(Head(program[t]), f, s)

LEMMA ReadyGoesOn ==
  ASSUME Discipline, NEW t \in Tabs, Ready(t), program[t] # <<>>, program'[t] = Rest(t),
         Rest(t) # <<>> => \A f \in FactNames, s \in Streams :
           Passes(t, f, s) => Holds(t, f, s)'
  PROVE  Ready(t)'
<1>1. CASE Rest(t) = <<>>
  BY <1>1, ReadyEnds
<1>2. CASE Rest(t) # <<>>
  <2>1. Carries(Held(t)', Tail(program[t]))
    BY <1>2, ProgramIs, HeldIs, CarriesTail DEF Ready, Passes
  <2> QED BY <2>1 DEF Ready, Rest
<1> QED BY <1>1, <1>2

\* The step turns into another one, which the others do not notice.
LEMMA ReadyTurns ==
  ASSUME Discipline, NEW t \in Tabs, Ready(t), program[t] # <<>>, NEW x,
         Do(x, On(t)) \in AnyStep, program'[t] = <<Do(x, On(t))>> \o Rest(t),
         \A f \in FactNames : ~Loses(Do(x, On(t)), f),
         \A f \in FactNames, s \in Streams :
           /\ Needs(Do(x, On(t)), f, s) => Holds(t, f, s)'
           /\ Passes(t, f, s) => Holds(t, f, s)' \/ Gives(Do(x, On(t)), f, s)
  PROVE  Ready(t)'
<1> DEFINE B == {y \in FactNames \X Streams : Passes(t, y[1], y[2])}
<1>1. Carries(B, Rest(t))
  BY ProgramIs, HeldIs, CarriesTail DEF Ready, Passes, Rest
<1>2. Leads(B, Rest(t), {})
  BY <1>1 DEF Leads
<1>3. Leads(Held(t)', <<Do(x, On(t))>>, B)
  <2>1. \A f \in FactNames, s \in Streams : <<f, s>> \in B <=> Passes(t, f, s)
    OBVIOUS
  <2> HIDE DEF B
  <2>2. \A f \in FactNames, s \in Streams :
          /\ Needs(Do(x, On(t)), f, s) => <<f, s>> \in Held(t)'
          /\ <<f, s>> \in B => /\ ~Loses(Do(x, On(t)), f)
                               /\ <<f, s>> \in Held(t)' \/ Gives(Do(x, On(t)), f, s)
    BY <2>1, HeldIs
  <2> QED BY <2>2, OneLeads
<1>4. Rest(t) \in Seq(AnyStep) /\ <<Do(x, On(t))>> \in Seq(AnyStep)
  BY ProgramIs, HeadTailProperties DEF Rest
<1> HIDE DEF B
<1>5. Leads(Held(t)', <<Do(x, On(t))>> \o Rest(t), {})
  BY <1>2, <1>3, <1>4, LeadsOn
<1> QED BY <1>5 DEF Leads, Ready

LEMMA ReadyOne ==
  ASSUME NEW t, NEW x, NEW r, program'[t] = <<Do(x, r)>>,
         \A f \in FactNames, s \in Streams : Needs(Do(x, r), f, s) => Holds(t, f, s)'
  PROVE  Ready(t)'
<1>1. Leads(Held(t)', <<Do(x, r)>>, {})
  BY HeldIs, OneLeads
<1> QED BY <1>1 DEF Leads, Ready

(***************************************************************************)
(* What a step of tab t leaves to the other tabs: what is theirs, and the  *)
(* spools they have locked.  What they have inspected under the session    *)
(* lock changes only where something was still to be repaired.             *)
(***************************************************************************)
Apart(t) == \A u \in Tabs \ {t} :
  /\ program'[u] = program[u] /\ requests'[u] = requests[u]
  /\ own'[u] = own[u] /\ spools'[u] = spools[u]
  /\ sessionLock' = u <=> sessionLock = u
  /\ u = Recorder => synced'[u] = synced[u] /\ recording' = recording

Spares(t) == \A u \in Tabs \ {t}, s \in Streams :
  /\ sessionLock = u => manifest' = manifest /\ (SameSpool(s) \/ (IsCapturing(s) /\ Loose(s)))
  /\ spoolLock[s] = u => SameSpool(s)

LEMMA SameIs ==
  ASSUME NEW s, SameSpool(s)
  PROVE  /\ Clean(s)' = Clean(s) /\ Settled(s)' = Settled(s) /\ Loose(s)' = Loose(s)
         /\ IsCapturing(s)' = IsCapturing(s) /\ Exact(s)' = Exact(s)
         /\ Begun(s)' = Begun(s) /\ Committed(s)' = Committed(s)
         /\ CutTo(s)' = CutTo(s) /\ CutBack(s)' = CutBack(s) /\ Tailed(s)' = Tailed(s)
         /\ AppendPlan(s)' = AppendPlan(s)
<1>1. /\ meta'[s] = meta[s] /\ stored'[s] = stored[s]
      /\ intent'[s] = intent[s] /\ cleanup'[s] = cleanup[s]
  BY DEF SameSpool
<1>2. Clean(s)' = Clean(s) /\ IsCapturing(s)' = IsCapturing(s)
      /\ Begun(s)' = Begun(s) /\ Committed(s)' = Committed(s) /\ Tailed(s)' = Tailed(s)
  BY <1>1 DEF Clean, IsCapturing, Begun, Committed, Tailed
<1>3. Settled(s)' = Settled(s) /\ Loose(s)' = Loose(s) /\ Exact(s)' = Exact(s)
      /\ CutTo(s)' = CutTo(s)
  BY <1>1, <1>2 DEF Settled, Loose, Exact, CutTo
<1>4. CutBack(s)' = CutBack(s) /\ AppendPlan(s)' = AppendPlan(s)
  BY <1>1, <1>2 DEF CutBack, AppendPlan, Request
<1> QED BY <1>2, <1>3, <1>4

LEMMA FactsStay ==
  ASSUME NEW t \in Tabs, own'[t] = own[t], spools'[t] = spools[t],
         t = Recorder => synced'[t] = synced[t] /\ recording' = recording,
         sessionLock = t => /\ sessionLock' = t /\ manifest' = manifest
                            /\ \A s \in Streams :
                                 SameSpool(s) \/ (IsCapturing(s) /\ ~Clean(s))
  PROVE  \A f \in FactNames, s \in Streams : Holds(t, f, s) => Holds(t, f, s)'
<1> SUFFICES ASSUME NEW f \in FactNames, NEW s \in Streams, Holds(t, f, s)
             PROVE  Holds(t, f, s)'
  OBVIOUS
<1>1. ASSUME sessionLock = t, Clean(s) \/ Settled(s) PROVE SameSpool(s)
  BY <1>1 DEF Settled, IsCapturing
<1>2. CASE f = "clean"
  <2>1. sessionLock = t /\ Clean(s)
    BY <1>2 DEF Holds
  <2> QED BY <1>1, <1>2, <2>1, SameIs DEF Holds
<1>3. CASE f = "installed"
  <2>1. sessionLock = t /\ Installed(t, s) /\ Clean(s)
    BY <1>3 DEF Holds, Installed
  <2>2. SameSpool(s) /\ meta'[s] = meta[s] /\ Clean(s)'
    BY <1>1, <2>1, SameIs DEF SameSpool
  <2>3. Installed(t, s)'
    BY <2>1, <2>2 DEF Installed
  <2> QED BY <1>3, <2>1, <2>3 DEF Holds
<1>4. CASE f = "settled"
  <2>1. sessionLock = t /\ Settled(s)
    BY <1>4 DEF Holds
  <2> QED BY <1>1, <1>4, <2>1, SameIs DEF Holds
<1>5. CASE f \in {"live", "away"}
  BY <1>5 DEF Holds
<1>6. CASE f \in {"owns", "kept", "capturing", "sealed", "discarded"}
  BY <1>6 DEF Holds, Owns
<1>7. CASE f = "knows"
  BY <1>7 DEF Holds
<1> QED BY <1>2, <1>3, <1>4, <1>5, <1>6, <1>7 DEF FactNames

\* What a tab finds of a stream is nothing to be repaired.
LEMMA FoundIsFirm ==
  ASSUME Types, NEW t, NEW s \in Streams, SpoolInv(s), Finds(t, s), Loose(s)
  PROVE  ~At(t, {"match", "rollback", "repair", "publish", "acknowledge", "reacknowledge",
                 "recheck", "erase", "drop"})
<1>1. ~Clean(s)
  BY DEF Loose, Begun, Clean
<1>2. ~Unacknowledged(s)
  <2>1. intent[s] # None => intent[s].from # intent[s].from + 1
    BY StreamTypes
  <2> QED BY <1>1, <2>1 DEF Loose, Begun, Unacknowledged, Committed, SpoolInv
<1>3. /\ ~At(t, {"match"}) /\ ~At(t, {"rollback", "repair"}) /\ ~At(t, {"publish"})
      /\ ~At(t, {"acknowledge", "reacknowledge"}) /\ ~At(t, {"recheck"})
      /\ ~At(t, {"erase", "drop"})
  BY <1>1, <1>2 DEF Finds
<1> QED BY <1>3 DEF At

LEMMA PlacedStays ==
  ASSUME SpoolsInv, NEW u \in Tabs, Placed(u),
         program'[u] = program[u], requests'[u] = requests[u], spools'[u] = spools[u],
         \A s \in Streams : sessionLock = u =>
           manifest' = manifest /\ (SameSpool(s) \/ (IsCapturing(s) /\ Loose(s))),
         \A s \in Streams : spoolLock[s] = u => SameSpool(s)
  PROVE  Placed(u)'
<1> SUFFICES ASSUME program[u] # <<>> PROVE Placed(u)'
  BY DEF Placed
<1>1. PICK s \in Streams : On(u) = s
  BY FirstStep DEF SpoolsInv
<1>2. /\ On(u) = s /\ On(u)' = s /\ program'[u] # <<>>
      /\ SpoolInv(s) /\ Types /\ Discipline
      /\ \A steps : At(u, steps)' <=> At(u, steps)
  BY <1>1 DEF SpoolsInv, On, At
<1>3. CASE requests[u] = <<>>
  <2>1. Finds(u, s)
    BY <1>2, <1>3 DEF Placed
  <2>2. CASE At(u, {"match", "rollback", "repair", "publish", "acknowledge", "reacknowledge",
                    "recheck", "erase", "drop"})
    <3>1. At(u, PlainSteps \cup TurnedSteps \cup CaptureSteps)
      BY <2>2 DEF At, PlainSteps, TurnedSteps, CaptureSteps
    <3>2. sessionLock = u
      BY <1>2, <3>1, FirstStep
    <3>3. SameSpool(s) /\ manifest' = manifest
      BY <1>2, <2>1, <2>2, <3>2, FoundIsFirm
    <3>4. /\ Loose(s)' = Loose(s) /\ IsCapturing(s)' = IsCapturing(s)
          /\ Committed(s)' = Committed(s) /\ Clean(s)' = Clean(s)
          /\ meta'[s] = meta[s] /\ intent'[s] = intent[s]
      BY <3>3, SameIs DEF SameSpool
    <3>5. Unacknowledged(s)' = Unacknowledged(s) /\ Counted(s)' = Counted(s)
      BY <3>3, <3>4 DEF Unacknowledged, Counted
    <3>6. Finds(u, s)'
      BY <1>2, <2>1, <3>3, <3>4, <3>5 DEF Finds
    <3> QED BY <1>2, <1>3, <3>6 DEF Placed
  <2>3. CASE ~At(u, {"match", "rollback", "repair", "publish", "acknowledge", "reacknowledge",
                     "recheck", "erase", "drop"})
    <3>1. Finds(u, s)'
      BY <1>2, <2>3 DEF Finds, At
    <3> QED BY <1>2, <1>3, <3>1 DEF Placed
  <2> QED BY <2>2, <2>3
<1>4. CASE requests[u] # <<>>
  <2>1. Fits(u, s, requests[u]) /\ SameSpool(s)
    BY <1>2, <1>4, AskingStep DEF Placed
  <2>2. sessionLock = u \/ At(u, {"list"})
    BY <1>2, <1>4, AskingStep
  <2>3. manifest' = manifest \/ At(u, {"list"})
    BY <1>2, <2>2
  <2>4. /\ IsCapturing(s)' = IsCapturing(s) /\ Exact(s)' = Exact(s) /\ Begun(s)' = Begun(s)
        /\ Committed(s)' = Committed(s) /\ CutTo(s)' = CutTo(s) /\ CutBack(s)' = CutBack(s)
        /\ Tailed(s)' = Tailed(s) /\ AppendPlan(s)' = AppendPlan(s)
        /\ meta'[s] = meta[s] /\ stored'[s] = stored[s]
        /\ intent'[s] = intent[s] /\ cleanup'[s] = cleanup[s]
    BY <2>1, SameIs DEF SameSpool
  <2>5. LoadFits(s, requests[u])' = LoadFits(s, requests[u])
    BY <2>4 DEF LoadFits, Ask0, Request
  <2>6. CASE At(u, {"list"})
    <3>1. Fits(u, s, requests[u])'
      BY <1>2, <2>1, <2>4, <2>5, <2>6 DEF Fits, At
    <3> QED BY <1>2, <1>4, <3>1 DEF Placed
  <2>7. CASE ~At(u, {"list"})
    <3>1. Unacknowledged(s)' = Unacknowledged(s)
      BY <2>3, <2>4, <2>7 DEF Unacknowledged
    <3>2. RestoreFits(s, requests[u])' = RestoreFits(s, requests[u])
      BY <2>4, <3>1 DEF RestoreFits, Ask0, Request
    <3>3. ForgetFits(s, requests[u])' = ForgetFits(s, requests[u])
      BY <2>3, <2>4, <2>7 DEF ForgetFits, Ask0, Request
    <3>4. /\ FinalFits(s, requests[u], "seal")' = FinalFits(s, requests[u], "seal")
          /\ FinalFits(s, requests[u], "mark")' = FinalFits(s, requests[u], "mark")
      BY <2>4 DEF FinalFits, Ask0, Request
    <3>5. AppendFits(s, requests[u])' = AppendFits(s, requests[u])
      BY <2>4 DEF AppendFits
    <3>6. Fits(u, s, requests[u])'
      BY <1>2, <2>1, <2>4, <2>5, <3>2, <3>3, <3>4, <3>5 DEF Fits
    <3> QED BY <1>2, <1>4, <3>6 DEF Placed
  <2> QED BY <2>6, <2>7
<1> QED BY <1>3, <1>4

LEMMA OthersKeep ==
  ASSUME SpoolsInv, NEW t \in Tabs, Apart(t), Spares(t), NEW u \in Tabs \ {t}
  PROVE  Ready(u)' /\ Placed(u)'
<1>1. Discipline /\ Ready(u) /\ Placed(u)
  BY DEF SpoolsInv
<1>2. /\ program'[u] = program[u] /\ requests'[u] = requests[u]
      /\ own'[u] = own[u] /\ spools'[u] = spools[u]
      /\ sessionLock = u => sessionLock' = u
      /\ u = Recorder => synced'[u] = synced[u] /\ recording' = recording
  BY DEF Apart
<1>3. \A s \in Streams :
        /\ sessionLock = u =>
             manifest' = manifest /\ (SameSpool(s) \/ (IsCapturing(s) /\ Loose(s)))
        /\ spoolLock[s] = u => SameSpool(s)
  BY DEF Spares
<1>4. \A s \in Streams : Loose(s) => ~Clean(s)
  BY DEF Loose, Begun, Clean
<1>5. sessionLock = u => manifest' = manifest
  BY <1>3, SomeStream
<1>6. \A f \in FactNames, s \in Streams : Holds(u, f, s) => Holds(u, f, s)'
  BY <1>2, <1>3, <1>4, <1>5, FactsStay
<1>7. Ready(u)'
  BY <1>1, <1>2, <1>6, ReadyStays
<1>8. Placed(u)'
  BY <1>1, <1>2, <1>3, PlacedStays
<1> QED BY <1>7, <1>8

(* The streams that are left to the recorder.                              *)
LEMMA LiveKeeps ==
  ASSUME LiveInv,
         recording' # None /\ synced'[Recorder] =>
           recording # None /\ synced[Recorder] /\ recording' \subseteq recording,
         recording' # None /\ synced'[Recorder] => \A s \in recording' :
           Clean(s) \/ Busy(s) => Clean(s)' \/ Busy(s)',
         recording' # None /\ own'[Recorder] = None => manifest' = None
  PROVE  LiveInv'
BY DEF LiveInv

LEMMA LiveStays ==
  ASSUME SpoolsInv, NEW t \in Tabs, t # Recorder, Apart(t),
         \A s \in Streams : Clean(s) => Clean(s)',
         manifest = None => manifest' = None
  PROVE  LiveInv'
<1>1. Recorder \in Tabs \ {t}
  BY CaptureAssumption
<1>2. /\ program'[Recorder] = program[Recorder] /\ requests'[Recorder] = requests[Recorder]
      /\ own'[Recorder] = own[Recorder]
      /\ sessionLock' = Recorder <=> sessionLock = Recorder
      /\ synced'[Recorder] = synced[Recorder] /\ recording' = recording
  BY <1>1 DEF Apart
<1>3. \A s \in Streams : Busy(s)' = Busy(s)
  BY <1>2 DEF Busy, At, On
<1>4. recording # None => recording \subseteq Streams
  BY DEF SpoolsInv, Types
<1> QED BY <1>2, <1>3, <1>4, LiveKeeps DEF SpoolsInv, LiveInv

(***************************************************************************)
(* What is left to show of a step of tab t.                                *)
(***************************************************************************)
LEMMA Assembled ==
  ASSUME SpoolsInv, Discipline', Types', NEW t \in Tabs, Apart(t), Spares(t),
         \A s \in Streams : SpoolInv(s)' /\ Agrees(s)',
         sessionLock' # None => manifest' # None,
         LiveInv', Ready(t)', Placed(t)', refused' = refused
  PROVE  SpoolsInv'
<1>1. \A u \in Tabs : Ready(u)' /\ Placed(u)'
  BY OthersKeep
<1>2. ~refused'
  BY DEF SpoolsInv
<1> QED BY <1>1, <1>2 DEF SpoolsInv

\* The tabs but t let the session lock be, or t takes the free one.
LEMMA QuietStep ==
  ASSUME SpoolsInv, Discipline', Types', NEW t \in Tabs, Apart(t), UNCHANGED durable,
         sessionLock' = t => manifest # None,
         LiveInv', Ready(t)', Placed(t)', refused' = refused
  PROVE  SpoolsInv'
<1>1. manifest' = manifest /\ \A s \in Streams : SameSpool(s)
  BY DEF durable, SameSpool
<1>2. Spares(t)
  BY <1>1 DEF Spares
<1>3. \A s \in Streams : SpoolInv(s)' /\ Agrees(s)'
  <2> SUFFICES ASSUME NEW s \in Streams PROVE SpoolInv(s)' /\ Agrees(s)'
    OBVIOUS
  <2>1. SpoolInv(s) /\ Agrees(s) /\ SameSpool(s)
    BY <1>1 DEF SpoolsInv
  <2>2. /\ Clean(s)' = Clean(s) /\ Settled(s)' = Settled(s)
        /\ IsCapturing(s)' = IsCapturing(s) /\ Exact(s)' = Exact(s)
        /\ Begun(s)' = Begun(s) /\ Committed(s)' = Committed(s) /\ Tailed(s)' = Tailed(s)
    BY <2>1, SameIs
  <2>3. SpoolInv(s)'
    BY <2>1, <2>2 DEF SpoolInv, SameSpool
  <2>4. Agrees(s)'
    BY <1>1, <2>1, <2>2 DEF Agrees, SameSpool
  <2> QED BY <2>3, <2>4
<1>4. sessionLock' # None => manifest' # None
  <2>1. SUFFICES ASSUME sessionLock' # None, sessionLock' # t PROVE manifest # None
    BY <1>1
  <2>2. sessionLock' \in Tabs \ {t}
    BY <2>1 DEF Discipline
  <2>3. sessionLock = sessionLock'
    BY <2>2 DEF Apart
  <2> QED BY <2>1, <2>3 DEF SpoolsInv
<1> QED BY <1>2, <1>3, <1>4, Assembled

\* The recorder does not leave a stream on which it may have left something.
Attends(t) ==
  \/ ~At(t, CaptureSteps) \/ Clean(On(t))
  \/ /\ program'[t] # <<>> /\ Head(program'[t]).do \in CaptureSteps
     /\ Head(program'[t]).on = On(t) /\ sessionLock' = t
     /\ Head(program'[t]).do = "append" => requests'[t] # <<>>

LEMMA LiveWaits ==
  ASSUME SpoolsInv, NEW t \in Tabs, Apart(t), Attends(t),
         \A s \in Streams : Clean(s) => Clean(s)',
         recording' = recording, synced'[Recorder] => synced[Recorder],
         manifest = None => manifest' = None,
         own'[Recorder] = None => own[Recorder] = None \/ manifest' = None
  PROVE  LiveInv'
<1>1. CASE t # Recorder
  BY <1>1, LiveStays
<1>2. CASE t = Recorder
  <2>1. ASSUME NEW s \in Streams, Busy(s) PROVE Clean(s)' \/ Busy(s)'
    <3>1. At(t, CaptureSteps) /\ On(t) = s
      BY <1>2, <2>1 DEF Busy
    <3>2. CASE Clean(On(t))
      BY <3>1, <3>2
    <3>3. CASE ~Clean(On(t))
      <4>1. /\ program'[t] # <<>> /\ Head(program'[t]).do \in CaptureSteps
            /\ Head(program'[t]).on = s /\ sessionLock' = t
            /\ Head(program'[t]).do = "append" => requests'[t] # <<>>
        BY <3>1, <3>3 DEF Attends
      <4> QED BY <1>2, <4>1 DEF Busy, At, On
    <3> QED BY <3>2, <3>3
  <2>2. recording # None => recording \subseteq Streams
    BY DEF SpoolsInv, Types
  <2> QED BY <2>1, <2>2, LiveKeeps DEF SpoolsInv, LiveInv
<1> QED BY <1>1, <1>2

\* Nothing of the storage and nothing of the sessions changes.
LEMMA QuietSession ==
  ASSUME SpoolsInv, Discipline', NEW t \in Tabs,
         \A u \in Tabs \ {t} : /\ program'[u] = program[u] /\ requests'[u] = requests[u]
                               /\ sessionLock' = u <=> sessionLock = u,
         UNCHANGED <<durable, session, taken, refused>>, Attends(t),
         sessionLock' = t => manifest # None, Ready(t)', Placed(t)'
  PROVE  SpoolsInv'
<1>1. Types'
  BY DEF SpoolsInv, Types, durable, session
<1>2. Apart(t)
  BY DEF Apart, session
<1>3. LiveInv'
  <2>1. /\ recording' = recording /\ synced' = synced /\ manifest' = manifest /\ own' = own
        /\ \A s \in Streams : Clean(s)' = Clean(s)
    BY DEF durable, session, Clean
  <2> QED BY <1>2, <2>1, LiveWaits
<1> QED BY <1>1, <1>2, <1>3, QuietStep

(***************************************************************************)
(* The ways a step ends that changes nothing of the storage.               *)
(***************************************************************************)
LEMMA GoToIs ==
  ASSUME Discipline, NEW t \in Tabs, NEW steps, GoTo(t, steps)
  PROVE  /\ program'[t] = steps /\ requests'[t] = <<>>
         /\ \A u \in Tabs \ {t} : /\ program'[u] = program[u] /\ requests'[u] = requests[u]
                                  /\ sessionLock' = u <=> sessionLock = u
         /\ sessionLock' = t => sessionLock = t
         /\ sessionLock = t /\ steps # <<>> => sessionLock' = t
<1>1. program \in [Tabs -> Seq(AnyStep)] /\ \E S : requests \in [Tabs -> Seq(S)]
  BY DEF Discipline
<1>2. /\ program' = [program EXCEPT ![t] = steps]
      /\ requests' = [requests EXCEPT ![t] = <<>>]
      /\ sessionLock' = IF steps = <<>> /\ sessionLock = t THEN None ELSE sessionLock
  BY DEF GoTo
<1>3. None \notin Tabs
  BY CaptureAssumption
<1> QED BY <1>1, <1>2, <1>3

LEMMA AskIs ==
  ASSUME Discipline, NEW t \in Tabs, NEW what, Ask(t, what)
  PROVE  /\ program' = program /\ sessionLock' = sessionLock /\ requests'[t] = what
         /\ \A u \in Tabs \ {t} : requests'[u] = requests[u]
<1>1. \E S : requests \in [Tabs -> Seq(S)]
  BY DEF Discipline
<1> QED BY <1>1 DEF Ask

\* Where the session lock is taken or held there is a manifest.
LEMMA LockedSession ==
  ASSUME SpoolsInv, NEW t \in Tabs, sessionLock = t
  PROVE  manifest # None /\ manifest \in Manifests
BY CaptureAssumption DEF SpoolsInv, Types

LEMMA ThrowStays ==
  ASSUME SpoolsInv, NEW t \in Tabs, Throw(t), UNCHANGED <<durable, session, taken, refused>>,
         ~At(t, CaptureSteps) \/ Clean(On(t))
  PROVE  SpoolsInv'
<1>1. Discipline /\ Discipline'
  BY ThrowKeeps DEF SpoolsInv
<1>2. GoTo(t, <<>>)
  BY DEF Throw
<1>3. Ready(t)' /\ Placed(t)'
  BY <1>1, <1>2, GoToIs, ReadyEnds DEF Placed
<1>4. sessionLock' = t => manifest # None
  BY <1>1, <1>2, GoToIs, LockedSession
<1>5. Attends(t)
  BY DEF Attends
<1> QED BY <1>1, <1>2, <1>3, <1>4, <1>5, GoToIs, QuietSession

\* The facts a step leaves to the next when it changes nothing.
LEMMA PassesStay ==
  ASSUME NEW t \in Tabs, own'[t] = own[t], spools'[t] = spools[t],
         t = Recorder => synced'[t] = synced[t] /\ recording' = recording,
         sessionLock = t => sessionLock' = t,
         manifest' = manifest, \A s \in Streams : SameSpool(s),
         \A f \in FactNames, s \in Streams :
           Gives(Head(program[t]), f, s) => Holds(t, f, s)'
  PROVE  \A f \in FactNames, s \in Streams : Passes(t, f, s) => Holds(t, f, s)'
BY FactsStay DEF Passes

LEMMA FinishStays ==
  ASSUME SpoolsInv, NEW t \in Tabs, program[t] # <<>>, ~At(t, OuterSteps), Finish(t),
         UNCHANGED <<durable, session, taken, refused>>,
         ~At(t, CaptureSteps),
         sessionLock' = t => \A f \in FactNames, s \in Streams :
           Gives(Head(program[t]), f, s) => Holds(t, f, s)'
  PROVE  SpoolsInv'
<1>1. Discipline /\ Discipline' /\ Ready(t)
  BY FinishKeeps DEF SpoolsInv
<1>2. GoTo(t, Rest(t))
  BY DEF Finish
<1>3. /\ own'[t] = own[t] /\ spools'[t] = spools[t] /\ synced'[t] = synced[t]
      /\ recording' = recording /\ manifest' = manifest /\ \A s \in Streams : SameSpool(s)
  BY DEF durable, session, SameSpool
<1>4. At(t, {"list"}) \/ At(t, PlainSteps \cup TurnedSteps)
  BY <1>1, FirstStep DEF At
<1>5. Ready(t)'
  <2>1. CASE At(t, {"list"})
    <3>1. program'[t] \in Lists
      BY <1>1, <1>2, <2>1, FirstStep, GoToIs DEF At
    <3> QED BY <3>1, ListsCarry DEF Ready
  <2>2. CASE At(t, PlainSteps \cup TurnedSteps)
    <3>1. sessionLock = t
      BY <1>1, <2>2, FirstStep DEF At
    <3>2. Rest(t) # <<>> => \A f \in FactNames, s \in Streams :
            Passes(t, f, s) => Holds(t, f, s)'
      BY <1>1, <1>2, <1>3, <3>1, GoToIs, PassesStay
    <3> QED BY <1>1, <1>2, <3>2, GoToIs, ReadyGoesOn
  <2> QED BY <1>4, <2>1, <2>2
<1>6. Placed(t)'
  <2>1. program'[t] = Rest(t) /\ requests'[t] = <<>>
    BY <1>1, <1>2, GoToIs
  <2>2. Rest(t) # <<>> => Head(Rest(t)).do \in {"list"} \cup PlainSteps
    <3>1. CASE At(t, {"list"})
      <4>1. Rest(t) \in Lists
        BY <1>1, <3>1, FirstStep DEF At
      <4>2. Rest(t) # <<>> => Head(Rest(t)) \in [do : {"list"}, on : Streams]
        BY <4>1, HeadTailProperties DEF Lists
      <4> QED BY <4>2
    <3>2. CASE At(t, PlainSteps \cup TurnedSteps)
      <4>1. Rest(t) \in Plain
        BY <1>1, <3>2, FirstStep DEF At
      <4> QED BY <4>1, PlainProgram
    <3> QED BY <1>4, <3>1, <3>2
  <2>3. ASSUME program'[t] # <<>> PROVE Finds(t, On(t))'
    BY <2>1, <2>2, <2>3 DEF Finds, At, PlainSteps
  <2> QED BY <2>1, <2>3 DEF Placed
<1>7. sessionLock' = t => manifest # None
  BY <1>1, <1>2, GoToIs, LockedSession
<1>8. Attends(t)
  BY DEF Attends
<1> QED BY <1>1, <1>2, <1>5, <1>6, <1>7, <1>8, GoToIs, QuietSession

\* The step asks for something that fits.
LEMMA AskStays ==
  ASSUME SpoolsInv, Discipline', NEW t \in Tabs, program[t] # <<>>, NEW what, what # <<>>,
         Ask(t, what), UNCHANGED <<durable, session, taken, refused>>,
         On(t) \in Streams => Fits(t, On(t), what)
  PROVE  SpoolsInv'
<1>1. Discipline /\ Ready(t) /\ On(t) \in Streams
  BY FirstStep DEF SpoolsInv
<1>2. /\ program' = program /\ sessionLock' = sessionLock /\ requests'[t] = what
      /\ \A u \in Tabs \ {t} : requests'[u] = requests[u]
  BY <1>1, AskIs
<1>3. /\ own'[t] = own[t] /\ spools'[t] = spools[t] /\ synced'[t] = synced[t]
      /\ recording' = recording /\ manifest' = manifest /\ \A s \in Streams : SameSpool(s)
  BY DEF durable, session, SameSpool
<1>4. Ready(t)'
  <2>1. \A f \in FactNames, s \in Streams : Holds(t, f, s) => Holds(t, f, s)'
    BY <1>2, <1>3, FactsStay
  <2> QED BY <1>1, <1>2, <2>1, ReadyStays
<1>5. Placed(t)'
  <2>1. PICK s \in Streams : On(t) = s
    BY <1>1
  <2>2. On(t)' = s /\ \A steps : At(t, steps)' <=> At(t, steps)
    BY <1>2, <2>1 DEF On, At
  <2>3. Fits(t, s, what)
    BY <2>1
  <2>4. /\ Exact(s)' = Exact(s) /\ Begun(s)' = Begun(s) /\ Committed(s)' = Committed(s)
        /\ CutTo(s)' = CutTo(s) /\ CutBack(s)' = CutBack(s) /\ Tailed(s)' = Tailed(s)
        /\ AppendPlan(s)' = AppendPlan(s) /\ IsCapturing(s)' = IsCapturing(s)
        /\ meta'[s] = meta[s] /\ stored'[s] = stored[s]
        /\ intent'[s] = intent[s] /\ cleanup'[s] = cleanup[s]
    BY <1>3, SameIs DEF SameSpool
  <2>5. \A a : Ask0(a)' = Ask0(a)
    BY SameRequests
  <2>6. /\ LoadFits(s, what) => LoadFits(s, what)'
        /\ ForgetFits(s, what) => ForgetFits(s, what)'
    BY <1>3, <2>4, <2>5 DEF LoadFits, ForgetFits
  <2>7. RestoreFits(s, what) => RestoreFits(s, what)'
    BY <1>3, <2>4, <2>5 DEF RestoreFits, Unacknowledged
  <2>8. /\ FinalFits(s, what, "seal") => FinalFits(s, what, "seal")'
        /\ FinalFits(s, what, "mark") => FinalFits(s, what, "mark")'
    BY <2>4, <2>5 DEF FinalFits
  <2>9. AppendFits(s, what) => AppendFits(s, what)'
    BY <2>4 DEF AppendFits
  <2>10. Fits(t, s, what)'
    BY <1>3, <2>2, <2>3, <2>4, <2>6, <2>7, <2>8, <2>9 DEF Fits
  <2> QED BY <1>2, <2>2, <2>10 DEF Placed
<1>6. sessionLock' = t => manifest # None
  BY <1>2, LockedSession
<1>7. Attends(t)
  <2>1. At(t, CaptureSteps) => sessionLock = t
    BY <1>1, FirstStep DEF At
  <2> QED BY <1>2, <2>1 DEF Attends, At, On
<1> QED BY <1>1, <1>2, <1>4, <1>5, <1>6, <1>7, QuietSession

(***************************************************************************)
(* What a step under the session lock leaves to the following ones, when   *)
(* what it does to the spools spoils nothing of what was inspected.        *)
(***************************************************************************)
Unspoilt(t) == \A s \in Streams :
  /\ Clean(s) => Clean(s)'
  /\ Settled(s) => Settled(s)'
  /\ Installed(t, s) => Installed(t, s)'

LEMMA FactsPass ==
  ASSUME NEW t \in Tabs, own'[t] = own[t],
         t = Recorder => synced'[t] = synced[t] /\ recording' = recording,
         sessionLock = t => sessionLock' = t /\ manifest' = manifest /\ Unspoilt(t)
  PROVE  \A f \in FactNames, s \in Streams : Holds(t, f, s) => Holds(t, f, s)'
<1> SUFFICES ASSUME NEW f \in FactNames, NEW s \in Streams, Holds(t, f, s)
             PROVE  Holds(t, f, s)'
  OBVIOUS
<1>1. CASE f \in {"clean", "installed", "settled"}
  BY <1>1 DEF Holds, Unspoilt
<1>2. CASE f = "knows"
  BY <1>2 DEF Holds
<1>3. CASE f \in {"live", "away"}
  BY <1>3 DEF Holds
<1>4. CASE f \in {"owns", "kept", "capturing", "sealed", "discarded"}
  <2>1. \A states : Owns(t, states)' = Owns(t, states)
    BY DEF Owns
  <2> QED BY <1>4, <2>1 DEF Holds
<1> QED BY <1>1, <1>2, <1>3, <1>4 DEF FactNames

LEMMA Finishes ==
  ASSUME SpoolsInv, NEW t \in Tabs, At(t, PlainSteps \cup TurnedSteps), Finish(t),
         own'[t] = own[t], t = Recorder => synced'[t] = synced[t] /\ recording' = recording,
         manifest' = manifest, Unspoilt(t),
         sessionLock' = t => \A f \in FactNames, s \in Streams :
           Gives(Head(program[t]), f, s) => Holds(t, f, s)'
  PROVE  Ready(t)' /\ Placed(t)'
<1>1. Discipline /\ Ready(t) /\ program[t] # <<>>
  BY DEF SpoolsInv, At
<1>2. GoTo(t, Rest(t))
  BY DEF Finish
<1>3. sessionLock = t /\ Rest(t) \in Plain
  BY <1>1, FirstStep DEF At
<1>4. program'[t] = Rest(t) /\ requests'[t] = <<>> /\ (Rest(t) # <<>> => sessionLock' = t)
  BY <1>1, <1>2, <1>3, GoToIs
<1>5. Rest(t) # <<>> => \A f \in FactNames, s \in Streams : Passes(t, f, s) => Holds(t, f, s)'
  BY <1>4, FactsPass DEF Passes
<1>6. Ready(t)'
  BY <1>1, <1>4, <1>5, ReadyGoesOn
<1>7. Rest(t) # <<>> => Head(Rest(t)).do \in PlainSteps
  BY <1>3, PlainProgram
<1>8. ASSUME program'[t] # <<>> PROVE Finds(t, On(t))'
  BY <1>4, <1>7, <1>8 DEF Finds, At, PlainSteps
<1> QED BY <1>4, <1>6, <1>8 DEF Placed

\* The step that another one turns into finds its stream as it needs it.
Welcomes(t, x, s) ==
  /\ x = "match" => meta[s] # None /\ ~Loose(s)
  /\ x = "rollback" => IsCapturing(s) /\ Unacknowledged(s)
  /\ x \in {"erase", "drop"} =>
       /\ own[t] = manifest /\ Owns(t, {"discarded"})
       /\ spools[t][s] # None /\ spools[t][s].state = "deleting" /\ Clean(s)
       /\ meta[s] = None \/ meta[s] = spools[t][s]

LEMMA TurnsOn ==
  ASSUME SpoolsInv, NEW t \in Tabs, At(t, PlainSteps \cup TurnedSteps), NEW x \in TurnedSteps,
         GoTo(t, <<Do(x, On(t))>> \o Rest(t)),
         own'[t] = own[t], t = Recorder => synced'[t] = synced[t] /\ recording' = recording,
         manifest' = manifest, Unspoilt(t),
         \A f \in FactNames, s \in Streams :
           Gives(Head(program[t]), f, s) => Gives(Do(x, On(t)), f, s),
         \A s \in Streams : On(t) = s => Welcomes(t, x, s)'
  PROVE  Ready(t)' /\ Placed(t)'
<1>1. Discipline /\ Ready(t) /\ program[t] # <<>>
  BY DEF SpoolsInv, At
<1>2. sessionLock = t /\ Rest(t) \in Plain /\ On(t) \in Streams
  BY <1>1, FirstStep DEF At
<1>3. PICK s \in Streams : On(t) = s
  BY <1>2
<1> DEFINE p == <<Do(x, s)>> \o Rest(t)
<1>4. p \in Turned /\ Do(x, s) \in AnyStep
  BY <1>2, <1>3 DEF Turned, Do, AnyStep
<1>5. p # <<>> /\ Head(p) = Do(x, s)
  <2>1. Rest(t) \in Seq(AnyStep) /\ Do(x, s) \in AnyStep
    BY <1>2, <1>4, PlainSeq
  <2> HIDE DEF Do
  <2> QED BY <2>1, ConcatEqualIffEmpty
<1>6. GoTo(t, p)
  BY <1>3
<1> HIDE DEF p
<1>7. program'[t] = p /\ requests'[t] = <<>> /\ sessionLock' = t
  BY <1>1, <1>2, <1>5, <1>6, GoToIs
<1>8. \A f \in FactNames, r \in Streams : Holds(t, f, r) => Holds(t, f, r)'
  BY <1>7, FactsPass
<1>9. Welcomes(t, x, s)'
  BY <1>3
<1>10. \A f \in FactNames, r \in Streams : Needs(Do(x, s), f, r) => Holds(t, f, r)'
  <2> SUFFICES ASSUME NEW f \in FactNames, NEW r \in Streams, Needs(Do(x, s), f, r)
               PROVE  Holds(t, f, r)'
    OBVIOUS
  <2>1. x \in {"erase", "drop"} /\ f \in {"knows", "discarded"}
    BY DEF Needs, Do, TurnedSteps, CaptureSteps
  <2>2. (own[t] = manifest /\ Owns(t, {"discarded"}))'
    BY <1>9, <2>1 DEF Welcomes
  <2>3. CASE f = "knows"
    BY <1>7, <2>2, <2>3 DEF Holds
  <2>4. CASE f = "discarded"
    BY <2>2, <2>4 DEF Holds
  <2> QED BY <2>1, <2>3, <2>4
<1>11. Ready(t)'
  <2>1. \A f \in FactNames : ~Loses(Do(x, s), f)
    BY DEF Loses, Do, TurnedSteps, CaptureSteps
  <2>2. \A f \in FactNames, r \in Streams :
          Passes(t, f, r) => Holds(t, f, r)' \/ Gives(Do(x, s), f, r)
    BY <1>3, <1>8 DEF Passes
  <2>3. program'[t] = <<Do(x, On(t))>> \o Rest(t)
    BY <1>3, <1>7 DEF p
  <2> QED BY <1>1, <1>3, <1>4, <1>10, <2>1, <2>2, <2>3, ReadyTurns
<1>12. Placed(t)'
  <2>1. On(t)' = s /\ \A steps : At(t, steps)' <=> x \in steps
    BY <1>5, <1>7 DEF On, At, Do
  <2>2. Finds(t, s)'
    <3>1. ~At(t, {"repair"})' /\ ~At(t, {"publish"})' /\ ~At(t, {"recheck"})'
          /\ ~At(t, {"acknowledge", "reacknowledge"})' /\ ~At(t, {"acknowledge"})'
      BY <2>1 DEF TurnedSteps
    <3>2. /\ At(t, {"match"})' <=> x = "match"
          /\ At(t, {"rollback", "repair"})' <=> x = "rollback"
          /\ At(t, {"erase", "drop"})' <=> x \in {"erase", "drop"}
      BY <2>1 DEF TurnedSteps
    <3> QED BY <1>9, <3>1, <3>2 DEF Finds, Welcomes
  <2> QED BY <1>7, <2>1, <2>2 DEF Placed
<1> QED BY <1>11, <1>12

\* A step that changes nothing turns into another one.
LEMMA TurnStays ==
  ASSUME SpoolsInv, NEW t \in Tabs, At(t, PlainSteps \cup TurnedSteps), NEW x \in TurnedSteps,
         GoTo(t, <<Do(x, On(t))>> \o Rest(t)), UNCHANGED <<durable, session, taken, refused>>,
         \A f \in FactNames, s \in Streams :
           Gives(Head(program[t]), f, s) => Gives(Do(x, On(t)), f, s),
         \A s \in Streams : On(t) = s => Welcomes(t, x, s)
  PROVE  SpoolsInv'
<1>1. Discipline /\ Discipline' /\ On(t) \in Streams /\ sessionLock = t
  BY GoesOnKeeps, FirstStep DEF SpoolsInv, At
<1>2. /\ own'[t] = own[t] /\ spools'[t] = spools[t] /\ synced'[t] = synced[t]
      /\ recording' = recording /\ manifest' = manifest /\ \A s \in Streams : SameSpool(s)
  BY DEF durable, session, SameSpool
<1>3. Unspoilt(t)
  <2> SUFFICES ASSUME NEW s \in Streams
               PROVE  /\ Clean(s)' = Clean(s) /\ Settled(s)' = Settled(s)
                      /\ Installed(t, s)' = Installed(t, s)
    BY DEF Unspoilt
  <2>1. Clean(s)' = Clean(s) /\ Settled(s)' = Settled(s) /\ meta'[s] = meta[s]
    BY <1>2, SameIs DEF SameSpool
  <2>2. Installed(t, s)' = Installed(t, s)
    BY <1>2, <2>1 DEF Installed
  <2> QED BY <2>1, <2>2
<1>4. ASSUME NEW s \in Streams, On(t) = s PROVE Welcomes(t, x, s)'
  <2>1. /\ Clean(s)' = Clean(s) /\ Loose(s)' = Loose(s) /\ IsCapturing(s)' = IsCapturing(s)
        /\ Committed(s)' = Committed(s) /\ meta'[s] = meta[s] /\ intent'[s] = intent[s]
    BY <1>2, SameIs DEF SameSpool
  <2>2. Owns(t, {"discarded"})' = Owns(t, {"discarded"})
    BY <1>2 DEF Owns
  <2>3. Welcomes(t, x, s)
    BY <1>4
  <2> QED BY <1>2, <2>1, <2>2, <2>3 DEF Welcomes, Unacknowledged
<1>5. Ready(t)' /\ Placed(t)'
  BY <1>2, <1>3, <1>4, TurnsOn
<1>6. Attends(t)
  BY DEF Attends, At, PlainSteps, TurnedSteps, CaptureSteps
<1>7. \A u \in Tabs \ {t} : /\ program'[u] = program[u] /\ requests'[u] = requests[u]
                            /\ sessionLock' = u <=> sessionLock = u
  BY <1>1, GoToIs
<1> QED BY <1>1, <1>5, <1>6, <1>7, LockedSession, QuietSession

(***************************************************************************)
(* The steps, one by one.                                                  *)
(***************************************************************************)
LEMMA ConcatIs ==
  ASSUME NEW S, NEW p \in Seq(S), NEW q \in Seq(S), NEW r \in Seq(S),
         Len(r) = Len(p) + Len(q),
         \A i \in 1..(Len(p) + Len(q)) : r[i] = IF i <= Len(p) THEN p[i] ELSE q[i - Len(p)]
  PROVE  p \o q = r
<1>1. /\ p \o q \in Seq(S) /\ Len(p \o q) = Len(p) + Len(q)
      /\ \A i \in 1..(Len(p) + Len(q)) : (p \o q)[i] = r[i]
  BY ConcatProperties
<1> QED BY <1>1, SeqEqual

LEMMA FourRequests ==
  ASSUME NEW a, NEW b, NEW c, NEW d
  PROVE  <<a, b>> \o <<c, d>> = <<a, b, c, d>>
<1> DEFINE S == {a, b, c, d}
           p == <<a, b>>
           q == <<c, d>>
           r == <<a, b, c, d>>
<1>1. p \in Seq(S) /\ q \in Seq(S) /\ r \in Seq(S)
  OBVIOUS
<1>2. Len(p) = 2 /\ Len(q) = 2 /\ Len(r) = 4
  OBVIOUS
<1>3. \A i \in 1..4 : r[i] = IF i <= 2 THEN p[i] ELSE q[i - 2]
  OBVIOUS
<1> HIDE DEF S, p, q, r
<1>4. Len(r) = Len(p) + Len(q)
  BY <1>2
<1>5. \A i \in 1..(Len(p) + Len(q)) : r[i] = IF i <= Len(p) THEN p[i] ELSE q[i - Len(p)]
  BY <1>2, <1>3
<1>6. p \o q = r
  BY <1>1, <1>4, <1>5, ConcatIs
<1> QED BY <1>6 DEF p, q, r

LEMMA ThreeRequests ==
  ASSUME NEW a, NEW b, NEW c
  PROVE  <<a, b>> \o <<c>> = <<a, b, c>>
<1> DEFINE S == {a, b, c}
           p == <<a, b>>
           q == <<c>>
           r == <<a, b, c>>
<1>1. p \in Seq(S) /\ q \in Seq(S) /\ r \in Seq(S)
  OBVIOUS
<1>2. Len(p) = 2 /\ Len(q) = 1 /\ Len(r) = 3
  OBVIOUS
<1>3. \A i \in 1..3 : r[i] = IF i <= 2 THEN p[i] ELSE q[i - 2]
  OBVIOUS
<1> HIDE DEF S, p, q, r
<1>4. Len(r) = Len(p) + Len(q)
  BY <1>2
<1>5. \A i \in 1..(Len(p) + Len(q)) : r[i] = IF i <= Len(p) THEN p[i] ELSE q[i - Len(p)]
  BY <1>2, <1>3
<1>6. p \o q = r
  BY <1>1, <1>4, <1>5, ConcatIs
<1> QED BY <1>6 DEF p, q, r

LEMMA OneAndTwoRequests ==
  ASSUME NEW a, NEW b, NEW c
  PROVE  <<a>> \o <<b, c>> = <<a, b, c>>
<1> DEFINE S == {a, b, c}
           p == <<a>>
           q == <<b, c>>
           r == <<a, b, c>>
<1>1. p \in Seq(S) /\ q \in Seq(S) /\ r \in Seq(S)
  OBVIOUS
<1>2. Len(p) = 1 /\ Len(q) = 2 /\ Len(r) = 3
  OBVIOUS
<1>3. \A i \in 1..3 : r[i] = IF i <= 1 THEN p[i] ELSE q[i - 1]
  OBVIOUS
<1> HIDE DEF S, p, q, r
<1>4. Len(r) = Len(p) + Len(q)
  BY <1>2
<1>5. \A i \in 1..(Len(p) + Len(q)) : r[i] = IF i <= Len(p) THEN p[i] ELSE q[i - Len(p)]
  BY <1>2, <1>3
<1>6. p \o q = r
  BY <1>1, <1>4, <1>5, ConcatIs
<1> QED BY <1>6 DEF p, q, r

LEMMA FiveRequests ==
  ASSUME NEW a, NEW b, NEW c, NEW d, NEW e
  PROVE  <<a, b, c>> \o <<d, e>> = <<a, b, c, d, e>>
<1> DEFINE S == {a, b, c, d, e}
           p == <<a, b, c>>
           q == <<d, e>>
           r == <<a, b, c, d, e>>
<1>1. p \in Seq(S) /\ q \in Seq(S) /\ r \in Seq(S)
  OBVIOUS
<1>2. Len(p) = 3 /\ Len(q) = 2 /\ Len(r) = 5
  OBVIOUS
<1>3. \A i \in 1..5 : r[i] = IF i <= 3 THEN p[i] ELSE q[i - 3]
  OBVIOUS
<1> HIDE DEF S, p, q, r
<1>4. Len(r) = Len(p) + Len(q)
  BY <1>2
<1>5. \A i \in 1..(Len(p) + Len(q)) : r[i] = IF i <= Len(p) THEN p[i] ELSE q[i - Len(p)]
  BY <1>2, <1>3
<1>6. p \o q = r
  BY <1>1, <1>4, <1>5, ConcatIs
<1> QED BY <1>6 DEF p, q, r

LEMMA NoMoreRequests ==
  ASSUME NEW p, ASequence(p)
  PROVE  p \o <<>> = p /\ <<>> \o p = p
BY ConcatEmptySeq DEF ASequence

\* An inspection finds nothing that a stopped step does not explain.
LEMMA Explained ==
  ASSUME Types, NEW s \in Streams, SpoolInv(s), meta[s] # None
  PROVE  /\ ~IntentDisagrees(s) /\ ~CleanupDisagrees(s)
         /\ RewindPlan(s) \o SweepPlan(s) = <<>> => ~Loose(s)
         /\ RewindPlan(s) \o SweepPlan(s) # <<>> =>
              IsCapturing(s) /\ LoadFits(s, RewindPlan(s) \o SweepPlan(s))
<1>1. IsCapturing(s) => meta[s] = Capturing(meta[s].count)
  BY SpoolNumbers DEF IsCapturing, Capturing, Metas
<1>2. intent[s] # None \/ cleanup[s] # None => IsCapturing(s)
  BY DEF SpoolInv, Clean
<1>3. intent[s] # None => Begun(s) \/ Committed(s)
  BY <1>2 DEF SpoolInv
<1>4. ~IntentDisagrees(s)
  BY <1>1, <1>2, <1>3 DEF IntentDisagrees, Begun, Committed, Before, After
<1>5. ~CleanupDisagrees(s)
  BY <1>2 DEF CleanupDisagrees, SpoolInv
<1>6. intent[s] # None /\ meta[s] = Before(s) <=> Begun(s)
  BY <1>1, <1>2 DEF Begun, Before, Capturing
<1>7. Begun(s) => RewindPlan(s) = <<CutTo(s), Ask0("forget")>>
  BY <1>6 DEF RewindPlan, Rewind, CutTo, Ask0, Tailed, Begun
<1>8. ~Begun(s) => RewindPlan(s) = <<>>
  BY <1>6 DEF RewindPlan
<1>9. cleanup[s] # None => SweepPlan(s) = <<CutTo(s), Ask0("swept")>>
  BY <1>2 DEF SweepPlan, Sweep, SpoolInv, CutTo, Ask0
<1>10. cleanup[s] = None => SweepPlan(s) = <<>>
  BY DEF SweepPlan
<1>11. CASE Begun(s) /\ cleanup[s] # None
  <2>1. RewindPlan(s) \o SweepPlan(s) = <<CutTo(s), Ask0("forget"), CutTo(s), Ask0("swept")>>
    BY <1>7, <1>9, <1>11, FourRequests
  <2> QED BY <1>2, <1>4, <1>5, <1>11, <2>1 DEF LoadFits
<1>12. CASE Begun(s) /\ cleanup[s] = None
  <2>1. RewindPlan(s) \o SweepPlan(s) = <<CutTo(s), Ask0("forget")>>
    BY <1>7, <1>10, <1>12, TwoRequests, NoMoreRequests
  <2> QED BY <1>2, <1>4, <1>5, <1>12, <2>1 DEF LoadFits, Begun
<1>13. CASE ~Begun(s) /\ cleanup[s] # None
  <2>1. RewindPlan(s) \o SweepPlan(s) = <<CutTo(s), Ask0("swept")>>
    BY <1>8, <1>9, <1>13, TwoRequests, NoMoreRequests
  <2>2. intent[s] = None
    BY <1>2, <1>3, <1>13 DEF SpoolInv
  <2> QED BY <1>2, <1>4, <1>5, <1>13, <2>1, <2>2 DEF LoadFits
<1>14. CASE ~Begun(s) /\ cleanup[s] = None
  <2>1. RewindPlan(s) \o SweepPlan(s) = <<>>
    BY <1>8, <1>10, <1>14, NoRequests, NoMoreRequests
  <2> QED BY <1>4, <1>5, <1>14, <2>1 DEF Loose
<1> QED BY <1>11, <1>12, <1>13, <1>14

\* What a step gives and which program it is in: only these can.
LEMMA GivenBy ==
  ASSUME NEW t, NEW f \in FactNames, NEW s \in Streams, program[t] # <<>>,
         Gives(Head(program[t]), f, s)
  PROVE  \/ At(t, {"enter"}) /\ f = "knows"
         \/ At(t, {"load", "match", "rollback"}) /\ f = "clean" /\ On(t) = s
         \/ At(t, {"install"}) /\ f = "installed"
         \/ At(t, {"seal"}) /\ f = "settled" /\ On(t) = s
         \/ At(t, {"sealed"}) /\ f = "sealed"
         \/ At(t, {"discarded"}) /\ f = "discarded"
BY DEF Gives, At, On

LEMMA LoadSpoolGoes ==
  ASSUME SpoolsInv, NEW t \in Tabs, LoadSpool(t)
  PROVE  SpoolsInv'
<1>1. /\ At(t, {"load"}) /\ program[t] # <<>> /\ ~At(t, OuterSteps) /\ ~At(t, CaptureSteps)
      /\ At(t, PlainSteps \cup TurnedSteps) /\ ~At(t, {"append"})
  BY DEF LoadSpool, Waits, At, OuterSteps, CaptureSteps, PlainSteps
<1>2. Discipline /\ Discipline' /\ On(t) \in Streams /\ sessionLock = t
  BY <1>1, FirstStep, LoadSpoolKeeps DEF SpoolsInv, At
<1>3. PICK s \in Streams : On(t) = s
  BY <1>2
<1>4. Types /\ SpoolInv(s) /\ Agrees(s) /\ manifest # None
  BY <1>2, LockedSession DEF SpoolsInv
<1>5. UNCHANGED <<durable, session, taken>>
  BY DEF LoadSpool
<1> DEFINE work == RewindPlan(s) \o SweepPlan(s)
<1>6. CASE meta[s] = None
  <2>1. MayMiss
    BY <1>4, <1>6 DEF Agrees, MayMiss, SpoolInv, Types, Manifests, ManifestStates
  <2>2. Finish(t) /\ UNCHANGED refused
    BY <1>3, <1>6, <2>1 DEF LoadSpool
  <2>3. Clean(s)'
    BY <1>4, <1>5, <1>6 DEF SpoolInv, IsCapturing, Clean, durable
  <2>4. ASSUME sessionLock' = t, NEW f \in FactNames, NEW r \in Streams,
               Gives(Head(program[t]), f, r)
        PROVE  Holds(t, f, r)'
    <3>1. f = "clean" /\ r = s
      BY <1>1, <1>3, <2>4, GivenBy DEF At
    <3> QED BY <2>3, <2>4, <3>1 DEF Holds
  <2> QED BY <1>1, <1>5, <2>2, <2>4, FinishStays
<1>7. CASE meta[s] # None
  <2>1. ~(IntentDisagrees(s) \/ CleanupDisagrees(s))
    BY <1>4, <1>7, Explained
  <2>2. /\ UNCHANGED refused
        /\ \/ work = <<>> /\ GoTo(t, <<Do("match", On(t))>> \o Rest(t))
           \/ work # <<>> /\ Ask(t, work)
    BY <1>3, <1>7, <2>1 DEF LoadSpool
  <2>3. CASE work = <<>> /\ GoTo(t, <<Do("match", On(t))>> \o Rest(t))
    <3>1. ~Loose(s)
      BY <1>4, <1>7, <2>3, Explained
    <3>2. \A r \in Streams : On(t) = r => Welcomes(t, "match", r)
      BY <1>3, <1>7, <3>1 DEF Welcomes
    <3>3. \A f \in FactNames, r \in Streams :
            Gives(Head(program[t]), f, r) => Gives(Do("match", On(t)), f, r)
      BY <1>1 DEF Gives, At, Do, On
    <3>4. "match" \in TurnedSteps
      BY DEF TurnedSteps
    <3> QED BY <1>1, <1>5, <2>2, <2>3, <3>2, <3>3, <3>4, TurnStays
  <2>4. CASE work # <<>> /\ Ask(t, work)
    <3>1. IsCapturing(s) /\ LoadFits(s, work)
      BY <1>4, <1>7, <2>4, Explained
    <3> HIDE DEF work
    <3>2. Fits(t, s, work)
      BY <1>1, <1>7, <3>1 DEF Fits, At
    <3> QED BY <1>1, <1>2, <1>3, <1>5, <2>2, <2>4, <3>2, AskStays
  <2> QED BY <2>2, <2>3, <2>4
<1> QED BY <1>6, <1>7

LEMMA ListSpoolGoes ==
  ASSUME SpoolsInv, NEW t \in Tabs, ListSpool(t)
  PROVE  SpoolsInv'
<1>1. /\ At(t, {"list"}) /\ program[t] # <<>> /\ ~At(t, OuterSteps) /\ ~At(t, CaptureSteps)
  BY DEF ListSpool, Waits, At, OuterSteps, CaptureSteps
<1>2. Discipline /\ Discipline' /\ On(t) \in Streams
  BY <1>1, FirstStep, ListSpoolKeeps DEF SpoolsInv
<1>3. PICK s \in Streams : On(t) = s
  BY <1>2
<1>4. Types /\ SpoolInv(s)
  BY DEF SpoolsInv
<1>5. UNCHANGED <<durable, session, taken>>
  BY DEF ListSpool
<1> DEFINE work == RewindPlan(s) \o SweepPlan(s)
<1>6. meta[s] # None => ~(IntentDisagrees(s) \/ CleanupDisagrees(s))
  BY <1>4, Explained
<1>7. /\ UNCHANGED refused
      /\ \/ Finish(t)
         \/ meta[s] # None /\ work # <<>> /\ Ask(t, work)
  BY <1>3, <1>6 DEF ListSpool
<1>8. CASE Finish(t)
  <2>1. \A f \in FactNames, r \in Streams : ~Gives(Head(program[t]), f, r)
    BY <1>1, GivenBy DEF At
  <2> QED BY <1>1, <1>5, <1>7, <1>8, <2>1, FinishStays
<1>9. CASE meta[s] # None /\ work # <<>> /\ Ask(t, work)
  <2>1. IsCapturing(s) /\ LoadFits(s, work)
    BY <1>4, <1>9, Explained
  <2> HIDE DEF work
  <2>2. Fits(t, s, work)
    BY <1>1, <1>9, <2>1 DEF Fits, At
  <2> QED BY <1>1, <1>2, <1>3, <1>5, <1>7, <1>9, <2>2, AskStays
<1> QED BY <1>7, <1>8, <1>9

\* A tab at a step of the session, that has not asked for anything.
LEMMA Arrives ==
  ASSUME SpoolsInv, NEW t \in Tabs, program[t] # <<>>
  PROVE  /\ Discipline /\ Types /\ Ready(t) /\ On(t) \in Streams
         /\ SpoolInv(On(t)) /\ Agrees(On(t))
         /\ requests[t] = <<>> => Finds(t, On(t))
         /\ At(t, PlainSteps \cup TurnedSteps \cup CaptureSteps) =>
              sessionLock = t /\ manifest # None /\ manifest \in Manifests
         /\ At(t, PlainSteps) \/ At(t, TurnedSteps) \/ At(t, CaptureSteps)
              => At(t, PlainSteps \cup TurnedSteps \cup CaptureSteps)
<1>1. Discipline /\ Types /\ Ready(t) /\ Placed(t)
  BY DEF SpoolsInv
<1>2. On(t) \in Streams
  BY <1>1, FirstStep
<1>3. SpoolInv(On(t)) /\ Agrees(On(t))
  BY <1>2 DEF SpoolsInv
<1>4. requests[t] = <<>> => Finds(t, On(t))
  BY <1>1 DEF Placed
<1>5. At(t, PlainSteps \cup TurnedSteps \cup CaptureSteps) =>
        sessionLock = t /\ manifest # None /\ manifest \in Manifests
  BY <1>1, FirstStep, LockedSession
<1> QED BY <1>1, <1>2, <1>3, <1>4, <1>5 DEF At

LEMMA MatchSpoolGoes ==
  ASSUME SpoolsInv, NEW t \in Tabs, MatchSpool(t)
  PROVE  SpoolsInv'
<1>1. /\ At(t, {"match"}) /\ program[t] # <<>> /\ ~At(t, OuterSteps) /\ ~At(t, CaptureSteps)
      /\ At(t, TurnedSteps) /\ At(t, PlainSteps \cup TurnedSteps) /\ requests[t] = <<>>
  BY DEF MatchSpool, Waits, At, OuterSteps, CaptureSteps, PlainSteps, TurnedSteps
<1>2. Discipline' /\ UNCHANGED <<durable, session, taken>>
  BY MatchSpoolKeeps DEF SpoolsInv, MatchSpool
<1>3. PICK s \in Streams : On(t) = s
  BY <1>1, Arrives
<1>4. /\ Types /\ SpoolInv(s) /\ Agrees(s) /\ manifest # None /\ manifest \in Manifests
      /\ meta[s] # None /\ ~Loose(s)
  BY <1>1, <1>3, Arrives DEF Finds
<1>5. /\ manifest.count[s] \in Nat /\ manifest.state \in ManifestStates
      /\ meta[s].count \in Nat /\ meta[s].state \in SpoolStates
      /\ intent[s] # None => intent[s].from \in Nat
  BY <1>4, StreamTypes
<1>6. cleanup[s] = None /\ (intent[s] # None => Committed(s) /\ IsCapturing(s))
  BY <1>4 DEF Loose, SpoolInv, Clean
<1>7. StateMatches(meta[s].state, manifest.count[s] > 0)
  <2>1. Settled(s) /\ meta[s].state # "deleting" => meta[s].count = manifest.count[s]
    BY <1>4, <1>5 DEF Settled, Agrees, Clean, Committed
  <2>2. manifest.state # "discarded" => meta[s].state # "deleting"
    BY <1>4 DEF Agrees
  <2>3. manifest.state # "capturing" => Settled(s)
    BY <1>4 DEF Agrees
  <2>4. CASE manifest.state = "capturing"
    BY <1>5, <2>2, <2>4 DEF StateMatches, SpoolStates
  <2>5. CASE manifest.state = "discarded"
    BY <2>5 DEF StateMatches
  <2>6. CASE manifest.state = "sealed"
    <3>1. meta[s].state = IF manifest.count[s] > 0 THEN "sealed" ELSE "capturing"
      BY <1>4, <1>5, <2>1, <2>2, <2>3, <2>6 DEF Settled
    <3> QED BY <2>6, <3>1 DEF StateMatches
  <2> QED BY <1>5, <2>4, <2>5, <2>6 DEF ManifestStates
<1>8. Settle(t, s, manifest.count[s])
  BY <1>3, <1>7 DEF MatchSpool
<1>9. CASE intent[s] = None
  <2>1. meta[s].count = manifest.count[s]
    BY <1>4, <1>9 DEF Agrees, Committed
  <2>2. Finish(t) /\ UNCHANGED refused
    BY <1>8, <1>9, <2>1 DEF Settle
  <2>3. Clean(s)'
    BY <1>2, <1>6, <1>9 DEF Clean, durable
  <2>4. ASSUME sessionLock' = t, NEW f \in FactNames, NEW r \in Streams,
               Gives(Head(program[t]), f, r)
        PROVE  Holds(t, f, r)'
    <3>1. f = "clean" /\ r = s
      BY <1>1, <1>3, <2>4, GivenBy DEF At
    <3> QED BY <2>3, <2>4, <3>1 DEF Holds
  <2> QED BY <1>1, <1>2, <2>2, <2>4, FinishStays
<1>10. CASE intent[s] # None
  <2>1. meta[s] = After(s)
    BY <1>4, <1>6, <1>10, SpoolNumbers DEF Committed, IsCapturing, After, Capturing, Metas
  <2>2. manifest.count[s] \in {intent[s].from, intent[s].from + 1}
    BY <1>4, <1>6, <1>10 DEF Agrees
  <2>3. CASE manifest.count[s] = intent[s].from + 1
    <3>1. Ask(t, <<Request("forget", 0)>>) /\ UNCHANGED refused
      BY <1>8, <1>10, <2>1, <2>3 DEF Settle
    <3>2. Fits(t, s, <<Request("forget", 0)>>)
      <4>1. ForgetFits(s, <<Request("forget", 0)>>)
        BY <1>4, <1>6, <1>10, <2>3 DEF ForgetFits, Ask0, Committed
      <4> QED BY <1>1, <1>4, <1>6, <1>10, <4>1 DEF Fits, At
    <3> QED BY <1>1, <1>2, <1>3, <3>1, <3>2, OneRequest, AskStays
  <2>4. CASE manifest.count[s] # intent[s].from + 1
    <3>1. manifest.count[s] = intent[s].from
      BY <2>2, <2>4
    <3>2. StepsBack(t, s) /\ UNCHANGED refused
      BY <1>8, <1>10, <2>1, <2>4, <3>1 DEF Settle
    <3>3. GoTo(t, <<Do("rollback", On(t))>> \o Rest(t))
      BY <1>3, <3>2 DEF StepsBack
    <3>4. \A r \in Streams : On(t) = r => Welcomes(t, "rollback", r)
      BY <1>3, <1>4, <1>6, <1>10, <3>1 DEF Welcomes, Unacknowledged
    <3>5. \A f \in FactNames, r \in Streams :
            Gives(Head(program[t]), f, r) => Gives(Do("rollback", On(t)), f, r)
      BY <1>1 DEF Gives, At, Do, On
    <3>6. "rollback" \in TurnedSteps
      BY DEF TurnedSteps
    <3> QED BY <1>1, <1>2, <3>2, <3>3, <3>4, <3>5, <3>6, TurnStays
  <2> QED BY <2>3, <2>4
<1> QED BY <1>9, <1>10

LEMMA RestorePrefixGoes ==
  ASSUME SpoolsInv, NEW t \in Tabs, RestorePrefix(t)
  PROVE  SpoolsInv'
<1>1. At(t, {"rollback", "repair"}) /\ program[t] # <<>> /\ requests[t] = <<>>
  BY DEF RestorePrefix, Waits, At
<1>2. Discipline' /\ UNCHANGED <<durable, session, taken, refused>>
  BY RestorePrefixKeeps DEF SpoolsInv, RestorePrefix
<1>3. PICK s \in Streams : On(t) = s
  BY <1>1, Arrives
<1>4. IsCapturing(s) /\ Unacknowledged(s)
  BY <1>1, <1>3, Arrives DEF Finds
<1>5. Ask(t, RestorePlan(s)) /\ RestorePlan(s) # <<>>
  BY <1>3, PlansAreSequences DEF RestorePrefix
<1>6. RestorePlan(s) =
        <<Ask0("back"), CutBack(s), Ask0("swept"), CutBack(s), Ask0("forget")>>
  <2>1. /\ Sweep(Chunks * intent[s].from) = <<CutBack(s), Ask0("swept")>>
        /\ Rewind(s) = <<CutBack(s), Ask0("forget")>>
        /\ <<Request("back", 0)>> = <<Ask0("back")>>
    BY DEF Sweep, Rewind, CutBack, Ask0
  <2>2. <<Ask0("back")>> \o <<CutBack(s), Ask0("swept")>>
          = <<Ask0("back"), CutBack(s), Ask0("swept")>>
    BY OneAndTwoRequests
  <2>3. <<Ask0("back"), CutBack(s), Ask0("swept")>> \o <<CutBack(s), Ask0("forget")>>
          = <<Ask0("back"), CutBack(s), Ask0("swept"), CutBack(s), Ask0("forget")>>
    BY FiveRequests
  <2> QED BY <2>1, <2>2, <2>3 DEF RestorePlan
<1>7. RestoreFits(s, RestorePlan(s))
  BY <1>4, <1>6 DEF RestoreFits
<1>8. Fits(t, s, RestorePlan(s))
  <2>1. meta[s] # None
    BY <1>4 DEF IsCapturing
  <2> QED BY <1>1, <1>4, <1>7, <2>1 DEF Fits, At
<1> QED BY <1>1, <1>2, <1>3, <1>5, <1>8, AskStays

LEMMA InstallGoes ==
  ASSUME SpoolsInv, NEW t \in Tabs, Install(t)
  PROVE  SpoolsInv'
<1>1. /\ At(t, {"install"}) /\ program[t] # <<>> /\ ~At(t, CaptureSteps)
      /\ At(t, PlainSteps) /\ At(t, PlainSteps \cup TurnedSteps)
  BY DEF Install, At, CaptureSteps, PlainSteps
<1>2. /\ Discipline /\ Discipline' /\ Finish(t)
      /\ UNCHANGED <<durable, own, synced, recording, taken, refused>>
      /\ spools' = [spools EXCEPT ![t] = meta]
  BY InstallKeeps DEF SpoolsInv, Install
<1>3. \A s \in Streams : Clean(s)
  BY <1>1, Arrives, Reliance
<1>4. /\ manifest' = manifest /\ meta' = meta /\ \A s \in Streams : SameSpool(s)
      /\ spools'[t] = meta /\ \A u \in Tabs \ {t} : spools'[u] = spools[u]
      /\ own' = own /\ synced' = synced /\ recording' = recording
  BY <1>2 DEF durable, SameSpool, SpoolsInv, Types
<1>5. \A s \in Streams : Clean(s)' /\ Settled(s)' = Settled(s) /\ Installed(t, s)'
  <2> SUFFICES ASSUME NEW s \in Streams
               PROVE  Clean(s)' /\ Settled(s)' = Settled(s) /\ Installed(t, s)'
    OBVIOUS
  <2>1. Clean(s)' /\ Settled(s)' = Settled(s)
    BY <1>3, <1>4, SameIs
  <2>2. spools'[t][s] = meta'[s]
    BY <1>4
  <2> QED BY <2>1, <2>2 DEF Installed
<1>6. Unspoilt(t)
  BY <1>5 DEF Unspoilt
<1>7. ASSUME sessionLock' = t, NEW f \in FactNames, NEW r \in Streams,
             Gives(Head(program[t]), f, r)
      PROVE  Holds(t, f, r)'
  <2>1. f = "installed"
    BY <1>1, <1>7, GivenBy DEF At
  <2> QED BY <1>5, <1>7, <2>1 DEF Holds
<1>8. Ready(t)' /\ Placed(t)'
  BY <1>1, <1>2, <1>4, <1>6, <1>7, Finishes
<1>9. GoTo(t, Rest(t))
  BY <1>2 DEF Finish
<1>10. Apart(t)
  BY <1>2, <1>4, <1>9, GoToIs DEF Apart
<1>11. Types'
  BY <1>2, <1>4 DEF SpoolsInv, Types, durable
<1>12. LiveInv'
  BY <1>1, <1>3, <1>4, <1>5, <1>10, LiveWaits DEF Attends
<1>13. sessionLock' = t => manifest # None
  BY <1>1, Arrives
<1> QED BY <1>2, <1>8, <1>10, <1>11, <1>12, <1>13, QuietStep

\* The step fails, and the session of its tab no longer trusts what it knows.
LEMMA LosesSync ==
  ASSUME SpoolsInv, NEW t \in Tabs, Throw(t), LoseSync(t), UNCHANGED <<durable, taken, refused>>
  PROVE  SpoolsInv'
<1>1. Discipline /\ Discipline' /\ GoTo(t, <<>>)
  BY ThrowKeeps DEF SpoolsInv, Throw
<1>2. /\ synced' = [synced EXCEPT ![t] = FALSE] /\ UNCHANGED <<own, spools, recording>>
      /\ manifest' = manifest /\ \A s \in Streams : Clean(s)' = Clean(s)
  BY DEF LoseSync, durable, Clean
<1>3. synced'[t] = FALSE /\ \A u \in Tabs \ {t} : synced'[u] = synced[u]
  BY <1>2 DEF SpoolsInv, Types
<1>4. Types'
  BY <1>2 DEF SpoolsInv, Types, durable
<1>5. Apart(t)
  BY <1>1, <1>2, <1>3, GoToIs DEF Apart
<1>6. LiveInv'
  <2>1. CASE t = Recorder
    BY <1>2, <1>3, <2>1 DEF SpoolsInv, LiveInv
  <2>2. CASE t # Recorder
    BY <1>2, <1>5, <2>2, LiveStays
  <2> QED BY <2>1, <2>2
<1>7. Ready(t)' /\ Placed(t)'
  BY <1>1, GoToIs, ReadyEnds DEF Placed
<1>8. sessionLock' = t => manifest # None
  BY <1>1, GoToIs, LockedSession
<1> QED BY <1>1, <1>4, <1>5, <1>6, <1>7, <1>8, QuietStep

\* The tab takes the session lock.
LEMMA EntersSession ==
  ASSUME SpoolsInv, Discipline', NEW t \in Tabs, At(t, OuterSteps), sessionLock = None,
         sessionLock' = t, program' = [program EXCEPT ![t] = Tail(@)],
         UNCHANGED <<requests, durable, session, taken, refused>>,
         manifest # None, At(t, {"enter"}) => manifest = own[t]
  PROVE  SpoolsInv'
<1>1. Discipline /\ Ready(t) /\ program[t] # <<>> /\ On(t) \in Streams
  BY Arrives DEF At
<1>2. Rest(t) \in Starts(t) /\ requests[t] = <<>>
  BY <1>1, FirstStep, AskingStep DEF At, OuterSteps, LockingSteps
<1>3. /\ program'[t] = Rest(t) /\ \A u \in Tabs \ {t} : program'[u] = program[u]
      /\ requests' = requests
  BY DEF SpoolsInv, Discipline, Rest
<1>4. sessionLock # t /\ \A u \in Tabs \ {t} : sessionLock' = u <=> sessionLock = u
  BY CaptureAssumption
<1>5. /\ own'[t] = own[t] /\ spools'[t] = spools[t] /\ synced'[t] = synced[t]
      /\ recording' = recording /\ manifest' = manifest
  BY DEF durable, session
<1>6. \A f \in FactNames, s \in Streams : Holds(t, f, s) => Holds(t, f, s)'
  BY <1>4, <1>5, FactsStay
<1>7. ASSUME NEW f \in FactNames, NEW s \in Streams, Gives(Head(program[t]), f, s)
      PROVE  Holds(t, f, s)'
  <2>1. At(t, {"enter"}) /\ f = "knows"
    BY <1>1, <1>7, GivenBy DEF At, OuterSteps
  <2> QED BY <1>5, <2>1 DEF Holds
<1>8. Ready(t)'
  BY <1>1, <1>3, <1>6, <1>7, ReadyGoesOn DEF Passes
<1>9. Placed(t)'
  <2>1. program'[t] # <<>> => Head(program'[t]).do \in PlainSteps \cup {"append"}
    <3>1. CASE Rest(t) \in Plain
      BY <1>3, <3>1, PlainProgram
    <3>2. CASE \E s \in Streams : Rest(t) = Capture(s)
      <4>1. PICK s \in Streams : Rest(t) = Capture(s)
        BY <3>2
      <4>2. Head(Capture(s)) = Do("append", s)
        BY DEF Capture
      <4> QED BY <1>3, <4>1, <4>2 DEF Do
    <3> QED BY <1>2, <3>1, <3>2 DEF Starts
  <2>2. ASSUME program'[t] # <<>> PROVE Finds(t, On(t))'
    BY <2>1, <2>2 DEF Finds, At, PlainSteps
  <2> QED BY <1>2, <1>3, <2>2 DEF Placed
<1>10. Attends(t)
  BY DEF Attends, At, OuterSteps, CaptureSteps
<1> QED BY <1>3, <1>4, <1>8, <1>9, <1>10, QuietSession

LEMMA EnterGoes ==
  ASSUME SpoolsInv, NEW t \in Tabs, Enter(t)
  PROVE  SpoolsInv'
<1>1. At(t, {"enter"}) /\ At(t, OuterSteps) /\ program[t] # <<>>
  BY DEF Enter, At, OuterSteps
<1>2. Discipline' /\ sessionLock = None /\ UNCHANGED <<durable, taken, refused>>
  BY EnterSessionKeeps DEF SpoolsInv, Enter
<1>3. own[t] # None
  BY <1>1, Arrives, Reliance
<1>4. CASE Throw(t) /\ LoseSync(t)
  BY <1>2, <1>4, LosesSync
<1>5. CASE /\ manifest = own[t] /\ sessionLock' = t
           /\ program' = [program EXCEPT ![t] = Tail(@)]
           /\ UNCHANGED <<synced, requests, spoolLock, own, spools, recording>>
  <2>1. UNCHANGED <<requests, session>>
    BY <1>5 DEF session
  <2> QED BY <1>1, <1>2, <1>3, <1>5, <2>1, EntersSession
<1> QED BY <1>4, <1>5 DEF Enter

LEMMA LookGoes ==
  ASSUME SpoolsInv, NEW t \in Tabs, Look(t)
  PROVE  SpoolsInv'
<1>1. At(t, {"look"}) /\ At(t, OuterSteps) /\ ~At(t, {"enter"}) /\ ~At(t, CaptureSteps)
  BY DEF Look, At, OuterSteps, CaptureSteps
<1>2. Discipline' /\ sessionLock = None /\ UNCHANGED <<durable, session, taken, refused>>
  BY EnterSessionKeeps DEF SpoolsInv, Look
<1>3. CASE manifest = None
  BY <1>1, <1>2, <1>3, ThrowStays DEF Look
<1>4. CASE manifest # None
  BY <1>1, <1>2, <1>4, EntersSession DEF Look
<1> QED BY <1>3, <1>4

LEMMA HeadIs ==
  ASSUME NEW S, NEW x \in S, NEW q \in Seq(S)
  PROVE  <<x>> \o q # <<>> /\ Head(<<x>> \o q) = x
<1>1. <<x>> \in Seq(S)
  OBVIOUS
<1>2. <<x>> \o q # <<>>
  BY <1>1, ConcatEqualIffEmpty
<1>3. Head(<<x>> \o q) = x
  OBVIOUS
<1> QED BY <1>2, <1>3

\* A tab that holds the session lock lets it go and begins another program.
LEMMA LeaveGoes ==
  ASSUME SpoolsInv, NEW t \in Tabs, Leave(t)
  PROVE  SpoolsInv'
<1> DEFINE way == IF manifest.state = "discarded" THEN "retire" ELSE "adopt"
           p == Alone("look") \o EachStream("load") \o Alone(way)
<1>1. /\ At(t, {"leave"}) /\ At(t, PlainSteps) /\ program[t] # <<>> /\ ~At(t, CaptureSteps)
      /\ ~At(t, LockingSteps)
  BY DEF Leave, At, PlainSteps, CaptureSteps, LockingSteps
<1>2. /\ Discipline /\ Discipline' /\ UNCHANGED <<durable, session, requests, taken, refused>>
      /\ sessionLock' = None /\ program' = [program EXCEPT ![t] = p]
  BY LeaveKeeps DEF SpoolsInv, Leave
<1>3. requests[t] = <<>> /\ sessionLock = t
  BY <1>1, Arrives DEF Discipline
<1>4. p # <<>> /\ Head(p).do = "look"
  <2>1. p \in Entering(t) /\ p = Alone("look") \o (EachStream("load") \o Alone(way))
        /\ EachStream("load") \o Alone(way) \in Plain
    BY LookProgram DEF PlainSteps
  <2>2. EachStream("load") \o Alone(way) \in Seq(AnyStep)
    BY <2>1, PlainSeq
  <2>3. p # <<>>
    BY <2>1, EnteringProgram
  <2>4. Do("look", 1).do = "look" /\ Do("look", 1) \in AnyStep
    BY SomeStream DEF Do, AnyStep, OuterSteps
  <2>5. Head(p) = Do("look", 1)
    BY <2>1, <2>2, <2>4, HeadIs DEF Alone
  <2> QED BY <2>3, <2>4, <2>5
<1>5. Leads(OfAll({"away"}), p, {})
  BY LookingLeads
<1> HIDE DEF p
<1>6. /\ program'[t] = p /\ requests'[t] = <<>>
      /\ \A u \in Tabs \ {t} : /\ program'[u] = program[u] /\ requests'[u] = requests[u]
                               /\ sessionLock' = u <=> sessionLock = u
      /\ sessionLock' # t
  BY <1>2, <1>3, CaptureAssumption DEF Discipline
<1>7. t # Recorder \/ recording = None \/ own[t] = None
  <2>1. At(t, {"leave", "adopt", "retire"})
    BY <1>1 DEF At
  <2> QED BY <1>1, <2>1, Arrives, Reliance
<1>8. \A f \in FactNames, s \in Streams : <<f, s>> \in OfAll({"away"}) => Holds(t, f, s)'
  <2>1. t # Recorder \/ recording' = None \/ own'[t] = None
    BY <1>2, <1>7 DEF session
  <2>2. \A f \in FactNames, s \in Streams : <<f, s>> \in OfAll({"away"}) => f = "away"
    BY DEF OfAll
  <2> QED BY <2>1, <2>2 DEF Holds
<1>9. Ready(t)'
  BY <1>5, <1>6, <1>8, ReadyBegins
<1>10. Placed(t)'
  <2>1. Finds(t, On(t))'
    BY <1>4, <1>6 DEF Finds, At
  <2> QED BY <1>6, <2>1 DEF Placed
<1>11. Attends(t)
  BY <1>1 DEF Attends
<1> QED BY <1>2, <1>6, <1>9, <1>10, <1>11, QuietSession

LEMMA EnterPrograms ==
  ASSUME NEW N, NEW q \in Plain, Leads(OfAll({"knows"} \cup N), q, {}), NEW M,
         {"owns"} \cup N \subseteq M
  PROVE  /\ Leads(OfAll(M), Alone("enter") \o q, {})
         /\ Alone("enter") \o q # <<>> /\ Head(Alone("enter") \o q).do = "enter"
<1>1. q \in Seq(AnyStep)
  BY PlainSeq
<1> DEFINE A == OfAll({"owns"} \cup N)
           C == OfAll(M)
           r == Alone("enter") \o q
<1>2. Leads(A, r, {})
  BY <1>1, EnteringLeads
<1>3. \A f \in FactNames, s \in Streams :
        (<<f, s>> \in A => <<f, s>> \in C) /\ (<<f, s>> \in {} => <<f, s>> \in {})
  BY DEF OfAll
<1>4. Leads(C, r, {})
  <2> HIDE DEF A, C, r
  <2> QED BY <1>2, <1>3, LeadsFrom
<1>5. Do("enter", 1).do = "enter" /\ Do("enter", 1) \in AnyStep
  BY SomeStream DEF Do, AnyStep, OuterSteps
<1>6. Alone("enter") \o q # <<>> /\ Head(Alone("enter") \o q) = Do("enter", 1)
  BY <1>1, <1>5, HeadIs DEF Alone
<1> QED BY <1>4, <1>5, <1>6

\* What a session owns tells which programs it may begin.
LEMMA SealingBegins ==
  ASSUME NEW m, m.state = "capturing"
  PROVE  /\ Leads(OfAll({"owns", "kept"}), Alone("enter") \o Sealing, {})
         /\ Alone("enter") \o Sealing # <<>> /\ Head(Alone("enter") \o Sealing).do = "enter"
<1>1. Leads(OfAll({"knows", "kept"}), Sealing, {})
  BY SealingLeads, LeadsFrom
<1>2. {"knows"} \cup {"kept"} = {"knows", "kept"}
  OBVIOUS
<1>3. {"owns"} \cup {"kept"} \subseteq {"owns", "kept"}
  OBVIOUS
<1> QED BY <1>1, <1>2, <1>3, SealingIsPlain, EnterPrograms

LEMMA DiscardingBegins ==
  ASSUME NEW m, m.state \in ManifestStates
  PROVE  /\ Leads(OfAll({"owns"} \cup (Known(m) \ {"knows"})), Alone("enter") \o Discarding(m), {})
         /\ Alone("enter") \o Discarding(m) # <<>>
         /\ Head(Alone("enter") \o Discarding(m)).do = "enter"
<1> DEFINE N == Known(m) \ {"knows"}
<1>1. Leads(OfAll({"knows"} \cup N), Discarding(m), {})
  <2>1. {"knows"} \cup N = Known(m)
    BY DEF Known
  <2> QED BY <2>1, DiscardingLeads
<1> HIDE DEF N
<1>2. /\ Leads(OfAll({"owns"} \cup N), Alone("enter") \o Discarding(m), {})
      /\ Alone("enter") \o Discarding(m) # <<>>
      /\ Head(Alone("enter") \o Discarding(m)).do = "enter"
  BY <1>1, DiscardingIsPlain, EnterPrograms
<1> QED BY <1>2 DEF N

\* Whoever has a manifest of its own has the facts that its state tells.
LEMMA OwnerKnows ==
  ASSUME NEW t, NEW m, own'[t] = m, m # None, m.state \in ManifestStates,
         NEW f \in FactNames, NEW s \in Streams,
         \/ <<f, s>> \in OfAll({"owns"} \cup (Known(m) \ {"knows"}))
         \/ m.state = "capturing" /\ <<f, s>> \in OfAll({"owns", "kept", "capturing"})
  PROVE  Holds(t, f, s)'
<1>1. f \in {"owns"} \cup (Known(m) \ {"knows"})
        \/ (m.state = "capturing" /\ f \in {"owns", "kept", "capturing"})
  BY DEF OfAll
<1>2. \/ f = "owns"
      \/ f = "kept" /\ m.state = "capturing"
      \/ f = "capturing" /\ m.state = "capturing"
      \/ f = "sealed" /\ m.state = "sealed"
      \/ f = "discarded" /\ m.state = "discarded"
  BY <1>1 DEF Known, ManifestStates
<1>3. \A states : Owns(t, states)' <=> m.state \in states
  BY DEF Owns
<1> QED BY <1>2, <1>3 DEF Holds

LEMMA AdoptGoes ==
  ASSUME SpoolsInv, NEW t \in Tabs, Adopt(t)
  PROVE  SpoolsInv'
<1> DEFINE p == CASE At(t, {"retire"}) -> Alone("enter") \o Discarding(manifest)
                  [] manifest.state = "capturing" -> Alone("enter") \o Sealing
                  [] OTHER -> <<>>
<1>1. /\ At(t, {"adopt", "retire"}) /\ At(t, {"leave", "adopt", "retire"}) /\ At(t, PlainSteps)
      /\ program[t] # <<>> /\ ~At(t, CaptureSteps) /\ ~At(t, LockingSteps)
  BY DEF Adopt, At, PlainSteps, CaptureSteps, LockingSteps
<1>2. /\ Discipline /\ Discipline' /\ UNCHANGED <<durable, requests, recording, taken, refused>>
      /\ sessionLock' = None /\ program' = [program EXCEPT ![t] = p]
      /\ own' = [own EXCEPT ![t] = manifest] /\ spools' = [spools EXCEPT ![t] = meta]
      /\ synced' = [synced EXCEPT ![t] = TRUE]
  BY AdoptKeeps DEF SpoolsInv, Adopt
<1>3. /\ requests[t] = <<>> /\ sessionLock = t /\ manifest # None /\ manifest \in Manifests
      /\ manifest.state \in ManifestStates
  BY <1>1, Arrives DEF Discipline, Manifests
<1>4. \/ p = <<>>
      \/ p = Alone("enter") \o Discarding(manifest)
      \/ p = Alone("enter") \o Sealing /\ manifest.state = "capturing"
  OBVIOUS
<1> HIDE DEF p
<1>5. /\ program'[t] = p /\ requests'[t] = <<>>
      /\ \A u \in Tabs \ {t} : /\ program'[u] = program[u] /\ requests'[u] = requests[u]
                               /\ sessionLock' = u <=> sessionLock = u
      /\ sessionLock' # t
  BY <1>2, <1>3, CaptureAssumption DEF Discipline
<1>6. own'[t] = manifest /\ manifest' = manifest
      /\ \A u \in Tabs \ {t} : /\ own'[u] = own[u] /\ spools'[u] = spools[u]
                               /\ synced'[u] = synced[u]
  BY <1>2 DEF SpoolsInv, Types, durable
<1>7. Ready(t)' /\ Placed(t)'
  <2>1. CASE p = <<>>
    BY <1>5, <2>1, ReadyEnds DEF Placed
  <2>2. CASE p = Alone("enter") \o Discarding(manifest)
    <3>1. PICK m : m = manifest
      OBVIOUS
    <3>2. /\ Leads(OfAll({"owns"} \cup (Known(m) \ {"knows"})), p, {})
          /\ p # <<>> /\ Head(p).do = "enter"
      BY <1>3, <2>2, <3>1, DiscardingBegins
    <3>3. \A f \in FactNames, s \in Streams :
            <<f, s>> \in OfAll({"owns"} \cup (Known(m) \ {"knows"})) => Holds(t, f, s)'
      BY <1>3, <1>6, <3>1, OwnerKnows
    <3>4. Ready(t)'
      BY <1>5, <3>2, <3>3, ReadyBegins
    <3>5. Finds(t, On(t))'
      BY <1>5, <3>2 DEF Finds, At
    <3> QED BY <1>5, <3>4, <3>5 DEF Placed
  <2>3. CASE p = Alone("enter") \o Sealing /\ manifest.state = "capturing"
    <3>1. PICK m : m = manifest
      OBVIOUS
    <3>2. /\ Leads(OfAll({"owns", "kept"}), p, {}) /\ p # <<>> /\ Head(p).do = "enter"
      BY <2>3, <3>1, SealingBegins
    <3>3. \A f \in FactNames, s \in Streams :
            <<f, s>> \in OfAll({"owns", "kept"}) => Holds(t, f, s)'
      <4>1. \A f, s : <<f, s>> \in OfAll({"owns", "kept"}) =>
              <<f, s>> \in OfAll({"owns", "kept", "capturing"})
        BY DEF OfAll
      <4> QED BY <1>3, <1>6, <2>3, <3>1, <4>1, OwnerKnows
    <3>4. Ready(t)'
      BY <1>5, <3>2, <3>3, ReadyBegins
    <3>5. Finds(t, On(t))'
      BY <1>5, <3>2 DEF Finds, At
    <3> QED BY <1>5, <3>4, <3>5 DEF Placed
  <2> QED BY <1>4, <2>1, <2>2, <2>3
<1>8. Apart(t)
  BY <1>2, <1>5, <1>6 DEF Apart
<1>9. Types'
  BY <1>2, <1>3 DEF SpoolsInv, Types, durable
<1>10. LiveInv'
  <2>1. CASE t = Recorder
    <3>1. recording = None \/ own[t] = None
      BY <1>1, <2>1, Arrives, Reliance
    <3>2. recording = None
      BY <1>3, <2>1, <3>1 DEF SpoolsInv, LiveInv
    <3> QED BY <1>2, <3>2 DEF LiveInv
  <2>2. CASE t # Recorder
    BY <1>2, <1>8, <2>2, LiveStays DEF durable, Clean
  <2> QED BY <2>1, <2>2
<1> QED BY <1>2, <1>3, <1>7, <1>8, <1>9, <1>10, QuietStep

\* The recorder gives up the stream it works on.
LEMMA LiveGap ==
  ASSUME SpoolsInv, At(Recorder, CaptureSteps), NEW s \in Streams, On(Recorder) = s,
         Gap(Recorder, s), own' = own, synced' = synced, manifest' = manifest,
         \A r \in Streams \ {s} : SameSpool(r)
  PROVE  LiveInv'
<1>1. recording' = IF recording # None THEN recording \ {s} ELSE recording
  BY DEF Gap
<1>2. recording # None => recording \in SUBSET Streams
  BY DEF SpoolsInv, Types
<1>3. \A r \in Streams \ {s} : ~Busy(r) /\ Clean(r)' = Clean(r)
  BY SameIs DEF Busy
<1>4. recording' # None => recording # None
  BY <1>1
<1>5. ASSUME recording' # None, synced'[Recorder], NEW r \in recording'
      PROVE  Clean(r)'
  <2>1. recording # None /\ r \in recording /\ r \in Streams \ {s}
    BY <1>1, <1>2, <1>4, <1>5
  <2> QED BY <1>3, <1>5, <2>1 DEF SpoolsInv, LiveInv
<1> QED BY <1>4, <1>5 DEF SpoolsInv, LiveInv

LEMMA AppendPacketGoes ==
  ASSUME SpoolsInv, NEW t \in Tabs, AppendPacket(t)
  PROVE  SpoolsInv'
<1>1. /\ At(t, {"append"}) /\ At(t, CaptureSteps) /\ program[t] # <<>> /\ requests[t] = <<>>
      /\ At(t, {"seal", "sealed", "discarded", "mark", "erase", "drop", "remove",
                "append", "publish", "acknowledge", "reacknowledge", "repair"})
  BY DEF AppendPacket, Waits, At, CaptureSteps
<1>2. Discipline /\ Discipline' /\ UNCHANGED <<durable, taken, refused>>
  BY AppendPacketKeeps DEF SpoolsInv, AppendPacket
<1>3. PICK s \in Streams : On(t) = s
  BY <1>1, Arrives
<1>4. /\ Types /\ SpoolInv(s) /\ Agrees(s) /\ manifest # None
      /\ t = Recorder /\ synced[t] /\ recording # None /\ s \in recording
      /\ own[t] = manifest /\ manifest.state = "capturing"
  BY <1>1, <1>3, Arrives, Reliance DEF Owns
<1>5. Clean(s) /\ meta[s] # None
  <2>1. ~Busy(s)
    BY <1>1, <1>4 DEF Busy
  <2> QED BY <1>4, <2>1 DEF SpoolsInv, LiveInv, Agrees
<1>6. CASE /\ meta[s] = spools[t][s] /\ meta[s].state = "capturing" /\ intent[s] = None
           /\ Ask(t, AppendPlan(s)) /\ UNCHANGED session
  <2>1. AppendFits(s, AppendPlan(s))
    <3>1. AppendPlan(s) = SubSeq(AppendPlan(s), 0 + 1, Chunks + 2)
      <4>1. PICK S : AppendPlan(s) \in Seq(S)
        BY AppendPlanIs
      <4>2. Len(AppendPlan(s)) = Chunks + 2
        BY AppendPlanIs
      <4>3. AppendPlan(s) = SubSeq(AppendPlan(s), 1, Len(AppendPlan(s)))
        BY <4>1, SubSeqFull
      <4> QED BY <4>2, <4>3
    <3>2. 0 \in 0..(Chunks + 1)
      BY CaptureAssumption
    <3> QED BY <1>5, <1>6, <3>1, <3>2 DEF AppendFits, Clean
  <2>2. Fits(t, s, AppendPlan(s))
    BY <1>1, <1>5, <1>6, <2>1 DEF Fits, At, IsCapturing
  <2>3. AppendPlan(s) # <<>>
    BY PlansAreSequences
  <2> QED BY <1>1, <1>2, <1>3, <1>6, <2>2, <2>3, AskStays
<1>7. CASE Throw(t) /\ Gap(t, s) /\ UNCHANGED <<own, spools, synced>>
  <2>1. manifest' = manifest /\ \A r \in Streams : SameSpool(r)
    BY <1>2 DEF durable, SameSpool
  <2>2. LiveInv'
    BY <1>1, <1>3, <1>4, <1>7, <2>1, LiveGap
  <2>3. GoTo(t, <<>>)
    BY <1>7 DEF Throw
  <2>4. Ready(t)' /\ Placed(t)'
    BY <1>2, <2>3, GoToIs, ReadyEnds DEF Placed
  <2>5. Apart(t)
    BY <1>2, <1>4, <1>7, <2>3, GoToIs DEF Apart
  <2>6. Types'
    <3>1. recording' \in (SUBSET Streams) \cup {None}
      BY <1>4, <1>7 DEF Gap, Types
    <3> QED BY <1>2, <1>4, <1>7, <3>1 DEF Types, durable
  <2> QED BY <1>2, <1>4, <2>2, <2>4, <2>5, <2>6, QuietStep
<1> QED BY <1>3, <1>6, <1>7 DEF AppendPacket

LEMMA AcknowledgeGoes ==
  ASSUME SpoolsInv, NEW t \in Tabs, Acknowledge(t)
  PROVE  SpoolsInv'
<1>1. /\ At(t, {"acknowledge", "reacknowledge"}) /\ At(t, CaptureSteps) /\ program[t] # <<>>
      /\ requests[t] = <<>>
  BY DEF Acknowledge, Waits, At, CaptureSteps
<1>2. Discipline /\ Discipline' /\ UNCHANGED <<durable, taken, refused>>
  BY AcknowledgeKeeps DEF SpoolsInv, Acknowledge
<1>3. PICK s \in Streams : On(t) = s
  BY <1>1, Arrives
<1>4. /\ Types /\ SpoolInv(s) /\ Agrees(s) /\ manifest # None
      /\ Counted(s) /\ ~Loose(s) /\ meta[s].count > 0
      /\ At(t, {"acknowledge"}) => spools[t][s] = meta[s]
  BY <1>1, <1>3, Arrives DEF Finds
<1>5. CASE intent[s] = None /\ Completed(t, s)
  <2>1. Clean(s)
    BY <1>4, <1>5 DEF Clean, Loose
  <2>2. Finish(t) /\ UNCHANGED session
    BY <1>1, <1>5 DEF Completed, At
  <2>3. Rest(t) = <<>>
    BY <1>1, <1>2, FirstStep, CaptureProgram DEF At, Rest
  <2>4. Throw(t)
    BY <2>2, <2>3 DEF Finish, Throw
  <2> QED BY <1>2, <1>3, <2>1, <2>2, <2>4, ThrowStays
<1>6. CASE intent[s] # None /\ Ask(t, <<Request("forget", 0)>>) /\ UNCHANGED <<session, told>>
  <2>1. Committed(s) /\ IsCapturing(s)
    BY <1>4, <1>6 DEF Loose, SpoolInv, Clean
  <2>2. ForgetFits(s, <<Request("forget", 0)>>)
    BY <1>4, <2>1 DEF ForgetFits, Ask0, Counted
  <2>3. Fits(t, s, <<Request("forget", 0)>>)
    <3>1. At(t, {"acknowledge"}) => spools[t][s] = meta[s]
      BY <1>4
    <3>2. ~At(t, {"load", "list"}) /\ ~At(t, {"rollback", "repair"}) /\ ~At(t, {"append"})
          /\ ~At(t, {"seal"}) /\ ~At(t, {"mark"})
      BY <1>1 DEF At
    <3> QED BY <1>4, <2>1, <2>2, <3>1, <3>2 DEF Fits, Counted
  <2> QED BY <1>1, <1>2, <1>3, <1>6, <2>3, OneRequest, AskStays
<1> QED BY <1>3, <1>5, <1>6 DEF Acknowledge

LEMMA FinalPlan ==
  ASSUME NEW s \in Streams, Clean(s), NEW ask
  PROVE  /\ SweepPlan(s) \o <<Request(ask, 0)>> = <<Ask0(ask)>>
         /\ FinalFits(s, <<Ask0(ask)>>, ask) /\ <<Ask0(ask)>> # <<>>
<1>1. SweepPlan(s) = <<>>
  BY DEF SweepPlan, Clean
<1>2. <<>> \o <<Ask0(ask)>> = <<Ask0(ask)>>
  BY OneRequest, NoMoreRequests
<1> QED BY <1>1, <1>2 DEF FinalFits, Clean, Ask0

LEMMA SealSpoolGoes ==
  ASSUME SpoolsInv, NEW t \in Tabs, SealSpool(t)
  PROVE  SpoolsInv'
<1>1. /\ At(t, {"seal"}) /\ At(t, {"seal", "mark"}) /\ At(t, {"seal", "sealed"})
      /\ At(t, {"seal", "sealed", "discarded", "mark", "erase", "drop", "remove",
                "append", "publish", "acknowledge", "reacknowledge", "repair"})
      /\ At(t, PlainSteps) /\ program[t] # <<>> /\ requests[t] = <<>>
      /\ ~At(t, OuterSteps) /\ ~At(t, CaptureSteps)
  BY DEF SealSpool, Waits, At, PlainSteps, OuterSteps, CaptureSteps
<1>2. Discipline' /\ UNCHANGED <<durable, session, taken, refused>>
  BY SealSpoolKeeps DEF SpoolsInv, SealSpool
<1>3. PICK s \in Streams : On(t) = s
  BY <1>1, Arrives
<1>4. /\ Types /\ SpoolInv(s) /\ Agrees(s) /\ manifest # None
      /\ Installed(t, s) /\ own[t] = manifest /\ manifest.state \in {"capturing", "sealed"}
  BY <1>1, <1>3, Arrives, Reliance DEF Owns
<1>5. /\ Clean(s) /\ meta[s] # None /\ meta[s].state # "deleting" /\ spools[t][s] = meta[s]
      /\ meta[s].count \in Nat /\ meta[s].state \in SpoolStates
  BY <1>4, StreamTypes DEF Installed, Agrees
<1>6. CASE /\ meta[s].state = "capturing" /\ meta[s].count > 0
           /\ Ask(t, SweepPlan(s) \o <<Request("seal", 0)>>)
  <2>1. Fits(t, s, <<Ask0("seal")>>)
    BY <1>1, <1>5, <1>6, FinalPlan DEF Fits, At, IsCapturing
  <2> QED BY <1>1, <1>2, <1>3, <1>5, <1>6, <2>1, FinalPlan, AskStays
<1>7. CASE ~(meta[s].state = "capturing" /\ meta[s].count > 0) /\ Finish(t)
  <2>1. Settled(s)
    BY <1>4, <1>5, <1>7 DEF Settled, SpoolInv, SpoolStates
  <2>2. Settled(s)'
    BY <1>2, <2>1, SameIs DEF durable, SameSpool
  <2>3. ASSUME sessionLock' = t, NEW f \in FactNames, NEW r \in Streams,
               Gives(Head(program[t]), f, r)
        PROVE  Holds(t, f, r)'
    <3>1. f = "settled" /\ r = s
      BY <1>1, <1>3, <2>3, GivenBy DEF At
    <3> QED BY <2>2, <2>3, <3>1 DEF Holds
  <2> QED BY <1>1, <1>2, <1>7, <2>3, FinishStays
<1> QED BY <1>3, <1>5, <1>6, <1>7 DEF SealSpool, Clean

LEMMA MarkSpoolGoes ==
  ASSUME SpoolsInv, NEW t \in Tabs, MarkSpool(t)
  PROVE  SpoolsInv'
<1>1. /\ At(t, {"mark"}) /\ At(t, {"seal", "mark"}) /\ At(t, {"mark", "erase", "drop", "remove"})
      /\ At(t, {"seal", "sealed", "discarded", "mark", "erase", "drop", "remove",
                "append", "publish", "acknowledge", "reacknowledge", "repair"})
      /\ At(t, PlainSteps) /\ At(t, PlainSteps \cup TurnedSteps)
      /\ program[t] # <<>> /\ requests[t] = <<>>
      /\ ~At(t, OuterSteps) /\ ~At(t, CaptureSteps)
  BY DEF MarkSpool, Waits, At, PlainSteps, OuterSteps, CaptureSteps
<1>2. Discipline' /\ UNCHANGED <<durable, session, taken, refused>>
  BY MarkSpoolKeeps DEF SpoolsInv, MarkSpool
<1>3. PICK s \in Streams : On(t) = s
  BY <1>1, Arrives
<1>4. Installed(t, s) /\ own[t] = manifest /\ Owns(t, {"discarded"})
  BY <1>1, <1>3, Arrives, Reliance
<1>5. \A f \in FactNames, r \in Streams : ~Gives(Head(program[t]), f, r)
  BY <1>1, GivenBy DEF At
<1>6. CASE Finish(t)
  BY <1>1, <1>2, <1>5, <1>6, FinishStays
<1>7. CASE Throw(t)
  BY <1>1, <1>2, <1>7, ThrowStays
<1>8. CASE /\ spools[t][s] # None /\ spools[t][s].state = "deleting"
           /\ GoTo(t, <<Do("erase", s)>> \o Rest(t))
  <2>1. \A r \in Streams : On(t) = r => Welcomes(t, "erase", r)
    BY <1>3, <1>4, <1>8 DEF Welcomes, Installed
  <2>2. "erase" \in TurnedSteps
    BY DEF TurnedSteps
  <2> QED BY <1>1, <1>2, <1>3, <1>5, <1>8, <2>1, <2>2, TurnStays
<1>9. CASE /\ spools[t][s] # None /\ spools[t][s].state # "deleting" /\ meta[s] = spools[t][s]
           /\ Ask(t, SweepPlan(s) \o <<Request("mark", 0)>>)
  <2>1. Clean(s)
    BY <1>4 DEF Installed
  <2>2. Fits(t, s, <<Ask0("mark")>>)
    BY <1>1, <1>9, <2>1, FinalPlan DEF Fits, At
  <2> QED BY <1>1, <1>2, <1>3, <1>9, <2>1, <2>2, FinalPlan, AskStays
<1> QED BY <1>3, <1>6, <1>7, <1>8, <1>9 DEF MarkSpool

(***************************************************************************)
(* What a tab can begin, and what can stop it.                             *)
(***************************************************************************)
LEMMA BeginGoes ==
  ASSUME SpoolsInv, Discipline', NEW t \in Tabs, NEW p, Begin(t, p),
         p # <<>> => Head(p).do \in {"enter", "look", "list"},
         NEW A, Leads(A, p, {}),
         \A f \in FactNames, s \in Streams : <<f, s>> \in A => Holds(t, f, s)
  PROVE  SpoolsInv'
<1>1. /\ Discipline /\ program[t] = <<>> /\ program' = [program EXCEPT ![t] = p]
      /\ sessionLock' = sessionLock /\ requests' = requests
      /\ UNCHANGED <<durable, session, taken, refused>>
  BY DEF SpoolsInv, Begin, Idle, locks
<1>2. program'[t] = p /\ \A u \in Tabs \ {t} : program'[u] = program[u]
  BY <1>1 DEF Discipline
<1>3. requests[t] = <<>>
  BY <1>1, AskingStep
<1>4. Ready(t)'
  <2>1. /\ own'[t] = own[t] /\ spools'[t] = spools[t] /\ synced'[t] = synced[t]
        /\ recording' = recording /\ manifest' = manifest /\ \A s \in Streams : SameSpool(s)
    BY <1>1 DEF durable, session, SameSpool
  <2>2. \A f \in FactNames, s \in Streams : Holds(t, f, s) => Holds(t, f, s)'
    BY <1>1, <2>1, FactsStay
  <2> QED BY <1>2, <2>2, ReadyBegins
<1>5. Placed(t)'
  <2>1. ASSUME p # <<>> PROVE Finds(t, On(t))'
    BY <1>2, <2>1 DEF Finds, At
  <2> QED BY <1>1, <1>2, <1>3, <2>1 DEF Placed
<1>6. Attends(t)
  BY <1>1 DEF Attends, At
<1> QED BY <1>1, <1>2, <1>4, <1>5, <1>6, LockedSession, QuietSession

LEMMA CapturePacketGoes ==
  ASSUME SpoolsInv, NEW t \in Tabs, NEW s \in Streams, CapturePacket(t, s)
  PROVE  SpoolsInv'
<1> DEFINE p == <<Do("enter", s), Do("append", s), Do("publish", s), Do("acknowledge", s)>>
           A == OfAll({"owns", "capturing"}) \cup {<<"live", s>>}
<1>1. Discipline'
  BY OperationKeeps DEF SpoolsInv
<1>2. /\ t = Recorder /\ synced[t] /\ recording # None /\ s \in recording
      /\ own[t] # None /\ own[t].state = "capturing" /\ Begin(t, p)
  BY DEF CapturePacket, Live
<1>3. p # <<>> /\ Head(p).do = "enter"
  BY DEF Do
<1>4. Leads(A, p, {})
  BY CaptureLeads
<1>5. ASSUME NEW f \in FactNames, NEW r \in Streams, <<f, r>> \in A PROVE Holds(t, f, r)
  <2>1. f = "owns" \/ f = "capturing" \/ (f = "live" /\ r = s)
    BY <1>5 DEF OfAll
  <2> QED BY <1>2, <2>1 DEF Holds, Owns
<1> HIDE DEF p, A
<1> QED BY <1>1, <1>2, <1>3, <1>4, <1>5, BeginGoes

\* Whoever has a manifest of its own has the facts that its state tells.
LEMMA OwnerHas ==
  ASSUME NEW t, NEW m, own[t] = m, m # None, m.state \in ManifestStates,
         NEW f \in FactNames, NEW s \in Streams,
         \/ <<f, s>> \in OfAll({"owns"} \cup (Known(m) \ {"knows"}))
         \/ m.state = "capturing" /\ <<f, s>> \in OfAll({"owns", "kept"})
  PROVE  Holds(t, f, s)
<1>1. f \in {"owns"} \cup (Known(m) \ {"knows"})
        \/ (m.state = "capturing" /\ f \in {"owns", "kept"})
  BY DEF OfAll
<1>2. \/ f = "owns"
      \/ f = "kept" /\ m.state = "capturing"
      \/ f = "sealed" /\ m.state = "sealed"
      \/ f = "discarded" /\ m.state = "discarded"
  BY <1>1 DEF Known, ManifestStates
<1> QED BY <1>2 DEF Holds, Owns

LEMMA SealSessionGoes ==
  ASSUME SpoolsInv, NEW t \in Tabs, SealSession(t)
  PROVE  SpoolsInv'
<1>1. Discipline'
  BY OperationKeeps DEF SpoolsInv
<1>2. PICK m : m = own[t]
  OBVIOUS
<1>3. /\ m # None /\ m.state = "capturing" /\ m.state \in ManifestStates
      /\ Begin(t, Alone("enter") \o Sealing)
  BY <1>2 DEF SealSession, Live, ManifestStates
<1> DEFINE p == Alone("enter") \o Sealing
           A == OfAll({"owns", "kept"})
<1>4. Leads(A, p, {}) /\ Head(p).do = "enter"
  BY <1>3, SealingBegins
<1>5. \A f \in FactNames, s \in Streams : <<f, s>> \in A => Holds(t, f, s)
  BY <1>2, <1>3, OwnerHas
<1>6. Begin(t, p)
  BY <1>3
<1> HIDE DEF p, A
<1> QED BY <1>1, <1>4, <1>5, <1>6, BeginGoes

LEMMA DiscardSessionGoes ==
  ASSUME SpoolsInv, NEW t \in Tabs, DiscardSession(t)
  PROVE  SpoolsInv'
<1>1. Discipline'
  BY OperationKeeps DEF SpoolsInv
<1>2. PICK m : m = own[t]
  OBVIOUS
<1>3. m # None /\ m.state \in ManifestStates /\ Begin(t, Alone("enter") \o Discarding(m))
  BY <1>2 DEF DiscardSession, SpoolsInv, Types, Manifests
<1> DEFINE p == Alone("enter") \o Discarding(m)
           A == OfAll({"owns"} \cup (Known(m) \ {"knows"}))
<1>4. Leads(A, p, {}) /\ Head(p).do = "enter"
  BY <1>3, DiscardingBegins
<1>5. \A f \in FactNames, s \in Streams : <<f, s>> \in A => Holds(t, f, s)
  BY <1>2, <1>3, OwnerHas
<1>6. Begin(t, p)
  BY <1>3
<1> HIDE DEF p, A
<1> QED BY <1>1, <1>4, <1>5, <1>6, BeginGoes

LEMMA FindRecoveryGoes ==
  ASSUME SpoolsInv, NEW t \in Tabs, FindRecovery(t)
  PROVE  SpoolsInv'
<1> DEFINE q == EachStream("load") \o Alone("leave")
           p == Alone("look") \o EachStream("load") \o Alone("leave")
           A == OfAll({"away"})
<1>1. Discipline'
  BY OperationKeeps DEF SpoolsInv
<1>2. ~Live(t) /\ Begin(t, p)
  BY DEF FindRecovery
<1>3. Leads(A, p, {})
  BY LookingLeads
<1>4. Head(p).do = "look"
  <2>1. p = Alone("look") \o q /\ q \in Plain
    BY LookProgram DEF PlainSteps
  <2>2. q \in Seq(AnyStep)
    BY <2>1, PlainSeq
  <2> HIDE DEF q
  <2>3. Do("look", 1).do = "look" /\ Do("look", 1) \in AnyStep
    BY SomeStream DEF Do, AnyStep, OuterSteps
  <2>4. Head(p) = Do("look", 1)
    BY <2>1, <2>2, <2>3, HeadIs DEF Alone
  <2> QED BY <2>3, <2>4
<1>5. \A f \in FactNames, s \in Streams : <<f, s>> \in A => Holds(t, f, s)
  <2>1. t # Recorder \/ recording = None \/ own[t] = None
    BY <1>2 DEF Live
  <2>2. \A f \in FactNames, s \in Streams : <<f, s>> \in A => f = "away"
    BY DEF OfAll
  <2> QED BY <2>1, <2>2 DEF Holds
<1> HIDE DEF p, A
<1> QED BY <1>1, <1>2, <1>3, <1>4, <1>5, BeginGoes

LEMMA ListSpoolsGoes ==
  ASSUME SpoolsInv, NEW t \in Tabs, ListSpools(t)
  PROVE  SpoolsInv'
<1> DEFINE p == EachStream("list")
<1>1. Discipline'
  BY OperationKeeps DEF SpoolsInv
<1>2. Begin(t, p)
  BY DEF ListSpools
<1>3. p \in Lists
  BY ListingIsAList
<1> HIDE DEF p
<1>4. Leads({}, p, {})
  BY <1>3, ListsCarry DEF Leads
<1>5. p # <<>> => Head(p).do = "list"
  <2>1. p # <<>> => Head(p) \in [do : {"list"}, on : Streams]
    BY <1>3, HeadTailProperties DEF Lists
  <2> QED BY <2>1
<1> QED BY <1>1, <1>2, <1>4, <1>5, BeginGoes

LEMMA CrashGoes ==
  ASSUME SpoolsInv, NEW t \in Tabs, Crash(t)
  PROVE  SpoolsInv'
<1>1. /\ Discipline /\ Discipline' /\ GoTo(t, <<>>) /\ UNCHANGED <<durable, taken, refused>>
      /\ own' = [own EXCEPT ![t] = None] /\ synced' = [synced EXCEPT ![t] = FALSE]
      /\ spools' = [spools EXCEPT ![t] = [s \in Streams |-> None]]
      /\ recording' = IF t = Recorder THEN None ELSE recording
  BY CrashKeeps DEF SpoolsInv, Crash, GoTo
<1>2. /\ manifest' = manifest /\ \A s \in Streams : Clean(s)' = Clean(s)
      /\ \A u \in Tabs \ {t} : /\ own'[u] = own[u] /\ spools'[u] = spools[u]
                               /\ synced'[u] = synced[u]
  BY <1>1 DEF durable, Clean, SpoolsInv, Types
<1>3. Types'
  <2>1. [s \in Streams |-> None] \in [Streams -> Metas \cup {None}]
    OBVIOUS
  <2> QED BY <1>1, <2>1 DEF SpoolsInv, Types, durable
<1>4. Apart(t)
  BY <1>1, <1>2, GoToIs DEF Apart
<1>5. LiveInv'
  <2>1. CASE t = Recorder
    BY <1>1, <2>1 DEF LiveInv
  <2>2. CASE t # Recorder
    BY <1>2, <1>4, <2>2, LiveStays
  <2> QED BY <2>1, <2>2
<1>6. Ready(t)' /\ Placed(t)'
  BY <1>1, GoToIs, ReadyEnds DEF Placed
<1>7. sessionLock' = t => manifest # None
  BY <1>1, GoToIs, LockedSession
<1> QED BY <1>1, <1>3, <1>4, <1>5, <1>6, <1>7, QuietStep

(***************************************************************************)
(* The steps that change one spool.                                        *)
(***************************************************************************)
LEMMA SpoolStays ==
  ASSUME NEW s \in Streams, SpoolInv(s), SameSpool(s)
  PROVE  SpoolInv(s)' /\ (Agrees(s) /\ manifest' = manifest => Agrees(s)')
<1>1. /\ Clean(s)' = Clean(s) /\ Settled(s)' = Settled(s)
      /\ IsCapturing(s)' = IsCapturing(s) /\ Exact(s)' = Exact(s)
      /\ Begun(s)' = Begun(s) /\ Committed(s)' = Committed(s) /\ Tailed(s)' = Tailed(s)
  BY SameIs
<1>2. SpoolInv(s)'
  BY <1>1 DEF SpoolInv, SameSpool
<1>3. ASSUME Agrees(s), manifest' = manifest PROVE Agrees(s)'
  BY <1>1, <1>3 DEF Agrees, SameSpool
<1> QED BY <1>2, <1>3

LEMMA OneSpool ==
  ASSUME SpoolsInv, Discipline', Types', NEW t \in Tabs, Apart(t), NEW s \in Streams,
         manifest' = manifest, \A r \in Streams \ {s} : SameSpool(r),
         sessionLock = t \/ (IsCapturing(s) /\ Loose(s)),
         \A u \in Tabs \ {t} : spoolLock[s] # u,
         SpoolInv(s)', Agrees(s)', sessionLock' = t => manifest # None,
         LiveInv', Ready(t)', Placed(t)', refused' = refused
  PROVE  SpoolsInv'
<1>1. Spares(t)
  BY DEF Spares
<1>2. \A r \in Streams : SpoolInv(r)' /\ Agrees(r)'
  BY SpoolStays DEF SpoolsInv
<1>3. sessionLock' # None => manifest' # None
  <2>1. SUFFICES ASSUME sessionLock' # None, sessionLock' # t PROVE manifest # None
    OBVIOUS
  <2>2. sessionLock' \in Tabs \ {t}
    BY <2>1 DEF Discipline
  <2>3. sessionLock = sessionLock'
    BY <2>2 DEF Apart
  <2> QED BY <2>1, <2>3 DEF SpoolsInv
<1> QED BY <1>1, <1>2, <1>3, Assembled

\* A list works only where something is to be repaired.
LEMMA Unlisted ==
  ASSUME SpoolsInv, NEW t \in Tabs, sessionLock = t, NEW s \in Streams,
         Clean(s) \/ ~IsCapturing(s)
  PROVE  \A u \in Tabs \ {t} : spoolLock[s] # u
<1> SUFFICES ASSUME NEW u \in Tabs \ {t}, spoolLock[s] = u PROVE FALSE
  OBVIOUS
<1>1. Discipline /\ Placed(u) /\ SpoolInv(s)
  BY DEF SpoolsInv
<1>2. requests[u] # <<>> /\ On(u) = s
  BY <1>1 DEF Discipline
<1>3. program[u] # <<>> /\ At(u, {"list"})
  BY <1>1, <1>2, AskingStep
<1>4. Fits(u, s, requests[u])
  BY <1>1, <1>2, <1>3 DEF Placed
<1>5. IsCapturing(s) /\ LoadFits(s, requests[u])
  <2>1. At(u, {"load", "list"})
    BY <1>3 DEF At
  <2> QED BY <1>4, <2>1 DEF Fits
<1> QED BY <1>5 DEF LoadFits, Begun, Clean

\* A step ends early, or its tab goes on.
LEMMA EndsEarly ==
  ASSUME Discipline, NEW t \in Tabs, Throw(t)
  PROVE  Ready(t)' /\ Placed(t)' /\ sessionLock' # t
<1>1. GoTo(t, <<>>)
  BY DEF Throw
<1>2. program'[t] = <<>>
  BY <1>1, GoToIs
<1>3. sessionLock' # t
  BY <1>1, CaptureAssumption DEF GoTo
<1> QED BY <1>2, <1>3, ReadyEnds DEF Placed

LEMMA EraseSpoolGoes ==
  ASSUME SpoolsInv, NEW t \in Tabs, EraseSpool(t)
  PROVE  SpoolsInv'
<1>1. /\ At(t, {"erase"}) /\ At(t, {"erase", "drop"}) /\ At(t, {"mark", "erase", "drop", "remove"})
      /\ At(t, {"seal", "sealed", "discarded", "mark", "erase", "drop", "remove",
                "append", "publish", "acknowledge", "reacknowledge", "repair"})
      /\ At(t, TurnedSteps) /\ At(t, PlainSteps \cup TurnedSteps) /\ program[t] # <<>>
      /\ ~At(t, CaptureSteps) /\ ~At(t, LockingSteps)
  BY DEF EraseSpool, At, TurnedSteps, CaptureSteps, LockingSteps
<1>2. /\ Discipline /\ Discipline'
      /\ UNCHANGED <<manifest, meta, intent, cleanup, session, taken, refused>>
  BY EraseAndDropKeep DEF SpoolsInv, EraseSpool
<1>3. PICK s \in Streams : On(t) = s
  BY <1>1, Arrives
<1>4. /\ Types /\ SpoolInv(s) /\ Agrees(s) /\ sessionLock = t /\ manifest # None
      /\ own[t] = manifest /\ Owns(t, {"discarded"})
      /\ spools[t][s] # None /\ spools[t][s].state = "deleting" /\ Clean(s)
      /\ meta[s] = None \/ meta[s] = spools[t][s]
  <2>1. requests[t] = <<>>
    BY <1>1, <1>2 DEF Discipline
  <2> QED BY <1>1, <1>3, <2>1, Arrives, Reliance DEF Finds
<1>5. /\ stored' = stored \/ stored' = [stored EXCEPT ![s] = <<>>]
      /\ Throw(t) \/ GoTo(t, <<Do("drop", On(t))>> \o Rest(t))
  BY <1>3 DEF EraseSpool
<1>6. stored' \in [Streams -> Seq(Nat)] /\ \A r \in Streams \ {s} : stored'[r] = stored[r]
  <2>1. <<>> \in Seq(Nat)
    BY EmptySeq
  <2> QED BY <1>4, <1>5, <2>1 DEF Types
<1>7. /\ manifest' = manifest /\ meta' = meta /\ intent' = intent /\ cleanup' = cleanup
      /\ own' = own /\ spools' = spools /\ synced' = synced /\ recording' = recording
      /\ \A r \in Streams \ {s} : SameSpool(r)
  BY <1>2, <1>6 DEF session, SameSpool
<1>8. ~IsCapturing(s) /\ (meta[s] # None => meta[s].state # "sealed")
  BY <1>4 DEF IsCapturing
<1>9. /\ \A r \in Streams : Clean(r)' = Clean(r) /\ Settled(r)' = Settled(r)
                            /\ Installed(t, r)' = Installed(t, r)
      /\ IsCapturing(s)' = IsCapturing(s) /\ Committed(s)' = Committed(s)
  BY <1>7 DEF Clean, Settled, Installed, IsCapturing, Committed
<1>10. SpoolInv(s)'
  BY <1>4, <1>7, <1>8, <1>9 DEF SpoolInv
<1>11. Agrees(s)'
  BY <1>4, <1>7, <1>9 DEF Agrees
<1>12. \A u \in Tabs \ {t} : spoolLock[s] # u
  BY <1>4, Unlisted
<1>13. Types'
  BY <1>2, <1>4, <1>6, <1>7 DEF Types
<1>14. CASE Throw(t)
  <2>1. GoTo(t, <<>>)
    BY <1>14 DEF Throw
  <2>2. Apart(t)
    BY <1>2, <1>7, <2>1, GoToIs DEF Apart
  <2>3. LiveInv'
    BY <1>1, <1>7, <1>9, <2>2, LiveWaits DEF Attends
  <2> QED BY <1>2, <1>4, <1>7, <1>10, <1>11, <1>12, <1>13, <1>14, <2>2, <2>3, EndsEarly, OneSpool
<1>15. CASE GoTo(t, <<Do("drop", On(t))>> \o Rest(t))
  <2>1. Apart(t)
    BY <1>2, <1>7, <1>15, GoToIs DEF Apart
  <2>2. LiveInv'
    BY <1>1, <1>7, <1>9, <2>1, LiveWaits DEF Attends
  <2>3. \A r \in Streams : On(t) = r => Welcomes(t, "drop", r)'
    BY <1>3, <1>4, <1>7, <1>9 DEF Welcomes, Owns
  <2>4. Unspoilt(t)
    BY <1>9 DEF Unspoilt
  <2>5. \A f \in FactNames, r \in Streams : ~Gives(Head(program[t]), f, r)
    BY <1>1, GivenBy DEF At
  <2>6. "drop" \in TurnedSteps
    BY DEF TurnedSteps
  <2>7. Ready(t)' /\ Placed(t)'
    BY <1>1, <1>7, <1>15, <2>3, <2>4, <2>5, <2>6, TurnsOn
  <2> QED BY <1>2, <1>4, <1>7, <1>10, <1>11, <1>12, <1>13, <2>1, <2>2, <2>7, OneSpool
<1> QED BY <1>5, <1>14, <1>15

LEMMA DropSpoolGoes ==
  ASSUME SpoolsInv, NEW t \in Tabs, DropSpool(t)
  PROVE  SpoolsInv'
<1>1. /\ At(t, {"drop"}) /\ At(t, {"erase", "drop"}) /\ At(t, {"mark", "erase", "drop", "remove"})
      /\ At(t, {"seal", "sealed", "discarded", "mark", "erase", "drop", "remove",
                "append", "publish", "acknowledge", "reacknowledge", "repair"})
      /\ At(t, TurnedSteps) /\ At(t, PlainSteps \cup TurnedSteps) /\ program[t] # <<>>
      /\ ~At(t, CaptureSteps) /\ ~At(t, LockingSteps)
  BY DEF DropSpool, At, TurnedSteps, CaptureSteps, LockingSteps
<1>2. /\ Discipline /\ Discipline'
      /\ UNCHANGED <<manifest, stored, intent, cleanup, session, taken, refused>>
  BY EraseAndDropKeep DEF SpoolsInv, DropSpool
<1>3. PICK s \in Streams : On(t) = s
  BY <1>1, Arrives
<1>4. /\ Types /\ SpoolInv(s) /\ Agrees(s) /\ sessionLock = t /\ manifest # None
      /\ own[t] = manifest /\ Owns(t, {"discarded"})
      /\ spools[t][s] # None /\ spools[t][s].state = "deleting" /\ Clean(s)
      /\ meta[s] = None \/ meta[s] = spools[t][s]
  <2>1. requests[t] = <<>>
    BY <1>1, <1>2 DEF Discipline
  <2> QED BY <1>1, <1>3, <2>1, Arrives, Reliance DEF Finds
<1>5. /\ meta' = meta \/ meta' = [meta EXCEPT ![s] = None]
      /\ Throw(t) \/ Finish(t)
  BY <1>3 DEF DropSpool
<1>6. /\ meta' \in [Streams -> Metas \cup {None}] /\ \A r \in Streams \ {s} : meta'[r] = meta[r]
      /\ meta'[s] = None \/ meta'[s] = meta[s]
  BY <1>4, <1>5 DEF Types
<1>7. /\ manifest' = manifest /\ stored' = stored /\ intent' = intent /\ cleanup' = cleanup
      /\ own' = own /\ spools' = spools /\ synced' = synced /\ recording' = recording
      /\ \A r \in Streams \ {s} : SameSpool(r)
  BY <1>2, <1>6 DEF session, SameSpool
<1>8. meta'[s] # None => meta'[s].state = "deleting"
  BY <1>4, <1>6
<1>9. Clean(s)' /\ Settled(s)' /\ Installed(t, s)' /\ ~IsCapturing(s)'
  <2>1. Clean(s)'
    BY <1>4, <1>7 DEF Clean
  <2> QED BY <1>4, <1>6, <1>7, <1>8, <2>1 DEF Settled, Installed, IsCapturing
<1>10. Unspoilt(t)
  <2> SUFFICES ASSUME NEW r \in Streams \ {s}
               PROVE  /\ Clean(r) => Clean(r)'
                      /\ Settled(r) => Settled(r)'
                      /\ Installed(t, r) => Installed(t, r)'
    BY <1>9 DEF Unspoilt
  <2>1. Clean(r)' = Clean(r) /\ Settled(r)' = Settled(r) /\ meta'[r] = meta[r]
    BY <1>6, <1>7, SameIs
  <2> QED BY <1>7, <2>1 DEF Installed
<1>11. SpoolInv(s)'
  BY <1>8, <1>9 DEF SpoolInv
<1>12. Agrees(s)'
  <2>1. manifest.state = "discarded" /\ ~Committed(s) /\ ~Committed(s)'
    BY <1>4, <1>9 DEF Owns, Committed, Clean
  <2> QED BY <1>4, <1>6, <1>7, <1>9, <2>1 DEF Agrees
<1>13. \A u \in Tabs \ {t} : spoolLock[s] # u
  BY <1>4, Unlisted
<1>14. Types'
  BY <1>2, <1>4, <1>6, <1>7 DEF Types
<1>15. GoTo(t, <<>>) \/ GoTo(t, Rest(t))
  BY <1>5 DEF Throw, Finish
<1>16. Apart(t)
  BY <1>2, <1>7, <1>15, GoToIs DEF Apart
<1>17. LiveInv'
  BY <1>1, <1>7, <1>10, <1>16, LiveWaits DEF Attends, Unspoilt
<1>18. CASE Throw(t)
  BY <1>2, <1>4, <1>7, <1>11, <1>12, <1>13, <1>14, <1>16, <1>17, <1>18, EndsEarly, OneSpool
<1>19. CASE Finish(t)
  <2>1. \A f \in FactNames, r \in Streams : ~Gives(Head(program[t]), f, r)
    BY <1>1, GivenBy DEF At
  <2>2. Ready(t)' /\ Placed(t)'
    BY <1>1, <1>7, <1>10, <1>19, <2>1, Finishes
  <2> QED BY <1>2, <1>4, <1>7, <1>11, <1>12, <1>13, <1>14, <1>16, <1>17, <2>2, OneSpool
<1> QED BY <1>5, <1>18, <1>19

(***************************************************************************)
(* The steps that replace the manifest, and what follows a refusal.        *)
(***************************************************************************)
Expects(t, x, s) ==
  /\ own[t] # None /\ own[t].state = "capturing" /\ (x # "recheck" => own[t] = manifest)
  /\ x = "repair" => IsCapturing(s) /\ Unacknowledged(s)
  /\ x \in {"acknowledge", "reacknowledge"} => Counted(s) /\ ~Loose(s) /\ meta[s].count > 0
  /\ x = "acknowledge" => spools[t][s] = meta[s]
  /\ x = "recheck" =>
       /\ meta[s] # None /\ ~Loose(s) /\ spools[t][s] = meta[s] /\ meta[s].count > 0
       /\ manifest # None /\ manifest.state = "capturing"

\* The capture of a packet goes on with another step.
LEMMA CaptureTurns ==
  ASSUME Discipline, NEW t \in Tabs, sessionLock = t, NEW s \in Streams, On(t) = s,
         NEW x \in {"acknowledge", "recheck", "reacknowledge", "repair"},
         GoTo(t, <<Do(x, s)>>), Expects(t, x, s)'
  PROVE  Ready(t)' /\ Placed(t)' /\ Attends(t)
<1>1. program'[t] = <<Do(x, s)>> /\ requests'[t] = <<>> /\ sessionLock' = t
  BY GoToIs
<1>2. /\ program'[t] # <<>> /\ Head(program'[t]) = Do(x, s)
      /\ Do(x, s).do = x /\ Do(x, s).on = s
  BY <1>1 DEF Do
<1>3. \A f \in FactNames, r \in Streams : Needs(Do(x, s), f, r) => Holds(t, f, r)'
  <2> SUFFICES ASSUME NEW f \in FactNames, NEW r \in Streams, Needs(Do(x, s), f, r)
               PROVE  Holds(t, f, r)'
    OBVIOUS
  <2>1. f = "capturing" \/ (f = "knows" /\ x # "recheck")
    BY <1>2 DEF Needs, CaptureSteps
  <2>2. own'[t] # None /\ own'[t].state = "capturing" /\ (x # "recheck" => own'[t] = manifest')
    BY DEF Expects
  <2>3. CASE f = "capturing"
    BY <2>2, <2>3 DEF Holds, Owns
  <2>4. CASE f = "knows" /\ x # "recheck"
    BY <1>1, <2>2, <2>4 DEF Holds
  <2> QED BY <2>1, <2>3, <2>4
<1>4. Ready(t)'
  BY <1>1, <1>3, ReadyOne
<1>5. On(t)' = s /\ \A steps : At(t, steps)' <=> x \in steps
  BY <1>2 DEF On, At
<1>6. Finds(t, s)'
  <2>1. /\ ~At(t, {"match"})' /\ ~At(t, {"publish"})' /\ ~At(t, {"erase", "drop"})'
        /\ At(t, {"rollback", "repair"})' <=> x = "repair"
    BY <1>5
  <2> QED BY <1>5, <2>1 DEF Finds, Expects
<1>7. Placed(t)'
  BY <1>1, <1>5, <1>6 DEF Placed
<1>8. Attends(t)
  BY <1>1, <1>2 DEF Attends, CaptureSteps
<1> QED BY <1>4, <1>7, <1>8

LEMMA RecheckGoes ==
  ASSUME SpoolsInv, NEW t \in Tabs, Recheck(t)
  PROVE  SpoolsInv'
<1>1. At(t, {"recheck"}) /\ At(t, CaptureSteps) /\ program[t] # <<>> /\ ~At(t, LockingSteps)
  BY DEF Recheck, At, CaptureSteps, LockingSteps
<1>2. Discipline /\ Discipline' /\ UNCHANGED <<durable, taken, refused>>
  BY ManifestStepsKeep DEF SpoolsInv, Recheck
<1>3. PICK s \in Streams : On(t) = s
  BY <1>1, Arrives
<1>4. requests[t] = <<>>
  BY <1>1, <1>2 DEF Discipline
<1>5. /\ Types /\ SpoolInv(s) /\ Agrees(s) /\ sessionLock = t
      /\ manifest # None /\ manifest \in Manifests
      /\ own[t] # None /\ own[t].state = "capturing" /\ t = Recorder
      /\ meta[s] # None /\ ~Loose(s) /\ spools[t][s] = meta[s] /\ meta[s].count > 0
      /\ manifest.state = "capturing"
  <2>1. t = Recorder
    BY <1>1, <1>2, FirstStep
  <2> QED BY <1>1, <1>3, <1>4, <2>1, Arrives, Reliance DEF Finds, Owns
<1>6. /\ manifest' = manifest /\ meta' = meta /\ intent' = intent
      /\ \A r \in Streams : SameSpool(r) /\ Clean(r)' = Clean(r)
  BY <1>2 DEF durable, SameSpool, Clean
<1>7. /\ Loose(s)' = Loose(s) /\ IsCapturing(s)' = IsCapturing(s)
      /\ Committed(s)' = Committed(s)
  BY <1>6, SameIs
<1>8. CASE Throw(t) /\ LoseSync(t)
  BY <1>2, <1>8, LosesSync
<1>9. CASE /\ manifest.count[s] = spools[t][s].count
           /\ own' = [own EXCEPT ![t] = manifest] /\ UNCHANGED <<spools, synced, recording>>
           /\ GoTo(t, <<Do("reacknowledge", s)>>)
  <2>1. own'[t] = manifest /\ \A u \in Tabs \ {t} : own'[u] = own[u]
    BY <1>5, <1>9 DEF Types
  <2>2. Expects(t, "reacknowledge", s)'
    BY <1>5, <1>6, <1>7, <1>9, <2>1 DEF Expects, Counted
  <2>3. Ready(t)' /\ Placed(t)' /\ Attends(t)
    BY <1>2, <1>3, <1>5, <1>9, <2>2, CaptureTurns
  <2>4. Apart(t)
    BY <1>2, <1>9, <2>1, GoToIs DEF Apart
  <2>5. Types'
    BY <1>2, <1>5, <1>9 DEF Types, durable
  <2>6. LiveInv'
    BY <1>5, <1>6, <1>9, <2>1, <2>3, <2>4, LiveWaits
  <2> QED BY <1>2, <1>5, <2>3, <2>4, <2>5, <2>6, QuietStep
<1>10. CASE /\ manifest = own[t] /\ manifest.count[s] # spools[t][s].count
            /\ GoTo(t, <<Do("repair", s)>>) /\ UNCHANGED session
  <2>1. Committed(s) /\ IsCapturing(s)
    BY <1>5, <1>10 DEF Agrees, SpoolInv, Clean, Committed
  <2>2. intent[s].from \in Nat
    BY <1>5, <2>1, StreamTypes DEF Committed
  <2>3. Unacknowledged(s)
    BY <1>5, <1>10, <2>1, <2>2 DEF Agrees, Committed, Unacknowledged
  <2>4. own' = own /\ Unacknowledged(s)'
    BY <1>6, <1>7, <1>10, <2>3 DEF session, Unacknowledged
  <2>5. Expects(t, "repair", s)'
    BY <1>5, <1>6, <1>7, <1>10, <2>1, <2>4 DEF Expects
  <2>6. Ready(t)' /\ Placed(t)' /\ Attends(t)
    BY <1>2, <1>3, <1>5, <1>10, <2>5, CaptureTurns
  <2> QED BY <1>2, <1>5, <1>10, <2>6, GoToIs, QuietSession
<1> QED BY <1>3, <1>8, <1>9, <1>10 DEF Recheck

\* The tab that holds the session lock changes the manifest alone.
LEMMA ManifestMoves ==
  ASSUME SpoolsInv, Discipline', Types', NEW t \in Tabs, Apart(t), sessionLock = t,
         UNCHANGED <<meta, stored, intent, cleanup>>, \A s \in Streams : Agrees(s)',
         sessionLock' = t => manifest' # None,
         LiveInv', Ready(t)', Placed(t)', refused' = refused
  PROVE  SpoolsInv'
<1>1. \A s \in Streams : SameSpool(s)
  BY DEF SameSpool
<1>2. Spares(t)
  BY <1>1 DEF Spares
<1>3. \A s \in Streams : SpoolInv(s)'
  BY <1>1, SpoolStays DEF SpoolsInv
<1>4. sessionLock' # None => manifest' # None
  <2>1. sessionLock' \in Tabs \ {t} => sessionLock = sessionLock'
    BY DEF Apart
  <2> QED BY <2>1 DEF Discipline
<1> QED BY <1>2, <1>3, <1>4, Assembled

LEMMA RemoveManifestGoes ==
  ASSUME SpoolsInv, NEW t \in Tabs, RemoveManifest(t)
  PROVE  SpoolsInv'
<1>1. /\ At(t, {"remove"}) /\ At(t, PlainSteps) /\ At(t, PlainSteps \cup TurnedSteps)
      /\ program[t] # <<>> /\ ~At(t, CaptureSteps)
  BY DEF RemoveManifest, At, PlainSteps, CaptureSteps
<1>2. /\ Discipline /\ Discipline' /\ Throw(t)
      /\ UNCHANGED <<meta, stored, intent, cleanup, spools, synced, recording, taken, refused>>
  BY ManifestStepsKeep DEF SpoolsInv, RemoveManifest
<1>3. Types /\ sessionLock = t /\ own[t] = manifest
  BY <1>1, Arrives, Reliance DEF At
<1>4. /\ manifest' = manifest \/ manifest' = None
      /\ own' = own \/ (own' = [own EXCEPT ![t] = None] /\ manifest' = None)
  BY DEF RemoveManifest, Outcomes
<1>5. /\ \A u \in Tabs \ {t} : own'[u] = own[u]
      /\ own'[t] = own[t] \/ (own'[t] = None /\ manifest' = None)
      /\ own' \in [Tabs -> Manifests \cup {None}]
  BY <1>3, <1>4 DEF Types
<1>6. Types'
  BY <1>2, <1>3, <1>4, <1>5 DEF Types
<1>7. GoTo(t, <<>>)
  BY <1>2 DEF Throw
<1>8. Apart(t)
  BY <1>2, <1>5, <1>7, GoToIs DEF Apart
<1>9. \A s \in Streams : SameSpool(s) /\ Clean(s)' = Clean(s)
  BY <1>2 DEF SameSpool, Clean
<1>10. \A s \in Streams : Agrees(s)'
  <2>1. CASE manifest' = manifest
    BY <1>9, <2>1, SpoolStays DEF SpoolsInv
  <2>2. CASE manifest' = None
    BY <2>2 DEF Agrees
  <2> QED BY <1>4, <2>1, <2>2
<1>11. LiveInv'
  <2>1. own'[Recorder] = None => own[Recorder] = None \/ manifest' = None
    BY <1>5, CaptureAssumption
  <2>2. manifest = None => manifest' = None
    BY <1>4
  <2> QED BY <1>1, <1>2, <1>8, <1>9, <2>1, <2>2, LiveWaits DEF Attends
<1>12. Ready(t)' /\ Placed(t)' /\ sessionLock' # t
  BY <1>2, EndsEarly
<1> QED BY <1>2, <1>3, <1>6, <1>8, <1>10, <1>11, <1>12, ManifestMoves

LEMMA PublishedIs ==
  ASSUME NEW m \in Manifests, NEW s \in Streams, NEW n \in Nat
  PROVE  LET new == [m EXCEPT !.count[s] = n] IN
         /\ new \in Manifests /\ new.state = m.state /\ new.count[s] = n
         /\ \A r \in Streams \ {s} : new.count[r] = m.count[r]
BY DEF Manifests

LEMMA TurnedIs ==
  ASSUME NEW m \in Manifests, NEW state \in ManifestStates
  PROVE  LET new == [m EXCEPT !.state = state] IN
         new \in Manifests /\ new.state = state /\ new.count = m.count
BY DEF Manifests

\* A replacement that was asked for, with what its tab makes of the answer.
LEMMA ReplaceManifestIs ==
  ASSUME NEW t, ReplaceManifest(t), own[t] = manifest
  PROVE  /\ manifest' = manifest \/ manifest' = NextManifest(t)
         /\ UNCHANGED <<meta, stored, intent, cleanup, spools, recording, taken, refused>>
         /\ \/ Finish(t) /\ own' = [own EXCEPT ![t] = manifest'] /\ synced' = synced
                 /\ manifest' = NextManifest(t)
            \/ /\ At(t, {"publish"}) /\ GoTo(t, <<Do("recheck", On(t))>>)
               /\ own' = own /\ synced' = synced
            \/ /\ ~At(t, {"publish"}) /\ Throw(t) /\ synced' = [synced EXCEPT ![t] = FALSE]
               /\ own' = own
<1>1. PICK outcome \in Outcomes :
        /\ manifest' = IF outcome = "lost" \/ manifest # own[t] THEN manifest ELSE NextManifest(t)
        /\ IF outcome = "done" /\ manifest = own[t]
           THEN Finish(t) /\ own' = [own EXCEPT ![t] = manifest'] /\ UNCHANGED synced
           ELSE IF At(t, {"publish"})
           THEN GoTo(t, <<Do("recheck", On(t))>>) /\ UNCHANGED <<own, synced>>
           ELSE Throw(t) /\ synced' = [synced EXCEPT ![t] = FALSE] /\ UNCHANGED own
  BY Zenon DEF ReplaceManifest
<1>2. UNCHANGED <<meta, stored, intent, cleanup, spools, recording, taken, refused>>
  BY DEF ReplaceManifest
<1>3. CASE outcome = "done"
  BY <1>1, <1>2, <1>3
<1>4. CASE outcome # "done"
  BY <1>1, <1>2, <1>4
<1> QED BY <1>3, <1>4

LEMMA PublishGoes ==
  ASSUME SpoolsInv, NEW t \in Tabs, ReplaceManifest(t), At(t, {"publish"})
  PROVE  SpoolsInv'
<1>1. /\ At(t, CaptureSteps) /\ program[t] # <<>> /\ ~At(t, LockingSteps)
      /\ At(t, {"seal", "sealed", "discarded", "mark", "erase", "drop", "remove",
                "append", "publish", "acknowledge", "reacknowledge", "repair"})
  BY DEF At, CaptureSteps, LockingSteps
<1>2. Discipline /\ Discipline'
  BY ManifestStepsKeep DEF SpoolsInv
<1>3. PICK s \in Streams : On(t) = s
  BY <1>1, Arrives
<1>4. requests[t] = <<>>
  BY <1>1, <1>2 DEF Discipline
<1>5. /\ Types /\ SpoolInv(s) /\ Agrees(s) /\ sessionLock = t
      /\ manifest # None /\ manifest \in Manifests /\ own[t] = manifest
      /\ own[t] # None /\ manifest.state = "capturing" /\ t = Recorder
      /\ IsCapturing(s) /\ Unacknowledged(s) /\ spools[t][s] = meta[s]
  <2>1. t = Recorder
    BY <1>1, <1>2, FirstStep
  <2> QED BY <1>1, <1>3, <1>4, <2>1, Arrives, Reliance DEF Finds, Owns
<1>6. /\ meta[s] # None /\ meta[s].count \in Nat /\ Committed(s) /\ intent[s] # None
      /\ intent[s].from \in Nat /\ meta[s].count = intent[s].from + 1
  BY <1>5, StreamTypes DEF IsCapturing, Unacknowledged, Committed
<1>7. ~Loose(s) /\ meta[s].count > 0
  BY <1>5, <1>6 DEF Loose, SpoolInv, Begun
<1>8. NextManifest(t) = [manifest EXCEPT !.count[s] = meta[s].count]
  <2>1. ~At(t, {"sealed"}) /\ ~At(t, {"discarded"})
    BY DEF At
  <2>2. NextManifest(t) = [own[t] EXCEPT !.count[On(t)] = spools[t][On(t)].count]
    BY <2>1, Zenon DEF NextManifest
  <2> QED BY <1>3, <1>5, <2>2
<1>9. /\ NextManifest(t) \in Manifests /\ NextManifest(t).state = "capturing"
      /\ NextManifest(t).count[s] = meta[s].count
      /\ \A r \in Streams \ {s} : NextManifest(t).count[r] = manifest.count[r]
  BY <1>5, <1>6, <1>8, PublishedIs
<1>10. /\ manifest' = manifest \/ manifest' = NextManifest(t)
       /\ UNCHANGED <<meta, stored, intent, cleanup, spools, recording, taken, refused>>
       /\ \/ Finish(t) /\ own' = [own EXCEPT ![t] = manifest'] /\ synced' = synced
               /\ manifest' = NextManifest(t)
          \/ GoTo(t, <<Do("recheck", s)>>) /\ own' = own /\ synced' = synced
  BY <1>3, <1>5, ReplaceManifestIs
<1>11. /\ manifest' \in Manifests /\ manifest' # None /\ manifest'.state = "capturing"
       /\ manifest'.count[s] \in {manifest.count[s], meta[s].count}
       /\ \A r \in Streams \ {s} : manifest'.count[r] = manifest.count[r]
  BY <1>5, <1>9, <1>10, NoneIsAbsent
<1>12. /\ \A r \in Streams : SameSpool(r) /\ Clean(r)' = Clean(r)
       /\ Loose(s)' = Loose(s) /\ Committed(s)' = Committed(s) /\ meta' = meta /\ intent' = intent
  BY <1>10 DEF SameSpool, Clean, Loose, Begun, Committed
<1>13. \A r \in Streams : Agrees(r)'
  <2>1. ASSUME NEW r \in Streams \ {s} PROVE Agrees(r)'
    <3>1. Agrees(r) /\ Settled(r)' = Settled(r) /\ Committed(r)' = Committed(r)
      BY <1>12, SameIs DEF SpoolsInv
    <3> QED BY <1>5, <1>11, <1>12, <3>1 DEF Agrees
  <2>2. Agrees(s)'
    <3>1. manifest.count[s] = intent[s].from
      BY <1>5 DEF Unacknowledged
    <3>2. meta[s].state # "deleting"
      BY <1>5 DEF IsCapturing
    <3> QED BY <1>6, <1>11, <1>12, <3>1, <3>2 DEF Agrees
  <2> QED BY <2>1, <2>2
<1>14. own' \in [Tabs -> Manifests \cup {None}] /\ \A u \in Tabs \ {t} : own'[u] = own[u]
  BY <1>5, <1>10, <1>11 DEF Types
<1>15. Types'
  BY <1>5, <1>10, <1>11, <1>14 DEF Types
<1>16. CASE Finish(t) /\ own' = [own EXCEPT ![t] = manifest'] /\ synced' = synced
            /\ manifest' = NextManifest(t)
  <2>1. Rest(t) = <<Do("acknowledge", s)>>
    BY <1>1, <1>2, <1>3, FirstStep, CaptureProgram DEF At, On, Rest
  <2>2. GoTo(t, <<Do("acknowledge", s)>>)
    BY <1>16, <2>1 DEF Finish
  <2>3. own'[t] = manifest'
    BY <1>5, <1>16 DEF Types
  <2>4. Expects(t, "acknowledge", s)'
    <3>1. Counted(s)'
      BY <1>6, <1>9, <1>11, <1>12, <1>16 DEF Counted
    <3> QED BY <1>5, <1>7, <1>10, <1>11, <1>12, <2>3, <3>1 DEF Expects
  <2>5. Ready(t)' /\ Placed(t)' /\ Attends(t)
    BY <1>2, <1>3, <1>5, <2>2, <2>4, CaptureTurns
  <2>6. Apart(t)
    BY <1>2, <1>10, <1>14, <1>16, <2>2, GoToIs DEF Apart
  <2>7. LiveInv'
    BY <1>5, <1>10, <1>11, <1>12, <1>16, <2>3, <2>5, <2>6, LiveWaits
  <2> QED BY <1>2, <1>5, <1>10, <1>11, <1>13, <1>15, <2>5, <2>6, <2>7, ManifestMoves
<1>17. CASE GoTo(t, <<Do("recheck", s)>>) /\ own' = own /\ synced' = synced
  <2>1. Expects(t, "recheck", s)'
    BY <1>5, <1>6, <1>7, <1>10, <1>11, <1>12, <1>17 DEF Expects
  <2>2. Ready(t)' /\ Placed(t)' /\ Attends(t)
    BY <1>2, <1>3, <1>5, <1>17, <2>1, CaptureTurns
  <2>3. Apart(t)
    BY <1>2, <1>10, <1>17, GoToIs DEF Apart
  <2>4. LiveInv'
    BY <1>5, <1>10, <1>11, <1>12, <1>17, <2>2, <2>3, LiveWaits
  <2> QED BY <1>2, <1>5, <1>10, <1>11, <1>13, <1>15, <2>2, <2>3, <2>4, ManifestMoves
<1> QED BY <1>10, <1>16, <1>17

\* The manifest is sealed or discarded.
LEMMA TurnManifestGoes ==
  ASSUME SpoolsInv, NEW t \in Tabs, ReplaceManifest(t), ~At(t, {"publish"})
  PROVE  SpoolsInv'
<1>1. /\ At(t, {"sealed"}) \/ At(t, {"discarded"})
      /\ At(t, PlainSteps) /\ At(t, PlainSteps \cup TurnedSteps) /\ program[t] # <<>>
      /\ ~At(t, CaptureSteps) /\ At(t, {"sealed", "discarded"})
      /\ At(t, {"seal", "sealed", "discarded", "mark", "erase", "drop", "remove",
                "append", "publish", "acknowledge", "reacknowledge", "repair"})
  BY DEF ReplaceManifest, At, PlainSteps, CaptureSteps
<1>2. Discipline /\ Discipline'
  BY ManifestStepsKeep DEF SpoolsInv
<1>3. /\ Types /\ sessionLock = t /\ manifest # None /\ manifest \in Manifests
      /\ own[t] = manifest /\ Ready(t) /\ Rest(t) \in Plain
  BY <1>1, <1>2, Arrives, Reliance, FirstStep
<1>4. PICK state \in {"sealed", "discarded"} : At(t, {state})
  BY <1>1
<1>5. /\ state \in ManifestStates
      /\ state = "sealed" => manifest.state \in {"capturing", "sealed"}
      /\ state = "discarded" => manifest.state \in {"sealed", "discarded"}
  <2>1. At(t, {"sealed"}) => At(t, {"seal", "sealed"})
    BY DEF At
  <2>2. /\ At(t, {"sealed"}) => Owns(t, {"capturing", "sealed"})
        /\ At(t, {"discarded"}) => Owns(t, {"sealed", "discarded"})
    BY <1>1, <1>2, <1>3, <2>1, Reliance
  <2> QED BY <1>3, <1>4, <2>2 DEF Owns, ManifestStates
<1>6. NextManifest(t) = [manifest EXCEPT !.state = state]
  <2>1. CASE state = "sealed"
    <3>1. ~At(t, {"publish"}) /\ ~At(t, {"discarded"}) /\ At(t, {"sealed"})
      BY <1>4, <2>1 DEF At
    <3>2. NextManifest(t) = [own[t] EXCEPT !.state = "sealed"]
      BY <3>1, Zenon DEF NextManifest
    <3> QED BY <1>3, <2>1, <3>2
  <2>2. CASE state = "discarded"
    <3>1. ~At(t, {"publish"}) /\ ~At(t, {"sealed"}) /\ At(t, {"discarded"})
      BY <1>4, <2>2 DEF At
    <3>2. NextManifest(t) = [own[t] EXCEPT !.state = "discarded"]
      BY <3>1, Zenon DEF NextManifest
    <3> QED BY <1>3, <2>2, <3>2
  <2> QED BY <2>1, <2>2
<1>7. /\ NextManifest(t) \in Manifests /\ NextManifest(t).state = state
      /\ NextManifest(t).count = manifest.count
  BY <1>3, <1>5, <1>6, TurnedIs
<1>8. /\ manifest' = manifest \/ manifest' = NextManifest(t)
      /\ UNCHANGED <<meta, stored, intent, cleanup, spools, recording, taken, refused>>
      /\ \/ Finish(t) /\ own' = [own EXCEPT ![t] = manifest'] /\ synced' = synced
              /\ manifest' = NextManifest(t)
         \/ Throw(t) /\ synced' = [synced EXCEPT ![t] = FALSE] /\ own' = own
  BY <1>3, ReplaceManifestIs
<1>9. manifest' \in Manifests /\ manifest' # None /\ manifest'.count = manifest.count
  BY <1>3, <1>7, <1>8, NoneIsAbsent
<1>10. \A r \in Streams :
         /\ SameSpool(r) /\ Clean(r)' = Clean(r) /\ Settled(r)' = Settled(r)
         /\ Committed(r)' = Committed(r) /\ Installed(t, r)' = Installed(t, r)
  BY <1>8 DEF SameSpool, Clean, Settled, Committed, Installed
<1>11. \A r \in Streams : Agrees(r)'
  <2>1. CASE manifest' = manifest
    BY <1>10, <2>1, SpoolStays DEF SpoolsInv
  <2>2. CASE manifest' = NextManifest(t)
    <3> SUFFICES ASSUME NEW r \in Streams PROVE Agrees(r)'
      OBVIOUS
    <3>1. Agrees(r) /\ SameSpool(r) /\ Settled(r)' = Settled(r) /\ Committed(r)' = Committed(r)
      BY <1>10 DEF SpoolsInv
    <3>2. Settled(r)
      <4>1. CASE state = "sealed"
        BY <1>1, <1>2, <1>3, <1>4, <4>1, Reliance
      <4>2. CASE state = "discarded"
        BY <1>3, <1>5, <3>1, <4>2 DEF Agrees
      <4> QED BY <4>1, <4>2
    <3>3. manifest'.state = state /\ meta'[r] = meta[r] /\ intent'[r] = intent[r]
      BY <1>7, <2>2, <3>1 DEF SameSpool
    <3>4. manifest'.state # "discarded" => meta[r] # None /\ meta[r].state # "deleting"
      BY <1>3, <1>5, <3>1, <3>3 DEF Agrees
    <3> QED BY <1>3, <1>9, <3>1, <3>2, <3>3, <3>4 DEF Agrees
  <2> QED BY <1>8, <2>1, <2>2
<1>12. CASE Finish(t) /\ own' = [own EXCEPT ![t] = manifest'] /\ synced' = synced
            /\ manifest' = NextManifest(t)
  <2>1. own'[t] = manifest' /\ \A u \in Tabs \ {t} : own'[u] = own[u]
    BY <1>3, <1>12 DEF Types
  <2>2. GoTo(t, Rest(t))
    BY <1>12 DEF Finish
  <2>3. Apart(t)
    BY <1>2, <1>8, <1>12, <2>1, <2>2, GoToIs DEF Apart
  <2>4. LiveInv'
    BY <1>1, <1>3, <1>8, <1>9, <1>10, <1>12, <2>1, <2>3, LiveWaits DEF Attends
  <2>5. program'[t] = Rest(t) /\ requests'[t] = <<>> /\ (Rest(t) # <<>> => sessionLock' = t)
    BY <1>2, <1>3, <2>2, GoToIs
  <2>6. ASSUME sessionLock' = t, NEW f \in FactNames, NEW r \in Streams, Passes(t, f, r)
        PROVE  Holds(t, f, r)'
    <3>1. own'[t] # None /\ own'[t].state = state
      BY <1>7, <1>9, <1>12, <2>1
    <3>2. CASE f \in {"clean", "installed", "settled"}
      <4>1. Holds(t, f, r)
        BY <1>1, <2>6, <3>2, GivenBy DEF Passes, At
      <4> QED BY <1>10, <2>6, <3>2, <4>1 DEF Holds
    <3>3. CASE f \in {"live", "away"}
      <4>1. Holds(t, f, r)
        BY <1>1, <2>6, <3>3, GivenBy DEF Passes, At
      <4> QED BY <1>3, <1>8, <1>12, <3>3, <4>1 DEF Holds
    <3>4. CASE f \in {"knows", "owns"}
      BY <2>1, <2>6, <3>1, <3>4 DEF Holds
    <3>5. CASE f = "sealed"
      BY <3>1, <3>5 DEF Holds, Owns
    <3>6. CASE f = "capturing"
      <4>1. Loses(Head(program[t]), f) /\ ~Gives(Head(program[t]), f, r)
        BY <1>1, <3>6, GivenBy DEF Loses, At
      <4> QED BY <2>6, <4>1 DEF Passes
    <3>7. CASE f = "kept"
      <4>1. state # "discarded"
        <5>1. ~Gives(Head(program[t]), f, r)
          BY <1>1, <3>7, GivenBy DEF At
        <5>2. ~Loses(Head(program[t]), f)
          BY <2>6, <5>1 DEF Passes
        <5> QED BY <1>4, <3>7, <5>2 DEF Loses, At
      <4> QED BY <3>1, <3>7, <4>1 DEF Holds, Owns
    <3>8. CASE f = "discarded"
      <4>1. state = "discarded"
        <5>1. Holds(t, f, r) => own[t].state = "discarded"
          BY <3>8 DEF Holds, Owns
        <5>2. Gives(Head(program[t]), f, r) => At(t, {"discarded"})
          BY <1>1, <3>8, GivenBy
        <5>3. At(t, {"discarded"}) => state = "discarded"
          BY <1>4 DEF At
        <5> QED BY <1>3, <1>5, <2>6, <5>1, <5>2, <5>3 DEF Passes
      <4> QED BY <3>1, <3>8, <4>1 DEF Holds, Owns
    <3> QED BY <3>2, <3>3, <3>4, <3>5, <3>6, <3>7, <3>8 DEF FactNames
  <2>7. Ready(t)'
    BY <1>1, <1>2, <1>3, <2>5, <2>6, ReadyGoesOn
  <2>8. Placed(t)'
    <3>1. Rest(t) # <<>> => Head(Rest(t)).do \in PlainSteps
      BY <1>3, PlainProgram
    <3>2. ASSUME program'[t] # <<>> PROVE Finds(t, On(t))'
      BY <2>5, <3>1, <3>2 DEF Finds, At, PlainSteps
    <3> QED BY <2>5, <3>2 DEF Placed
  <2>9. Types'
    BY <1>3, <1>8, <1>9, <1>12 DEF Types
  <2> QED BY <1>2, <1>3, <1>8, <1>9, <1>11, <2>3, <2>4, <2>7, <2>8, <2>9, ManifestMoves
<1>13. CASE Throw(t) /\ synced' = [synced EXCEPT ![t] = FALSE] /\ own' = own
  <2>1. synced'[t] = FALSE /\ \A u \in Tabs \ {t} : synced'[u] = synced[u]
    BY <1>3, <1>13 DEF Types
  <2>2. GoTo(t, <<>>)
    BY <1>13 DEF Throw
  <2>3. Apart(t)
    BY <1>2, <1>8, <1>13, <2>1, <2>2, GoToIs DEF Apart
  <2>4. LiveInv'
    <3>1. synced'[Recorder] => synced[Recorder]
      BY <2>1, CaptureAssumption
    <3> QED BY <1>1, <1>3, <1>8, <1>9, <1>10, <1>13, <2>3, <3>1, LiveWaits DEF Attends
  <2>5. Types'
    BY <1>3, <1>8, <1>9, <1>13 DEF Types
  <2>6. Ready(t)' /\ Placed(t)'
    BY <1>2, <1>13, EndsEarly
  <2> QED BY <1>2, <1>3, <1>8, <1>9, <1>11, <2>3, <2>4, <2>5, <2>6, ManifestMoves
<1> QED BY <1>8, <1>12, <1>13

(***************************************************************************)
(* The storage carries out a request, whatever becomes of the answer.      *)
(***************************************************************************)
\* What a manifest that is no longer capturing says of the stream.
LEMMA StillCapturing ==
  ASSUME NEW s \in Streams, Agrees(s), IsCapturing(s), ~Clean(s), manifest # None
  PROVE  manifest.state = "capturing"
BY DEF Agrees, Settled, IsCapturing

LEMMA OneOrOther ==
  ASSUME Types, NEW s \in Streams
  PROVE  /\ ~(Begun(s) /\ Committed(s))
         /\ Begun(s) \/ Committed(s) \/ cleanup[s] # None => ~Clean(s)
BY StreamTypes DEF Begun, Committed, Clean

LEMMA LoadWorks ==
  ASSUME Types, NEW s \in Streams, SpoolInv(s), Agrees(s), IsCapturing(s),
         NEW r, LoadFits(s, r), Perform(Head(r), s)
  PROVE  /\ OnlySpool(s) /\ SpoolInv(s)' /\ Agrees(s)' /\ Loose(s) /\ ~Clean(s)
         /\ meta'[s] = meta[s]
         /\ Len(r) # 1 => LoadFits(s, Tail(r))'
         /\ Len(r) = 1 => Clean(s)'
<1>1. /\ OnlySpool(s) /\ meta'[s] = meta[s] /\ SpoolInv(s)'
      /\ Len(r) # 1 => LoadFits(s, Tail(r))'
      /\ Len(r) = 1 => Clean(s)'
      /\ intent'[s] = intent[s] \/ (Begun(s) /\ intent'[s] = None)
  BY LoadRequest
<1>2. Begun(s) \/ cleanup[s] # None
  BY LoadForms
<1>3. Loose(s) /\ ~Clean(s)
  BY <1>2, OneOrOther DEF Loose
<1>4. manifest' = manifest
  BY <1>1 DEF OnlySpool
<1>5. ASSUME manifest # None PROVE Agrees(s)'
  <2>1. manifest.state = "capturing"
    BY <1>3, <1>5, StillCapturing
  <2>2. CASE intent'[s] = intent[s]
    <3>1. Committed(s)' = Committed(s)
      BY <1>1, <2>2 DEF Committed
    <3> QED BY <1>1, <1>4, <1>5, <2>1, <2>2, <3>1 DEF Agrees
  <2>3. CASE Begun(s) /\ intent'[s] = None
    <3>1. ~Committed(s) /\ ~Committed(s)'
      BY <2>3, OneOrOther DEF Committed
    <3> QED BY <1>1, <1>4, <1>5, <2>1, <3>1 DEF Agrees
  <2> QED BY <1>1, <2>2, <2>3
<1>6. manifest = None => Agrees(s)'
  BY <1>4 DEF Agrees
<1> QED BY <1>1, <1>3, <1>5, <1>6

LEMMA RestoreWorks ==
  ASSUME Types, NEW s \in Streams, SpoolInv(s), Agrees(s), IsCapturing(s), manifest # None,
         NEW r, RestoreFits(s, r), Perform(Head(r), s)
  PROVE  /\ OnlySpool(s) /\ SpoolInv(s)' /\ Agrees(s)' /\ ~Clean(s)
         /\ IsCapturing(s)'
         /\ Len(r) # 1 => RestoreFits(s, Tail(r))'
         /\ Len(r) = 1 => Clean(s)'
<1>1. /\ OnlySpool(s) /\ SpoolInv(s)' /\ IsCapturing(s)' /\ ~Clean(s)
      /\ Len(r) # 1 => RestoreFits(s, Tail(r))'
      /\ Len(r) = 1 => Clean(s)'
      /\ intent'[s] # None => Begun(s)'
      /\ \/ Begun(s) /\ meta'[s] = meta[s]
         \/ Unacknowledged(s) /\ Begun(s)' /\ meta'[s].count = intent[s].from
  BY RestoreRequest
<1>2. manifest.state = "capturing" /\ manifest' = manifest
  BY <1>1, StillCapturing DEF OnlySpool
<1>3. meta'[s].count = manifest.count[s]
  <2>1. CASE Begun(s) /\ meta'[s] = meta[s]
    <3>1. ~Committed(s)
      BY <2>1, OneOrOther
    <3> QED BY <2>1, <3>1 DEF Agrees, IsCapturing
  <2>2. CASE Unacknowledged(s) /\ meta'[s].count = intent[s].from
    BY <2>2 DEF Unacknowledged
  <2> QED BY <1>1, <2>1, <2>2
<1>4. ~Committed(s)'
  <2>1. ASSUME intent'[s] # None PROVE meta'[s].count # intent'[s].from + 1
    <3>1. meta'[s].count = intent'[s].from
      BY <1>1, <2>1 DEF Begun
    <3>2. intent'[s].from \in Nat
      BY <1>1, <2>1 DEF OnlySpool, Intents
    <3> QED BY <3>1, <3>2
  <2> QED BY <2>1 DEF Committed
<1>5. Agrees(s)'
  BY <1>1, <1>2, <1>3, <1>4 DEF Agrees, IsCapturing
<1> QED BY <1>1, <1>5

LEMMA ForgetWorks ==
  ASSUME Types, NEW s \in Streams, SpoolInv(s), Agrees(s), IsCapturing(s),
         NEW r, ForgetFits(s, r), Perform(Head(r), s)
  PROVE  /\ OnlySpool(s) /\ SpoolInv(s)' /\ Agrees(s)' /\ ~Clean(s) /\ Clean(s)'
         /\ meta'[s] = meta[s] /\ Len(r) = 1
<1>1. /\ OnlySpool(s) /\ meta'[s] = meta[s] /\ SpoolInv(s)'
      /\ Len(r) = 1 /\ Clean(s)' /\ Committed(s)
  BY ForgetRequest
<1>2. manifest # None /\ manifest.count[s] = meta[s].count /\ ~Clean(s)
  BY <1>1, OneOrOther DEF ForgetFits
<1>3. manifest.state = "capturing" /\ manifest' = manifest
  BY <1>1, <1>2, StillCapturing DEF OnlySpool
<1>4. ~Committed(s)'
  BY <1>1 DEF Committed, Clean
<1>5. Agrees(s)'
  BY <1>1, <1>2, <1>3, <1>4 DEF Agrees
<1> QED BY <1>1, <1>2, <1>5

LEMMA AppendWorks ==
  ASSUME Types, NEW s \in Streams, SpoolInv(s), Agrees(s), IsCapturing(s),
         manifest # None, manifest.state = "capturing",
         NEW r, AppendFits(s, r), Perform(Head(r), s)
  PROVE  /\ OnlySpool(s) /\ SpoolInv(s)' /\ Agrees(s)' /\ IsCapturing(s)'
         /\ Len(r) # 1 => AppendFits(s, Tail(r))'
         /\ Len(r) = 1 => ~Clean(s) /\ Unacknowledged(s)'
<1>1. /\ OnlySpool(s) /\ SpoolInv(s)' /\ IsCapturing(s)' /\ intent'[s] # None
      /\ Len(r) # 1 => /\ AppendFits(s, Tail(r))' /\ meta'[s] = meta[s] /\ Begun(s)'
                       /\ intent[s] = None \/ Begun(s)
      /\ Len(r) = 1 => /\ Begun(s) /\ Committed(s)' /\ intent'[s] = intent[s]
                       /\ meta'[s].count = meta[s].count + 1
  BY AppendRequest
<1>2. manifest' = manifest /\ intent'[s].from \in Nat
  BY <1>1 DEF OnlySpool, Intents
<1>3. intent[s] = None \/ Begun(s)
  BY <1>1
<1>4. manifest.count[s] = meta[s].count
  BY <1>3, OneOrOther DEF Agrees, IsCapturing, Committed
<1>5. CASE Len(r) # 1
  <2>1. ~Committed(s)'
    BY <1>1, <1>2, <1>5 DEF Begun, Committed
  <2> QED BY <1>1, <1>2, <1>4, <1>5, <2>1 DEF Agrees, IsCapturing
<1>6. CASE Len(r) = 1
  <2>1. manifest.count[s] = intent'[s].from
    BY <1>1, <1>4, <1>6 DEF Begun
  <2>2. Agrees(s)'
    BY <1>1, <1>2, <1>6, <2>1 DEF Agrees, IsCapturing
  <2>3. Unacknowledged(s)' /\ ~Clean(s)
    BY <1>1, <1>2, <1>6, <2>1, OneOrOther DEF Unacknowledged
  <2> QED BY <1>1, <1>6, <2>2, <2>3
<1> QED BY <1>5, <1>6

LEMMA FinalWorks ==
  ASSUME Types, NEW s \in Streams, SpoolInv(s), Agrees(s), manifest # None,
         meta[s] # None, meta[s].state # "deleting", NEW ask, NEW state,
         \/ ask = "seal" /\ state = "sealed" /\ meta[s].count > 0 /\ IsCapturing(s)
         \/ ask = "mark" /\ state = "deleting" /\ manifest.state = "discarded",
         NEW r, FinalFits(s, r, ask), Perform(Head(r), s)
  PROVE  /\ OnlySpool(s) /\ SpoolInv(s)' /\ Agrees(s)'
         /\ Len(r) # 1 => /\ FinalFits(s, Tail(r), ask)' /\ meta'[s] = meta[s]
                          /\ ~Clean(s) /\ IsCapturing(s)
         /\ Len(r) = 1 => /\ Clean(s)' /\ Settled(s)'
                          /\ meta'[s] # None /\ meta'[s].state = state
<1>1. /\ OnlySpool(s) /\ SpoolInv(s)' /\ intent[s] = None /\ intent'[s] = None
      /\ Len(r) # 1 => FinalFits(s, Tail(r), ask)' /\ meta'[s] = meta[s] /\ ~Clean(s)
      /\ Len(r) = 1 => /\ Clean(s) /\ Clean(s)'
                       /\ meta'[s] = [state |-> state, count |-> meta[s].count]
  BY FinalRequest
<1>2. /\ manifest' = manifest /\ ~Committed(s) /\ ~Committed(s)'
      /\ meta[s].count = manifest.count[s]
  BY <1>1 DEF OnlySpool, Committed, Agrees
<1>3. CASE Len(r) # 1
  <2>1. ~Clean(s) /\ IsCapturing(s) /\ meta'[s] = meta[s]
    BY <1>1, <1>3 DEF SpoolInv
  <2>2. manifest.state = "capturing"
    BY <2>1, StillCapturing
  <2>3. Agrees(s)'
    BY <1>2, <2>1, <2>2 DEF Agrees
  <2> QED BY <1>1, <1>3, <2>1, <2>3
<1>4. CASE Len(r) = 1
  <2>1. /\ Clean(s)' /\ meta'[s] = [state |-> state, count |-> meta[s].count]
        /\ state \in SpoolStates
    BY <1>1, <1>4 DEF SpoolStates
  <2>2. /\ meta'[s].state = state /\ meta'[s].count = meta[s].count /\ meta'[s] # None
    <3>1. meta[s].count \in Nat
      BY StreamTypes
    <3>2. meta'[s] \in Metas
      BY <2>1, <3>1 DEF Metas
    <3> QED BY <2>1, <3>2, NoneIsAbsent
  <2>3. Settled(s)'
    BY <2>1, <2>2 DEF Settled
  <2>4. Agrees(s)'
    BY <1>2, <2>2, <2>3 DEF Agrees
  <2> QED BY <1>1, <1>4, <2>1, <2>2, <2>3, <2>4
<1> QED BY <1>3, <1>4

(***************************************************************************)
(* Tab t has asked for something at its step x on stream s.                *)
(***************************************************************************)
Asks(t, x, s) ==
  requests[t] # <<>> /\ program[t] # <<>> /\ Head(program[t]).do = x /\ On(t) = s

LEMMA Asking ==
  ASSUME SpoolsInv, NEW t \in Tabs, NEW x, NEW s, Asks(t, x, s)
  PROVE  /\ Discipline /\ Types /\ s \in Streams /\ SpoolInv(s) /\ Agrees(s) /\ Ready(t)
         /\ x \in LockingSteps /\ \A steps : At(t, steps) <=> x \in steps
         /\ spoolLock[s] = t /\ \A u \in Tabs \ {t} : spoolLock[s] # u
         /\ x # "list" => sessionLock = t /\ manifest # None /\ manifest \in Manifests
         /\ x = "list" => sessionLock # t
         /\ x \in CaptureSteps =>
              t = Recorder /\ own[t] # None /\ own[t].state = "capturing" /\ own[t] = manifest
         /\ Fits(t, s, requests[t])
<1>1. Discipline /\ Types /\ s \in Streams /\ SpoolInv(s) /\ Agrees(s) /\ Ready(t)
      /\ program[t] # <<>> /\ On(t) = s /\ requests[t] # <<>>
  BY Arrives DEF Asks
<1>2. \A steps : At(t, steps) <=> x \in steps
  BY DEF Asks, At
<1>3. x \in LockingSteps /\ spoolLock[s] = t
  BY <1>1, <1>2, AskingStep
<1>4. \A u \in Tabs \ {t} : spoolLock[s] # u
  BY <1>3
<1>5. x \in {"list"} \cup PlainSteps \cup TurnedSteps \cup CaptureSteps
  BY <1>3 DEF LockingSteps, PlainSteps, TurnedSteps, CaptureSteps
<1>6. x # "list" => sessionLock = t /\ manifest # None /\ manifest \in Manifests
  BY <1>1, <1>2, <1>5, Arrives
<1>7. x = "list" => sessionLock # t
  BY <1>1, <1>2, FirstStep
<1>8. ASSUME x \in CaptureSteps
      PROVE  t = Recorder /\ own[t] # None /\ own[t].state = "capturing" /\ own[t] = manifest
  <2>1. t = Recorder
    BY <1>1, <1>2, <1>8, FirstStep
  <2>2. Owns(t, {"capturing"})
    BY <1>1, <1>2, <1>8, Reliance
  <2>3. own[t] = manifest
    <3>1. x \in {"seal", "sealed", "discarded", "mark", "erase", "drop", "remove",
                 "append", "publish", "acknowledge", "reacknowledge", "repair"}
      BY <1>3, <1>8 DEF LockingSteps, CaptureSteps
    <3> QED BY <1>1, <1>2, <3>1, Reliance
  <2> QED BY <2>1, <2>2, <2>3 DEF Owns
<1>9. Fits(t, s, requests[t])
  <2>1. Placed(t)
    BY DEF SpoolsInv
  <2> QED BY <1>1, <2>1 DEF Placed
<1> QED BY <1>1, <1>2, <1>3, <1>4, <1>6, <1>7, <1>8, <1>9

\* What the deletion of a spool relies on.
LEMMA AskingToMark ==
  ASSUME SpoolsInv, NEW t \in Tabs, NEW s, Asks(t, "mark", s)
  PROVE  own[t] = manifest /\ Owns(t, {"discarded"}) /\ manifest.state = "discarded"
<1>1. Discipline /\ Ready(t) /\ program[t] # <<>>
      /\ At(t, {"mark", "erase", "drop", "remove"})
      /\ At(t, {"seal", "sealed", "discarded", "mark", "erase", "drop", "remove",
                "append", "publish", "acknowledge", "reacknowledge", "repair"})
  BY Asking DEF Asks
<1>2. own[t] = manifest /\ Owns(t, {"discarded"})
  BY <1>1, Reliance
<1> QED BY <1>2 DEF Owns

\* Nothing was carried out.
LEMMA NothingWorks ==
  ASSUME Types, NEW s \in Streams, SpoolInv(s), Agrees(s), UNCHANGED <<durable, taken>>
  PROVE  /\ OnlySpool(s) /\ SpoolInv(s)' /\ Agrees(s)' /\ SameSpool(s)
         /\ \A r \in Streams : Clean(r)' = Clean(r)
<1>1. /\ manifest' = manifest /\ meta' = meta /\ stored' = stored /\ intent' = intent
      /\ cleanup' = cleanup /\ taken' = taken
  BY DEF durable
<1>2. SameSpool(s)
  BY <1>1 DEF SameSpool
<1>3. SpoolInv(s)' /\ Agrees(s)'
  BY <1>1, <1>2, SpoolStays
<1>4. OnlySpool(s)
  BY <1>1 DEF OnlySpool, SameSpool, Types
<1> QED BY <1>1, <1>2, <1>3, <1>4 DEF Clean

\* What a request leaves, whether it is carried out or not.
LEMMA Works ==
  ASSUME SpoolsInv, NEW t \in Tabs, NEW x, NEW s, Asks(t, x, s),
         UNCHANGED <<durable, taken>> \/ Perform(Head(requests[t]), s)
  PROVE  /\ OnlySpool(s) /\ SpoolInv(s)' /\ Agrees(s)'
         /\ sessionLock = t \/ (IsCapturing(s) /\ Loose(s))
         /\ x # "append" => \A r \in Streams : Clean(r) => Clean(r)'
<1>1. /\ Types /\ s \in Streams /\ SpoolInv(s) /\ Agrees(s) /\ Fits(t, s, requests[t])
      /\ x \in LockingSteps /\ \A steps : At(t, steps) <=> x \in steps
      /\ x # "list" => sessionLock = t /\ manifest # None
      /\ x \in CaptureSteps => own[t].state = "capturing" /\ own[t] = manifest
  BY Asking
<1>2. sessionLock = t \/ (IsCapturing(s) /\ Loose(s))
  <2>1. CASE x = "list"
    <3>1. IsCapturing(s) /\ LoadFits(s, requests[t])
      BY <1>1, <2>1 DEF Fits
    <3>2. Begun(s) \/ cleanup[s] # None
      BY <1>1, <3>1, LoadForms
    <3> QED BY <3>1, <3>2 DEF Loose
  <2>2. CASE x # "list"
    BY <1>1, <2>2
  <2> QED BY <2>1, <2>2
<1>3. CASE UNCHANGED <<durable, taken>>
  BY <1>1, <1>2, <1>3, NothingWorks
<1>4. CASE Perform(Head(requests[t]), s)
  <2>1. /\ OnlySpool(s) /\ SpoolInv(s)' /\ Agrees(s)'
        /\ x # "append" => (Clean(s) => Clean(s)')
    <3>1. CASE x \in {"load", "list"}
      <4>1. IsCapturing(s) /\ LoadFits(s, requests[t])
        BY <1>1, <3>1 DEF Fits
      <4> QED BY <1>1, <1>4, <4>1, LoadWorks
    <3>2. CASE x \in {"rollback", "repair"}
      <4>1. IsCapturing(s) /\ RestoreFits(s, requests[t])
        BY <1>1, <3>2 DEF Fits
      <4> QED BY <1>1, <1>4, <3>2, <4>1, RestoreWorks
    <3>3. CASE x \in {"match", "acknowledge", "reacknowledge"}
      <4>1. IsCapturing(s) /\ ForgetFits(s, requests[t])
        BY <1>1, <3>3 DEF Fits
      <4> QED BY <1>1, <1>4, <4>1, ForgetWorks
    <3>4. CASE x = "append"
      <4>1. IsCapturing(s) /\ AppendFits(s, requests[t])
        BY <1>1, <3>4 DEF Fits
      <4>2. manifest # None /\ manifest.state = "capturing"
        BY <1>1, <3>4 DEF CaptureSteps
      <4> QED BY <1>1, <1>4, <3>4, <4>1, <4>2, AppendWorks
    <3>5. CASE x = "seal"
      <4>1. meta[s] # None /\ IsCapturing(s) /\ meta[s].count > 0
            /\ FinalFits(s, requests[t], "seal")
        BY <1>1, <3>5 DEF Fits
      <4>2. meta[s].state # "deleting" /\ manifest # None
        BY <1>1, <3>5, <4>1 DEF IsCapturing
      <4>3. /\ OnlySpool(s) /\ SpoolInv(s)' /\ Agrees(s)'
            /\ Len(requests[t]) # 1 => ~Clean(s)
            /\ Len(requests[t]) = 1 => Clean(s)'
        BY <1>1, <1>4, <4>1, <4>2, FinalWorks
      <4> QED BY <4>3
    <3>6. CASE x = "mark"
      <4>1. meta[s] # None /\ meta[s].state # "deleting" /\ FinalFits(s, requests[t], "mark")
        BY <1>1, <3>6 DEF Fits
      <4>2. manifest # None /\ manifest.state = "discarded"
        BY <1>1, <3>6, AskingToMark
      <4>3. /\ OnlySpool(s) /\ SpoolInv(s)' /\ Agrees(s)'
            /\ Len(requests[t]) # 1 => ~Clean(s)
            /\ Len(requests[t]) = 1 => Clean(s)'
        BY <1>1, <1>4, <4>1, <4>2, FinalWorks
      <4> QED BY <4>3
    <3> QED BY <1>1, <3>1, <3>2, <3>3, <3>4, <3>5, <3>6 DEF LockingSteps
  <2>2. \A r \in Streams \ {s} : Clean(r)' = Clean(r)
    BY <2>1, SameIs DEF OnlySpool
  <2> QED BY <1>2, <2>1, <2>2
<1> QED BY <1>3, <1>4

\* The types of a step that works on one spool.
LEMMA WorkTypes ==
  ASSUME Types, NEW s \in Streams, OnlySpool(s), own' = own,
         spools' \in [Tabs -> [Streams -> Metas \cup {None}]], synced' \in [Tabs -> BOOLEAN],
         recording' \in (SUBSET Streams) \cup {None}
  PROVE  Types'
BY DEF Types, OnlySpool

\* The step fails, or was the last one.
LEMMA SpoolEnds ==
  ASSUME SpoolsInv, NEW t \in Tabs, NEW x, NEW s, Asks(t, x, s),
         UNCHANGED <<durable, taken>> \/ Perform(Head(requests[t]), s), Throw(t), own' = own,
         spools' \in [Tabs -> [Streams -> Metas \cup {None}]],
         \A u \in Tabs \ {t} : spools'[u] = spools[u],
         synced' \in [Tabs -> BOOLEAN], \A u \in Tabs \ {t} : synced'[u] = synced[u],
         recording' \in (SUBSET Streams) \cup {None}, t # Recorder => recording' = recording,
         LiveInv', refused' = refused
  PROVE  SpoolsInv'
<1>1. /\ Discipline /\ Discipline' /\ Types /\ s \in Streams
      /\ \A u \in Tabs \ {t} : spoolLock[s] # u
  BY Asking, ThrowKeeps
<1>2. /\ OnlySpool(s) /\ SpoolInv(s)' /\ Agrees(s)'
      /\ sessionLock = t \/ (IsCapturing(s) /\ Loose(s))
  BY Works
<1>3. GoTo(t, <<>>)
  BY DEF Throw
<1>4. Apart(t)
  BY <1>1, <1>3, GoToIs DEF Apart
<1>5. Types'
  BY <1>1, <1>2, WorkTypes
<1>6. Ready(t)' /\ Placed(t)' /\ sessionLock' # t
  BY <1>1, EndsEarly
<1>7. manifest' = manifest /\ \A r \in Streams \ {s} : SameSpool(r)
  BY <1>2 DEF OnlySpool
<1> QED BY <1>1, <1>2, <1>4, <1>5, <1>6, <1>7, OneSpool

LEMMA FailedGoes ==
  ASSUME SpoolsInv, NEW t \in Tabs, NEW x, NEW s, Asks(t, x, s), Failed(t, s),
         UNCHANGED <<durable, taken>> \/ Perform(Head(requests[t]), s), refused' = refused
  PROVE  SpoolsInv'
<1>1. /\ Discipline /\ Types /\ s \in Streams /\ SpoolInv(s) /\ Agrees(s)
      /\ Fits(t, s, requests[t]) /\ On(t) = s /\ program[t] # <<>>
      /\ x \in LockingSteps /\ \A steps : At(t, steps) <=> x \in steps
      /\ \A u \in Tabs \ {t} : spoolLock[s] # u
      /\ x # "list" => sessionLock = t /\ manifest # None /\ manifest \in Manifests
      /\ x \in CaptureSteps =>
           t = Recorder /\ own[t] # None /\ own[t].state = "capturing" /\ own[t] = manifest
  BY Asking DEF Asks
<1>2. /\ OnlySpool(s) /\ SpoolInv(s)' /\ Agrees(s)'
      /\ sessionLock = t \/ (IsCapturing(s) /\ Loose(s))
      /\ x # "append" => \A r \in Streams : Clean(r) => Clean(r)'
  BY Works
<1>3. manifest' = manifest /\ \A r \in Streams \ {s} : SameSpool(r)
  BY <1>2 DEF OnlySpool
<1>4. /\ own \in [Tabs -> Manifests \cup {None}] /\ synced \in [Tabs -> BOOLEAN]
      /\ spools \in [Tabs -> [Streams -> Metas \cup {None}]]
      /\ recording \in (SUBSET Streams) \cup {None}
  BY <1>1 DEF Types
<1>5. CASE x = "acknowledge"
  <2>1. GoTo(t, <<Do("recheck", s)>>) /\ UNCHANGED session
    BY <1>1, <1>5 DEF Failed
  <2>2. own' = own /\ spools' = spools /\ synced' = synced /\ recording' = recording
    BY <2>1 DEF session
  <2>3. IsCapturing(s) /\ ForgetFits(s, requests[t]) /\ spools[t][s] = meta[s]
        /\ meta[s] # None /\ meta[s].count > 0
    BY <1>1, <1>5 DEF Fits
  <2>4. meta'[s] = meta[s] /\ ~Loose(s)'
    <3>1. CASE UNCHANGED <<durable, taken>>
      <4>1. SameSpool(s) /\ Loose(s)' = Loose(s)
        BY <1>1, <3>1, NothingWorks, SameIs
      <4>2. ~Loose(s)
        BY <1>1, <2>3, OneOrOther DEF ForgetFits, Loose, SpoolInv, Committed
      <4> QED BY <4>1, <4>2 DEF SameSpool
    <3>2. CASE Perform(Head(requests[t]), s)
      <4>1. Clean(s)' /\ meta'[s] = meta[s]
        BY <1>1, <2>3, <3>2, ForgetWorks
      <4> QED BY <4>1 DEF Clean, Loose, Begun
    <3> QED BY <3>1, <3>2
  <2>5. t = Recorder /\ own[t] # None /\ own[t].state = "capturing" /\ own[t] = manifest
        /\ sessionLock = t /\ manifest # None
    BY <1>1, <1>5 DEF CaptureSteps
  <2>6. Expects(t, "recheck", s)'
    BY <1>3, <2>2, <2>3, <2>4, <2>5 DEF Expects
  <2>7. Ready(t)' /\ Placed(t)' /\ Attends(t)
    BY <1>1, <2>1, <2>5, <2>6, CaptureTurns
  <2>8. Discipline'
    <3>1. At(t, CaptureSteps)
      BY <1>1, <1>5 DEF CaptureSteps
    <3> QED BY <1>1, <2>1, <3>1, OneMoreKeeps
  <2>9. Apart(t)
    BY <1>1, <2>1, <2>2, GoToIs DEF Apart
  <2>10. Types'
    BY <1>1, <1>2, <1>4, <2>2, WorkTypes
  <2>11. LiveInv'
    BY <1>2, <1>3, <1>5, <2>2, <2>7, <2>9, LiveWaits
  <2> QED BY <1>1, <1>2, <1>3, <2>5, <2>7, <2>8, <2>9, <2>10, <2>11, OneSpool
<1>6. CASE x \in {"reacknowledge", "repair"}
  <2>1. Throw(t) /\ LoseSync(t)
    BY <1>1, <1>6 DEF Failed
  <2>2. own' = own /\ spools' = spools /\ recording' = recording
        /\ synced' = [synced EXCEPT ![t] = FALSE]
    BY <2>1 DEF LoseSync
  <2>3. /\ synced' \in [Tabs -> BOOLEAN] /\ synced'[t] = FALSE
        /\ \A u \in Tabs \ {t} : synced'[u] = synced[u]
    BY <1>4, <2>2
  <2>4. LiveInv'
    BY <1>1, <1>3, <1>6, <2>2, <2>3 DEF SpoolsInv, LiveInv, CaptureSteps
  <2> QED BY <1>4, <2>1, <2>2, <2>3, <2>4, SpoolEnds
<1>7. CASE x = "append"
  <2>1. Throw(t) /\ Gap(t, s) /\ UNCHANGED <<own, spools, synced>>
    BY <1>1, <1>7 DEF Failed
  <2>2. t = Recorder /\ At(Recorder, CaptureSteps) /\ On(Recorder) = s
    BY <1>1, <1>7 DEF CaptureSteps
  <2>3. LiveInv'
    BY <1>1, <1>3, <2>1, <2>2, LiveGap
  <2>4. recording' \in (SUBSET Streams) \cup {None}
    BY <1>4, <2>1 DEF Gap
  <2> QED BY <1>4, <2>1, <2>2, <2>3, <2>4, SpoolEnds
<1>8. CASE x \in {"list", "load", "match", "rollback", "seal", "mark"}
  <2>1. Throw(t) /\ UNCHANGED session
    BY <1>1, <1>8 DEF Failed
  <2>2. own' = own /\ spools' = spools /\ synced' = synced /\ recording' = recording
    BY <2>1 DEF session
  <2>3. Apart(t)
    BY <1>1, <2>1, <2>2, GoToIs DEF Apart, Throw
  <2>4. ~At(t, CaptureSteps)
    BY <1>1, <1>8 DEF CaptureSteps
  <2>5. LiveInv'
    BY <1>2, <1>3, <1>8, <2>2, <2>3, <2>4, LiveWaits DEF Attends
  <2> QED BY <1>4, <2>1, <2>2, <2>5, SpoolEnds
<1> QED BY <1>1, <1>5, <1>6, <1>7, <1>8 DEF LockingSteps

\* The storage answers one of several requests.
LEMMA AnswerIs ==
  ASSUME Discipline, NEW t \in Tabs, requests[t] # <<>>, Len(requests[t]) # 1,
         requests' = [requests EXCEPT ![t] = Tail(@)]
  PROVE  /\ requests'[t] = Tail(requests[t]) /\ Tail(requests[t]) # <<>>
         /\ \A u \in Tabs \ {t} : requests'[u] = requests[u]
<1>1. PICK S : requests \in [Tabs -> Seq(S)]
  BY DEF Discipline
<1>2. /\ requests[t] \in Seq(S)
      /\ requests'[t] = Tail(requests[t])
      /\ \A u \in Tabs \ {t} : requests'[u] = requests[u]
  BY <1>1
<1>3. Len(Tail(requests[t])) = Len(requests[t]) - 1 /\ Len(requests[t]) \in Nat
  BY <1>2, HeadTailProperties, LenProperties
<1>4. Len(<<>>) = 0
  BY EmptySeq
<1>5. ASSUME Tail(requests[t]) = <<>> PROVE FALSE
  <2>1. Len(Tail(requests[t])) = 0
    BY <1>4, <1>5
  <2> QED BY <1>3, <2>1
<1> QED BY <1>2, <1>5

LEMMA MoreFits ==
  ASSUME SpoolsInv, NEW t \in Tabs, NEW x, NEW s, Asks(t, x, s),
         Perform(Head(requests[t]), s), Len(requests[t]) # 1,
         NEW rest, rest = Tail(requests[t]), program' = program, spools' = spools
  PROVE  /\ Fits(t, s, rest)'
         /\ x = "append" \/ (IsCapturing(s) /\ ~Clean(s))
<1>1. /\ Types /\ s \in Streams /\ SpoolInv(s) /\ Agrees(s) /\ Fits(t, s, requests[t])
      /\ x \in LockingSteps /\ \A steps : At(t, steps) <=> x \in steps
      /\ x # "list" => sessionLock = t /\ manifest # None
      /\ x \in CaptureSteps => own[t].state = "capturing" /\ own[t] = manifest
  BY Asking
<1>2. \A steps : At(t, steps)' <=> x \in steps
  BY <1>1 DEF At
<1>3. CASE x \in {"load", "list"}
  <2>1. IsCapturing(s) /\ LoadFits(s, requests[t]) /\ meta[s] # None
    BY <1>1, <1>3 DEF Fits
  <2>2. LoadFits(s, rest)' /\ meta'[s] = meta[s] /\ ~Clean(s)
    BY <1>1, <2>1, LoadWorks
  <2>3. IsCapturing(s)'
    BY <2>1, <2>2 DEF IsCapturing
  <2>4. Fits(t, s, rest)'
    BY <1>2, <1>3, <2>1, <2>2, <2>3 DEF Fits
  <2> QED BY <2>1, <2>2, <2>4
<1>4. CASE x \in {"rollback", "repair"}
  <2>1. IsCapturing(s) /\ RestoreFits(s, requests[t])
    BY <1>1, <1>4 DEF Fits
  <2>2. RestoreFits(s, rest)' /\ IsCapturing(s)' /\ ~Clean(s)
    BY <1>1, <1>4, <2>1, RestoreWorks
  <2>3. Fits(t, s, rest)'
    BY <1>2, <1>4, <2>2 DEF Fits, IsCapturing
  <2> QED BY <2>1, <2>2, <2>3
<1>5. CASE x \in {"match", "acknowledge", "reacknowledge"}
  <2>1. IsCapturing(s) /\ ForgetFits(s, requests[t])
    BY <1>1, <1>5 DEF Fits
  <2> QED BY <1>1, <2>1, ForgetWorks
<1>6. CASE x = "append"
  <2>1. IsCapturing(s) /\ AppendFits(s, requests[t])
    BY <1>1, <1>6 DEF Fits
  <2>2. manifest # None /\ manifest.state = "capturing"
    BY <1>1, <1>6 DEF CaptureSteps
  <2>3. AppendFits(s, rest)' /\ IsCapturing(s)'
    BY <1>1, <2>1, <2>2, AppendWorks
  <2>4. Fits(t, s, rest)'
    BY <1>2, <1>6, <2>3 DEF Fits, IsCapturing
  <2> QED BY <1>6, <2>4
<1>7. CASE x = "seal"
  <2>1. IsCapturing(s) /\ FinalFits(s, requests[t], "seal") /\ meta[s] # None /\ meta[s].count > 0
    BY <1>1, <1>7 DEF Fits
  <2>2. meta[s].state # "deleting" /\ manifest # None
    BY <1>1, <1>7, <2>1 DEF IsCapturing
  <2>3. FinalFits(s, rest, "seal")' /\ meta'[s] = meta[s] /\ ~Clean(s)
    BY <1>1, <2>1, <2>2, FinalWorks
  <2>4. IsCapturing(s)'
    BY <2>1, <2>3 DEF IsCapturing
  <2>5. Fits(t, s, rest)'
    BY <1>2, <1>7, <2>1, <2>3, <2>4 DEF Fits
  <2> QED BY <2>1, <2>3, <2>5
<1>8. CASE x = "mark"
  <2>1. meta[s] # None /\ meta[s].state # "deleting" /\ FinalFits(s, requests[t], "mark")
    BY <1>1, <1>8 DEF Fits
  <2>2. manifest # None /\ manifest.state = "discarded"
    BY <1>1, <1>8, AskingToMark
  <2>3. /\ FinalFits(s, rest, "mark")' /\ meta'[s] = meta[s] /\ ~Clean(s)
        /\ IsCapturing(s)
    BY <1>1, <2>1, <2>2, FinalWorks
  <2>4. Fits(t, s, rest)'
    BY <1>2, <1>8, <2>1, <2>3 DEF Fits
  <2> QED BY <2>3, <2>4
<1> QED BY <1>1, <1>3, <1>4, <1>5, <1>6, <1>7, <1>8 DEF LockingSteps

LEMMA MoreGoes ==
  ASSUME SpoolsInv, NEW t \in Tabs, NEW x, NEW s, Asks(t, x, s),
         Perform(Head(requests[t]), s), Len(requests[t]) # 1,
         requests' = [requests EXCEPT ![t] = Tail(@)],
         UNCHANGED <<program, locks, session, told, refused>>
  PROVE  SpoolsInv'
<1>1. /\ Discipline /\ Types /\ s \in Streams /\ SpoolInv(s) /\ Agrees(s) /\ Ready(t)
      /\ Fits(t, s, requests[t]) /\ On(t) = s /\ program[t] # <<>> /\ requests[t] # <<>>
      /\ x \in LockingSteps /\ \A steps : At(t, steps) <=> x \in steps
      /\ \A u \in Tabs \ {t} : spoolLock[s] # u
      /\ x # "list" => sessionLock = t
      /\ Head(program[t]).do = x
  BY Asking DEF Asks
<1>2. /\ OnlySpool(s) /\ SpoolInv(s)' /\ Agrees(s)'
      /\ sessionLock = t \/ (IsCapturing(s) /\ Loose(s))
      /\ x # "append" => \A r \in Streams : Clean(r) => Clean(r)'
  BY Works
<1>3. /\ manifest' = manifest /\ \A r \in Streams \ {s} : SameSpool(r)
      /\ program' = program /\ sessionLock' = sessionLock
      /\ own' = own /\ spools' = spools /\ synced' = synced /\ recording' = recording
  BY <1>2 DEF OnlySpool, locks, session
<1>4. PICK rest : rest = Tail(requests[t])
  OBVIOUS
<1>5. /\ Fits(t, s, rest)'
      /\ x = "append" \/ (IsCapturing(s) /\ ~Clean(s))
  <2>1. program' = program /\ spools' = spools /\ rest = Tail(requests[t])
    BY <1>3, <1>4
  <2>2. Fits(t, s, rest)'
    BY <2>1, MoreFits
  <2>3. x = "append" \/ (IsCapturing(s) /\ ~Clean(s))
    BY <2>1, <2>2, MoreFits
  <2> QED BY <2>2, <2>3
<1>6. /\ requests'[t] = rest /\ rest # <<>>
      /\ \A u \in Tabs \ {t} : requests'[u] = requests[u]
  BY <1>1, <1>4, AnswerIs
<1>7. Discipline'
  BY <1>1, AnswerKeeps
<1>8. Placed(t)'
  <2>1. On(t)' = s
    BY <1>1, <1>3 DEF On
  <2> QED BY <1>5, <1>6, <2>1 DEF Placed
<1>9. Ready(t)'
  <2>1. CASE x = "append"
    <3>1. ASSUME NEW f \in FactNames, NEW r \in Streams, Holds(t, f, r)
          PROVE  Holds(t, f, r)' \/ (Loses(Head(program[t]), f) /\ ~Needs(Head(program[t]), f, r))
      <4>1. CASE f \in {"clean", "installed", "settled"}
        BY <1>1, <2>1, <4>1 DEF Loses, Needs, CaptureSteps
      <4>2. CASE f \in {"live", "knows", "owns", "away"}
        BY <1>3, <3>1, <4>2 DEF Holds
      <4>3. CASE f \in {"kept", "capturing", "sealed", "discarded"}
        BY <1>3, <3>1, <4>3 DEF Holds, Owns
      <4> QED BY <4>1, <4>2, <4>3 DEF FactNames
    <3> QED BY <1>1, <1>3, <3>1, ReadyStays
  <2>2. CASE x # "append"
    <3>1. \A r \in Streams : SameSpool(r) \/ (IsCapturing(r) /\ ~Clean(r))
      BY <1>3, <1>5, <2>2
    <3>2. \A f \in FactNames, r \in Streams : Holds(t, f, r) => Holds(t, f, r)'
      BY <1>3, <3>1, FactsStay
    <3> QED BY <1>1, <1>3, <3>2, ReadyStays
  <2> QED BY <2>1, <2>2
<1>10. Apart(t)
  BY <1>3, <1>6 DEF Apart
<1>11. Types'
  BY <1>1, <1>2, <1>3, WorkTypes DEF Types
<1>12. LiveInv'
  <2>1. CASE x = "append"
    <3>1. t = Recorder
      BY <1>1, <2>1, Asking DEF CaptureSteps
    <3>2. \A r \in Streams : Busy(r) => r = s
      BY <1>1, <3>1 DEF Busy
    <3>3. Busy(s)'
      <4>1. sessionLock' = Recorder /\ requests'[Recorder] # <<>> /\ On(Recorder)' = s
        BY <1>1, <1>3, <1>6, <2>1, <3>1 DEF On
      <4>2. At(Recorder, CaptureSteps)'
        BY <1>1, <1>3, <2>1, <3>1 DEF At, CaptureSteps
      <4> QED BY <4>1, <4>2 DEF Busy
    <3>4. \A r \in Streams \ {s} : Clean(r) => Clean(r)'
      BY <1>3, SameIs
    <3>5. recording # None => recording \subseteq Streams
      BY <1>1 DEF Types
    <3> QED BY <1>3, <3>2, <3>3, <3>4, <3>5, LiveKeeps DEF SpoolsInv, LiveInv
  <2>2. CASE x # "append"
    <3>1. Attends(t)
      <4>1. At(t, CaptureSteps) => sessionLock' = t
        BY <1>1, <1>3 DEF CaptureSteps
      <4>2. /\ At(t, CaptureSteps) => x \in CaptureSteps
            /\ Head(program'[t]) = Head(program[t]) /\ program'[t] # <<>>
            /\ Head(program[t]).on = s /\ requests'[t] # <<>>
        BY <1>1, <1>3, <1>6 DEF On
      <4> QED BY <1>1, <4>1, <4>2 DEF Attends
    <3> QED BY <1>2, <1>3, <1>10, <2>2, <3>1, LiveWaits
  <2> QED BY <2>1, <2>2
<1>13. sessionLock' = t => manifest # None
  BY <1>3, LockedSession
<1> QED BY <1>1, <1>2, <1>3, <1>7, <1>8, <1>9, <1>10, <1>11, <1>12, <1>13, OneSpool

(***************************************************************************)
(* The storage answers the last request, and the step is completed.        *)
(***************************************************************************)
LEMMA HoldIs ==
  ASSUME Types, NEW t \in Tabs, NEW s \in Streams, OnlySpool(s),
         spools' = [spools EXCEPT ![t][s] = meta'[s]]
  PROVE  /\ spools' \in [Tabs -> [Streams -> Metas \cup {None}]]
         /\ spools'[t][s] = meta'[s]
         /\ \A r \in Streams \ {s} : spools'[t][r] = spools[t][r]
         /\ \A u \in Tabs \ {t} : spools'[u] = spools[u]
<1>1. spools \in [Tabs -> [Streams -> Metas \cup {None}]] /\ meta'[s] \in Metas \cup {None}
  BY DEF Types, OnlySpool
<1> QED BY <1>1

\* The step leaves the session to the rest of its program.
LEMMA WorkGoes ==
  ASSUME SpoolsInv, Discipline', NEW t \in Tabs, NEW x, NEW s, Asks(t, x, s),
         Perform(Head(requests[t]), s), NEW steps, GoTo(t, steps),
         own' = own, synced' = synced, recording' = recording,
         spools' \in [Tabs -> [Streams -> Metas \cup {None}]],
         \A u \in Tabs \ {t} : spools'[u] = spools[u],
         x \in CaptureSteps => LiveInv',
         Ready(t)', Placed(t)', refused' = refused
  PROVE  SpoolsInv'
<1>1. /\ Discipline /\ Types /\ s \in Streams /\ \A u \in Tabs \ {t} : spoolLock[s] # u
      /\ \A other : At(t, other) <=> x \in other
  BY Asking
<1>2. /\ OnlySpool(s) /\ SpoolInv(s)' /\ Agrees(s)'
      /\ sessionLock = t \/ (IsCapturing(s) /\ Loose(s))
      /\ x # "append" => \A r \in Streams : Clean(r) => Clean(r)'
  BY Works
<1>3. manifest' = manifest /\ \A r \in Streams \ {s} : SameSpool(r)
  BY <1>2 DEF OnlySpool
<1>4. Apart(t)
  BY <1>1, GoToIs DEF Apart
<1>5. Types'
  <2>1. synced \in [Tabs -> BOOLEAN] /\ recording \in (SUBSET Streams) \cup {None}
    BY <1>1 DEF Types
  <2> QED BY <1>1, <1>2, <2>1, WorkTypes
<1>6. sessionLock' = t => manifest # None
  BY <1>1, GoToIs, LockedSession
<1>7. LiveInv'
  <2>1. CASE x \notin CaptureSteps
    <3>1. ~At(t, CaptureSteps) /\ x # "append"
      BY <1>1, <2>1 DEF CaptureSteps
    <3> QED BY <1>2, <1>3, <1>4, <3>1, LiveWaits DEF Attends
  <2> QED BY <2>1
<1> QED BY <1>1, <1>2, <1>3, <1>4, <1>5, <1>6, <1>7, OneSpool

\* What it works on was not fit to be relied on before, or is now.
LEMMA WorkSpares ==
  ASSUME NEW t \in Tabs, NEW s \in Streams,
         \A r \in Streams \ {s} : SameSpool(r) /\ spools'[t][r] = spools[t][r],
         (Clean(s)' /\ Settled(s)' /\ Installed(t, s)') \/ (IsCapturing(s) /\ ~Clean(s))
  PROVE  Unspoilt(t)
<1>1. ASSUME NEW r \in Streams \ {s}
      PROVE  /\ Clean(r) => Clean(r)'
             /\ Settled(r) => Settled(r)'
             /\ Installed(t, r) => Installed(t, r)'
  <2>1. Clean(r)' = Clean(r) /\ Settled(r)' = Settled(r) /\ meta'[r] = meta[r]
        /\ spools'[t][r] = spools[t][r]
    BY <1>1, SameIs DEF SameSpool
  <2> QED BY <2>1 DEF Installed
<1>2. /\ Clean(s) => Clean(s)'
      /\ Settled(s) => Settled(s)'
      /\ Installed(t, s) => Installed(t, s)'
  BY DEF Settled, Installed, IsCapturing
<1> QED BY <1>1, <1>2 DEF Unspoilt

LEMMA CompletedInspection ==
  ASSUME SpoolsInv, NEW t \in Tabs, NEW x \in {"load", "match", "rollback", "list"}, NEW s,
         Asks(t, x, s), Perform(Head(requests[t]), s), Len(requests[t]) = 1,
         Completed(t, s), refused' = refused
  PROVE  SpoolsInv'
<1>1. /\ Discipline /\ Types /\ s \in Streams /\ SpoolInv(s) /\ Agrees(s) /\ Ready(t)
      /\ Fits(t, s, requests[t]) /\ On(t) = s /\ program[t] # <<>> /\ Head(program[t]).do = x
      /\ \A steps : At(t, steps) <=> x \in steps
      /\ x # "list" => sessionLock = t /\ manifest # None
      /\ x = "list" => sessionLock # t
  BY Asking DEF Asks
<1>2. OnlySpool(s) /\ manifest' = manifest /\ \A r \in Streams \ {s} : SameSpool(r)
  BY Works DEF OnlySpool
<1>3. UNCHANGED session
  BY <1>1 DEF Completed
<1>4. /\ own' = own /\ spools' = spools /\ synced' = synced /\ recording' = recording
      /\ spools \in [Tabs -> [Streams -> Metas \cup {None}]]
  BY <1>1, <1>3 DEF session, Types
<1>5. Discipline'
  BY <1>1, CompletedKeeps
<1>6. Clean(s)' /\ ~Clean(s) /\ IsCapturing(s)
  <2>1. CASE x \in {"load", "list"}
    <3>1. IsCapturing(s) /\ LoadFits(s, requests[t])
      BY <1>1, <2>1 DEF Fits
    <3> QED BY <1>1, <3>1, LoadWorks
  <2>2. CASE x = "rollback"
    <3>1. IsCapturing(s) /\ RestoreFits(s, requests[t])
      BY <1>1, <2>2 DEF Fits
    <3> QED BY <1>1, <2>2, <3>1, RestoreWorks
  <2>3. CASE x = "match"
    <3>1. IsCapturing(s) /\ ForgetFits(s, requests[t])
      BY <1>1, <2>3 DEF Fits
    <3> QED BY <1>1, <3>1, ForgetWorks
  <2> QED BY <2>1, <2>2, <2>3
<1>7. Unspoilt(t)
  BY <1>1, <1>2, <1>4, <1>6, WorkSpares
<1>8. x \notin CaptureSteps
  BY DEF CaptureSteps
<1>9. CASE x = "load"
  <2>1. GoTo(t, <<Do("match", s)>> \o Rest(t))
    BY <1>1, <1>9 DEF Completed
  <2>2. meta'[s] # None
    <3>1. IsCapturing(s) /\ LoadFits(s, requests[t])
      BY <1>1, <1>9 DEF Fits
    <3>2. meta'[s] = meta[s]
      BY <1>1, <3>1, LoadWorks
    <3> QED BY <1>6, <3>2 DEF IsCapturing
  <2>3. \A r \in Streams : On(t) = r => Welcomes(t, "match", r)'
    <3>1. ~Loose(s)'
      BY <1>6 DEF Loose, Clean, Begun
    <3> QED BY <1>1, <2>2, <3>1 DEF Welcomes
  <2>4. \A f \in FactNames, r \in Streams :
          Gives(Head(program[t]), f, r) => Gives(Do("match", On(t)), f, r)
    BY <1>1, <1>9 DEF Gives, Do, On
  <2>5. At(t, PlainSteps \cup TurnedSteps) /\ "match" \in TurnedSteps
    BY <1>1, <1>9 DEF PlainSteps, TurnedSteps
  <2>6. GoTo(t, <<Do("match", On(t))>> \o Rest(t))
    BY <1>1, <2>1
  <2>7. Ready(t)' /\ Placed(t)'
    BY <1>2, <1>4, <1>7, <2>3, <2>4, <2>5, <2>6, TurnsOn
  <2> QED BY <1>4, <1>5, <1>8, <2>1, <2>7, WorkGoes
<1>10. CASE x \in {"match", "rollback"}
  <2>1. Finish(t) /\ GoTo(t, Rest(t))
    BY <1>1, <1>10 DEF Completed, Finish
  <2>2. At(t, PlainSteps \cup TurnedSteps)
    BY <1>1, <1>10 DEF TurnedSteps
  <2>3. ASSUME sessionLock' = t, NEW f \in FactNames, NEW r \in Streams,
               Gives(Head(program[t]), f, r)
        PROVE  Holds(t, f, r)'
    <3>1. f = "clean" /\ r = s
      BY <1>1, <1>10, <2>3, GivenBy
    <3> QED BY <1>6, <2>3, <3>1 DEF Holds
  <2>4. Ready(t)' /\ Placed(t)'
    BY <1>2, <1>4, <1>7, <2>1, <2>2, <2>3, Finishes
  <2> QED BY <1>4, <1>5, <1>8, <2>1, <2>4, WorkGoes
<1>11. CASE x = "list"
  <2>1. GoTo(t, Rest(t))
    BY <1>1, <1>11 DEF Completed, Finish
  <2>2. Rest(t) \in Lists /\ program'[t] = Rest(t) /\ requests'[t] = <<>>
    BY <1>1, <1>11, <2>1, FirstStep, GoToIs
  <2>3. Ready(t)'
    BY <2>2, ListsCarry DEF Ready
  <2>4. Placed(t)'
    <3>1. Rest(t) # <<>> => Head(Rest(t)) \in [do : {"list"}, on : Streams]
      BY <2>2, HeadTailProperties DEF Lists
    <3>2. ASSUME program'[t] # <<>> PROVE Finds(t, On(t))'
      BY <2>2, <3>1, <3>2 DEF Finds, At
    <3> QED BY <2>2, <3>2 DEF Placed
  <2> QED BY <1>4, <1>5, <1>8, <2>1, <2>3, <2>4, WorkGoes
<1> QED BY <1>9, <1>10, <1>11

LEMMA CompletedFinal ==
  ASSUME SpoolsInv, NEW t \in Tabs, NEW x \in {"seal", "mark"}, NEW s,
         Asks(t, x, s), Perform(Head(requests[t]), s), Len(requests[t]) = 1,
         Completed(t, s), refused' = refused
  PROVE  SpoolsInv'
<1>1. /\ Discipline /\ Types /\ s \in Streams /\ SpoolInv(s) /\ Agrees(s) /\ Ready(t)
      /\ Fits(t, s, requests[t]) /\ On(t) = s /\ program[t] # <<>> /\ Head(program[t]).do = x
      /\ \A steps : At(t, steps) <=> x \in steps
      /\ sessionLock = t /\ manifest # None
  BY Asking DEF Asks
<1>2. OnlySpool(s) /\ manifest' = manifest /\ \A r \in Streams \ {s} : SameSpool(r)
  BY Works DEF OnlySpool
<1>3. Hold(t, s)
  BY <1>1 DEF Completed
<1>4. own' = own /\ synced' = synced /\ recording' = recording
      /\ spools' = [spools EXCEPT ![t][s] = meta'[s]]
  BY <1>3 DEF Hold
<1>5. /\ spools' \in [Tabs -> [Streams -> Metas \cup {None}]]
      /\ spools'[t][s] = meta'[s]
      /\ \A r \in Streams \ {s} : spools'[t][r] = spools[t][r]
      /\ \A u \in Tabs \ {t} : spools'[u] = spools[u]
  <2>1. Types /\ s \in Streams /\ OnlySpool(s) /\ spools' = [spools EXCEPT ![t][s] = meta'[s]]
    BY <1>1, <1>2, <1>4
  <2> QED BY <2>1, HoldIs
<1>6. Discipline'
  BY <1>1, CompletedKeeps
<1>7. /\ Clean(s)' /\ Settled(s)' /\ meta'[s] # None
      /\ x = "mark" => meta'[s].state = "deleting" /\ own[t] = manifest /\ Owns(t, {"discarded"})
  <2>1. CASE x = "seal"
    <3>1. meta[s] # None /\ IsCapturing(s) /\ meta[s].count > 0
          /\ FinalFits(s, requests[t], "seal")
      BY <1>1, <2>1 DEF Fits
    <3>2. meta[s].state # "deleting"
      BY <3>1 DEF IsCapturing
    <3> QED BY <1>1, <2>1, <3>1, <3>2, FinalWorks
  <2>2. CASE x = "mark"
    <3>1. meta[s] # None /\ meta[s].state # "deleting" /\ FinalFits(s, requests[t], "mark")
      BY <1>1, <2>2 DEF Fits
    <3>2. own[t] = manifest /\ Owns(t, {"discarded"}) /\ manifest.state = "discarded"
      BY <2>2, AskingToMark
    <3>3. Clean(s)' /\ Settled(s)' /\ meta'[s] # None /\ meta'[s].state = "deleting"
      BY <1>1, <3>1, <3>2, FinalWorks
    <3> QED BY <3>2, <3>3
  <2> QED BY <2>1, <2>2
<1>8. Unspoilt(t)
  <2>1. Installed(t, s)'
    BY <1>5, <1>7 DEF Installed
  <2> QED BY <1>1, <1>2, <1>5, <1>7, <2>1, WorkSpares
<1>9. x \notin CaptureSteps
  BY DEF CaptureSteps
<1>10. At(t, PlainSteps \cup TurnedSteps)
  BY <1>1 DEF PlainSteps
<1>11. CASE x = "seal"
  <2>1. Finish(t) /\ GoTo(t, Rest(t))
    BY <1>1, <1>11 DEF Completed, Finish
  <2>2. ASSUME sessionLock' = t, NEW f \in FactNames, NEW r \in Streams,
               Gives(Head(program[t]), f, r)
        PROVE  Holds(t, f, r)'
    <3>1. f = "settled" /\ r = s
      BY <1>1, <1>11, <2>2, GivenBy
    <3> QED BY <1>7, <2>2, <3>1 DEF Holds
  <2>3. Ready(t)' /\ Placed(t)'
    BY <1>2, <1>4, <1>8, <1>10, <2>1, <2>2, Finishes
  <2> QED BY <1>4, <1>5, <1>6, <1>9, <2>1, <2>3, WorkGoes
<1>12. CASE x = "mark"
  <2>1. GoTo(t, <<Do("erase", s)>> \o Rest(t))
    BY <1>1, <1>12 DEF Completed
  <2>2. GoTo(t, <<Do("erase", On(t))>> \o Rest(t))
    BY <1>1, <2>1
  <2>3. Owns(t, {"discarded"})'
    BY <1>4, <1>7, <1>12 DEF Owns
  <2>4. \A r \in Streams : On(t) = r => Welcomes(t, "erase", r)'
    BY <1>1, <1>2, <1>4, <1>5, <1>7, <1>12, <2>3 DEF Welcomes
  <2>5. \A f \in FactNames, r \in Streams : ~Gives(Head(program[t]), f, r)
    BY <1>1, <1>12, GivenBy
  <2>6. "erase" \in TurnedSteps
    BY DEF TurnedSteps
  <2>7. Ready(t)' /\ Placed(t)'
    BY <1>2, <1>4, <1>8, <1>10, <2>2, <2>4, <2>5, <2>6, TurnsOn
  <2> QED BY <1>4, <1>5, <1>6, <1>9, <2>1, <2>7, WorkGoes
<1> QED BY <1>11, <1>12

LEMMA CompletedAppend ==
  ASSUME SpoolsInv, NEW t \in Tabs, NEW s, Asks(t, "append", s),
         Perform(Head(requests[t]), s), Len(requests[t]) = 1,
         Completed(t, s), refused' = refused
  PROVE  SpoolsInv'
<1>1. /\ Discipline /\ Types /\ s \in Streams /\ SpoolInv(s) /\ Agrees(s) /\ Ready(t)
      /\ Fits(t, s, requests[t]) /\ On(t) = s /\ program[t] # <<>>
      /\ Head(program[t]).do = "append"
      /\ \A steps : At(t, steps) <=> "append" \in steps
      /\ sessionLock = t /\ manifest # None
  BY Asking DEF Asks
<1>2. t = Recorder /\ manifest.state = "capturing"
  <2>1. "append" \in CaptureSteps
    BY DEF CaptureSteps
  <2> QED BY <2>1, Asking
<1>3. OnlySpool(s) /\ manifest' = manifest /\ \A r \in Streams \ {s} : SameSpool(r)
  BY Works DEF OnlySpool
<1>4. Hold(t, s) /\ GoTo(t, Rest(t))
  BY <1>1 DEF Completed, Finish
<1>5. own' = own /\ synced' = synced /\ recording' = recording
      /\ spools' = [spools EXCEPT ![t][s] = meta'[s]]
  BY <1>4 DEF Hold
<1>6. /\ spools' \in [Tabs -> [Streams -> Metas \cup {None}]]
      /\ spools'[t][s] = meta'[s]
      /\ \A u \in Tabs \ {t} : spools'[u] = spools[u]
  BY <1>1, <1>3, <1>5, HoldIs
<1>7. Discipline'
  BY <1>1, CompletedKeeps
<1>8. IsCapturing(s)' /\ Unacknowledged(s)'
  <2>1. IsCapturing(s) /\ AppendFits(s, requests[t])
    BY <1>1 DEF Fits
  <2> QED BY <1>1, <1>2, <2>1, AppendWorks
<1>9. Rest(t) = <<Do("publish", s), Do("acknowledge", s)>>
  <2>1. At(t, CaptureSteps)
    BY <1>1 DEF CaptureSteps
  <2>2. program[t] \in Captures
    BY <1>1, <2>1, FirstStep
  <2> QED BY <1>1, <2>2, CaptureProgram DEF Rest, On
<1>10. /\ program'[t] = Rest(t) /\ requests'[t] = <<>> /\ sessionLock' = t
       /\ Rest(t) # <<>> /\ Head(Rest(t)) = Do("publish", s)
  BY <1>1, <1>4, <1>9, GoToIs
<1>11. On(t)' = s /\ \A steps : At(t, steps)' <=> "publish" \in steps
  BY <1>10 DEF On, At, Do
<1>12. Ready(t)'
  <2>1. ASSUME NEW f \in FactNames, NEW r \in Streams, Passes(t, f, r)
        PROVE  Holds(t, f, r)'
    <3>1. ~Gives(Head(program[t]), f, r)
      BY <1>1, GivenBy
    <3>2. Holds(t, f, r) /\ ~Loses(Head(program[t]), f)
      BY <2>1, <3>1 DEF Passes
    <3>3. f \notin {"clean", "installed", "settled"}
      BY <1>1, <3>2 DEF Loses, CaptureSteps
    <3>4. \A states : Owns(t, states)' = Owns(t, states)
      BY <1>5 DEF Owns
    <3> QED BY <1>3, <1>5, <1>10, <3>2, <3>3, <3>4 DEF Holds
  <2> QED BY <1>1, <1>10, <2>1, ReadyGoesOn
<1>13. Placed(t)'
  <2>1. Finds(t, s)'
    BY <1>6, <1>8, <1>11 DEF Finds
  <2> QED BY <1>10, <1>11, <2>1 DEF Placed
<1>14. LiveInv'
  <2>1. \A r \in Streams : Busy(r) => r = s
    BY <1>1, <1>2 DEF Busy
  <2>2. Busy(s)'
    BY <1>2, <1>10, <1>11 DEF Busy, CaptureSteps
  <2>3. \A r \in Streams \ {s} : Clean(r) => Clean(r)'
    BY <1>3, SameIs
  <2>4. recording # None => recording \subseteq Streams
    BY <1>1 DEF Types
  <2> QED BY <1>3, <1>5, <2>1, <2>2, <2>3, <2>4, LiveKeeps DEF SpoolsInv, LiveInv
<1> QED BY <1>4, <1>5, <1>6, <1>7, <1>12, <1>13, <1>14, WorkGoes

LEMMA CompletedCapture ==
  ASSUME SpoolsInv, NEW t \in Tabs, NEW x \in {"acknowledge", "reacknowledge", "repair"}, NEW s,
         Asks(t, x, s), Perform(Head(requests[t]), s), Len(requests[t]) = 1,
         Completed(t, s), refused' = refused
  PROVE  SpoolsInv'
<1>1. /\ Discipline /\ Types /\ s \in Streams /\ SpoolInv(s) /\ Agrees(s)
      /\ Fits(t, s, requests[t]) /\ On(t) = s /\ program[t] # <<>> /\ Head(program[t]).do = x
      /\ x \in CaptureSteps /\ t = Recorder /\ sessionLock = t
      /\ \A steps : At(t, steps) <=> x \in steps
  BY Asking DEF Asks, CaptureSteps
<1>2. OnlySpool(s) /\ manifest' = manifest /\ \A r \in Streams \ {s} : SameSpool(r)
  BY Works DEF OnlySpool
<1>3. \A r \in Streams : Clean(r) => Clean(r)'
  BY Works
<1>4. /\ own \in [Tabs -> Manifests \cup {None}] /\ synced \in [Tabs -> BOOLEAN]
      /\ spools \in [Tabs -> [Streams -> Metas \cup {None}]]
      /\ recording \in (SUBSET Streams) \cup {None}
  BY <1>1 DEF Types
<1>5. CASE x \in {"acknowledge", "reacknowledge"}
  <2>1. Finish(t) /\ UNCHANGED session
    BY <1>1, <1>5 DEF Completed
  <2>2. own' = own /\ spools' = spools /\ synced' = synced /\ recording' = recording
    BY <2>1 DEF session
  <2>3. Throw(t)
    <3>1. At(t, CaptureSteps)
      BY <1>1
    <3>2. program[t] \in Captures
      BY <1>1, <3>1, FirstStep
    <3>3. Rest(t) = <<>>
      BY <1>1, <1>5, <3>2, CaptureProgram DEF Rest
    <3> QED BY <2>1, <3>3 DEF Finish, Throw
  <2>4. Clean(s)'
    <3>1. IsCapturing(s) /\ ForgetFits(s, requests[t])
      BY <1>1, <1>5 DEF Fits
    <3> QED BY <1>1, <3>1, ForgetWorks
  <2>5. \A r \in Streams : Busy(r) => r = s
    BY <1>1 DEF Busy
  <2>6. recording # None => recording \subseteq Streams
    BY <1>4
  <2>7. LiveInv'
    BY <1>2, <1>3, <2>2, <2>4, <2>5, <2>6, LiveKeeps DEF SpoolsInv, LiveInv
  <2> QED BY <1>4, <2>2, <2>3, <2>7, SpoolEnds
<1>6. CASE x = "repair"
  <2>1. /\ Throw(t) /\ spools' = [spools EXCEPT ![t][s] = meta'[s]] /\ Gap(t, s)
        /\ own' = own /\ synced' = synced
    BY <1>1, <1>6 DEF Completed
  <2>2. /\ spools' \in [Tabs -> [Streams -> Metas \cup {None}]]
        /\ \A u \in Tabs \ {t} : spools'[u] = spools[u]
    BY <1>1, <1>2, <2>1, HoldIs
  <2>3. recording' \in (SUBSET Streams) \cup {None}
    BY <1>4, <2>1 DEF Gap
  <2>4. At(Recorder, CaptureSteps)
    BY <1>1
  <2>5. LiveInv'
    BY <1>1, <1>2, <2>1, <2>4, LiveGap
  <2> QED BY <1>1, <1>4, <2>1, <2>2, <2>3, <2>5, SpoolEnds
<1> QED BY <1>5, <1>6

LEMMA AskStorageGoes ==
  ASSUME SpoolsInv, NEW t \in Tabs, AskStorage(t)
  PROVE  SpoolsInv'
<1>1. requests[t] # <<>> /\ refused' = refused
  BY DEF AskStorage
<1>2. program[t] # <<>> /\ On(t) \in Streams
  BY <1>1, AskingStep DEF SpoolsInv
<1>3. PICK s \in Streams : On(t) = s
  BY <1>2
<1>4. PICK x : Head(program[t]).do = x
  OBVIOUS
<1>5. Asks(t, x, s)
  BY <1>1, <1>2, <1>3, <1>4 DEF Asks
<1>6. PICK outcome \in Outcomes :
        /\ IF outcome = "lost" THEN UNCHANGED <<durable, taken>>
           ELSE Perform(Head(requests[t]), s)
        /\ IF outcome # "done" THEN Failed(t, s)
           ELSE IF Len(requests[t]) = 1 THEN Completed(t, s)
           ELSE /\ requests' = [requests EXCEPT ![t] = Tail(@)]
                /\ UNCHANGED <<program, locks, session, told>>
  BY <1>3 DEF AskStorage
<1>7. CASE outcome # "done"
  <2>1. Failed(t, s) /\ (UNCHANGED <<durable, taken>> \/ Perform(Head(requests[t]), s))
    BY <1>6, <1>7
  <2> QED BY <1>1, <1>5, <2>1, FailedGoes
<1>8. CASE outcome = "done"
  <2>1. Perform(Head(requests[t]), s)
    BY <1>6, <1>8
  <2>2. CASE Len(requests[t]) # 1
    <3>1. requests' = [requests EXCEPT ![t] = Tail(@)]
          /\ UNCHANGED <<program, locks, session, told, refused>>
      BY <1>1, <1>6, <1>8, <2>2
    <3> QED BY <1>5, <2>1, <2>2, <3>1, MoreGoes
  <2>3. CASE Len(requests[t]) = 1
    <3>1. Completed(t, s) /\ x \in LockingSteps
      BY <1>5, <1>6, <1>8, <2>3, Asking
    <3>2. CASE x \in {"load", "match", "rollback", "list"}
      BY <1>1, <1>5, <2>1, <2>3, <3>1, <3>2, CompletedInspection
    <3>3. CASE x \in {"seal", "mark"}
      BY <1>1, <1>5, <2>1, <2>3, <3>1, <3>3, CompletedFinal
    <3>4. CASE x = "append"
      BY <1>1, <1>5, <2>1, <2>3, <3>1, <3>4, CompletedAppend
    <3>5. CASE x \in {"acknowledge", "reacknowledge", "repair"}
      BY <1>1, <1>5, <2>1, <2>3, <3>1, <3>5, CompletedCapture
    <3> QED BY <3>1, <3>2, <3>3, <3>4, <3>5 DEF LockingSteps
  <2> QED BY <2>2, <2>3
<1> QED BY <1>7, <1>8

(***************************************************************************)
(* Every step of every tab keeps the invariant.                            *)
(***************************************************************************)
LEMMA StepGoes ==
  ASSUME SpoolsInv, NEW t \in Tabs, Step(t)
  PROVE  SpoolsInv'
<1>1. CASE ReplaceManifest(t)
  BY <1>1, PublishGoes, TurnManifestGoes
<1> QED BY <1>1, AskStorageGoes, EnterGoes, LookGoes, LoadSpoolGoes, ListSpoolGoes, MatchSpoolGoes,
           RestorePrefixGoes, InstallGoes, LeaveGoes, AdoptGoes, AppendPacketGoes,
           AcknowledgeGoes, SealSpoolGoes, MarkSpoolGoes, EraseSpoolGoes, DropSpoolGoes,
           RecheckGoes, RemoveManifestGoes
     DEF Step

LEMMA StuttersGo ==
  ASSUME SpoolsInv, UNCHANGED vars
  PROVE  SpoolsInv'
<1>1. /\ UNCHANGED <<durable, program, requests, sessionLock, spoolLock>>
      /\ own' = own /\ spools' = spools /\ synced' = synced /\ recording' = recording
      /\ taken' = taken /\ refused' = refused
  BY DEF vars, locks, session
<1>2. manifest' = manifest /\ \A s \in Streams : SameSpool(s) /\ Clean(s)' = Clean(s)
  BY <1>1 DEF durable, SameSpool, Clean
<1>3. Recorder \in Tabs /\ Discipline /\ Types /\ Ready(Recorder) /\ Placed(Recorder)
  BY CaptureAssumption DEF SpoolsInv
<1>4. Discipline'
  BY <1>3, NextKeepsDiscipline
<1>5. Types'
  BY <1>1, <1>3 DEF Types, durable
<1>6. Apart(Recorder)
  BY <1>1 DEF Apart
<1>7. Ready(Recorder)'
  <2>1. \A f \in FactNames, s \in Streams : Holds(Recorder, f, s) => Holds(Recorder, f, s)'
    BY <1>1, <1>2, <1>3, FactsStay
  <2> QED BY <1>1, <1>3, <2>1, ReadyStays
<1>8. Placed(Recorder)'
  BY <1>1, <1>2, <1>3, PlacedStays
<1>9. LiveInv'
  <2>1. \A s \in Streams : Busy(s)' <=> Busy(s)
    BY <1>1 DEF Busy, At, On
  <2>2. recording # None => recording \subseteq Streams
    BY <1>3 DEF Types
  <2> QED BY <1>1, <1>2, <2>1, <2>2 DEF SpoolsInv, LiveInv
<1>10. sessionLock' = Recorder => manifest # None
  BY <1>1, <1>3, LockedSession
<1> QED BY <1>1, <1>3, <1>4, <1>5, <1>6, <1>7, <1>8, <1>9, <1>10, QuietStep

LEMMA NextGoes == SpoolsInv /\ [Next]_vars => SpoolsInv'
BY StuttersGo, StepGoes, SealSessionGoes, DiscardSessionGoes, FindRecoveryGoes, ListSpoolsGoes,
   CrashGoes, CapturePacketGoes DEF Next

LEMMA InitSpools == Init => SpoolsInv
<1> SUFFICES ASSUME Init PROVE SpoolsInv
  OBVIOUS
<1>1. Discipline
  BY InitDiscipline
<1>2. Empty \in Manifests /\ Empty.state = "capturing" /\ (\A s \in Streams : Empty.count[s] = 0)
      /\ Empty # None
  BY NoneIsAbsent DEF Empty, Manifest, Manifests, ManifestStates
<1>3. Capturing(0) \in Metas /\ Capturing(0).state = "capturing" /\ Capturing(0).count = 0
      /\ Capturing(0) # None
  BY NoneIsAbsent DEF Capturing, Metas, SpoolStates
<1>4. <<>> \in Seq(Nat) /\ Len(<<>>) = 0
  BY EmptySeq
<1>5. Types
  <2>1. /\ manifest \in Manifests \cup {None} /\ taken \in Nat
        /\ meta \in [Streams -> Metas \cup {None}] /\ stored \in [Streams -> Seq(Nat)]
        /\ intent \in [Streams -> Intents \cup {None}] /\ cleanup \in [Streams -> Nat \cup {None}]
    BY <1>2, <1>3, <1>4 DEF Init
  <2>2. /\ own \in [Tabs -> Manifests \cup {None}]
        /\ spools \in [Tabs -> [Streams -> Metas \cup {None}]]
        /\ synced \in [Tabs -> BOOLEAN] /\ recording \in (SUBSET Streams) \cup {None}
    BY <1>2, <1>3 DEF Init
  <2> QED BY <2>1, <2>2 DEF Types
<1>6. ASSUME NEW s \in Streams PROVE SpoolInv(s) /\ Agrees(s) /\ Clean(s)
  <2>1. /\ meta[s] = Capturing(0) /\ stored[s] = <<>> /\ intent[s] = None /\ cleanup[s] = None
        /\ manifest = Empty
    BY DEF Init
  <2>2. Tailed(s) = 0 /\ Clean(s) /\ Exact(s) /\ IsCapturing(s) /\ ~Committed(s)
    BY <1>3, <1>4, <2>1, CaptureAssumption DEF Tailed, Clean, Exact, IsCapturing, Committed
  <2> QED BY <1>2, <1>3, <1>4, <2>1, <2>2 DEF SpoolInv, Agrees, Exact, Settled
<1>7. LiveInv
  BY <1>2, <1>6, CaptureAssumption DEF LiveInv, Init
<1>8. ASSUME NEW t \in Tabs PROVE Ready(t) /\ Placed(t)
  <2>1. program[t] = <<>>
    BY DEF Init
  <2>2. Ready(t)
    BY <2>1, EmptyProgram, ListsCarry DEF Ready
  <2> QED BY <2>1, <2>2 DEF Placed
<1> QED BY <1>1, <1>5, <1>6, <1>7, <1>8 DEF SpoolsInv, Init

LEMMA SpoolsInvariant == Spec => []SpoolsInv
BY InitSpools, NextGoes, PTL DEF Spec

(***************************************************************************)
(* No crash, failing request or other tab ever leaves storage that the     *)
(* inspection of a session or of the database's spools refuses as missing  *)
(* or changed (capture-spool-recovery.ts, inspectSpool).                   *)
(***************************************************************************)
THEOREM NothingIsRefused == Spec => []NeverRefused
<1>1. SpoolsInv => NeverRefused
  BY DEF SpoolsInv, NeverRefused
<1> QED BY <1>1, SpoolsInvariant, PTL

(***************************************************************************)
(* What is stored of a stream beyond the acknowledged prefix always has an *)
(* intent that tells the next inspection how to undo it, wherever a tab    *)
(* stopped between two requests.                                           *)
(***************************************************************************)
THEOREM NoTailIsForgotten == Spec => []TailsAreJournalled
<1>1. ASSUME SpoolsInv PROVE TailsAreJournalled
  <2> SUFFICES ASSUME NEW s \in Streams, manifest # None, meta[s] # None,
                      meta[s].state # "deleting"
               PROVE  /\ Len(stored[s]) > Tailed(s) => intent[s] # None \/ cleanup[s] # None
                      /\ meta[s].count # manifest.count[s] =>
                           intent[s] # None /\ meta[s] = After(s)
                             /\ manifest.count[s] = intent[s].from
    BY DEF TailsAreJournalled
  <2>1. Types /\ SpoolInv(s) /\ Agrees(s)
    BY <1>1 DEF SpoolsInv
  <2>2. /\ meta[s] \in Metas /\ Len(stored[s]) \in Nat /\ Tailed(s) \in Nat
        /\ meta[s].state \in {"capturing", "sealed"}
    BY <2>1, SpoolNumbers DEF Metas, SpoolStates
  <2>3. Len(stored[s]) > Tailed(s) => ~Clean(s)
    BY <2>1, <2>2 DEF SpoolInv, IsCapturing, Exact
  <2>4. ASSUME meta[s].count # manifest.count[s]
        PROVE  intent[s] # None /\ meta[s] = After(s) /\ manifest.count[s] = intent[s].from
    <3>1. Committed(s) /\ intent[s] # None
      BY <2>1, <2>4 DEF Agrees, Committed
    <3>2. meta[s].count = intent[s].from + 1 /\ manifest.count[s] = intent[s].from
      BY <2>1, <2>4, <3>1 DEF Agrees, Committed
    <3>3. meta[s].state = "capturing"
      BY <2>1, <3>1 DEF SpoolInv, IsCapturing, Clean
    <3>4. meta[s] = After(s)
      BY <2>2, <3>2, <3>3 DEF Metas, After, Capturing
    <3> QED BY <3>1, <3>2, <3>4
  <2> QED BY <2>3, <2>4 DEF Clean
<1> QED BY <1>1, SpoolsInvariant, PTL

(***************************************************************************)
(* The manifest is only sealed when every spool is sealed at exactly the   *)
(* acknowledged prefix, with no intent and no tail, and nothing that any   *)
(* tab still does to the storage disturbs it (#seal).                      *)
(***************************************************************************)
THEOREM WhatIsSealedIsSettled == Spec => []SealedIsSettled
<1>1. ASSUME SpoolsInv PROVE SealedIsSettled
  <2> SUFFICES ASSUME manifest # None, manifest.state = "sealed", NEW s \in Streams
               PROVE  /\ intent[s] = None /\ cleanup[s] = None
                      /\ meta[s] = [state |-> IF meta[s].count > 0 THEN "sealed" ELSE "capturing",
                                    count |-> manifest.count[s]]
                      /\ Len(stored[s]) = Tailed(s)
    BY DEF SealedIsSettled
  <2>1. Types /\ SpoolInv(s) /\ Agrees(s)
    BY <1>1 DEF SpoolsInv
  <2>2. /\ meta[s] # None /\ Clean(s) /\ ~Committed(s)
        /\ meta[s].state = (IF meta[s].count > 0 THEN "sealed" ELSE "capturing")
    BY <2>1 DEF Agrees, Settled, Clean, Committed
  <2>3. meta[s].count = manifest.count[s] /\ meta[s] \in Metas
    BY <2>1, <2>2, SpoolNumbers DEF Agrees
  <2>4. Exact(s)
    BY <2>1, <2>2 DEF SpoolInv, IsCapturing
  <2> QED BY <2>2, <2>3, <2>4 DEF Clean, Exact, Metas
<1> QED BY <1>1, SpoolsInvariant, PTL

(***************************************************************************)
(* What the spools hold.  Packets are acknowledged in the manifest, whole  *)
(* and for good; a packet on its way has an intent, which names it, and is *)
(* none of those acknowledged.                                             *)
(***************************************************************************)
Whole(s, i) ==
  /\ Chunks * i <= Len(stored[s])
  /\ \A k \in 1..Chunks : stored[s][Chunks * (i - 1) + k] = stored[s][Chunks * i]

Recorded(p) == \E s \in Streams : \E i \in 1..manifest.count[s] : PacketAt(s, i) = p

PrefixInv(s) == Kept => \A i \in 1..manifest.count[s] :
  Whole(s, i) /\ stored[s][Chunks * i] \in 1..taken

PendingInv(s) == intent[s] # None =>
  /\ intent[s].packet \in 1..taken
  /\ \A j \in (Chunks * intent[s].from + 1)..Len(stored[s]) : stored[s][j] = intent[s].packet
  /\ Kept /\ manifest.count[s] = intent[s].from =>
       \A p : Recorded(p) => p # intent[s].packet
  /\ \A r \in Streams \ {s} : intent[r] # None => intent[r].packet # intent[s].packet

ContentInv == \A s \in Streams : PrefixInv(s) /\ PendingInv(s)

\* An append that has not asked for its packet yet has one left to ask for.
Unasked ==
  \/ /\ At(Recorder, {"append"})
     /\ requests[Recorder] = <<>> \/ Head(requests[Recorder]) = Ask0("journal")
  \/ At(Recorder, OuterSteps) /\ Rest(Recorder) # <<>> /\ Head(Rest(Recorder)).do = "append"

BudgetInv == taken <= MaxPackets /\ (Unasked => taken < MaxPackets)

LogInv == SpoolsInv /\ BudgetInv /\ ContentInv /\ ToldIsKept

(***************************************************************************)
(* What a step does to the manifest, the chunks and the intents.           *)
(***************************************************************************)
SameData == UNCHANGED <<manifest, stored, intent, taken>>

Journals(s) ==
  /\ intent[s] = None /\ taken < MaxPackets
  /\ \E n \in Nat :
       /\ Len(stored[s]) <= Chunks * n
       /\ intent' = [intent EXCEPT ![s] = [from |-> n, packet |-> taken + 1]]
  /\ taken' = taken + 1 /\ UNCHANGED <<manifest, stored>>

Writes(s) == intent[s] # None /\ WriteChunk(s, Len(stored[s]) + 1)

Cuts(s) == \E n \in Nat :
  /\ n <= Len(stored[s]) /\ (manifest # None => Chunks * manifest.count[s] <= n)
  /\ CutTail(s, n)

Erases(s) ==
  /\ ~Kept /\ intent[s] = None
  /\ stored' = [stored EXCEPT ![s] = <<>>] /\ UNCHANGED <<manifest, intent, taken>>

Publishes(s) ==
  /\ Kept /\ manifest.state = "capturing"
  /\ intent[s] # None /\ manifest.count[s] = intent[s].from
  /\ Len(stored[s]) = Chunks * (intent[s].from + 1)
  /\ manifest' # None /\ manifest'.state = "capturing"
  /\ manifest'.count = [manifest.count EXCEPT ![s] = intent[s].from + 1]
  /\ UNCHANGED <<stored, intent, taken>>

TurnsTo(state) ==
  /\ manifest # None /\ manifest' # None
  /\ manifest'.state = state /\ manifest'.count = manifest.count
  /\ \/ state = "sealed" /\ manifest.state \in {"capturing", "sealed"}
     \/ state = "discarded" /\ manifest.state \in {"sealed", "discarded"}
  /\ UNCHANGED <<stored, intent, taken>>

Removes == ~Kept /\ manifest' = None /\ UNCHANGED <<stored, intent, taken>>

OnStorage == SameData \/ \E s \in Streams :
  Journals(s) \/ Writes(s) \/ Cuts(s) \/ ForgetIntent(s) \/ Erases(s)

OnManifest ==
  (\E s \in Streams : Publishes(s)) \/ TurnsTo("sealed") \/ TurnsTo("discarded") \/ Removes

\* The recorder is told that the last acknowledged packet of stream s is kept.
Tells(s) ==
  /\ manifest # None /\ manifest.count[s] > 0 /\ UNCHANGED <<manifest, stored>>
  /\ told' = told \cup {stored[s][Chunks * manifest.count[s]]}

(***************************************************************************)
(* Every step is of one of these kinds.                                    *)
(***************************************************************************)
LEMMA QuietSteps ==
  ASSUME NEW t,
         \/ Enter(t) \/ Look(t) \/ LoadSpool(t) \/ ListSpool(t) \/ MatchSpool(t)
         \/ RestorePrefix(t) \/ Install(t) \/ Leave(t) \/ Adopt(t) \/ AppendPacket(t)
         \/ SealSpool(t) \/ MarkSpool(t) \/ DropSpool(t) \/ Recheck(t)
         \/ SealSession(t) \/ DiscardSession(t) \/ FindRecovery(t) \/ ListSpools(t) \/ Crash(t)
         \/ (\E s \in Streams : CapturePacket(t, s)) \/ UNCHANGED vars
  PROVE  SameData /\ told' = told
<1>1. CASE Enter(t)
  BY <1>1 DEF Enter, SameData, durable
<1>2. CASE Look(t)
  BY <1>2 DEF Look, SameData, durable
<1>3. CASE LoadSpool(t)
  BY <1>3 DEF LoadSpool, SameData, durable
<1>4. CASE ListSpool(t)
  BY <1>4 DEF ListSpool, SameData, durable
<1>5. CASE MatchSpool(t)
  BY <1>5 DEF MatchSpool, SameData, durable
<1>6. CASE RestorePrefix(t)
  BY <1>6 DEF RestorePrefix, SameData, durable
<1>7. CASE Install(t)
  BY <1>7 DEF Install, SameData, durable
<1>8. CASE Leave(t)
  BY <1>8 DEF Leave, SameData, durable
<1>9. CASE Adopt(t)
  BY <1>9 DEF Adopt, SameData, durable
<1>10. CASE AppendPacket(t)
  BY <1>10 DEF AppendPacket, SameData, durable
<1>11. CASE SealSpool(t)
  BY <1>11 DEF SealSpool, SameData, durable
<1>12. CASE MarkSpool(t)
  BY <1>12 DEF MarkSpool, SameData, durable
<1>13. CASE DropSpool(t)
  BY <1>13 DEF DropSpool, SameData
<1>14. CASE Recheck(t)
  BY <1>14 DEF Recheck, SameData, durable
<1>15. CASE \/ SealSession(t) \/ DiscardSession(t) \/ FindRecovery(t) \/ ListSpools(t)
            \/ \E s \in Streams : CapturePacket(t, s)
  <2>1. PICK steps : Begin(t, steps)
    BY <1>15 DEF SealSession, DiscardSession, FindRecovery, ListSpools, CapturePacket
  <2> QED BY <2>1 DEF Begin, SameData, durable
<1>16. CASE Crash(t)
  BY <1>16 DEF Crash, SameData, durable
<1>17. CASE UNCHANGED vars
  BY <1>17 DEF vars, SameData, durable
<1> QED BY <1>1, <1>2, <1>3, <1>4, <1>5, <1>6, <1>7, <1>8, <1>9, <1>10, <1>11, <1>12, <1>13,
           <1>14, <1>15, <1>16, <1>17

\* A request of a step that holds the lock of stream s, once it is carried out.
LEMMA RequestKinds ==
  ASSUME SpoolsInv, BudgetInv, NEW t \in Tabs, NEW x, NEW s \in Streams, Asks(t, x, s),
         Perform(Head(requests[t]), s)
  PROVE  SameData \/ Journals(s) \/ Writes(s) \/ Cuts(s) \/ ForgetIntent(s)
<1> DEFINE r == requests[t]
           first == Head(r)
<1>1. /\ Types /\ SpoolInv(s) /\ Agrees(s) /\ Fits(t, s, r)
      /\ x \in LockingSteps /\ \A steps : At(t, steps) <=> x \in steps
      /\ x \in CaptureSteps => t = Recorder
  BY Asking
<1>2. /\ meta[s] # None /\ meta[s].count \in Nat /\ Tailed(s) \in Nat /\ Len(stored[s]) \in Nat
      /\ taken \in Nat /\ Chunks \in Nat
  BY <1>1, SpoolNumbers, CaptureAssumption DEF Fits, Types
<1> HIDE DEF r
<1>3. CASE first = Ask0("journal") /\ intent[s] = None /\ cleanup[s] = None /\ IsCapturing(s)
             /\ x = "append"
  <2>1. Journal(s)
    BY <1>3, PerformIs DEF r
  <2>2. Len(stored[s]) = Chunks * meta[s].count
    BY <1>1, <1>3 DEF SpoolInv, Clean, Exact, Tailed
  <2>3. taken < MaxPackets
    BY <1>1, <1>3 DEF BudgetInv, Unasked, CaptureSteps, r
  <2>4. \E n \in Nat : /\ Len(stored[s]) <= Chunks * n
                      /\ intent' = [intent EXCEPT ![s] = [from |-> n, packet |-> taken + 1]]
    <3>1. intent' = [intent EXCEPT ![s] = [from |-> meta[s].count, packet |-> taken + 1]]
      BY <2>1 DEF Journal
    <3>2. Len(stored[s]) <= Chunks * meta[s].count
      BY <1>2, <2>2
    <3> QED BY <1>2, <3>1, <3>2
  <2> QED BY <1>3, <2>1, <2>3, <2>4 DEF Journals, Journal
<1>4. ASSUME NEW k \in Nat, first = Request("write", Tailed(s) + k), intent[s] # None,
             Tailed(s) + k = Len(stored[s]) + 1
      PROVE  Writes(s)
  BY <1>4, PerformIs DEF Writes, r
<1>5. CASE first = CutTo(s) /\ ~Committed(s) /\ (IsCapturing(s) \/ cleanup[s] # None)
  <2>1. CutTail(s, Tailed(s))
    BY <1>5, PerformIs DEF CutTo, r
  <2>2. IsCapturing(s)
    BY <1>1, <1>5 DEF SpoolInv, Clean
  <2>3. Tailed(s) <= Len(stored[s])
    BY <1>1, <1>2, <2>2 DEF SpoolInv
  <2>4. manifest # None => Chunks * manifest.count[s] = Tailed(s)
    BY <1>1, <1>2, <1>5 DEF Agrees, Tailed
  <2> QED BY <1>2, <2>1, <2>3, <2>4 DEF Cuts
<1>6. CASE first = Ask0("forget")
  BY <1>6, PerformIs DEF r
<1>7. CASE first \in {Ask0("commit"), Ask0("swept"), Ask0("back"), Ask0("seal"), Ask0("mark")}
  <2>1. Commit(s) \/ ForgetCleanup(s) \/ StepBack(s) \/ Turn(s, "sealed") \/ Turn(s, "deleting")
    BY <1>7, PerformIs DEF r
  <2> QED BY <2>1 DEF Commit, ForgetCleanup, StepBack, Turn, SameData
<1>8. Begun(s) => ~Committed(s)
  BY <1>1, OneOrOther
<1>9. intent[s] = None => ~Committed(s)
  BY DEF Committed
<1>10. CASE x \in {"load", "list"}
  <2>1. IsCapturing(s) /\ LoadFits(s, r)
    BY <1>1, <1>10 DEF Fits
  <2> QED BY <1>5, <1>6, <1>7, <1>8, <1>9, <2>1, LoadForms
<1>11. CASE x \in {"rollback", "repair"}
  <2>1. IsCapturing(s) /\ RestoreFits(s, r)
    BY <1>1, <1>11 DEF Fits
  <2> QED BY <1>5, <1>6, <1>7, <1>8, <2>1, RestoreForms
<1>12. CASE x \in {"match", "acknowledge", "reacknowledge"}
  <2>1. first = Ask0("forget")
    BY <1>1, <1>12 DEF Fits, ForgetFits
  <2> QED BY <1>6, <2>1
<1>13. CASE x = "append"
  <2>1. IsCapturing(s) /\ AppendFits(s, r)
    BY <1>1, <1>13 DEF Fits
  <2>2. \/ cleanup[s] = None /\ intent[s] = None /\ first = Ask0("journal")
        \/ \E k \in 1..Chunks : /\ Begun(s) /\ Len(stored[s]) = Tailed(s) + (k - 1)
                                /\ first = Request("write", Tailed(s) + k)
        \/ first = Ask0("commit")
    BY <2>1, AppendForms
  <2>3. ASSUME NEW k \in 1..Chunks, Begun(s), Len(stored[s]) = Tailed(s) + (k - 1),
               first = Request("write", Tailed(s) + k)
        PROVE  Writes(s)
    <3>1. k \in Nat /\ Tailed(s) + k = Len(stored[s]) + 1 /\ intent[s] # None
      BY <1>2, <2>3 DEF Begun
    <3> QED BY <1>4, <2>3, <3>1
  <2> QED BY <1>3, <1>7, <1>13, <2>1, <2>2, <2>3
<1>14. CASE x \in {"seal", "mark"}
  <2>1. PICK ask \in {"seal", "mark"} : FinalFits(s, r, ask)
    BY <1>1, <1>14 DEF Fits
  <2>2. /\ intent[s] = None
        /\ \/ cleanup[s] # None /\ first = CutTo(s)
           \/ first = Ask0("swept") \/ first = Ask0(ask)
    BY <2>1, FinalForms
  <2> QED BY <1>5, <1>7, <1>9, <2>2
<1> QED BY <1>1, <1>10, <1>11, <1>12, <1>13, <1>14 DEF LockingSteps

LEMMA StorageKinds ==
  ASSUME SpoolsInv, BudgetInv, NEW t \in Tabs, AskStorage(t)
  PROVE  OnStorage
<1>1. requests[t] # <<>> /\ program[t] # <<>> /\ On(t) \in Streams
  BY AskingStep DEF SpoolsInv, AskStorage
<1>2. PICK s \in Streams : On(t) = s
  BY <1>1
<1>3. PICK x : Head(program[t]).do = x
  OBVIOUS
<1>4. Asks(t, x, s)
  BY <1>1, <1>2, <1>3 DEF Asks
<1>5. UNCHANGED <<durable, taken>> \/ Perform(Head(requests[t]), s)
  BY <1>2 DEF AskStorage
<1>6. CASE UNCHANGED <<durable, taken>>
  BY <1>6 DEF OnStorage, SameData, durable
<1>7. CASE Perform(Head(requests[t]), s)
  BY <1>4, <1>7, RequestKinds DEF OnStorage
<1> QED BY <1>5, <1>6, <1>7

LEMMA EraseKinds ==
  ASSUME SpoolsInv, NEW t \in Tabs, EraseSpool(t)
  PROVE  OnStorage /\ told' = told
<1>1. /\ At(t, {"erase", "drop"}) /\ program[t] # <<>> /\ At(t, TurnedSteps) /\ ~At(t, LockingSteps)
      /\ At(t, {"mark", "erase", "drop", "remove"})
      /\ At(t, {"seal", "sealed", "discarded", "mark", "erase", "drop", "remove",
                "append", "publish", "acknowledge", "reacknowledge", "repair"})
  BY DEF EraseSpool, At, TurnedSteps, LockingSteps
<1>2. PICK s \in Streams : On(t) = s
  BY <1>1, Arrives
<1>3. requests[t] = <<>>
  BY <1>1 DEF SpoolsInv, Discipline
<1>4. intent[s] = None
  BY <1>1, <1>2, <1>3, Arrives DEF Finds, Clean
<1>5. ~Kept
  <2>1. own[t] = manifest /\ Owns(t, {"discarded"})
    BY <1>1, Arrives, Reliance
  <2> QED BY <2>1 DEF Owns, Kept
<1>6. stored' = stored \/ stored' = [stored EXCEPT ![s] = <<>>]
  BY <1>2 DEF EraseSpool
<1>7. UNCHANGED <<manifest, intent, taken>> /\ told' = told
  BY DEF EraseSpool
<1> QED BY <1>4, <1>5, <1>6, <1>7 DEF OnStorage, SameData, Erases

LEMMA PublishKinds ==
  ASSUME SpoolsInv, NEW t \in Tabs, ReplaceManifest(t), At(t, {"publish"})
  PROVE  SameData \/ \E s \in Streams : Publishes(s)
<1>1. /\ At(t, CaptureSteps) /\ program[t] # <<>> /\ ~At(t, LockingSteps)
      /\ ~At(t, {"sealed"}) /\ ~At(t, {"discarded"})
      /\ At(t, {"seal", "sealed", "discarded", "mark", "erase", "drop", "remove",
                "append", "publish", "acknowledge", "reacknowledge", "repair"})
  BY DEF At, CaptureSteps, LockingSteps
<1>2. PICK s \in Streams : On(t) = s
  BY <1>1, Arrives
<1>3. requests[t] = <<>>
  BY <1>1 DEF SpoolsInv, Discipline
<1>4. /\ Types /\ SpoolInv(s) /\ manifest # None /\ manifest \in Manifests /\ own[t] = manifest
      /\ manifest.state = "capturing"
      /\ IsCapturing(s) /\ Unacknowledged(s) /\ spools[t][s] = meta[s]
  BY <1>1, <1>2, <1>3, Arrives, Reliance DEF Finds, Owns
<1>5. /\ meta[s] # None /\ meta[s].count \in Nat /\ Committed(s) /\ intent[s] # None
      /\ intent[s].from \in Nat /\ meta[s].count = intent[s].from + 1
      /\ manifest.count[s] = intent[s].from
  BY <1>4, StreamTypes DEF IsCapturing, Unacknowledged, Committed
<1>6. Len(stored[s]) = Chunks * (intent[s].from + 1)
  <2>1. ~Begun(s)
    BY <1>5 DEF Begun
  <2> QED BY <1>4, <1>5, <2>1 DEF SpoolInv, Exact, Tailed
<1>7. NextManifest(t) = [manifest EXCEPT !.count[s] = meta[s].count]
  <2>1. NextManifest(t) = [own[t] EXCEPT !.count[On(t)] = spools[t][On(t)].count]
    BY <1>1, Zenon DEF NextManifest
  <2> QED BY <1>2, <1>4, <2>1
<1>8. /\ NextManifest(t) # None /\ NextManifest(t).state = "capturing"
      /\ NextManifest(t).count = [manifest.count EXCEPT ![s] = meta[s].count]
  <2>1. NextManifest(t) \in Manifests /\ NextManifest(t).state = "capturing"
    BY <1>4, <1>5, <1>7, PublishedIs
  <2>2. NextManifest(t).count = [manifest.count EXCEPT ![s] = meta[s].count]
    BY <1>4, <1>7 DEF Manifests
  <2> QED BY <2>1, <2>2, NoneIsAbsent
<1>9. /\ manifest' = manifest \/ manifest' = NextManifest(t)
      /\ UNCHANGED <<stored, intent, taken>>
  BY <1>4, ReplaceManifestIs
<1> QED BY <1>4, <1>5, <1>6, <1>8, <1>9 DEF SameData, Publishes, Kept

LEMMA TurnKinds ==
  ASSUME SpoolsInv, NEW t \in Tabs, ReplaceManifest(t), ~At(t, {"publish"})
  PROVE  SameData \/ TurnsTo("sealed") \/ TurnsTo("discarded")
<1>1. /\ At(t, {"sealed"}) \/ At(t, {"discarded"})
      /\ At(t, PlainSteps) /\ program[t] # <<>>
      /\ At(t, {"seal", "sealed", "discarded", "mark", "erase", "drop", "remove",
                "append", "publish", "acknowledge", "reacknowledge", "repair"})
  BY DEF ReplaceManifest, At, PlainSteps
<1>2. manifest # None /\ manifest \in Manifests /\ own[t] = manifest
  BY <1>1, Arrives, Reliance
<1>3. /\ manifest' = manifest \/ manifest' = NextManifest(t)
      /\ UNCHANGED <<stored, intent, taken>>
  BY <1>2, ReplaceManifestIs
<1>4. CASE At(t, {"sealed"})
  <2>1. manifest.state \in {"capturing", "sealed"}
    <3>1. At(t, {"seal", "sealed"})
      BY <1>4 DEF At
    <3> QED BY <1>1, <1>2, <3>1, Arrives, Reliance DEF Owns
  <2>2. NextManifest(t) = [manifest EXCEPT !.state = "sealed"]
    BY <1>2, <1>4, Zenon DEF NextManifest, At
  <2>3. NextManifest(t) \in Manifests /\ NextManifest(t).state = "sealed"
        /\ NextManifest(t).count = manifest.count
    <3>1. "sealed" \in ManifestStates
      BY DEF ManifestStates
    <3> QED BY <1>2, <2>2, <3>1, TurnedIs
  <2>4. NextManifest(t) # None
    BY <2>3, NoneIsAbsent
  <2> QED BY <1>2, <1>3, <2>1, <2>3, <2>4 DEF TurnsTo, SameData
<1>5. CASE At(t, {"discarded"})
  <2>1. manifest.state \in {"sealed", "discarded"}
    BY <1>1, <1>2, <1>5, Arrives, Reliance DEF Owns
  <2>2. ~At(t, {"sealed"}) /\ ~At(t, {"publish"})
    BY <1>5 DEF At
  <2>3. NextManifest(t) = [manifest EXCEPT !.state = "discarded"]
    BY <1>2, <1>5, <2>2, Zenon DEF NextManifest
  <2>4. NextManifest(t) \in Manifests /\ NextManifest(t).state = "discarded"
        /\ NextManifest(t).count = manifest.count
    <3>1. "discarded" \in ManifestStates
      BY DEF ManifestStates
    <3> QED BY <1>2, <2>3, <3>1, TurnedIs
  <2>5. NextManifest(t) # None
    BY <2>4, NoneIsAbsent
  <2> QED BY <1>2, <1>3, <2>1, <2>4, <2>5 DEF TurnsTo, SameData
<1> QED BY <1>1, <1>4, <1>5

LEMMA RemoveKinds ==
  ASSUME SpoolsInv, NEW t \in Tabs, RemoveManifest(t)
  PROVE  (SameData \/ Removes) /\ told' = told
<1>1. /\ At(t, {"remove"}) /\ At(t, PlainSteps) /\ program[t] # <<>>
      /\ At(t, {"mark", "erase", "drop", "remove"})
      /\ At(t, {"seal", "sealed", "discarded", "mark", "erase", "drop", "remove",
                "append", "publish", "acknowledge", "reacknowledge", "repair"})
  BY DEF RemoveManifest, At, PlainSteps
<1>2. ~Kept
  BY <1>1, Arrives, Reliance DEF Owns, Kept
<1>3. manifest' = manifest \/ manifest' = None
  BY DEF RemoveManifest
<1>4. UNCHANGED <<stored, intent, taken>> /\ told' = told
  BY DEF RemoveManifest
<1> QED BY <1>2, <1>3, <1>4 DEF SameData, Removes

(***************************************************************************)
(* What the recorder is told.                                              *)
(***************************************************************************)
LEMMA CompletedTells ==
  ASSUME NEW t, NEW s \in Streams, Completed(t, s),
         ~At(t, {"acknowledge", "reacknowledge"})
  PROVE  told' = told
BY DEF Completed

LEMMA AcknowledgedTells ==
  ASSUME SpoolsInv, NEW t \in Tabs, NEW s \in Streams, Completed(t, s), On(t) = s,
         program[t] # <<>>, At(t, {"acknowledge", "reacknowledge"}),
         UNCHANGED <<manifest, stored>>
  PROVE  Tells(s)
<1>1. /\ At(t, CaptureSteps)
      /\ At(t, {"seal", "sealed", "discarded", "mark", "erase", "drop", "remove",
                "append", "publish", "acknowledge", "reacknowledge", "repair"})
      /\ ~At(t, {"load"}) /\ ~At(t, {"list", "match", "rollback"}) /\ ~At(t, {"append", "seal"})
      /\ ~At(t, {"mark"}) /\ ~At(t, {"repair"})
  BY DEF At, CaptureSteps
<1>2. manifest # None /\ own[t] = manifest
  BY <1>1, Arrives, Reliance
<1>3. manifest.count[s] > 0
  <2>1. CASE requests[t] = <<>>
    <3>1. Counted(s) /\ meta[s].count > 0
      BY <2>1, Arrives DEF Finds
    <3> QED BY <3>1 DEF Counted
  <2>2. CASE requests[t] # <<>>
    <3>1. Fits(t, s, requests[t])
      BY <2>2 DEF SpoolsInv, Placed
    <3>2. ForgetFits(s, requests[t]) /\ meta[s].count > 0
      BY <3>1 DEF Fits, At
    <3> QED BY <3>2 DEF ForgetFits
  <2> QED BY <2>1, <2>2
<1>4. told' = told \cup {stored[s][Chunks * own[t].count[s]]}
  BY <1>1 DEF Completed
<1> QED BY <1>2, <1>3, <1>4 DEF Tells

LEMMA TellsOrNot ==
  ASSUME SpoolsInv, NEW t \in Tabs, AskStorage(t) \/ Acknowledge(t)
  PROVE  told' = told \/ \E s \in Streams : Tells(s)
<1>1. program[t] # <<>>
  BY AskingStep DEF AskStorage, Acknowledge, Waits, At, SpoolsInv
<1>2. PICK s \in Streams : On(t) = s
  BY <1>1, Arrives
<1>3. CASE told' # told
  <2>1. Completed(t, s)
    BY <1>2, <1>3 DEF AskStorage, Acknowledge, Failed
  <2>2. At(t, {"acknowledge", "reacknowledge"})
    BY <1>3, <2>1, CompletedTells
  <2>3. UNCHANGED <<manifest, stored>>
    <3>1. CASE Acknowledge(t)
      BY <3>1 DEF Acknowledge, durable
    <3>2. CASE AskStorage(t)
      <4>1. UNCHANGED <<durable, taken>> \/ Perform(Head(requests[t]), s)
        BY <1>2, <3>2 DEF AskStorage
      <4>2. Fits(t, s, requests[t])
        BY <1>1, <1>2, <3>2 DEF SpoolsInv, Placed, AskStorage
      <4>3. Head(requests[t]) = Ask0("forget")
        BY <2>2, <4>2 DEF Fits, ForgetFits, At
      <4>4. UNCHANGED <<durable, taken>> \/ ForgetIntent(s)
        BY <4>1, <4>3, PerformIs
      <4> QED BY <4>4 DEF durable, ForgetIntent
    <3> QED BY <3>1, <3>2
  <2> QED BY <1>1, <1>2, <2>1, <2>2, <2>3, AcknowledgedTells
<1> QED BY <1>3

LEMMA StepKinds ==
  ASSUME SpoolsInv, BudgetInv, [Next]_vars
  PROVE  /\ OnStorage \/ OnManifest
         /\ told' = told \/ \E s \in Streams : Tells(s)
<1>1. ASSUME NEW t \in Tabs, AskStorage(t)
      PROVE  OnStorage /\ (told' = told \/ \E s \in Streams : Tells(s))
  BY <1>1, StorageKinds, TellsOrNot
<1>2. ASSUME NEW t \in Tabs, Acknowledge(t)
      PROVE  OnStorage /\ (told' = told \/ \E s \in Streams : Tells(s))
  <2>1. SameData
    BY <1>2 DEF Acknowledge, SameData, durable
  <2> QED BY <1>2, <2>1, TellsOrNot DEF OnStorage
<1>3. ASSUME NEW t \in Tabs, ReplaceManifest(t)
      PROVE  (OnStorage \/ OnManifest) /\ told' = told
  <2>1. told' = told
    BY <1>3 DEF ReplaceManifest
  <2>2. SameData \/ (\E s \in Streams : Publishes(s)) \/ TurnsTo("sealed") \/ TurnsTo("discarded")
    BY <1>3, PublishKinds, TurnKinds
  <2> QED BY <2>1, <2>2 DEF OnStorage, OnManifest
<1>4. ASSUME NEW t \in Tabs, EraseSpool(t) PROVE OnStorage /\ told' = told
  BY <1>4, EraseKinds
<1>5. ASSUME NEW t \in Tabs, RemoveManifest(t)
      PROVE  (OnStorage \/ OnManifest) /\ told' = told
  BY <1>5, RemoveKinds DEF OnStorage, OnManifest
<1>6. CASE UNCHANGED vars
  BY <1>6, QuietSteps DEF OnStorage
<1>7. ASSUME NEW t \in Tabs,
             Step(t) \/ SealSession(t) \/ DiscardSession(t) \/ FindRecovery(t) \/ ListSpools(t)
               \/ Crash(t) \/ (\E s \in Streams : CapturePacket(t, s))
      PROVE  (OnStorage \/ OnManifest) /\ (told' = told \/ \E s \in Streams : Tells(s))
  <2>1. CASE AskStorage(t) \/ Acknowledge(t) \/ ReplaceManifest(t) \/ EraseSpool(t)
               \/ RemoveManifest(t)
    BY <1>1, <1>2, <1>3, <1>4, <1>5, <2>1
  <2>2. CASE ~(AskStorage(t) \/ Acknowledge(t) \/ ReplaceManifest(t) \/ EraseSpool(t)
               \/ RemoveManifest(t))
    <3>1. SameData /\ told' = told
      BY <1>7, <2>2, QuietSteps DEF Step
    <3> QED BY <3>1 DEF OnStorage
  <2> QED BY <2>1, <2>2
<1> QED BY <1>6, <1>7 DEF Next

(***************************************************************************)
(* The acknowledged packets stay where they are.                           *)
(***************************************************************************)
LEMMA Blocks ==
  ASSUME NEW n \in Nat, NEW i \in 1..n
  PROVE  /\ Chunks * i \in 1..(Chunks * n)
         /\ \A k \in 1..Chunks : Chunks * (i - 1) + k \in 1..(Chunks * n)
<1>1. /\ Chunks \in Nat /\ Chunks >= 1 /\ i \in Nat /\ i - 1 \in Nat /\ n - i \in Nat
      /\ Chunks * i \in Nat /\ Chunks * (i - 1) \in Nat /\ Chunks * (n - i) \in Nat
  BY CaptureAssumption
<1>2. Chunks * i = Chunks * (i - 1) + Chunks
  BY <1>1
<1>3. Chunks * n = Chunks * i + Chunks * (n - i)
  BY <1>1
<1> QED BY <1>1, <1>2, <1>3

LEMMA PacketsStay ==
  ASSUME NEW s \in Streams, NEW n \in Nat,
         Len(stored[s]) \in Nat, Len(stored'[s]) \in Nat,
         Chunks * n <= Len(stored[s]), Chunks * n <= Len(stored'[s]),
         \A j \in 1..(Chunks * n) : stored'[s][j] = stored[s][j]
  PROVE  \A i \in 1..n : /\ Whole(s, i)' <=> Whole(s, i)
                         /\ PacketAt(s, i)' = PacketAt(s, i)
                         /\ stored'[s][Chunks * i] = stored[s][Chunks * i]
<1> SUFFICES ASSUME NEW i \in 1..n
             PROVE  /\ Whole(s, i)' <=> Whole(s, i)
                    /\ PacketAt(s, i)' = PacketAt(s, i)
                    /\ stored'[s][Chunks * i] = stored[s][Chunks * i]
  OBVIOUS
<1>1. /\ Chunks * i \in 1..(Chunks * n) /\ Chunks * n \in Nat
      /\ \A k \in 1..Chunks : Chunks * (i - 1) + k \in 1..(Chunks * n)
  BY Blocks, ProductIsNat
<1>2. stored'[s][Chunks * i] = stored[s][Chunks * i]
  BY <1>1
<1>3. \A k \in 1..Chunks :
        stored'[s][Chunks * (i - 1) + k] = stored[s][Chunks * (i - 1) + k]
  BY <1>1
<1>4. Chunks * i <= Len(stored[s]) /\ Chunks * i <= Len(stored'[s])
  BY <1>1
<1>5. Whole(s, i)' <=> Whole(s, i)
  BY <1>2, <1>3, <1>4 DEF Whole
<1>6. PacketAt(s, i) = IF Whole(s, i) THEN stored[s][Chunks * i] ELSE None
  BY DEF PacketAt, Whole
<1>7. PacketAt(s, i)' = IF Whole(s, i)' THEN stored'[s][Chunks * i] ELSE None
  BY DEF PacketAt, Whole
<1> QED BY <1>2, <1>5, <1>6, <1>7

LEMMA WholePacket ==
  ASSUME NEW s, NEW i, Whole(s, i)
  PROVE  PacketAt(s, i) = stored[s][Chunks * i]
BY DEF Whole, PacketAt

\* The chunks of the acknowledged packets are there.
LEMMA PrefixIsStored ==
  ASSUME Types, NEW s \in Streams, PrefixInv(s), Kept
  PROVE  /\ manifest.count[s] \in Nat /\ Chunks * manifest.count[s] \in Nat
         /\ Chunks * manifest.count[s] <= Len(stored[s])
<1>1. manifest.count[s] \in Nat /\ Len(stored[s]) \in Nat /\ Chunks \in Nat
  BY StreamTypes, CaptureAssumption DEF Kept
<1>2. CASE manifest.count[s] = 0
  BY <1>1, <1>2
<1>3. CASE manifest.count[s] # 0
  BY <1>1, <1>3 DEF PrefixInv, Whole
<1> QED BY <1>1, <1>2, <1>3, ProductIsNat

SamePackets ==
  /\ manifest' = manifest /\ taken' \in Nat /\ taken' >= taken
  /\ Kept => \A s \in Streams : \A i \in 1..manifest.count[s] :
       /\ Whole(s, i)' <=> Whole(s, i)
       /\ PacketAt(s, i)' = PacketAt(s, i)
       /\ stored'[s][Chunks * i] = stored[s][Chunks * i]

LEMMA StorageKeepsPackets ==
  ASSUME Types, Types', ContentInv, OnStorage
  PROVE  SamePackets
<1> DEFINE Prefix(s) == /\ Chunks * manifest.count[s] <= Len(stored'[s])
                        /\ \A j \in 1..(Chunks * manifest.count[s]) : stored'[s][j] = stored[s][j]
<1>1. taken \in Nat /\ stored \in [Streams -> Seq(Nat)]
      /\ \A s \in Streams : Len(stored[s]) \in Nat /\ Len(stored'[s]) \in Nat
  BY LenProperties DEF Types
<1>2. manifest' = manifest /\ taken' \in Nat /\ taken' >= taken
  BY <1>1 DEF OnStorage, SameData, Journals, Writes, WriteChunk, Cuts, CutTail, ForgetIntent, Erases
<1>3. ASSUME Kept PROVE \A s \in Streams : Prefix(s)
  <2>1. \A s \in Streams : /\ manifest.count[s] \in Nat /\ Chunks * manifest.count[s] \in Nat
                           /\ Chunks * manifest.count[s] <= Len(stored[s])
    BY <1>3, PrefixIsStored DEF ContentInv
  <2>2. \A s \in Streams : stored'[s] = stored[s] => Prefix(s)
    BY <2>1
  <2>3. ASSUME NEW s \in Streams, Writes(s) PROVE \A r \in Streams : Prefix(r)
    <3>1. /\ \A r \in Streams \ {s} : stored'[r] = stored[r]
          /\ Len(stored'[s]) = Len(stored[s]) + 1
          /\ \A i \in 1..Len(stored[s]) : stored'[s][i] = stored[s][i]
      BY <2>3, WriteEffect DEF Writes, OnlySpool, SameSpool
    <3>2. Prefix(s)
      BY <1>1, <2>1, <3>1
    <3> QED BY <2>2, <3>1, <3>2
  <2>4. ASSUME NEW s \in Streams, Cuts(s) PROVE \A r \in Streams : Prefix(r)
    <3>1. PICK n \in Nat : /\ n <= Len(stored[s])
                           /\ manifest # None => Chunks * manifest.count[s] <= n
                           /\ CutTail(s, n)
      BY <2>4 DEF Cuts
    <3>2. /\ \A r \in Streams \ {s} : stored'[r] = stored[r]
          /\ Len(stored'[s]) = n
          /\ \A i \in 1..n : stored'[s][i] = stored[s][i]
      BY <3>1, CutEffect DEF OnlySpool, SameSpool
    <3>3. Prefix(s)
      BY <1>3, <2>1, <3>1, <3>2 DEF Kept
    <3> QED BY <2>2, <3>2, <3>3
  <2>5. ASSUME stored' = stored PROVE \A r \in Streams : Prefix(r)
    BY <2>2, <2>5
  <2> QED BY <1>3, <2>3, <2>4, <2>5 DEF OnStorage, SameData, Journals, ForgetIntent, Erases
<1>4. ASSUME Kept, NEW s \in Streams
      PROVE  \A i \in 1..manifest.count[s] :
               /\ Whole(s, i)' <=> Whole(s, i)
               /\ PacketAt(s, i)' = PacketAt(s, i)
               /\ stored'[s][Chunks * i] = stored[s][Chunks * i]
  <2>1. manifest.count[s] \in Nat /\ Chunks * manifest.count[s] <= Len(stored[s])
    BY <1>4, PrefixIsStored DEF ContentInv
  <2>2. Prefix(s)
    BY <1>3, <1>4
  <2> QED BY <1>1, <2>1, <2>2, PacketsStay
<1> QED BY <1>2, <1>4 DEF SamePackets

LEMMA SameRecords ==
  ASSUME SamePackets
  PROVE  /\ Kept' <=> Kept
         /\ Kept => \A p : Recorded(p)' <=> Recorded(p)
BY DEF SamePackets, Kept, Recorded

LEMMA StorageKeepsPrefix ==
  ASSUME Types, Types', ContentInv, SamePackets, NEW s \in Streams
  PROVE  PrefixInv(s)'
<1> SUFFICES ASSUME Kept', NEW i \in 1..manifest'.count[s]
             PROVE  Whole(s, i)' /\ stored'[s][Chunks * i] \in 1..taken'
  BY DEF PrefixInv
<1>1. Kept /\ i \in 1..manifest.count[s]
  BY SameRecords DEF SamePackets
<1>2. Whole(s, i) /\ stored[s][Chunks * i] \in 1..taken
  BY <1>1 DEF ContentInv, PrefixInv
<1>3. Whole(s, i)' /\ stored'[s][Chunks * i] = stored[s][Chunks * i]
  BY <1>1, <1>2 DEF SamePackets
<1> QED BY <1>2, <1>3 DEF SamePackets, Types

(***************************************************************************)
(* What is on its way stays what its intent names.                         *)
(***************************************************************************)
LEMMA PendingStays ==
  ASSUME Types, Types', ContentInv, SamePackets, NEW s \in Streams,
         intent'[s] = intent[s],
         intent[s] # None =>
           \A j \in (Chunks * intent[s].from + 1)..Len(stored'[s]) :
             stored'[s][j] = intent[s].packet,
         \A r \in Streams \ {s} :
           intent'[r] # None => \/ intent[r] # None /\ intent'[r].packet = intent[r].packet
                                \/ intent'[r].packet = taken + 1
  PROVE  PendingInv(s)'
<1> SUFFICES ASSUME intent[s] # None PROVE PendingInv(s)'
  BY DEF PendingInv
<1>1. /\ PendingInv(s) /\ intent[s].packet \in 1..taken /\ taken \in Nat /\ taken' \in Nat
      /\ taken' >= taken /\ manifest' = manifest
  BY DEF ContentInv, PendingInv, Types, SamePackets
<1>2. intent'[s].packet \in 1..taken'
  BY <1>1
<1>3. Kept' /\ manifest'.count[s] = intent'[s].from =>
        \A p : Recorded(p)' => p # intent'[s].packet
  <2>1. Kept /\ manifest.count[s] = intent[s].from =>
          \A p : Recorded(p) => p # intent[s].packet
    BY <1>1 DEF PendingInv
  <2> QED BY <1>1, <2>1, SameRecords
<1>4. ASSUME NEW r \in Streams \ {s}, intent'[r] # None
      PROVE  intent'[r].packet # intent'[s].packet
  BY <1>1, <1>4 DEF PendingInv
<1> QED BY <1>2, <1>3, <1>4 DEF PendingInv

LEMMA JournalKeepsPending ==
  ASSUME Types, Types', ContentInv, SamePackets, NEW r \in Streams, Journals(r), NEW s \in Streams
  PROVE  PendingInv(s)'
<1>1. PICK n \in Nat : /\ Len(stored[r]) <= Chunks * n
                       /\ intent' = [intent EXCEPT ![r] = [from |-> n, packet |-> taken + 1]]
  BY DEF Journals
<1>2. /\ taken \in Nat /\ taken' = taken + 1 /\ stored' = stored /\ manifest' = manifest
      /\ intent \in [Streams -> Intents \cup {None}]
      /\ Len(stored[r]) \in Nat /\ Chunks * n \in Nat
  BY <1>1, StreamTypes, ProductIsNat DEF Journals, Types
<1>3. /\ \A q \in Streams \ {r} : intent'[q] = intent[q]
      /\ intent'[r].from = n /\ intent'[r].packet = taken + 1
  BY <1>1, <1>2
<1>4. CASE s # r
  <2>1. intent'[s] = intent[s]
    BY <1>3, <1>4
  <2>2. intent[s] # None =>
          \A j \in (Chunks * intent[s].from + 1)..Len(stored'[s]) :
            stored'[s][j] = intent[s].packet
    BY <1>2 DEF ContentInv, PendingInv
  <2> QED BY <1>3, <2>1, <2>2, PendingStays
<1>5. CASE s = r
  <2>1. intent'[s].packet \in 1..taken'
    BY <1>2, <1>3, <1>5
  <2>2. \A j \in (Chunks * intent'[s].from + 1)..Len(stored'[s]) : FALSE
    BY <1>1, <1>2, <1>3, <1>5
  <2>3. ASSUME Kept', NEW p, Recorded(p)' PROVE p # intent'[s].packet
    <3>1. Kept
      BY <2>3, SameRecords
    <3>2. ASSUME NEW q \in Streams, NEW i \in 1..manifest.count[q]
          PROVE  PacketAt(q, i) # taken + 1
      <4>1. PacketAt(q, i) \in 1..taken
        BY <3>1, WholePacket DEF ContentInv, PrefixInv
      <4> QED BY <1>2, <4>1
    <3>3. ~Recorded(taken + 1)
      BY <3>2 DEF Recorded
    <3>4. Recorded(p)
      BY <2>3, <3>1, SameRecords
    <3> QED BY <1>3, <1>5, <3>3, <3>4
  <2>4. ASSUME NEW q \in Streams \ {s}, intent'[q] # None
        PROVE  intent'[q].packet # intent'[s].packet
    <3>1. intent[q] # None /\ intent'[q] = intent[q]
      BY <1>3, <1>5, <2>4
    <3>2. intent[q].packet \in 1..taken
      BY <3>1 DEF ContentInv, PendingInv
    <3> QED BY <1>2, <1>3, <1>5, <3>1, <3>2
  <2> QED BY <2>1, <2>2, <2>3, <2>4 DEF PendingInv
<1> QED BY <1>4, <1>5

LEMMA WriteKeepsPending ==
  ASSUME Types, Types', ContentInv, SamePackets, NEW r \in Streams, Writes(r), NEW s \in Streams
  PROVE  PendingInv(s)'
<1>1. /\ \A q \in Streams : intent'[q] = intent[q]
      /\ \A q \in Streams \ {r} : stored'[q] = stored[q]
      /\ Len(stored'[r]) = Len(stored[r]) + 1
      /\ \A i \in 1..Len(stored[r]) : stored'[r][i] = stored[r][i]
      /\ stored'[r][Len(stored[r]) + 1] = intent[r].packet
  BY WriteEffect DEF Writes, OnlySpool, SameSpool
<1>2. ASSUME intent[s] # None, NEW j \in (Chunks * intent[s].from + 1)..Len(stored'[s])
      PROVE  stored'[s][j] = intent[s].packet
  <2>1. Len(stored[s]) \in Nat /\ Chunks * intent[s].from \in Nat
    BY <1>2, StreamTypes, ProductIsNat
  <2>2. \A i \in (Chunks * intent[s].from + 1)..Len(stored[s]) : stored[s][i] = intent[s].packet
    BY <1>2 DEF ContentInv, PendingInv
  <2>3. CASE s # r
    BY <1>1, <1>2, <2>2, <2>3
  <2>4. CASE s = r
    <3>1. j = Len(stored[s]) + 1 \/ (j \in 1..Len(stored[s])
            /\ j \in (Chunks * intent[s].from + 1)..Len(stored[s]))
      BY <1>1, <2>1, <2>4
    <3> QED BY <1>1, <2>2, <2>4, <3>1
  <2> QED BY <2>3, <2>4
<1> QED BY <1>1, <1>2, PendingStays

LEMMA CutKeepsPending ==
  ASSUME Types, Types', ContentInv, SamePackets, NEW r \in Streams, Cuts(r), NEW s \in Streams
  PROVE  PendingInv(s)'
<1>1. PICK n \in Nat : n <= Len(stored[r]) /\ CutTail(r, n)
  BY DEF Cuts
<1>2. /\ \A q \in Streams : intent'[q] = intent[q]
      /\ \A q \in Streams \ {r} : stored'[q] = stored[q]
      /\ Len(stored'[r]) = n
      /\ \A i \in 1..n : stored'[r][i] = stored[r][i]
  BY <1>1, CutEffect DEF OnlySpool, SameSpool
<1>3. ASSUME intent[s] # None, NEW j \in (Chunks * intent[s].from + 1)..Len(stored'[s])
      PROVE  stored'[s][j] = intent[s].packet
  <2>1. Len(stored[s]) \in Nat /\ Chunks * intent[s].from \in Nat
    BY <1>3, StreamTypes, ProductIsNat
  <2>2. \A i \in (Chunks * intent[s].from + 1)..Len(stored[s]) : stored[s][i] = intent[s].packet
    BY <1>3 DEF ContentInv, PendingInv
  <2>3. CASE s # r
    BY <1>2, <1>3, <2>2, <2>3
  <2>4. CASE s = r
    <3>1. j \in 1..n /\ j \in (Chunks * intent[s].from + 1)..Len(stored[s])
      BY <1>1, <1>2, <2>1, <2>4
    <3> QED BY <1>2, <2>2, <2>4, <3>1
  <2> QED BY <2>3, <2>4
<1> QED BY <1>2, <1>3, PendingStays

LEMMA OthersKeepPending ==
  ASSUME Types, Types', ContentInv, SamePackets, NEW s \in Streams,
         SameData \/ \E r \in Streams : ForgetIntent(r) \/ Erases(r)
  PROVE  PendingInv(s)'
<1>1. /\ \A q \in Streams : intent'[q] = intent[q] \/ intent'[q] = None
      /\ \A q \in Streams : intent[q] # None => stored'[q] = stored[q]
  BY DEF SameData, ForgetIntent, Erases, Types
<1>2. intent[s] # None =>
        \A j \in (Chunks * intent[s].from + 1)..Len(stored'[s]) :
          stored'[s][j] = intent[s].packet
  BY <1>1 DEF ContentInv, PendingInv
<1>3. CASE intent'[s] = None
  BY <1>3 DEF PendingInv
<1>4. CASE intent'[s] = intent[s]
  BY <1>1, <1>2, <1>4, PendingStays
<1> QED BY <1>1, <1>3, <1>4

LEMMA StorageKeepsContent ==
  ASSUME Types, Types', ContentInv, OnStorage
  PROVE  ContentInv' /\ SamePackets
<1>1. SamePackets
  BY StorageKeepsPackets
<1>2. \A s \in Streams : PrefixInv(s)'
  BY <1>1, StorageKeepsPrefix
<1>3. \A s \in Streams : PendingInv(s)'
  BY <1>1, JournalKeepsPending, WriteKeepsPending, CutKeepsPending, OthersKeepPending DEF OnStorage
<1> QED BY <1>1, <1>2, <1>3 DEF ContentInv

(***************************************************************************)
(* What the manifest acknowledges grows by whole packets, one at a time.   *)
(***************************************************************************)
GrowsBy(s, n, p) ==
  /\ manifest.count[s] = n /\ manifest'.count = [manifest.count EXCEPT ![s] = n + 1]
  /\ stored' = stored /\ taken' = taken
  /\ Whole(s, n + 1) /\ PacketAt(s, n + 1) = p
  /\ p \in 1..taken /\ ~Recorded(p)

LEMMA SameChunks ==
  ASSUME stored' = stored
  PROVE  \A s, i : (Whole(s, i)' <=> Whole(s, i)) /\ PacketAt(s, i)' = PacketAt(s, i)
BY DEF Whole, PacketAt

LEMMA PublishGrows ==
  ASSUME Types, ContentInv, NEW s \in Streams, Publishes(s)
  PROVE  \E n \in Nat, p \in 1..taken :
           GrowsBy(s, n, p) /\ intent[s].from = n /\ intent[s].packet = p
<1>1. PICK n \in Nat : intent[s].from = n
  BY StreamTypes DEF Publishes
<1>2. /\ Kept /\ manifest.count[s] = n /\ stored' = stored /\ taken' = taken
      /\ Len(stored[s]) = Chunks * (n + 1) /\ Len(stored[s]) \in Nat
      /\ manifest'.count = [manifest.count EXCEPT ![s] = n + 1]
      /\ intent[s] # None /\ PendingInv(s)
  BY <1>1, StreamTypes DEF Publishes, ContentInv
<1>3. PICK p \in 1..taken : intent[s].packet = p
  BY <1>2 DEF PendingInv
<1>4. \A j \in (Chunks * n + 1)..Len(stored[s]) : stored[s][j] = p
  BY <1>1, <1>2, <1>3 DEF PendingInv
<1>5. /\ Chunks \in Nat /\ Chunks >= 1 /\ Chunks * n \in Nat
      /\ Chunks * (n + 1) = Chunks * n + Chunks /\ (n + 1) - 1 = n
  BY CaptureAssumption
<1> DEFINE a == Chunks * n
           b == Chunks * (n + 1)
<1>6. /\ a \in Nat /\ b = a + Chunks /\ Len(stored[s]) = b
      /\ \A j \in (a + 1)..b : stored[s][j] = p
  BY <1>2, <1>4, <1>5
<1>7. stored[s][b] = p /\ \A k \in 1..Chunks : stored[s][a + k] = p
  <2> HIDE DEF a, b
  <2> QED BY <1>5, <1>6
<1>8. Whole(s, n + 1)
  BY <1>2, <1>5, <1>7 DEF Whole
<1>9. PacketAt(s, n + 1) = p
  BY <1>7, <1>8, WholePacket
<1>10. ~Recorded(p)
  BY <1>1, <1>2, <1>3 DEF PendingInv
<1> QED BY <1>1, <1>2, <1>3, <1>8, <1>9, <1>10 DEF GrowsBy

\* What was recorded stays so, and only the new packet joins.
LEMMA GrowthIs ==
  ASSUME Kept, Kept', manifest.count \in [Streams -> Nat], NEW s \in Streams, NEW n \in Nat, NEW p,
         GrowsBy(s, n, p)
  PROVE  \A q : Recorded(q)' <=> Recorded(q) \/ q = p
<1>1. /\ \A r \in Streams \ {s} : manifest'.count[r] = manifest.count[r]
      /\ manifest.count[s] = n /\ manifest'.count[s] = n + 1
      /\ PacketAt(s, n + 1) = p
      /\ \A r, i : PacketAt(r, i)' = PacketAt(r, i)
  BY SameChunks DEF GrowsBy
<1>2. \A r \in Streams : 1..manifest'.count[r] =
        IF r = s THEN (1..manifest.count[s]) \cup {n + 1} ELSE 1..manifest.count[r]
  <2>1. 1..(n + 1) = (1..n) \cup {n + 1}
    OBVIOUS
  <2> QED BY <1>1, <2>1
<1> QED BY <1>1, <1>2 DEF Recorded

LEMMA PublishKeepsContent ==
  ASSUME Types, ContentInv, NEW s \in Streams, Publishes(s)
  PROVE  ContentInv'
<1>1. /\ manifest # None /\ manifest.state = "capturing" /\ Kept
      /\ stored' = stored /\ intent' = intent /\ taken' = taken
      /\ manifest.count \in [Streams -> Nat] /\ manifest.count[s] = intent[s].from
      /\ intent[s] # None
  BY DEF Publishes, Kept, Types, Manifests
<1>2. PICK n \in Nat, p \in 1..taken :
        GrowsBy(s, n, p) /\ intent[s].from = n /\ intent[s].packet = p
  BY PublishGrows
<1>3. /\ \A r \in Streams \ {s} : manifest'.count[r] = manifest.count[r]
      /\ manifest'.count[s] = n + 1 /\ manifest.count[s] = n /\ Whole(s, n + 1)
      /\ stored[s][Chunks * (n + 1)] = p
  BY <1>1, <1>2, WholePacket DEF GrowsBy
<1>4. \A q : Recorded(q)' <=> Recorded(q) \/ q = p
  <2>1. Kept'
    BY DEF Publishes, Kept
  <2> QED BY <1>1, <1>2, <2>1, GrowthIs
<1>5. ASSUME NEW r \in Streams PROVE PrefixInv(r)'
  <2> SUFFICES ASSUME NEW i \in 1..manifest'.count[r]
               PROVE  Whole(r, i)' /\ stored'[r][Chunks * i] \in 1..taken'
    BY DEF PrefixInv
  <2>1. CASE i \in 1..manifest.count[r]
    <3>1. Whole(r, i) /\ stored[r][Chunks * i] \in 1..taken
      BY <1>1, <2>1 DEF ContentInv, PrefixInv
    <3> QED BY <1>1, <3>1, SameChunks
  <2>2. CASE i \notin 1..manifest.count[r]
    <3>1. r = s /\ i = n + 1
      BY <1>1, <1>3, <2>2
    <3>2. Whole(r, i)
      BY <1>3, <3>1
    <3> QED BY <1>1, <1>2, <1>3, <3>1, <3>2, SameChunks
  <2> QED BY <2>1, <2>2
<1>6. ASSUME NEW r \in Streams PROVE PendingInv(r)'
  <2> SUFFICES ASSUME intent[r] # None PROVE PendingInv(r)'
    BY <1>1 DEF PendingInv
  <2>1. /\ intent[r].packet \in 1..taken
        /\ \A j \in (Chunks * intent[r].from + 1)..Len(stored[r]) : stored[r][j] = intent[r].packet
        /\ Kept /\ manifest.count[r] = intent[r].from => \A q : Recorded(q) => q # intent[r].packet
        /\ \A q \in Streams \ {r} : intent[q] # None => intent[q].packet # intent[r].packet
    BY DEF ContentInv, PendingInv
  <2>2. manifest'.count[r] = intent[r].from => \A q : Recorded(q)' => q # intent[r].packet
    <3>1. CASE r = s
      BY <1>2, <1>3, <3>1
    <3>2. CASE r # s
      <4>1. p # intent[r].packet
        BY <1>1, <1>2, <2>1, <3>2
      <4> QED BY <1>1, <1>3, <1>4, <2>1, <3>2, <4>1
    <3> QED BY <3>1, <3>2
  <2> QED BY <1>1, <2>1, <2>2 DEF PendingInv
<1> QED BY <1>5, <1>6 DEF ContentInv

LEMMA TurnKeepsContent ==
  ASSUME ContentInv, TurnsTo("sealed") \/ TurnsTo("discarded") \/ Removes
  PROVE  ContentInv'
<1>1. stored' = stored /\ intent' = intent /\ taken' = taken
  BY DEF TurnsTo, Removes
<1>2. Kept' => Kept /\ manifest'.count = manifest.count
  BY DEF TurnsTo, Removes, Kept
<1>3. Kept' => \A p : Recorded(p)' <=> Recorded(p)
  BY <1>1, <1>2, SameChunks DEF Recorded
<1>4. ASSUME NEW s \in Streams PROVE PrefixInv(s)'
  BY <1>1, <1>2, SameChunks DEF ContentInv, PrefixInv
<1>5. ASSUME NEW s \in Streams PROVE PendingInv(s)'
  BY <1>1, <1>2, <1>3 DEF ContentInv, PendingInv
<1> QED BY <1>4, <1>5 DEF ContentInv

(***************************************************************************)
(* What the recorder was told stays recorded.                              *)
(***************************************************************************)
LEMMA RecordsStay ==
  ASSUME Types, ContentInv, OnStorage \/ OnManifest, Types', Kept'
  PROVE  Kept /\ \A p : Recorded(p) => Recorded(p)'
<1>1. CASE OnStorage
  <2>1. SamePackets
    BY <1>1, StorageKeepsPackets
  <2> QED BY <2>1, SameRecords
<1>2. ASSUME NEW s \in Streams, Publishes(s)
      PROVE  Kept /\ \A p : Recorded(p) => Recorded(p)'
  <2>1. PICK n \in Nat, p \in 1..taken : GrowsBy(s, n, p)
    BY <1>2, PublishGrows
  <2>2. Kept /\ manifest.count \in [Streams -> Nat]
    BY <1>2 DEF Publishes, Kept, Types, Manifests
  <2> QED BY <2>1, <2>2, GrowthIs
<1>3. CASE TurnsTo("sealed") \/ TurnsTo("discarded") \/ Removes
  <2>1. stored' = stored /\ Kept /\ manifest'.count = manifest.count
    BY <1>3 DEF TurnsTo, Removes, Kept
  <2> QED BY <2>1, SameChunks DEF Recorded
<1> QED BY <1>1, <1>2, <1>3 DEF OnManifest

LEMMA StepKeepsContent ==
  ASSUME Types, Types', ContentInv, OnStorage \/ OnManifest
  PROVE  ContentInv'
BY StorageKeepsContent, PublishKeepsContent, TurnKeepsContent DEF OnManifest

LEMMA StepKeepsTold ==
  ASSUME Types, Types', ContentInv, ToldIsKept, OnStorage \/ OnManifest,
         told' = told \/ \E s \in Streams : Tells(s)
  PROVE  ToldIsKept'
<1> SUFFICES ASSUME Kept', NEW p \in told' PROVE Recorded(p)'
  BY DEF ToldIsKept, Recorded
<1>1. Kept /\ \A q : Recorded(q) => Recorded(q)'
  BY RecordsStay
<1>2. CASE p \in told
  BY <1>1, <1>2 DEF ToldIsKept, Recorded
<1>3. CASE p \notin told
  <2>1. PICK s \in Streams : Tells(s)
    BY <1>3
  <2>2. PICK n \in Nat : manifest.count[s] = n
    BY <1>1, StreamTypes DEF Kept
  <2>3. n \in 1..manifest.count[s] /\ p = stored[s][Chunks * n]
    BY <1>3, <2>1, <2>2 DEF Tells
  <2>4. Whole(s, n)
    BY <1>1, <2>3 DEF ContentInv, PrefixInv
  <2>5. PacketAt(s, n) = p
    BY <2>3, <2>4, WholePacket
  <2>6. Recorded(p)
    BY <2>3, <2>5 DEF Recorded
  <2> QED BY <1>1, <2>6
<1> QED BY <1>2, <1>3

(***************************************************************************)
(* Only a packet that was captured is ever stored, and each only once.     *)
(***************************************************************************)
\* A program that is not about to ask for a packet.
Calm(p) == p # <<>> =>
  \/ Head(p).do \notin {"append"} \cup OuterSteps
  \/ Head(p).do \in OuterSteps /\ (Tail(p) # <<>> => Head(Tail(p)).do # "append")

LEMMA PlainIsCalm == \A p \in Plain \cup Turned \cup Lists : Calm(p)
<1>1. ASSUME NEW p \in Plain, p # <<>> PROVE Head(p).do \in PlainSteps
  BY <1>1, PlainProgram
<1>2. ASSUME NEW p \in Turned PROVE Head(p).do \in TurnedSteps
  BY TurnedProgram
<1>3. ASSUME NEW p \in Lists, p # <<>> PROVE Head(p).do = "list"
  <2>1. Head(p) \in [do : {"list"}, on : Streams]
    BY <1>3, HeadTailProperties DEF Lists
  <2> QED BY <2>1
<1> QED BY <1>1, <1>2, <1>3 DEF Calm, PlainSteps, TurnedSteps, OuterSteps

LEMMA OneIsCalm ==
  ASSUME NEW step \in {"recheck", "reacknowledge", "repair"}, NEW s
  PROVE  Calm(<<Do(step, s)>>)
BY DEF Calm, Do, OuterSteps

LEMMA RestIsCalm ==
  ASSUME Discipline, NEW t \in Tabs, program[t] # <<>>, ~At(t, OuterSteps)
  PROVE  Calm(Rest(t))
<1>1. CASE At(t, {"list"})
  BY <1>1, FirstStep, PlainIsCalm
<1>2. CASE At(t, PlainSteps \cup TurnedSteps)
  BY <1>2, FirstStep, PlainIsCalm
<1>3. CASE At(t, CaptureSteps)
  <2>1. program[t] \in Captures
    BY <1>3, FirstStep
  <2>2. \/ Rest(t) = <<>>
        \/ \E s : Rest(t) = <<Do("publish", s), Do("acknowledge", s)>>
        \/ \E s : Rest(t) = <<Do("acknowledge", s)>>
    BY <2>1, CaptureProgram DEF Rest
  <2>3. Rest(t) # <<>> => Head(Rest(t)).do \in {"publish", "acknowledge"}
    BY <2>2 DEF Do
  <2> QED BY <2>3 DEF Calm, OuterSteps
<1> QED BY <1>1, <1>2, <1>3, FirstStep DEF At

LEMMA OuterIsCalm ==
  ASSUME NEW step \in OuterSteps, NEW p \in Plain
  PROVE  Calm(Alone(step) \o p)
<1> DEFINE x == Do(step, 1)
<1>1. x \in AnyStep /\ x.do = step
  BY SomeStream DEF Do, AnyStep
<1>2. p \in Seq(AnyStep)
  BY PlainIsInside, ProgramTypes
<1> HIDE DEF x
<1>3. Head(<<x>> \o p) = x /\ Tail(<<x>> \o p) = p
  BY <1>1, <1>2
<1>4. p # <<>> => Head(p).do # "append"
  BY PlainProgram DEF PlainSteps
<1> QED BY <1>1, <1>3, <1>4 DEF Calm, Alone, x

\* The program of a tab becomes one that is not.
LEMMA CalmsDown ==
  ASSUME Discipline, NEW t \in Tabs, NEW p, Calm(p), program' = [program EXCEPT ![t] = p],
         requests' = requests \/ requests' = [requests EXCEPT ![t] = <<>>],
         Unasked'
  PROVE  Unasked /\ t # Recorder
<1>1. Recorder \in Tabs /\ program'[t] = p /\ program \in [Tabs -> Seq(AnyStep)]
  BY CaptureAssumption DEF Discipline
<1>2. CASE t = Recorder
  <2>1. program'[Recorder] = p
    BY <1>1, <1>2
  <2>2. p # <<>>
    BY <2>1 DEF Unasked, At
  <2>3. CASE Head(p).do \notin {"append"} \cup OuterSteps
    BY <2>1, <2>3 DEF Unasked, At
  <2>4. CASE Head(p).do \in OuterSteps /\ (Tail(p) # <<>> => Head(Tail(p)).do # "append")
    BY <2>1, <2>4 DEF Unasked, At, Rest, OuterSteps
  <2> QED BY <2>2, <2>3, <2>4 DEF Calm
<1>3. CASE t # Recorder
  <2>1. program'[Recorder] = program[Recorder]
    BY <1>1, <1>3
  <2>2. requests'[Recorder] = requests[Recorder]
    <3>1. \E S : requests \in [Tabs -> Seq(S)]
      BY DEF Discipline
    <3> QED BY <1>1, <1>3, <3>1
  <2> QED BY <1>3, <2>1, <2>2 DEF Unasked, At, Rest
<1> QED BY <1>2, <1>3

Quits(t) == \E p : Calm(p) /\ GoTo(t, p)
Orders(t) == requests[t] = <<>> /\ \E what : Ask(t, what)

LEMMA QuitsDown ==
  ASSUME Discipline, NEW t \in Tabs, Quits(t) \/ Orders(t), Unasked'
  PROVE  Unasked
<1>1. CASE Quits(t)
  BY <1>1, CalmsDown DEF Quits, GoTo
<1>2. CASE Orders(t)
  <2>1. PICK what : Ask(t, what)
    BY <1>2 DEF Orders
  <2>2. program' = program /\ \A u \in Tabs \ {t} : requests'[u] = requests[u]
    BY <2>1, AskIs
  <2>3. requests'[Recorder] = requests[Recorder] \/ requests[Recorder] = <<>>
    BY <1>2, <2>2, CaptureAssumption DEF Orders
  <2> QED BY <2>2, <2>3 DEF Unasked, At, Rest
<1> QED BY <1>1, <1>2

LEMMA ThrowQuits ==
  ASSUME NEW t, Throw(t) \/ Refuse(t)
  PROVE  Quits(t)
BY DEF Throw, Refuse, Quits, Calm

LEMMA FinishQuits ==
  ASSUME Discipline, NEW t \in Tabs, program[t] # <<>>, ~At(t, OuterSteps), Finish(t)
  PROVE  Quits(t)
BY RestIsCalm DEF Finish, Quits

LEMMA TurnQuits ==
  ASSUME Discipline, NEW t \in Tabs, At(t, PlainSteps \cup TurnedSteps),
         NEW step \in TurnedSteps, GoTo(t, <<Do(step, On(t))>> \o Rest(t))
  PROVE  Quits(t)
<1>1. On(t) \in Streams /\ Rest(t) \in Plain
  BY FirstStep DEF At
<1>2. <<Do(step, On(t))>> \o Rest(t) \in Turned
  BY <1>1 DEF Turned
<1> QED BY <1>2, PlainIsCalm DEF Quits

LEMMA CompletedQuits ==
  ASSUME Discipline, NEW t \in Tabs, Completed(t, On(t)) \/ Failed(t, On(t))
  PROVE  Quits(t)
<1>1. CASE At(t, {"load"}) /\ GoTo(t, <<Do("match", On(t))>> \o Rest(t))
  BY <1>1, TurnQuits DEF At, PlainSteps, TurnedSteps
<1>2. CASE At(t, LockingSteps) /\ Finish(t)
  BY <1>2, FinishQuits DEF At, LockingSteps, OuterSteps
<1>3. CASE At(t, {"mark"}) /\ GoTo(t, <<Do("erase", On(t))>> \o Rest(t))
  BY <1>3, TurnQuits DEF At, PlainSteps, TurnedSteps
<1>4. CASE Throw(t)
  BY <1>4, ThrowQuits
<1>5. CASE GoTo(t, <<Do("recheck", On(t))>>)
  BY <1>5, OneIsCalm DEF Quits
<1> QED BY <1>1, <1>2, <1>3, <1>4, <1>5 DEF Completed, Failed, At, LockingSteps

\* A step that ends or asks the storage for something, and does no more.
LEMMA EndsOrOrders ==
  ASSUME Discipline, NEW t \in Tabs,
         \/ LoadSpool(t) \/ ListSpool(t) \/ MatchSpool(t) \/ RestorePrefix(t) \/ Install(t)
         \/ AppendPacket(t) \/ Acknowledge(t) \/ SealSpool(t) \/ MarkSpool(t)
         \/ EraseSpool(t) \/ DropSpool(t)
  PROVE  Quits(t) \/ Orders(t)
<1>1. program[t] # <<>> /\ ~At(t, OuterSteps)
  BY DEF LoadSpool, ListSpool, MatchSpool, RestorePrefix, Install, AppendPacket, Acknowledge,
         SealSpool, MarkSpool, EraseSpool, DropSpool, Waits, At, OuterSteps
<1>2. Finish(t) => Quits(t)
  BY <1>1, FinishQuits
<1>3. Throw(t) \/ Refuse(t) => Quits(t)
  BY ThrowQuits
<1>4. ASSUME At(t, PlainSteps \cup TurnedSteps)
      PROVE  \A step \in TurnedSteps : GoTo(t, <<Do(step, On(t))>> \o Rest(t)) => Quits(t)
  BY <1>4, TurnQuits
<1>5. requests[t] = <<>> => \A what : Ask(t, what) => Orders(t)
  BY DEF Orders
<1>6. CASE LoadSpool(t)
  <2>1. requests[t] = <<>> /\ At(t, PlainSteps \cup TurnedSteps)
    BY <1>6 DEF LoadSpool, Waits, At, PlainSteps
  <2> QED BY <1>2, <1>3, <1>4, <1>5, <1>6, <2>1 DEF LoadSpool, TurnedSteps
<1>7. CASE ListSpool(t)
  BY <1>2, <1>3, <1>5, <1>7 DEF ListSpool, Waits
<1>8. CASE MatchSpool(t)
  <2>1. requests[t] = <<>> /\ At(t, PlainSteps \cup TurnedSteps)
    BY <1>8 DEF MatchSpool, Waits, At, TurnedSteps
  <2> QED BY <1>2, <1>3, <1>4, <1>5, <1>8, <2>1 DEF MatchSpool, Settle, StepsBack, TurnedSteps
<1>9. CASE RestorePrefix(t) \/ Install(t)
  BY <1>2, <1>5, <1>9 DEF RestorePrefix, Install, Waits
<1>10. CASE AppendPacket(t)
  BY <1>3, <1>5, <1>10 DEF AppendPacket, Waits
<1>11. CASE Acknowledge(t)
  BY <1>5, <1>11, CompletedQuits DEF Acknowledge, Waits
<1>12. CASE SealSpool(t)
  BY <1>2, <1>3, <1>5, <1>12 DEF SealSpool, Waits
<1>13. CASE MarkSpool(t)
  <2>1. requests[t] = <<>> /\ At(t, PlainSteps \cup TurnedSteps)
    BY <1>13 DEF MarkSpool, Waits, At, PlainSteps
  <2> QED BY <1>2, <1>3, <1>4, <1>5, <1>13, <2>1 DEF MarkSpool, TurnedSteps
<1>14. CASE EraseSpool(t)
  <2>1. At(t, PlainSteps \cup TurnedSteps)
    BY <1>14 DEF EraseSpool, At, TurnedSteps
  <2> QED BY <1>3, <1>4, <1>14, <2>1 DEF EraseSpool, TurnedSteps
<1>15. CASE DropSpool(t)
  BY <1>2, <1>3, <1>15 DEF DropSpool
<1> QED BY <1>6, <1>7, <1>8, <1>9, <1>10, <1>11, <1>12, <1>13, <1>14, <1>15

LEMMA ManifestStepQuits ==
  ASSUME Discipline, NEW t \in Tabs, ReplaceManifest(t) \/ Recheck(t) \/ RemoveManifest(t)
  PROVE  Quits(t)
<1>1. ASSUME ReplaceManifest(t)
      PROVE  \/ Throw(t)
             \/ At(t, {"publish", "sealed", "discarded"}) /\ Finish(t)
             \/ GoTo(t, <<Do("recheck", On(t))>>)
  <2>1. PICK outcome \in Outcomes :
          IF outcome = "done" /\ manifest = own[t]
          THEN Finish(t)
          ELSE IF At(t, {"publish"}) THEN GoTo(t, <<Do("recheck", On(t))>>) ELSE Throw(t)
    BY <1>1, Zenon DEF ReplaceManifest
  <2>2. At(t, {"publish", "sealed", "discarded"})
    BY <1>1 DEF ReplaceManifest
  <2> QED BY <2>1, <2>2
<1>2. CASE At(t, {"publish", "sealed", "discarded"}) /\ Finish(t)
  BY <1>2, FinishQuits DEF At, OuterSteps
<1>3. CASE Throw(t)
  BY <1>3, ThrowQuits
<1>4. ASSUME NEW step \in {"recheck", "reacknowledge", "repair"}, GoTo(t, <<Do(step, On(t))>>)
      PROVE  Quits(t)
  BY <1>4, OneIsCalm DEF Quits
<1>5. Recheck(t) =>
        Throw(t) \/ \E step \in {"reacknowledge", "repair"} : GoTo(t, <<Do(step, On(t))>>)
  BY DEF Recheck
<1>6. RemoveManifest(t) => Throw(t)
  BY DEF RemoveManifest
<1> QED BY <1>1, <1>2, <1>3, <1>4, <1>5, <1>6

\* The session lock is taken, and the program goes on under it.
LEMMA EnteringKeepsAsking ==
  ASSUME Discipline, NEW t \in Tabs, Enter(t) \/ Look(t), Unasked'
  PROVE  Unasked
<1>1. CASE Throw(t)
  BY <1>1, ThrowQuits, QuitsDown
<1>2. CASE program' = [program EXCEPT ![t] = Tail(@)] /\ requests' = requests
  <2>1. Recorder \in Tabs /\ program \in [Tabs -> Seq(AnyStep)]
    BY CaptureAssumption DEF Discipline
  <2>2. CASE t # Recorder
    <3>1. program'[Recorder] = program[Recorder]
      BY <1>2, <2>1, <2>2
    <3> QED BY <1>2, <3>1 DEF Unasked, At, Rest
  <2>3. CASE t = Recorder
    <3>1. program'[Recorder] = Rest(Recorder) /\ At(Recorder, OuterSteps)
      BY <1>2, <2>1, <2>3 DEF Enter, Look, At, Rest, OuterSteps
    <3>2. Rest(Recorder) # <<>> /\ Head(Rest(Recorder)).do \notin OuterSteps
      <4>1. Rest(Recorder) \in Inside(Recorder) /\ Rest(Recorder) # <<>>
        BY <2>1, <3>1, FirstStep, StartsInside DEF At
      <4> QED BY <4>1, InsideProgram DEF PlainSteps, TurnedSteps, CaptureSteps, OuterSteps
    <3>3. Head(Rest(Recorder)).do = "append"
      BY <3>1, <3>2 DEF Unasked, At
    <3> QED BY <3>1, <3>2, <3>3 DEF Unasked
  <2> QED BY <2>2, <2>3
<1> QED BY <1>1, <1>2 DEF Enter, Look

\* A tab begins another program, or stops.
LEMMA BeginningIsCalm ==
  ASSUME Discipline, NEW t \in Tabs,
         \/ Leave(t) \/ Adopt(t) \/ Crash(t)
         \/ SealSession(t) \/ DiscardSession(t) \/ FindRecovery(t) \/ ListSpools(t),
         Unasked'
  PROVE  Unasked
<1>1. \A m : /\ Calm(Alone("enter") \o Discarding(m)) /\ Calm(Alone("enter") \o Sealing)
             /\ Calm(<<>>) /\ Calm(EachStream("list"))
  BY OuterIsCalm, DiscardingIsPlain, SealingIsPlain, ListingIsAList, EmptyProgram, PlainIsCalm
     DEF OuterSteps
<1>2. \A step \in PlainSteps : Calm(Alone("look") \o EachStream("load") \o Alone(step))
  BY LookProgram, OuterIsCalm DEF OuterSteps
<1>3. CASE Leave(t)
  <2> DEFINE way == IF manifest.state = "discarded" THEN "retire" ELSE "adopt"
             p == Alone("look") \o EachStream("load") \o Alone(way)
  <2>1. program' = [program EXCEPT ![t] = p] /\ requests' = requests
    BY <1>3 DEF Leave
  <2>2. Calm(p)
    BY <1>2 DEF PlainSteps
  <2> HIDE DEF p
  <2> QED BY <2>1, <2>2, CalmsDown
<1>4. CASE Adopt(t)
  <2> DEFINE p == CASE At(t, {"retire"}) -> Alone("enter") \o Discarding(manifest)
                    [] manifest.state = "capturing" -> Alone("enter") \o Sealing
                    [] OTHER -> <<>>
  <2>1. program' = [program EXCEPT ![t] = p] /\ requests' = requests
    BY <1>4 DEF Adopt
  <2>2. Calm(p)
    BY <1>1
  <2> HIDE DEF p
  <2> QED BY <2>1, <2>2, CalmsDown
<1>5. CASE Crash(t)
  <2>1. program' = [program EXCEPT ![t] = <<>>] /\ requests' = [requests EXCEPT ![t] = <<>>]
    BY <1>5 DEF Crash
  <2> QED BY <1>1, <2>1, CalmsDown
<1>6. ASSUME NEW p, Calm(p), Begin(t, p) PROVE Unasked
  <2>1. program' = [program EXCEPT ![t] = p] /\ requests' = requests
    BY <1>6 DEF Begin
  <2> QED BY <1>6, <2>1, CalmsDown
<1>7. CASE SealSession(t)
  BY <1>1, <1>6, <1>7 DEF SealSession
<1>8. CASE DiscardSession(t)
  BY <1>1, <1>6, <1>8 DEF DiscardSession
<1>9. CASE FindRecovery(t)
  BY <1>2, <1>6, <1>9 DEF FindRecovery, PlainSteps
<1>10. CASE ListSpools(t)
  BY <1>1, <1>6, <1>10 DEF ListSpools
<1> QED BY <1>3, <1>4, <1>5, <1>7, <1>8, <1>9, <1>10

\* After the journal come the chunks and the metadata.
LEMMA JournalsOnce ==
  ASSUME NEW s \in Streams, NEW r, AppendFits(s, r), Len(r) # 1
  PROVE  Tail(r) # <<>> /\ Head(Tail(r)) # Ask0("journal")
<1>1. PICK k \in 1..(Chunks + 1) : Tail(r) = SubSeq(AppendPlan(s), k + 1, Chunks + 2)
  <2>1. CASE Tail(r) = SubSeq(AppendPlan(s), 2, Chunks + 2)
    <3>1. 1 \in 1..(Chunks + 1) /\ 1 + 1 = 2
      BY CaptureAssumption
    <3> QED BY <2>1, <3>1
  <2>2. ASSUME NEW j \in 1..Chunks, Tail(r) = SubSeq(AppendPlan(s), (j + 1) + 1, Chunks + 2)
        PROVE  \E k \in 1..(Chunks + 1) : Tail(r) = SubSeq(AppendPlan(s), k + 1, Chunks + 2)
    <3>1. j + 1 \in 1..(Chunks + 1)
      BY CaptureAssumption
    <3> QED BY <2>2, <3>1
  <2> QED BY <2>1, <2>2, AppendForms
<1>2. /\ Head(Tail(r)) = AppendPlan(s)[k + 1]
      /\ Len(Tail(r)) = (Chunks + 2) - k
  <2>1. k \in 0..(Chunks + 1)
    BY CaptureAssumption
  <2> QED BY <1>1, <2>1, PlanSuffix
<1>3. Tail(r) # <<>>
  <2>1. (Chunks + 2) - k # 0
    BY CaptureAssumption
  <2>2. Len(<<>>) = 0
    BY EmptySeq
  <2> QED BY <1>2, <2>1, <2>2
<1>4. AppendPlan(s)[k + 1] # Ask0("journal")
  <2>1. CASE k \in 1..Chunks
    <3>1. AppendPlan(s)[k + 1] = Request("write", Tailed(s) + k)
      BY <2>1, AppendPlanIs
    <3> QED BY <3>1, RequestsDiffer
  <2>2. CASE k = Chunks + 1
    <3>1. k + 1 = Chunks + 2
      BY <2>2, CaptureAssumption
    <3>2. AppendPlan(s)[k + 1] = Ask0("commit")
      BY <3>1, AppendPlanIs
    <3> QED BY <3>2, RequestsDiffer
  <2> QED BY <2>1, <2>2, CaptureAssumption
<1> QED BY <1>2, <1>3, <1>4

\* Only an append numbers a packet.
LEMMA OnlyAppendTakes ==
  ASSUME SpoolsInv, NEW t \in Tabs, NEW x, NEW s \in Streams, Asks(t, x, s), x # "append",
         Perform(Head(requests[t]), s)
  PROVE  taken' = taken
<1> DEFINE first == Head(requests[t])
<1>1. /\ Fits(t, s, requests[t]) /\ x \in LockingSteps /\ \A steps : At(t, steps) <=> x \in steps
  BY Asking
<1>2. first \in {CutTo(s), Ask0("forget"), Ask0("swept"), Ask0("back"), Ask0("seal"), Ask0("mark")}
  <2>1. CASE x \in {"load", "list"}
    BY <1>1, <2>1, LoadForms DEF Fits
  <2>2. CASE x \in {"rollback", "repair"}
    BY <1>1, <2>2, RestoreForms DEF Fits
  <2>3. CASE x \in {"match", "acknowledge", "reacknowledge"}
    BY <1>1, <2>3 DEF Fits, ForgetFits
  <2>4. CASE x = "seal"
    BY <1>1, <2>4, FinalForms DEF Fits
  <2>5. CASE x = "mark"
    BY <1>1, <2>5, FinalForms DEF Fits
  <2> QED BY <1>1, <2>1, <2>2, <2>3, <2>4, <2>5 DEF LockingSteps
<1>3. first.ask # "journal"
  BY <1>2, RequestsDiffer
<1> QED BY <1>3
  DEF Perform, WriteChunk, Commit, CutTail, ForgetIntent, ForgetCleanup, StepBack, Turn

LEMMA AnswersKeepBudget ==
  ASSUME SpoolsInv, NEW t \in Tabs, AskStorage(t), Unasked'
  PROVE  Unasked /\ taken' = taken
<1>1. /\ Discipline /\ requests[t] # <<>> /\ program[t] # <<>> /\ On(t) \in Streams
      /\ At(t, LockingSteps) /\ ~At(t, OuterSteps)
      /\ \E S : requests \in [Tabs -> Seq(S)]
  BY AskingStep DEF SpoolsInv, Discipline, AskStorage, At, LockingSteps, OuterSteps
<1>2. PICK s \in Streams : On(t) = s
  BY <1>1
<1>3. PICK x : Head(program[t]).do = x
  OBVIOUS
<1>4. Asks(t, x, s)
  BY <1>1, <1>2, <1>3 DEF Asks
<1>5. /\ Fits(t, s, requests[t]) /\ \A steps : At(t, steps) <=> x \in steps
      /\ x = "append" => t = Recorder
  BY <1>4, Asking DEF CaptureSteps
<1>6. Unasked /\ t # Recorder
  <2>1. CASE Completed(t, On(t)) \/ Failed(t, On(t))
    <3>1. PICK p : Calm(p) /\ GoTo(t, p)
      BY <1>1, <2>1, CompletedQuits DEF Quits
    <3> QED BY <1>1, <3>1, CalmsDown DEF GoTo
  <2>2. CASE /\ Len(requests[t]) # 1 /\ requests' = [requests EXCEPT ![t] = Tail(@)]
             /\ program' = program
    <3>1. CASE t = Recorder
      <4>1. /\ At(t, {"append"}) /\ requests'[t] = Tail(requests[t])
            /\ requests'[t] = <<>> \/ Head(requests'[t]) = Ask0("journal")
        BY <1>1, <2>2, <3>1 DEF Unasked, At
      <4>2. AppendFits(s, requests[t])
        BY <1>5, <4>1 DEF Fits
      <4> QED BY <2>2, <4>1, <4>2, JournalsOnce
    <3>2. CASE t # Recorder
      <4>1. requests'[Recorder] = requests[Recorder]
        BY <1>1, <2>2, <3>2, CaptureAssumption
      <4> QED BY <2>2, <3>2, <4>1 DEF Unasked, At, Rest
    <3> QED BY <3>1, <3>2
  <2> QED BY <2>1, <2>2 DEF AskStorage
<1>7. taken' = taken
  <2>1. UNCHANGED <<durable, taken>> \/ Perform(Head(requests[t]), s)
    BY <1>2 DEF AskStorage
  <2> QED BY <1>4, <1>5, <1>6, <2>1, OnlyAppendTakes
<1> QED BY <1>6, <1>7

LEMMA StepKeepsAsking ==
  ASSUME SpoolsInv, [Next]_vars, Unasked'
  PROVE  /\ taken' = taken
         /\ Unasked \/ taken < MaxPackets
<1>1. Discipline
  BY DEF SpoolsInv
<1>2. ASSUME NEW t \in Tabs, Step(t)
      PROVE  taken' = taken /\ Unasked
  <2>1. CASE AskStorage(t)
    BY <2>1, AnswersKeepBudget
  <2>2. CASE Enter(t) \/ Look(t)
    BY <1>1, <2>2, QuietSteps, EnteringKeepsAsking DEF SameData
  <2>3. CASE Leave(t) \/ Adopt(t)
    BY <1>1, <2>3, QuietSteps, BeginningIsCalm DEF SameData
  <2>4. CASE ReplaceManifest(t) \/ Recheck(t) \/ RemoveManifest(t)
    <3>1. taken' = taken
      BY <2>4 DEF ReplaceManifest, Recheck, RemoveManifest
    <3> QED BY <1>1, <2>4, <3>1, ManifestStepQuits, QuitsDown
  <2>5. CASE \/ LoadSpool(t) \/ ListSpool(t) \/ MatchSpool(t) \/ RestorePrefix(t) \/ Install(t)
             \/ AppendPacket(t) \/ Acknowledge(t) \/ SealSpool(t) \/ MarkSpool(t)
             \/ EraseSpool(t) \/ DropSpool(t)
    <3>1. taken' = taken
      BY <2>5, QuietSteps DEF SameData, Acknowledge, EraseSpool
    <3> QED BY <1>1, <2>5, <3>1, EndsOrOrders, QuitsDown
  <2> QED BY <1>2, <2>1, <2>2, <2>3, <2>4, <2>5 DEF Step
<1>3. ASSUME NEW t \in Tabs,
             SealSession(t) \/ DiscardSession(t) \/ FindRecovery(t) \/ ListSpools(t) \/ Crash(t)
      PROVE  taken' = taken /\ Unasked
  BY <1>1, <1>3, QuietSteps, BeginningIsCalm DEF SameData
<1>4. ASSUME NEW t \in Tabs, NEW s \in Streams, CapturePacket(t, s)
      PROVE  taken' = taken /\ taken < MaxPackets
  BY <1>4 DEF CapturePacket, Begin
<1>5. CASE UNCHANGED vars
  BY <1>5 DEF vars, Unasked, At, Rest
<1> QED BY <1>2, <1>3, <1>4, <1>5 DEF Next

LEMMA StepKeepsBudget ==
  ASSUME SpoolsInv, BudgetInv, [Next]_vars
  PROVE  BudgetInv'
<1>1. taken \in Nat /\ MaxPackets \in Nat
  BY CaptureAssumption DEF SpoolsInv, Types
<1>2. taken' = taken \/ (taken < MaxPackets /\ taken' = taken + 1)
  <2>1. OnStorage \/ OnManifest
    BY StepKinds
  <2> QED BY <2>1 DEF OnStorage, OnManifest, SameData, Journals, Writes, WriteChunk, Cuts, CutTail,
                      ForgetIntent, Erases, Publishes, TurnsTo, Removes
<1>3. Unasked' => taken' = taken /\ (Unasked \/ taken < MaxPackets)
  BY StepKeepsAsking
<1> QED BY <1>1, <1>2, <1>3 DEF BudgetInv

LEMMA InitLog == Init => LogInv
<1> SUFFICES ASSUME Init PROVE LogInv
  OBVIOUS
<1>1. SpoolsInv
  BY InitSpools
<1>2. BudgetInv
  <2>1. program[Recorder] = <<>> /\ taken = 0
    BY CaptureAssumption DEF Init
  <2>2. ~Unasked
    BY <2>1 DEF Unasked, At
  <2> QED BY <2>1, <2>2, CaptureAssumption DEF BudgetInv
<1>3. ContentInv
  <2> SUFFICES ASSUME NEW s \in Streams PROVE PrefixInv(s) /\ PendingInv(s)
    BY DEF ContentInv
  <2>1. manifest.count[s] = 0 /\ intent[s] = None
    BY DEF Init, Empty, Manifest
  <2> QED BY <2>1 DEF PrefixInv, PendingInv
<1>4. ToldIsKept
  BY DEF Init, ToldIsKept
<1> QED BY <1>1, <1>2, <1>3, <1>4 DEF LogInv

LEMMA LogGoes == LogInv /\ [Next]_vars => LogInv'
<1> SUFFICES ASSUME LogInv, [Next]_vars PROVE LogInv'
  OBVIOUS
<1>1. SpoolsInv /\ SpoolsInv' /\ Types /\ Types'
  BY NextGoes DEF LogInv, SpoolsInv
<1>2. OnStorage \/ OnManifest
  BY <1>1, StepKinds DEF LogInv
<1>3. told' = told \/ \E s \in Streams : Tells(s)
  BY <1>1, StepKinds DEF LogInv
<1>4. ContentInv'
  BY <1>1, <1>2, StepKeepsContent DEF LogInv
<1>5. ToldIsKept'
  BY <1>1, <1>2, <1>3, StepKeepsTold DEF LogInv
<1>6. BudgetInv'
  BY <1>1, StepKeepsBudget DEF LogInv
<1> QED BY <1>1, <1>4, <1>5, <1>6 DEF LogInv

LEMMA LogInvariant == Spec => []LogInv
BY InitLog, LogGoes, PTL DEF Spec

(***************************************************************************)
(* A packet whose append resolved is in the capture, whole, until the user *)
(* discards the sealed take: no crash, failing request, repair or other    *)
(* tab takes it away or puts another in its place                          *)
(* (framescaper-capture-durable-session.ts, #append).                      *)
(***************************************************************************)
THEOREM WhatIsToldIsKept == Spec => []ToldIsKept
<1>1. LogInv => ToldIsKept
  BY DEF LogInv
<1> QED BY <1>1, LogInvariant, PTL

(***************************************************************************)
(* The capture is a log: what the recovery would find of the packets of    *)
(* every stream, and whether the take still grows, is sealed or gone.      *)
(***************************************************************************)
Phase == IF Kept THEN manifest.state ELSE "discarded"

LEMMA Appended ==
  ASSUME NEW S, NEW n \in Nat, NEW f \in [1..n -> S], NEW g \in [1..(n + 1) -> S], NEW p \in S,
         \A i \in 1..n : g[i] = f[i], g[n + 1] = p
  PROVE  g = Append(f, p)
<1>1. f \in Seq(S) /\ g \in Seq(S) /\ Len(f) = n /\ Len(g) = n + 1
  <2>1. f \in Seq(S) /\ g \in Seq(S)
    BY SeqDef
  <2>2. DOMAIN f = 1..n /\ DOMAIN g = 1..(n + 1)
    OBVIOUS
  <2> QED BY <2>1, <2>2, LenProperties
<1>2. /\ Append(f, p) \in Seq(S) /\ Len(Append(f, p)) = n + 1
      /\ \A i \in 1..n : Append(f, p)[i] = f[i]
      /\ Append(f, p)[n + 1] = p
  BY <1>1, AppendProperties
<1>3. \A i \in 1..Len(g) : g[i] = Append(f, p)[i]
  BY <1>1, <1>2
<1> QED BY <1>1, <1>2, <1>3, SeqEqual

LEMMA LogBegins == Init => Log!Init
<1> SUFFICES ASSUME Init PROVE Log!Init
  OBVIOUS
<1>1. manifest.state = "capturing" /\ \A s \in Streams : manifest.count[s] = 0
  BY DEF Init, Empty, Manifest
<1>2. Kept
  BY <1>1, NoneIsAbsent, InitSpools DEF Kept, Init, Empty, Manifest, Manifests, ManifestStates
<1>3. \A s \in Streams : [i \in 1..manifest.count[s] |-> PacketAt(s, i)] = <<>>
  BY <1>1
<1>4. Acknowledged = [s \in Streams |-> <<>>]
  BY <1>2, <1>3 DEF Acknowledged
<1> QED BY <1>1, <1>2, <1>4 DEF Log!Init

LEMMA StorageIsNoStep ==
  ASSUME Types, Types', ContentInv, OnStorage
  PROVE  Acknowledged' = Acknowledged /\ Phase' = Phase
<1>1. SamePackets
  BY StorageKeepsPackets
<1>2. manifest' = manifest /\ (Kept' <=> Kept)
  BY <1>1 DEF SamePackets, Kept
<1>3. ASSUME Kept, NEW s \in Streams
      PROVE  [i \in 1..manifest.count[s] |-> PacketAt(s, i)']
               = [i \in 1..manifest.count[s] |-> PacketAt(s, i)]
  BY <1>1, <1>3 DEF SamePackets
<1> QED BY <1>2, <1>3 DEF Acknowledged, Phase

LEMMA PublishingKeeps ==
  ASSUME Types, BudgetInv, ContentInv, NEW s \in Streams, Publishes(s)
  PROVE  Acknowledged' # Acknowledged /\ \E p \in Packets : Log!Keep(s, p)
<1>1. PICK n \in Nat, p \in 1..taken : GrowsBy(s, n, p)
  BY PublishGrows
<1>2. /\ Kept /\ Kept' /\ manifest.state = "capturing" /\ manifest'.state = "capturing"
      /\ manifest.count \in [Streams -> Nat]
  BY DEF Publishes, Kept, Types, Manifests
<1>3. p \in Packets
  BY CaptureAssumption DEF Packets, BudgetInv, Types
<1>4. /\ manifest.count[s] = n /\ manifest'.count[s] = n + 1
      /\ \A r \in Streams \ {s} : manifest'.count[r] = manifest.count[r]
      /\ \A r, i : PacketAt(r, i)' = PacketAt(r, i)
      /\ PacketAt(s, n + 1) = p /\ ~Recorded(p)
  BY <1>1, <1>2, SameChunks DEF GrowsBy
<1>5. \A r \in Streams : Acknowledged[r] = [i \in 1..manifest.count[r] |-> PacketAt(r, i)]
  BY <1>2 DEF Acknowledged
<1>6. Acknowledged' = [r \in Streams |-> [i \in 1..manifest'.count[r] |-> PacketAt(r, i)]]
  BY <1>2, <1>4 DEF Acknowledged
<1>7. \A r \in Streams : \A i \in DOMAIN Acknowledged[r] : Acknowledged[r][i] # p
  <2> SUFFICES ASSUME NEW r \in Streams, NEW i \in DOMAIN Acknowledged[r]
               PROVE  Acknowledged[r][i] # p
    OBVIOUS
  <2>1. i \in 1..manifest.count[r] /\ Acknowledged[r][i] = PacketAt(r, i)
    BY <1>5
  <2> QED BY <1>4, <2>1 DEF Recorded
<1>8. [i \in 1..(n + 1) |-> PacketAt(s, i)] = Append(Acknowledged[s], p)
  <2> DEFINE g == [i \in 1..(n + 1) |-> PacketAt(s, i)]
             f == Acknowledged[s]
  <2>1. \A i \in 1..n : PacketAt(s, i) \in 1..taken
    BY <1>2, <1>4, WholePacket DEF ContentInv, PrefixInv
  <2>2. f = [i \in 1..n |-> PacketAt(s, i)]
    BY <1>4, <1>5
  <2>3. f \in [1..n -> 1..taken]
    BY <2>1, <2>2
  <2>4. \A i \in 1..(n + 1) : i = n + 1 \/ i \in 1..n
    OBVIOUS
  <2>5. g \in [1..(n + 1) -> 1..taken]
    BY <1>4, <2>1, <2>4
  <2>6. \A i \in 1..n : g[i] = f[i]
    BY <2>2
  <2>7. g[n + 1] = p
    BY <1>4
  <2> HIDE DEF f, g
  <2>8. g = Append(f, p)
    BY <2>3, <2>5, <2>6, <2>7, Appended
  <2> QED BY <2>8 DEF f, g
<1>9. Acknowledged' = [Acknowledged EXCEPT ![s] = Append(@, p)]
  <2>1. Acknowledged = [r \in Streams |-> Acknowledged[r]]
    BY DEF Acknowledged
  <2>2. \A r \in Streams : [i \in 1..manifest'.count[r] |-> PacketAt(r, i)] =
          IF r = s THEN Append(Acknowledged[s], p) ELSE Acknowledged[r]
    BY <1>4, <1>5, <1>8
  <2> QED BY <1>6, <2>1, <2>2
<1>10. Acknowledged' # Acknowledged
  <2>1. DOMAIN Acknowledged'[s] = 1..(n + 1) /\ DOMAIN Acknowledged[s] = 1..n
    BY <1>4, <1>5, <1>6
  <2>2. n + 1 \in 1..(n + 1) /\ n + 1 \notin 1..n
    OBVIOUS
  <2> QED BY <2>1, <2>2
<1> QED BY <1>2, <1>3, <1>7, <1>9, <1>10 DEF Log!Keep

LEMMA TurnIsSealOrDiscard ==
  ASSUME TurnsTo("sealed") \/ TurnsTo("discarded") \/ Removes
  PROVE  Log!Seal \/ Log!Discard \/ UNCHANGED <<Acknowledged, Phase>>
<1>1. \A s, i : PacketAt(s, i)' = PacketAt(s, i)
  BY SameChunks DEF TurnsTo, Removes
<1>2. CASE TurnsTo("sealed")
  <2>1. Kept /\ Kept' /\ manifest'.count = manifest.count
    BY <1>2 DEF TurnsTo, Kept
  <2>2. Acknowledged' = Acknowledged
    BY <1>1, <2>1 DEF Acknowledged
  <2> QED BY <1>2, <2>1, <2>2 DEF TurnsTo, Log!Seal, Phase
<1>3. CASE TurnsTo("discarded")
  <2>1. ~Kept' /\ Acknowledged' = [s \in Streams |-> <<>>]
    BY <1>3 DEF TurnsTo, Kept, Acknowledged
  <2>2. CASE manifest.state = "sealed"
    BY <1>3, <2>1, <2>2 DEF TurnsTo, Kept, Log!Discard
  <2>3. CASE manifest.state = "discarded"
    BY <1>3, <2>1, <2>3 DEF TurnsTo, Kept, Acknowledged, Phase
  <2> QED BY <1>3, <2>2, <2>3 DEF TurnsTo
<1>4. CASE Removes
  <2>1. ~Kept /\ ~Kept'
    BY <1>4 DEF Removes, Kept
  <2> QED BY <2>1 DEF Acknowledged, Phase
<1> QED BY <1>2, <1>3, <1>4

(***************************************************************************)
(* What recovery would find is a log: a step of any tab, whatever fails or *)
(* stops, keeps it as it is, adds one whole new packet to one stream while *)
(* the take is captured, seals the take, or discards the sealed take       *)
(* (framescaper-capture-durable-session.ts, #append, #seal, #discard).     *)
(***************************************************************************)
THEOREM TheCaptureIsALog == Spec => ImplementsLog
<1>1. Init => Log!Init
  BY LogBegins
<1>2. ASSUME LogInv, LogInv', [Next]_vars
      PROVE  [Log!Next]_<<Acknowledged, IF Kept THEN manifest.state ELSE "discarded">>
  <2>1. Types /\ Types' /\ ContentInv /\ BudgetInv
    BY <1>2 DEF LogInv, SpoolsInv
  <2>2. OnStorage \/ OnManifest
    BY <1>2, StepKinds DEF LogInv
  <2>3. CASE OnStorage
    BY <2>1, <2>3, StorageIsNoStep DEF Phase
  <2>4. ASSUME NEW s \in Streams, Publishes(s) PROVE Log!Next
    BY <2>1, <2>4, PublishingKeeps DEF Log!Next
  <2>5. CASE TurnsTo("sealed") \/ TurnsTo("discarded") \/ Removes
    BY <2>5, TurnIsSealOrDiscard DEF Log!Next, Phase
  <2> QED BY <2>2, <2>3, <2>4, <2>5 DEF OnManifest
<1> QED BY <1>1, <1>2, LogInvariant, PTL DEF Spec, ImplementsLog, Log!LogSpec
=============================================================================
