--------------------------- MODULE ParallelStack ---------------------------
(***************************************************************************)
(* One generation of the realtime effect backend: the audio callback (the  *)
(* collector) writes blocks of input into a ring of shared banks, workers  *)
(* run the tasks of the plan on them, and the callback plays a block a     *)
(* fixed latency later.  Threads share memory only: every step below reads *)
(* or writes one shared word, so that steps of different threads mix as    *)
(* the atomics of the code allow.  The callback never waits.               *)
(***************************************************************************)
EXTENDS Integers, FiniteSets

CONSTANTS
  Workers, Tasks, Owner, Deps,       \* the plan: its workers, tasks, owners and edges
  Quantum, Block, Latency, Banks,    \* the geometry, in frames (Banks is a count)
  EndFrames,                         \* endpoints a finite range may ask for
  Failures,                          \* what may go wrong: "Crash", "Throw", "Dispose",
                                     \* and in the callback "Quantum", "Clock"
  MaxFrame,                          \* bound: frames the callback is called for
  NoTask, NoFrame

ASSUME PlanAssumption ==
  /\ Tasks \subseteq Nat /\ IsFiniteSet(Tasks) /\ NoTask \notin Tasks
  /\ Owner \in [Tasks -> Workers]
  /\ \A t \in Tasks : Deps[t] \subseteq {d \in Tasks : d < t}
ASSUME GeometryAssumption ==
  /\ {Quantum, Block, Latency, Banks} \subseteq Nat \ {0}
  /\ Block % Quantum = 0 /\ Latency % Block = 0
  /\ Latency >= 3 * Block /\ Banks >= (Latency \div Block) + 2

VARIABLES
  status, fault,   \* the header words: status and the first cause of a fault
  bank,            \* bank[b]: state, sequence, unfinished count, completion words
  signalled,       \* signalled[w]: the wake counter of w moved since w last read it
  pc, unseen, best, next,    \* of each worker: step, tasks left to scan, choice;
                             \* of each task: its next sequence
  cpc, armed, expected, end, \* of the collector: step, origin set, frame, endpoint
  faulting,        \* for each thread, the step of faultParallelStackViews it is in
  host,            \* the session on the main thread
  published, played  \* history: blocks handed over, blocks that began to play

workerVars == <<pc, unseen, best, next>>
collectorVars == <<cpc, armed, expected, end>>
historyVars == <<published, played>>
vars == <<status, fault, bank, signalled, workerVars, collectorVars, faulting,
          host, historyVars>>

Threads == Workers \cup {"collector", "host"}
BankOf(seq) == seq % Banks
Assigned(w) == {t \in Tasks : Owner[t] = w}
First(S) == CHOOSE t \in S : \A u \in S : t <= u
Ended(s) == s \in {"Stopped", "Faulted"}

\* The collector's view of the frame it is called with.
BlockOffset == expected % Block
InputSequence == expected \div Block
HasOutput == expected >= Latency
OutputSequence == (expected - Latency) \div Block

Init ==
  /\ status = "Preparing" /\ fault = "None"
  /\ bank = [b \in 0..(Banks - 1) |->
               [state |-> "Free", seq |-> 0, left |-> 0, word |-> [t \in Tasks |-> 0]]]
  /\ signalled = [w \in Workers |-> FALSE]
  /\ pc = [w \in Workers |-> "ready"]
  /\ unseen = [w \in Workers |-> {}]
  /\ best = [w \in Workers |-> NoTask]
  /\ next = [t \in Tasks |-> 0]
  /\ cpc = "idle" /\ armed = FALSE /\ expected = 0 /\ end = NoFrame
  /\ faulting = [h \in Threads |-> "no"]
  /\ host = "preparing"
  /\ published = 0 /\ played = 0

-----------------------------------------------------------------------------
(* Words that several threads write.                                       *)

\* wakeParallelStackWorkers: every counter moves and every sleeper is notified.
\* One step for the loop: each turn touches only that worker's counter.
\* step is what the threads' own step counters become.
Wake(step) ==
  /\ signalled' = [w \in Workers |-> TRUE]
  /\ pc' = [w \in Workers |-> IF step[w] = "asleep" THEN "observe" ELSE step[w]]

\* faultParallelStackViews, begun by thread h: the first cause stays.
FirstCause(code) == IF fault = "None" THEN code ELSE fault

BeginFault(h, code) ==
  /\ fault' = FirstCause(code)
  /\ faulting' = [faulting EXCEPT ![h] = "running"]

\* Its two compare-exchanges of the status, and the wake that ends it.
FaultedAnyway(from) == "Faulted"
FaultedFrom(from) == IF status = from THEN "Faulted" ELSE status

FaultRunning(h) ==
  /\ faulting[h] = "running"
  /\ status' = FaultedFrom("Running")
  /\ faulting' = [faulting EXCEPT ![h] = "preparing"]
  /\ UNCHANGED <<fault, bank, signalled, workerVars, collectorVars, host, historyVars>>

FaultPreparing(h) ==
  /\ faulting[h] = "preparing"
  /\ status' = FaultedFrom("Preparing")
  /\ faulting' = [faulting EXCEPT ![h] = "wake"]
  /\ UNCHANGED <<fault, bank, signalled, workerVars, collectorVars, host, historyVars>>

FaultWake(h) ==
  /\ faulting[h] = "wake"
  /\ faulting' = [faulting EXCEPT ![h] = "no"]
  /\ Wake(pc)
  /\ UNCHANGED <<status, fault, bank, unseen, best, next, collectorVars, host, historyVars>>

\* stopParallelStackViews: its compare-exchange loop succeeds in one step.
StopStatus == status' = IF Ended(status) THEN status ELSE "Stopped"

-----------------------------------------------------------------------------
(* A worker.                                                               *)

Worker(w, from, to) ==
  /\ faulting[w] = "no"
  /\ pc[w] = from
  /\ pc' = [pc EXCEPT ![w] = to]

\* The start message: the loop is entered once the session has started.
EnterLoop(w) ==
  /\ host # "preparing" /\ Worker(w, "ready", "observe")
  /\ UNCHANGED <<status, fault, bank, signalled, unseen, best, next, collectorVars,
                 faulting, host, historyVars>>

\* loop: read the wake counter before anything else.
Observe(w) ==
  /\ Worker(w, "observe", "check")
  /\ signalled' = [signalled EXCEPT ![w] = FALSE]
  /\ UNCHANGED <<status, fault, bank, unseen, best, next, collectorVars, faulting,
                 host, historyVars>>

\* The status test of the loop and of runReady.
CheckStatus(w) ==
  /\ \/ Ended(status) /\ Worker(w, "check", "exited") /\ UNCHANGED unseen
     \/ /\ ~Ended(status) /\ Worker(w, "check", "scan")
        /\ unseen' = [unseen EXCEPT ![w] = Assigned(w)]
  /\ best' = [best EXCEPT ![w] = NoTask]
  /\ UNCHANGED <<status, fault, bank, signalled, next, collectorVars, faulting, host,
                 historyVars>>

\* The scan of runReady looks at the state of the bank of its next task ...
LookAtState(w) ==
  /\ unseen[w] # {}
  /\ LET t == First(unseen[w])
         earlier == best[w] = NoTask \/ next[t] < next[best[w]] IN
     IF earlier /\ bank[BankOf(next[t])].state = "Ready"
     THEN Worker(w, "scan", "look") /\ UNCHANGED unseen
     ELSE Worker(w, "scan", "scan") /\ unseen' = [unseen EXCEPT ![w] = @ \ {t}]
  /\ UNCHANGED <<status, fault, bank, signalled, best, next, collectorVars, faulting,
                 host, historyVars>>

\* ... and then at its sequence and at the completion words of the dependencies.
ReadyBeforeInputs(t, b) == bank[b].seq = next[t]
ReadyFor(t, b) == bank[b].seq = next[t] /\ \A d \in Deps[t] : bank[b].word[d] = 2

LookAtWords(w) ==
  /\ Worker(w, "look", "scan")
  /\ LET t == First(unseen[w]) IN
     /\ best' = IF ReadyFor(t, BankOf(next[t])) THEN [best EXCEPT ![w] = t] ELSE best
     /\ unseen' = [unseen EXCEPT ![w] = @ \ {t}]
  /\ UNCHANGED <<status, fault, bank, signalled, next, collectorVars, faulting, host,
                 historyVars>>

\* The scan is over: nothing to run, or one more test of the status.
EndScan(w) ==
  /\ unseen[w] = {}
  /\ \/ best[w] # NoTask /\ status = "Running" /\ Worker(w, "scan", "begin")
     \/ (best[w] = NoTask \/ status # "Running") /\ Worker(w, "scan", "wait")
  /\ UNCHANGED <<status, fault, bank, signalled, unseen, best, next, collectorVars,
                 faulting, host, historyVars>>

\* The compare-exchange of the completion word; a task found begun is a fault.
BeginTask(w) ==
  /\ pc[w] = "begin"
  /\ LET t == best[w]  b == BankOf(next[t]) IN
     \/ /\ bank[b].word[t] = 0 /\ Worker(w, "begin", "execute")
        /\ bank' = [bank EXCEPT ![b].word[t] = 1]
        /\ UNCHANGED <<fault, faulting>>
     \/ /\ bank[b].word[t] # 0 /\ Worker(w, "begin", "wait")
        /\ BeginFault(w, "Worker") /\ UNCHANGED bank
  /\ UNCHANGED <<status, signalled, unseen, best, next, collectorVars, host, historyVars>>

\* execute, which writes the planes of the task, ends in the completion word 2;
\* or it throws.
FinishTask(w) ==
  /\ Worker(w, "execute", "count")
  /\ LET t == best[w] IN
     /\ bank' = [bank EXCEPT ![BankOf(next[t])].word[t] = 2]
     /\ next' = [next EXCEPT ![t] = @ + 1]
  /\ UNCHANGED <<status, fault, signalled, unseen, best, collectorVars, faulting, host,
                 historyVars>>

TaskThrows(w) ==
  /\ "Throw" \in Failures
  /\ Worker(w, "execute", "wait")
  /\ BeginFault(w, "Worker")
  /\ UNCHANGED <<status, bank, signalled, unseen, best, next, collectorVars, host,
                 historyVars>>

\* Atomics.sub of the unfinished count: the thread that takes it to 0 publishes.
LastOne(b) == bank[b].left = 1

CountTask(w) ==
  /\ pc[w] = "count"
  /\ LET b == BankOf(next[best[w]] - 1) IN
     /\ bank' = [bank EXCEPT ![b].left = @ - 1]
     /\ Worker(w, "count", IF LastOne(b) THEN "publish" ELSE "wake")
  /\ UNCHANGED <<status, fault, signalled, unseen, best, next, collectorVars, faulting,
                 host, historyVars>>

PublishOutput(w) ==
  /\ Worker(w, "publish", "wake")
  /\ bank' = [bank EXCEPT ![BankOf(next[best[w]] - 1)].state = "Complete"]
  /\ UNCHANGED <<status, fault, signalled, unseen, best, next, collectorVars, faulting,
                 host, historyVars>>

\* The task is over; runReady goes on with its status test.
WakeOthers(w) ==
  /\ faulting[w] = "no" /\ pc[w] = "wake"
  /\ Wake([pc EXCEPT ![w] = "again"])
  /\ UNCHANGED <<status, fault, bank, unseen, best, next, collectorVars, faulting, host,
                 historyVars>>

RunAgain(w) ==
  /\ \/ /\ status = "Running" /\ Worker(w, "again", "scan")
        /\ unseen' = [unseen EXCEPT ![w] = Assigned(w)]
     \/ status # "Running" /\ Worker(w, "again", "observe") /\ UNCHANGED unseen
  /\ best' = [best EXCEPT ![w] = NoTask]
  /\ UNCHANGED <<status, fault, bank, signalled, next, collectorVars, faulting, host,
                 historyVars>>

\* Atomics.wait returns at once when the counter moved.  A runReady that ran a
\* task skips the wait, which is the same: its own wake has moved the counter.
WaitsBlindly(w) == "asleep"
WaitsUnlessSignalled(w) == IF signalled[w] THEN "observe" ELSE "asleep"

WaitForWork(w) ==
  /\ Worker(w, "wait", WaitsUnlessSignalled(w))
  /\ UNCHANGED <<status, fault, bank, signalled, unseen, best, next, collectorVars,
                 faulting, host, historyVars>>

\* The browser may kill a worker, and the session terminates those it leaves.
Crash(w) ==
  /\ "Crash" \in Failures
  /\ pc[w] \notin {"exited", "dead"}
  /\ pc' = [pc EXCEPT ![w] = "dead"]
  /\ faulting' = [faulting EXCEPT ![w] = "no"]
  /\ UNCHANGED <<status, fault, bank, signalled, unseen, best, next, collectorVars,
                 host, historyVars>>

-----------------------------------------------------------------------------
(* The collector.  One call of process runs from "idle" to "idle"; the      *)
(* words it alone writes while a bank is Capturing or Reading are written   *)
(* together.                                                               *)

\* fail and finish: the callback has ended; the outputs ramp to silence.
CollectorFails(code) ==
  /\ cpc' = "ended"
  /\ BeginFault("collector", code)

\* The head of process: a callback after the end, before the origin, with a
\* wrong quantum or at a wrong time never touches a bank.  (None begins past the
\* endpoint: FinishRange and SetEndFrame end the range before it.)
BeginCallback ==
  /\ faulting["collector"] = "no" /\ cpc = "idle" /\ expected < MaxFrame
  /\ \/ status = "Stopped" /\ cpc' = "ended" /\ UNCHANGED <<fault, faulting>>
     \/ status = "Faulted" /\ CollectorFails(fault)
     \/ \E code \in {"Quantum", "Clock"} \cap Failures :
          ~Ended(status) /\ (code = "Clock" => armed) /\ CollectorFails(code)
     \/ /\ ~Ended(status) /\ armed
        /\ cpc' = (IF BlockOffset = 0 THEN "claim" ELSE "output")
        /\ UNCHANGED <<fault, faulting>>
  /\ UNCHANGED <<status, bank, signalled, workerVars, armed, expected, end, host,
                 historyVars>>

\* claimParallelStackBank: the compare-exchange, then plain writes of the rest.
ClaimBank ==
  /\ cpc = "claim"
  /\ LET b == BankOf(InputSequence) IN
     \/ /\ bank[b].state = "Free" /\ cpc' = "label"
        /\ bank' = [bank EXCEPT ![b].state = "Capturing"]
        /\ UNCHANGED <<fault, faulting>>
     \/ bank[b].state # "Free" /\ CollectorFails("Capacity") /\ UNCHANGED bank
  /\ UNCHANGED <<status, signalled, workerVars, armed, expected, end, host, historyVars>>

LabelledUncounted(b) ==
  [bank[b] EXCEPT !.seq = InputSequence, !.word = [t \in Tasks |-> 0]]
Labelled(b) ==
  [bank[b] EXCEPT !.seq = InputSequence, !.left = Cardinality(Tasks),
                  !.word = [t \in Tasks |-> 0]]

LabelBank ==
  /\ cpc = "label" /\ cpc' = "output"
  /\ LET b == BankOf(InputSequence) IN bank' = [bank EXCEPT ![b] = Labelled(b)]
  /\ UNCHANGED <<status, fault, signalled, workerVars, armed, expected, end, faulting,
                 host, historyVars>>

\* The bank that is due must be complete before any of it is copied, and is
\* free again with its last quantum.
DueState == IF BlockOffset = 0 THEN "Complete" ELSE "Reading"
IsDueInAnyState(b) == bank[b].seq = OutputSequence
IsDue(b) == bank[b].state = DueState /\ bank[b].seq = OutputSequence

PlayOutput ==
  /\ cpc = "output"
  /\ LET b == BankOf(OutputSequence) IN
     \/ ~HasOutput /\ cpc' = "input" /\ UNCHANGED <<bank, fault, faulting, played>>
     \/ /\ HasOutput /\ IsDue(b) /\ cpc' = "input"
        /\ bank' = [bank EXCEPT ![b].state =
                      IF BlockOffset + Quantum = Block THEN "Free" ELSE "Reading"]
        /\ played' = IF BlockOffset = 0 THEN played + 1 ELSE played
        /\ UNCHANGED <<fault, faulting>>
     \/ /\ HasOutput /\ ~IsDue(b)
        /\ CollectorFails("Deadline") /\ UNCHANGED <<bank, played>>
  /\ UNCHANGED <<status, signalled, workerVars, armed, expected, end, host, published>>

\* The end of process: past the endpoint it finishes, else it writes its quantum
\* of input and publishes the bank with the last one.
ReachesEnd == IF end = NoFrame THEN FALSE ELSE expected + Quantum >= end

FinishRange ==
  /\ cpc = "input" /\ ReachesEnd
  /\ StopStatus /\ cpc' = "wakeLast"
  /\ UNCHANGED <<fault, bank, signalled, workerVars, armed, expected, end, faulting,
                 host, historyVars>>

WriteInput ==
  /\ cpc = "input" /\ ~ReachesEnd
  /\ expected' = expected + Quantum
  /\ \/ BlockOffset + Quantum # Block /\ cpc' = "idle" /\ UNCHANGED <<bank, published>>
     \/ /\ BlockOffset + Quantum = Block /\ cpc' = "wake"
        /\ bank' = [bank EXCEPT ![BankOf(InputSequence)].state = "Ready"]
        /\ published' = published + 1
  /\ UNCHANGED <<status, fault, signalled, workerVars, armed, end, faulting, host, played>>

WakeWorkers ==
  /\ cpc \in {"wake", "wakeLast"}
  /\ cpc' = IF cpc = "wake" THEN "idle" ELSE "ended"
  /\ Wake(pc)
  /\ UNCHANGED <<status, fault, bank, unseen, best, next, armed, expected, end, faulting,
                 host, historyVars>>

\* setEndFrame, a message between two callbacks: an endpoint already rendered is a
\* fault, the present one ends the range at once.
SetEndFrame(e) ==
  /\ faulting["collector"] = "no" /\ cpc = "idle" /\ armed /\ end = NoFrame
  /\ host = "armed" /\ end' = e
  /\ \/ e > expected /\ UNCHANGED <<status, cpc, fault, faulting>>
     \/ e = expected /\ StopStatus /\ cpc' = "wakeLast" /\ UNCHANGED <<fault, faulting>>
     \/ e < expected /\ CollectorFails("Clock") /\ UNCHANGED status
  /\ UNCHANGED <<bank, signalled, workerVars, armed, expected, host, historyVars>>

-----------------------------------------------------------------------------
(* The session on the main thread: start, arm, fail, dispose.              *)

StartSession ==
  /\ host = "preparing" /\ host' = "started"
  /\ status = "Preparing" /\ status' = "Running"
  /\ Wake(pc)
  /\ UNCHANGED <<fault, bank, unseen, best, next, collectorVars, faulting, historyVars>>

\* The collector takes its origin once every worker has entered its loop.
ArmCollector ==
  /\ host = "started" /\ host' = "armed"
  /\ \A w \in Workers : pc[w] # "ready"
  /\ cpc \in {"idle", "ended"} /\ armed' = TRUE
  /\ UNCHANGED <<status, fault, bank, signalled, workerVars, cpc, expected, end, faulting,
                 historyVars>>

\* What a worker that died, or a reported fault, makes the session do.
FailSession ==
  /\ host \in {"started", "armed"} /\ host' = "failed"
  /\ \/ \E w \in Workers : pc[w] = "dead"
     \/ cpc = "ended" /\ fault # "None"
  /\ BeginFault("host", "Worker")
  /\ UNCHANGED <<status, bank, signalled, workerVars, collectorVars, historyVars>>

\* dispose, by the user at any time, by an abort of the preparation, or as the
\* transport's answer to a failure.
DisposeSession ==
  /\ "Dispose" \in Failures \/ host = "failed"
  /\ host # "disposed" /\ host # "disposing" /\ faulting["host"] = "no"
  /\ host' = "disposing" /\ StopStatus
  /\ UNCHANGED <<fault, bank, signalled, workerVars, collectorVars, faulting, historyVars>>

WakeForDisposal ==
  /\ host = "disposing" /\ host' = "disposed"
  /\ Wake(pc)
  /\ UNCHANGED <<status, fault, bank, unseen, best, next, collectorVars, faulting,
                 historyVars>>

-----------------------------------------------------------------------------
FaultStep(h) == FaultRunning(h) \/ FaultPreparing(h) \/ FaultWake(h)

WorkerStep(w) ==
  \/ EnterLoop(w) \/ Observe(w) \/ CheckStatus(w) \/ LookAtState(w) \/ LookAtWords(w)
  \/ EndScan(w) \/ BeginTask(w) \/ FinishTask(w) \/ CountTask(w) \/ PublishOutput(w)
  \/ WakeOthers(w) \/ RunAgain(w) \/ WaitForWork(w)

CollectorStep ==
  \/ ClaimBank \/ LabelBank \/ PlayOutput \/ FinishRange \/ WriteInput \/ WakeWorkers

Next ==
  \/ \E h \in Threads : FaultStep(h)
  \/ \E w \in Workers : WorkerStep(w) \/ TaskThrows(w) \/ Crash(w)
  \/ BeginCallback \/ CollectorStep \/ \E e \in EndFrames : SetEndFrame(e)
  \/ StartSession \/ ArmCollector \/ FailSession \/ DisposeSession \/ WakeForDisposal

Spec == Init /\ [][Next]_vars

\* The browser runs every thread that can run, and the main thread its messages.
\* Nothing makes the audio callback, the user or an endpoint come.
FairSpec ==
  /\ Spec
  /\ \A w \in Workers : WF_vars(WorkerStep(w) \/ FaultStep(w))
  /\ WF_vars(CollectorStep \/ FaultStep("collector"))
  /\ WF_vars(FailSession \/ WakeForDisposal \/ FaultStep("host"))

-----------------------------------------------------------------------------
TypeOK ==
  /\ status \in {"Preparing", "Running", "Stopped", "Faulted"}
  /\ fault \in {"None", "Deadline", "Capacity", "Quantum", "Clock", "Worker"}
  /\ \A b \in 0..(Banks - 1) :
       /\ bank[b].state \in {"Free", "Capturing", "Ready", "Complete", "Reading"}
       /\ bank[b].left \in 0..Cardinality(Tasks)
       /\ bank[b].seq \in Nat /\ bank[b].word \in [Tasks -> 0..2]
  /\ signalled \in [Workers -> BOOLEAN]
  /\ next \in [Tasks -> Nat] /\ best \in [Workers -> Tasks \cup {NoTask}]
  /\ unseen \in [Workers -> SUBSET Tasks]
  /\ faulting \in [Threads -> {"no", "running", "preparing", "wake"}]
  /\ expected \in Nat /\ end \in EndFrames \cup {NoFrame} /\ armed \in BOOLEAN
  /\ {published, played} \subseteq Nat

\* A worker writes the planes of a task only in the bank published for that very
\* block, behind the tasks it reads, and never while the callback captures into
\* that bank or plays it: "Writers never alter a published plane".
OwnPlanesOnly ==
  \A w \in Workers : pc[w] = "execute" =>
    LET t == best[w]  b == BankOf(next[t]) IN
    /\ bank[b].state = "Ready" /\ bank[b].seq = next[t]
    /\ bank[b].word[t] = 1 /\ \A d \in Deps[t] : bank[b].word[d] = 2
    /\ \A v \in Workers \ {w} : pc[v] = "execute" => best[v] # t

\* A generation that has ended never runs again, and keeps its first cause.
EndsForGood ==
  [][ /\ Ended(status) => status' = status
      /\ fault # "None" => fault' = fault ]_vars

\* While every worker lives and nothing ends the generation, a published bank gets
\* completed: no worker sleeps through work, whatever a scan missed.
PublishedGetsDone ==
  \A b \in 0..(Banks - 1) :
    bank[b].state = "Ready" ~>
      \/ bank[b].state = "Complete" \/ status # "Running" \/ fault # "None"
      \/ \E w \in Workers : pc[w] = "dead"

\* When the generation has ended every worker leaves its loop.
WorkersLeave ==
  Ended(status) ~> \A w \in Workers : pc[w] \in {"ready", "exited", "dead"}

\* The pipeline that this module implements.
Pipeline == INSTANCE StackPipeline WITH finished <- next
ImplementsPipeline == Pipeline!PipeSpec

\* "Collector atomically faults the generation": what it ends by a fault has ended
\* (docs/architecture/realtime-effect-workers.md).
FaultEndsGeneration ==
  cpc = "ended" /\ fault # "None" /\ faulting["collector"] = "no" => Ended(status)
=============================================================================
