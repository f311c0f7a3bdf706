------------------------ MODULE ParallelStackProofs ------------------------
(***************************************************************************)
(* Theorems about ParallelStack, for any plan, any number of workers, any   *)
(* geometry of the ring that the code accepts, and any of the failures.     *)
(***************************************************************************)
EXTENDS ParallelStack, FiniteSetTheorems, WellFoundedInduction, TLAPS

(* Frames, blocks and banks.                                               *)

Depth == Latency \div Block

LEMMA Geometry ==
  /\ Quantum \in Nat \ {0} /\ Block \in Nat \ {0} /\ Latency \in Nat \ {0} /\ Banks \in Nat \ {0}
  /\ Depth \in Nat /\ Depth >= 3 /\ Depth <= Banks - 2 /\ Latency = Block * Depth
<1>1. /\ Quantum \in Nat \ {0} /\ Block \in Nat \ {0} /\ Latency \in Nat \ {0} /\ Banks \in Nat \ {0}
      /\ Latency % Block = 0 /\ Latency >= 3 * Block /\ Banks >= Depth + 2
  BY GeometryAssumption DEF Depth
<1>2. Depth \in Nat /\ Latency = Block * Depth
  BY <1>1 DEF Depth
<1>3. Depth >= 3
  BY <1>1, <1>2
<1>4. QED
  BY <1>1, <1>2, <1>3

LEMMA Division ==
  ASSUME NEW q \in Nat, NEW r \in Nat, NEW m \in Nat \ {0}, r < m
  PROVE  (m * q + r) \div m = q /\ (m * q + r) % m = r
OBVIOUS

\* Blocks that are fewer than Banks apart are in different banks.
LEMMA BanksDiffer ==
  ASSUME NEW r \in Nat, NEW s \in Nat, r <= s, s < r + Banks, BankOf(r) = BankOf(s)
  PROVE  r = s
<1>1. Banks \in Nat \ {0}
  BY Geometry
<1>2. r = Banks * (r \div Banks) + BankOf(r) /\ s = Banks * (s \div Banks) + BankOf(s)
      /\ r \div Banks \in Nat /\ s \div Banks \in Nat
  BY <1>1 DEF BankOf
<1>3. ~ (r \div Banks < s \div Banks)
  <2>1. SUFFICES ASSUME r \div Banks < s \div Banks PROVE FALSE
    OBVIOUS
  <2>2. Banks * (r \div Banks) + Banks <= Banks * (s \div Banks)
    BY <1>1, <1>2, <2>1
  <2>3. BankOf(r) \in Int
    BY <1>1 DEF BankOf
  <2>4. QED
    BY <1>1, <1>2, <2>2, <2>3
<1>4. ~ (s \div Banks < r \div Banks)
  <2>1. SUFFICES ASSUME s \div Banks < r \div Banks PROVE FALSE
    OBVIOUS
  <2>2. Banks * (s \div Banks) + Banks <= Banks * (r \div Banks)
    BY <1>1, <1>2, <2>1
  <2>3. BankOf(r) \in Int
    BY <1>1 DEF BankOf
  <2>4. QED
    BY <1>1, <1>2, <2>2, <2>3
<1>5. QED
  BY <1>2, <1>3, <1>4

LEMMA BankType == \A s \in Nat : BankOf(s) \in 0..(Banks - 1)
BY Geometry DEF BankOf

\* The quantum after frame e, which starts a quantum.
LEMMA Quanta ==
  ASSUME NEW e \in Nat, e % Quantum = 0
  PROVE  /\ (e % Block) + Quantum <= Block
         /\ (e + Quantum) % Quantum = 0
         /\ (e % Block) + Quantum < Block =>
              (e + Quantum) \div Block = e \div Block /\ (e + Quantum) % Block = (e % Block) + Quantum
         /\ (e % Block) + Quantum = Block =>
              (e + Quantum) \div Block = (e \div Block) + 1 /\ (e + Quantum) % Block = 0
<1> DEFINE i == e \div Block
           o == e % Block
           n == e \div Quantum
           k == Block \div Quantum
<1>1. Quantum \in Nat \ {0} /\ Block \in Nat \ {0} /\ Block % Quantum = 0
  BY GeometryAssumption
<1>2. /\ i \in Nat /\ o \in Nat /\ o < Block /\ e = Block * i + o
      /\ n \in Nat /\ e = Quantum * n /\ k \in Nat /\ Block = Quantum * k
  BY <1>1
<1> HIDE DEF i, o, n, k
<1>3. o = Quantum * (n - k * i)
  <2> DEFINE j == k * i
  <2>0. j \in Nat
    BY <1>2
  <2>1. Block * i = Quantum * j
    BY <1>1, <1>2
  <2> HIDE DEF j
  <2>2. o = Quantum * n - Quantum * j
    BY <1>1, <1>2, <2>0, <2>1
  <2>3. Quantum * (n - j) = Quantum * n - Quantum * j
    BY <1>1, <1>2, <2>0
  <2>4. QED
    BY <2>2, <2>3 DEF j
<1>4. n - k * i \in Int /\ n - k * i < k
  <2>1. n - k * i \in Int
    BY <1>2
  <2>2. ~ (n - k * i >= k)
    BY <1>1, <1>2, <1>3, <2>1
  <2>3. QED
    BY <1>2, <2>1, <2>2
<1>5. o + Quantum <= Block
  <2>1. Quantum * (n - k * i) + Quantum <= Quantum * k
    BY <1>1, <1>2, <1>4
  <2>2. QED
    BY <1>2, <1>3, <2>1
<1>6. (e + Quantum) % Quantum = 0
  <2>1. e + Quantum = Quantum * (n + 1) + 0
    BY <1>1, <1>2
  <2>2. QED
    BY <1>1, <1>2, <2>1, Division
<1>7. ASSUME o + Quantum < Block
      PROVE  (e + Quantum) \div Block = i /\ (e + Quantum) % Block = o + Quantum
  <2>1. e + Quantum = Block * i + (o + Quantum)
    BY <1>1, <1>2
  <2>2. QED
    BY <1>1, <1>2, <1>7, <2>1, Division
<1>8. ASSUME o + Quantum = Block
      PROVE  (e + Quantum) \div Block = i + 1 /\ (e + Quantum) % Block = 0
  <2>1. e + Quantum = Block * (i + 1) + 0
    BY <1>1, <1>2, <1>8
  <2>2. i + 1 \in Nat /\ 0 \in Nat /\ 0 < Block
    BY <1>1, <1>2
  <2>3. (Block * (i + 1) + 0) \div Block = i + 1 /\ (Block * (i + 1) + 0) % Block = 0
    BY <1>1, <2>2, Division
  <2>4. QED
    BY <2>1, <2>3
<1>9. QED
  BY <1>5, <1>6, <1>7, <1>8 DEF i, o

\* What is played at frame e is Depth blocks older than what is captured there.
LEMMA Latencies ==
  ASSUME NEW e \in Nat
  PROVE  /\ e \div Block \in Nat /\ e % Block \in Nat
         /\ e >= Latency <=> e \div Block >= Depth
         /\ e >= Latency => (e - Latency) \div Block = e \div Block - Depth
<1> DEFINE i == e \div Block
           o == e % Block
<1>1. Block \in Nat \ {0} /\ Depth \in Nat /\ Latency = Block * Depth
  BY Geometry
<1>2. i \in Nat /\ o \in Nat /\ o < Block /\ e = Block * i + o
  BY <1>1
<1> HIDE DEF i, o
<1>3. i < Depth => e < Latency
  <2>1. i < Depth => Block * i + Block <= Block * Depth
    BY <1>1, <1>2
  <2>2. QED
    BY <1>1, <1>2, <2>1
<1>4. i >= Depth => e >= Latency
  <2>1. i >= Depth => Block * i >= Block * Depth
    BY <1>1, <1>2
  <2>2. QED
    BY <1>1, <1>2, <2>1
<1>5. ASSUME e >= Latency PROVE (e - Latency) \div Block = i - Depth
  <2>1. i - Depth \in Nat
    BY <1>1, <1>2, <1>3, <1>5
  <2>2. e - Latency = Block * (i - Depth) + o
    BY <1>1, <1>2
  <2>3. QED
    BY <1>1, <1>2, <2>1, <2>2, Division
<1>6. QED
  BY <1>1, <1>2, <1>3, <1>4, <1>5 DEF i, o

\* The first of some tasks is one of them.
LEMMA FirstIsOne ==
  ASSUME NEW S \in SUBSET Tasks, S # {}
  PROVE  First(S) \in S
<1> DEFINE R == OpToRel(<, Nat)
<1>0. S \subseteq Nat
  BY PlanAssumption
<1>1. IsWellFoundedOn(R, Nat)
  BY NatLessThanWellFounded
<1>2. \A x, y \in Nat : x < y => <<x, y>> \in R
  BY DEF OpToRel
<1> HIDE DEF R
<1>3. PICK t \in S : \A u \in S : ~ (<<u, t>> \in R)
  BY <1>0, <1>1, WFMin
<1>4. ASSUME NEW u \in S PROVE t <= u
  <2>1. t \in Nat /\ u \in Nat
    BY <1>0
  <2>2. ~ (<<u, t>> \in R)
    BY <1>3
  <2>3. ~ (u < t)
    BY <1>2, <2>1, <2>2, Zenon
  <2>4. QED
    BY <2>1, <2>3
<1>5. QED
  BY <1>4 DEF First

-----------------------------------------------------------------------------
(* The strengthened invariant.  The blocks handed over and not yet played    *)
(* are live; each has a bank of its own, whose words say which tasks have    *)
(* finished it, and whose count is at least the number of tasks that will    *)
(* still take it down: those before the block, and those between the word    *)
(* of the block and its count.  (A worker that dies there leaves the count   *)
(* too high.)                                                                *)

BankWords == [state : {"Free", "Capturing", "Ready", "Complete", "Reading"}, seq : Nat,
              left : 0..Cardinality(Tasks), word : [Tasks -> 0..2]]
WorkerSteps == {"ready", "observe", "check", "scan", "look", "begin", "execute", "count",
                "publish", "wake", "again", "wait", "asleep", "exited", "dead"}

TypeInv ==
  TypeOK /\ bank \in [0..(Banks - 1) -> BankWords] /\ pc \in [Workers -> WorkerSteps]

LiveBlocks == played..(published - 1)

Owing(s) ==
  {t \in Tasks : \/ next[t] <= s
                 \/ next[t] = s + 1 /\ \E w \in Workers : pc[w] = "count" /\ best[w] = t}

Holds(k, s) ==
  /\ k.seq = s /\ k.state \in {"Ready", "Complete"}
  /\ \A t \in Tasks : /\ k.word[t] = 2 <=> next[t] > s
                      /\ next[t] < s => k.word[t] = 0
  /\ Cardinality(Owing(s)) <= k.left
  /\ k.state = "Complete" => k.left = 0

RingInv ==
  /\ played <= published /\ published <= played + Depth
  /\ \A s \in LiveBlocks : Holds(bank[BankOf(s)], s)
  /\ \A b \in 0..(Banks - 1) : bank[b].state \in {"Ready", "Complete"} =>
       bank[b].seq \in LiveBlocks /\ b = BankOf(bank[b].seq)
  /\ \A t \in Tasks : played <= next[t] /\ next[t] <= published

\* Task t has all it needs for its next block.
Given(t) == next[t] < published /\ \A d \in Deps[t] : next[t] < next[d]

WorkerInv(w) ==
  /\ unseen[w] \subseteq Assigned(w)
  /\ best[w] # NoTask => best[w] \in Assigned(w)
  /\ pc[w] \in {"begin", "execute", "count", "publish"} => best[w] # NoTask
  /\ pc[w] \in {"scan", "look", "begin", "execute"} /\ best[w] # NoTask => Given(best[w])
  /\ pc[w] = "look" => unseen[w] # {} /\ next[First(unseen[w])] < published
  /\ pc[w] = "execute" => bank[BankOf(next[best[w]])].word[best[w]] = 1
  /\ pc[w] \in {"count", "publish"} => next[best[w]] - 1 \in LiveBlocks
  /\ pc[w] = "publish" => /\ bank[BankOf(next[best[w]] - 1)].state = "Ready"
                          /\ bank[BankOf(next[best[w]] - 1)].left = 0

\* One worker publishes a block.
PublishersDiffer ==
  \A v, w \in Workers :
    v # w /\ pc[v] = "publish" /\ pc[w] = "publish" => next[best[v]] # next[best[w]]

\* What has begun to play when the callback is about to play the quantum of this
\* frame, or has just done so.
Begun ==
  IF ~HasOutput THEN 0
  ELSE IF BlockOffset = 0 /\ cpc # "input" THEN OutputSequence ELSE OutputSequence + 1

Capturing == cpc \in {"output", "input"} \/ (cpc = "idle" /\ BlockOffset # 0)

CollectorInv ==
  /\ expected % Quantum = 0 /\ published = InputSequence
  /\ cpc \notin {"wakeLast", "ended"} => played = Begun
  /\ cpc \in {"claim", "label", "wake"} => BlockOffset = 0
  /\ Capturing =>
       LET k == bank[BankOf(published)] IN
       k.seq = published /\ k.left = Cardinality(Tasks) /\ \A t \in Tasks : k.word[t] = 0

StackInv ==
  TypeInv /\ RingInv /\ (\A w \in Workers : WorkerInv(w)) /\ PublishersDiffer /\ CollectorInv

-----------------------------------------------------------------------------
(* Types.                                                                  *)

LEMMA TasksAreFinite == IsFiniteSet(Tasks) /\ Cardinality(Tasks) \in Nat
BY PlanAssumption, FS_CardinalityType

\* A bank whose state, count or word changes.
LEMMA BankChanges ==
  ASSUME bank \in [0..(Banks - 1) -> BankWords], NEW b \in 0..(Banks - 1)
  PROVE  /\ \A x \in {"Free", "Capturing", "Ready", "Complete", "Reading"} :
              [bank EXCEPT ![b].state = x] \in [0..(Banks - 1) -> BankWords]
         /\ \A n \in 0..Cardinality(Tasks) :
              [bank EXCEPT ![b].left = n] \in [0..(Banks - 1) -> BankWords]
         /\ \A t \in Tasks, x \in 0..2 :
              [bank EXCEPT ![b].word[t] = x] \in [0..(Banks - 1) -> BankWords]
<1>1. bank[b] \in BankWords
  OBVIOUS
<1>2. ASSUME NEW x \in {"Free", "Capturing", "Ready", "Complete", "Reading"}
      PROVE  [bank EXCEPT ![b].state = x] \in [0..(Banks - 1) -> BankWords]
  BY <1>1 DEF BankWords
<1>3. ASSUME NEW n \in 0..Cardinality(Tasks)
      PROVE  [bank EXCEPT ![b].left = n] \in [0..(Banks - 1) -> BankWords]
  BY <1>1 DEF BankWords
<1>4. ASSUME NEW t \in Tasks, NEW x \in 0..2
      PROVE  [bank EXCEPT ![b].word[t] = x] \in [0..(Banks - 1) -> BankWords]
  BY <1>1 DEF BankWords
<1>5. QED
  BY <1>2, <1>3, <1>4

\* What such a change leaves alone.
WithState(b, x) == [bank EXCEPT ![b].state = x]
WithLeft(b, n) == [bank EXCEPT ![b].left = n]
WithWord(b, t, x) == [bank EXCEPT ![b].word[t] = x]

LEMMA StateReads ==
  ASSUME bank \in [0..(Banks - 1) -> BankWords], NEW b \in 0..(Banks - 1), NEW x,
         NEW k, k = WithState(b, x)
  PROVE  /\ k[b].seq = bank[b].seq /\ \A c \in 0..(Banks - 1) : c # b => k[c] = bank[c]
         /\ k[b].state = x /\ k[b].left = bank[b].left /\ k[b].word = bank[b].word
<1>1. bank[b] \in BankWords
  OBVIOUS
<1>2. QED
  BY <1>1 DEF BankWords, WithState

LEMMA LeftReads ==
  ASSUME bank \in [0..(Banks - 1) -> BankWords], NEW b \in 0..(Banks - 1), NEW n,
         NEW k, k = WithLeft(b, n)
  PROVE  /\ k[b].seq = bank[b].seq /\ \A c \in 0..(Banks - 1) : c # b => k[c] = bank[c]
         /\ k[b].state = bank[b].state /\ k[b].left = n /\ k[b].word = bank[b].word
<1>1. bank[b] \in BankWords
  OBVIOUS
<1>2. QED
  BY <1>1 DEF BankWords, WithLeft

LEMMA WordReads ==
  ASSUME bank \in [0..(Banks - 1) -> BankWords], NEW b \in 0..(Banks - 1), NEW t \in Tasks, NEW x,
         NEW k, k = WithWord(b, t, x)
  PROVE  /\ k[b].seq = bank[b].seq /\ \A c \in 0..(Banks - 1) : c # b => k[c] = bank[c]
         /\ k[b].state = bank[b].state /\ k[b].left = bank[b].left /\ k[b].word[t] = x
         /\ \A u \in Tasks : u # t => k[b].word[u] = bank[b].word[u]
<1>1. bank[b] \in BankWords
  OBVIOUS
<1>2. QED
  BY <1>1 DEF BankWords, WithWord

LEMMA WakeType ==
  ASSUME NEW step \in [Workers -> WorkerSteps], Wake(step)
  PROVE  signalled' \in [Workers -> BOOLEAN] /\ pc' \in [Workers -> WorkerSteps]
BY DEF Wake, WorkerSteps

LEMMA FaultType ==
  ASSUME TypeInv, NEW h \in Threads,
         NEW code \in {"None", "Deadline", "Capacity", "Quantum", "Clock", "Worker"},
         BeginFault(h, code)
  PROVE  /\ fault' \in {"None", "Deadline", "Capacity", "Quantum", "Clock", "Worker"}
         /\ faulting' \in [Threads -> {"no", "running", "preparing", "wake"}]
BY DEF TypeInv, TypeOK, BeginFault, FirstCause

LEMMA FaultStepType ==
  ASSUME TypeInv, NEW h \in Threads, FaultStep(h)
  PROVE  TypeInv'
<1> USE DEF TypeInv, TypeOK, workerVars, collectorVars, historyVars
<1>1. CASE FaultRunning(h)
  BY <1>1 DEF FaultRunning, FaultedFrom
<1>2. CASE FaultPreparing(h)
  BY <1>2 DEF FaultPreparing, FaultedFrom
<1>3. CASE FaultWake(h)
  BY <1>3, WakeType DEF FaultWake
<1>4. QED
  BY <1>1, <1>2, <1>3 DEF FaultStep

\* A worker that looks for work, sleeps, throws or dies.
LEMMA LookingType ==
  ASSUME TypeInv, NEW w \in Workers, WorkerInv(w),
         \/ EnterLoop(w) \/ Observe(w) \/ CheckStatus(w) \/ LookAtState(w) \/ LookAtWords(w)
         \/ EndScan(w) \/ WakeOthers(w) \/ RunAgain(w) \/ WaitForWork(w) \/ TaskThrows(w) \/ Crash(w)
  PROVE  TypeInv'
<1> USE DEF TypeInv, TypeOK, collectorVars, historyVars
<1>0. w \in Threads /\ Assigned(w) \subseteq Tasks
  BY DEF Threads, Assigned
<1>1. CASE EnterLoop(w) \/ Observe(w)
  BY <1>1 DEF EnterLoop, Observe, Worker, WorkerSteps
<1>2. CASE CheckStatus(w) \/ RunAgain(w)
  <2>1. pc' \in [Workers -> WorkerSteps] /\ unseen' \in [Workers -> SUBSET Tasks]
    <3>1. CASE CheckStatus(w)
      BY <1>0, <3>1 DEF CheckStatus, Worker, WorkerSteps
    <3>2. CASE RunAgain(w)
      BY <1>0, <3>2 DEF RunAgain, Worker, WorkerSteps
    <3>3. QED
      BY <1>2, <3>1, <3>2
  <2>2. /\ best' = [best EXCEPT ![w] = NoTask]
        /\ UNCHANGED <<status, fault, bank, signalled, next, collectorVars, faulting, host, historyVars>>
    BY <1>2 DEF CheckStatus, RunAgain
  <2>3. best' \in [Workers -> Tasks \cup {NoTask}]
    BY <2>2
  <2>4. QED
    BY <2>1, <2>2, <2>3
<1>3. CASE LookAtState(w)
  BY <1>3 DEF LookAtState, Worker, WorkerSteps
<1>4. CASE LookAtWords(w)
  <2>1. unseen[w] # {}
    BY <1>4 DEF LookAtWords, Worker, WorkerInv
  <2>2. First(unseen[w]) \in Tasks
    BY <2>1, FirstIsOne
  <2>3. QED
    BY <1>4, <2>2 DEF LookAtWords, Worker, WorkerSteps
<1>5. CASE EndScan(w) \/ WaitForWork(w)
  BY <1>5 DEF EndScan, WaitForWork, WaitsUnlessSignalled, Worker, WorkerSteps
<1>6. CASE WakeOthers(w)
  <2>1. [pc EXCEPT ![w] = "again"] \in [Workers -> WorkerSteps]
    BY DEF WorkerSteps
  <2>2. QED
    BY <1>6, <2>1, WakeType DEF WakeOthers
<1>7. CASE TaskThrows(w)
  <2>1. fault' \in {"None", "Deadline", "Capacity", "Quantum", "Clock", "Worker"}
        /\ faulting' \in [Threads -> {"no", "running", "preparing", "wake"}]
    BY <1>0, <1>7, FaultType DEF TaskThrows
  <2>2. QED
    BY <1>7, <2>1 DEF TaskThrows, Worker, WorkerSteps
<1>8. CASE Crash(w)
  BY <1>0, <1>8 DEF Crash, WorkerSteps
<1>9. QED
  BY <1>1, <1>2, <1>3, <1>4, <1>5, <1>6, <1>7, <1>8

\* The main thread, and what the callback does without a bank.
LEMMA SessionType ==
  ASSUME TypeInv,
         \/ StartSession \/ ArmCollector \/ FailSession \/ DisposeSession \/ WakeForDisposal
         \/ BeginCallback \/ FinishRange \/ WakeWorkers \/ \E e \in EndFrames : SetEndFrame(e)
  PROVE  TypeInv'
<1> USE DEF TypeInv, TypeOK, workerVars, collectorVars, historyVars
<1>0. "host" \in Threads /\ "collector" \in Threads
  BY DEF Threads
<1>1. CASE StartSession \/ WakeForDisposal
  BY <1>1, WakeType DEF StartSession, WakeForDisposal
<1>2. CASE ArmCollector \/ DisposeSession
  BY <1>2 DEF ArmCollector, DisposeSession, StopStatus, Ended
<1>3. CASE FailSession
  BY <1>0, <1>3, FaultType DEF FailSession
<1>4. CASE BeginCallback
  <2>1. /\ fault' \in {"None", "Deadline", "Capacity", "Quantum", "Clock", "Worker"}
        /\ faulting' \in [Threads -> {"no", "running", "preparing", "wake"}]
    BY <1>0, <1>4, FaultType DEF BeginCallback, CollectorFails
  <2>2. QED
    BY <1>4, <2>1 DEF BeginCallback
<1>5. CASE FinishRange
  BY <1>5 DEF FinishRange, StopStatus, Ended
<1>6. CASE WakeWorkers
  BY <1>6, WakeType DEF WakeWorkers
<1>7. ASSUME NEW e \in EndFrames, SetEndFrame(e) PROVE TypeInv'
  <2>1. /\ fault' \in {"None", "Deadline", "Capacity", "Quantum", "Clock", "Worker"}
        /\ faulting' \in [Threads -> {"no", "running", "preparing", "wake"}]
    BY <1>0, <1>7, FaultType DEF SetEndFrame, CollectorFails
  <2>2. QED
    BY <1>7, <2>1 DEF SetEndFrame, StopStatus, Ended
<1>8. QED
  BY <1>1, <1>2, <1>3, <1>4, <1>5, <1>6, <1>7

-----------------------------------------------------------------------------
(* What the invariant says of a worker with a task.                        *)

LEMMA OwingIsFinite ==
  ASSUME NEW s
  PROVE  /\ IsFiniteSet(Owing(s)) /\ Cardinality(Owing(s)) \in Nat
         /\ Cardinality(Owing(s)) <= Cardinality(Tasks)
         /\ Cardinality(Owing(s)) = 0 <=> Owing(s) = {}
<1>1. Owing(s) \in SUBSET Tasks
  BY DEF Owing
<1>2. QED
  BY <1>1, TasksAreFinite, FS_Subset, FS_CardinalityType, FS_EmptySet

\* No two of the live blocks and the block being captured share a bank.
LEMMA LiveApart ==
  ASSUME TypeInv, RingInv, NEW r \in LiveBlocks \cup {published}, NEW s \in LiveBlocks \cup {published},
         BankOf(r) = BankOf(s)
  PROVE  r = s
<1>1. played \in Nat /\ published \in Nat
  BY DEF TypeInv, TypeOK
<1>2. r \in Nat /\ s \in Nat /\ r < s + Banks /\ s < r + Banks
  BY <1>1, Geometry DEF RingInv, LiveBlocks
<1>3. QED
  BY <1>2, BanksDiffer

LEMMA LiveType ==
  ASSUME TypeInv, NEW s \in LiveBlocks \cup {published}
  PROVE  s \in Nat /\ BankOf(s) \in 0..(Banks - 1)
BY BankType DEF TypeInv, TypeOK, LiveBlocks

\* A block that a task has still to finish, or to count, is not complete.
LEMMA OwedIsReady ==
  ASSUME StackInv, NEW s \in LiveBlocks, NEW t \in Owing(s)
  PROVE  bank[BankOf(s)].left \in Nat \ {0} /\ bank[BankOf(s)].state = "Ready"
<1>1. Holds(bank[BankOf(s)], s) /\ BankOf(s) \in 0..(Banks - 1)
  BY LiveType DEF StackInv, RingInv
<1>2. Cardinality(Owing(s)) \in Nat \ {0}
  BY OwingIsFinite
<1>3. bank[BankOf(s)].left \in Nat
  BY <1>1, TasksAreFinite DEF StackInv, TypeInv, BankWords
<1>4. QED
  BY <1>1, <1>2, <1>3 DEF Holds

\* The worker that may begin or run a task.
LEMMA TaskInHand ==
  ASSUME StackInv, NEW w \in Workers, pc[w] \in {"begin", "execute"}
  PROVE  LET t == best[w] IN
         /\ t \in Tasks /\ Owner[t] = w /\ next[t] \in LiveBlocks /\ t \in Owing(next[t])
         /\ Given(t) /\ next[t] \in Nat
<1> DEFINE t == best[w]
<1>1. t \in Tasks /\ Owner[t] = w /\ Given(t)
  BY DEF StackInv, WorkerInv, Assigned
<1>2. next[t] \in Nat /\ played \in Nat /\ published \in Nat
  BY <1>1 DEF StackInv, TypeInv, TypeOK
<1>3. played <= next[t] /\ next[t] < published
  BY <1>1 DEF StackInv, RingInv, Given
<1>4. next[t] \in LiveBlocks
  BY <1>2, <1>3 DEF LiveBlocks
<1>5. t \in Owing(next[t])
  BY <1>1, <1>2 DEF Owing
<1>6. QED
  BY <1>1, <1>2, <1>4, <1>5

\* The worker that counts or publishes the block it has finished.
LEMMA TaskDone ==
  ASSUME StackInv, NEW w \in Workers, pc[w] \in {"count", "publish"}
  PROVE  LET t == best[w]  s == next[t] - 1 IN
         /\ t \in Tasks /\ Owner[t] = w /\ s \in LiveBlocks /\ s \in Nat /\ next[t] \in Nat
         /\ pc[w] = "count" => t \in Owing(s)
<1> DEFINE t == best[w]
           s == next[t] - 1
<1>1. t \in Tasks /\ Owner[t] = w /\ s \in LiveBlocks
  BY DEF StackInv, WorkerInv, Assigned
<1>2. next[t] \in Nat /\ s \in Nat
  BY <1>1, LiveType DEF StackInv, TypeInv, TypeOK
<1>3. pc[w] = "count" => t \in Owing(s)
  BY <1>1, <1>2 DEF Owing
<1>4. QED
  BY <1>1, <1>2, <1>3

LEMMA TaskType ==
  ASSUME StackInv, NEW w \in Workers,
         BeginTask(w) \/ FinishTask(w) \/ CountTask(w) \/ PublishOutput(w)
  PROVE  TypeInv'
<1> USE DEF TypeInv, TypeOK, collectorVars, historyVars
<1>0. TypeInv /\ w \in Threads
  BY DEF StackInv, Threads
<1>1. CASE BeginTask(w)
  <2> DEFINE t == best[w]
  <2>1. t \in Tasks /\ BankOf(next[t]) \in 0..(Banks - 1)
    BY <1>1, TaskInHand, BankType DEF BeginTask
  <2>2. bank' \in [0..(Banks - 1) -> BankWords]
    <3> DEFINE b == BankOf(next[t])
    <3>1. bank' = bank \/ bank' = [bank EXCEPT ![b].word[t] = 1]
      BY <1>1 DEF BeginTask
    <3> HIDE DEF b
    <3>2. b \in 0..(Banks - 1) /\ 1 \in 0..2
      BY <2>1 DEF b
    <3>3. [bank EXCEPT ![b].word[t] = 1] \in [0..(Banks - 1) -> BankWords]
      BY <1>0, <2>1, <3>2, BankChanges
    <3>4. QED
      BY <1>0, <3>1, <3>3
  <2>3. /\ fault' \in {"None", "Deadline", "Capacity", "Quantum", "Clock", "Worker"}
        /\ faulting' \in [Threads -> {"no", "running", "preparing", "wake"}]
    BY <1>0, <1>1, FaultType DEF BeginTask
  <2>4. pc' \in [Workers -> WorkerSteps]
    BY <1>0, <1>1 DEF BeginTask, Worker, WorkerSteps
  <2>5. UNCHANGED <<status, signalled, unseen, best, next, collectorVars, host, historyVars>>
    BY <1>1 DEF BeginTask
  <2>6. QED
    BY <1>0, <2>2, <2>3, <2>4, <2>5 DEF BankWords
<1>2. CASE FinishTask(w)
  <2> DEFINE t == best[w]
  <2>1. t \in Tasks /\ BankOf(next[t]) \in 0..(Banks - 1) /\ next[t] \in Nat
    BY <1>2, TaskInHand, BankType DEF FinishTask, Worker
  <2>2. bank' \in [0..(Banks - 1) -> BankWords]
    <3> DEFINE b == BankOf(next[t])
    <3>1. bank' = [bank EXCEPT ![b].word[t] = 2]
      BY <1>2 DEF FinishTask
    <3> HIDE DEF b
    <3>2. b \in 0..(Banks - 1) /\ 2 \in 0..2
      BY <2>1 DEF b
    <3>3. [bank EXCEPT ![b].word[t] = 2] \in [0..(Banks - 1) -> BankWords]
      BY <1>0, <2>1, <3>2, BankChanges
    <3>4. QED
      BY <3>1, <3>3
  <2>3. pc' \in [Workers -> WorkerSteps] /\ next' \in [Tasks -> Nat]
    BY <1>0, <1>2, <2>1 DEF FinishTask, Worker, WorkerSteps
  <2>4. UNCHANGED <<status, fault, signalled, unseen, best, collectorVars, faulting, host, historyVars>>
    BY <1>2 DEF FinishTask
  <2>5. QED
    BY <1>0, <2>2, <2>3, <2>4 DEF BankWords
<1>3. CASE CountTask(w)
  <2> DEFINE b == BankOf(next[best[w]] - 1)
  <2>1. b \in 0..(Banks - 1) /\ bank[b].left \in Nat \ {0}
    BY <1>3, TaskDone, OwedIsReady, BankType DEF CountTask
  <2>2. bank[b].left - 1 \in 0..Cardinality(Tasks)
    BY <1>0, <2>1, TasksAreFinite DEF BankWords
  <2>3. bank' = [bank EXCEPT ![b].left = bank[b].left - 1]
    BY <1>3 DEF CountTask
  <2>4. bank' \in [0..(Banks - 1) -> BankWords]
    BY <1>0, <2>1, <2>2, <2>3, BankChanges
  <2>5. pc' \in [Workers -> WorkerSteps]
    BY <1>0, <1>3 DEF CountTask, Worker, WorkerSteps
  <2>6. UNCHANGED <<status, fault, signalled, unseen, best, next, collectorVars, faulting, host, historyVars>>
    BY <1>3 DEF CountTask
  <2>7. QED
    BY <1>0, <2>4, <2>5, <2>6 DEF BankWords
<1>4. CASE PublishOutput(w)
  <2> DEFINE b == BankOf(next[best[w]] - 1)
  <2>1. b \in 0..(Banks - 1)
    BY <1>4, TaskDone, BankType DEF PublishOutput, Worker
  <2>2. bank' \in [0..(Banks - 1) -> BankWords]
    BY <1>0, <1>4, <2>1, BankChanges DEF PublishOutput
  <2>3. pc' \in [Workers -> WorkerSteps]
    BY <1>0, <1>4 DEF PublishOutput, Worker, WorkerSteps
  <2>4. UNCHANGED <<status, fault, signalled, unseen, best, next, collectorVars, faulting, host, historyVars>>
    BY <1>4 DEF PublishOutput
  <2>5. QED
    BY <1>0, <2>2, <2>3, <2>4 DEF BankWords
<1>5. QED
  BY <1>1, <1>2, <1>3, <1>4

\* The block captured at this frame and the one played at it.
LEMMA Frame ==
  ASSUME StackInv
  PROVE  /\ expected \in Nat /\ published \in Nat /\ played \in Nat
         /\ InputSequence = published /\ BankOf(published) \in 0..(Banks - 1)
         /\ BlockOffset \in Nat /\ HasOutput \in BOOLEAN
         /\ HasOutput <=> published >= Depth
         /\ HasOutput => OutputSequence = published - Depth /\ OutputSequence \in Nat
                         /\ BankOf(OutputSequence) \in 0..(Banks - 1)
<1>1. expected \in Nat /\ published \in Nat /\ played \in Nat
  BY DEF StackInv, TypeInv, TypeOK
<1>2. InputSequence = published /\ BankOf(published) \in 0..(Banks - 1)
  BY <1>1, BankType DEF StackInv, CollectorInv
<1>3. /\ BlockOffset \in Nat
      /\ HasOutput <=> published >= Depth
      /\ HasOutput => OutputSequence = published - Depth
  BY <1>1, <1>2, Latencies DEF BlockOffset, InputSequence, HasOutput, OutputSequence
<1>4. HasOutput => OutputSequence \in Nat
  BY <1>1, <1>3, Geometry
<1>5. QED
  BY <1>1, <1>2, <1>3, <1>4, BankType DEF HasOutput

LEMMA CaptureType ==
  ASSUME StackInv, ClaimBank \/ LabelBank \/ PlayOutput \/ WriteInput
  PROVE  TypeInv'
<1> USE DEF TypeInv, TypeOK, workerVars
<1>0. TypeInv /\ "collector" \in Threads
  BY DEF StackInv, Threads
<1> DEFINE FaultTyped == /\ fault' \in {"None", "Deadline", "Capacity", "Quantum", "Clock", "Worker"}
                         /\ faulting' \in [Threads -> {"no", "running", "preparing", "wake"}]
<1>1. CASE ClaimBank
  <2> DEFINE b == BankOf(InputSequence)
  <2>1. b \in 0..(Banks - 1)
    BY Frame
  <2>2. bank' = bank \/ bank' = [bank EXCEPT ![b].state = "Capturing"]
    BY <1>1 DEF ClaimBank
  <2> HIDE DEF b
  <2>3. bank' \in [0..(Banks - 1) -> BankWords]
    BY <1>0, <2>1, <2>2, BankChanges
  <2>4. FaultTyped
    BY <1>0, <1>1, FaultType DEF ClaimBank, CollectorFails
  <2>5. UNCHANGED <<status, signalled, workerVars, armed, expected, end, host, historyVars>>
    BY <1>1 DEF ClaimBank
  <2>6. QED
    BY <1>0, <2>3, <2>4, <2>5 DEF BankWords, historyVars
<1>2. CASE LabelBank
  <2> DEFINE b == BankOf(InputSequence)
  <2>1. b \in 0..(Banks - 1) /\ InputSequence \in Nat
    BY Frame
  <2>2. bank' = [bank EXCEPT ![b] = Labelled(b)]
    BY <1>2 DEF LabelBank
  <2>3. Labelled(b) \in BankWords
    <3>1. bank[b] \in BankWords
      BY <1>0, <2>1
    <3>2. Cardinality(Tasks) \in 0..Cardinality(Tasks) /\ [t \in Tasks |-> 0] \in [Tasks -> 0..2]
      BY TasksAreFinite
    <3>3. QED
      BY <2>1, <3>1, <3>2 DEF Labelled, BankWords
  <2> HIDE DEF b
  <2>4. bank' \in [0..(Banks - 1) -> BankWords]
    BY <1>0, <2>1, <2>2, <2>3
  <2>5. UNCHANGED <<status, fault, signalled, workerVars, armed, expected, end, faulting, host, historyVars>>
    BY <1>2 DEF LabelBank
  <2>6. QED
    BY <1>0, <2>4, <2>5 DEF BankWords, historyVars
<1>3. CASE PlayOutput
  <2> DEFINE b == BankOf(OutputSequence)
  <2>1. \/ bank' = bank
        \/ bank' = [bank EXCEPT ![b].state = "Free"]
        \/ bank' = [bank EXCEPT ![b].state = "Reading"]
    BY <1>3 DEF PlayOutput
  <2>2. bank' # bank => b \in 0..(Banks - 1)
    BY <1>3, Frame DEF PlayOutput
  <2> HIDE DEF b
  <2>3. bank' \in [0..(Banks - 1) -> BankWords]
    BY <1>0, <2>1, <2>2, BankChanges
  <2>4. FaultTyped
    BY <1>0, <1>3, FaultType DEF PlayOutput, CollectorFails
  <2>5. /\ UNCHANGED <<status, signalled, workerVars, armed, expected, end, host, published>>
        /\ played' \in Nat
    BY <1>0, <1>3 DEF PlayOutput
  <2>6. QED
    BY <1>0, <2>3, <2>4, <2>5 DEF BankWords
<1>4. CASE WriteInput
  <2> DEFINE b == BankOf(InputSequence)
  <2>1. b \in 0..(Banks - 1)
    BY Frame
  <2>2. bank' = bank \/ bank' = [bank EXCEPT ![b].state = "Ready"]
    BY <1>4 DEF WriteInput
  <2> HIDE DEF b
  <2>3. bank' \in [0..(Banks - 1) -> BankWords]
    BY <1>0, <2>1, <2>2, BankChanges
  <2>4. /\ UNCHANGED <<status, fault, signalled, workerVars, armed, end, faulting, host, played>>
        /\ expected' \in Nat /\ published' \in Nat
    BY <1>0, <1>4, Geometry DEF WriteInput
  <2>5. QED
    BY <1>0, <2>3, <2>4 DEF BankWords
<1>5. QED
  BY <1>1, <1>2, <1>3, <1>4

LEMMA StepType ==
  ASSUME StackInv, Next
  PROVE  TypeInv'
<1>1. TypeInv
  BY DEF StackInv
<1>2. ASSUME NEW h \in Threads, FaultStep(h) PROVE TypeInv'
  BY <1>1, <1>2, FaultStepType
<1>3. ASSUME NEW w \in Workers, WorkerStep(w) \/ TaskThrows(w) \/ Crash(w) PROVE TypeInv'
  <2>1. WorkerInv(w)
    BY DEF StackInv
  <2>2. QED
    BY <1>1, <1>3, <2>1, LookingType, TaskType DEF WorkerStep
<1>4. CASE BeginCallback \/ CollectorStep \/ \E e \in EndFrames : SetEndFrame(e)
  BY <1>1, <1>4, SessionType, CaptureType DEF CollectorStep
<1>5. CASE StartSession \/ ArmCollector \/ FailSession \/ DisposeSession \/ WakeForDisposal
  BY <1>1, <1>5, SessionType
<1>6. QED
  BY <1>2, <1>3, <1>4, <1>5 DEF Next

-----------------------------------------------------------------------------
(* Steps that touch neither a bank nor a block.                            *)

LEMMA FewerOwe ==
  ASSUME NEW s, NEW k, NEW l, Cardinality(Owing(s)) <= k, l = k, k \in Nat, Owing(s)' \subseteq Owing(s)
  PROVE  Cardinality(Owing(s)') <= l
<1>1. IsFiniteSet(Owing(s)) /\ Cardinality(Owing(s)) \in Nat
  BY OwingIsFinite
<1>2. Cardinality(Owing(s)') <= Cardinality(Owing(s)) /\ IsFiniteSet(Owing(s)')
  BY <1>1, FS_Subset
<1>3. Cardinality(Owing(s)') \in Nat
  BY <1>2, FS_CardinalityType
<1>4. QED
  BY <1>1, <1>2, <1>3

LEMMA RingStays ==
  ASSUME TypeInv, RingInv, UNCHANGED <<bank, next, published, played>>,
         \A w \in Workers : pc'[w] = "count" => pc[w] = "count" /\ best'[w] = best[w]
  PROVE  RingInv'
<1>1. ASSUME NEW s \in LiveBlocks PROVE Holds(bank[BankOf(s)], s)'
  <2> DEFINE k == bank[BankOf(s)]
  <2>1. Holds(k, s) /\ k \in BankWords
    BY LiveType DEF RingInv, TypeInv
  <2>2. k' = k
    BY DEF BankOf
  <2> HIDE DEF k
  <2>3. Owing(s)' \subseteq Owing(s)
    BY DEF Owing
  <2>4. k.left \in Nat
    BY <2>1, TasksAreFinite DEF BankWords
  <2>5. Cardinality(Owing(s)') <= k.left
    BY <2>1, <2>3, <2>4, FewerOwe DEF Holds
  <2>6. Cardinality(Owing(s))' = Cardinality(Owing(s)')
    OBVIOUS
  <2>7. Holds(k, s)'
    BY <2>1, <2>2, <2>5, <2>6 DEF Holds
  <2>8. QED
    BY <2>7 DEF k
<1>2. LiveBlocks' = LiveBlocks
  BY DEF LiveBlocks
<1>3. \A s \in LiveBlocks' : Holds(bank[BankOf(s)], s)'
  BY <1>1, <1>2
<1>4. QED
  BY <1>2, <1>3 DEF RingInv, BankOf

LEMMA WorkerStays ==
  ASSUME NEW v \in Workers, WorkerInv(v), UNCHANGED <<bank, next, published, played>>,
         best'[v] = best[v], unseen'[v] = unseen[v], pc'[v] \in {pc[v], "observe"}
  PROVE  WorkerInv(v)'
BY DEF WorkerInv, Assigned, Given, BankOf, LiveBlocks, First

\* A worker that has no task in hand after its step.
LEMMA EmptyHands ==
  ASSUME TypeInv, NEW w \in Workers, WorkerInv(w),
         unseen'[w] = unseen[w], best'[w] = best[w],
         pc'[w] \in {"ready", "observe", "check", "wake", "again", "wait", "asleep", "exited", "dead"}
  PROVE  WorkerInv(w)'
BY DEF WorkerInv, Assigned

\* The effects of a worker's step that leaves the banks alone.
LEMMA LookingEffects ==
  ASSUME TypeInv, NEW w \in Workers,
         \/ EnterLoop(w) \/ Observe(w) \/ CheckStatus(w) \/ LookAtState(w) \/ LookAtWords(w)
         \/ EndScan(w) \/ WakeOthers(w) \/ RunAgain(w) \/ WaitForWork(w) \/ TaskThrows(w) \/ Crash(w)
         \/ BeginTask(w) /\ bank' = bank
  PROVE  /\ UNCHANGED <<bank, next, published, played, expected, cpc>>
         /\ \A v \in Workers \ {w} : /\ best'[v] = best[v] /\ unseen'[v] = unseen[v]
                                     /\ pc'[v] \in {pc[v], "observe"}
<1> USE DEF TypeInv, TypeOK, collectorVars, historyVars, Worker
<1>1. CASE EnterLoop(w) \/ Observe(w)
  BY <1>1 DEF EnterLoop, Observe
<1>2. CASE CheckStatus(w) \/ RunAgain(w)
  BY <1>2 DEF CheckStatus, RunAgain
<1>3. CASE LookAtState(w)
  BY <1>3 DEF LookAtState
<1>4. CASE LookAtWords(w)
  BY <1>4 DEF LookAtWords
<1>5. CASE EndScan(w) \/ WaitForWork(w)
  BY <1>5 DEF EndScan, WaitForWork
<1>6. CASE WakeOthers(w)
  BY <1>6 DEF WakeOthers, Wake
<1>7. CASE TaskThrows(w) \/ Crash(w)
  BY <1>7 DEF TaskThrows, Crash
<1>8. CASE BeginTask(w) /\ bank' = bank
  BY <1>8 DEF BeginTask
<1>9. QED
  BY <1>1, <1>2, <1>3, <1>4, <1>5, <1>6, <1>7, <1>8

LEMMA LookingWorker ==
  ASSUME StackInv, NEW w \in Workers,
         \/ EnterLoop(w) \/ Observe(w) \/ CheckStatus(w) \/ LookAtState(w) \/ LookAtWords(w)
         \/ EndScan(w) \/ WakeOthers(w) \/ RunAgain(w) \/ WaitForWork(w) \/ TaskThrows(w) \/ Crash(w)
         \/ BeginTask(w) /\ bank' = bank
  PROVE  WorkerInv(w)' /\ pc'[w] \notin {"count", "publish"}
<1>0. TypeInv /\ WorkerInv(w) /\ UNCHANGED <<bank, next, published, played>>
  BY LookingEffects DEF StackInv
<1> USE DEF Worker
<1>1. CASE \/ EnterLoop(w) \/ Observe(w) \/ WakeOthers(w) \/ WaitForWork(w) \/ TaskThrows(w)
           \/ Crash(w) \/ (BeginTask(w) /\ bank' = bank)
  <2>1. unseen'[w] = unseen[w] /\ best'[w] = best[w]
    BY <1>1 DEF EnterLoop, Observe, WakeOthers, WaitForWork, TaskThrows, Crash, BeginTask
  <2>2. pc'[w] \in {"observe", "check", "again", "wait", "asleep", "dead"}
    <3>1. CASE EnterLoop(w) \/ Observe(w) \/ WaitForWork(w) \/ TaskThrows(w) \/ Crash(w)
      BY <1>0, <3>1 DEF EnterLoop, Observe, WaitForWork, WaitsUnlessSignalled, TaskThrows, Crash,
                        TypeInv
    <3>2. CASE WakeOthers(w)
      BY <1>0, <3>2 DEF WakeOthers, Wake, TypeInv
    <3>3. CASE BeginTask(w) /\ bank' = bank
      <4> DEFINE t == best[w]
                 b == BankOf(next[t])
      <4>1. t \in Tasks /\ b \in 0..(Banks - 1)
        BY <3>3, TaskInHand, BankType DEF BeginTask
      <4>2. \/ bank[b].word[t] = 0 /\ bank = [bank EXCEPT ![b].word[t] = 1]
            \/ pc' = [pc EXCEPT ![w] = "wait"]
        BY <3>3 DEF BeginTask
      <4> HIDE DEF b, t
      <4>3. bank = [bank EXCEPT ![b].word[t] = 1] => bank[b].word[t] = 1
        <5>1. bank[b] \in BankWords /\ bank[b].word \in [Tasks -> 0..2]
          BY <1>0, <4>1 DEF TypeInv, BankWords
        <5>2. [bank EXCEPT ![b].word[t] = 1][b].word[t] = 1
          BY <1>0, <4>1, <5>1 DEF TypeInv, BankWords
        <5>3. QED
          BY <5>2
      <4>4. pc' = [pc EXCEPT ![w] = "wait"]
        BY <4>2, <4>3
      <4>5. QED
        BY <1>0, <4>4 DEF TypeInv
    <3>4. QED
      BY <1>1, <3>1, <3>2, <3>3
  <2>3. QED
    BY <1>0, <2>1, <2>2, EmptyHands
<1>2. CASE CheckStatus(w) \/ RunAgain(w)
  <2>1. best'[w] = NoTask /\ unseen'[w] \in {unseen[w], Assigned(w)}
        /\ pc'[w] \in {"exited", "scan", "observe"}
    BY <1>0, <1>2 DEF CheckStatus, RunAgain, TypeInv, TypeOK
  <2>2. QED
    BY <1>0, <2>1 DEF WorkerInv, Assigned
<1>3. CASE LookAtState(w)
  <2> DEFINE t == First(unseen[w])
  <2>1. unseen[w] # {} /\ best' = best /\ pc[w] = "scan"
        /\ \/ pc'[w] = "scan" /\ unseen'[w] = unseen[w] \ {t}
           \/ pc'[w] = "look" /\ unseen'[w] = unseen[w] /\ bank[BankOf(next[t])].state = "Ready"
    BY <1>0, <1>3 DEF LookAtState, TypeInv, TypeOK
  <2>2. t \in Tasks
    BY <1>0, <2>1, FirstIsOne DEF TypeInv, TypeOK
  <2>3. bank[BankOf(next[t])].state = "Ready" => next[t] < published
    <3>1. next[t] \in Nat /\ played \in Nat /\ published \in Nat /\ BankOf(next[t]) \in 0..(Banks - 1)
      BY <1>0, <2>2, BankType DEF TypeInv, TypeOK
    <3>2. next[t] \in LiveBlocks \cup {published}
      BY <2>2, <3>1 DEF StackInv, RingInv, LiveBlocks
    <3>3. ASSUME bank[BankOf(next[t])].state = "Ready" PROVE next[t] # published
      <4> DEFINE s == bank[BankOf(next[t])].seq
      <4>1. s \in LiveBlocks /\ BankOf(next[t]) = BankOf(s)
        BY <3>1, <3>3 DEF StackInv, RingInv
      <4>2. next[t] = s
        BY <1>0, <3>2, <4>1, LiveApart DEF StackInv
      <4>3. QED
        BY <3>1, <4>1, <4>2 DEF LiveBlocks
    <3>4. QED
      BY <3>1, <3>2, <3>3 DEF LiveBlocks
  <2>4. QED
    BY <1>0, <2>1, <2>2, <2>3 DEF WorkerInv, Assigned, Given, First
<1>4. CASE LookAtWords(w)
  <2> DEFINE t == First(unseen[w])
             b == BankOf(next[t])
  <2>1. /\ pc[w] = "look" /\ pc'[w] = "scan" /\ unseen'[w] = unseen[w] \ {t}
        /\ best'[w] = IF ReadyFor(t, b) THEN t ELSE best[w]
    BY <1>0, <1>4 DEF LookAtWords, TypeInv, TypeOK
  <2>2. t \in Tasks /\ t \in Assigned(w) /\ next[t] < published
    <3>1. unseen[w] # {} /\ unseen[w] \subseteq Assigned(w) /\ next[t] < published
      BY <1>0, <2>1 DEF WorkerInv
    <3>2. QED
      BY <1>0, <3>1, FirstIsOne DEF TypeInv, TypeOK
  <2>3. ASSUME ReadyFor(t, b) PROVE Given(t)
    <3>1. next[t] \in Nat /\ played \in Nat /\ published \in Nat
      BY <1>0, <2>2 DEF TypeInv, TypeOK
    <3>2. next[t] \in LiveBlocks
      BY <2>2, <3>1 DEF StackInv, RingInv, LiveBlocks
    <3>3. Holds(bank[b], next[t])
      BY <3>2 DEF StackInv, RingInv
    <3>4. Deps[t] \subseteq Tasks
      BY <2>2, PlanAssumption
    <3>5. QED
      BY <2>2, <2>3, <3>3, <3>4 DEF ReadyFor, Holds, Given
  <2>4. best[w] # NoTask => Given(best[w]) /\ best[w] \in Assigned(w)
    BY <1>0, <2>1 DEF WorkerInv
  <2>5. best'[w] # NoTask => Given(best'[w]) /\ best'[w] \in Assigned(w)
    BY <2>1, <2>2, <2>3, <2>4
  <2>6. QED
    BY <1>0, <2>1, <2>5 DEF WorkerInv, Assigned, Given
<1>5. CASE EndScan(w)
  <2>1. /\ pc[w] = "scan" /\ unseen'[w] = unseen[w] /\ best'[w] = best[w]
        /\ pc'[w] \in {"begin", "wait"} /\ (pc'[w] = "begin" => best[w] # NoTask)
    BY <1>0, <1>5 DEF EndScan, TypeInv
  <2>2. best[w] # NoTask => Given(best[w]) /\ best[w] \in Assigned(w)
    BY <1>0, <2>1 DEF WorkerInv
  <2>3. best'[w] # NoTask => Given(best'[w]) /\ best'[w] \in Assigned(w)
    BY <2>1, <2>2
  <2>4. CASE pc'[w] = "wait"
    BY <1>0, <2>1, <2>4, EmptyHands
  <2>5. CASE pc'[w] = "begin"
    BY <1>0, <2>1, <2>3, <2>5 DEF WorkerInv, Assigned, Given
  <2>6. QED
    BY <2>1, <2>4, <2>5
<1>6. QED
  BY <1>1, <1>2, <1>3, <1>4, <1>5

LEMMA LookingStep ==
  ASSUME StackInv, TypeInv', NEW w \in Workers,
         \/ EnterLoop(w) \/ Observe(w) \/ CheckStatus(w) \/ LookAtState(w) \/ LookAtWords(w)
         \/ EndScan(w) \/ WakeOthers(w) \/ RunAgain(w) \/ WaitForWork(w) \/ TaskThrows(w) \/ Crash(w)
         \/ BeginTask(w) /\ bank' = bank
  PROVE  StackInv'
<1>1. /\ UNCHANGED <<bank, next, published, played, expected, cpc>>
      /\ \A v \in Workers \ {w} : /\ best'[v] = best[v] /\ unseen'[v] = unseen[v]
                                  /\ pc'[v] \in {pc[v], "observe"}
  BY LookingEffects DEF StackInv
<1>2. WorkerInv(w)' /\ pc'[w] \notin {"count", "publish"}
  BY LookingWorker
<1>3. ASSUME NEW v \in Workers \ {w} PROVE WorkerInv(v)'
  BY <1>1, WorkerStays DEF StackInv
<1>4. RingInv'
  <2>1. \A v \in Workers : pc'[v] = "count" => pc[v] = "count" /\ best'[v] = best[v]
    BY <1>1, <1>2
  <2>2. QED
    BY <1>1, <2>1, RingStays DEF StackInv
<1>5. PublishersDiffer'
  <2>1. \A v \in Workers : pc'[v] = "publish" => pc[v] = "publish" /\ best'[v] = best[v]
    BY <1>1, <1>2
  <2>2. QED
    BY <1>1, <2>1 DEF StackInv, PublishersDiffer
<1>6. CollectorInv'
  BY <1>1 DEF StackInv, CollectorInv, Begun, Capturing, InputSequence, BlockOffset, HasOutput,
              OutputSequence, BankOf
<1>7. QED
  BY <1>2, <1>3, <1>4, <1>5, <1>6 DEF StackInv

\* Steps of the main thread, of a fault, and of the callback between its banks.
LEMMA SessionEffects ==
  ASSUME TypeInv,
         \/ \E h \in Threads : FaultStep(h)
         \/ StartSession \/ ArmCollector \/ FailSession \/ DisposeSession \/ WakeForDisposal
         \/ BeginCallback \/ FinishRange \/ WakeWorkers \/ \E e \in EndFrames : SetEndFrame(e)
  PROVE  /\ UNCHANGED <<bank, next, published, played, expected, best, unseen>>
         /\ \A v \in Workers : pc'[v] \in {pc[v], "observe"}
<1> USE DEF workerVars, collectorVars, historyVars, TypeInv
<1>1. ASSUME NEW h \in Threads, FaultStep(h)
      PROVE  /\ UNCHANGED <<bank, next, published, played, expected, best, unseen>>
             /\ \A v \in Workers : pc'[v] \in {pc[v], "observe"}
  BY <1>1 DEF FaultStep, FaultRunning, FaultPreparing, FaultWake, Wake
<1>2. CASE StartSession \/ ArmCollector \/ FailSession \/ DisposeSession \/ WakeForDisposal
  BY <1>2 DEF StartSession, ArmCollector, FailSession, DisposeSession, WakeForDisposal, Wake
<1>3. CASE BeginCallback \/ FinishRange \/ WakeWorkers
  BY <1>3 DEF BeginCallback, FinishRange, WakeWorkers, Wake
<1>4. ASSUME NEW e \in EndFrames, SetEndFrame(e)
      PROVE  /\ UNCHANGED <<bank, next, published, played, expected, best, unseen>>
             /\ \A v \in Workers : pc'[v] \in {pc[v], "observe"}
  BY <1>4 DEF SetEndFrame
<1>5. QED
  BY <1>1, <1>2, <1>3, <1>4

LEMMA SessionStep ==
  ASSUME StackInv, TypeInv',
         \/ \E h \in Threads : FaultStep(h)
         \/ StartSession \/ ArmCollector \/ FailSession \/ DisposeSession \/ WakeForDisposal
         \/ BeginCallback \/ FinishRange \/ WakeWorkers \/ \E e \in EndFrames : SetEndFrame(e)
  PROVE  StackInv'
<1>1. /\ UNCHANGED <<bank, next, published, played, expected, best, unseen>>
      /\ \A v \in Workers : pc'[v] \in {pc[v], "observe"}
  BY SessionEffects DEF StackInv
<1>2. ASSUME NEW v \in Workers PROVE WorkerInv(v)'
  BY <1>1, WorkerStays DEF StackInv
<1>3. RingInv'
  <2>1. \A v \in Workers : pc'[v] = "count" => pc[v] = "count" /\ best'[v] = best[v]
    BY <1>1
  <2>2. QED
    BY <1>1, <2>1, RingStays DEF StackInv
<1>4. PublishersDiffer'
  BY <1>1 DEF StackInv, PublishersDiffer
<1>5. CollectorInv'
  <2>1. \/ cpc' = cpc
        \/ cpc' \in {"wakeLast", "ended"}
        \/ cpc = "idle" /\ cpc' = (IF BlockOffset = 0 THEN "claim" ELSE "output")
        \/ cpc = "wake" /\ cpc' = "idle"
    <3>1. ASSUME NEW h \in Threads, FaultStep(h) PROVE cpc' = cpc
      BY <3>1 DEF FaultStep, FaultRunning, FaultPreparing, FaultWake, collectorVars
    <3>2. CASE StartSession \/ ArmCollector \/ FailSession \/ DisposeSession \/ WakeForDisposal
      BY <3>2 DEF StartSession, ArmCollector, FailSession, DisposeSession, WakeForDisposal, collectorVars
    <3>3. CASE BeginCallback \/ FinishRange \/ WakeWorkers
      BY <3>3 DEF BeginCallback, FinishRange, WakeWorkers, CollectorFails
    <3>4. ASSUME NEW e \in EndFrames, SetEndFrame(e) PROVE cpc' = cpc \/ cpc' \in {"wakeLast", "ended"}
      BY <3>4 DEF SetEndFrame, CollectorFails
    <3>5. QED
      BY <3>1, <3>2, <3>3, <3>4
  <2>2. /\ BlockOffset' = BlockOffset /\ InputSequence' = InputSequence /\ HasOutput' = HasOutput
        /\ OutputSequence' = OutputSequence /\ BankOf(published)' = BankOf(published)
    BY <1>1 DEF BlockOffset, InputSequence, HasOutput, OutputSequence, BankOf
  <2>3. cpc' \notin {"wakeLast", "ended"} => Begun' = Begun /\ cpc \notin {"wakeLast", "ended"}
    BY <2>1, <2>2 DEF Begun
  <2>4. Capturing' => Capturing
    <3>1. cpc = "wake" => BlockOffset = 0
      BY DEF StackInv, CollectorInv
    <3>2. QED
      BY <2>1, <2>2, <3>1 DEF Capturing
  <2>5. cpc' \in {"claim", "label", "wake"} => BlockOffset = 0
    BY <2>1 DEF StackInv, CollectorInv
  <2>6. QED
    BY <1>1, <2>2, <2>3, <2>4, <2>5 DEF StackInv, CollectorInv
<1>6. QED
  BY <1>2, <1>3, <1>4, <1>5 DEF StackInv

-----------------------------------------------------------------------------
(* Steps of a task: its bank changes, no other one.                        *)

LEMMA OtherBanks ==
  ASSUME TypeInv, RingInv, NEW s \in LiveBlocks,
         \A c \in 0..(Banks - 1) : c # BankOf(s) => bank'[c] = bank[c]
  PROVE  \A r \in LiveBlocks \cup {published} : r # s => bank'[BankOf(r)] = bank[BankOf(r)]
BY LiveApart, LiveType

\* What remains to be shown of the block whose task moves on.
LEMMA TaskStep ==
  ASSUME StackInv, TypeInv', NEW s \in LiveBlocks, UNCHANGED <<published, played, expected, cpc>>,
         \A c \in 0..(Banks - 1) : c # BankOf(s) => bank'[c] = bank[c],
         \A t \in Tasks : next'[t] = next[t] \/ (next[t] = s /\ next'[t] = s + 1),
         \A r \in Int : Owing(r)' \subseteq Owing(r),
         Holds(bank[BankOf(s)], s)'
  PROVE  RingInv' /\ CollectorInv'
<1>1. \A r \in LiveBlocks \cup {published} : r # s => bank'[BankOf(r)] = bank[BankOf(r)]
  BY OtherBanks DEF StackInv
<1>2. LiveBlocks' = LiveBlocks /\ played \in Nat /\ published \in Nat
  BY DEF LiveBlocks, StackInv, TypeInv, TypeOK
<1>3. ASSUME NEW r \in LiveBlocks, r # s PROVE Holds(bank[BankOf(r)], r)'
  <2> DEFINE k == bank[BankOf(r)]
  <2>1. Holds(k, r) /\ k \in BankWords /\ r \in Nat /\ s \in Nat
    BY LiveType DEF StackInv, RingInv, TypeInv
  <2>2. k' = k
    BY <1>1, <1>3 DEF BankOf
  <2> HIDE DEF k
  <2>3. k.left \in Nat
    BY <2>1, TasksAreFinite DEF BankWords
  <2>4. Cardinality(Owing(r)') <= k.left
    BY <2>1, <2>3, FewerOwe DEF Holds
  <2>5. Cardinality(Owing(r))' = Cardinality(Owing(r)')
    OBVIOUS
  <2>6. ASSUME NEW t \in Tasks
        PROVE  (next'[t] > r <=> next[t] > r) /\ (next'[t] < r => next[t] < r)
    <3>1. next[t] \in Nat
      BY DEF StackInv, TypeInv, TypeOK
    <3>2. next'[t] = next[t] \/ (next[t] = s /\ next'[t] = s + 1)
      OBVIOUS
    <3>3. QED
      BY <1>3, <2>1, <3>1, <3>2
  <2>7. Holds(k, r)'
    BY <2>1, <2>2, <2>4, <2>5, <2>6 DEF Holds
  <2>8. QED
    BY <2>7 DEF k
<1>4. \A b \in 0..(Banks - 1) : bank'[b].state \in {"Ready", "Complete"} =>
        bank'[b].seq \in LiveBlocks /\ b = BankOf(bank'[b].seq)
  <2>1. bank'[BankOf(s)].seq = s
    BY DEF Holds, BankOf
  <2>2. QED
    BY <2>1 DEF StackInv, RingInv
<1>5. \A t \in Tasks : played <= next'[t] /\ next'[t] <= published
  <2>1. s \in Nat /\ played <= s /\ s < published
    BY <1>2 DEF LiveBlocks
  <2>2. QED
    BY <1>2, <2>1 DEF StackInv, RingInv
<1>6. RingInv'
  <2>1. \A r \in LiveBlocks' : Holds(bank[BankOf(r)], r)'
    BY <1>2, <1>3
  <2>2. /\ played' <= published' /\ published' <= played' + Depth
    BY DEF StackInv, RingInv
  <2>3. QED
    BY <1>2, <1>4, <1>5, <2>1, <2>2 DEF RingInv, BankOf
<1>7. CollectorInv'
  <2>1. bank'[BankOf(published)] = bank[BankOf(published)]
    BY <1>1, <1>2 DEF LiveBlocks
  <2>2. QED
    BY <2>1 DEF StackInv, CollectorInv, Begun, Capturing, InputSequence, BlockOffset, HasOutput,
              OutputSequence, BankOf
<1>8. QED
  BY <1>6, <1>7

\* The other workers, when worker w moves task t of its own on.
LEMMA OtherWorkers ==
  ASSUME StackInv, NEW w \in Workers, NEW v \in Workers \ {w}, NEW s \in LiveBlocks,
         NEW t \in Tasks, Owner[t] = w, UNCHANGED <<published, played>>,
         best'[v] = best[v], unseen'[v] = unseen[v], pc'[v] = pc[v],
         \A c \in 0..(Banks - 1) : c # BankOf(s) => bank'[c] = bank[c],
         \A u \in Tasks : u # t => bank'[BankOf(s)].word[u] = bank[BankOf(s)].word[u],
         \A u \in Tasks : u # t => next'[u] = next[u],
         next[t] <= next'[t], next'[t] \in Nat,
         pc[v] = "publish" =>
           \/ next[best[v]] - 1 # s
           \/ bank'[BankOf(s)].state = bank[BankOf(s)].state /\ bank'[BankOf(s)].left = bank[BankOf(s)].left
  PROVE  WorkerInv(v)'
<1>0. TypeInv /\ RingInv /\ WorkerInv(v) /\ BankOf(s) \in 0..(Banks - 1)
  BY LiveType DEF StackInv
<1>1. Assigned(v) \subseteq Tasks \ {t}
  BY DEF Assigned
<1>2. \A u \in Assigned(v) : u # t /\ next'[u] = next[u] /\ u \in Tasks
  BY <1>1
<1>3. ASSUME NEW u \in Assigned(v), Given(u) PROVE Given(u)'
  <2>1. next'[u] < published'
    BY <1>2, <1>3 DEF Given
  <2>2. ASSUME NEW d \in Deps[u] PROVE next'[u] < next'[d]
    <3>1. d \in Tasks
      BY <1>2, PlanAssumption
    <3>2. next[d] \in Nat /\ next'[d] \in Nat /\ next[d] <= next'[d] /\ next[u] \in Nat
      BY <1>0, <1>2, <3>1 DEF TypeInv, TypeOK
    <3>3. next[u] < next[d]
      BY <1>3 DEF Given
    <3>4. QED
      BY <1>2, <3>2, <3>3
  <2>3. QED
    BY <2>1, <2>2 DEF Given
<1>4. unseen[v] # {} => First(unseen[v]) \in Assigned(v)
  <2>1. unseen[v] \subseteq Assigned(v)
    BY <1>0 DEF WorkerInv
  <2>2. QED
    BY <1>1, <2>1, FirstIsOne
<1>5. ASSUME NEW u \in Assigned(v), next[u] \in Nat
      PROVE  bank'[BankOf(next[u])].word[u] = bank[BankOf(next[u])].word[u]
  <2>1. BankOf(next[u]) \in 0..(Banks - 1)
    BY <1>5, BankType
  <2>2. QED
    BY <1>2, <2>1
<1>6. best[v] # NoTask => best[v] \in Assigned(v)
  BY <1>0 DEF WorkerInv
<1>7. pc[v] = "execute" => bank'[BankOf(next'[best[v]])].word[best[v]] = 1
  <2>1. SUFFICES ASSUME pc[v] = "execute" PROVE bank'[BankOf(next'[best[v]])].word[best[v]] = 1
    OBVIOUS
  <2>2. best[v] \in Assigned(v)
    BY <1>0, <2>1 DEF WorkerInv
  <2>3. next[best[v]] \in Nat
    BY <1>0, <1>2, <2>2 DEF TypeInv, TypeOK
  <2>4. bank[BankOf(next[best[v]])].word[best[v]] = 1
    BY <1>0, <2>1 DEF WorkerInv
  <2>5. QED
    BY <1>2, <1>5, <2>2, <2>3, <2>4
<1>8. pc[v] = "publish" => /\ bank'[BankOf(next'[best[v]] - 1)].state = "Ready"
                           /\ bank'[BankOf(next'[best[v]] - 1)].left = 0
  <2>1. SUFFICES ASSUME pc[v] = "publish"
                 PROVE  /\ bank'[BankOf(next'[best[v]] - 1)].state = "Ready"
                        /\ bank'[BankOf(next'[best[v]] - 1)].left = 0
    OBVIOUS
  <2> DEFINE r == next[best[v]] - 1
  <2>2. best[v] \in Assigned(v) /\ r \in LiveBlocks
    BY <1>0, <2>1 DEF WorkerInv
  <2>3. next'[best[v]] - 1 = r
    BY <1>2, <2>2
  <2>4. bank[BankOf(r)].state = "Ready" /\ bank[BankOf(r)].left = 0
    BY <1>0, <2>1 DEF WorkerInv
  <2>5. r # s => BankOf(r) # BankOf(s) /\ BankOf(r) \in 0..(Banks - 1)
    BY <1>0, <2>2, LiveApart, LiveType
  <2>6. bank'[BankOf(r)].state = bank[BankOf(r)].state /\ bank'[BankOf(r)].left = bank[BankOf(r)].left
    BY <2>1, <2>5
  <2>7. QED
    BY <2>3, <2>4, <2>6
<1>9. pc[v] \in {"count", "publish"} => next'[best[v]] - 1 \in LiveBlocks
  BY <1>0, <1>2 DEF WorkerInv
<1>10. pc[v] \in {"scan", "look", "begin", "execute"} /\ best[v] # NoTask => Given(best[v])'
  <2>1. pc[v] \in {"scan", "look", "begin", "execute"} /\ best[v] # NoTask => Given(best[v])
    BY <1>0 DEF WorkerInv
  <2>2. best[v] # NoTask /\ Given(best[v]) =>
          next'[best[v]] < published' /\ \A d \in Deps[best[v]] : next'[best[v]] < next'[d]
    BY <1>3, <1>6 DEF Given
  <2>3. QED
    BY <2>1, <2>2 DEF Given
<1>11. pc[v] = "look" => unseen[v] # {} /\ next'[First(unseen[v])] < published'
  BY <1>0, <1>2, <1>4 DEF WorkerInv
<1>12. LiveBlocks' = LiveBlocks
  BY DEF LiveBlocks
<1>13. /\ unseen[v] \subseteq Assigned(v) /\ (best[v] # NoTask => best[v] \in Assigned(v))
       /\ pc[v] \in {"begin", "execute", "count", "publish"} => best[v] # NoTask
  BY <1>0 DEF WorkerInv
<1>14. QED
  BY <1>7, <1>8, <1>9, <1>10, <1>11, <1>12, <1>13 DEF WorkerInv, Assigned, Given, First, BankOf

\* A worker takes its task: the word of the block goes from 0 to 1.
LEMMA BeginStep ==
  ASSUME StackInv, TypeInv', NEW w \in Workers, BeginTask(w), bank' # bank
  PROVE  StackInv'
<1> DEFINE t == best[w]
           s == next[t]
           b == BankOf(s)
<1>0. TypeInv /\ pc[w] = "begin" /\ WorkerInv(w)
  BY DEF BeginTask, StackInv
<1>1. /\ t \in Tasks /\ Owner[t] = w /\ s \in LiveBlocks /\ s \in Nat
      /\ b \in 0..(Banks - 1) /\ Given(t)
  BY <1>0, TaskInHand, BankType
<1>2. /\ bank[b].word[t] = 0 /\ bank' = [bank EXCEPT ![b].word[t] = 1]
      /\ pc' = [pc EXCEPT ![w] = "execute"]
      /\ UNCHANGED <<unseen, best, next, cpc, expected, published, played>>
  BY DEF BeginTask, Worker, collectorVars, historyVars
<1>3. /\ bank'[b].word[t] = 1 /\ \A u \in Tasks : u # t => bank'[b].word[u] = bank[b].word[u]
      /\ bank'[b].state = bank[b].state /\ bank'[b].seq = bank[b].seq
      /\ bank'[b].left = bank[b].left /\ \A c \in 0..(Banks - 1) : c # b => bank'[c] = bank[c]
  <2> HIDE DEF b, t
  <2>1. bank \in [0..(Banks - 1) -> BankWords] /\ b \in 0..(Banks - 1) /\ t \in Tasks
    BY <1>0, <1>1 DEF TypeInv
  <2>2. bank' = WithWord(b, t, 1)
    BY <1>2 DEF WithWord
  <2>3. QED
    BY <2>1, <2>2, WordReads
<1>4. pc'[w] = "execute" /\ \A v \in Workers \ {w} : pc'[v] = pc[v]
  BY <1>0, <1>2 DEF TypeInv
<1> HIDE DEF b
<1>5. PICK p \in Nat : p = s
  BY <1>1
<1>6. /\ p \in LiveBlocks /\ next[t] = p /\ next'[t] = p /\ b = BankOf(p) /\ best'[w] = t
  BY <1>1, <1>2, <1>5 DEF b
<1> HIDE DEF s
<1>7. \A r \in Int : Owing(r)' \subseteq Owing(r)
  <2>1. \A v \in Workers : pc'[v] = "count" => pc[v] = "count"
    BY <1>4
  <2>2. QED
    BY <1>2, <2>1 DEF Owing
<1>8. Holds(bank[b], p) /\ bank[b].left \in Nat
  <2>1. Holds(bank[b], p) /\ bank[b] \in BankWords
    BY <1>1, <1>6 DEF StackInv, RingInv, TypeInv
  <2>2. QED
    BY <2>1, TasksAreFinite DEF BankWords
<1>9. Cardinality(Owing(p)') <= bank'[b].left
  <2>1. Cardinality(Owing(p)) <= bank[b].left
    BY <1>8 DEF Holds
  <2>2. QED
    BY <1>3, <1>7, <1>8, <2>1, FewerOwe
<1>10. Holds(bank[BankOf(p)], p)'
  <2>1. bank[BankOf(p)]' = bank'[b]
    BY <1>6 DEF BankOf
  <2>2. Cardinality(Owing(p))' = Cardinality(Owing(p)')
    OBVIOUS
  <2>3. \A u \in Tasks : /\ bank'[b].word[u] = 2 <=> next'[u] > p
                         /\ next'[u] < p => bank'[b].word[u] = 0
    <3>1. ASSUME NEW u \in Tasks, u # t
          PROVE  /\ bank'[b].word[u] = 2 <=> next'[u] > p
                 /\ next'[u] < p => bank'[b].word[u] = 0
      BY <1>2, <1>3, <1>8, <3>1 DEF Holds
    <3>2. ~ (p > p) /\ ~ (p < p)
      OBVIOUS
    <3>3. QED
      BY <1>3, <1>6, <3>1, <3>2
  <2>4. bank'[b].seq = p /\ bank'[b].state \in {"Ready", "Complete"}
        /\ (bank'[b].state = "Complete" => bank'[b].left = 0)
    BY <1>3, <1>8 DEF Holds
  <2>5. QED
    BY <1>9, <2>1, <2>2, <2>3, <2>4 DEF Holds
<1>11. RingInv' /\ CollectorInv'
  <2>1. \A c \in 0..(Banks - 1) : c # BankOf(p) => bank'[c] = bank[c]
    BY <1>3, <1>6
  <2>2. \A u \in Tasks : next'[u] = next[u] \/ (next[u] = p /\ next'[u] = p + 1)
    BY <1>2
  <2>3. QED
    BY <1>2, <1>7, <1>10, <1>6, <2>1, <2>2, TaskStep
<1>12. ASSUME NEW v \in Workers \ {w} PROVE WorkerInv(v)'
  <2>1. /\ \A c \in 0..(Banks - 1) : c # BankOf(p) => bank'[c] = bank[c]
        /\ bank'[BankOf(p)].state = bank[BankOf(p)].state
        /\ bank'[BankOf(p)].left = bank[BankOf(p)].left
        /\ \A u \in Tasks : u # t => bank'[BankOf(p)].word[u] = bank[BankOf(p)].word[u]
    BY <1>3, <1>6
  <2>2. next[t] <= next'[t] /\ next'[t] \in Nat /\ \A u \in Tasks : next'[u] = next[u]
    BY <1>2, <1>6
  <2>3. best'[v] = best[v] /\ unseen'[v] = unseen[v] /\ pc'[v] = pc[v]
    BY <1>2, <1>4
  <2> HIDE DEF t
  <2>4. QED
    BY <1>1, <1>2, <1>6, <2>1, <2>2, <2>3, OtherWorkers
<1>13. WorkerInv(w)'
  <2>1. bank'[BankOf(next'[best'[w]])].word[best'[w]] = 1
    BY <1>3, <1>6
  <2>2. Given(best[w])'
    BY <1>1, <1>2 DEF Given
  <2>3. unseen'[w] \subseteq Assigned(w) /\ best'[w] \in Assigned(w) /\ best'[w] # NoTask
    BY <1>0, <1>2 DEF WorkerInv
  <2>4. QED
    BY <1>2, <1>4, <2>1, <2>2, <2>3 DEF WorkerInv, Assigned
<1>14. PublishersDiffer'
  <2>1. \A v \in Workers : pc'[v] = "publish" => pc[v] = "publish" /\ v # w
    BY <1>4
  <2>2. QED
    BY <1>2, <2>1 DEF StackInv, PublishersDiffer
<1>15. QED
  BY <1>11, <1>12, <1>13, <1>14 DEF StackInv

\* A worker finishes its task: the word of the block becomes 2, and the task goes on.
LEMMA FinishStep ==
  ASSUME StackInv, TypeInv', NEW w \in Workers, FinishTask(w)
  PROVE  StackInv'
<1> DEFINE t == best[w]
           s == next[t]
           b == BankOf(s)
<1>0. TypeInv /\ pc[w] = "execute" /\ WorkerInv(w)
  BY DEF FinishTask, Worker, StackInv
<1>1. /\ t \in Tasks /\ Owner[t] = w /\ s \in LiveBlocks /\ s \in Nat
      /\ b \in 0..(Banks - 1)
  BY <1>0, TaskInHand, BankType
<1>2. /\ bank' = [bank EXCEPT ![b].word[t] = 2]
      /\ next' = [next EXCEPT ![t] = s + 1]
      /\ pc' = [pc EXCEPT ![w] = "count"]
      /\ UNCHANGED <<unseen, best, cpc, expected, published, played>>
  BY DEF FinishTask, Worker, collectorVars, historyVars
<1>3. /\ bank'[b].word[t] = 2 /\ \A u \in Tasks : u # t => bank'[b].word[u] = bank[b].word[u]
      /\ bank'[b].state = bank[b].state /\ bank'[b].seq = bank[b].seq
      /\ bank'[b].left = bank[b].left /\ \A c \in 0..(Banks - 1) : c # b => bank'[c] = bank[c]
  <2> HIDE DEF b, t
  <2>1. bank \in [0..(Banks - 1) -> BankWords] /\ b \in 0..(Banks - 1) /\ t \in Tasks
    BY <1>0, <1>1 DEF TypeInv
  <2>2. bank' = WithWord(b, t, 2)
    BY <1>2 DEF WithWord
  <2>3. QED
    BY <2>1, <2>2, WordReads
<1>4. pc'[w] = "count" /\ \A v \in Workers \ {w} : pc'[v] = pc[v]
  BY <1>0, <1>2 DEF TypeInv
<1>5. next'[t] = s + 1 /\ \A u \in Tasks : u # t => next'[u] = next[u]
  BY <1>0, <1>1, <1>2 DEF TypeInv, TypeOK
<1> HIDE DEF b
<1>6. PICK p \in Nat : p = s
  BY <1>1
<1>7. /\ p \in LiveBlocks /\ next[t] = p /\ next'[t] = p + 1 /\ b = BankOf(p)
  BY <1>1, <1>5, <1>6 DEF b
<1> HIDE DEF s
<1>8. \A r \in Int : Owing(r)' \subseteq Owing(r)
  <2>1. ASSUME NEW r \in Int, NEW u \in Tasks, u \in Owing(r)', u # t PROVE u \in Owing(r)
    <3>1. \A v \in Workers : pc'[v] = "count" /\ best'[v] = u => pc[v] = "count" /\ best[v] = u
      BY <1>2, <1>4, <2>1
    <3>2. next'[u] = next[u]
      BY <1>5, <2>1
    <3>3. QED
      BY <2>1, <3>1, <3>2 DEF Owing
  <2>2. ASSUME NEW r \in Int, t \in Owing(r)' PROVE t \in Owing(r)
    <3>1. next'[t] <= r \/ next'[t] = r + 1
      BY <2>2 DEF Owing
    <3>2. next[t] <= r
      BY <1>7, <3>1
    <3>3. QED
      BY <1>1, <3>2 DEF Owing
  <2>3. \A r \in Int : Owing(r)' \subseteq Tasks
    BY DEF Owing
  <2>4. QED
    BY <2>1, <2>2, <2>3
<1>9. Holds(bank[b], p) /\ bank[b].left \in Nat
  <2>1. Holds(bank[b], p) /\ bank[b] \in BankWords
    BY <1>1, <1>7 DEF StackInv, RingInv, TypeInv
  <2>2. QED
    BY <2>1, TasksAreFinite DEF BankWords
<1>10. Cardinality(Owing(p)') <= bank'[b].left
  <2>1. Cardinality(Owing(p)) <= bank[b].left
    BY <1>9 DEF Holds
  <2>2. QED
    BY <1>3, <1>8, <1>9, <2>1, FewerOwe
<1>11. Holds(bank[BankOf(p)], p)'
  <2>1. bank[BankOf(p)]' = bank'[b]
    BY <1>7 DEF BankOf
  <2>2. Cardinality(Owing(p))' = Cardinality(Owing(p)')
    OBVIOUS
  <2>3. \A u \in Tasks : /\ bank'[b].word[u] = 2 <=> next'[u] > p
                         /\ next'[u] < p => bank'[b].word[u] = 0
    <3>1. ASSUME NEW u \in Tasks, u # t
          PROVE  /\ bank'[b].word[u] = 2 <=> next'[u] > p
                 /\ next'[u] < p => bank'[b].word[u] = 0
      BY <1>3, <1>5, <1>9, <3>1 DEF Holds
    <3>2. p + 1 > p /\ ~ (p + 1 < p)
      OBVIOUS
    <3>3. QED
      BY <1>3, <1>7, <3>1, <3>2
  <2>4. bank'[b].seq = p /\ bank'[b].state \in {"Ready", "Complete"}
        /\ (bank'[b].state = "Complete" => bank'[b].left = 0)
    BY <1>3, <1>9 DEF Holds
  <2>5. QED
    BY <1>10, <2>1, <2>2, <2>3, <2>4 DEF Holds
<1>12. RingInv' /\ CollectorInv'
  <2>1. \A c \in 0..(Banks - 1) : c # BankOf(p) => bank'[c] = bank[c]
    BY <1>3, <1>7
  <2>2. \A u \in Tasks : next'[u] = next[u] \/ (next[u] = p /\ next'[u] = p + 1)
    BY <1>5, <1>7
  <2>3. QED
    BY <1>2, <1>8, <1>11, <1>7, <2>1, <2>2, TaskStep
<1>13. ASSUME NEW v \in Workers \ {w} PROVE WorkerInv(v)'
  <2>1. /\ \A c \in 0..(Banks - 1) : c # BankOf(p) => bank'[c] = bank[c]
        /\ bank'[BankOf(p)].state = bank[BankOf(p)].state
        /\ bank'[BankOf(p)].left = bank[BankOf(p)].left
        /\ \A u \in Tasks : u # t => bank'[BankOf(p)].word[u] = bank[BankOf(p)].word[u]
    BY <1>3, <1>7
  <2>2. next[t] <= next'[t] /\ next'[t] \in Nat
    BY <1>7
  <2>3. best'[v] = best[v] /\ unseen'[v] = unseen[v] /\ pc'[v] = pc[v]
    BY <1>2, <1>4
  <2> HIDE DEF t
  <2>4. QED
    BY <1>1, <1>2, <1>5, <1>7, <2>1, <2>2, <2>3, OtherWorkers
<1>14. WorkerInv(w)'
  <2>1. next'[best'[w]] - 1 = p /\ p \in LiveBlocks'
    BY <1>2, <1>7 DEF LiveBlocks
  <2>2. unseen'[w] \subseteq Assigned(w) /\ best'[w] \in Assigned(w) /\ best'[w] # NoTask
    BY <1>0, <1>2 DEF WorkerInv
  <2>3. QED
    BY <1>4, <2>1, <2>2 DEF WorkerInv, Assigned
<1>15. PublishersDiffer'
  <2>1. \A v \in Workers : pc'[v] = "publish" =>
          pc[v] = "publish" /\ best'[v] = best[v] /\ next'[best[v]] = next[best[v]]
    <3>1. ASSUME NEW v \in Workers, pc'[v] = "publish"
          PROVE  pc[v] = "publish" /\ best'[v] = best[v] /\ next'[best[v]] = next[best[v]]
      <4>1. v # w /\ pc[v] = "publish"
        BY <1>4, <3>1
      <4>2. best[v] \in Tasks /\ Owner[best[v]] = v
        BY <4>1, TaskDone
      <4>3. best[v] # t
        BY <1>1, <4>1, <4>2
      <4>4. QED
        BY <1>2, <1>5, <4>1, <4>2, <4>3
    <3>2. QED
      BY <3>1
  <2>2. QED
    BY <2>1 DEF StackInv, PublishersDiffer
<1>16. QED
  BY <1>12, <1>13, <1>14, <1>15 DEF StackInv

\* A worker counts its task: the task owes the block no more.
LEMMA CountStep ==
  ASSUME StackInv, TypeInv', NEW w \in Workers, CountTask(w)
  PROVE  StackInv'
<1> DEFINE t == best[w]
           b == BankOf(next[t] - 1)
<1>0. TypeInv /\ pc[w] = "count" /\ WorkerInv(w)
  BY DEF CountTask, Worker, StackInv
<1>1. /\ t \in Tasks /\ Owner[t] = w /\ next[t] - 1 \in LiveBlocks /\ next[t] - 1 \in Nat
      /\ next[t] \in Nat /\ b \in 0..(Banks - 1) /\ t \in Owing(next[t] - 1)
  BY <1>0, TaskDone, BankType
<1>2. PICK p \in Nat : p = next[t] - 1
  BY <1>1
<1>3. /\ p \in LiveBlocks /\ next[t] = p + 1 /\ b = BankOf(p) /\ t \in Owing(p)
  BY <1>1, <1>2
<1>4. /\ bank' = WithLeft(b, bank[b].left - 1)
      /\ pc' = [pc EXCEPT ![w] = IF bank[b].left = 1 THEN "publish" ELSE "wake"]
      /\ UNCHANGED <<unseen, best, next, cpc, expected, published, played>>
  BY DEF CountTask, Worker, LastOne, collectorVars, historyVars, WithLeft
<1> HIDE DEF b
<1>5. /\ bank'[b].left = bank[b].left - 1 /\ bank'[b].word = bank[b].word
      /\ bank'[b].state = bank[b].state /\ bank'[b].seq = bank[b].seq
      /\ \A c \in 0..(Banks - 1) : c # b => bank'[c] = bank[c]
  <2> HIDE DEF b, t
  <2>1. bank \in [0..(Banks - 1) -> BankWords] /\ b \in 0..(Banks - 1) /\ t \in Tasks
    BY <1>0, <1>1 DEF TypeInv
  <2>2. QED
    BY <1>4, <2>1, LeftReads
<1>6. /\ pc'[w] = IF bank[b].left = 1 THEN "publish" ELSE "wake"
      /\ \A v \in Workers \ {w} : pc'[v] = pc[v]
  BY <1>0, <1>4 DEF TypeInv
<1>7. \A r \in Int : Owing(r)' \subseteq Owing(r)
  <2>1. \A v \in Workers : pc'[v] = "count" => pc[v] = "count"
    BY <1>6
  <2>2. QED
    BY <1>4, <2>1 DEF Owing
<1>8. t \notin Owing(p)'
  <2>1. ASSUME NEW v \in Workers, pc'[v] = "count", best'[v] = t PROVE FALSE
    <3>1. v # w /\ pc[v] = "count" /\ best[v] = t
      BY <1>4, <1>6, <2>1
    <3>2. Owner[best[v]] = v
      BY <3>1, TaskDone
    <3>3. QED
      BY <1>1, <3>1, <3>2
  <2>2. ~ (next'[t] <= p)
    BY <1>4, <1>3
  <2>3. QED
    BY <2>1, <2>2 DEF Owing
<1>9. bank[b].left \in Nat \ {0} /\ bank[b].state = "Ready"
  BY <1>3, OwedIsReady
<1>10. Holds(bank[b], p)
  BY <1>3 DEF StackInv, RingInv
<1>11. Cardinality(Owing(p)') <= bank[b].left - 1
  <2>1. Cardinality(Owing(p)) <= bank[b].left
    BY <1>10 DEF Holds
  <2>2. IsFiniteSet(Owing(p)) /\ Cardinality(Owing(p)) \in Nat
    BY OwingIsFinite
  <2> DEFINE R == Owing(p) \ {t}
  <2>3. IsFiniteSet(R) /\ Cardinality(R) = Cardinality(Owing(p)) - 1
    BY <1>3, <2>2, FS_RemoveElement
  <2>4. Owing(p)' \subseteq R
    BY <1>7, <1>8
  <2>5. Cardinality(Owing(p)') <= Cardinality(R) /\ IsFiniteSet(Owing(p)')
    BY <2>3, <2>4, FS_Subset
  <2>6. Cardinality(Owing(p)') \in Nat
    BY <2>5, FS_CardinalityType
  <2>7. QED
    BY <1>9, <2>1, <2>2, <2>3, <2>5, <2>6
<1>12. Holds(bank[BankOf(p)], p)'
  <2>1. bank[BankOf(p)]' = bank'[b]
    BY <1>3 DEF BankOf
  <2>2. Cardinality(Owing(p))' = Cardinality(Owing(p)')
    OBVIOUS
  <2>3. \A u \in Tasks : /\ bank'[b].word[u] = 2 <=> next'[u] > p
                         /\ next'[u] < p => bank'[b].word[u] = 0
    BY <1>4, <1>5, <1>10 DEF Holds
  <2>4. bank'[b].seq = p /\ bank'[b].state = "Ready"
    BY <1>5, <1>9, <1>10 DEF Holds
  <2>5. QED
    BY <1>5, <1>11, <2>1, <2>2, <2>3, <2>4 DEF Holds
<1>13. RingInv' /\ CollectorInv'
  <2>1. \A c \in 0..(Banks - 1) : c # BankOf(p) => bank'[c] = bank[c]
    BY <1>5, <1>3
  <2>2. \A u \in Tasks : next'[u] = next[u] \/ (next[u] = p /\ next'[u] = p + 1)
    BY <1>4
  <2>3. QED
    BY <1>4, <1>7, <1>12, <1>3, <2>1, <2>2, TaskStep
<1>14. \A v \in Workers \ {w} : pc[v] = "publish" => next[best[v]] - 1 # p
  <2>1. ASSUME NEW v \in Workers \ {w}, pc[v] = "publish", next[best[v]] - 1 = p PROVE FALSE
    <3>1. bank[BankOf(p)].left = 0
      BY <2>1 DEF StackInv, WorkerInv
    <3>2. QED
      BY <1>9, <1>3, <3>1
  <2>2. QED
    BY <2>1
<1>15. ASSUME NEW v \in Workers \ {w} PROVE WorkerInv(v)'
  <2>1. /\ \A c \in 0..(Banks - 1) : c # BankOf(p) => bank'[c] = bank[c]
        /\ \A u \in Tasks : u # t => bank'[BankOf(p)].word[u] = bank[BankOf(p)].word[u]
    BY <1>5, <1>3
  <2>2. next[t] <= next'[t] /\ next'[t] \in Nat /\ \A u \in Tasks : next'[u] = next[u]
    BY <1>1, <1>4
  <2>3. best'[v] = best[v] /\ unseen'[v] = unseen[v] /\ pc'[v] = pc[v]
    BY <1>4, <1>6
  <2> HIDE DEF t
  <2>4. QED
    BY <1>1, <1>4, <1>14, <1>3, <2>1, <2>2, <2>3, OtherWorkers
<1>16. WorkerInv(w)'
  <2>1. CASE bank[b].left # 1
    BY <1>0, <1>4, <1>6, <2>1, EmptyHands
  <2>2. CASE bank[b].left = 1
    <3>1. next'[best'[w]] - 1 = p /\ p \in LiveBlocks'
      BY <1>4, <1>3 DEF LiveBlocks
    <3>2. unseen'[w] \subseteq Assigned(w) /\ best'[w] \in Assigned(w) /\ best'[w] # NoTask
      BY <1>0, <1>4 DEF WorkerInv
    <3>3. bank'[BankOf(p)].state = "Ready" /\ bank'[BankOf(p)].left = 0
      BY <1>5, <1>9, <1>3, <2>2
    <3>4. pc'[w] = "publish"
      BY <1>6, <2>2
    <3>5. QED
      BY <3>1, <3>2, <3>3, <3>4 DEF WorkerInv, Assigned, BankOf
  <2>3. QED
    BY <2>1, <2>2
<1>17. PublishersDiffer'
  <2>1. \A v \in Workers \ {w} : pc'[v] = "publish" =>
          pc[v] = "publish" /\ next'[best'[v]] # next'[best'[w]]
    BY <1>4, <1>6, <1>14, <1>2
  <2>2. ASSUME NEW u \in Workers, NEW v \in Workers, u # v, pc'[u] = "publish", pc'[v] = "publish"
        PROVE  next'[best'[u]] # next'[best'[v]]
    <3>1. CASE u = w \/ v = w
      BY <2>1, <2>2, <3>1
    <3>2. CASE u # w /\ v # w
      BY <1>4, <2>1, <2>2, <3>2 DEF StackInv, PublishersDiffer
    <3>3. QED
      BY <3>1, <3>2
  <2>3. QED
    BY <2>2 DEF PublishersDiffer
<1>18. QED
  BY <1>13, <1>15, <1>16, <1>17 DEF StackInv

\* The last one publishes the block.
LEMMA PublishStep ==
  ASSUME StackInv, TypeInv', NEW w \in Workers, PublishOutput(w)
  PROVE  StackInv'
<1> DEFINE t == best[w]
           b == BankOf(next[t] - 1)
<1>0. TypeInv /\ pc[w] = "publish" /\ WorkerInv(w)
  BY DEF PublishOutput, Worker, StackInv
<1>1. /\ t \in Tasks /\ Owner[t] = w /\ next[t] - 1 \in LiveBlocks /\ next[t] - 1 \in Nat
      /\ next[t] \in Nat /\ b \in 0..(Banks - 1)
  BY <1>0, TaskDone, BankType
<1>2. PICK p \in Nat : p = next[t] - 1
  BY <1>1
<1>3. p \in LiveBlocks /\ b = BankOf(p)
  BY <1>1, <1>2
<1>4. /\ bank' = WithState(b, "Complete")
      /\ pc' = [pc EXCEPT ![w] = "wake"]
      /\ UNCHANGED <<unseen, best, next, cpc, expected, published, played>>
  BY DEF PublishOutput, Worker, collectorVars, historyVars, WithState
<1>5. bank[b].left = 0
  BY <1>0, <1>1 DEF WorkerInv
<1> HIDE DEF b
<1>6. /\ bank'[b].state = "Complete" /\ bank'[b].word = bank[b].word
      /\ bank'[b].left = bank[b].left /\ bank'[b].seq = bank[b].seq
      /\ \A c \in 0..(Banks - 1) : c # b => bank'[c] = bank[c]
  <2> HIDE DEF b, t
  <2>1. bank \in [0..(Banks - 1) -> BankWords] /\ b \in 0..(Banks - 1) /\ t \in Tasks
    BY <1>0, <1>1 DEF TypeInv
  <2>2. QED
    BY <1>4, <2>1, StateReads
<1>7. pc'[w] = "wake" /\ \A v \in Workers \ {w} : pc'[v] = pc[v]
  BY <1>0, <1>4 DEF TypeInv
<1>8. \A r \in Int : Owing(r)' \subseteq Owing(r)
  <2>1. \A v \in Workers : pc'[v] = "count" => pc[v] = "count"
    BY <1>7
  <2>2. QED
    BY <1>4, <2>1 DEF Owing
<1>9. Holds(bank[b], p)
  BY <1>3 DEF StackInv, RingInv
<1>10. Cardinality(Owing(p)') <= bank'[b].left
  BY <1>6, <1>8, <1>5, <1>9, FewerOwe DEF Holds
<1>11. Holds(bank[BankOf(p)], p)'
  <2>1. bank[BankOf(p)]' = bank'[b]
    BY <1>3 DEF BankOf
  <2>2. Cardinality(Owing(p))' = Cardinality(Owing(p)')
    OBVIOUS
  <2>3. \A u \in Tasks : /\ bank'[b].word[u] = 2 <=> next'[u] > p
                         /\ next'[u] < p => bank'[b].word[u] = 0
    BY <1>4, <1>6, <1>9 DEF Holds
  <2>4. bank'[b].seq = p /\ bank'[b].left = 0
    BY <1>6, <1>5, <1>9 DEF Holds
  <2>5. QED
    BY <1>6, <1>10, <2>1, <2>2, <2>3, <2>4 DEF Holds
<1>12. RingInv' /\ CollectorInv'
  <2>1. \A c \in 0..(Banks - 1) : c # BankOf(p) => bank'[c] = bank[c]
    BY <1>6, <1>3
  <2>2. \A u \in Tasks : next'[u] = next[u] \/ (next[u] = p /\ next'[u] = p + 1)
    BY <1>4
  <2>3. QED
    BY <1>4, <1>8, <1>11, <1>3, <2>1, <2>2, TaskStep
<1>13. \A v \in Workers \ {w} : pc[v] = "publish" => next[best[v]] - 1 # p
  <2>1. ASSUME NEW v \in Workers \ {w}, pc[v] = "publish", next[best[v]] - 1 = p PROVE FALSE
    <3>1. next[best[v]] \in Nat /\ next[best[v]] # next[best[w]]
      BY <1>0, <2>1, TaskDone DEF StackInv, PublishersDiffer
    <3>2. QED
      BY <1>1, <1>2, <2>1, <3>1
  <2>2. QED
    BY <2>1
<1>14. ASSUME NEW v \in Workers \ {w} PROVE WorkerInv(v)'
  <2>1. /\ \A c \in 0..(Banks - 1) : c # BankOf(p) => bank'[c] = bank[c]
        /\ \A u \in Tasks : u # t => bank'[BankOf(p)].word[u] = bank[BankOf(p)].word[u]
    BY <1>6, <1>3
  <2>2. next[t] <= next'[t] /\ next'[t] \in Nat /\ \A u \in Tasks : next'[u] = next[u]
    BY <1>1, <1>4
  <2>3. best'[v] = best[v] /\ unseen'[v] = unseen[v] /\ pc'[v] = pc[v]
    BY <1>4, <1>7
  <2> HIDE DEF t
  <2>4. QED
    BY <1>1, <1>4, <1>13, <1>3, <2>1, <2>2, <2>3, OtherWorkers
<1>15. WorkerInv(w)'
  BY <1>0, <1>4, <1>7, EmptyHands
<1>16. PublishersDiffer'
  <2>1. \A v \in Workers : pc'[v] = "publish" => pc[v] = "publish"
    BY <1>7
  <2>2. QED
    BY <1>4, <2>1 DEF StackInv, PublishersDiffer
<1>17. QED
  BY <1>12, <1>14, <1>15, <1>16 DEF StackInv

-----------------------------------------------------------------------------
(* Steps of the callback: one bank changes, and no worker moves.           *)

LEMMA BlockStays ==
  ASSUME StackInv, UNCHANGED <<next, best, pc>>, NEW s \in LiveBlocks,
         bank'[BankOf(s)] = bank[BankOf(s)]
  PROVE  Holds(bank[BankOf(s)], s)'
<1> DEFINE k == bank[BankOf(s)]
<1>1. Holds(k, s)
  BY DEF StackInv, RingInv
<1>2. k' = k
  BY DEF BankOf
<1> HIDE DEF k
<1>3. Cardinality(Owing(s))' = Cardinality(Owing(s))
  BY DEF Owing
<1>4. Holds(k, s)'
  BY <1>1, <1>2, <1>3 DEF Holds
<1>5. QED
  BY <1>4 DEF k

LEMMA WorkerKeeps ==
  ASSUME StackInv, NEW v \in Workers, UNCHANGED <<next, best, pc, unseen>>,
         published' = published \/ published' = published + 1,
         \A s \in LiveBlocks : s \in LiveBlocks' => bank'[BankOf(s)] = bank[BankOf(s)],
         pc[v] = "execute" => next[best[v]] \in LiveBlocks',
         pc[v] \in {"count", "publish"} => next[best[v]] - 1 \in LiveBlocks'
  PROVE  WorkerInv(v)'
<1>0. TypeInv /\ WorkerInv(v) /\ published \in Nat
  BY DEF StackInv, TypeInv, TypeOK
<1>1. ASSUME NEW t \in Tasks, next[t] < published PROVE next[t] < published'
  BY <1>0, <1>1 DEF TypeInv, TypeOK
<1>2. best[v] # NoTask => best[v] \in Tasks
  BY <1>0 DEF TypeInv, TypeOK
<1>3. pc[v] \in {"scan", "look", "begin", "execute"} /\ best[v] # NoTask =>
        next[best[v]] < published' /\ \A d \in Deps[best[v]] : next[best[v]] < next[d]
  BY <1>0, <1>1, <1>2 DEF WorkerInv, Given
<1>4. pc[v] = "look" => unseen[v] # {} /\ next[First(unseen[v])] < published'
  <2>1. pc[v] = "look" => unseen[v] # {} /\ next[First(unseen[v])] < published
    BY <1>0 DEF WorkerInv
  <2>2. unseen[v] # {} => First(unseen[v]) \in Tasks
    BY <1>0, FirstIsOne DEF TypeInv, TypeOK
  <2>3. QED
    BY <1>1, <2>1, <2>2
<1>5. pc[v] = "execute" => bank'[BankOf(next[best[v]])].word[best[v]] = 1
  <2>1. pc[v] = "execute" => next[best[v]] \in LiveBlocks
    BY TaskInHand
  <2>2. pc[v] = "execute" => bank[BankOf(next[best[v]])].word[best[v]] = 1
    BY <1>0 DEF WorkerInv
  <2>3. QED
    BY <2>1, <2>2
<1>6. pc[v] = "publish" => /\ bank'[BankOf(next[best[v]] - 1)].state = "Ready"
                           /\ bank'[BankOf(next[best[v]] - 1)].left = 0
  <2>1. pc[v] = "publish" => next[best[v]] - 1 \in LiveBlocks
    BY TaskDone
  <2>2. pc[v] = "publish" => /\ bank[BankOf(next[best[v]] - 1)].state = "Ready"
                             /\ bank[BankOf(next[best[v]] - 1)].left = 0
    BY <1>0 DEF WorkerInv
  <2>3. QED
    BY <2>1, <2>2
<1>7. /\ unseen[v] \subseteq Assigned(v) /\ (best[v] # NoTask => best[v] \in Assigned(v))
      /\ pc[v] \in {"begin", "execute", "count", "publish"} => best[v] # NoTask
  BY <1>0 DEF WorkerInv
<1>8. QED
  BY <1>3, <1>4, <1>5, <1>6, <1>7 DEF WorkerInv, Assigned, Given, First, BankOf

\* A bank that holds no live block changes, or that of the block that begins to play.
LEMMA RoomStep ==
  ASSUME StackInv, TypeInv', UNCHANGED <<next, best, pc, unseen, published>>,
         NEW b \in 0..(Banks - 1), bank'[b].state \notin {"Ready", "Complete"},
         \A c \in 0..(Banks - 1) : c # b => bank'[c] = bank[c],
         played' = played \/ played' = played + 1, played' <= published,
         \A s \in LiveBlocks' : BankOf(s) # b,
         played' # played => BankOf(played) = b,
         \A t \in Tasks : played' <= next[t],
         \A v \in Workers : pc[v] \in {"count", "publish"} => next[best[v]] - 1 \in LiveBlocks'
  PROVE  RingInv' /\ (\A w \in Workers : WorkerInv(w)') /\ PublishersDiffer'
<1>0. TypeInv /\ RingInv /\ played \in Nat /\ published \in Nat /\ played' \in Nat
  BY DEF StackInv, TypeInv, TypeOK
<1>1. LiveBlocks' \subseteq LiveBlocks /\ LiveBlocks' = played'..(published - 1)
  BY <1>0 DEF LiveBlocks
<1>2. \A s \in LiveBlocks : s \in LiveBlocks' => bank'[BankOf(s)] = bank[BankOf(s)]
  BY LiveType, <1>0
<1>3. ASSUME NEW v \in Workers PROVE WorkerInv(v)'
  <2>1. pc[v] = "execute" => next[best[v]] \in LiveBlocks'
    <3>1. pc[v] = "execute" => best[v] \in Tasks /\ next[best[v]] \in LiveBlocks
      BY TaskInHand
    <3>2. QED
      BY <1>0, <1>1, <3>1 DEF LiveBlocks
  <2>2. QED
    BY <1>2, <2>1, WorkerKeeps
<1>4. PublishersDiffer'
  BY DEF StackInv, PublishersDiffer
<1>5. \A s \in LiveBlocks' : Holds(bank[BankOf(s)], s)'
  BY <1>1, <1>2, BlockStays
<1>6. \A c \in 0..(Banks - 1) : bank'[c].state \in {"Ready", "Complete"} =>
        bank'[c].seq \in LiveBlocks' /\ c = BankOf(bank'[c].seq)
  <2>1. ASSUME NEW c \in 0..(Banks - 1), bank'[c].state \in {"Ready", "Complete"}
        PROVE  bank'[c].seq \in LiveBlocks' /\ c = BankOf(bank'[c].seq)
    <3>1. c # b /\ bank'[c] = bank[c]
      BY <2>1
    <3>2. bank[c].seq \in LiveBlocks /\ c = BankOf(bank[c].seq)
      BY <1>0, <2>1, <3>1 DEF RingInv
    <3>3. bank[c].seq \in LiveBlocks'
      BY <1>0, <1>1, <3>1, <3>2 DEF LiveBlocks
    <3>4. QED
      BY <3>1, <3>2, <3>3
  <2>2. QED
    BY <2>1
<1>7. played' <= published' /\ published' <= played' + Depth /\ \A t \in Tasks : next[t] <= published
  <2>1. published <= played + Depth /\ \A t \in Tasks : next[t] <= published
    BY <1>0 DEF RingInv
  <2>2. played <= played' /\ Depth \in Nat
    BY <1>0, Geometry
  <2>3. published <= played' + Depth
    BY <1>0, <2>1, <2>2
  <2>4. QED
    BY <2>1, <2>3
<1>8. RingInv'
  BY <1>5, <1>6, <1>7 DEF RingInv, BankOf
<1>9. QED
  BY <1>3, <1>4, <1>8

\* The callback leaves the banks alone.
LEMMA CallbackStays ==
  ASSUME StackInv, UNCHANGED <<bank, next, best, pc, unseen, published, played>>
  PROVE  RingInv' /\ (\A w \in Workers : WorkerInv(w)') /\ PublishersDiffer'
<1>1. ASSUME NEW v \in Workers PROVE WorkerInv(v)'
  BY WorkerStays DEF StackInv
<1>2. RingInv'
  BY RingStays DEF StackInv
<1>3. QED
  BY <1>1, <1>2 DEF StackInv, PublishersDiffer

LEMMA ClaimStep ==
  ASSUME StackInv, TypeInv', ClaimBank
  PROVE  StackInv'
<1> DEFINE b == BankOf(published)
<1>0. /\ TypeInv /\ RingInv /\ CollectorInv /\ b \in 0..(Banks - 1) /\ InputSequence = published
      /\ played \in Nat /\ published \in Nat
  BY Frame DEF StackInv
<1>1. /\ UNCHANGED <<next, best, pc, unseen, published, played, expected>>
      /\ cpc = "claim" /\ cpc' \in {"label", "ended"}
      /\ bank' = bank \/ bank' = WithState(b, "Capturing")
  BY <1>0 DEF ClaimBank, CollectorFails, workerVars, historyVars, WithState
<1>2. RingInv' /\ (\A w \in Workers : WorkerInv(w)') /\ PublishersDiffer'
  <2>1. CASE bank' = bank
    BY <1>1, <2>1, CallbackStays
  <2>2. CASE bank' = WithState(b, "Capturing")
    <3>1. LiveBlocks' = LiveBlocks /\ \A s \in LiveBlocks : s # published
      BY <1>0, <1>1 DEF LiveBlocks
    <3>2. \A s \in LiveBlocks' : BankOf(s) # b
      BY <1>0, <3>1, LiveApart
    <3> HIDE DEF b
    <3>3. bank'[b].state = "Capturing" /\ \A c \in 0..(Banks - 1) : c # b => bank'[c] = bank[c]
      BY <1>0, <2>2, StateReads DEF TypeInv
    <3>4. \A v \in Workers : pc[v] \in {"count", "publish"} => next[best[v]] - 1 \in LiveBlocks'
      BY <3>1, TaskDone
    <3>5. played' <= published /\ \A t \in Tasks : played' <= next[t]
      BY <1>0, <1>1 DEF RingInv
    <3>6. bank'[b].state \notin {"Ready", "Complete"}
      BY <3>3
    <3>7. QED
      BY <1>0, <1>1, <3>2, <3>3, <3>4, <3>5, <3>6, RoomStep
  <2>3. QED
    BY <1>1, <2>1, <2>2
<1>3. CollectorInv'
  <2>1. /\ BlockOffset' = BlockOffset /\ InputSequence' = InputSequence /\ HasOutput' = HasOutput
        /\ OutputSequence' = OutputSequence
    BY <1>1 DEF BlockOffset, InputSequence, HasOutput, OutputSequence
  <2>2. Begun' = Begun /\ ~ Capturing'
    BY <1>1, <2>1 DEF Begun, Capturing
  <2>3. QED
    BY <1>0, <1>1, <2>1, <2>2 DEF CollectorInv
<1>4. QED
  BY <1>2, <1>3 DEF StackInv

LEMMA LabelStep ==
  ASSUME StackInv, TypeInv', LabelBank
  PROVE  StackInv'
<1> DEFINE b == BankOf(published)
<1>0. /\ TypeInv /\ RingInv /\ CollectorInv /\ b \in 0..(Banks - 1) /\ InputSequence = published
      /\ played \in Nat /\ published \in Nat
  BY Frame DEF StackInv
<1>1. /\ UNCHANGED <<next, best, pc, unseen, published, played, expected>>
      /\ cpc = "label" /\ cpc' = "output"
      /\ bank' = [bank EXCEPT ![b] = Labelled(b)]
  BY <1>0 DEF LabelBank, workerVars, historyVars
<1>2. LiveBlocks' = LiveBlocks /\ \A s \in LiveBlocks : s # published
  BY <1>0, <1>1 DEF LiveBlocks
<1>3. \A s \in LiveBlocks' : BankOf(s) # b
  BY <1>0, <1>2, LiveApart
<1>4. bank[b].state \notin {"Ready", "Complete"}
  BY <1>0, <1>2, <1>3 DEF RingInv
<1>5. /\ bank'[b].state = bank[b].state /\ bank'[b].seq = published
      /\ bank'[b].left = Cardinality(Tasks) /\ \A t \in Tasks : bank'[b].word[t] = 0
      /\ \A c \in 0..(Banks - 1) : c # b => bank'[c] = bank[c]
  <2> HIDE DEF b
  <2>1. bank[b] \in BankWords
    BY <1>0 DEF TypeInv
  <2>2. bank'[b] = Labelled(b) /\ \A c \in 0..(Banks - 1) : c # b => bank'[c] = bank[c]
    BY <1>0, <1>1 DEF TypeInv
  <2>3. /\ Labelled(b).state = bank[b].state /\ Labelled(b).seq = InputSequence
        /\ Labelled(b).left = Cardinality(Tasks) /\ \A t \in Tasks : Labelled(b).word[t] = 0
    BY <2>1 DEF Labelled, BankWords
  <2>4. QED
    BY <1>0, <2>2, <2>3
<1>6. RingInv' /\ (\A w \in Workers : WorkerInv(w)') /\ PublishersDiffer'
  <2>1. \A v \in Workers : pc[v] \in {"count", "publish"} => next[best[v]] - 1 \in LiveBlocks'
    BY <1>2, TaskDone
  <2>2. played' <= published /\ \A t \in Tasks : played' <= next[t]
    BY <1>0, <1>1 DEF RingInv
  <2>3. bank'[b].state \notin {"Ready", "Complete"}
    BY <1>4, <1>5
  <2> HIDE DEF b
  <2>4. QED
    BY <1>0, <1>1, <1>3, <1>5, <2>1, <2>2, <2>3, RoomStep
<1>7. CollectorInv'
  <2>1. /\ BlockOffset' = BlockOffset /\ InputSequence' = InputSequence /\ HasOutput' = HasOutput
        /\ OutputSequence' = OutputSequence
    BY <1>1 DEF BlockOffset, InputSequence, HasOutput, OutputSequence
  <2>2. Begun' = Begun
    BY <1>1, <2>1 DEF Begun
  <2>3. BankOf(published)' = b
    BY <1>1 DEF BankOf
  <2>4. QED
    BY <1>0, <1>1, <1>5, <2>1, <2>2, <2>3 DEF CollectorInv
<1>8. QED
  BY <1>6, <1>7 DEF StackInv

\* The bank that is due: with its first quantum its block begins to play.
LEMMA PlayStep ==
  ASSUME StackInv, TypeInv', PlayOutput
  PROVE  /\ StackInv'
         /\ played' # played => played' = played + 1 /\ \A t \in Tasks : played < next[t]
<1> DEFINE d == OutputSequence
           b == BankOf(d)
<1>0. /\ TypeInv /\ RingInv /\ CollectorInv /\ played \in Nat /\ published \in Nat
      /\ BlockOffset \in Nat /\ InputSequence = published
      /\ HasOutput => d = published - Depth /\ d \in Nat /\ b \in 0..(Banks - 1)
  BY Frame DEF StackInv
<1>1. UNCHANGED <<next, best, pc, unseen, published, expected>> /\ cpc = "output"
  BY DEF PlayOutput, workerVars
<1>2. /\ BlockOffset' = BlockOffset /\ InputSequence' = InputSequence /\ HasOutput' = HasOutput
      /\ OutputSequence' = OutputSequence
  BY <1>1 DEF BlockOffset, InputSequence, HasOutput, OutputSequence
<1>3. played = Begun
  BY <1>0, <1>1 DEF CollectorInv
<1>4. CASE bank' = bank /\ played' = played /\ (cpc' = "ended" \/ (~ HasOutput /\ cpc' = "input"))
  <2>1. RingInv' /\ (\A w \in Workers : WorkerInv(w)') /\ PublishersDiffer'
    BY <1>1, <1>4, CallbackStays
  <2>2. cpc' # "ended" => Begun' = Begun
    BY <1>2, <1>4 DEF Begun
  <2>3. Capturing
    BY <1>1 DEF Capturing
  <2>4. BankOf(published)' = BankOf(published) /\ cpc' \notin {"claim", "label", "wake", "wakeLast"}
    BY <1>1, <1>4 DEF BankOf
  <2>5. CollectorInv'
    BY <1>0, <1>1, <1>2, <1>4, <2>2, <2>3, <2>4 DEF CollectorInv
  <2>6. QED
    BY <1>4, <2>1, <2>5 DEF StackInv
<1>5. ASSUME HasOutput, IsDue(b), cpc' = "input",
             NEW x, bank' = WithState(b, x), x \in {"Free", "Reading"},
             played' = IF BlockOffset = 0 THEN played + 1 ELSE played
      PROVE  /\ StackInv'
             /\ played' # played => played' = played + 1 /\ \A t \in Tasks : played < next[t]
  <2>0. /\ d = published - Depth /\ d \in Nat /\ b \in 0..(Banks - 1) /\ b = BankOf(d)
        /\ Depth \in Nat /\ Depth >= 3 /\ Depth <= Banks - 2
    BY <1>0, <1>5, Geometry
  <2>1. /\ bank[b].seq = d
        /\ BlockOffset = 0 => bank[b].state = "Complete" /\ played = d /\ played' = d + 1
        /\ BlockOffset # 0 => played = d + 1 /\ played' = d + 1
    BY <1>1, <1>3, <1>5, <2>0 DEF IsDue, DueState, Begun
  <2>2. played' = d + 1 /\ LiveBlocks' = (d + 1)..(published - 1)
    BY <1>1, <2>1 DEF LiveBlocks
  <2> HIDE DEF b, d
  <2>3. bank'[b].state = x /\ \A c \in 0..(Banks - 1) : c # b => bank'[c] = bank[c]
    BY <1>0, <1>5, <2>0, StateReads DEF TypeInv
  <2>4. \A s \in LiveBlocks' \cup {published} : BankOf(s) # b
    <3>1. ASSUME NEW s \in LiveBlocks' \cup {published} PROVE BankOf(s) # b
      <4>1. s \in Nat /\ d < s /\ s < d + Banks
        BY <1>0, <2>0, <2>2, <3>1, Geometry
      <4>2. QED
        BY <2>0, <4>1, BanksDiffer
    <3>2. QED
      BY <3>1
  <2>5. BlockOffset = 0 => d \in LiveBlocks /\ Owing(d) = {}
    <3>1. SUFFICES ASSUME BlockOffset = 0 PROVE d \in LiveBlocks /\ Owing(d) = {}
      OBVIOUS
    <3>2. d \in LiveBlocks
      BY <1>0, <2>0, <2>1, <3>1 DEF LiveBlocks
    <3>3. \A t \in Owing(d) : FALSE
      BY <2>0, <2>1, <3>1, <3>2, OwedIsReady
    <3>4. QED
      BY <3>2, <3>3
  <2>6. \A t \in Tasks : d < next[t]
    <3>1. CASE BlockOffset = 0
      <4>1. \A t \in Tasks : ~ (next[t] <= d) /\ next[t] \in Nat
        BY <1>0, <2>5, <3>1 DEF Owing, TypeInv, TypeOK
      <4>2. QED
        BY <2>0, <4>1
    <3>2. CASE BlockOffset # 0
      <4>1. \A t \in Tasks : d + 1 <= next[t] /\ next[t] \in Nat
        BY <1>0, <2>1, <3>2 DEF RingInv, TypeInv, TypeOK
      <4>2. QED
        BY <2>0, <4>1
    <3>3. QED
      BY <3>1, <3>2
  <2>7. \A v \in Workers : pc[v] \in {"count", "publish"} => next[best[v]] - 1 \in LiveBlocks'
    <3>1. ASSUME NEW v \in Workers, pc[v] \in {"count", "publish"} PROVE next[best[v]] - 1 \in LiveBlocks'
      <4> DEFINE r == next[best[v]] - 1
      <4>1. r \in LiveBlocks /\ r \in Nat /\ (pc[v] = "count" => best[v] \in Owing(r))
        BY <3>1, TaskDone
      <4>2. pc[v] = "publish" => bank[BankOf(r)].state = "Ready"
        BY <3>1 DEF StackInv, WorkerInv
      <4> HIDE DEF r
      <4>3. r # d
        <5>1. SUFFICES ASSUME r = d PROVE FALSE
          OBVIOUS
        <5>2. BlockOffset = 0
          BY <1>0, <2>0, <2>1, <4>1, <5>1 DEF LiveBlocks
        <5>3. bank[BankOf(r)].state = "Complete" /\ Owing(r) = {}
          BY <2>0, <2>1, <2>5, <5>1, <5>2
        <5>4. QED
          BY <3>1, <4>1, <4>2, <5>3
      <4>4. r \in LiveBlocks'
        <5>1. played <= r /\ r <= published - 1 /\ r \in Nat
          BY <1>0, <4>1 DEF LiveBlocks
        <5>2. d <= played
          BY <2>0, <2>1
        <5>3. d + 1 <= r
          BY <1>0, <2>0, <4>3, <5>1, <5>2
        <5>4. r \in (d + 1)..(published - 1)
          BY <1>0, <2>0, <5>1, <5>3
        <5>5. QED
          BY <2>2, <5>4
      <4>5. QED
        BY <4>4 DEF r
    <3>2. QED
      BY <3>1
  <2>8. /\ played' = played \/ played' = played + 1
        /\ played' <= published
        /\ played' # played => BankOf(played) = b
        /\ \A t \in Tasks : played' <= next[t]
    <3>1. played' = played \/ played' = played + 1
      BY <2>1
    <3>2. played' <= published
      BY <1>0, <2>0, <2>2
    <3>3. played' # played => BankOf(played) = b
      BY <2>0, <2>1
    <3>4. \A t \in Tasks : next[t] \in Nat
      BY <1>0 DEF TypeInv, TypeOK
    <3>5. \A t \in Tasks : played' <= next[t]
      BY <2>0, <2>2, <2>6, <3>4
    <3>6. QED
      BY <3>1, <3>2, <3>3, <3>5
  <2>9. RingInv' /\ (\A w \in Workers : WorkerInv(w)') /\ PublishersDiffer'
    <3>1. bank'[b].state \notin {"Ready", "Complete"}
      BY <1>5, <2>3
    <3>2. b \in 0..(Banks - 1) /\ \A s \in LiveBlocks' : BankOf(s) # b
      BY <2>0, <2>4
    <3>3. QED
      BY <1>1, <2>3, <2>7, <2>8, <3>1, <3>2, RoomStep
  <2>10. CollectorInv'
    <3>1. Begun' = d + 1
      BY <1>2, <1>5, <2>0 DEF Begun, d
    <3>2. bank'[BankOf(published)] = bank[BankOf(published)] /\ BankOf(published)' = BankOf(published)
      <4>1. BankOf(published) # b /\ BankOf(published) \in 0..(Banks - 1)
        BY <1>0, <2>4, BankType
      <4>2. BankOf(published)' = BankOf(published)
        BY <1>1 DEF BankOf
      <4>3. QED
        BY <2>3, <4>1, <4>2
    <3>3. Capturing
      BY <1>1 DEF Capturing
    <3>4. QED
      BY <1>0, <1>1, <1>2, <1>5, <2>2, <3>1, <3>2, <3>3 DEF CollectorInv
  <2>11. played' # played => played' = played + 1 /\ \A t \in Tasks : played < next[t]
    BY <2>1, <2>6
  <2>12. QED
    BY <2>9, <2>10, <2>11 DEF StackInv
<1>6. CASE HasOutput /\ IsDue(b) /\ cpc' = "input"
  <2>1. PICK x \in {"Free", "Reading"} : bank' = WithState(b, x)
    BY <1>6 DEF PlayOutput, WithState, CollectorFails
  <2>2. played' = IF BlockOffset = 0 THEN played + 1 ELSE played
    BY <1>6 DEF PlayOutput, CollectorFails
  <2>3. QED
    BY <1>5, <1>6, <2>1, <2>2
<1>7. QED
  BY <1>4, <1>6 DEF PlayOutput, CollectorFails

\* The quantum of input, and the block with its last one.
LEMMA WriteStep ==
  ASSUME StackInv, TypeInv', WriteInput
  PROVE  StackInv'
<1> DEFINE i == InputSequence
           o == BlockOffset
           b == BankOf(published)
<1>0. /\ TypeInv /\ RingInv /\ CollectorInv /\ played \in Nat /\ published \in Nat
      /\ expected \in Nat /\ expected % Quantum = 0 /\ i = published /\ o \in Nat
      /\ b \in 0..(Banks - 1)
  BY Frame DEF StackInv, CollectorInv
<1>1. /\ UNCHANGED <<next, best, pc, unseen, played>> /\ cpc = "input"
      /\ expected' = expected + Quantum
  BY DEF WriteInput, workerVars
<1>2. /\ o + Quantum <= Block /\ expected' % Quantum = 0 /\ expected' \in Nat
      /\ o + Quantum < Block => InputSequence' = i /\ BlockOffset' = o + Quantum
      /\ o + Quantum = Block => InputSequence' = i + 1 /\ BlockOffset' = 0
  <2>1. expected' \in Nat
    BY <1>0, <1>1, Geometry
  <2>2. QED
    BY <1>0, <1>1, <2>1, Quanta DEF InputSequence, BlockOffset
<1>3. /\ HasOutput <=> i >= Depth
      /\ HasOutput => OutputSequence = i - Depth
      /\ HasOutput' <=> InputSequence' >= Depth
      /\ HasOutput' => OutputSequence' = InputSequence' - Depth
  <2>1. /\ HasOutput <=> i >= Depth
        /\ HasOutput => OutputSequence = i - Depth
    BY <1>0, Latencies DEF InputSequence, HasOutput, OutputSequence
  <2>2. /\ expected' >= Latency <=> expected' \div Block >= Depth
        /\ expected' >= Latency => (expected' - Latency) \div Block = expected' \div Block - Depth
    BY <1>2, Latencies
  <2>3. QED
    BY <2>1, <2>2 DEF InputSequence, HasOutput, OutputSequence
<1>4. played = IF HasOutput THEN OutputSequence + 1 ELSE 0
  BY <1>0, <1>1 DEF CollectorInv, Begun
<1>5. /\ bank[b].seq = published /\ bank[b].left = Cardinality(Tasks)
      /\ \A t \in Tasks : bank[b].word[t] = 0
  BY <1>0, <1>1 DEF CollectorInv, Capturing
<1>6. CASE bank' = bank /\ published' = published /\ o + Quantum # Block /\ cpc' = "idle"
  <2>1. RingInv' /\ (\A w \in Workers : WorkerInv(w)') /\ PublishersDiffer'
    BY <1>1, <1>6, CallbackStays
  <2>2. InputSequence' = i /\ BlockOffset' = o + Quantum /\ BlockOffset' # 0
    <3>1. o + Quantum < Block
      BY <1>0, <1>2, <1>6, Geometry
    <3>2. o + Quantum # 0
      BY <1>0, Geometry
    <3>3. QED
      BY <1>2, <3>1, <3>2
  <2>3. Begun' = played
    BY <1>3, <1>4, <2>2 DEF Begun
  <2>4. BankOf(published)' = b
    BY <1>6 DEF BankOf
  <2>5. CollectorInv'
    BY <1>0, <1>1, <1>2, <1>5, <1>6, <2>2, <2>3, <2>4 DEF CollectorInv
  <2>6. QED
    BY <1>6, <2>1, <2>5 DEF StackInv
<1>7. CASE /\ o + Quantum = Block /\ cpc' = "wake"
           /\ bank' = WithState(b, "Ready") /\ published' = published + 1
  <2>1. /\ bank'[b].state = "Ready" /\ bank'[b].seq = published
        /\ bank'[b].left = Cardinality(Tasks) /\ \A t \in Tasks : bank'[b].word[t] = 0
        /\ \A c \in 0..(Banks - 1) : c # b => bank'[c] = bank[c]
    <3> HIDE DEF b
    <3>1. /\ bank'[b].state = "Ready" /\ bank'[b].seq = bank[b].seq
          /\ bank'[b].left = bank[b].left /\ bank'[b].word = bank[b].word
          /\ \A c \in 0..(Banks - 1) : c # b => bank'[c] = bank[c]
      BY <1>0, <1>7, StateReads DEF TypeInv
    <3>2. QED
      BY <1>5, <3>1
  <2>2. LiveBlocks \subseteq LiveBlocks' /\ LiveBlocks' \subseteq LiveBlocks \cup {published}
        /\ published \notin LiveBlocks /\ published' \in Nat
    BY <1>0, <1>1, <1>7 DEF LiveBlocks
  <2>3. \A s \in LiveBlocks : BankOf(s) # b /\ bank'[BankOf(s)] = bank[BankOf(s)]
    <3>1. ASSUME NEW s \in LiveBlocks PROVE BankOf(s) # b /\ BankOf(s) \in 0..(Banks - 1)
      BY <1>0, <2>2, LiveApart, LiveType
    <3>2. QED
      BY <2>1, <3>1
  <2>4. ASSUME NEW v \in Workers PROVE WorkerInv(v)'
    <3>1. pc[v] = "execute" => next[best[v]] \in LiveBlocks'
      BY <2>2, TaskInHand
    <3>2. pc[v] \in {"count", "publish"} => next[best[v]] - 1 \in LiveBlocks'
      BY <2>2, TaskDone
    <3>3. QED
      BY <1>1, <1>7, <2>3, <3>1, <3>2, WorkerKeeps
  <2>5. PublishersDiffer'
    BY <1>1 DEF StackInv, PublishersDiffer
  <2>6. played <= published /\ published' <= played + Depth
    BY <1>0, <1>3, <1>4, <1>7, Geometry DEF RingInv
  <2>7. \A t \in Tasks : next[t] \in Nat /\ next[t] <= published /\ played <= next[t]
    BY <1>0 DEF RingInv, TypeInv, TypeOK
  <2>8. PICK p \in Nat : p = published
    BY <1>0
  <2>9. Holds(bank[BankOf(p)], p)'
    <3>1. bank[BankOf(p)]' = bank'[b]
      BY <2>8 DEF BankOf
    <3>2. Cardinality(Owing(p))' <= Cardinality(Tasks)
      <4>1. Owing(p)' \subseteq Tasks
        BY DEF Owing
      <4>2. QED
        BY <4>1, TasksAreFinite, FS_Subset
    <3>3. \A t \in Tasks : ~ (next'[t] > p)
      BY <1>0, <1>1, <2>7, <2>8
    <3>4. QED
      BY <2>1, <2>8, <3>1, <3>2, <3>3 DEF Holds
  <2>10. \A s \in LiveBlocks' : Holds(bank[BankOf(s)], s)'
    <3>1. ASSUME NEW s \in LiveBlocks PROVE Holds(bank[BankOf(s)], s)'
      BY <1>1, <2>3, BlockStays
    <3>2. QED
      BY <2>2, <2>8, <2>9, <3>1
  <2>11. \A c \in 0..(Banks - 1) : bank'[c].state \in {"Ready", "Complete"} =>
           bank'[c].seq \in LiveBlocks' /\ c = BankOf(bank'[c].seq)
    <3>1. published \in LiveBlocks'
      BY <1>0, <1>1, <1>7, <2>6 DEF LiveBlocks
    <3>2. ASSUME NEW c \in 0..(Banks - 1), c # b, bank'[c].state \in {"Ready", "Complete"}
          PROVE  bank'[c].seq \in LiveBlocks' /\ c = BankOf(bank'[c].seq)
      BY <1>0, <2>1, <2>2, <3>2 DEF RingInv
    <3>3. QED
      BY <2>1, <3>1, <3>2
  <2>12. RingInv'
    <3>1. played' <= published' /\ published' <= played' + Depth
      BY <1>0, <1>1, <1>7, <2>6
    <3>2. \A t \in Tasks : played' <= next'[t] /\ next'[t] <= published'
      BY <1>0, <1>1, <1>7, <2>7
    <3>3. QED
      BY <2>10, <2>11, <3>1, <3>2 DEF RingInv, BankOf
  <2>13. CollectorInv'
    <3>1. InputSequence' = published' /\ BlockOffset' = 0
      BY <1>0, <1>2, <1>7
    <3>2. Begun' = played
      BY <1>0, <1>3, <1>4, <1>7, <3>1, Geometry DEF Begun
    <3>3. ~ Capturing'
      BY <1>7 DEF Capturing
    <3>4. QED
      BY <1>1, <1>2, <1>7, <3>1, <3>2, <3>3 DEF CollectorInv
  <2>14. QED
    BY <1>7, <2>4, <2>5, <2>12, <2>13 DEF StackInv
<1>8. QED
  BY <1>0, <1>6, <1>7 DEF WriteInput, WithState

-----------------------------------------------------------------------------
(* The theorems.                                                           *)

LEMMA InitStack == Init => StackInv
<1> SUFFICES ASSUME Init PROVE StackInv
  OBVIOUS
<1>1. TypeInv
  <2>1. \A b \in 0..(Banks - 1) : bank[b] \in BankWords
    BY TasksAreFinite DEF Init, BankWords
  <2>2. bank \in [0..(Banks - 1) -> BankWords]
    BY <2>1 DEF Init
  <2>3. \A b \in 0..(Banks - 1) :
          /\ bank[b].state \in {"Free", "Capturing", "Ready", "Complete", "Reading"}
          /\ bank[b].left \in 0..Cardinality(Tasks)
          /\ bank[b].seq \in Nat /\ bank[b].word \in [Tasks -> 0..2]
    BY <2>1 DEF BankWords
  <2>4. pc \in [Workers -> WorkerSteps]
    BY DEF Init, WorkerSteps
  <2>5. /\ status \in {"Preparing", "Running", "Stopped", "Faulted"}
        /\ fault \in {"None", "Deadline", "Capacity", "Quantum", "Clock", "Worker"}
        /\ armed \in BOOLEAN
    <3>1. status = "Preparing" /\ fault = "None" /\ armed = FALSE
      BY DEF Init
    <3>2. QED
      BY <3>1
  <2>6. expected \in Nat /\ end \in EndFrames \cup {NoFrame} /\ {published, played} \subseteq Nat
    <3>1. expected = 0 /\ end = NoFrame /\ published = 0 /\ played = 0
      BY DEF Init
    <3>2. QED
      BY <3>1
  <2>7. /\ signalled \in [Workers -> BOOLEAN]
        /\ next \in [Tasks -> Nat] /\ best \in [Workers -> Tasks \cup {NoTask}]
        /\ unseen \in [Workers -> SUBSET Tasks]
        /\ faulting \in [Threads -> {"no", "running", "preparing", "wake"}]
    BY DEF Init
  <2>8. QED
    BY <2>2, <2>3, <2>4, <2>5, <2>7, <2>6 DEF TypeInv, TypeOK
<1>2. /\ published = 0 /\ played = 0 /\ expected = 0 /\ \A t \in Tasks : next[t] = 0
      /\ \A b \in 0..(Banks - 1) : bank[b].state = "Free"
      /\ \A w \in Workers : pc[w] = "ready" /\ best[w] = NoTask /\ unseen[w] = {}
      /\ cpc = "idle"
  BY DEF Init
<1>3. RingInv
  <2>1. LiveBlocks = {}
    BY <1>2 DEF LiveBlocks
  <2>2. QED
    BY <1>2, <2>1, Geometry DEF RingInv
<1>4. ASSUME NEW w \in Workers PROVE WorkerInv(w)
  BY <1>2 DEF WorkerInv
<1>5. PublishersDiffer
  BY <1>2 DEF PublishersDiffer
<1>6. CollectorInv
  <2>1. InputSequence = 0 /\ BlockOffset = 0 /\ 0 % Quantum = 0
    BY <1>2, Geometry DEF InputSequence, BlockOffset
  <2>2. ~ HasOutput
    BY <1>2, Geometry DEF HasOutput
  <2>3. QED
    BY <1>2, <2>1, <2>2 DEF CollectorInv, Begun, Capturing
<1>7. QED
  BY <1>1, <1>3, <1>4, <1>5, <1>6 DEF StackInv

LEMMA StepStack ==
  ASSUME StackInv, Next
  PROVE  StackInv'
<1>0. TypeInv'
  BY StepType
<1>1. CASE \/ \E h \in Threads : FaultStep(h)
           \/ StartSession \/ ArmCollector \/ FailSession \/ DisposeSession \/ WakeForDisposal
           \/ BeginCallback \/ FinishRange \/ WakeWorkers \/ \E e \in EndFrames : SetEndFrame(e)
  BY <1>0, <1>1, SessionStep
<1>2. ASSUME NEW w \in Workers, WorkerStep(w) \/ TaskThrows(w) \/ Crash(w) PROVE StackInv'
  <2>1. CASE BeginTask(w) /\ bank' # bank
    BY <1>0, <2>1, BeginStep
  <2>2. CASE FinishTask(w)
    BY <1>0, <2>2, FinishStep
  <2>3. CASE CountTask(w)
    BY <1>0, <2>3, CountStep
  <2>4. CASE PublishOutput(w)
    BY <1>0, <2>4, PublishStep
  <2>5. CASE \/ EnterLoop(w) \/ Observe(w) \/ CheckStatus(w) \/ LookAtState(w) \/ LookAtWords(w)
             \/ EndScan(w) \/ WakeOthers(w) \/ RunAgain(w) \/ WaitForWork(w) \/ TaskThrows(w) \/ Crash(w)
             \/ (BeginTask(w) /\ bank' = bank)
    BY <1>0, <2>5, LookingStep
  <2>6. QED
    BY <1>2, <2>1, <2>2, <2>3, <2>4, <2>5 DEF WorkerStep
<1>3. CASE ClaimBank \/ LabelBank
  BY <1>0, <1>3, ClaimStep, LabelStep
<1>4. CASE PlayOutput \/ WriteInput
  BY <1>0, <1>4, PlayStep, WriteStep
<1>5. QED
  BY <1>1, <1>2, <1>3, <1>4 DEF Next, CollectorStep

LEMMA StutterStack ==
  ASSUME StackInv, UNCHANGED vars
  PROVE  StackInv'
<1>1. /\ UNCHANGED <<bank, next, best, pc, unseen, published, played, expected, cpc>>
      /\ UNCHANGED <<status, fault, signalled, armed, end, faulting, host>>
  BY DEF vars, workerVars, collectorVars, historyVars
<1>2. TypeInv'
  BY <1>1 DEF StackInv, TypeInv, TypeOK
<1>3. RingInv' /\ (\A w \in Workers : WorkerInv(w)') /\ PublishersDiffer'
  BY <1>1, CallbackStays
<1>4. CollectorInv'
  BY <1>1 DEF StackInv, CollectorInv, Begun, Capturing, InputSequence, BlockOffset, HasOutput,
              OutputSequence, BankOf
<1>5. QED
  BY <1>2, <1>3, <1>4 DEF StackInv

THEOREM StackHolds == Spec => []StackInv
<1>1. StackInv /\ [Next]_vars => StackInv'
  BY StepStack, StutterStack
<1>2. QED
  BY InitStack, <1>1, PTL DEF Spec

\* Every shared word and every step counter stays in its range, the unfinished count
\* of a bank among them: no Atomics.sub takes it below zero.
THEOREM TypeCorrect == Spec => []TypeOK
<1>1. StackInv => TypeOK
  BY DEF StackInv, TypeInv
<1>2. QED
  BY StackHolds, <1>1, PTL

\* A worker runs a task only in the bank published for that block, behind its
\* inputs, alone, and never while the callback writes or plays that bank.
THEOREM PlanesAreOwned == Spec => []OwnPlanesOnly
<1>1. StackInv => OwnPlanesOnly
  <2>1. SUFFICES ASSUME StackInv, NEW w \in Workers, pc[w] = "execute"
                 PROVE  LET t == best[w]  b == BankOf(next[t]) IN
                        /\ bank[b].state = "Ready" /\ bank[b].seq = next[t]
                        /\ bank[b].word[t] = 1 /\ \A d \in Deps[t] : bank[b].word[d] = 2
                        /\ \A v \in Workers \ {w} : pc[v] = "execute" => best[v] # t
    BY DEF OwnPlanesOnly
  <2> DEFINE t == best[w]
             b == BankOf(next[t])
  <2>2. /\ t \in Tasks /\ Owner[t] = w /\ next[t] \in LiveBlocks /\ t \in Owing(next[t])
        /\ Given(t)
    BY <2>1, TaskInHand
  <2>3. bank[b].state = "Ready"
    BY <2>1, <2>2, OwedIsReady
  <2>4. Holds(bank[b], next[t])
    BY <2>1, <2>2 DEF StackInv, RingInv
  <2>5. bank[b].word[t] = 1
    BY <2>1 DEF StackInv, WorkerInv
  <2>6. ASSUME NEW d \in Deps[t] PROVE bank[b].word[d] = 2
    <3>1. d \in Tasks /\ next[t] < next[d]
      BY <2>2, PlanAssumption DEF Given
    <3>2. next[t] \in Nat /\ next[d] \in Nat
      BY <2>1, <2>2, <3>1 DEF StackInv, TypeInv, TypeOK
    <3>3. next[d] > next[t]
      BY <3>1, <3>2
    <3>4. QED
      BY <2>4, <3>1, <3>3 DEF Holds
  <2>7. ASSUME NEW v \in Workers \ {w}, pc[v] = "execute" PROVE best[v] # t
    <3>1. Owner[best[v]] = v
      BY <2>1, <2>7, TaskInHand
    <3>2. QED
      BY <2>2, <3>1
  <2>8. QED
    BY <2>3, <2>4, <2>5, <2>6, <2>7 DEF Holds
<1>2. QED
  BY StackHolds, <1>1, PTL

\* A generation that has stopped or faulted stays so, with the cause it had first,
\* whatever the threads still do.
THEOREM GenerationsEnd == Spec => EndsForGood
<1>1. ASSUME [Next]_vars
      PROVE  /\ Ended(status) => status' = status
             /\ fault # "None" => fault' = fault
  <2> DEFINE Kept == /\ Ended(status) => status' = status
                     /\ fault # "None" => fault' = fault
  <2> USE DEF Ended
  <2>1. ASSUME NEW h \in Threads, FaultStep(h) PROVE Kept
    BY <2>1 DEF FaultStep, FaultRunning, FaultPreparing, FaultWake, FaultedFrom
  <2>2. ASSUME NEW w \in Workers, WorkerStep(w) \/ TaskThrows(w) \/ Crash(w) PROVE Kept
    <3>1. CASE TaskThrows(w) \/ Crash(w) \/ BeginTask(w)
      BY <3>1 DEF TaskThrows, Crash, BeginTask, BeginFault, FirstCause
    <3>2. CASE EnterLoop(w) \/ Observe(w) \/ CheckStatus(w) \/ LookAtState(w) \/ LookAtWords(w)
      BY <3>2 DEF EnterLoop, Observe, CheckStatus, LookAtState, LookAtWords
    <3>3. CASE EndScan(w) \/ FinishTask(w) \/ CountTask(w) \/ PublishOutput(w)
      BY <3>3 DEF EndScan, FinishTask, CountTask, PublishOutput
    <3>4. CASE WakeOthers(w) \/ RunAgain(w) \/ WaitForWork(w)
      BY <3>4 DEF WakeOthers, RunAgain, WaitForWork
    <3>5. QED
      BY <2>2, <3>1, <3>2, <3>3, <3>4 DEF WorkerStep
  <2>3. CASE BeginCallback
    BY <2>3 DEF BeginCallback, CollectorFails, BeginFault, FirstCause
  <2>4. CASE CollectorStep
    BY <2>4 DEF CollectorStep, ClaimBank, LabelBank, PlayOutput, FinishRange, WriteInput,
                WakeWorkers, CollectorFails, BeginFault, FirstCause, StopStatus
  <2>5. ASSUME NEW e \in EndFrames, SetEndFrame(e) PROVE Kept
    BY <2>5 DEF SetEndFrame, CollectorFails, BeginFault, FirstCause, StopStatus
  <2>6. CASE StartSession \/ ArmCollector \/ FailSession \/ DisposeSession \/ WakeForDisposal
    BY <2>6 DEF StartSession, ArmCollector, FailSession, DisposeSession, WakeForDisposal,
                BeginFault, FirstCause, StopStatus
  <2>7. CASE UNCHANGED vars
    BY <2>7 DEF vars
  <2>8. QED
    BY <1>1, <2>1, <2>2, <2>3, <2>4, <2>5, <2>6, <2>7 DEF Next
<1>2. QED
  BY <1>1, PTL DEF Spec, EndsForGood

\* ParallelStack implements StackPipeline: blocks go in and come out in order, and
\* none is played that a task has not finished.
THEOREM PipelineIsKept == Spec => ImplementsPipeline
<1>1. Init => Pipeline!PipeInit
  BY DEF Init, Pipeline!PipeInit
<1>2. ASSUME StackInv, TypeInv', Next PROVE Pipeline!PipeNext \/ UNCHANGED <<published, next, played>>
  <2> DEFINE Kept == UNCHANGED <<published, next, played>>
  <2>1. CASE \/ \E h \in Threads : FaultStep(h)
             \/ StartSession \/ ArmCollector \/ FailSession \/ DisposeSession \/ WakeForDisposal
             \/ BeginCallback \/ FinishRange \/ WakeWorkers \/ \E e \in EndFrames : SetEndFrame(e)
    BY <1>2, <2>1, SessionEffects DEF StackInv
  <2>2. ASSUME NEW w \in Workers,
               \/ EnterLoop(w) \/ Observe(w) \/ CheckStatus(w) \/ LookAtState(w) \/ LookAtWords(w)
               \/ EndScan(w) \/ WakeOthers(w) \/ RunAgain(w) \/ WaitForWork(w) \/ TaskThrows(w)
               \/ Crash(w)
        PROVE  Kept
    BY <1>2, <2>2, LookingEffects DEF StackInv
  <2>3. ASSUME NEW w \in Workers, BeginTask(w) \/ CountTask(w) \/ PublishOutput(w) PROVE Kept
    BY <2>3 DEF BeginTask, CountTask, PublishOutput, historyVars
  <2>4. ASSUME NEW w \in Workers, FinishTask(w) PROVE Pipeline!PipeNext
    <3>1. best[w] \in Tasks /\ Given(best[w])
      BY <1>2, <2>4, TaskInHand DEF FinishTask, Worker
    <3>2. next' = [next EXCEPT ![best[w]] = @ + 1] /\ UNCHANGED <<published, played>>
      BY <2>4 DEF FinishTask, historyVars
    <3>3. Pipeline!FinishTask(best[w])
      BY <3>1, <3>2 DEF Given, Pipeline!FinishTask
    <3>4. QED
      BY <3>1, <3>3 DEF Pipeline!PipeNext
  <2>5. CASE ClaimBank \/ LabelBank
    BY <2>5 DEF ClaimBank, LabelBank, workerVars, historyVars
  <2>6. CASE PlayOutput
    <3>1. UNCHANGED <<published, next>>
      BY <2>6 DEF PlayOutput, workerVars
    <3>2. played' # played => played' = played + 1 /\ \A t \in Tasks : played < next[t]
      BY <1>2, <2>6, PlayStep
    <3>3. QED
      BY <3>1, <3>2 DEF Pipeline!PipeNext, Pipeline!PlayBlock
  <2>7. CASE WriteInput
    <3>1. UNCHANGED <<played, next>> /\ (published' = published \/ published' = published + 1)
      BY <2>7 DEF WriteInput, workerVars
    <3>2. QED
      BY <3>1 DEF Pipeline!PipeNext, Pipeline!PublishBlock
  <2>8. QED
    BY <1>2, <2>1, <2>2, <2>3, <2>4, <2>5, <2>6, <2>7 DEF Next, WorkerStep, CollectorStep
<1>3. StackInv /\ [Next]_vars => [Pipeline!PipeNext]_<<published, next, played>>
  <2>1. ASSUME StackInv, Next PROVE [Pipeline!PipeNext]_<<published, next, played>>
    BY <1>2, <2>1, StepType
  <2>2. ASSUME UNCHANGED vars PROVE UNCHANGED <<published, next, played>>
    BY <2>2 DEF vars, workerVars, historyVars
  <2>3. QED
    BY <2>1, <2>2
<1>4. [Pipeline!PipeNext]_<<published, next, played>> => [Pipeline!PipeNext]_(Pipeline!pipeVars)
  BY DEF Pipeline!pipeVars
<1>5. QED
  BY <1>1, <1>3, <1>4, StackHolds, PTL DEF Spec, ImplementsPipeline, Pipeline!PipeSpec
=============================================================================
