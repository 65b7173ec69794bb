--------------------------- MODULE BusStartProofs ---------------------------
(***************************************************************************)
(* A theorem about BusStart, for every number of workers, every length of  *)
(* the queue and all messages: what bus_init does without the mutex, while *)
(* the workers run, is harmless if no start function has published and no  *)
(* worker is inside its critical section when the mutex is initialised.    *)
(***************************************************************************)
EXTENDS BusStart, TLAPS

-----------------------------------------------------------------------------
(* The inductive invariant.  It says something only of an undisturbed      *)
(* start: after any other a message can be lost or delivered twice.        *)

Slots == 0..(MaxTasks - 1)

\* Slot n holds a task that is still to be taken.
Live(n) == n \in Slots /\ ((head <= n /\ n < head + count) \/ n < head + count - MaxTasks)

\* The types of the variables.
QuietTypes ==
    /\ wpc \in [Workers -> {"none", "top", "test", "sleep", "wait", "lost", "take", "cb"}]
    /\ wtask \in [Workers -> Msgs \cup {None}]
    /\ tasks \in [Slots -> Msgs \cup {None}]
    /\ head \in Slots
    /\ count \in 0..MaxTasks
    /\ accepted \subseteq Msgs
    /\ runs \in [Msgs -> 0..2]

\* Until bus_init is done the queue is as the reset would leave it and no
\* worker has seen a task: the reset writes what is there already.
QuietReset ==
    mpc # "up" => /\ mpc # "blocked" /\ accepted = {}
                  /\ head = 0 /\ count = 0

\* tail is behind the last task.
QuietRing == tail = IF head + count < MaxTasks THEN head + count ELSE head + count - MaxTasks

\* A worker in its critical section has the mutex, and between its test of count
\* and its decrement count is not zero: the decrement does not wrap.
QuietLock ==
    /\ \A w \in Workers : Inside(w) <=> lock = w
    /\ \A w \in Workers : wpc[w] = "take" => count # 0

\* A message is in one slot, or with one worker, or has been delivered once.
QuietOnce ==
    /\ \A n \in Slots : Live(n) =>
          /\ tasks[n] \in accepted
          /\ runs[tasks[n]] = 0
          /\ \A w \in Workers : wtask[w] # tasks[n]
          /\ \A k \in Slots : Live(k) /\ tasks[k] = tasks[n] => k = n
    /\ \A w \in Workers : wtask[w] # None =>
          /\ wtask[w] \in accepted
          /\ runs[wtask[w]] = 0
          /\ \A v \in Workers : wtask[v] = wtask[w] => v = w
    /\ \A m \in Msgs : runs[m] < 2 /\ (runs[m] > 0 => m \in accepted)

QuietInv == QuietTypes /\ QuietReset /\ QuietRing /\ QuietLock /\ QuietOnce

SInv == Undisturbed => QuietInv

\* Before pthread_mutex_init nobody is caught.
CaughtInv == mpc \in {"plugins", "blocked", "create", "failed", "init"} => caught = {}

-----------------------------------------------------------------------------
(* Arithmetic.                                                             *)

\* The slot behind slot n.
LEMMA StepIs ==
    ASSUME NEW n \in Slots
    PROVE  (n + 1) % MaxTasks = IF n + 1 = MaxTasks THEN 0 ELSE n + 1
<1>1. MaxTasks \in Nat \ {0} /\ n \in Nat /\ n < MaxTasks
  BY StartAssumption DEF Slots
<1>2. CASE n + 1 = MaxTasks
  BY <1>1, <1>2
<1>3. CASE n + 1 # MaxTasks
  BY <1>1, <1>3
<1>4. QED
  BY <1>2, <1>3

\* A count within the queue does not wrap.
LEMMA CountIs ==
    ASSUME NEW c \in 0..MaxTasks
    PROVE  c % SizeMod = c
<1>1. SizeMod \in Nat /\ c \in Nat /\ c < SizeMod
  BY StartAssumption
<1>2. QED
  BY <1>1

-----------------------------------------------------------------------------
(* Steps.                                                                  *)

\* The initial state satisfies the invariant.
LEMMA InitSInv == Init => SInv
<1> SUFFICES ASSUME Init PROVE QuietInv
  BY DEF SInv
<1>1. MaxTasks \in Nat \ {0} /\ Workers \cap {None} = {}
  BY StartAssumption
<1>2. QuietTypes /\ QuietRing
  BY <1>1 DEF Init, QuietTypes, QuietRing, Slots
<1>3. QuietReset /\ QuietLock
  BY <1>1 DEF Init, QuietReset, QuietLock, Inside
<1>4. \A n \in Slots : ~Live(n)
  BY <1>1 DEF Init, Live, Slots
<1>5. QuietOnce
  BY <1>4 DEF Init, QuietOnce
<1>6. QED
  BY <1>2, <1>3, <1>5 DEF QuietInv

\* A step that changes neither the queue nor what is with whom, and moves no
\* worker in or out of its critical section.
LEMMA ControlKeeps ==
    ASSUME QuietInv, UNCHANGED <<wtask, lock, queue, accepted, runs>>,
           wpc' \in [Workers -> {"none", "top", "test", "sleep", "wait", "lost", "take", "cb"}],
           \A w \in Workers : Inside(w)' <=> Inside(w),
           \A w \in Workers : wpc'[w] = "take" => count # 0,
           mpc' # "up" => mpc # "up" /\ mpc' # "blocked"
    PROVE  QuietInv'
<1> USE DEF QuietInv, queue
<1>1. QuietTypes'
  BY DEF QuietTypes
<1>2. QuietReset' /\ QuietRing'
  BY DEF QuietReset, QuietRing
<1>3. QuietLock'
  BY DEF QuietLock
<1>4. QuietOnce'
  BY DEF QuietOnce, Live
<1>5. QED
  BY <1>1, <1>2, <1>3, <1>4

\* pthread_cond_signal moves waiters only.
LEMMA SignalIs ==
    ASSUME QuietTypes, wpc' \in Signal
    PROVE  /\ wpc' \in [Workers -> {"none", "top", "test", "sleep", "wait", "lost", "take", "cb"}]
           /\ \A w \in Workers : (Inside(w)' <=> Inside(w)) /\ (wpc'[w] = "take" => wpc[w] = "take")
<1>1. CASE wpc' = wpc
  BY <1>1 DEF QuietTypes, Inside
<1>2. CASE \E w \in Workers : wpc[w] = "wait" /\ wpc' = [wpc EXCEPT ![w] = "top"]
  BY <1>2 DEF QuietTypes, Inside
<1>3. QED
  BY <1>1, <1>2 DEF Signal

\* enqueue_task: after a quiet start only with a message of later, which is new,
\* into a slot that is free.
LEMMA EnqueueKeeps ==
    ASSUME QuietInv, Undisturbed', NEW m \in Msgs, Enqueue(m)
    PROVE  QuietInv'
<1> USE DEF QuietInv
<1>1. /\ mpc = "up" /\ m \notin accepted /\ lock = None /\ count # MaxTasks
      /\ tasks' = [tasks EXCEPT ![tail] = m]
      /\ tail' = (tail + 1) % MaxTasks
      /\ count' = (count + 1) % SizeMod
      /\ accepted' = accepted \cup {m}
      /\ wpc' \in Signal
      /\ UNCHANGED <<mpc, wtask, lock, head, runs>>
  BY DEF Enqueue, QuietStart, Undisturbed
<1>2. MaxTasks \in Nat \ {0} /\ head \in Slots /\ count \in 0..MaxTasks /\ None \notin Msgs
  BY StartAssumption DEF QuietTypes
<1>3. count + 1 \in 0..MaxTasks /\ count' = count + 1
  BY <1>1, <1>2, CountIs
<1>4. tail \in Slots /\ ~Live(tail)
  BY <1>1, <1>2 DEF QuietRing, Live, Slots
<1>5. tail' = IF tail + 1 = MaxTasks THEN 0 ELSE tail + 1
  BY <1>1, <1>4, StepIs
<1>6. QuietRing'
  <2>1. /\ head \in Int /\ count \in Int /\ tail \in Int /\ 0 <= head /\ head < MaxTasks
        /\ 0 <= count /\ count < MaxTasks /\ head' = head /\ count' = count + 1
    BY <1>1, <1>2, <1>3, <1>4 DEF Slots
  <2>2. tail = IF head + count < MaxTasks THEN head + count ELSE head + count - MaxTasks
    BY DEF QuietRing
  <2>3. tail' = IF head + (count + 1) < MaxTasks THEN head + (count + 1)
                ELSE head + (count + 1) - MaxTasks
    BY <1>2, <1>5, <2>1, <2>2
  <2>4. QED
    BY <2>1, <2>3 DEF QuietRing
<1>7. \A n \in Slots : Live(n)' <=> Live(n) \/ n = tail
  BY <1>1, <1>2, <1>3, <1>4 DEF QuietRing, Live, Slots
<1>8. tasks' \in [Slots -> Msgs \cup {None}] /\ \A n \in Slots : tasks'[n] = IF n = tail THEN m ELSE tasks[n]
  BY <1>1, <1>4 DEF QuietTypes
<1>9. QuietTypes'
  BY <1>1, <1>3, <1>8, SignalIs DEF QuietTypes
<1>10. QuietReset' /\ QuietLock'
  <2>1. \A w \in Workers : (Inside(w)' <=> Inside(w)) /\ (wpc'[w] = "take" => wpc[w] = "take")
    BY <1>1, SignalIs
  <2>2. count' # 0
    BY <1>2, <1>3
  <2>3. QED
    BY <1>1, <2>1, <2>2 DEF QuietReset, QuietLock
<1>11. QuietOnce'
  <2>1. runs[m] = 0 /\ (\A w \in Workers : wtask[w] # m) /\ \A n \in Slots : Live(n) => tasks[n] # m
    <3>1. runs[m] = 0
      BY <1>1 DEF QuietOnce, QuietTypes
    <3>2. QED
      BY <1>1, <1>2, <3>1 DEF QuietOnce
  <2>2. ASSUME NEW n \in Slots, Live(n)'
        PROVE  /\ tasks'[n] \in accepted'
               /\ runs'[tasks'[n]] = 0
               /\ \A w \in Workers : wtask'[w] # tasks'[n]
               /\ \A k \in Slots : Live(k)' /\ tasks'[k] = tasks'[n] => k = n
    <3>1. CASE n = tail
      BY <1>1, <1>7, <1>8, <2>1, <3>1
    <3>2. CASE n # tail
      <4>1. Live(n) /\ tasks'[n] = tasks[n]
        BY <1>7, <1>8, <2>2, <3>2
      <4>2. QED
        BY <1>1, <1>7, <1>8, <2>1, <4>1 DEF QuietOnce
    <3>3. QED
      BY <3>1, <3>2
  <2>3. /\ \A w \in Workers : wtask'[w] # None =>
              /\ wtask'[w] \in accepted'
              /\ runs'[wtask'[w]] = 0
              /\ \A v \in Workers : wtask'[v] = wtask'[w] => v = w
        /\ \A x \in Msgs : runs'[x] < 2 /\ (runs'[x] > 0 => x \in accepted')
    BY <1>1 DEF QuietOnce
  <2>4. QED
    BY <2>2, <2>3 DEF QuietOnce
<1>12. QED
  BY <1>6, <1>9, <1>10, <1>11

\* Steps of the main thread other than the reset.
LEMMA MainKeeps ==
    ASSUME QuietInv, Undisturbed',
           \/ \E m \in Msgs : EnqueueBlocks(m)
           \/ PluginsDone \/ CreateFails \/ InitMutex \/ InitCond
           \/ \E w \in Workers : CreateWorker(w)
    PROVE  QuietInv'
<1> USE DEF QuietInv
<1>0. \A w \in Workers : wpc[w] = "take" => count # 0
  BY DEF QuietLock
<1>1. ASSUME NEW m \in Msgs, EnqueueBlocks(m) PROVE FALSE
  BY <1>1, StartAssumption DEF EnqueueBlocks, QuietReset
<1>2. CASE PluginsDone \/ CreateFails
  <2>1. UNCHANGED <<wpc, wtask, lock, queue, accepted, runs>> /\ mpc # "up" /\ mpc' # "blocked"
    BY <1>2 DEF PluginsDone, CreateFails
  <2>2. QED
    BY <1>0, <2>1, ControlKeeps DEF QuietTypes, Inside
<1>3. ASSUME NEW w \in Workers, CreateWorker(w) PROVE QuietInv'
  <2>1. /\ UNCHANGED <<wtask, lock, queue, accepted, runs>> /\ mpc = "create" /\ mpc' = mpc
        /\ wpc[w] = "none" /\ wpc' = [wpc EXCEPT ![w] = "top"]
    BY <1>3 DEF CreateWorker
  <2>2. /\ wpc' \in [Workers -> {"none", "top", "test", "sleep", "wait", "lost", "take", "cb"}]
        /\ \A v \in Workers : (Inside(v)' <=> Inside(v)) /\ (wpc'[v] = "take" => wpc[v] = "take")
    BY <2>1 DEF QuietTypes, Inside
  <2>3. QED
    BY <1>0, <2>1, <2>2, ControlKeeps
<1>4. CASE InitMutex
  <2>1. PICK stranded \in SUBSET {w \in Workers : wpc[w] = "top" /\ lock # None} :
          wpc' = [w \in Workers |-> IF w \in stranded THEN "lost" ELSE wpc[w]]
    BY <1>4 DEF InitMutex
  <2>2. /\ mpc = "init" /\ mpc' = "cond" /\ lock' = None /\ UNCHANGED <<wtask, queue, accepted, runs>>
        /\ \A w \in Workers : ~Inside(w)
    BY <1>4 DEF InitMutex, Undisturbed
  <2>3. /\ wpc' \in [Workers -> {"none", "top", "test", "sleep", "wait", "lost", "take", "cb"}]
        /\ \A v \in Workers : ~Inside(v)'
    BY <2>1, <2>2 DEF QuietTypes, Inside
  <2>4. QuietTypes' /\ QuietRing' /\ QuietReset'
    BY <2>2, <2>3 DEF QuietTypes, QuietRing, QuietReset, queue
  <2>5. QuietLock'
    BY <2>2, <2>3, StartAssumption DEF QuietLock, Inside
  <2>6. QuietOnce'
    BY <2>2 DEF QuietOnce, Live, queue
  <2>7. QED
    BY <2>4, <2>5, <2>6
<1>5. CASE InitCond
  <2>1. PICK forgotten \in SUBSET {w \in Workers : wpc[w] = "wait"} :
          wpc' = [w \in Workers |-> IF w \in forgotten THEN "lost" ELSE wpc[w]]
    BY <1>5 DEF InitCond
  <2>2. mpc = "cond" /\ mpc' = "up" /\ UNCHANGED <<wtask, lock, queue, accepted, runs>>
    BY <1>5 DEF InitCond
  <2>3. /\ wpc' \in [Workers -> {"none", "top", "test", "sleep", "wait", "lost", "take", "cb"}]
        /\ \A v \in Workers : (Inside(v)' <=> Inside(v)) /\ (wpc'[v] = "take" => wpc[v] = "take")
    BY <2>1 DEF QuietTypes, Inside
  <2>4. QED
    BY <1>0, <2>2, <2>3, ControlKeeps
<1>6. QED
  BY <1>1, <1>2, <1>3, <1>4, <1>5

\* The reset writes the values that are there already.
LEMMA ResetKeeps ==
    ASSUME QuietInv, ResetQueue
    PROVE  QuietInv'
<1>1. /\ mpc = "create" /\ mpc' = "init" /\ head' = 0 /\ tail' = 0 /\ count' = 0
      /\ UNCHANGED <<wpc, wtask, lock, tasks, accepted, runs>>
  BY DEF ResetQueue
<1>2. head = 0 /\ count = 0
  BY <1>1 DEF QuietInv, QuietReset
<1>3. tail = 0
  BY <1>2, StartAssumption DEF QuietInv, QuietRing
<1>4. UNCHANGED queue
  BY <1>1, <1>2, <1>3 DEF queue
<1>5. QED
  BY <1>1, <1>4, ControlKeeps DEF QuietInv, QuietTypes, QuietLock, Inside

\* A worker locks, tests or waits.
LEMMA WorkerTopKeeps ==
    ASSUME QuietInv, NEW w \in Workers, WorkerLock(w) \/ WorkerTest(w) \/ WorkerWait(w)
    PROVE  QuietInv'
<1> USE DEF QuietInv
<1>1. None \notin Workers /\ w # None
  BY StartAssumption
<1>2. /\ UNCHANGED <<mpc, wtask, queue, accepted, runs>>
      /\ \/ /\ wpc[w] = "top" /\ lock = None /\ lock' = w
            /\ wpc' = [wpc EXCEPT ![w] = "test"]
         \/ /\ wpc[w] = "test" /\ lock' = lock
            /\ wpc' = [wpc EXCEPT ![w] = IF count = 0 THEN "sleep" ELSE "take"]
         \/ /\ wpc[w] = "sleep" /\ lock' = None
            /\ wpc' = [wpc EXCEPT ![w] = "wait"]
  BY DEF WorkerLock, WorkerTest, WorkerWait
<1>3. QuietTypes' /\ QuietRing' /\ QuietReset'
  BY <1>2 DEF QuietTypes, QuietRing, QuietReset, queue
<1>4. \A v \in Workers : v # w => wpc'[v] = wpc[v]
  BY <1>2 DEF QuietTypes
<1>5. QuietLock'
  <2>1. CASE wpc'[w] = "test"
    BY <1>1, <1>2, <1>4, <2>1 DEF QuietLock, QuietTypes, Inside, queue
  <2>2. CASE wpc'[w] \in {"sleep", "take"}
    BY <1>1, <1>2, <1>4, <2>2 DEF QuietLock, QuietTypes, Inside, queue
  <2>3. CASE wpc'[w] = "wait"
    BY <1>1, <1>2, <1>4, <2>3 DEF QuietLock, QuietTypes, Inside, queue
  <2>4. QED
    BY <1>2, <2>1, <2>2, <2>3 DEF QuietTypes
<1>6. QuietOnce'
  BY <1>2 DEF QuietOnce, Live, queue
<1>7. QED
  BY <1>3, <1>5, <1>6

\* A worker takes the task at head: there is one.
LEMMA WorkerTakeKeeps ==
    ASSUME QuietInv, NEW w \in Workers, WorkerTake(w)
    PROVE  QuietInv'
<1> USE DEF QuietInv
<1>1. /\ wpc[w] = "take"
      /\ wtask' = [wtask EXCEPT ![w] = tasks[head]]
      /\ head' = (head + 1) % MaxTasks
      /\ count' = (count - 1) % SizeMod
      /\ lock' = None
      /\ wpc' = [wpc EXCEPT ![w] = "cb"]
      /\ UNCHANGED <<mpc, tasks, tail, accepted, runs>>
  BY DEF WorkerTake, Taken
<1>2. /\ MaxTasks \in Nat \ {0} /\ head \in Slots /\ count \in 0..MaxTasks
      /\ None \notin Msgs /\ None \notin Workers
  BY StartAssumption DEF QuietTypes
<1>3. lock = w /\ count # 0 /\ mpc = "up"
  BY <1>1, <1>2 DEF QuietLock, QuietReset, Inside
<1>4. count - 1 \in 0..MaxTasks /\ count' = count - 1
  BY <1>1, <1>2, <1>3, CountIs
<1>5. head' = IF head + 1 = MaxTasks THEN 0 ELSE head + 1
  BY <1>1, <1>2, StepIs
<1>6. head' \in Slots
  BY <1>2, <1>5 DEF Slots
<1>7. Live(head) /\ \A n \in Slots : Live(n)' <=> Live(n) /\ n # head
  <2>1. Live(head)
    BY <1>2, <1>3 DEF Live, Slots
  <2>2. ASSUME NEW n \in Slots PROVE Live(n)' <=> Live(n) /\ n # head
    BY <1>2, <1>3, <1>4, <1>5 DEF Live, Slots
  <2>3. QED
    BY <2>1, <2>2
<1>8. QuietRing'
  BY <1>1, <1>2, <1>3, <1>4, <1>5 DEF QuietRing, Slots
<1>9. tasks[head] \in accepted /\ tasks[head] \in Msgs
  BY <1>2, <1>7 DEF QuietOnce, QuietTypes
<1>10. /\ wtask' \in [Workers -> Msgs \cup {None}]
       /\ \A v \in Workers : wtask'[v] = IF v = w THEN tasks[head] ELSE wtask[v]
  BY <1>1, <1>9 DEF QuietTypes
<1>11. QuietTypes'
  BY <1>1, <1>4, <1>6, <1>10 DEF QuietTypes
<1>12. QuietReset'
  BY <1>1, <1>3 DEF QuietReset
<1>13. QuietLock'
  <2>1. \A v \in Workers : ~Inside(v)'
    BY <1>1, <1>3 DEF QuietLock, QuietTypes, Inside
  <2>2. QED
    BY <1>1, <1>2, <2>1 DEF QuietLock, Inside
<1>14. QuietOnce'
  <2>1. ASSUME NEW n \in Slots, Live(n)'
        PROVE  /\ tasks'[n] \in accepted'
               /\ runs'[tasks'[n]] = 0
               /\ \A v \in Workers : wtask'[v] # tasks'[n]
               /\ \A k \in Slots : Live(k)' /\ tasks'[k] = tasks'[n] => k = n
    <3>1. Live(n) /\ n # head /\ tasks[n] # tasks[head]
      BY <1>2, <1>7, <2>1 DEF QuietOnce
    <3>2. QED
      BY <1>1, <1>7, <1>10, <3>1 DEF QuietOnce
  <2>2. ASSUME NEW v \in Workers, wtask'[v] # None
        PROVE  /\ wtask'[v] \in accepted'
               /\ runs'[wtask'[v]] = 0
               /\ \A u \in Workers : wtask'[u] = wtask'[v] => u = v
    <3>1. runs[tasks[head]] = 0 /\ \A u \in Workers : wtask[u] # tasks[head]
      BY <1>2, <1>7 DEF QuietOnce
    <3>2. CASE v = w
      BY <1>1, <1>9, <1>10, <3>1, <3>2
    <3>3. CASE v # w
      BY <1>1, <1>10, <2>2, <3>1, <3>3 DEF QuietOnce
    <3>4. QED
      BY <3>2, <3>3
  <2>3. \A x \in Msgs : runs'[x] < 2 /\ (runs'[x] > 0 => x \in accepted')
    BY <1>1 DEF QuietOnce
  <2>4. QED
    BY <2>1, <2>2, <2>3 DEF QuietOnce
<1>15. QED
  BY <1>8, <1>11, <1>12, <1>13, <1>14

\* A worker runs the callback of its task, which no slot and no other worker
\* has.
LEMMA WorkerDoneKeeps ==
    ASSUME QuietInv, NEW w \in Workers, WorkerDone(w)
    PROVE  QuietInv'
<1> USE DEF QuietInv
<1>1. /\ wpc[w] = "cb"
      /\ runs' = [m \in Msgs |-> IF m = wtask[w] /\ runs[m] < 2 THEN runs[m] + 1 ELSE runs[m]]
      /\ wtask' = [wtask EXCEPT ![w] = None]
      /\ wpc' = [wpc EXCEPT ![w] = "top"]
      /\ UNCHANGED <<mpc, lock, queue, accepted>>
  BY DEF WorkerDone
<1>2. UNCHANGED <<tasks, head, tail, count>>
  BY <1>1 DEF queue
<1>3. /\ wtask' \in [Workers -> Msgs \cup {None}]
      /\ \A v \in Workers : wtask'[v] = IF v = w THEN None ELSE wtask[v]
  BY <1>1 DEF QuietTypes
<1>4. wtask[w] \in Msgs \cup {None} /\ None \notin Msgs
  BY StartAssumption DEF QuietTypes
<1>5. \A m \in Msgs : runs[m] \in 0..2
  BY DEF QuietTypes
<1>6. \A m \in Msgs : m # wtask[w] => runs'[m] = runs[m]
  BY <1>1
<1>7. wtask[w] \in Msgs => runs'[wtask[w]] = 1 /\ wtask[w] \in accepted
  BY <1>1, <1>4 DEF QuietOnce
<1>8. runs' \in [Msgs -> 0..2]
  <2>1. \A m \in Msgs : (IF m = wtask[w] /\ runs[m] < 2 THEN runs[m] + 1 ELSE runs[m]) \in 0..2
    BY <1>5
  <2>2. QED
    BY <1>1, <2>1
<1>9. QuietTypes'
  BY <1>1, <1>2, <1>3, <1>8 DEF QuietTypes
<1>10. QuietReset' /\ QuietRing'
  BY <1>1, <1>2 DEF QuietReset, QuietRing
<1>11. QuietLock'
  BY <1>1, <1>2 DEF QuietLock, QuietTypes, Inside
<1>12. QuietOnce'
  <2>1. \A n \in Slots : Live(n)' <=> Live(n)
    BY <1>2 DEF Live
  <2>2. ASSUME NEW n \in Slots, Live(n)'
        PROVE  /\ tasks'[n] \in accepted'
               /\ runs'[tasks'[n]] = 0
               /\ \A v \in Workers : wtask'[v] # tasks'[n]
               /\ \A k \in Slots : Live(k)' /\ tasks'[k] = tasks'[n] => k = n
    <3>1. tasks[n] \in Msgs /\ tasks[n] # wtask[w] /\ tasks[n] # None
      BY <1>4, <2>1, <2>2 DEF QuietOnce, QuietTypes
    <3>2. QED
      BY <1>1, <1>2, <1>3, <1>6, <2>1, <2>2, <3>1 DEF QuietOnce
  <2>3. ASSUME NEW v \in Workers, wtask'[v] # None
        PROVE  /\ wtask'[v] \in accepted'
               /\ runs'[wtask'[v]] = 0
               /\ \A u \in Workers : wtask'[u] = wtask'[v] => u = v
    <3>1. v # w /\ wtask'[v] = wtask[v] /\ wtask[v] # None
      BY <1>3, <2>3
    <3>2. wtask[v] # wtask[w] /\ wtask[v] \in Msgs
      BY <3>1 DEF QuietOnce, QuietTypes
    <3>3. QED
      BY <1>1, <1>3, <1>6, <3>1, <3>2 DEF QuietOnce
  <2>4. \A x \in Msgs : runs'[x] < 2 /\ (runs'[x] > 0 => x \in accepted')
    <3>1. ASSUME NEW x \in Msgs PROVE runs'[x] < 2 /\ (runs'[x] > 0 => x \in accepted')
      <4>1. CASE x = wtask[w]
        BY <1>1, <1>7, <4>1
      <4>2. CASE x # wtask[w]
        BY <1>1, <1>6, <4>2 DEF QuietOnce
      <4>3. QED
        BY <4>1, <4>2
    <3>2. QED
      BY <3>1
  <2>5. QED
    BY <2>2, <2>3, <2>4 DEF QuietOnce
<1>13. QED
  BY <1>9, <1>10, <1>11, <1>12

-----------------------------------------------------------------------------
(* The theorem.                                                            *)

\* Nothing is taken out of the set of accepted messages, and the mutex is
\* initialised once: a start that is undisturbed has been so.
LEMMA BeforeUndisturbed ==
    ASSUME [Next]_vars, Undisturbed'
    PROVE  QuietStart /\ (~InitMutex => caught = {})
<1>1. accepted \subseteq accepted' /\ (~InitMutex => caught' = caught)
  BY DEF Next, vars, Enqueue, EnqueueBlocks, PluginsDone, CreateFails, MainStep, CreateWorker,
         ResetQueue, InitMutex, InitCond, WorkerStep, WorkerLock, WorkerTest, WorkerWait, WorkerTake,
         WorkerDone
<1>2. QED
  BY <1>1 DEF QuietStart, Undisturbed

\* The variable caught is set by pthread_mutex_init only.
LEMMA NextCaught == CaughtInv /\ [Next]_vars => CaughtInv'
  BY DEF CaughtInv, Next, vars, Enqueue, EnqueueBlocks, PluginsDone, CreateFails, MainStep,
         CreateWorker, ResetQueue, InitMutex, InitCond, WorkerStep, WorkerLock, WorkerTest,
         WorkerWait, WorkerTake, WorkerDone

\* Every step keeps the invariant.
LEMMA NextSInv == CaughtInv /\ SInv /\ [Next]_vars => SInv'
<1> SUFFICES ASSUME CaughtInv, SInv, [Next]_vars, Undisturbed' PROVE QuietInv'
  BY DEF SInv
<1>1. QuietInv
  <2>1. InitMutex => caught = {}
    BY DEF InitMutex, CaughtInv
  <2>2. QED
    BY <2>1, BeforeUndisturbed DEF SInv, Undisturbed
<1>2. CASE UNCHANGED vars
  BY <1>1, <1>2 DEF QuietInv, QuietTypes, QuietReset, QuietRing, QuietLock, QuietOnce, Inside, Live,
                    vars, queue
<1>3. ASSUME NEW m \in Msgs, Enqueue(m) \/ EnqueueBlocks(m) PROVE QuietInv'
  BY <1>1, <1>3, EnqueueKeeps, MainKeeps
<1>4. CASE PluginsDone \/ CreateFails \/ MainStep
  BY <1>1, <1>4, MainKeeps, ResetKeeps DEF MainStep
<1>5. ASSUME NEW w \in Workers, WorkerStep(w) PROVE QuietInv'
  BY <1>1, <1>5, WorkerTopKeeps, WorkerTakeKeeps, WorkerDoneKeeps DEF WorkerStep
<1>6. QED
  BY <1>2, <1>3, <1>4, <1>5 DEF Next

\* bus_init creates the workers before it resets the queue and initialises its
\* mutex.  If no start function has published and no worker is inside its critical
\* section at pthread_mutex_init, then whatever else the workers do meanwhile,
\* count stays in its range and no message is delivered twice.
THEOREM BusStartHarmless == Spec => []ResetHarmless
<1>1. SInv => ResetHarmless
  BY StartAssumption DEF SInv, QuietInv, QuietTypes, QuietOnce, ResetHarmless
<1>2. Init => CaughtInv
  BY DEF Init, CaughtInv
<1>3. QED
  BY <1>1, <1>2, InitSInv, NextSInv, NextCaught, PTL DEF Spec

=============================================================================
