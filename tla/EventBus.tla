------------------------------ MODULE EventBus ------------------------------
(***************************************************************************)
(* The publish/subscribe bus of CoreCDTL (src/core/event_bus.c), from the  *)
(* return of bus_init to the end of bus_shutdown.                          *)
(*                                                                         *)
(* A publisher looks up the subscription under sub_mutex, copies the data  *)
(* and, still holding sub_mutex, puts a task into the ring buffer, waiting *)
(* on cond_not_full while it is full.  Worker threads take tasks and run   *)
(* the callbacks, which may publish and subscribe themselves.  A critical  *)
(* section of the queue mutex is one step; sub_mutex, which is held across *)
(* the wait, is a variable.                                                *)
(***************************************************************************)
EXTENDS Integers, SequencesExt

CONSTANTS
    Workers,    \* the threads of pthread_pool
    Clients,    \* other threads that publish and subscribe
    Keys,       \* (plugin_id, event) pairs
    MaxTasks,   \* MAX_TASKS
    MaxMsgs,    \* bound: number of malloc'ed copies of published data
    MaxSubs,    \* bound: number of subscriptions
    Nesting,    \* do callbacks call the bus?
    Faults,     \* where plugin code may crash: subset of {"callback", "memcpy"}
    None, Gone  \* sub_mutex: free, destroyed

Threads == Workers \cup Clients
Msgs == 1..MaxMsgs
NoMsg == 0

ASSUME BusAssumption ==
    /\ Workers # {}
    /\ Workers \cap Clients = {}
    /\ None \notin Threads /\ Gone \notin Threads /\ None # Gone
    /\ MaxTasks \in Nat \ {0}
    /\ MaxMsgs \in Nat
    /\ MaxSubs \in Nat
    /\ Nesting \in BOOLEAN

VARIABLES
    g_head,              \* subscriptions, newest first
    sub_mutex,           \* its holder, None or Gone
    tasks, head, tail, count,   \* the ring buffer
    g_bus_shut_down,
    data,                \* each malloc'ed copy: "unused", "live" or "freed"
    wpc, wtask,          \* control point and task of each worker
    pc, ptask,           \* control point and task of each thread in bus_publish
    mpc,                 \* control point of the main thread in bus_shutdown
    critical,            \* subscriptions handed to add_event_bus_critical_error
    last                 \* outcome of the call that returned last

ring == <<tasks, head, tail, count>>
work == <<wpc, wtask>>
pub  == <<pc, ptask>>
vars == <<g_head, sub_mutex, ring, g_bus_shut_down, data, work, pub, mpc, critical, last>>

Sub    == [id : 1..MaxSubs, key : Keys]
Task   == [data : Msgs, sub : Sub]
NoTask == [data |-> NoMsg, sub |-> None]

Init ==
    /\ g_head = <<>>
    /\ sub_mutex = None
    /\ tasks = [i \in 0..(MaxTasks - 1) |-> NoTask]
    /\ head = 0 /\ tail = 0 /\ count = 0
    /\ g_bus_shut_down = FALSE
    /\ data = [m \in Msgs |-> "unused"]
    /\ wpc = [w \in Workers |-> "top"]
    /\ wtask = [w \in Workers |-> NoTask]
    /\ pc = [t \in Threads |-> "idle"]
    /\ ptask = [t \in Threads |-> NoTask]
    /\ mpc = "run"
    /\ critical = {}
    /\ last = [op |-> "none", ret |-> 0, data |-> NoMsg, msg |-> FALSE]

-----------------------------------------------------------------------------
(* Helpers.                                                                *)

MutSignalNone(f, waiting, running) == {f}

\* pthread_cond_signal: one waiter, if there is any, leaves the wait.
Signal(f, waiting, running) ==
    LET asleep == {x \in DOMAIN f : f[x] = waiting}
    IN  IF asleep = {} THEN {f} ELSE {[f EXCEPT ![x] = running] : x \in asleep}

\* A thread can call the bus when it is in no call; a worker from a callback.
CanCall(t) == pc[t] = "idle" /\ (t \in Workers => Nesting /\ wpc[t] = "cb")

\* The search of bus_publish stops at the first match: the latest subscriber.
Matches(k, i) ==
    /\ g_head[i].key = k
    /\ \A j \in 1..(i - 1) : g_head[j].key # k

Found(k) == {i \in 1..Len(g_head) : Matches(k, i)}

\* malloc for the copy of the data.
Fresh(m) == data[m] = "unused" /\ \A n \in 1..(m - 1) : data[n] # "unused"

MutNext(i) == (i + 1) % (MaxTasks + 1)

NextSlot(i) == (i + 1) % MaxTasks

-----------------------------------------------------------------------------
(* bus_subscribe and bus_publish.                                          *)

\* Invalid arguments, or a failed allocation before the lock.
CallRejected(t, op, ret) ==
    /\ CanCall(t)
    /\ last' = [op |-> op, ret |-> ret, data |-> NoMsg, msg |-> FALSE]
    /\ UNCHANGED <<g_head, sub_mutex, ring, g_bus_shut_down, data, work, pub, mpc, critical>>

\* The call goes on to lock sub_mutex, and blocks there while it is held.  No
\* call begins once core_shutdown is over.
CallLock(t) ==
    /\ CanCall(t)
    /\ mpc # "done"
    /\ pc' = [pc EXCEPT ![t] = "lock"]
    /\ UNCHANGED <<g_head, sub_mutex, ring, g_bus_shut_down, data, work, ptask, mpc, critical, last>>

\* bus_subscribe: the new subscription becomes the head of the list.  The
\* gateway is told when it is connected (its flag is not synchronised).
bus_subscribe(t, k) ==
    /\ pc[t] = "lock"
    /\ sub_mutex = None
    /\ Len(g_head) < MaxSubs
    /\ g_head' = <<[id |-> Len(g_head) + 1, key |-> k]>> \o g_head
    /\ pc' = [pc EXCEPT ![t] = "idle"]
    /\ \E msg \in BOOLEAN :
          last' = [op |-> "subscribe", ret |-> 0, data |-> NoMsg, msg |-> msg]
    /\ UNCHANGED <<sub_mutex, ring, g_bus_shut_down, data, work, ptask, mpc, critical>>

\* bus_publish finds no subscription (4), which a connected gateway is told,
\* or cannot allocate the copy (5).
PublishFails(t, k) ==
    /\ pc[t] = "lock"
    /\ sub_mutex \in {None, Gone}
    /\ LET ret == IF Found(k) = {} THEN 4 ELSE 5
       IN \E msg \in {FALSE, ret = 4} :
          last' = [op |-> "publish", ret |-> ret, data |-> NoMsg, msg |-> msg]
    /\ pc' = [pc EXCEPT ![t] = "idle"]
    /\ UNCHANGED <<g_head, sub_mutex, ring, g_bus_shut_down, data, work, ptask, mpc, critical>>

\* bus_publish up to enqueue_task: sub_mutex stays locked.
PublishLookup(t, k) ==
    /\ pc[t] = "lock"
    /\ sub_mutex = None
    /\ \E i \in Found(k), m \in Msgs :
        /\ Fresh(m)
        /\ data' = [data EXCEPT ![m] = "live"]
        /\ ptask' = [ptask EXCEPT ![t] = [data |-> m, sub |-> g_head[i]]]
    /\ sub_mutex' = t
    /\ pc' = [pc EXCEPT ![t] = "enqueue"]
    /\ UNCHANGED <<g_head, ring, g_bus_shut_down, work, mpc, critical, last>>

\* enqueue_task: the queue is full, wait.
EnqueueWait(t) ==
    /\ pc[t] = "enqueue"
    /\ count = MaxTasks
    /\ ~g_bus_shut_down
    /\ pc' = [pc EXCEPT ![t] = "waitfull"]
    /\ UNCHANGED <<g_head, sub_mutex, ring, g_bus_shut_down, data, work, ptask, mpc, critical, last>>

\* sub_mutex is not released.
MutPublishReturn(t) ==
    /\ sub_mutex' = sub_mutex
    /\ pc' = [pc EXCEPT ![t] = "idle"]
    /\ ptask' = [ptask EXCEPT ![t] = NoTask]
    /\ last' = [op |-> "publish", ret |-> 0, data |-> ptask[t].data, msg |-> FALSE]

\* The end of bus_publish: both mutexes are released, the result is 0.
PublishReturn(t) ==
    /\ sub_mutex' = None
    /\ pc' = [pc EXCEPT ![t] = "idle"]
    /\ ptask' = [ptask EXCEPT ![t] = NoTask]
    /\ last' = [op |-> "publish", ret |-> 0, data |-> ptask[t].data, msg |-> FALSE]

\* The test for a full queue is not repeated after the wait.
MutEnqueuePush(t) ==
    /\ pc[t] = "enqueue"
    /\ ~g_bus_shut_down
    /\ tasks' = [tasks EXCEPT ![tail] = ptask[t]]
    /\ tail' = NextSlot(tail)
    /\ count' = count + 1
    /\ wpc' \in Signal(wpc, "waitempty", "top")
    /\ PublishReturn(t)
    /\ UNCHANGED <<g_head, head, g_bus_shut_down, data, wtask, mpc, critical>>

\* enqueue_task stores the task and signals a worker.
EnqueuePush(t) ==
    /\ pc[t] = "enqueue"
    /\ count < MaxTasks
    /\ ~g_bus_shut_down
    /\ tasks' = [tasks EXCEPT ![tail] = ptask[t]]
    /\ tail' = NextSlot(tail)
    /\ count' = count + 1
    /\ wpc' \in Signal(wpc, "waitempty", "top")
    /\ PublishReturn(t)
    /\ UNCHANGED <<g_head, head, g_bus_shut_down, data, wtask, mpc, critical>>

\* enqueue_task answers -1 once the bus shuts down; bus_publish ignores it.
EnqueueRefuse(t) ==
    /\ pc[t] = "enqueue"
    /\ g_bus_shut_down
    /\ PublishReturn(t)
    /\ UNCHANGED <<g_head, ring, g_bus_shut_down, data, work, mpc, critical>>

-----------------------------------------------------------------------------
(* bus_worker_thread.                                                      *)

\* Nothing to do: wait on cond_not_empty.
WorkerWait(w) ==
    /\ wpc[w] = "top"
    /\ count = 0
    /\ ~g_bus_shut_down
    /\ wpc' = [wpc EXCEPT ![w] = "waitempty"]
    /\ UNCHANGED <<g_head, sub_mutex, ring, g_bus_shut_down, data, wtask, pub, mpc, critical, last>>

MutLeaves == g_bus_shut_down

\* The worker leaves only when the queue is empty.
Leaves == g_bus_shut_down /\ count = 0

WorkerExit(w) ==
    /\ wpc[w] = "top"
    /\ Leaves
    /\ wpc' = [wpc EXCEPT ![w] = "exit"]
    /\ UNCHANGED <<g_head, sub_mutex, ring, g_bus_shut_down, data, wtask, pub, mpc, critical, last>>

\* Take the oldest task, signal a publisher, run the callback.
WorkerTake(w) ==
    /\ wpc[w] = "top"
    /\ count > 0
    /\ ~Leaves
    /\ wtask' = [wtask EXCEPT ![w] = tasks[head]]
    /\ head' = NextSlot(head)
    /\ count' = count - 1
    /\ wpc' = [wpc EXCEPT ![w] = "cb"]
    /\ pc' \in Signal(pc, "waitfull", "enqueue")
    /\ UNCHANGED <<g_head, sub_mutex, tasks, tail, g_bus_shut_down, data, ptask, mpc, critical, last>>

MutKeepsData(w) == data

\* free(task.data)
Released(w) == [data EXCEPT ![wtask[w].data] = "freed"]

\* The callback is over: free the data, next round.
TaskDone(w) ==
    /\ wpc[w] = "cb"
    /\ wpc' = [wpc EXCEPT ![w] = "top"]
    /\ wtask' = [wtask EXCEPT ![w] = NoTask]

CbReturn(w) ==
    /\ pc[w] = "idle"
    /\ TaskDone(w)
    /\ data' = Released(w)
    /\ UNCHANGED <<g_head, sub_mutex, ring, g_bus_shut_down, pub, mpc, critical, last>>

\* The callback crashes: the signal handler jumps back to sigsetjmp, the
\* crash is recorded and the data freed.
CbCrash(w) ==
    /\ "callback" \in Faults
    /\ pc[w] = "idle"
    /\ TaskDone(w)
    /\ data' = Released(w)
    /\ critical' = critical \cup {wtask[w].sub}
    /\ UNCHANGED <<g_head, sub_mutex, ring, g_bus_shut_down, pub, mpc, last>>

\* A nested bus_publish crashes in the memcpy of its argument: the jump leaves
\* the function with sub_mutex locked and the new copy allocated.
CopyCrash(w, k) ==
    /\ "memcpy" \in Faults
    /\ pc[w] = "lock"
    /\ sub_mutex = None
    /\ Found(k) # {}
    /\ \E m \in Msgs :
        /\ Fresh(m)
        /\ data' = [Released(w) EXCEPT ![m] = "live"]
    /\ TaskDone(w)
    /\ pc' = [pc EXCEPT ![w] = "idle"]
    /\ sub_mutex' = w
    /\ critical' = critical \cup {wtask[w].sub}
    /\ UNCHANGED <<g_head, ring, g_bus_shut_down, ptask, mpc, last>>

-----------------------------------------------------------------------------
(* bus_shutdown, on the main thread.                                       *)

ShutdownSignal ==
    /\ mpc = "run"
    /\ g_bus_shut_down' = TRUE
    /\ wpc' = [w \in Workers |-> IF wpc[w] = "waitempty" THEN "top" ELSE wpc[w]]
    /\ mpc' = "join"
    /\ UNCHANGED <<g_head, sub_mutex, ring, data, wtask, pub, critical, last>>

MutJoined == \E w \in Workers : wpc[w] = "exit"

Joined == \A w \in Workers : wpc[w] = "exit"

ShutdownJoin ==
    /\ mpc = "join"
    /\ Joined
    /\ mpc' = "drain"
    /\ UNCHANGED <<g_head, sub_mutex, ring, g_bus_shut_down, data, work, pub, critical, last>>

\* The occupied slots, oldest first.
Occupied == [i \in 1..count |-> tasks[(head + i - 1) % MaxTasks]]

\* Free the data of what is left in the queue, destroy its mutex and conditions.
ShutdownDrain ==
    /\ mpc = "drain"
    /\ data' = [m \in Msgs |-> IF \E i \in 1..count : Occupied[i].data = m
                              THEN "freed" ELSE data[m]]
    /\ mpc' = "subs"
    /\ UNCHANGED <<g_head, sub_mutex, ring, g_bus_shut_down, work, pub, critical, last>>

\* Free the subscriptions under sub_mutex and destroy it.
ShutdownSubs ==
    /\ mpc = "subs"
    /\ sub_mutex = None
    /\ g_head' = <<>>
    /\ sub_mutex' = Gone
    /\ mpc' = "done"
    /\ UNCHANGED <<ring, g_bus_shut_down, data, work, pub, critical, last>>

-----------------------------------------------------------------------------
\* A condition wait may end without a signal.
SpuriousWake ==
    /\ \/ \E t \in Threads : pc[t] = "waitfull" /\ pc' = [pc EXCEPT ![t] = "enqueue"] /\ UNCHANGED wpc
       \/ \E w \in Workers : wpc[w] = "waitempty" /\ wpc' = [wpc EXCEPT ![w] = "top"] /\ UNCHANGED pc
    /\ UNCHANGED <<g_head, sub_mutex, ring, g_bus_shut_down, data, wtask, ptask, mpc, critical, last>>

\* A call begins: the first errors of bus_publish, those of bus_subscribe,
\* or the lock.
Call(t) ==
    \/ \E ret \in 1..3 : CallRejected(t, "publish", ret)
    \/ CallRejected(t, "subscribe", -1)
    \/ CallLock(t)

\* The steps of a call that has begun, and those of a worker.
CallStep(t) ==
    \/ \E k \in Keys : bus_subscribe(t, k) \/ PublishFails(t, k) \/ PublishLookup(t, k)
    \/ EnqueueWait(t) \/ EnqueuePush(t) \/ EnqueueRefuse(t)
WorkerStep(w) == WorkerWait(w) \/ WorkerExit(w) \/ WorkerTake(w)
ShutdownStep == ShutdownJoin \/ ShutdownDrain \/ ShutdownSubs

Next ==
    \/ \E t \in Threads : Call(t) \/ CallStep(t)
    \/ \E w \in Workers : WorkerStep(w) \/ CbReturn(w) \/ CbCrash(w) \/ \E k \in Keys : CopyCrash(w, k)
    \/ ShutdownSignal \/ ShutdownStep
    \/ SpuriousWake

Spec == Init /\ [][Next]_vars

\* A thread that can run does run and callbacks return; nobody has to call
\* the bus, to shut it down or to wake up spuriously.
Fairness ==
    /\ \A t \in Threads : WF_vars(CallStep(t))
    /\ \A w \in Workers : WF_vars(WorkerStep(w)) /\ WF_vars(CbReturn(w))
    /\ WF_vars(ShutdownStep)

FairSpec == Spec /\ Fairness

-----------------------------------------------------------------------------
(* Properties.                                                             *)

\* The types of the variables.
TypeOK ==
    /\ g_head \in Seq(Sub)
    /\ Len(g_head) <= MaxSubs
    /\ sub_mutex \in Threads \cup {None, Gone}
    /\ tasks \in [0..(MaxTasks - 1) -> Task \cup {NoTask}]
    /\ head \in 0..(MaxTasks - 1)
    /\ tail \in 0..(MaxTasks - 1)
    /\ count \in 0..MaxTasks
    /\ g_bus_shut_down \in BOOLEAN
    /\ data \in [Msgs -> {"unused", "live", "freed"}]
    /\ wpc \in [Workers -> {"top", "waitempty", "cb", "exit"}]
    /\ wtask \in [Workers -> Task \cup {NoTask}]
    /\ pc \in [Threads -> {"idle", "lock", "enqueue", "waitfull"}]
    /\ ptask \in [Threads -> Task \cup {NoTask}]
    /\ mpc \in {"run", "join", "drain", "subs", "done"}
    /\ critical \subseteq Sub

\* The ring's indices agree with the number of tasks in it.
RingConsistent == tail = (head + count) % MaxTasks

InQueue(m) == \E i \in 1..count : Occupied[i].data = m
InCallback(w, m) == wpc[w] = "cb" /\ wtask[w].data = m
InEnqueue(t) == pc[t] \in {"enqueue", "waitfull"}
InPublish(t, m) == InEnqueue(t) /\ ptask[t].data = m

\* A published copy has one holder at a time: one slot of the ring, one worker
\* or one publisher; a copy somebody holds is never freed under him, so no
\* task is delivered twice and no copy freed twice.
DataOwnership ==
    /\ \A i, j \in 1..count : Occupied[i].data = Occupied[j].data => i = j
    /\ \A m \in Msgs :
        /\ InQueue(m) => \A w \in Workers : ~InCallback(w, m)
        /\ InQueue(m) \/ (\E w \in Workers : InCallback(w, m)) =>
               \A t \in Threads : ~InPublish(t, m)
        /\ \A v, w \in Workers : InCallback(v, m) /\ InCallback(w, m) => v = w
        /\ InQueue(m) \/ (\E w \in Workers : InCallback(w, m))
                      \/ (\E t \in Threads : InPublish(t, m)) => data[m] = "live"

\* No subscription is freed while a queued task, a running callback or a
\* publisher still points at it.
SubsOutliveTasks ==
    LET alive == Range(g_head)
    IN  /\ \A i \in 1..count : Occupied[i].sub \in alive
        /\ \A w \in Workers : wpc[w] = "cb" => wtask[w].sub \in alive
        /\ \A t \in Threads : InEnqueue(t) => ptask[t].sub \in alive

\* Everything accepted has been delivered when bus_shutdown has joined the
\* workers: nothing is left for its clean-up loop.
DrainedAtJoin == mpc \in {"drain", "subs", "done"} => count = 0

\* No wake-up is lost, although each condition variable is signalled once per
\* task and never broadcast to publishers: a publisher sleeps only while the
\* queue is full, and the workers never all sleep or leave with a task queued.
WaitersWoken ==
    /\ \A t \in Threads : pc[t] = "waitfull" => count = MaxTasks
    /\ count > 0 => \E w \in Workers : wpc[w] \in {"top", "cb"}

\* The ring buffer implements the bounded closable FIFO.
Queue == INSTANCE TaskQueue WITH Capacity <- MaxTasks, queue <- Occupied,
                                 closed <- g_bus_shut_down
IsFifo == Queue!Spec

\* Until the bus shuts down every allocated copy has a holder that will free it
\* or pass it on: no crash of a callback and no wait loses one.
NoLeakWhileUp ==
    ~g_bus_shut_down =>
        \A m \in Msgs : data[m] = "live" =>
            \/ InQueue(m)
            \/ \E w \in Workers : InCallback(w, m)
            \/ \E t \in Threads : InPublish(t, m)

\* What bus_publish has answered 0 for before the shutdown began is eventually
\* delivered, a shutdown notwithstanding, and its copy freed.
Delivered ==
    \A m \in Msgs :
        (last.op = "publish" /\ last.ret = 0 /\ last.data = m /\ ~g_bus_shut_down)
            ~> data[m] = "freed"

\* A publisher does not wait forever.
PublishReturns == \A t \in Threads : InEnqueue(t) ~> ~InEnqueue(t)

\* bus_shutdown returns.
ShutdownTerminates == mpc = "join" ~> mpc = "done"

=============================================================================
