------------------------------ MODULE BusStart ------------------------------
(***************************************************************************)
(* The start of the event bus: bus_init (src/core/event_bus.c), as         *)
(* core_init (src/core/runtime.c) calls it.                                *)
(*                                                                         *)
(* core_init loads the plugins first, and their start functions may        *)
(* publish; then bus_init creates the worker threads, and only then, while *)
(* they run and without the mutex, it resets the queue and initialises the *)
(* mutex and the condition variables.  A worker's lock, its test of count, *)
(* and its wait or its update of the queue are steps of their own, for     *)
(* bus_init can come between any two of them.  No publisher is inside its  *)
(* critical section then: enqueue_task is one step.                        *)
(***************************************************************************)
EXTENDS Integers, FiniteSets

CONSTANTS
    Workers,    \* the threads bus_init creates
    Early,      \* messages published by the plugins' start functions
    Late,       \* messages published after bus_init
    MaxTasks,   \* MAX_TASKS
    SizeMod,    \* size_t arithmetic is modulo SizeMod
    None

Msgs == Early \cup Late

ASSUME StartAssumption ==
    /\ Early \cap Late = {} /\ None \notin Workers \cup Msgs
    /\ MaxTasks \in Nat \ {0}
    /\ SizeMod \in Nat /\ SizeMod > MaxTasks

VARIABLES
    mpc,                        \* control point of the main thread
    wpc, wtask,                 \* control point and task of each worker
    lock,                       \* holder of the queue mutex
    caught,                     \* workers that held it when it was initialised
    tasks, head, tail, count,
    accepted,                   \* messages enqueue_task has stored
    runs                        \* number of deliveries of each message, up to 2

queue == <<tasks, head, tail, count>>
vars  == <<mpc, wpc, wtask, lock, caught, queue, accepted, runs>>

\* Static storage: the queue is zero, which is also a valid state of the mutex
\* and of the condition variables.
Init ==
    /\ mpc = "plugins"
    /\ wpc = [w \in Workers |-> "none"]
    /\ wtask = [w \in Workers |-> None]
    /\ lock = None
    /\ caught = {}
    /\ tasks = [n \in 0..(MaxTasks - 1) |-> None]
    /\ head = 0 /\ tail = 0 /\ count = 0
    /\ accepted = {}
    /\ runs = [m \in Msgs |-> 0]

-----------------------------------------------------------------------------
MutSignal == {wpc}

\* pthread_cond_signal(&cond_not_empty): it wakes a waiter that the condition
\* variable knows of.
Signal ==
    LET waiting == {w \in Workers : wpc[w] = "wait"}
    IN  IF waiting = {} THEN {wpc} ELSE {[wpc EXCEPT ![w] = "top"] : w \in waiting}

\* enqueue_task, in a plugin's start function or later.
Enqueue(m) ==
    /\ \/ m \in Early /\ mpc = "plugins"
       \/ m \in Late /\ mpc = "up"
    /\ m \notin accepted
    /\ lock = None
    /\ count # MaxTasks
    /\ tasks' = [tasks EXCEPT ![tail] = m]
    /\ tail' = (tail + 1) % MaxTasks
    /\ count' = (count + 1) % SizeMod
    /\ accepted' = accepted \cup {m}
    /\ wpc' \in Signal
    /\ UNCHANGED <<mpc, wtask, lock, caught, head, runs>>

\* enqueue_task of a start function finds the queue full: the main thread
\* waits on cond_not_full, and there is no worker yet.
EnqueueBlocks(m) ==
    /\ m \in Early \ accepted
    /\ mpc = "plugins"
    /\ count = MaxTasks
    /\ mpc' = "blocked"
    /\ UNCHANGED <<wpc, wtask, lock, caught, queue, accepted, runs>>

\* plugin_init returns; core_init calls bus_init.
PluginsDone ==
    /\ mpc = "plugins"
    /\ mpc' = "create"
    /\ UNCHANGED <<wpc, wtask, lock, caught, queue, accepted, runs>>

-----------------------------------------------------------------------------
(* bus_init.                                                               *)

\* One iteration of the loop that creates the threads ...
CreateWorker(w) ==
    /\ mpc = "create"
    /\ wpc[w] = "none"
    /\ wpc' = [wpc EXCEPT ![w] = "top"]
    /\ UNCHANGED <<mpc, wtask, lock, caught, queue, accepted, runs>>

\* ... which a failed malloc or pthread_create ends, with -1.
CreateFails ==
    /\ mpc = "create"
    /\ \E w \in Workers : wpc[w] = "none"
    /\ mpc' = "failed"
    /\ UNCHANGED <<wpc, wtask, lock, caught, queue, accepted, runs>>

Created == \A w \in Workers : wpc[w] # "none"

\* head = tail = count = 0, without the mutex.
ResetQueue ==
    /\ mpc = "create"
    /\ Created
    /\ head' = 0 /\ tail' = 0 /\ count' = 0
    /\ mpc' = "init"
    /\ UNCHANGED <<wpc, wtask, lock, caught, tasks, accepted, runs>>

\* The critical section: between the return of pthread_mutex_lock and the call
\* that unlocks, pthread_cond_wait or pthread_mutex_unlock.
Inside(w) == wpc[w] \in {"test", "sleep", "take"}

\* pthread_mutex_init, undefined for a mutex in use: it is free afterwards, also
\* when a worker is inside, and who is blocked in pthread_mutex_lock may never be
\* woken (the unlock finds no sign of a waiter).
InitMutex ==
    /\ mpc = "init"
    /\ lock' = None
    /\ caught' = {w \in Workers : Inside(w)}
    /\ \E stranded \in SUBSET {w \in Workers : wpc[w] = "top" /\ lock # None} :
          wpc' = [w \in Workers |-> IF w \in stranded THEN "lost" ELSE wpc[w]]
    /\ mpc' = "cond"
    /\ UNCHANGED <<wtask, queue, accepted, runs>>

\* pthread_cond_init, undefined while there are waiters: each may be forgotten
\* (glibc clears its waiter count) or not.
InitCond ==
    /\ mpc = "cond"
    /\ \E forgotten \in SUBSET {w \in Workers : wpc[w] = "wait"} :
          wpc' = [w \in Workers |-> IF w \in forgotten THEN "lost" ELSE wpc[w]]
    /\ mpc' = "up"
    /\ UNCHANGED <<wtask, lock, caught, queue, accepted, runs>>

-----------------------------------------------------------------------------
(* bus_worker_thread.                                                      *)

MutWorkerLock(w) ==
    /\ wpc[w] = "top"
    /\ lock' = w
    /\ wpc' = [wpc EXCEPT ![w] = "test"]
    /\ UNCHANGED <<mpc, wtask, caught, queue, accepted, runs>>

\* pthread_mutex_lock, at the top of the loop or at the end of a wait.
WorkerLock(w) ==
    /\ wpc[w] = "top"
    /\ lock = None
    /\ lock' = w
    /\ wpc' = [wpc EXCEPT ![w] = "test"]
    /\ UNCHANGED <<mpc, wtask, caught, queue, accepted, runs>>

\* count == 0
WorkerTest(w) ==
    /\ wpc[w] = "test"
    /\ wpc' = [wpc EXCEPT ![w] = IF count = 0 THEN "sleep" ELSE "take"]
    /\ UNCHANGED <<mpc, wtask, lock, caught, queue, accepted, runs>>

\* pthread_cond_wait: from now on the worker can be signalled, and the mutex is
\* released, whoever has it.
WorkerWait(w) ==
    /\ wpc[w] = "sleep"
    /\ wpc' = [wpc EXCEPT ![w] = "wait"]
    /\ lock' = None
    /\ UNCHANGED <<mpc, wtask, caught, queue, accepted, runs>>

\* count--
Taken == (count - 1) % SizeMod

\* The task is copied out of the queue and the mutex released, whoever has it.
WorkerTake(w) ==
    /\ wpc[w] = "take"
    /\ wtask' = [wtask EXCEPT ![w] = tasks[head]]
    /\ head' = (head + 1) % MaxTasks
    /\ count' = Taken
    /\ lock' = None
    /\ wpc' = [wpc EXCEPT ![w] = "cb"]
    /\ UNCHANGED <<mpc, caught, tasks, tail, accepted, runs>>

\* The callback runs, unless the slot never held a task (sub_ptr is NULL).
WorkerDone(w) ==
    /\ wpc[w] = "cb"
    /\ runs' = [m \in Msgs |-> IF m = wtask[w] /\ runs[m] < 2 THEN runs[m] + 1 ELSE runs[m]]
    /\ wtask' = [wtask EXCEPT ![w] = None]
    /\ wpc' = [wpc EXCEPT ![w] = "top"]
    /\ UNCHANGED <<mpc, lock, caught, queue, accepted>>

WorkerStep(w) ==
    WorkerLock(w) \/ WorkerTest(w) \/ WorkerWait(w) \/ WorkerTake(w) \/ WorkerDone(w)

MainStep ==
    \/ \E w \in Workers : CreateWorker(w)
    \/ ResetQueue \/ InitMutex \/ InitCond

Next ==
    \/ \E m \in Msgs : Enqueue(m) \/ EnqueueBlocks(m)
    \/ PluginsDone \/ CreateFails \/ MainStep
    \/ \E w \in Workers : WorkerStep(w)

Spec == Init /\ [][Next]_vars

\* Threads that can run do run; nobody has to publish.
FairSpec ==
    /\ Spec
    /\ WF_vars(MainStep)
    /\ \A w \in Workers : WF_vars(WorkerStep(w))

-----------------------------------------------------------------------------
(* Properties.                                                             *)

\* No plugin has published from its start function.
QuietStart == accepted \cap Early = {}

\* What the start of the bus relies on without ensuring it: besides, no worker was
\* inside its critical section at the moment of pthread_mutex_init.
Undisturbed == QuietStart /\ caught = {}

\* That is all it relies on: then the workers that run before the queue, the
\* mutex and the conditions are initialised do no harm.  count never leaves its
\* range and no message is delivered twice ...
ResetHarmless == Undisturbed => count <= MaxTasks /\ \A m \in Msgs : runs[m] < 2

\* ... and what is accepted after bus_init is delivered, unless the condition
\* variable was initialised under waiting workers and has forgotten all of them.
LateDelivered ==
    \A m \in Late :
        (m \in accepted /\ Undisturbed) ~> (runs[m] > 0 \/ \A w \in Workers : wpc[w] = "lost")

=============================================================================
