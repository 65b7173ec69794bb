----------------------------- MODULE Scheduler -----------------------------
(***************************************************************************)
(* The timer service of CoreCDTL (src/core/scheduler.c).                   *)
(*                                                                         *)
(* One scheduler thread owns a list of timers sorted by due time.  Plugin  *)
(* code arms and cancels timers from any thread, its own timer callbacks   *)
(* included; the main thread starts and stops the service.  A critical     *)
(* section of g_mtx is one step; what the code does outside the mutex (the *)
(* increment of g_next_id, the callback, the read of t->id before the      *)
(* return) is a step of its own.                                           *)
(***************************************************************************)
EXTENDS Integers, SequencesExt

CONSTANTS
    Clients,     \* the threads other than the scheduler thread
    Owner,       \* the client that runs core_init and core_shutdown
    Sched,       \* the scheduler thread
    Callers,     \* the threads whose plugin code uses the timer API
    Plugins,     \* plugin ids
    Delays,      \* the values of the ms argument
    MaxTimers,   \* bound: number of malloc'ed timers
    MaxNow,      \* bound: the last clock value
    Slip,        \* bound: clock advance between the two clock reads of a timed wait
    TimeMod,     \* clock arithmetic is modulo TimeMod (2^64 in the code)
    GarbageIds   \* what a read of t->id may yield once t has been freed

NoTimer == 0
Timers  == 1..MaxTimers
Threads == Clients \cup {Sched}

ASSUME SchedulerAssumption ==
    /\ Owner \in Clients
    /\ Sched \notin Clients
    /\ Callers \subseteq Threads
    /\ Plugins # {}
    /\ Delays \subseteq Nat
    /\ MaxTimers \in Nat
    /\ MaxNow \in Nat
    /\ Slip \in Nat
    /\ TimeMod \in Nat \ {0}
    /\ GarbageIds \subseteq Int

VARIABLES
    now,        \* what now_ms() returns
    g_timers,   \* the list, as a sequence of timer blocks
    g_next_id,
    g_running,
    timer,      \* contents of each block; kept when the block is freed
    heap,       \* "unused", "live" or "freed"
    thr,        \* control point of the scheduler thread
    cur,        \* the block t of sched_thread whose callback runs, or NoTimer
    deadline,   \* argument of pthread_cond_timedwait
    phase,      \* control point of the owner in scheduler_init/scheduler_shutdown
    call,       \* control point of each thread in after_ms/every_ms
    errlog,     \* records handed to add_scheduler_critical_error
    last        \* outcome of the API call that returned last

vars == <<now, g_timers, g_next_id, g_running, timer, heap, thr, cur,
          deadline, phase, call, errlog, last>>

blocks   == <<timer, heap>>
thread   == <<thr, cur, deadline>>
service  == <<g_running, phase>>
outcomes == <<errlog, last>>

\* A timer block.  fires is history: the callbacks started, counted up to two.
TimerRec == [id : Nat, due : 0..(TimeMod - 1), interval : Nat,
             plugin : Plugins, repeating : BOOLEAN, fires : 0..2]

Blank == [id |-> 0, due |-> 0, interval |-> 0,
          plugin |-> CHOOSE p \in Plugins : TRUE, repeating |-> FALSE, fires |-> 0]

Idle == [pc |-> "idle", obj |-> NoTimer, ms |-> 0]

Init ==
    /\ now = 0
    /\ g_timers = <<>>
    /\ g_next_id = 1
    /\ g_running = FALSE
    /\ timer = [o \in Timers |-> Blank]
    /\ heap = [o \in Timers |-> "unused"]
    /\ thr = "none"
    /\ cur = NoTimer
    /\ deadline = 0
    /\ phase = "off"
    /\ call = [t \in Threads |-> Idle]
    /\ errlog = {}
    /\ last = [op |-> "none", plugin |-> Blank.plugin, obj |-> NoTimer, ret |-> 0,
               missed |-> {}, msg |-> FALSE]

-----------------------------------------------------------------------------
(* The list. *)

MutSlotBeforeEqual(list, tm, d, k) ==
    /\ \A i \in 1..k : tm[list[i]].due < d
    /\ k < Len(list) => d <= tm[list[k + 1]].due

MutSlotFront(list, tm, d, k) == k = 0

\* The walk of insert_timer stops after the k-th node: every node up to it is
\* due no later than d, and the node after it, if any, is due later.
Slot(list, tm, d, k) ==
    /\ \A i \in 1..k : tm[list[i]].due <= d
    /\ k < Len(list) => d < tm[list[k + 1]].due

\* insert_timer(t): block o, with the contents tm[o], is linked in at its place.
insert_timer(o, tm) ==
    \E k \in 0..Len(g_timers) :
        /\ Slot(g_timers, tm, tm[o].due, k)
        /\ g_timers' = InsertAt(g_timers, k + 1, o)

MutDueIn(o, ms) == [timer EXCEPT ![o].due = now - ms]

\* The contents of the blocks once o has been given the due time now_ms() + ms.
DueIn(o, ms) == [timer EXCEPT ![o].due = (now + ms) % TimeMod]

MutNotWoken == thr

\* pthread_cond_broadcast(&g_cv): only the scheduler thread ever waits on it.
Woken == IF thr \in {"wait", "timedwait"} THEN "loop" ELSE thr

-----------------------------------------------------------------------------
(* scheduler_after_ms, scheduler_every_ms and scheduler_cancel.            *)

\* A thread can start a call when it is in none; the scheduler thread only
\* inside a timer callback, the owner not inside scheduler_shutdown.
CanCall(t) ==
    /\ t \in Callers
    /\ call[t].pc = "idle"
    /\ t = Sched => thr = "cb"
    /\ t = Owner => phase \notin {"join", "free"}

Returned(op, p, o, ret, missed, msg) ==
    last' = [op |-> op, plugin |-> p, obj |-> o, ret |-> ret, missed |-> missed, msg |-> msg]

\* Invalid arguments (no callback, or a period of 0) or a failed malloc.
AddFails(t, p) ==
    /\ CanCall(t)
    /\ Returned("add", p, NoTimer, -1, {}, FALSE)
    /\ UNCHANGED <<now, g_timers, g_next_id, blocks, thread, service, call, errlog>>

\* malloc, and the load half of the unsynchronised g_next_id++.
AddLoad(t, p, ms, rep) ==
    /\ CanCall(t)
    /\ rep => ms # 0
    /\ \E o \in Timers :
        /\ heap[o] = "unused"
        /\ \A q \in 1..(o - 1) : heap[q] # "unused"
        /\ heap' = [heap EXCEPT ![o] = "live"]
        /\ timer' = [timer EXCEPT ![o] =
               [Blank EXCEPT !.id = g_next_id, !.plugin = p, !.repeating = rep,
                             !.interval = IF rep THEN ms ELSE 0]]
        /\ call' = [call EXCEPT ![t] = [pc |-> "store", obj |-> o, ms |-> ms]]
    /\ UNCHANGED <<now, g_timers, g_next_id, thread, service, outcomes>>

\* The store half of g_next_id++, and t->due_ms = now_ms() + ms.
AddStore(t) ==
    /\ call[t].pc = "store"
    /\ g_next_id' = timer[call[t].obj].id + 1
    /\ timer' = DueIn(call[t].obj, call[t].ms)
    /\ call' = [call EXCEPT ![t].pc = "insert"]
    /\ UNCHANGED <<now, g_timers, heap, thread, service, outcomes>>

\* The critical section: insert_timer and the broadcast.
AddInsert(t) ==
    /\ call[t].pc = "insert"
    /\ insert_timer(call[t].obj, timer)
    /\ thr' = Woken
    /\ call' = [call EXCEPT ![t].pc = "return"]
    /\ UNCHANGED <<now, g_next_id, blocks, cur, deadline, service, outcomes>>

\* After the unlock t->id is read again, for the gateway message and as the
\* result; by then the timer may have fired, or been cancelled, and be freed.
\* The gateway flag is written by other threads without a lock: any value.
AddReturn(t) ==
    /\ call[t].pc = "return"
    /\ LET o == call[t].obj
           read == {timer[o].id} \cup (IF heap[o] = "live" THEN {} ELSE GarbageIds)
       IN \E msg \in BOOLEAN, r \in read : Returned("add", timer[o].plugin, o, r, {}, msg)
    /\ call' = [call EXCEPT ![t] = Idle]
    /\ UNCHANGED <<now, g_timers, g_next_id, blocks, thread, service, errlog>>

MutMatchAnyPlugin(p, id, o) == timer[o].id = id

\* The comparison of scheduler_cancel.
Match(p, id, o) == timer[o].id = id /\ timer[o].plugin = p

MutStillLinked(k) == g_timers

\* The list without its k-th node.
Unlinked(k) == RemoveAt(g_timers, k)

\* The first match is unlinked and freed.
CancelFound(t, p, id) ==
    /\ CanCall(t)
    /\ id > 0
    /\ \E k \in 1..Len(g_timers) :
        /\ Match(p, id, g_timers[k])
        /\ \A j \in 1..(k - 1) : ~Match(p, id, g_timers[j])
        /\ g_timers' = Unlinked(k)
        /\ heap' = [heap EXCEPT ![g_timers[k]] = "freed"]
        /\ Returned("cancel", p, g_timers[k], 0, {}, FALSE)
    /\ UNCHANGED <<now, timer, g_next_id, thread, service, call, errlog>>

\* The timer in flight, when it will be linked in again after its callback.
Recurring == {o \in {cur} \ {NoTimer} : timer[o].repeating /\ g_running}

\* No match: -1, reported to a connected gateway unless id <= 0.  The history
\* field missed records whether such a timer was in flight.
CancelMissed(t, p, id) ==
    /\ CanCall(t)
    /\ id > 0 => \A k \in 1..Len(g_timers) : ~Match(p, id, g_timers[k])
    /\ \E msg \in {FALSE, id > 0} :
           Returned("cancel", p, NoTimer, -1, {o \in Recurring : Match(p, id, o)}, msg)
    /\ UNCHANGED <<now, g_timers, g_next_id, blocks, thread, service, call, errlog>>

-----------------------------------------------------------------------------
(* sched_thread.                                                           *)

\* A step of the thread that only moves its control point.
Goto(from, to) ==
    /\ thr \in from
    /\ thr' = to
    /\ UNCHANGED <<now, g_timers, g_next_id, blocks, cur, service, call, last>>

\* The loop condition is false: the thread function returns.
SchedExit == ~g_running /\ Goto({"loop"}, "exit") /\ UNCHANGED <<deadline, errlog>>

\* No timer: wait for a broadcast.
SchedWait ==
    g_running /\ g_timers = <<>> /\ Goto({"loop"}, "wait") /\ UNCHANGED <<deadline, errlog>>

IsDue(o) == timer[o].due <= now

\* The head is not due: timed wait.  The absolute time is the head's wait
\* time added to a second reading of the clock, up to Slip later.
SchedTimedWait ==
    /\ g_running
    /\ g_timers # <<>>
    /\ ~IsDue(g_timers[1])
    /\ \E late \in 0..Slip : deadline' = timer[g_timers[1]].due + late
    /\ Goto({"loop"}, "timedwait")
    /\ UNCHANGED errlog

Fired(t) == [t EXCEPT !.fires = IF t.fires = 0 THEN 1 ELSE 2]

\* The head is due: pop it and, the mutex released, run its callback.
SchedPop ==
    /\ thr = "loop"
    /\ g_running
    /\ g_timers # <<>>
    /\ IsDue(g_timers[1])
    /\ cur' = g_timers[1]
    /\ timer' = [timer EXCEPT ![g_timers[1]] = Fired(@)]
    /\ g_timers' = RemoveAt(g_timers, 1)
    /\ thr' = "cb"
    /\ UNCHANGED <<now, heap, g_next_id, deadline, service, call, outcomes>>

\* The wait ends: at the deadline, or spuriously.
WakeTimeout  == deadline <= now /\ Goto({"timedwait"}, "loop") /\ UNCHANGED <<deadline, errlog>>
WakeSpurious == Goto({"wait", "timedwait"}, "loop") /\ UNCHANGED <<deadline, errlog>>

\* The callback returns ...
CbReturn == call[Sched].pc = "idle" /\ Goto({"cb"}, "rearm") /\ UNCHANGED <<deadline, errlog>>

\* ... or crashes in plugin code: the signal handler jumps back to sigsetjmp
\* and t->plugin_id, t->id are recorded.
CbCrash ==
    /\ call[Sched].pc = "idle"
    /\ Goto({"cb"}, "rearm")
    /\ errlog' = errlog \cup {[plugin |-> timer[cur].plugin, id |-> timer[cur].id]}
    /\ UNCHANGED deadline

MutRearmsOneShot == g_running
MutRearmsNever == FALSE

Rearms == timer[cur].repeating /\ g_running

\* Back under the mutex: a repeating timer is linked in again ...
Rearm ==
    /\ thr = "rearm"
    /\ Rearms
    /\ timer' = DueIn(cur, timer[cur].interval)
    /\ insert_timer(cur, timer')
    /\ cur' = NoTimer
    /\ thr' = "loop"
    /\ UNCHANGED <<now, heap, g_next_id, deadline, service, call, outcomes>>

\* ... and any other timer is freed.
Dispose ==
    /\ thr = "rearm"
    /\ ~Rearms
    /\ heap' = [heap EXCEPT ![cur] = "freed"]
    /\ cur' = NoTimer
    /\ thr' = "loop"
    /\ UNCHANGED <<now, timer, g_timers, g_next_id, deadline, service, call, outcomes>>

-----------------------------------------------------------------------------
(* scheduler_init and scheduler_shutdown, called once by the owner.        *)

\* pthread_create succeeds (the thread is at the top of its loop), or fails.
scheduler_init(ok) ==
    /\ phase = "off"
    /\ call[Owner].pc = "idle"
    /\ phase' = IF ok THEN "up" ELSE "failed"
    /\ g_running' = ok
    /\ thr' = IF ok THEN "loop" ELSE "none"
    /\ UNCHANGED <<now, g_timers, g_next_id, blocks, cur, deadline, call, outcomes>>

\* The first critical section of scheduler_shutdown.
ShutdownSignal ==
    /\ phase = "up"
    /\ call[Owner].pc = "idle"
    /\ g_running' = FALSE
    /\ thr' = Woken
    /\ phase' = "join"
    /\ UNCHANGED <<now, g_timers, g_next_id, blocks, cur, deadline, call, outcomes>>

MutJoinable == TRUE

\* pthread_join(g_thr) waits for the thread function to return.
Joinable == thr = "exit"

ShutdownJoin ==
    /\ phase = "join"
    /\ Joinable
    /\ phase' = "free"
    /\ UNCHANGED <<now, g_timers, g_next_id, blocks, thread, g_running, call, outcomes>>

\* The second critical section: free the list.
ShutdownFree ==
    /\ phase = "free"
    /\ heap' = [o \in Timers |-> IF o \in Range(g_timers) THEN "freed" ELSE heap[o]]
    /\ g_timers' = <<>>
    /\ phase' = "done"
    /\ UNCHANGED <<now, timer, g_next_id, thread, g_running, call, outcomes>>

-----------------------------------------------------------------------------
\* CLOCK_REALTIME, without adjustments.
Tick ==
    /\ now < MaxNow
    /\ now' = now + 1
    /\ UNCHANGED <<g_timers, g_next_id, blocks, thread, service, call, outcomes>>

\* A call begins.  Only ids that have been issued, and 0, are worth cancelling.
Call(t) ==
    \E p \in Plugins :
        \/ AddFails(t, p)
        \/ \E ms \in Delays, rep \in BOOLEAN : AddLoad(t, p, ms, rep)
        \/ \E id \in 0..(g_next_id - 1) : CancelFound(t, p, id) \/ CancelMissed(t, p, id)

\* The other steps of a call.
CallStep(t) == AddStore(t) \/ AddInsert(t) \/ AddReturn(t)

\* The steps the scheduler thread takes by itself.
SchedStep ==
    \/ SchedExit \/ SchedWait \/ SchedTimedWait \/ SchedPop
    \/ WakeTimeout \/ Rearm \/ Dispose

Next ==
    \/ \E t \in Threads : Call(t) \/ CallStep(t)
    \/ SchedStep \/ WakeSpurious \/ CbReturn \/ CbCrash
    \/ \E ok \in BOOLEAN : scheduler_init(ok)
    \/ ShutdownSignal \/ ShutdownJoin \/ ShutdownFree
    \/ Tick

Spec == Init /\ [][Next]_vars

\* A thread that can run does run, the clock advances, and callbacks return.
\* Nobody has to call the API, to stop the service or to wake up spuriously.
Fairness ==
    /\ WF_vars(SchedStep)
    /\ WF_vars(CbReturn)
    /\ WF_vars(Tick)
    /\ WF_vars(ShutdownJoin \/ ShutdownFree)
    /\ \A t \in Threads : WF_vars(CallStep(t))

FairSpec == Spec /\ Fairness

-----------------------------------------------------------------------------
(* Properties. *)

\* The types of the variables.
TypeOK ==
    /\ now \in 0..MaxNow
    /\ g_timers \in Seq(Timers)
    /\ g_next_id \in Nat \ {0}
    /\ g_running \in BOOLEAN
    /\ timer \in [Timers -> TimerRec]
    /\ heap \in [Timers -> {"unused", "live", "freed"}]
    /\ thr \in {"none", "loop", "wait", "timedwait", "cb", "rearm", "exit"}
    /\ cur \in Timers \cup {NoTimer}
    /\ deadline \in Nat
    /\ phase \in {"off", "failed", "up", "join", "free", "done"}
    /\ call \in [Threads -> [pc : {"idle", "store", "insert", "return"},
                             obj : Timers \cup {NoTimer}, ms : Nat]]
    /\ errlog \subseteq [plugin : Plugins, id : Nat]

\* Block o is being set up by a call of thread t, not yet linked in.
Private(t, o) == call[t].pc \in {"store", "insert"} /\ call[t].obj = o

In(list, o) == \E i \in 1..Len(list) : list[i] = o

Linked(o) == In(g_timers, o)

Distinct(list) == \A i, j \in 1..Len(list) : list[i] = list[j] => i = j

SortedBy(list, tm) ==
    \A i, j \in 1..Len(list) : i < j => tm[list[i]].due <= tm[list[j]].due

\* No block is linked twice, in flight while linked, or being set up by two
\* threads or while another holder has it.
OneHolder ==
    /\ Distinct(g_timers)
    /\ \A o \in Timers :
        /\ Linked(o) => o # cur
        /\ \A t \in Threads : Private(t, o) => ~Linked(o) /\ o # cur
        /\ \A t, u \in Threads : Private(t, o) /\ Private(u, o) => t = u

\* A block is live exactly while somebody holds it: the list, the scheduler
\* thread, or the call that is setting it up.
HeldIffLive ==
    \A o \in Timers :
        heap[o] = "live" <=> Linked(o) \/ o = cur \/ \E t \in Threads : Private(t, o)

\* Blocks are freed on five paths (cancel, one-shot, stop during a callback,
\* shutdown, crash); whatever threads interleave, the list never holds a freed
\* block, none is freed twice, the block of a running callback is not freed
\* under it, and none is lost.
TimerOwnership == OneHolder /\ HeldIffLive

\* The list is sorted by due time: sched_thread looks at the head only.
Sorted == SortedBy(g_timers, timer)

\* A one-shot timer fires at most once, also when its callback crashes or
\* re-enters the API.
OneShotOnce == \A o \in Timers : ~timer[o].repeating => timer[o].fires < 2

\* Once scheduler_shutdown has joined the thread no callback runs any more.
ShutdownQuiesces == phase \in {"free", "done"} => cur = NoTimer /\ thr = "exit"

\* A sleeping thread never sleeps past the due time of the earliest timer:
\* no insertion is missed, however it races with the wait.
NoMissedWakeup ==
    /\ thr = "wait" /\ g_running => g_timers = <<>>
    /\ thr = "timedwait" /\ g_running /\ g_timers # <<>> =>
          deadline <= timer[g_timers[1]].due + Slip

\* Timers with equal due times fire in the order they were armed: a step that
\* links a block in puts it behind every block due no later.
FifoAmongEquals ==
    [][\A o \in Timers : Linked(o)' /\ ~Linked(o) =>
          \A i, j \in 1..Len(g_timers') :
              g_timers'[i] = o /\ i < j => timer'[o].due < timer'[g_timers'[j]].due]_vars

\* A repeating timer stops only because its own plugin cancelled it, with the
\* answer 0, or the service stops; not by a crash of its callback.
RepeatingSurvives ==
    [][\A o \in Timers :
          timer[o].repeating /\ heap[o] = "live" /\ heap'[o] # "live" =>
              \/ /\ last'.op = "cancel" /\ last'.ret = 0
                 /\ last'.obj = o /\ last'.plugin = timer[o].plugin
              \/ ~g_running]_vars

\* tests/test_scheduler.c: cancelling the id of an armed timer answers 0.
CancelStops == last.op = "cancel" /\ last.ret = -1 => last.missed = {}

\* A linked timer whose time comes within the modelled clock is eventually
\* popped or cancelled, unless the service is stopped.
DueTimerFires ==
    \A o \in Timers :
        (g_running /\ Linked(o) /\ timer[o].due + Slip <= MaxNow) ~> (~g_running \/ ~Linked(o))

\* scheduler_shutdown returns.
ShutdownTerminates == phase = "join" ~> phase = "done"

=============================================================================
