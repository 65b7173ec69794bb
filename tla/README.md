# CoreCDTL in TLA+

A verification project for CoreCDTL, the plugin runtime in this repository: TLA+
modules for its concurrent parts, TLC configurations that check them on small
instances, and proofs of the main invariants that TLAPS checks for all
instances. Source paths below are relative to the repository root.

## 1. The system

CoreCDTL is one process (the *core*) that loads plugins as shared libraries and
gives them an API, plus a small client `corecdtl-ctl`.

| Component | State | Operations | Talks to |
|---|---|---|---|
| Scheduler `src/core/scheduler.c` | sorted list of timers, id counter, running flag | `scheduler_after_ms`, `_every_ms`, `_cancel`, `_init`, `_shutdown`; one thread | plugin callbacks, critical errors, gateway messages |
| Event bus `src/core/event_bus.c` | subscription list, ring buffer of tasks, shutdown flag | `bus_subscribe`, `bus_publish`, `bus_init`, `bus_shutdown`; worker threads | the same |
| Crash recovery, critical errors `src/core/crash_recovery.c`, `src/core/log.c` | slots and a bitmap | signal handler, `add_*_critical_error`, consumer thread | called by scheduler and bus threads after a crash |
| Plugin loader and manager `src/plugin/*.c` | table of plugins, id counter | load, initialise, start, stop, shut down, reboot, look up names and functions | plugin functions, HeapKit, stubs |
| Gateway `src/gateway/*.c` | library handle, flags, message arena | load/start by command, `gateway_msg_send`, dispatcher thread | every component that reports |
| Control plane `src/core/cored.c`, `src/core/core_ctl.c`, `ctl/corecdtl-ctl.c` | PID file, SIGUSR1, `g_ctl_run`, Unix socket, session | connect, command, timeout | gateway |
| Runtime `src/core/runtime.c` | order of start and stop | `core_init`, `core_shutdown` | everything |
| HeapKit `src/core/heapkit.c` | registry of types, one instance of each | register, set, get, to text, from text | plugin loader, plugins through stubs, gateway library |
| JIT and stubs `src/jit/llvm_jit.c`, `libs/jit/jit_stub_generator.cpp`, `src/plugin/plugin_stub.c` | the stub library, loaded around `plugin_init` | one generated function per plugin and API function, with the id built in | plugin loader |
| Strings, ordinary logging | – | pure functions, output | – |

What is hard here is concurrency: callbacks of plugin code run with locks
released and call back into the API; condition variables are waited on with a
second lock held; a crash in a callback is caught by a signal handler that jumps
out of it; shutdown overlaps with calls; and the control plane joins a signal, a
PID file and a socket. What makes each part correct:

* scheduler: no timer block is used after it is freed or lost; the list is
  sorted; no due time is slept over; a one-shot fires once; shutdown ends;
* bus: the ring is a bounded FIFO; each copy of data has one user;
  subscriptions outlive the tasks that point at them; nobody waits forever;
* critical errors: no record is freed twice, lost or left unwritten;
* plugins: an id leads to its plugin, its types and its name; recorded and real
  state agree;
* HeapKit: fields do not overlap; a set changes one field and is answered
  truthfully; text restores the values it was made from;
* gateway: stored messages are handed over once and in order; one dispatcher;
* control plane: a signal opens the socket, sessions end, the core survives.

`PROJECT.json` lists the components, and under `hazards` each line where one of
these can go wrong, with the properties that are about it.

## 2. The modules

Each critical section of a mutex is one step, unless the code keeps that mutex
across a wait or a callback; then the mutex is a variable. What the code does
outside its mutexes is a step of its own. Data (payloads, names, texts) are
values that are only compared.

**Scheduler** (`scheduler.c`). `g_timers` is the list as a sequence of blocks,
`timer` and `heap` are the blocks' contents and allocation state, `thr`, `cur`
and `deadline` are the scheduler thread, `call` is each thread's position in an
arming call, `phase` the owner's in init/shutdown. `after_ms`/`every_ms` are four
steps: allocate and read `g_next_id` (`AddLoad`), store it (`AddStore`, the two
halves of the unsynchronised `++`), the critical section (`AddInsert`), and the
return, which reads `t->id` again (`AddReturn`). The thread's steps are
`SchedExit/Wait/TimedWait/Pop`, `CbReturn/CbCrash` and `Rearm/Dispose`. A freed
block is not reused, so a late read is visible.

**TaskQueue** is what the bus promises of its queue: a bounded FIFO that can be
closed. **EventBus** (`event_bus.c` from the return of `bus_init` on) implements
it. `sub_mutex` is a variable, since `bus_publish` holds it while `enqueue_task`
waits; `wpc` and `pc` are kept apart because a worker inside a callback may itself be
in a call. `Faults` says where plugin code crashes: in a callback, or inside
the `memcpy` of a nested publish, which leaves `sub_mutex` locked.

**BusStart** is `bus_init` as `core_init` calls it: plugins have been started
(and may have published), the workers already run, and the queue is reset under
them. Here a worker's lock, its test of `count`, and its wait or its update are
steps of their own, and so are the reset of the queue, `pthread_mutex_init` and
`pthread_cond_init`: each of them can find a worker between any two of its steps.
`InitMutex` leaves the mutex free under a worker that has it (remembered in
`caught`) and may strand those that are blocked in `pthread_mutex_lock`;
`InitCond` may forget the workers that wait.

**CriticalErrors**: `crash_handler` either finds the marker and jumps back or
ends the process; the thread then puts a record into the first unmarked slot, and keeps the mutex meanwhile if it first has to send the
record to a connected gateway (`AddSends`).
`Width` and `Slots` are 32 and 63 in the code; `Shifts` is what the undefined
`1U << n` may yield.

**PluginManager**: `llvm_jit_init`, `plugin_load` with each stage that may fail,
the two loops of `plugin_init`, and the operations by id. `life` is what each
plugin has been told by calls into it, as opposed to the `state` in the table.
A stub is what it does: a function with the plugin's id built in (`api` in a
table entry). Through its stubs a plugin leaves `hooks`, timers and
subscriptions that call its code with its id; they stay when the plugin is
discarded and its library closed, and then crash (`HookCrashes`), which the
critical error queue records under the name that the id leads to. `types` is who
registered what under which id; a plugin that fails late leaves its types behind.

**HeapKit**: the lines of the data files (`StructLine`, `FieldLine`, and
`hk_type_register` at an `end` line), then sets by plugins and texts for the
gateway. An instance is a sequence of bytes; a text is a sequence of symbols, in
which a name, a number, a word or a character counts as one, so that the
separators and the sizes of the buffers keep their meaning. Printing and parsing
are modelled by what they do (`%.3f` rounds, `%c` of NUL ends the text; the empty
pieces that `strtok` skips are skipped when tokens are assigned). `hk_serialize` takes one step per field, and sets come in
between; `held` keeps a text with the values it was made from. A field line
beyond `HEAPKIT_MAX_FIELD` writes past the array: the model stops in the phase
`wild`. The order of loading here and in PluginManager is the same; there the
contents of a data file are one step, here the rest of the loading is left out.

**Gateway**: the commands of a session that concern the gateway, senders, the
arena and the dispatcher. `core_ctl.c` has a static variable
`gateway_is_alive` of its own, which is never assigned; the branches it guards,
and the functions only they call, are therefore never executed and have no action.

**ControlPlane**: `corecdtl_init`, the SIGUSR1 handler, `core_loop` with the
socket, and any number of clients. The commands themselves are in Gateway.

The `MC*` modules declare the model values; each `.cfg` is one run.
The proofs about a module `M` are in `MProofs`; HeapKit's rest on a module of
lemmas about its operators, `HeapKitLemmas`. Definitions named `Mut...` are variants of the definition that
follows them with a plausible mistake; they are used by no specification and show that
the properties can fail.

## 3. The runs

Runs that pass:

| Run | Properties | Instance |
|---|---|---|
| `scheduler_service` | TypeOK, TimerOwnership, Sorted, NoMissedWakeup, OneShotOnce, ShutdownQuiesces, FifoAmongEquals, RepeatingSurvives, DueTimerFires, ShutdownTerminates | a client thread and the callbacks arm and cancel two timers, one-shot and repeating, due now or later, while the owner starts and shuts down |
| `bus_safety` | TypeOK, WaitersWoken, DataOwnership, SubsOutliveTasks, DrainedAtJoin, IsFifo | two workers, one client, ring of 2, calls out of callbacks, both kinds of crash, shutdown |
| `bus_liveness` | NoLeakWhileUp, Delivered, PublishReturns, ShutdownTerminates | two workers, two clients, callbacks that crash but do not publish |
| `bus_start` | ResetHarmless, LateDelivered | ring of 2, three messages published by start functions and two after them; workers between any two of their steps while `bus_init` runs |
| `errors_code` | RecordOwnership, NoMissedSignal, OwnSlotKept, RecordsWritten | two crashing threads, 3 slots on 2 bits, four records, both outcomes of the shift, with and without a gateway to send to |
| `plugins_safety` | OwnTypes, IdsLeadHome, RunningIsVisible | two plugins with none, some or all optional functions, a failure at any stage, hooks that crash, any sequence of operations |
| `heapkit_data` | Layout, SetTellsTruth, Restores | two data files, two types, two fields each with all kinds of trouble in their values, a registry of two, one text held by the gateway library |
| `gateway_commands` | TypeOK, NoneLost, SetUpOnce, Delivered, SendReturns | two senders, three messages, an arena they fill, a library that may call back, all commands |
| `control_sessions` | SignalOpensSocket, PendingServed, CommandAnswered | two clients, failing `bind` and `select`, clients that hang up, signals in any state |

What these show, part by part. *Scheduler*: whatever the interleaving of arming,
cancelling, firing, crashing and shutting down, each block has exactly one owner,
the thread never sleeps past the head of a sorted list, timers due together fire
in the order they were armed, and each due timer fires unless the scheduler is
shut down. *Bus*: the ring behaves as the abstract FIFO of TaskQueue, each
copy of data is freed once, no wake-up is lost, and as long as callbacks do not
publish, every accepted message is delivered and every call returns. *Start*: that the
queue, its mutex and its conditions are initialised under running workers does no
harm only if nothing was published by start functions and no worker is inside its
critical section at `pthread_mutex_init`; then `count` stays in range, and later
messages are delivered, once, unless `pthread_cond_init` made the condition forget
every worker. Nothing in the code ensures either condition; without the second,
TLC finds that a worker which was preempted inside and another one both take the
first message, `count` wraps around, and the message is taken and its data freed
once more.
*Critical errors*: a slot is never freed under its writer, the consumer does not
sleep over a marked slot, and a record in a slot whose bit no other slot shares is
kept and written; for the other slots see `errors_lost`. *Plugins*: a plugin that
can be stopped does not run while the table calls it stopped or killed; its stubs reach the types of its own data file and no others, also after
other plugins have failed; and as long as no plugin failed after it was given an
id, an operation on an id reaches its plugin. *HeapKit*: whatever the
data files contain (within the limit of fields), layouts are sound, a set is
answered truthfully with one exception, and a text restores what was read,
provided that it fits its buffers (of the whole text, at most a separator at the
end may be cut off), the fields have distinct names, none of them a separator, and
the values contain neither the separator nor, before another field, a NUL. *Gateway*: what the arena stores the library gets once and in order.
*Control plane*: a session is ended by command, hang-up or timeout, and clients
that wait in `connect` are served while the process lives.

Runs in which the code contradicts what the repository says of it (`findings` in
`PROJECT.json` quotes both sides):

| Run | Property | What it shows |
|---|---|---|
| `scheduler_cancel` | CancelStops | a cancel of a repeating timer while its callback runs is refused, and the timer goes on |
| `errors_lost` | NoneLost | 63 slots on a 32-bit map: a record is dropped and leaks |
| `plugins_ids` | RightPluginCalled | a plugin that fails late uses up an id; an operation on this id, which nobody has, is not answered as "not found" but done to the plugin loaded after it |

**Bounds.** Blocks, messages and records are allocated once each (`MaxTimers`,
`MaxMsgs`, `MaxRecs`); two to four are enough for a holder, a
competitor and a neighbour in a list. A ring of two slots with three messages
wraps around and fills up. Three slots on two bits is the smallest table with an
aliased bit. Two threads of each kind give every race between equals. The
clock runs to `MaxNow`; with delays 0 and 1 timers are due now, later, and
together, and a repeating timer is armed again before the clock stops. `TimeMod`,
the width of the clock's type, is not reached in the runs. `GarbageIds` is what freed memory may contain. Ids beyond
those given out are never found, so one of them stands for all. `Capacity` lets
the arena refuse a message while others are stored. In `heapkit_data` the two
files can use one type name for both plugins, repeat it, and fill the registry
with a third type; `TempLen` and `BufLen` (256 and 1024 bytes in the code) are
such that a string of two symbols is cut in the one and a text of two fields in
the other; the field lines cover a character, a string, a pointer and a rounded
number, and two fields of one name.

**Fairness.** Threads that can run do run (weak fairness of each thread's own
steps: pthreads and the kernel's scheduler), the clock advances, and plugin
callbacks return – without that no statement about the bus or the scheduler is
possible, since the code has no timeout for callbacks. Strong fairness is
assumed where a thread competes for a mutex again and again (the gateway's
dispatcher and senders; the signal handler against `core_loop`), and for a
`bind` that is retried forever. Nobody has to call the API, to shut down, to crash or to
wake up spuriously. For the critical errors the consumer has strong fairness, since producers
compete with it for the mutex, and `gateway_msg_send` returns, which is what
`SendReturns` shows of it as long as `on_data` does not send. In the control plane
the commands that `handle_ctl_command` executes, and the functions of the gateway
library that they call, return. Symmetry is used where all properties are invariants and the
values are alike: the directories in `plugins_safety`, the names of types in
`heapkit_data`.

**Deadlock checking** is off where the system really may stop: after a
completed shutdown with all bounds used up, after the end of the process, or, in
the bus and `bus_start` runs, in the blocked states that are themselves part of
the code's behaviour; in `heapkit_data`, where memory has been overwritten. It is on for the scheduler and the gateway.

### Behaviours of the models without a run of their own

These are outcomes of the code that the models contain; the properties above are
stated so as to hold in spite of them, and say so.

| Where | Action | Behaviour |
|---|---|---|
| `scheduler.c:211` | AddReturn | the id is read from the block after the unlock, when the timer may have fired and been freed |
| `scheduler.c:189` | AddLoad, AddStore | `g_next_id++` without the lock: two timers may get one id |
| `scheduler.c:166` | AddInsert | a timer armed after the list was freed is never freed |
| `scheduler.c:191` | DueIn | the due time of a huge delay wraps around (`TimeMod`) and the timer fires at once |
| `event_bus.c:155` | PublishLookup, EnqueueWait | callbacks that publish into a full queue deadlock the bus: one waits for a slot with `sub_mutex` held, the other workers' callbacks wait for `sub_mutex`, and nobody takes a task |
| `event_bus.c:192` | CopyCrash | a crash in the `memcpy` of a nested publish leaves `sub_mutex` locked |
| `event_bus.c:195` | EnqueueRefuse | a task refused in a shutdown is answered 0, and its copy of the data is lost |
| `event_bus.c:65` | ResetQueue | what start functions published before `bus_init` may be discarded |
| `event_bus.c:68` | InitMutex | a worker that is inside its critical section loses the mutex: two workers take one task, `count` wraps below 0, and the ring is gone round again, with data freed twice |
| `event_bus.c:69` | InitCond | workers that wait while the condition is initialised may be forgotten |
| `log.c:300` | AddSends | a record is sent to the gateway with the queue's mutex held: while the dispatcher is busy in `on_data`, no other crash is recorded or written |
| `plugin_manager.c:146` | plugin_initialize | a failed start is answered as success |
| `plugin_loader.c:281` | FreeName | a name that points into a `dirent` is freed: the process may end |
| `plugin_loader.c:49` | plugin_get_p_id | a name taken from the directory entry dangles after `closedir`: a look-up may miss the plugin |
| `plugin_loader.c:235` | FieldLine | more than `HEAPKIT_MAX_FIELD` field lines write past the array (`wild`) |
| `plugin_loader.c:250` | hk_type_register, LoadFails | a plugin that fails over its second type leaves the first one registered |
| `plugin_manager.c:28` | Discard, HookCrashes | timers and subscriptions of a discarded plugin call into a closed library, and the crash is recorded without a name |
| `heapkit.c:108` | hk_set_field | with a gateway connected a pointer is stored, the search goes on, and the answer is -2 |
| `heapkit.c:224` | FieldText | `%c` of NUL ends the text of a field before its `;`, so that it runs into the next one |
| `heapkit.c:247` | hk_deserialize | a text of 1024 bytes and more is cut silently |
| `gateway_dispatcher.c:99` | OnDataSends | a library whose `on_data` sends a message waits for the mutex its own thread holds |
| `core_ctl.c:32` | ctl_gateway_is_alive | the shadowing variable: status answers Stopped, stop is refused |
| `cored.c:30` | HandleSignalOnLoop | the handler locks the mutex of the thread it interrupts |
| `cored.c:71` | ConnectSignal | a SIGUSR1 between the PID file and the handler ends the process |
| `core_ctl.c:201` | WriteResponse | an answer to a client that has left raises SIGPIPE |
| `ctl/corecdtl-ctl.c:107` | SendCommand | `g_connected` is not reset, so a command goes to a closed connection |

The model of the control plane assumes that daemon and client agree on the path
of the PID file. On Linux they do not (`src/core/runtime.h:13` and
`ctl/corecdtl-ctl.c:18`), so there the client never finds the daemon.

## 4. What is proved

TLAPS checks these theorems for all values of the constants that satisfy the
assumption named in each module (`SchedulerAssumption`, `BusAssumption`,
`StartAssumption`, `ErrorsAssumption`, `ManagerAssumption`, `HeapKitAssumption`,
`GatewayAssumption`). They say little more than that bounds are naturals, sets of
threads disjoint, and capacities positive.
Every proof goes along an inductive invariant; what follows says what it adds to
the properties and why that is needed. On the instances of the runs TLC confirms
these invariants too, but for types that range over infinite sets.

* **Scheduler** – `SchedulerTypes`, `SchedulerOwnership`, `SchedulerSorted`,
  `SchedulerWakes`, `SchedulerQuiesces`. The inductive invariant `IInv` is
  TypeOK, TimerOwnership, Sorted and NoMissedWakeup together with `CallInv` (a
  call in progress works on a real block) and `ThreadInv` (the thread has a block
  exactly from pop to re-arm, and exists exactly between init and join). Neither
  part is inductive alone: that a re-armed block is not in the list needs
  ownership, that the list stays sorted when it is put back needs that its
  due time was changed while nobody else held it, and quiescence needs both.
  The first lemmas say what inserting into and removing from a sequence do.
  `SchedulerOneShot` needs `OneShotInv` on top: a one-shot block that is in the
  list, or with a thread that is about to arm it, has not fired; so taking it from the
  list is its first and only firing. The action properties `SchedulerFifo` and
  `SchedulerSurvives` are consequences of `IInv` alone, step by step.
* **Event bus** – `BusTypes`, `BusRing`, `BusOwnership`, `BusSubsOutlive`,
  `BusDrained`, `BusWakes`, `BusNoLeak`, `BusImplementsFifo`. `BInv` adds `TaskInv` (who holds a task
  holds a real one), `LockInv` (who is in `enqueue_task` holds `sub_mutex`: this
  is why the subscriptions cannot be freed under a publisher) and `PhaseInv`
  (workers leave only in a shutdown and with an empty queue). The refinement
  maps the FIFO to the occupied slots in order; push and take are shown to be
  Put and Get, with the lemmas on the remainder that the ring's indices need.
  `BusWakes` rests on the fact that only the holder of `sub_mutex` is in
  `enqueue_task`, so there is never a second sleeping publisher that one signal
  could miss. `BusNoLeak` is stated for
  `"memcpy" \notin Faults`, the case the property is checked for: a crash in the
  `memcpy` of `bus_publish` really does leak the copy just allocated. Crashes of
  callbacks are not excluded.
* **Start of the bus** – `BusStartHarmless`. `SInv` is an implication from
  `Undisturbed` (no start function has published, and `InitMutex` caught no worker
  inside), without which the property is false. Until `bus_init` is done the
  queue is then as the reset will leave it (`QuietReset`), so the unprotected
  writes change nothing; a worker that is inside its critical section has the
  mutex, also across `InitMutex`, and one that has seen `count # 0` still finds it
  so (`QuietLock`); and each message is in one occupied slot, with one worker, or
  delivered once (`QuietOnce`). `CaughtInv` says that nobody has been caught
  before `InitMutex`, which assigns `caught`: a start that is undisturbed after
  that step was so before it.
* **Critical errors** – `ErrorsTypes`, `ErrorsOwnership`, `ErrorsSignal` for
  any width and number of slots, in particular the code's 32 and 63, and
  `ErrorsOwnSlotKept`: a record in a slot whose bit no other slot shares stays
  marked until it is taken. With 63 slots on 32 bits this is slot 31 if shifts are
  modulo 32, and slots 0 to 31 if they yield 0; the others do lose records
  (`errors_lost`). It needs that clearing or setting a bit touches only the slots
  that share it (`OthersCleared`).
* **Plugins** – `ManagerOwnTypes`, `ManagerIdsLeadHome`, `ManagerVisible`. `PInv`
  needs that ids and directories determine each other, also for plugins that
  failed (`IdInv`); that the table has at most as many entries as ids were given
  out, and when it has as many, ids are positions (`TableInv`: this is
  why a plugin that fails late breaks the look-up and one that fails early does
  not); that hooks carry the id of the plugin whose code they call (`HookInv`);
  and that a library is loaded exactly while its plugin has an entry (`LifeInv`).
* **HeapKit** – `HeapKitLayout`, `HeapKitSetTellsTruth`, `HeapKitRestores`, all
  from `HeapKitInvariance`. Its invariant `DataInv` has three parts. `HInv` says
  that the fields read so far are packed one behind the other (`Packed`), for the
  type being read as well, and that an instance has exactly the bytes of its type
  (`Sound`). From this follows `ValueAfter`: a write to a field does not change
  the bytes of a neighbour, which is what the second theorem needs. That
  `hk_get_field` and `hk_set_field` find the same, first field of a name uses
  that a set of naturals has a least element. `ValuesInv` says that every field
  holds one whole value, of the field's type if the names are distinct: with two
  fields of one name, `hk_set_field` may put a pointer into a number. `HeldInv`
  says what `hk_serialize` has done so far: the text is that of the values it has
  read, field by field (`TextAt`), of a type that is still registered.
  For the third theorem, `HeapKitLemmas` shows that `strtok` yields exactly the
  longest runs without a separator (`TokensAre`), that in a readable text these
  are the texts of the printed fields and empty ones (`PartPiece`,
  `PieceIsPart`), that a field's text assigns that field and no other
  (`AssignedBody`), and that parsing undoes printing (`RoundTrip`); so
  neither the order of the tokens nor a token that occurs twice matters
  (`SetByNext`).
  These are inductions over the symbols and the tokens. They are done with sets:
  a set that has 0 and every number after its predecessor has all of them, since
  the least that is missing would have a predecessor that is not (`UpTo`). The
  folds `FoldLeft` are shown in the same way to exist and to go through their
  results one by one (`FoldAssigned`, `TokensSplit`).
  An earlier `Readable` let a text through that exactly fills the buffer of
  `hk_deserialize` and ends with the `=` of a NUL character, which is then cut
  off, and names that are separators. The proof failed there; TLC
  finds the first with a buffer of eight symbols.
* **Gateway** – `GatewayTypes`, `GatewayNoneLost`, `GatewaySetUpOnce`. `GInv`
  adds that the control thread connects the gateway only after the set-up, and
  never again (`CtlInv`), that until then nobody sends and nothing is stored (`QuietInv`), and that
  the dispatcher's copy of the arena stays exact while `on_data` runs, as it
  holds the mutex (`FlushInv`).

`BusRing` (head, tail and count describe one segment) is the fact `BInv` needs of
the indices; the runs check what follows from it, `IsFifo`.

Every invariant and every action property of the passing runs is proved in this
way. Only model-checked is what is temporal under fairness, which this prover does
not treat: `DueTimerFires`, `ShutdownTerminates`, `Delivered`, `PublishReturns`,
`LateDelivered`, `RecordsWritten`, `SendReturns`, and all three properties of
ControlPlane, `SignalOpensSocket`, `PendingServed` and `CommandAnswered`.

No module uses a RECURSIVE operator.

## 5. What is not modelled

* Ordinary logging, listings and the wording of messages: output only.
* The building of LLVM instructions in `jit_stub_generator.cpp`: a stub is
  modelled by the call it makes, and only the lines that build this call are mapped.
* String utilities; parameters and versions in manifests, which the core only
  stores; the contents of crash records.
* `hk_init` (called by a test only) and values a plugin passes with a type other
  than the field's: `hk_set_field` cannot tell.
* Two threads in one HeapKit field, or in a list that is being printed: data
  races, undefined whenever they overlap.
* `gateway_stop_lib`, `gateway_restart_lib`, `gateway_close_lib`,
  `gateway_dispatcher_close`, `plugin_unload`: no reachable caller.
* Unsynchronised walks (`scheduler_get_list`, `event_bus_get_list`) and the
  plugin table without a lock: data races, undefined whenever they overlap.
* Steps of the wall clock backwards.

## 6. Plan

Done: Scheduler, EventBus with TaskQueue, CriticalErrors, BusStart,
PluginManager with stubs and hooks, HeapKit and Gateway, their runs and their
proofs; ControlPlane and its run. Next, in order:

1. Proofs: the lock and phase invariants of ControlPlane on which its liveness
   rests; that `hk_set_field` and `hk_type_register` leave other plugins' types
   alone, as action properties.
2. **Runtime**: order of `core_init`/`core_shutdown`, failure of each step, and a
   second `corecdtl_init` in one process.
3. Operations on the plugin table by several threads at once.
