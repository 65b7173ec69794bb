--------------------------- MODULE PluginManager ---------------------------
(***************************************************************************)
(* Loading and life cycle of plugins: plugin_load (src/plugin/             *)
(* plugin_loader.c, plugin_stub.c), the stubs (src/jit/llvm_jit.c,         *)
(* libs/jit/jit_stub_generator.cpp) and src/plugin/plugin_manager.c.       *)
(*                                                                         *)
(* core_init loads the stub library around plugin_init, which loads every  *)
(* directory it reads into the table, then initialises and starts the      *)
(* plugins in table order; later the gateway and the manager's other       *)
(* clients stop, start and shut them down by id.  A plugin is known by its *)
(* directory.  Its own state (initialised, running) is kept in life: it    *)
(* changes when a plugin function is called.  Plugin functions arm timers  *)
(* and subscribe through their stubs; these hooks outlive them.            *)
(***************************************************************************)
EXTENDS Integers, Sequences, FiniteSets

CONSTANTS
    Dirs,        \* the plugin directories
    Failures,    \* the steps that may fail: a subset of Stages
    Exports,     \* sets of optional functions a plugin may have
    Used,        \* the API functions that plugins call to be called back
    None

\* The steps of plugin_load, and the realloc of the table.
Stages == {"calloc", "manifest", "data", "stub", "dlopen", "symbol", "realloc"}

Optional == {"start", "stop", "shutdown"}

ASSUME ManagerAssumption ==
    /\ None \notin Dirs
    /\ Failures \subseteq Stages
    /\ Exports \subseteq SUBSET Optional
    /\ Used \subseteq {"subscribe", "timer_every_ms", "timer_after_ms"}

VARIABLES
    phase,        \* of core_init: "jit", "load", "start", "up"; or "dead" (the process)
    symbols,      \* of llvm_jit.c: the stub library is loaded
    todo,         \* directories not read yet
    current_id,   \* of plugin_loader.c
    plugins,      \* the table
    lost,         \* a failed realloc has set plugins to NULL
    h,            \* index of the start loop of plugin_init
    life,         \* what each plugin has really been told
    types,        \* HeapKit's registry: the id and the plugin whose file it was
    hooks,        \* timers and subscriptions: the plugin whose code they call
    last          \* the last operation: its id, result, and the plugin called;
                  \* or the last crash, with the plugin it is blamed on

vars == <<phase, symbols, todo, current_id, plugins, lost, h, life, types, hooks, last>>

outside == <<types, hooks>>

Off == [loaded |-> FALSE, ready |-> FALSE, running |-> FALSE]

Init ==
    /\ phase = "jit"
    /\ symbols = FALSE
    /\ todo = Dirs
    /\ current_id = 1
    /\ plugins = <<>>
    /\ lost = FALSE
    /\ h = 1
    /\ life = [d \in Dirs |-> Off]
    /\ types = {} /\ hooks = {}
    /\ last = [op |-> "none", id |-> 0, ret |-> 0, called |-> None, blamed |-> None]

-----------------------------------------------------------------------------
(* The stub library.  A stub is a generated function that calls fn with the *)
(* plugin's id in front of its own arguments.                               *)

\* The library, its table or one of its symbols may be missing.
llvm_jit_init ==
    /\ phase = "jit"
    /\ symbols' \in BOOLEAN
    /\ phase' = "load"
    /\ UNCHANGED <<todo, current_id, plugins, lost, h, life, outside, last>>

create_api_subscribe_stub(id)          == [id |-> id, fn |-> "bus_subscribe"]
create_api_scheduler_after_stub(id)    == [id |-> id, fn |-> "scheduler_after_ms"]
create_api_scheduler_every_ms_stub(id) == [id |-> id, fn |-> "scheduler_every_ms"]
create_api_scheduler_cancel_stub(id)   == [id |-> id, fn |-> "scheduler_cancel"]
create_api_hk_getter_stub(id)          == [id |-> id, fn |-> "hk_get_field"]
create_api_hk_setter_stub(id)          == [id |-> id, fn |-> "hk_set_field"]

\* core_api, apart from publish and get_plugin_id, which are not stubs.  The
\* code of a stub outlives llvm_jit_cleanup, since no stub is ever destroyed.
plugin_stub_setup(id) ==
    [subscribe |-> create_api_subscribe_stub(id),
     timer_every_ms |-> create_api_scheduler_every_ms_stub(id),
     timer_after_ms |-> create_api_scheduler_after_stub(id),
     timer_cancel |-> create_api_scheduler_cancel_stub(id),
     hk_getter |-> create_api_hk_getter_stub(id),
     hk_setter |-> create_api_hk_setter_stub(id)]

-----------------------------------------------------------------------------
(* plugin_load, and the first loop of plugin_init.                         *)

\* free(info.name).  A name that was not in the manifest is the d_name of the
\* directory entry, which is not the program's to free: abort, or corruption.
FreeName(name) == IF name = "own" THEN {"ok"} ELSE {"ok", "dead"}

\* The id is given back when loading fails.
MutIdAfter(stage) == current_id

\* current_id when loading fails in this stage: plugin_manifest_set takes an
\* id at its end, before the other steps.
IdAfter(stage) == IF stage \in {"calloc", "manifest"} THEN current_id ELSE current_id + 1

\* The types of the plugin's data file, registered under its id.
Declared(d) == types \cup {[id |-> current_id, dir |-> d]}

\* A step of plugin_load fails: the handle is freed and the plugin skipped.
\* Types that were registered remain, those before a bad one too.  Without the
\* stub library no stub can be made.
LoadFails(d, stage, name) ==
    /\ phase = "load"
    /\ d \in todo
    /\ stage \in Failures \ {"realloc"} \/ (stage = "stub" /\ ~symbols)
    /\ \E free \in IF stage = "calloc" THEN {"ok"} ELSE FreeName(name) :
          phase' = IF free = "ok" THEN "load" ELSE "dead"
    /\ todo' = todo \ {d}
    /\ current_id' = IdAfter(stage)
    /\ types' \in CASE stage \in {"calloc", "manifest"} -> {types}
                    [] stage = "data" -> {types, Declared(d)}
                    [] OTHER -> {Declared(d)}
    /\ UNCHANGED <<symbols, plugins, lost, h, life, hooks, last>>

\* All steps succeed and the handle is copied into the table; writing to the
\* table after a failed realloc is a crash outside any recovery marker.
LoadSucceeds(d, name, opt) ==
    /\ phase = "load"
    /\ d \in todo
    /\ symbols
    /\ todo' = todo \ {d}
    /\ current_id' = current_id + 1
    /\ types' = Declared(d)
    /\ IF lost
       THEN phase' = "dead" /\ UNCHANGED <<plugins, life>>
       ELSE /\ plugins' = Append(plugins,
                   [dir |-> d, id |-> current_id, name |-> name, state |-> "ALIVE",
                    funcs |-> opt \cup {"initialize"}, so |-> TRUE,
                    api |-> plugin_stub_setup(current_id)])
            /\ life' = [life EXCEPT ![d] = [Off EXCEPT !.loaded = TRUE]]
            /\ UNCHANGED phase
    /\ UNCHANGED <<symbols, lost, h, hooks, last>>

\* The realloc fails: the old table is lost and the handle freed.  (Its size
\* steps, 10, 20, ..., are left out: it may fail for any plugin.)
LoadLosesTable(d) ==
    /\ phase = "load"
    /\ d \in todo
    /\ "realloc" \in Failures
    /\ symbols
    /\ ~lost
    /\ lost' = TRUE
    /\ todo' = todo \ {d}
    /\ current_id' = current_id + 1
    /\ types' = Declared(d)
    /\ UNCHANGED <<phase, symbols, plugins, h, life, hooks, last>>

\* The directory has been read; the start loop of a lost table crashes.
LoadDone ==
    /\ phase = "load"
    /\ todo = {}
    /\ phase' = IF lost /\ plugins # <<>> THEN "dead" ELSE "start"
    /\ UNCHANGED <<symbols, todo, current_id, plugins, lost, h, life, outside, last>>

-----------------------------------------------------------------------------
(* The second loop of plugin_init.                                         *)

Has(i, f) == f \in plugins[i].funcs

\* What initialize or start of plugin i may add to the hooks, and what its stop
\* or shutdown may cancel: its timers; there is no way to unsubscribe.
Hooked(i) ==
    {hooks \cup {[dir |-> plugins[i].dir, id |-> plugins[i].api[f].id, fn |-> plugins[i].api[f].fn] : f \in F} :
        F \in SUBSET (IF plugins[i].dir = None THEN {} ELSE Used)}

Unhooked(i) ==
    {hooks, {k \in hooks : k.fn = "bus_subscribe" \/ k.id # plugins[i].api.timer_cancel.id}}

\* FREE_PLUGIN_HANDLE: the library is closed and the entry zeroed, which
\* leaves an entry whose state is 0, PLUGIN_STATE_ALIVE.
Wiped == [dir |-> None, id |-> 0, name |-> "null", state |-> "ALIVE", funcs |-> {}, so |-> FALSE,
          api |-> plugin_stub_setup(0)]

Discard(i) ==
    /\ \E free \in FreeName(plugins[i].name) : phase' = IF free = "ok" THEN "start" ELSE "dead"
    /\ plugins' = [plugins EXCEPT ![i] = Wiped]
    /\ life' = [life EXCEPT ![plugins[i].dir] = Off]

\* initialize fails, or start fails and shutdown is called: discard.
StartFails ==
    /\ phase = "start"
    /\ h <= Len(plugins)
    /\ Discard(h)
    /\ hooks' \in Hooked(h)
    /\ h' = h + 1
    /\ UNCHANGED <<symbols, todo, current_id, lost, types, last>>

\* initialize succeeds, and start if there is one.
StartSucceeds ==
    /\ phase = "start"
    /\ h <= Len(plugins)
    /\ plugins' = [plugins EXCEPT ![h].state = "ALIVE"]
    /\ life' = [life EXCEPT ![plugins[h].dir] =
                   [loaded |-> TRUE, ready |-> TRUE, running |-> Has(h, "start")]]
    /\ hooks' \in Hooked(h)
    /\ h' = h + 1
    /\ UNCHANGED <<phase, symbols, todo, current_id, lost, types, last>>

\* plugin_init returns; llvm_jit_cleanup closes the stub library.
StartDone ==
    /\ phase = "start"
    /\ h > Len(plugins)
    /\ phase' = "up"
    /\ symbols' = FALSE
    /\ UNCHANGED <<todo, current_id, plugins, lost, h, life, outside, last>>

-----------------------------------------------------------------------------
(* Operations on a plugin, by id.                                          *)

MutGet(id) == IF id = 0 \/ id >= Len(plugins) THEN {} ELSE {id + 1}

\* The slots the id leads to, one or none.
get_plugin_by_id(id) == IF id = 0 \/ id > Len(plugins) THEN {} ELSE {id}

\* An operation ends with the result ret; called is the plugin it called into.
Answer(op, id, ret, called) ==
    last' = [op |-> op, id |-> id, ret |-> ret, called |-> called, blamed |-> None]

Quiet(op, id, ret) ==
    /\ Answer(op, id, ret, None)
    /\ UNCHANGED <<phase, symbols, todo, current_id, plugins, lost, h, life, outside>>

\* The operation calls into plugin i, whose code is then in the state now, and
\* records the state st.  Stop and shutdown may cancel timers, the others arm.
Called(op, id, i, ret, st, now) ==
    /\ plugins' = [plugins EXCEPT ![i].state = st]
    /\ life' = IF plugins[i].dir = None THEN life ELSE [life EXCEPT ![plugins[i].dir] = now]
    /\ hooks' \in IF st \in {"STOPPED", "KILLED"} THEN Unhooked(i) ELSE Hooked(i)
    /\ Answer(op, id, ret, plugins[i].dir)
    /\ UNCHANGED <<phase, symbols, todo, current_id, lost, h, types>>

Now(i) == IF plugins[i].dir = None THEN Off ELSE life[plugins[i].dir]

\* Id 0 is invalid (1), an id beyond the table is not found (2).
NotFound(op, id) ==
    /\ phase = "up"
    /\ get_plugin_by_id(id) = {}
    /\ Quiet(op, id, IF id = 0 THEN 1 ELSE 2)

MutStops(i) == Has(i, "stop") /\ plugins[i].state = "STOPPED"

\* plugin_shutdown calls stop unless the plugin is stopped already.
Stops(i) == Has(i, "stop") /\ plugins[i].state # "STOPPED"

plugin_shutdown(id) ==
    /\ phase = "up"
    /\ \E i \in get_plugin_by_id(id) :
        \/ plugins[i].state = "KILLED" /\ Quiet("shutdown", id, 3)
        \/ /\ plugins[i].state # "KILLED"
           /\ LET stopped == IF Stops(i) THEN [Now(i) EXCEPT !.running = FALSE] ELSE Now(i)
                  ended == IF Has(i, "shutdown") THEN [stopped EXCEPT !.ready = FALSE] ELSE stopped
              IN  Called("shutdown", id, i, 0, "KILLED", ended)

\* The result of start is ignored.
plugin_initialize(id) ==
    /\ phase = "up"
    /\ \E i \in get_plugin_by_id(id), ok, started \in BOOLEAN :
        \/ plugins[i].state = "KILLED" /\ Quiet("initialize", id, 3)
        \/ /\ plugins[i].state # "KILLED"
           /\ ~Has(i, "initialize")
           /\ Quiet("initialize", id, 4)
        \/ /\ plugins[i].state # "KILLED"
           /\ Has(i, "initialize")
           /\ IF ~ok THEN Called("initialize", id, i, 5, plugins[i].state, Now(i))
              ELSE Called("initialize", id, i, 0, "ALIVE",
                      [loaded |-> TRUE, ready |-> TRUE,
                       running |-> IF Has(i, "start") THEN started \/ Now(i).running ELSE Now(i).running])

plugin_start(id) ==
    /\ phase = "up"
    /\ \E i \in get_plugin_by_id(id), ok \in BOOLEAN :
        \/ plugins[i].state = "ALIVE" /\ Quiet("start", id, 3)
        \/ /\ plugins[i].state # "ALIVE"
           /\ ~Has(i, "start")
           /\ Quiet("start", id, 0)
        \/ /\ plugins[i].state # "ALIVE"
           /\ Has(i, "start")
           /\ IF ok THEN Called("start", id, i, 0, "ALIVE", [Now(i) EXCEPT !.running = TRUE])
              ELSE Called("start", id, i, 5, plugins[i].state, Now(i))

plugin_stop(id) ==
    /\ phase = "up"
    /\ \E i \in get_plugin_by_id(id) :
        \/ plugins[i].state # "ALIVE" /\ Quiet("stop", id, 3)
        \/ plugins[i].state = "ALIVE" /\ ~Has(i, "stop") /\ Quiet("stop", id, 4)
        \/ /\ plugins[i].state = "ALIVE"
           /\ Has(i, "stop")
           /\ Called("stop", id, i, 0, "STOPPED", [Now(i) EXCEPT !.running = FALSE])

\* The gateway's reboot: start (the result of start is ignored) or stop.
pm_action_reboot(id, action) ==
    /\ phase = "up"
    /\ \/ get_plugin_by_id(id) = {} /\ Quiet("reboot", id, -1)
       \/ \E i \in get_plugin_by_id(id), ok \in BOOLEAN :
            \/ ~(Has(i, "start") /\ Has(i, "stop")) /\ Quiet("reboot", id, -2)
            \/ /\ Has(i, "start") /\ Has(i, "stop")
               /\ plugins[i].state = (IF action = 1 THEN "ALIVE" ELSE "STOPPED")
               /\ Quiet("reboot", id, -3)
            \/ /\ Has(i, "start") /\ Has(i, "stop")
               /\ action = 1 /\ plugins[i].state # "ALIVE"
               /\ Called("reboot", id, i, 0, "ALIVE",
                         [Now(i) EXCEPT !.running = ok \/ @])
            \/ /\ Has(i, "start") /\ Has(i, "stop")
               /\ action = 0 /\ plugins[i].state # "STOPPED"
               /\ Called("reboot", id, i, 0, "STOPPED", [Now(i) EXCEPT !.running = FALSE])

\* The ids that the name of plugin d may lead to.  A borrowed name points into
\* the closed directory: it may or may not still be there.
plugin_get_p_id(d) ==
    LET at == {i \in 1..Len(plugins) : plugins[i].dir = d}
    IN  {plugins[i].id : i \in at} \cup
        (IF \E i \in at : plugins[i].name = "own" THEN {} ELSE {0})

\* The address of a function of plugin d, for another plugin: the name leads to
\* an id, the id to a slot.
plugin_bridge_get_fn_ptr(d) ==
    /\ phase = "up"
    /\ \E id \in plugin_get_p_id(d) :
          LET so == {i \in get_plugin_by_id(id) : plugins[i].so}
          IN  Answer("bridge", id, Cardinality(so), IF so = {} THEN None ELSE plugins[CHOOSE i \in so : TRUE].dir)
    /\ UNCHANGED <<phase, symbols, todo, current_id, plugins, lost, h, life, outside>>

\* The plugin whose name is recorded for an id; None for a NULL name.
plugin_get_name(id) == IF id = 0 \/ id > Len(plugins) THEN None ELSE plugins[id].dir

\* A timer or an event calls back and crashes, as it must when the library is
\* no longer loaded.  The record has the name that belongs to the hook's id.
HookCrashes(k) ==
    /\ phase = "up"
    /\ last' = [op |-> "crash", id |-> k.id, ret |-> 0, called |-> k.dir, blamed |-> plugin_get_name(k.id)]
    /\ UNCHANGED <<phase, symbols, todo, current_id, plugins, lost, h, life, outside>>

-----------------------------------------------------------------------------
Load(d) ==
    \/ \E stage \in Stages, name \in {"own", "borrowed"} :
          (stage = "calloc" => name = "borrowed") /\ LoadFails(d, stage, name)
    \/ \E name \in {"own", "borrowed"}, opt \in Exports : LoadSucceeds(d, name, opt)
    \/ LoadLosesTable(d)

\* Any id may be asked for, up to one more than has been given out.
Operate(id) ==
    \/ \E op \in {"shutdown", "initialize", "start", "stop"} : NotFound(op, id)
    \/ plugin_shutdown(id) \/ plugin_initialize(id) \/ plugin_start(id) \/ plugin_stop(id)
    \/ \E action \in {0, 1} : pm_action_reboot(id, action)

Next ==
    \/ llvm_jit_init
    \/ \E d \in Dirs : Load(d) \/ plugin_bridge_get_fn_ptr(d)
    \/ LoadDone \/ StartFails \/ StartSucceeds \/ StartDone
    \/ \E id \in 0..current_id : Operate(id)
    \/ \E k \in hooks : HookCrashes(k)

Spec == Init /\ [][Next]_vars

-----------------------------------------------------------------------------
(* Properties.                                                             *)

Entry(i) == i \in 1..Len(plugins) /\ plugins[i].dir # None

\* Through its stubs a plugin reaches the types of its own data file and no
\* others, whatever failed to load before it and left types behind.
OwnTypes ==
    \A i \in 1..Len(plugins), t \in types :
        Entry(i) => (t.id = plugins[i].api.hk_setter.id <=> t.dir = plugins[i].dir)

\* A plugin that can be stopped is never running while the table says that it
\* is stopped or killed, whatever operations came before.
RunningIsVisible ==
    phase = "up" =>
        \A i \in 1..Len(plugins) :
            Entry(i) /\ Has(i, "stop") /\ life[plugins[i].dir].running => plugins[i].state = "ALIVE"

\* plugin_manager.h, PLUGIN_OP_NOT_FOUND: "Plugin with specified ID not found".
\* An operation on an id that no plugin of the table has is not done to another
\* plugin: it calls into the plugin that has the id it was given, or into none.
RightPluginCalled ==
    last.op # "crash" /\ last.called # None =>
        \E i \in 1..Len(plugins) : plugins[i].dir = last.called /\ plugins[i].id = last.id

\* As long as no plugin was left out of the table after it had been given an
\* id, every operation calls the plugin it was asked for, and a crash of a
\* callback is recorded under the name of its plugin, or under no name when the
\* plugin was discarded and its library closed under its timers.
IdsLeadHome ==
    Len(plugins) = current_id - 1 =>
        /\ RightPluginCalled
        /\ last.op = "crash" => last.blamed = IF life[last.called].loaded THEN last.called ELSE None

=============================================================================
