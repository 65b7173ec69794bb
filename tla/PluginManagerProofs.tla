------------------------ MODULE PluginManagerProofs ------------------------
(***************************************************************************)
(* Theorems about PluginManager, for every set of plugin directories,      *)
(* exported functions and failing steps: stubs reach a plugin's own types, *)
(* ids lead to the plugin that has them while no plugin was left out, and  *)
(* a running plugin is never recorded as stopped.                          *)
(***************************************************************************)
EXTENDS PluginManager, TLAPS

-----------------------------------------------------------------------------
(* The inductive invariant.                                                *)

Handle == [dir : Dirs \cup {None}, id : Nat, name : {"own", "borrowed", "null"},
           state : {"ALIVE", "STOPPED", "KILLED"}, funcs : SUBSET (Optional \cup {"initialize"}),
           so : BOOLEAN, api : {plugin_stub_setup(n) : n \in Nat}]

Life == [loaded : BOOLEAN, ready : BOOLEAN, running : BOOLEAN]

\* The types of the variables the other parts speak of.
TypeInv ==
    /\ phase \in {"jit", "load", "start", "up", "dead"}
    /\ todo \subseteq Dirs
    /\ current_id \in Nat \ {0}
    /\ plugins \in Seq(Handle)
    /\ h \in Nat \ {0}
    /\ life \in [Dirs -> Life]
    /\ \A t \in types : t = [id |-> t.id, dir |-> t.dir] /\ t.id \in Nat /\ t.dir \in Dirs

\* An id belongs to one directory and a directory to one id: ids of plugins
\* that could not be loaded are not given out again.
IdInv ==
    /\ \A t \in types : t.id \in 1..(current_id - 1) /\ t.dir \notin todo
    /\ \A t, u \in types : t.id = u.id <=> t.dir = u.dir

\* A plugin of the table has its own id, also in its stubs; the table is never
\* longer than the number of ids given out, and if it is as long, no plugin was
\* left out and ids are positions.
TableInv ==
    /\ \A i \in 1..Len(plugins) : plugins[i].api = plugin_stub_setup(plugins[i].id)
    /\ \A i \in 1..Len(plugins) : Entry(i) => [id |-> plugins[i].id, dir |-> plugins[i].dir] \in types
    /\ \A i, j \in 1..Len(plugins) : Entry(i) /\ plugins[i].dir = plugins[j].dir => i = j
    /\ Len(plugins) <= current_id - 1
    /\ Len(plugins) = current_id - 1 => \A i \in 1..Len(plugins) : Entry(i) => plugins[i].id = i

\* A timer or subscription carries the id of the plugin whose code it calls.
HookInv == \A k \in hooks : k.dir \in Dirs /\ [id |-> k.id, dir |-> k.dir] \in types

\* A library is loaded while its plugin has an entry, and a plugin that can be
\* stopped runs only while its entry says ALIVE.
LifeInv ==
    /\ \A d \in Dirs : life[d].loaded <=> \E i \in 1..Len(plugins) : plugins[i].dir = d
    /\ \A i \in 1..Len(plugins) :
          Entry(i) /\ Has(i, "stop") /\ life[plugins[i].dir].running => plugins[i].state = "ALIVE"

\* What core_init has done so far.
PhaseInv ==
    /\ phase \in {"jit", "load"} => h = 1
    /\ phase \in {"jit", "load", "start"} => \A i \in 1..Len(plugins) : i >= h => Entry(i)
    /\ phase # "up" => last.op = "none" /\ last.called = None

PInv == TypeInv /\ IdInv /\ TableInv /\ HookInv /\ LifeInv /\ PhaseInv /\ IdsLeadHome

\* The initial state satisfies it.
LEMMA InitPInv == Init => PInv
<1> SUFFICES ASSUME Init PROVE PInv
  OBVIOUS
<1>1. plugins = <<>> /\ Len(plugins) = 0 /\ plugins \in Seq(Handle) /\ current_id = 1
  BY DEF Init
<1>2. life \in [Dirs -> Life] /\ \A d \in Dirs : ~life[d].loaded
  BY DEF Init, Off, Life
<1>3. 1..Len(plugins) = {}
  BY <1>1
<1>4. TypeInv
  BY <1>1, <1>2 DEF Init, TypeInv
<1>5. IdInv /\ HookInv
  BY DEF Init, IdInv, HookInv
<1>6. TableInv /\ LifeInv
  BY <1>1, <1>2, <1>3 DEF TableInv, LifeInv
<1>7. PhaseInv
  BY <1>3 DEF Init, PhaseInv
<1>8. IdsLeadHome
  BY DEF Init, IdsLeadHome, RightPluginCalled
<1>9. QED
  BY <1>4, <1>5, <1>6, <1>7, <1>8 DEF PInv

-----------------------------------------------------------------------------
(* The table.                                                              *)

\* Overwriting one entry.
LEMMA ReplaceIs ==
    ASSUME NEW s \in Seq(Handle), NEW i \in 1..Len(s), NEW e \in Handle,
           NEW r, r = [s EXCEPT ![i] = e]
    PROVE  /\ r \in Seq(Handle)
           /\ Len(r) = Len(s)
           /\ \A j \in 1..Len(s) : r[j] = IF j = i THEN e ELSE s[j]
  OBVIOUS

\* Recording a state changes nothing else in the table.
LEMMA StateIs ==
    ASSUME plugins \in Seq(Handle), NEW i \in 1..Len(plugins), NEW st \in {"ALIVE", "STOPPED", "KILLED"},
           plugins' = [plugins EXCEPT ![i].state = st]
    PROVE  /\ plugins' \in Seq(Handle)
           /\ Len(plugins') = Len(plugins)
           /\ \A j \in 1..Len(plugins) :
                 /\ plugins'[j].dir = plugins[j].dir
                 /\ plugins'[j].id = plugins[j].id
                 /\ plugins'[j].funcs = plugins[j].funcs
                 /\ plugins'[j].api = plugins[j].api
                 /\ plugins'[j].state = IF j = i THEN st ELSE plugins[j].state
<1> DEFINE e == [plugins[i] EXCEPT !.state = st]
<1>1. plugins[i] \in Handle
  OBVIOUS
<1>2. /\ e \in Handle /\ e.dir = plugins[i].dir /\ e.id = plugins[i].id
      /\ e.funcs = plugins[i].funcs /\ e.api = plugins[i].api /\ e.state = st
  BY <1>1 DEF Handle
<1>3. plugins' = [plugins EXCEPT ![i] = e]
  OBVIOUS
<1> HIDE DEF e
<1>4. /\ plugins' \in Seq(Handle)
      /\ Len(plugins') = Len(plugins)
      /\ \A j \in 1..Len(plugins) : plugins'[j] = IF j = i THEN e ELSE plugins[j]
  BY <1>3, <1>2, ReplaceIs
<1>5. QED
  BY <1>2, <1>4

\* A stub carries the id it was made for.
LEMMA StubIds ==
    ASSUME NEW n, NEW f \in {"subscribe", "timer_every_ms", "timer_after_ms", "timer_cancel", "hk_getter", "hk_setter"}
    PROVE  plugin_stub_setup(n)[f].id = n
  BY DEF plugin_stub_setup, create_api_subscribe_stub, create_api_scheduler_after_stub,
         create_api_scheduler_every_ms_stub, create_api_scheduler_cancel_stub,
         create_api_hk_getter_stub, create_api_hk_setter_stub

\* Whatever a plugin function arms or cancels, hooks carry the right ids.
LEMMA HooksKeep ==
    ASSUME PInv, NEW i \in 1..Len(plugins), hooks' \in Hooked(i) \/ hooks' \in Unhooked(i),
           types' = types
    PROVE  HookInv'
<1>1. CASE hooks' \subseteq hooks
  BY <1>1 DEF PInv, HookInv
<1>2. CASE hooks' \in Hooked(i) /\ Entry(i)
  <2>1. PICK F \in SUBSET Used :
          hooks' = hooks \cup {[dir |-> plugins[i].dir, id |-> plugins[i].api[f].id,
                                fn |-> plugins[i].api[f].fn] : f \in F}
    BY <1>2 DEF Hooked, Entry
  <2>2. \A f \in F : plugins[i].api[f].id = plugins[i].id
    BY StubIds, ManagerAssumption DEF PInv, TableInv
  <2>3. plugins[i].dir \in Dirs /\ [id |-> plugins[i].id, dir |-> plugins[i].dir] \in types
    BY <1>2 DEF PInv, TableInv, TypeInv, Entry, Handle
  <2>4. ASSUME NEW k \in hooks' PROVE k.dir \in Dirs /\ [id |-> k.id, dir |-> k.dir] \in types
    <3>1. CASE k \in hooks
      BY <3>1 DEF PInv, HookInv
    <3>2. CASE k \notin hooks
      <4>1. PICK f \in F : k = [dir |-> plugins[i].dir, id |-> plugins[i].api[f].id,
                                fn |-> plugins[i].api[f].fn]
        BY <2>1, <3>2
      <4>2. k.dir = plugins[i].dir /\ k.id = plugins[i].id
        BY <2>2, <4>1
      <4>3. QED
        BY <2>3, <4>2
    <3>3. QED
      BY <3>1, <3>2
  <2>5. QED
    BY <2>4 DEF HookInv
<1>3. CASE hooks' \in Hooked(i) /\ ~Entry(i)
  <2>1. plugins[i].dir = None
    BY <1>3 DEF Entry
  <2>2. hooks' \subseteq hooks
    BY <1>3, <2>1 DEF Hooked
  <2>3. QED
    BY <1>1, <2>2
<1>4. QED
  BY <1>1, <1>2, <1>3 DEF Unhooked

-----------------------------------------------------------------------------
(* Steps that leave the table alone.                                       *)

\* A step that only advances core_init, or only answers.
LEMMA ControlKeeps ==
    ASSUME PInv,
           UNCHANGED <<todo, current_id, plugins, h, life, types, hooks>>,
           phase' \in {"jit", "load", "start", "up", "dead"},
           phase' \in {"jit", "load"} => phase \in {"jit", "load"},
           phase' = "start" => phase \in {"load", "start"},
           phase' # "up" => phase # "up" /\ last' = last,
           IdsLeadHome'
    PROVE  PInv'
<1> USE DEF PInv
<1>1. TypeInv'
  BY DEF TypeInv
<1>2. IdInv' /\ HookInv'
  BY DEF IdInv, HookInv
<1>3. TableInv'
  BY DEF TableInv, Entry
<1>4. LifeInv'
  BY DEF LifeInv, Entry, Has
<1>5. PhaseInv'
  BY DEF PhaseInv, Entry
<1>6. QED
  BY <1>1, <1>2, <1>3, <1>4, <1>5

\* If nothing of what IdsLeadHome speaks of changes, it still holds.
LEMMA HomeUnchanged ==
    ASSUME IdsLeadHome, UNCHANGED <<current_id, plugins, life, last>>
    PROVE  IdsLeadHome'
  BY DEF IdsLeadHome, RightPluginCalled

\* An operation that calls into no plugin satisfies it.
LEMMA HomeNoneCalled ==
    ASSUME last'.called = None, last'.op # "crash"
    PROVE  IdsLeadHome'
  BY DEF IdsLeadHome, RightPluginCalled

\* An operation that calls into the plugin in the slot its id leads to, too.
LEMMA HomeAfterCall ==
    ASSUME PInv, NEW id, NEW i \in get_plugin_by_id(id), i \in 1..Len(plugins),
           current_id' = current_id, Len(plugins') = Len(plugins),
           \A j \in 1..Len(plugins) : plugins'[j].dir = plugins[j].dir /\ plugins'[j].id = plugins[j].id,
           last'.op # "crash", last'.id = id, last'.called \in {plugins[i].dir, None}
    PROVE  IdsLeadHome'
<1>1. SUFFICES ASSUME Len(plugins) = current_id - 1, last'.called # None PROVE RightPluginCalled'
  BY DEF IdsLeadHome, RightPluginCalled
<1>2. i = id
  BY DEF get_plugin_by_id
<1>3. Entry(i)
  BY <1>1 DEF Entry
<1>4. plugins[i].id = id
  BY <1>1, <1>2, <1>3 DEF PInv, TableInv
<1>5. plugins'[i].dir = last'.called /\ plugins'[i].id = last'.id
  BY <1>1, <1>4
<1>6. QED
  BY <1>5 DEF RightPluginCalled

\* A slot that an id leads to is a slot of the table.
LEMMA SlotOfId ==
    ASSUME PInv, NEW id \in Nat, NEW i \in get_plugin_by_id(id)
    PROVE  i \in 1..Len(plugins) /\ i = id
<1>1. plugins \in Seq(Handle)
  BY DEF PInv, TypeInv
<1>2. QED
  BY <1>1 DEF get_plugin_by_id

\* The phases of core_init.
LEMMA InitPhasesKeep ==
    ASSUME PInv, llvm_jit_init \/ LoadDone \/ StartDone \/ UNCHANGED vars
    PROVE  PInv'
<1>1. UNCHANGED <<todo, current_id, plugins, h, life, types, hooks, last>>
  BY DEF llvm_jit_init, LoadDone, StartDone, vars, outside
<1>2. IdsLeadHome'
  BY <1>1, HomeUnchanged DEF PInv
<1>3. /\ phase' \in {"jit", "load", "start", "up", "dead"}
      /\ phase' \in {"jit", "load"} => phase \in {"jit", "load"}
      /\ phase' = "start" => phase \in {"load", "start"}
      /\ phase' # "up" => phase # "up"
  BY DEF llvm_jit_init, LoadDone, StartDone, vars, PInv, TypeInv
<1>4. QED
  BY <1>1, <1>2, <1>3, ControlKeeps

\* An operation that is refused.
LEMMA QuietKeeps ==
    ASSUME PInv, phase = "up", NEW op, NEW id, NEW ret, op # "crash", Quiet(op, id, ret)
    PROVE  PInv'
<1>1. UNCHANGED <<phase, todo, current_id, plugins, h, life, types, hooks>>
  BY DEF Quiet, outside
<1>2. last'.op = op /\ last'.called = None
  BY DEF Quiet, Answer
<1>3. IdsLeadHome'
  BY <1>2, HomeNoneCalled
<1>4. QED
  BY <1>1, <1>3, ControlKeeps

\* A lookup for another plugin.
LEMMA BridgeKeeps ==
    ASSUME PInv, NEW d \in Dirs, plugin_bridge_get_fn_ptr(d)
    PROVE  PInv'
<1>1. phase = "up" /\ UNCHANGED <<phase, todo, current_id, plugins, h, life, types, hooks>>
  BY DEF plugin_bridge_get_fn_ptr, outside
<1>2. PICK id \in plugin_get_p_id(d) :
        LET so == {i \in get_plugin_by_id(id) : plugins[i].so}
        IN  Answer("bridge", id, Cardinality(so), IF so = {} THEN None ELSE plugins[CHOOSE i \in so : TRUE].dir)
  BY DEF plugin_bridge_get_fn_ptr
<1> DEFINE so == {i \in get_plugin_by_id(id) : plugins[i].so}
<1>3. /\ last'.op = "bridge" /\ last'.id = id
      /\ last'.called = IF so = {} THEN None ELSE plugins[CHOOSE i \in so : TRUE].dir
  BY <1>2 DEF Answer
<1>4. id \in Nat
  <2>1. \A i \in 1..Len(plugins) : plugins[i].id \in Nat
    <3>1. \A i \in 1..Len(plugins) : plugins[i] \in Handle
      BY DEF PInv, TypeInv
    <3>2. QED
      BY <3>1 DEF Handle
  <2>2. id = 0 \/ \E i \in 1..Len(plugins) : id = plugins[i].id
    BY DEF plugin_get_p_id
  <2>3. QED
    BY <2>1, <2>2
<1>5. ASSUME so = {} PROVE IdsLeadHome'
  BY <1>3, <1>5, HomeNoneCalled
<1>6. ASSUME so # {} PROVE IdsLeadHome'
  <2>1. (CHOOSE i \in so : TRUE) \in so
    BY <1>6
  <2> DEFINE c == CHOOSE i \in so : TRUE
  <2>2. c \in get_plugin_by_id(id) /\ last'.called = plugins[c].dir
    BY <1>3, <1>6, <2>1
  <2> HIDE DEF c, so
  <2>3. c \in 1..Len(plugins)
    BY <1>4, <2>2, SlotOfId
  <2>4. QED
    BY <1>1, <1>3, <2>2, <2>3, HomeAfterCall
<1>7. IdsLeadHome'
  BY <1>5, <1>6
<1>8. QED
  BY <1>1, <1>7, ControlKeeps

\* A callback crashes: the name recorded is that of its plugin, or none when
\* the plugin was discarded.
LEMMA CrashKeeps ==
    ASSUME PInv, NEW k \in hooks, HookCrashes(k)
    PROVE  PInv'
<1>1. phase = "up" /\ UNCHANGED <<phase, todo, current_id, plugins, h, life, types, hooks>>
  BY DEF HookCrashes, outside
<1>2. last'.op = "crash" /\ last'.called = k.dir /\ last'.blamed = plugin_get_name(k.id)
  BY DEF HookCrashes
<1>3. k.dir \in Dirs /\ [id |-> k.id, dir |-> k.dir] \in types
  BY DEF PInv, HookInv
<1>4. k.id \in 1..(current_id - 1)
  BY <1>3 DEF PInv, IdInv
<1>5. ASSUME Len(plugins) = current_id - 1
      PROVE  last'.blamed = IF life[k.dir].loaded THEN k.dir ELSE None
  <2>1. current_id \in Nat /\ k.id \in 1..Len(plugins) /\ k.id # 0 /\ ~(k.id > Len(plugins))
    BY <1>4, <1>5 DEF PInv, TypeInv
  <2>2. last'.blamed = plugins[k.id].dir
    BY <1>2, <2>1 DEF plugin_get_name
  <2>3. ASSUME NEW i \in 1..Len(plugins), Entry(i) PROVE plugins[i].dir = k.dir <=> i = k.id
    <3>1. [id |-> plugins[i].id, dir |-> plugins[i].dir] \in types /\ plugins[i].id = i
      BY <1>5, <2>3 DEF PInv, TableInv
    <3>2. \A t, u \in types : t.id = u.id <=> t.dir = u.dir
      BY DEF PInv, IdInv
    <3>3. plugins[i].id = k.id <=> plugins[i].dir = k.dir
      BY <1>3, <3>1, <3>2
    <3>4. QED
      BY <3>1, <3>3
  <2>4. None \notin Dirs
    BY ManagerAssumption
  <2>5. CASE life[k.dir].loaded
    <3>1. PICK i \in 1..Len(plugins) : plugins[i].dir = k.dir
      BY <1>3, <2>5 DEF PInv, LifeInv
    <3>2. Entry(i)
      BY <1>3, <2>4, <3>1 DEF Entry
    <3>3. QED
      BY <2>2, <2>3, <2>5, <3>1, <3>2
  <2>6. CASE ~life[k.dir].loaded
    <3>1. plugins[k.id].dir # k.dir
      BY <1>3, <2>1, <2>6 DEF PInv, LifeInv
    <3>2. ~Entry(k.id)
      BY <2>1, <2>3, <3>1
    <3>3. plugins[k.id].dir = None
      BY <2>1, <3>2 DEF Entry
    <3>4. QED
      BY <2>2, <2>6, <3>3
  <2>7. QED
    BY <2>5, <2>6
<1>6. IdsLeadHome'
  BY <1>1, <1>2, <1>5 DEF IdsLeadHome, RightPluginCalled
<1>7. QED
  BY <1>1, <1>6, ControlKeeps

-----------------------------------------------------------------------------
(* Operations that call into a plugin.                                     *)

\* A call into the plugin in slot i that leaves it in a state where it does not
\* run unseen: no other plugin is affected.
LEMMA LifeAfterCall ==
    ASSUME PInv, NEW i \in 1..Len(plugins),
           NEW st \in {"ALIVE", "STOPPED", "KILLED"}, NEW now \in Life,
           Entry(i) => now.loaded,
           Entry(i) /\ Has(i, "stop") /\ now.running => st = "ALIVE",
           plugins' = [plugins EXCEPT ![i].state = st],
           life' = IF plugins[i].dir = None THEN life ELSE [life EXCEPT ![plugins[i].dir] = now]
    PROVE  LifeInv'
<1> USE DEF PInv
<1>0. plugins \in Seq(Handle)
  BY DEF TypeInv
<1>1. /\ plugins' \in Seq(Handle)
      /\ Len(plugins') = Len(plugins)
      /\ \A j \in 1..Len(plugins) :
            /\ plugins'[j].dir = plugins[j].dir
            /\ plugins'[j].id = plugins[j].id
            /\ plugins'[j].funcs = plugins[j].funcs
            /\ plugins'[j].api = plugins[j].api
            /\ plugins'[j].state = IF j = i THEN st ELSE plugins[j].state
  BY <1>0, StateIs
<1>2. plugins[i].dir \in Dirs \cup {None} /\ life \in [Dirs -> Life]
  <2>1. plugins[i] \in Handle
    BY <1>0
  <2>2. QED
    BY <2>1 DEF Handle, TypeInv
<1>3. \A j \in 1..Len(plugins) : Entry(j)' <=> Entry(j)
  BY <1>1 DEF Entry
<1>4. CASE plugins[i].dir = None
  <2>1. life' = life /\ ~Entry(i)
    BY <1>4 DEF Entry
  <2>2. \A d \in Dirs : life'[d].loaded <=> \E j \in 1..Len(plugins') : plugins'[j].dir = d
    BY <1>1, <2>1 DEF LifeInv
  <2>3. ASSUME NEW j \in 1..Len(plugins'), Entry(j)', Has(j, "stop")', (life[plugins[j].dir].running)'
        PROVE  (plugins[j].state = "ALIVE")'
    BY <1>1, <1>3, <2>1, <2>3 DEF LifeInv, Has
  <2>4. QED
    BY <2>2, <2>3 DEF LifeInv
<1>5. CASE plugins[i].dir # None
  <2>1. /\ Entry(i) /\ plugins[i].dir \in Dirs
        /\ \A d \in Dirs : life'[d] = IF d = plugins[i].dir THEN now ELSE life[d]
    BY <1>2, <1>5 DEF Entry
  <2>2. \A d \in Dirs : life'[d].loaded <=> \E j \in 1..Len(plugins') : plugins'[j].dir = d
    <3>1. \A d \in Dirs : life'[d].loaded <=> life[d].loaded
      <4>1. life[plugins[i].dir].loaded
        BY <2>1 DEF LifeInv
      <4>2. now.loaded
        BY <2>1
      <4>3. \A d \in Dirs : life[d].loaded \in BOOLEAN
        BY <1>2 DEF Life
      <4>4. QED
        BY <2>1, <4>1, <4>2, <4>3
    <3>2. QED
      BY <1>1, <3>1 DEF LifeInv
  <2>3. ASSUME NEW j \in 1..Len(plugins), Entry(j), Has(j, "stop"), life'[plugins[j].dir].running
        PROVE  plugins'[j].state = "ALIVE"
    <3>1. CASE j = i
      BY <1>1, <2>1, <2>3, <3>1
    <3>2. CASE j # i
      <4>1. plugins[j].dir # plugins[i].dir
        BY <2>1, <3>2 DEF TableInv
      <4>2. plugins[j] \in Handle /\ plugins[j].dir # None
        BY <1>0, <2>3 DEF Entry
      <4>3. plugins[j].dir \in Dirs
        BY <4>2 DEF Handle
      <4>4. life'[plugins[j].dir] = life[plugins[j].dir]
        BY <2>1, <4>1, <4>3
      <4>5. QED
        BY <1>1, <2>3, <3>2, <4>4 DEF LifeInv
    <3>3. QED
      BY <3>1, <3>2
  <2>4. ASSUME NEW j \in 1..Len(plugins'), Entry(j)', Has(j, "stop")', (life[plugins[j].dir].running)'
        PROVE  (plugins[j].state = "ALIVE")'
    BY <1>1, <1>3, <2>3, <2>4 DEF Has
  <2>5. QED
    BY <2>2, <2>4 DEF LifeInv
<1>6. QED
  BY <1>4, <1>5

\* An operation that calls into the plugin in slot i and leaves it in a state
\* where it does not run unseen keeps the invariant.
LEMMA CalledKeeps ==
    ASSUME PInv, phase = "up", NEW op, op # "crash", NEW id \in Nat, NEW i \in get_plugin_by_id(id),
           NEW ret, NEW st \in {"ALIVE", "STOPPED", "KILLED"}, NEW now \in Life,
           Entry(i) => now.loaded,
           Entry(i) /\ Has(i, "stop") /\ now.running => st = "ALIVE",
           Called(op, id, i, ret, st, now)
    PROVE  PInv'
<1> USE DEF PInv
<1>1. /\ plugins' = [plugins EXCEPT ![i].state = st]
      /\ life' = IF plugins[i].dir = None THEN life ELSE [life EXCEPT ![plugins[i].dir] = now]
      /\ hooks' \in Hooked(i) \/ hooks' \in Unhooked(i)
      /\ last' = [op |-> op, id |-> id, ret |-> ret, called |-> plugins[i].dir, blamed |-> None]
      /\ UNCHANGED <<phase, todo, current_id, h, types>>
  BY DEF Called, Answer
<1>2. i \in 1..Len(plugins) /\ plugins \in Seq(Handle)
  BY SlotOfId DEF TypeInv
<1>3. /\ plugins' \in Seq(Handle)
      /\ Len(plugins') = Len(plugins)
      /\ \A j \in 1..Len(plugins) :
            /\ plugins'[j].dir = plugins[j].dir
            /\ plugins'[j].id = plugins[j].id
            /\ plugins'[j].funcs = plugins[j].funcs
            /\ plugins'[j].api = plugins[j].api
            /\ plugins'[j].state = IF j = i THEN st ELSE plugins[j].state
  BY <1>1, <1>2, StateIs
<1>4. plugins[i].dir \in Dirs \cup {None} /\ life \in [Dirs -> Life]
  <2>1. plugins[i] \in Handle
    BY <1>2
  <2>2. QED
    BY <2>1 DEF Handle, TypeInv
<1>5. \A j \in 1..Len(plugins) : Entry(j)' <=> Entry(j)
  BY <1>3 DEF Entry
<1>6. TypeInv'
  <2>1. life' \in [Dirs -> Life]
    BY <1>1, <1>4
  <2>2. QED
    BY <1>1, <1>3, <2>1 DEF TypeInv
<1>7. IdInv'
  BY <1>1 DEF IdInv
<1>8. TableInv'
  BY <1>1, <1>3, <1>5 DEF TableInv
<1>9. HookInv'
  BY <1>1, <1>2, HooksKeep
<1>10. LifeInv'
  BY <1>1, <1>2, LifeAfterCall
<1>11. PhaseInv'
  BY <1>1, <1>3, <1>5 DEF PhaseInv
<1>12. IdsLeadHome'
  <2>1. last'.op # "crash" /\ last'.id = id /\ last'.called = plugins[i].dir
    BY <1>1
  <2>2. QED
    BY <1>1, <1>2, <1>3, <2>1, HomeAfterCall
<1>13. QED
  BY <1>6, <1>7, <1>8, <1>9, <1>10, <1>11, <1>12

\* What life says of the plugin in slot i, and that it does not run unseen.
LEMMA NowIs ==
    ASSUME PInv, NEW i \in 1..Len(plugins)
    PROVE  /\ Now(i) \in Life
           /\ plugins[i].state \in {"ALIVE", "STOPPED", "KILLED"}
           /\ Entry(i) => Now(i).loaded
           /\ Entry(i) /\ Has(i, "stop") /\ Now(i).running => plugins[i].state = "ALIVE"
<1>1. plugins[i] \in Handle /\ life \in [Dirs -> Life]
  BY DEF PInv, TypeInv
<1>2. plugins[i].dir \in Dirs \cup {None} /\ plugins[i].state \in {"ALIVE", "STOPPED", "KILLED"}
  BY <1>1 DEF Handle
<1>3. Now(i) \in Life
  BY <1>1, <1>2 DEF Now, Off, Life
<1>4. Entry(i) => Now(i) = life[plugins[i].dir] /\ plugins[i].dir \in Dirs
  BY <1>2 DEF Now, Entry
<1>5. QED
  BY <1>2, <1>3, <1>4 DEF PInv, LifeInv

\* plugin_shutdown: a plugin that is not stopped first has been stopped before.
LEMMA ShutdownKeeps ==
    ASSUME PInv, NEW id \in Nat, plugin_shutdown(id)
    PROVE  PInv'
<1>1. phase = "up"
  BY DEF plugin_shutdown
<1>2. CASE Quiet("shutdown", id, 3)
  BY <1>1, <1>2, QuietKeeps
<1>3. ASSUME NEW i \in get_plugin_by_id(id),
             LET stopped == IF Stops(i) THEN [Now(i) EXCEPT !.running = FALSE] ELSE Now(i)
                 ended == IF Has(i, "shutdown") THEN [stopped EXCEPT !.ready = FALSE] ELSE stopped
             IN  Called("shutdown", id, i, 0, "KILLED", ended),
             plugins[i].state # "KILLED"
      PROVE  PInv'
  <2> DEFINE stopped == IF Stops(i) THEN [Now(i) EXCEPT !.running = FALSE] ELSE Now(i)
             ended == IF Has(i, "shutdown") THEN [stopped EXCEPT !.ready = FALSE] ELSE stopped
  <2>1. i \in 1..Len(plugins)
    BY SlotOfId
  <2>2. /\ Now(i) \in Life
        /\ Entry(i) => Now(i).loaded
        /\ Entry(i) /\ Has(i, "stop") /\ Now(i).running => plugins[i].state = "ALIVE"
    BY <2>1, NowIs
  <2>3. stopped \in Life /\ (Entry(i) => stopped.loaded)
    BY <2>2 DEF Life
  <2>4. Entry(i) /\ Has(i, "stop") => ~stopped.running
    BY <2>2 DEF Stops, Life
  <2> HIDE DEF stopped
  <2>5. ended \in Life /\ ended.loaded = stopped.loaded /\ ended.running = stopped.running
    BY <2>3 DEF Life
  <2>6. Called("shutdown", id, i, 0, "KILLED", ended)
    BY <1>3 DEF stopped
  <2> HIDE DEF ended
  <2>7. QED
    BY <1>1, <2>3, <2>4, <2>5, <2>6, CalledKeeps
<1>4. QED
  BY <1>2, <1>3 DEF plugin_shutdown

\* plugin_initialize leaves a plugin ALIVE, or as it was.
LEMMA InitializeKeeps ==
    ASSUME PInv, NEW id \in Nat, plugin_initialize(id)
    PROVE  PInv'
<1>1. phase = "up"
  BY DEF plugin_initialize
<1>2. PICK i \in get_plugin_by_id(id), ok \in BOOLEAN, started \in BOOLEAN :
        \/ Quiet("initialize", id, 3) \/ Quiet("initialize", id, 4)
        \/ Called("initialize", id, i, 5, plugins[i].state, Now(i))
        \/ Called("initialize", id, i, 0, "ALIVE",
                  [loaded |-> TRUE, ready |-> TRUE,
                   running |-> IF Has(i, "start") THEN started \/ Now(i).running ELSE Now(i).running])
  BY DEF plugin_initialize
<1>3. i \in 1..Len(plugins)
  BY SlotOfId
<1>4. /\ Now(i) \in Life /\ plugins[i].state \in {"ALIVE", "STOPPED", "KILLED"}
      /\ Entry(i) => Now(i).loaded
      /\ Entry(i) /\ Has(i, "stop") /\ Now(i).running => plugins[i].state = "ALIVE"
  BY <1>3, NowIs
<1>5. CASE Quiet("initialize", id, 3) \/ Quiet("initialize", id, 4)
  BY <1>1, <1>5, QuietKeeps
<1>6. CASE Called("initialize", id, i, 5, plugins[i].state, Now(i))
  BY <1>1, <1>4, <1>6, CalledKeeps
<1> DEFINE now == [loaded |-> TRUE, ready |-> TRUE,
                   running |-> IF Has(i, "start") THEN started \/ Now(i).running ELSE Now(i).running]
<1>7. now \in Life /\ now.loaded
  BY <1>4 DEF Life
<1> HIDE DEF now
<1>8. CASE Called("initialize", id, i, 0, "ALIVE", now)
  BY <1>1, <1>7, <1>8, CalledKeeps
<1>9. QED
  BY <1>2, <1>5, <1>6, <1>8 DEF now

\* plugin_start and plugin_stop.
LEMMA StartStopKeeps ==
    ASSUME PInv, NEW id \in Nat, plugin_start(id) \/ plugin_stop(id)
    PROVE  PInv'
<1>1. phase = "up"
  BY DEF plugin_start, plugin_stop
<1>2. PICK i \in get_plugin_by_id(id) :
        \/ \E r \in {0, 3} : Quiet("start", id, r)
        \/ \E r \in {3, 4} : Quiet("stop", id, r)
        \/ Called("start", id, i, 0, "ALIVE", [Now(i) EXCEPT !.running = TRUE])
        \/ Called("start", id, i, 5, plugins[i].state, Now(i))
        \/ Called("stop", id, i, 0, "STOPPED", [Now(i) EXCEPT !.running = FALSE])
  <2>1. CASE plugin_start(id)
    BY <2>1 DEF plugin_start
  <2>2. CASE plugin_stop(id)
    BY <2>2 DEF plugin_stop
  <2>3. QED
    BY <2>1, <2>2
<1>3. i \in 1..Len(plugins)
  BY SlotOfId
<1>4. /\ Now(i) \in Life /\ plugins[i].state \in {"ALIVE", "STOPPED", "KILLED"}
      /\ Entry(i) => Now(i).loaded
      /\ Entry(i) /\ Has(i, "stop") /\ Now(i).running => plugins[i].state = "ALIVE"
  BY <1>3, NowIs
<1> DEFINE on  == [Now(i) EXCEPT !.running = TRUE]
           off == [Now(i) EXCEPT !.running = FALSE]
<1>5. /\ on \in Life /\ on.loaded = Now(i).loaded
      /\ off \in Life /\ off.loaded = Now(i).loaded /\ ~off.running
  BY <1>4 DEF Life
<1> HIDE DEF on, off
<1>6. CASE (\E r \in {0, 3} : Quiet("start", id, r)) \/ (\E r \in {3, 4} : Quiet("stop", id, r))
  BY <1>1, <1>6, QuietKeeps
<1>7. CASE Called("start", id, i, 5, plugins[i].state, Now(i))
  BY <1>1, <1>4, <1>7, CalledKeeps
<1>8. CASE Called("start", id, i, 0, "ALIVE", on)
  BY <1>1, <1>4, <1>5, <1>8, CalledKeeps
<1>9. CASE Called("stop", id, i, 0, "STOPPED", off)
  BY <1>1, <1>4, <1>5, <1>9, CalledKeeps
<1>10. QED
  BY <1>2, <1>6, <1>7, <1>8, <1>9 DEF on, off

\* pm_action_reboot.
LEMMA RebootKeeps ==
    ASSUME PInv, NEW id \in Nat, NEW action \in {0, 1}, pm_action_reboot(id, action)
    PROVE  PInv'
<1>1. phase = "up"
  BY DEF pm_action_reboot
<1>2. CASE \E r \in {-1, -2, -3} : Quiet("reboot", id, r)
  BY <1>1, <1>2, QuietKeeps
<1>3. ASSUME NEW i \in get_plugin_by_id(id), NEW ok \in BOOLEAN,
             \/ Called("reboot", id, i, 0, "ALIVE", [Now(i) EXCEPT !.running = ok \/ @])
             \/ Called("reboot", id, i, 0, "STOPPED", [Now(i) EXCEPT !.running = FALSE])
      PROVE  PInv'
  <2>1. i \in 1..Len(plugins)
    BY SlotOfId
  <2>2. Now(i) \in Life /\ (Entry(i) => Now(i).loaded)
    BY <2>1, NowIs
  <2> DEFINE on  == [Now(i) EXCEPT !.running = ok \/ @]
             off == [Now(i) EXCEPT !.running = FALSE]
  <2>3. /\ on \in Life /\ on.loaded = Now(i).loaded
        /\ off \in Life /\ off.loaded = Now(i).loaded /\ ~off.running
    BY <2>2 DEF Life
  <2> HIDE DEF on, off
  <2>4. CASE Called("reboot", id, i, 0, "ALIVE", on)
    BY <1>1, <2>2, <2>3, <2>4, CalledKeeps
  <2>5. CASE Called("reboot", id, i, 0, "STOPPED", off)
    BY <1>1, <2>2, <2>3, <2>5, CalledKeeps
  <2>6. QED
    BY <1>3, <2>4, <2>5 DEF on, off
<1>4. QED
  BY <1>2, <1>3 DEF pm_action_reboot

-----------------------------------------------------------------------------
(* Loading.                                                                *)

\* The registry after a directory has been read: ids and directories stay in
\* one-to-one correspondence, since the id is new and the directory was unread.
LEMMA DeclaredIs ==
    ASSUME PInv, NEW d \in todo, todo' = todo \ {d},
           \/ current_id' = current_id /\ types' = types
           \/ current_id' = current_id + 1 /\ types' \in {types, Declared(d)}
    PROVE  /\ IdInv'
           /\ \A t \in types' : t = [id |-> t.id, dir |-> t.dir] /\ t.id \in Nat /\ t.dir \in Dirs
           /\ types \subseteq types'
           /\ current_id' \in Nat \ {0} /\ current_id <= current_id'
<1> USE DEF PInv
<1>1. current_id \in Nat \ {0} /\ d \in Dirs
  BY DEF TypeInv
<1>2. current_id' \in Nat \ {0} /\ current_id <= current_id'
  BY <1>1
<1> DEFINE n == [id |-> current_id, dir |-> d]
<1>3. n.id = current_id /\ n.dir = d /\ n = [id |-> n.id, dir |-> n.dir]
  OBVIOUS
<1>4. types' = types \/ (current_id' = current_id + 1 /\ types' = types \cup {n})
  BY DEF Declared
<1> HIDE DEF n
<1>5. \A t \in types : t.id \in 1..(current_id - 1) /\ t.dir \notin todo
  BY DEF IdInv
<1>6. \A t \in types : t.id # n.id /\ t.dir # n.dir
  BY <1>1, <1>3, <1>5
<1>7. \A t \in types' : t.id \in 1..(current_id' - 1) /\ t.dir \notin todo'
  <2>1. ASSUME NEW t \in types PROVE t.id \in 1..(current_id' - 1) /\ t.dir \notin todo'
    BY <1>1, <1>2, <1>5
  <2>2. current_id' = current_id + 1 => n.id \in 1..(current_id' - 1) /\ n.dir \notin todo'
    BY <1>1, <1>3
  <2>3. QED
    BY <1>4, <2>1, <2>2
<1>8. \A t, u \in types' : t.id = u.id <=> t.dir = u.dir
  BY <1>4, <1>6 DEF IdInv
<1>9. \A t \in types' : t = [id |-> t.id, dir |-> t.dir] /\ t.id \in Nat /\ t.dir \in Dirs
  <2>1. ASSUME NEW t \in types PROVE t = [id |-> t.id, dir |-> t.dir] /\ t.id \in Nat /\ t.dir \in Dirs
    BY DEF TypeInv
  <2>2. n = [id |-> n.id, dir |-> n.dir] /\ n.id \in Nat /\ n.dir \in Dirs
    BY <1>1, <1>3
  <2>3. QED
    BY <1>4, <2>1, <2>2
<1>10. QED
  BY <1>2, <1>4, <1>7, <1>8, <1>9 DEF IdInv

\* A directory that does not make it into the table.
LEMMA SkipKeeps ==
    ASSUME PInv, phase = "load", NEW d \in todo, todo' = todo \ {d}, phase' \in {"load", "dead"},
           \/ current_id' = current_id /\ types' = types
           \/ current_id' = current_id + 1 /\ types' \in {types, Declared(d)},
           UNCHANGED <<plugins, h, life, hooks, last>>
    PROVE  PInv'
<1> USE DEF PInv
<1>1. /\ IdInv'
      /\ \A t \in types' : t = [id |-> t.id, dir |-> t.dir] /\ t.id \in Nat /\ t.dir \in Dirs
      /\ types \subseteq types'
      /\ current_id' \in Nat \ {0} /\ current_id <= current_id'
  BY DeclaredIs
<1>2. TypeInv'
  BY <1>1 DEF TypeInv
<1>3. TableInv'
  <2>1. Len(plugins) \in Nat /\ current_id \in Nat /\ current_id' \in Nat
    BY <1>1 DEF TypeInv
  <2>2. Len(plugins) <= current_id' - 1 /\ (Len(plugins) = current_id' - 1 => current_id' = current_id)
    BY <1>1, <2>1 DEF TableInv
  <2>3. QED
    BY <1>1, <2>2 DEF TableInv, Entry
<1>4. HookInv'
  BY <1>1 DEF HookInv
<1>5. LifeInv'
  BY DEF LifeInv, Entry, Has
<1>6. PhaseInv'
  BY DEF PhaseInv, Entry
<1>7. IdsLeadHome'
  BY HomeNoneCalled DEF PhaseInv
<1>8. QED
  BY <1>1, <1>2, <1>3, <1>4, <1>5, <1>6, <1>7

\* A plugin is added to the table.
LEMMA LoadKeeps ==
    ASSUME PInv, NEW d \in Dirs, NEW name \in {"own", "borrowed"}, NEW opt \in Exports,
           LoadSucceeds(d, name, opt)
    PROVE  PInv'
<1> USE DEF PInv
<1>1. /\ phase = "load" /\ d \in todo /\ todo' = todo \ {d}
      /\ current_id' = current_id + 1 /\ types' = Declared(d)
      /\ UNCHANGED <<h, hooks, last>>
  BY DEF LoadSucceeds
<1>2. CASE phase' = "dead" /\ UNCHANGED <<plugins, life>>
  BY <1>1, <1>2, SkipKeeps
<1> DEFINE e == [dir |-> d, id |-> current_id, name |-> name, state |-> "ALIVE",
                 funcs |-> opt \cup {"initialize"}, so |-> TRUE,
                 api |-> plugin_stub_setup(current_id)]
<1>3. CASE /\ plugins' = Append(plugins, e)
           /\ life' = [life EXCEPT ![d] = [Off EXCEPT !.loaded = TRUE]]
           /\ phase' = phase
  <2>1. /\ IdInv'
        /\ \A t \in types' : t = [id |-> t.id, dir |-> t.dir] /\ t.id \in Nat /\ t.dir \in Dirs
        /\ types \subseteq types'
        /\ current_id' \in Nat \ {0}
    BY <1>1, DeclaredIs
  <2>2. current_id \in Nat \ {0} /\ plugins \in Seq(Handle) /\ life \in [Dirs -> Life]
    BY DEF TypeInv
  <2>3. /\ e \in Handle /\ e.dir = d /\ e.id = current_id /\ e.state = "ALIVE"
        /\ e.api = plugin_stub_setup(current_id)
    <3>1. opt \cup {"initialize"} \in SUBSET (Optional \cup {"initialize"})
      BY ManagerAssumption
    <3>2. plugin_stub_setup(current_id) \in {plugin_stub_setup(n) : n \in Nat}
      BY <2>2
    <3>3. QED
      BY <2>2, <3>1, <3>2 DEF Handle
  <2> HIDE DEF e
  <2>4. /\ plugins' \in Seq(Handle)
        /\ Len(plugins') = Len(plugins) + 1
        /\ \A i \in 1..Len(plugins) : plugins'[i] = plugins[i]
        /\ plugins'[Len(plugins) + 1] = e
    BY <1>3, <2>2, <2>3
  <2>5. Len(plugins) \in Nat /\ 1..Len(plugins') = 1..Len(plugins) \cup {Len(plugins) + 1}
    BY <2>2, <2>4
  <2> DEFINE l == Len(plugins) + 1
  <2>6. /\ l \in 1..Len(plugins') /\ l \notin 1..Len(plugins) /\ plugins'[l] = e
        /\ \A i \in 1..Len(plugins') : i \in 1..Len(plugins) \/ i = l
        /\ \A i \in 1..Len(plugins) : i \in 1..Len(plugins')
    BY <2>4, <2>5
  <2> HIDE DEF l
  <2>7. d # None /\ d \in Dirs
    BY ManagerAssumption
  <2>8. \A i \in 1..Len(plugins) : Entry(i)' <=> Entry(i)
    BY <2>4, <2>6 DEF Entry
  <2>9. \A i \in 1..Len(plugins) : plugins[i].dir # d
    <3>1. \A t \in types : t.dir \notin todo
      BY DEF IdInv
    <3>2. \A i \in 1..Len(plugins) : Entry(i) => plugins[i].dir \notin todo
      BY <3>1 DEF TableInv
    <3>3. QED
      BY <1>1, <2>7, <3>2 DEF Entry
  <2>10. [Off EXCEPT !.loaded = TRUE] \in Life /\ [Off EXCEPT !.loaded = TRUE].loaded
         /\ ~[Off EXCEPT !.loaded = TRUE].running
    BY DEF Off, Life
  <2>11. TypeInv'
    <3>1. life' \in [Dirs -> Life]
      BY <1>3, <2>2, <2>10
    <3>2. QED
      BY <1>1, <1>3, <2>1, <2>4, <3>1 DEF TypeInv
  <2>12. TableInv'
    <3>1. \A i \in 1..Len(plugins') : plugins'[i].api = plugin_stub_setup(plugins'[i].id)
      BY <2>3, <2>4, <2>6 DEF TableInv
    <3>2. ASSUME NEW i \in 1..Len(plugins'), Entry(i)'
          PROVE  [id |-> plugins'[i].id, dir |-> plugins'[i].dir] \in types'
      <4>1. CASE i = l
        BY <1>1, <2>3, <2>6, <4>1 DEF Declared
      <4>2. CASE i \in 1..Len(plugins)
        BY <2>1, <2>4, <2>8, <3>2, <4>2 DEF TableInv
      <4>3. QED
        BY <2>6, <4>1, <4>2
    <3>3. ASSUME NEW i \in 1..Len(plugins'), NEW j \in 1..Len(plugins'), Entry(i)',
                 plugins'[i].dir = plugins'[j].dir
          PROVE  i = j
      <4>1. CASE i \in 1..Len(plugins) /\ j \in 1..Len(plugins)
        BY <2>4, <2>8, <3>3, <4>1 DEF TableInv
      <4>2. CASE i = l \/ j = l
        BY <2>3, <2>4, <2>6, <2>9, <3>3, <4>2
      <4>3. QED
        BY <2>6, <4>1, <4>2
    <3>4. Len(plugins') <= current_id' - 1
      BY <1>1, <2>2, <2>4, <2>5 DEF TableInv
    <3>5. ASSUME Len(plugins') = current_id' - 1, NEW i \in 1..Len(plugins'), Entry(i)'
          PROVE  plugins'[i].id = i
      <4>1. Len(plugins) = current_id - 1 /\ l = current_id
        BY <1>1, <2>2, <2>4, <2>5, <3>5 DEF l
      <4>2. CASE i = l
        BY <2>3, <2>6, <4>1, <4>2
      <4>3. CASE i \in 1..Len(plugins)
        BY <2>4, <2>8, <3>5, <4>1, <4>3 DEF TableInv
      <4>4. QED
        BY <2>6, <4>2, <4>3
    <3>6. QED
      BY <3>1, <3>2, <3>3, <3>4, <3>5 DEF TableInv
  <2>13. HookInv'
    BY <1>1, <2>1 DEF HookInv
  <2>14. LifeInv'
    <3>1. \A x \in Dirs : life'[x] = IF x = d THEN [Off EXCEPT !.loaded = TRUE] ELSE life[x]
      BY <1>3, <2>2
    <3>2. ASSUME NEW x \in Dirs
          PROVE  life'[x].loaded <=> \E i \in 1..Len(plugins') : plugins'[i].dir = x
      <4>1. CASE x = d
        BY <2>3, <2>6, <2>10, <3>1, <4>1
      <4>2. CASE x # d
        BY <2>3, <2>4, <2>6, <3>1, <4>2 DEF LifeInv
      <4>3. QED
        BY <4>1, <4>2
    <3>3. ASSUME NEW i \in 1..Len(plugins'), Entry(i)', Has(i, "stop")', (life[plugins[i].dir].running)'
          PROVE  (plugins[i].state = "ALIVE")'
      <4>1. CASE i = l
        BY <2>3, <2>6, <4>1
      <4>2. CASE i \in 1..Len(plugins)
        <5>1. plugins[i] \in Handle /\ plugins[i].dir # d /\ plugins'[i] = plugins[i] /\ Entry(i)
          BY <2>2, <2>4, <2>8, <2>9, <3>3, <4>2
        <5>2. plugins[i].dir \in Dirs
          BY <5>1 DEF Handle, Entry
        <5>3. life'[plugins[i].dir] = life[plugins[i].dir]
          BY <3>1, <5>1, <5>2
        <5>4. QED
          BY <3>3, <4>2, <5>1, <5>3 DEF LifeInv, Has
      <4>3. QED
        BY <2>6, <4>1, <4>2
    <3>4. QED
      BY <3>2, <3>3 DEF LifeInv
  <2>15. PhaseInv'
    <3>1. h = 1 /\ last.op = "none" /\ last.called = None /\ \A i \in 1..Len(plugins) : Entry(i)
      BY <1>1 DEF PhaseInv
    <3>2. ASSUME NEW i \in 1..Len(plugins') PROVE Entry(i)'
      <4>1. CASE i = l
        BY <2>3, <2>6, <2>7, <4>1 DEF Entry
      <4>2. CASE i \in 1..Len(plugins)
        BY <2>8, <3>1, <4>2
      <4>3. QED
        BY <2>6, <4>1, <4>2
    <3>3. QED
      BY <1>1, <1>3, <3>1, <3>2 DEF PhaseInv
  <2>16. IdsLeadHome'
    BY <1>1, HomeNoneCalled DEF PhaseInv
  <2>17. QED
    BY <2>1, <2>11, <2>12, <2>13, <2>14, <2>15, <2>16
<1>4. QED
  BY <1>2, <1>3 DEF LoadSucceeds

\* The ways to load a directory.
LEMMA LoadStepKeeps ==
    ASSUME PInv, NEW d \in Dirs, Load(d)
    PROVE  PInv'
<1>1. ASSUME NEW stage \in Stages, NEW name \in {"own", "borrowed"}, LoadFails(d, stage, name)
      PROVE  PInv'
  <2>1. /\ phase = "load" /\ d \in todo /\ todo' = todo \ {d}
        /\ phase' \in {"load", "dead"}
        /\ UNCHANGED <<plugins, h, life, hooks, last>>
    BY <1>1 DEF LoadFails
  <2>2. \/ current_id' = current_id /\ types' = types
        \/ current_id' = current_id + 1 /\ types' \in {types, Declared(d)}
    <3>1. CASE stage \in {"calloc", "manifest"}
      BY <1>1, <3>1 DEF LoadFails, IdAfter
    <3>2. CASE stage = "data"
      BY <1>1, <3>2 DEF LoadFails, IdAfter
    <3>3. CASE stage \notin {"calloc", "manifest", "data"}
      BY <1>1, <3>3 DEF LoadFails, IdAfter
    <3>4. QED
      BY <3>1, <3>2, <3>3
  <2>3. QED
    BY <2>1, <2>2, SkipKeeps
<1>2. CASE LoadLosesTable(d)
  <2>1. /\ phase = "load" /\ d \in todo /\ todo' = todo \ {d} /\ phase' = phase
        /\ current_id' = current_id + 1 /\ types' = Declared(d)
        /\ UNCHANGED <<plugins, h, life, hooks, last>>
    BY <1>2 DEF LoadLosesTable
  <2>2. QED
    BY <2>1, SkipKeeps
<1>3. QED
  BY <1>1, <1>2, LoadKeeps DEF Load

-----------------------------------------------------------------------------
(* Starting.                                                               *)

\* The start loop is at a plugin that has an entry.
LEMMA StartIsAtEntry ==
    ASSUME PInv, phase = "start", h <= Len(plugins)
    PROVE  /\ plugins \in Seq(Handle) /\ h \in 1..Len(plugins) /\ Entry(h)
           /\ plugins[h].dir \in Dirs /\ plugins[h].dir # None
           /\ last.op = "none" /\ last.called = None
<1>1. plugins \in Seq(Handle) /\ h \in Nat \ {0}
  BY DEF PInv, TypeInv
<1>2. h \in 1..Len(plugins)
  BY <1>1
<1>3. Entry(h) /\ last.op = "none" /\ last.called = None
  BY <1>1, <1>2 DEF PInv, PhaseInv
<1>4. plugins[h] \in Handle
  BY <1>1, <1>2
<1>5. QED
  BY <1>1, <1>2, <1>3, <1>4 DEF Entry, Handle

\* A plugin is initialised and started.
LEMMA StartSucceedsKeeps ==
    ASSUME PInv, StartSucceeds
    PROVE  PInv'
<1> USE DEF PInv
<1> DEFINE now == [loaded |-> TRUE, ready |-> TRUE, running |-> Has(h, "start")]
<1>1. /\ phase = "start" /\ h <= Len(plugins) /\ h' = h + 1
      /\ plugins' = [plugins EXCEPT ![h].state = "ALIVE"]
      /\ life' = [life EXCEPT ![plugins[h].dir] = now]
      /\ hooks' \in Hooked(h)
      /\ UNCHANGED <<phase, todo, current_id, types, last>>
  BY DEF StartSucceeds
<1>2. now \in Life /\ now.loaded
  BY DEF Life, Has
<1> HIDE DEF now
<1>3. /\ plugins \in Seq(Handle) /\ h \in 1..Len(plugins) /\ Entry(h)
      /\ plugins[h].dir \in Dirs /\ plugins[h].dir # None
      /\ last.op = "none" /\ last.called = None
  BY <1>1, StartIsAtEntry
<1>4. /\ plugins' \in Seq(Handle)
      /\ Len(plugins') = Len(plugins)
      /\ \A j \in 1..Len(plugins) :
            /\ plugins'[j].dir = plugins[j].dir
            /\ plugins'[j].id = plugins[j].id
            /\ plugins'[j].funcs = plugins[j].funcs
            /\ plugins'[j].api = plugins[j].api
            /\ plugins'[j].state = IF j = h THEN "ALIVE" ELSE plugins[j].state
  BY <1>1, <1>3, StateIs
<1>5. \A j \in 1..Len(plugins) : Entry(j)' <=> Entry(j)
  BY <1>4 DEF Entry
<1>6. TypeInv'
  <2>1. life' \in [Dirs -> Life] /\ h' \in Nat \ {0}
    BY <1>1, <1>2, <1>3 DEF TypeInv
  <2>2. QED
    BY <1>1, <1>4, <2>1 DEF TypeInv
<1>7. IdInv'
  BY <1>1 DEF IdInv
<1>8. TableInv'
  BY <1>1, <1>4, <1>5 DEF TableInv
<1>9. HookInv'
  BY <1>1, <1>3, HooksKeep
<1>10. LifeInv'
  BY <1>1, <1>2, <1>3, LifeAfterCall
<1>11. PhaseInv'
  <2>1. h \in Nat /\ \A i \in 1..Len(plugins) : i >= h => Entry(i)
    BY <1>1 DEF PhaseInv, TypeInv
  <2>2. \A i \in 1..Len(plugins') : i >= h' => Entry(i)'
    BY <1>1, <1>4, <1>5, <2>1
  <2>3. QED
    BY <1>1, <1>3, <2>2 DEF PhaseInv
<1>12. IdsLeadHome'
  BY <1>1, <1>3, HomeNoneCalled
<1>13. QED
  BY <1>6, <1>7, <1>8, <1>9, <1>10, <1>11, <1>12

\* A plugin does not initialise or start: its entry is wiped and its library
\* closed, whatever hooks it has left behind.
LEMMA StartFailsKeeps ==
    ASSUME PInv, StartFails
    PROVE  PInv'
<1> USE DEF PInv
<1> DEFINE g == plugins[h].dir
<1>1. /\ phase = "start" /\ h <= Len(plugins) /\ h' = h + 1
      /\ phase' \in {"start", "dead"}
      /\ plugins' = [plugins EXCEPT ![h] = Wiped]
      /\ life' = [life EXCEPT ![g] = Off]
      /\ hooks' \in Hooked(h)
      /\ UNCHANGED <<todo, current_id, types, last>>
  BY DEF StartFails, Discard
<1>2. /\ plugins \in Seq(Handle) /\ h \in 1..Len(plugins) /\ Entry(h)
      /\ g \in Dirs /\ g # None
      /\ last.op = "none" /\ last.called = None
  BY <1>1, StartIsAtEntry
<1>3. /\ Wiped \in Handle /\ Wiped.dir = None /\ Wiped.id = 0
      /\ Wiped.api = plugin_stub_setup(0)
  <2>1. plugin_stub_setup(0) \in {plugin_stub_setup(n) : n \in Nat}
    OBVIOUS
  <2>2. QED
    BY <2>1 DEF Wiped, Handle
<1>4. /\ plugins' \in Seq(Handle)
      /\ Len(plugins') = Len(plugins)
      /\ \A j \in 1..Len(plugins) : plugins'[j] = IF j = h THEN Wiped ELSE plugins[j]
  BY <1>1, <1>2, <1>3, ReplaceIs
<1>5. \A j \in 1..Len(plugins) : Entry(j)' <=> Entry(j) /\ j # h
  BY <1>3, <1>4 DEF Entry
<1>6. Off \in Life /\ ~Off.loaded
  BY DEF Off, Life
<1>7. life' \in [Dirs -> Life] /\ \A d \in Dirs : life'[d] = IF d = g THEN Off ELSE life[d]
  BY <1>1, <1>2, <1>6 DEF TypeInv
<1>8. \A j \in 1..Len(plugins) : Entry(j) /\ j # h => plugins[j].dir # g
  BY <1>2 DEF TableInv
<1> HIDE DEF g
<1>9. TypeInv'
  <2>1. h' \in Nat \ {0}
    BY <1>1, <1>2
  <2>2. QED
    BY <1>1, <1>4, <1>7, <2>1 DEF TypeInv
<1>10. IdInv'
  BY <1>1 DEF IdInv
<1>11. TableInv'
  <2>1. \A i \in 1..Len(plugins') : plugins'[i].api = plugin_stub_setup(plugins'[i].id)
    BY <1>3, <1>4 DEF TableInv
  <2>2. \A i \in 1..Len(plugins') : Entry(i)' => [id |-> plugins'[i].id, dir |-> plugins'[i].dir] \in types'
    BY <1>1, <1>4, <1>5 DEF TableInv
  <2>3. ASSUME NEW i \in 1..Len(plugins'), NEW j \in 1..Len(plugins'), Entry(i)',
               plugins'[i].dir = plugins'[j].dir
        PROVE  i = j
    <3>1. i \in 1..Len(plugins) /\ j \in 1..Len(plugins) /\ Entry(i) /\ i # h /\ plugins'[i] = plugins[i]
      BY <1>4, <1>5, <2>3
    <3>2. plugins[i].dir # None
      BY <3>1 DEF Entry
    <3>3. j # h
      BY <1>3, <1>4, <2>3, <3>1, <3>2
    <3>4. QED
      BY <1>4, <2>3, <3>1, <3>3 DEF TableInv
  <2>4. Len(plugins') <= current_id' - 1
    BY <1>1, <1>4 DEF TableInv
  <2>5. Len(plugins') = current_id' - 1 => \A i \in 1..Len(plugins') : Entry(i)' => plugins'[i].id = i
    BY <1>1, <1>4, <1>5 DEF TableInv
  <2>6. QED
    BY <2>1, <2>2, <2>3, <2>4, <2>5 DEF TableInv
<1>12. HookInv'
  BY <1>1, <1>2, HooksKeep
<1>13. LifeInv'
  <2>1. ASSUME NEW d \in Dirs
        PROVE  life'[d].loaded <=> \E i \in 1..Len(plugins') : plugins'[i].dir = d
    <3>1. d # None
      BY ManagerAssumption
    <3>2. CASE d = g
      <4>1. ASSUME NEW i \in 1..Len(plugins'), plugins'[i].dir = d PROVE FALSE
        <5>1. i # h
          BY <1>3, <1>4, <3>1, <4>1
        <5>2. plugins[i].dir = d /\ i \in 1..Len(plugins)
          BY <1>4, <4>1, <5>1
        <5>3. QED
          BY <1>8, <3>1, <3>2, <5>1, <5>2 DEF Entry
      <4>2. QED
        BY <1>6, <1>7, <3>2, <4>1
    <3>3. CASE d # g
      <4>1. \A i \in 1..Len(plugins) : plugins'[i].dir = d <=> plugins[i].dir = d
        BY <1>3, <1>4, <3>1, <3>3 DEF g
      <4>2. QED
        BY <1>4, <1>7, <3>3, <4>1 DEF LifeInv
    <3>4. QED
      BY <3>2, <3>3
  <2>2. ASSUME NEW i \in 1..Len(plugins'), Entry(i)', Has(i, "stop")', (life[plugins[i].dir].running)'
        PROVE  (plugins[i].state = "ALIVE")'
    <3>1. i \in 1..Len(plugins) /\ Entry(i) /\ i # h /\ plugins'[i] = plugins[i]
      BY <1>4, <1>5, <2>2
    <3>2. plugins[i] \in Handle /\ plugins[i].dir # None /\ plugins[i].dir # g
      BY <1>2, <1>8, <3>1 DEF Entry
    <3>3. plugins[i].dir \in Dirs
      BY <3>2 DEF Handle
    <3>4. life'[plugins[i].dir] = life[plugins[i].dir]
      BY <1>7, <3>2, <3>3
    <3>5. QED
      BY <2>2, <3>1, <3>4 DEF LifeInv, Has
  <2>3. QED
    BY <2>1, <2>2 DEF LifeInv
<1>14. PhaseInv'
  <2>1. h \in Nat /\ \A i \in 1..Len(plugins) : i >= h => Entry(i)
    BY <1>1 DEF PhaseInv, TypeInv
  <2>2. \A i \in 1..Len(plugins') : i >= h' => Entry(i)'
    BY <1>1, <1>4, <1>5, <2>1
  <2>3. QED
    BY <1>1, <1>2, <2>2 DEF PhaseInv
<1>15. IdsLeadHome'
  BY <1>1, <1>2, HomeNoneCalled
<1>16. QED
  BY <1>9, <1>10, <1>11, <1>12, <1>13, <1>14, <1>15

-----------------------------------------------------------------------------
(* The theorems.                                                           *)

\* Every operation by id.
LEMMA OperateKeeps ==
    ASSUME PInv, NEW id \in 0..current_id, Operate(id)
    PROVE  PInv'
<1>1. id \in Nat
  BY DEF PInv, TypeInv
<1>2. ASSUME NEW op \in {"shutdown", "initialize", "start", "stop"}, NotFound(op, id) PROVE PInv'
  <2>1. phase = "up" /\ op # "crash" /\ Quiet(op, id, IF id = 0 THEN 1 ELSE 2)
    BY <1>2 DEF NotFound
  <2>2. QED
    BY <2>1, QuietKeeps
<1>3. QED
  BY <1>1, <1>2, ShutdownKeeps, InitializeKeeps, StartStopKeeps, RebootKeeps DEF Operate

\* Every step keeps the invariant.
LEMMA NextPInv == PInv /\ [Next]_vars => PInv'
<1> SUFFICES ASSUME PInv, [Next]_vars PROVE PInv'
  OBVIOUS
<1>1. CASE llvm_jit_init \/ LoadDone \/ StartDone \/ UNCHANGED vars
  BY <1>1, InitPhasesKeep
<1>2. ASSUME NEW d \in Dirs, Load(d) \/ plugin_bridge_get_fn_ptr(d) PROVE PInv'
  BY <1>2, LoadStepKeeps, BridgeKeeps
<1>3. CASE StartFails \/ StartSucceeds
  BY <1>3, StartFailsKeeps, StartSucceedsKeeps
<1>4. ASSUME NEW id \in 0..current_id, Operate(id) PROVE PInv'
  BY <1>4, OperateKeeps
<1>5. ASSUME NEW k \in hooks, HookCrashes(k) PROVE PInv'
  BY <1>5, CrashKeeps
<1>6. QED
  BY <1>1, <1>2, <1>3, <1>4, <1>5 DEF Next

\* The invariant holds in every reachable state of the plugin manager.
THEOREM ManagerInvariance == Spec => []PInv
<1>1. QED
  BY InitPInv, NextPInv, PTL DEF Spec

\* plugin_stub_setup and plugin_manifest_set: through its stubs a plugin reaches
\* the types of its own data file and no others.
THEOREM ManagerOwnTypes == Spec => []OwnTypes
<1>1. PInv => OwnTypes
  <2> SUFFICES ASSUME PInv, NEW i \in 1..Len(plugins), NEW t \in types, Entry(i)
               PROVE  t.id = plugins[i].api.hk_setter.id <=> t.dir = plugins[i].dir
    BY DEF OwnTypes
  <2>1. plugins[i].api.hk_setter.id = plugins[i].id
    BY StubIds DEF PInv, TableInv
  <2> DEFINE u == [id |-> plugins[i].id, dir |-> plugins[i].dir]
  <2>2. u \in types /\ u.id = plugins[i].id /\ u.dir = plugins[i].dir
    BY DEF PInv, TableInv
  <2> HIDE DEF u
  <2>3. t.id = u.id <=> t.dir = u.dir
    BY <2>2 DEF PInv, IdInv
  <2>4. QED
    BY <2>1, <2>2, <2>3
<1>2. QED
  BY <1>1, ManagerInvariance, PTL

\* get_plugin_by_id and plugin_get_name: as long as no plugin that had been
\* given an id was left out of the table, operations call the plugin that has
\* the id, and crashes are recorded under the name of the plugin that crashed.
THEOREM ManagerIdsLeadHome == Spec => []IdsLeadHome
<1>1. PInv => IdsLeadHome
  BY DEF PInv
<1>2. QED
  BY <1>1, ManagerInvariance, PTL

\* plugin_start, plugin_stop, plugin_shutdown and pm_action_reboot: a plugin
\* that can be stopped never runs while the table has it stopped or killed.
THEOREM ManagerVisible == Spec => []RunningIsVisible
<1>1. PInv => RunningIsVisible
  BY DEF PInv, LifeInv, RunningIsVisible
<1>2. QED
  BY <1>1, ManagerInvariance, PTL

=============================================================================
