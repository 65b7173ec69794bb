---------------------------- MODULE HeapKitProofs ----------------------------
(***************************************************************************)
(* Theorems about HeapKit, for all data files and every bound: the fields  *)
(* of a type lie in its instance, apart from each other, hk_set_field does *)
(* what its answer says, and a text of hk_serialize restores what it was   *)
(* made of.                                                                *)
(***************************************************************************)
EXTENDS HeapKitLemmas

-----------------------------------------------------------------------------
(* The inductive invariant.                                                *)

\* The type being read.
CurInv ==
    /\ cur = [name |-> cur.name, fields |-> cur.fields, size |-> cur.size]
    /\ Packed(cur.fields, cur.size)

Elements(s) == {s[k] : k \in 1..Len(s)}

RegistryInv ==
    /\ registry \in Seq(Elements(registry))
    /\ Len(registry) <= MAX_REGISTERED_TYPES
    /\ \A i \in 1..Len(registry) : Sound(registry[i])
    /\ \A i, j \in 1..Len(registry) :
          registry[i].plugin = registry[j].plugin /\ registry[i].name = registry[j].name => i = j

HInv == CurInv /\ RegistryInv

\* Every instance holds values, of the right types where names tell fields apart.
ValuesInv == \A i \in 1..Len(registry) : Whole(registry[i])

\* A walk over the fields F, or its end: what has been read of the first
\* fields, and the text that was made of it.
WalkIs(h, F) ==
    /\ h = [i |-> h.i, plugin |-> h.plugin, type |-> h.type, size |-> h.size, out |-> h.out,
            was |-> h.was, ret |-> h.ret]
    /\ h.i \in Nat /\ 1 <= h.i /\ h.i <= Len(F) + 1
    /\ h.was \in Seq(Seq(Symbol)) /\ Len(h.was) = h.i - 1
    /\ \A k \in 1..(h.i - 1) : Text(h.was[k])
    /\ DistinctNames(F) => \A k \in 1..(h.i - 1) : Typed(F[k].type, h.was[k])
    /\ h.out \in Seq(Symbol)
    /\ \E pos : TextAt(F, h.was, h.i - 1, h.out, pos)

\* Nothing is held while the data files are read; later, a walk over a type
\* that is registered.
HeldInv ==
    \/ held = [i |-> 0]
    \/ /\ phase = "up"
       /\ find_registered(registry, held.plugin, held.type) # {}
       /\ WalkIs(held, Walked.fields)

DataInv == HInv /\ ValuesInv /\ HeldInv

-----------------------------------------------------------------------------
(* The registry.                                                           *)

\* A sequence is one over any set that has its elements.
LEMMA SeqOver ==
    ASSUME NEW S, NEW s \in Seq(S), NEW T, \A k \in 1..Len(s) : s[k] \in T
    PROVE  s \in Seq(T)
<1>1. s \in [1..Len(s) -> T] /\ Len(s) \in Nat
  OBVIOUS
<1>2. QED
  BY <1>1

\* The same, for the set of its elements.
LEMMA SeqOverItself ==
    ASSUME NEW S, NEW s \in Seq(S)
    PROVE  s \in Seq(Elements(s))
<1>1. \A k \in 1..Len(s) : s[k] \in Elements(s)
  BY DEF Elements
<1>2. QED
  BY <1>1, SeqOver

\* A plugin has at most one type of a name: the lookup finds it, or nothing.
LEMMA FoundIs ==
    ASSUME RegistryInv, NEW p, NEW t
    PROVE  /\ \A i \in find_registered(registry, p, t) :
                 i \in 1..Len(registry) /\ registry[i].plugin = p /\ registry[i].name = t
           /\ find_registered(registry, p, t) = {} =>
                 \A i \in 1..Len(registry) : ~(registry[i].plugin = p /\ registry[i].name = t)
<1>1. \A i, j \in {k \in 1..Len(registry) : registry[k].plugin = p /\ registry[k].name = t} : i = j
  BY DEF RegistryInv
<1>2. \A i \in 1..Len(registry) : i <= i
  OBVIOUS
<1>3. QED
  BY <1>1, <1>2 DEF find_registered, First

\* There is one answer to a lookup that finds something.
LEMMA FoundOne ==
    ASSUME RegistryInv, NEW p, NEW t, NEW i \in find_registered(registry, p, t)
    PROVE  (CHOOSE k \in find_registered(registry, p, t) : TRUE) = i
<1>1. \A k \in find_registered(registry, p, t) : k = i
  BY FoundIs DEF RegistryInv
<1>2. QED
  BY <1>1

\* Replacing one type in the registry.
LEMMA PutIs ==
    ASSUME registry \in Seq(Elements(registry)), NEW i \in 1..Len(registry), NEW e,
           registry' = [registry EXCEPT ![i] = e]
    PROVE  /\ registry' \in Seq(Elements(registry'))
           /\ Len(registry') = Len(registry)
           /\ \A k \in 1..Len(registry) : registry'[k] = IF k = i THEN e ELSE registry[k]
<1> DEFINE T == Elements(registry) \cup {e}
<1>1. registry \in Seq(T) /\ e \in T
  <2>1. e \in T /\ \A k \in 1..Len(registry) : registry[k] \in T
    BY DEF Elements
  <2> HIDE DEF T
  <2>2. QED
    BY <2>1, SeqOver
<1> HIDE DEF T
<1>2. /\ registry' \in Seq(T) /\ Len(registry') = Len(registry)
      /\ \A k \in 1..Len(registry) : registry'[k] = IF k = i THEN e ELSE registry[k]
  BY <1>1
<1>3. registry' \in Seq(Elements(registry'))
  BY <1>2, SeqOverItself
<1>4. QED
  BY <1>2, <1>3

\* Replacing a type by one with the same name and owner.
LEMMA PutKeeps ==
    ASSUME HInv, NEW i \in 1..Len(registry), NEW e, Sound(e),
           e.plugin = registry[i].plugin, e.name = registry[i].name,
           registry' = [registry EXCEPT ![i] = e], cur' = cur
    PROVE  HInv'
<1>1. CurInv'
  BY DEF HInv, CurInv
<1>2. registry \in Seq(Elements(registry))
  BY DEF HInv, RegistryInv
<1>3. /\ registry' \in Seq(Elements(registry'))
      /\ Len(registry') = Len(registry)
      /\ \A k \in 1..Len(registry) : registry'[k] = IF k = i THEN e ELSE registry[k]
  BY <1>2, PutIs
<1>4. RegistryInv'
  <2>1. Len(registry') <= MAX_REGISTERED_TYPES /\ \A k \in 1..Len(registry') : Sound(registry'[k])
    BY <1>3 DEF HInv, RegistryInv
  <2>2. \A k \in 1..Len(registry) :
           registry'[k].plugin = registry[k].plugin /\ registry'[k].name = registry[k].name
    BY <1>3
  <2>3. ASSUME NEW k \in 1..Len(registry'), NEW l \in 1..Len(registry'),
               registry'[k].plugin = registry'[l].plugin, registry'[k].name = registry'[l].name
        PROVE  k = l
    <3>1. k \in 1..Len(registry) /\ l \in 1..Len(registry)
      BY <1>3
    <3>2. registry[k].plugin = registry[l].plugin /\ registry[k].name = registry[l].name
      BY <2>2, <2>3, <3>1
    <3>3. QED
      BY <3>1, <3>2 DEF HInv, RegistryInv
  <2>4. QED
    BY <1>3, <2>1, <2>3 DEF RegistryInv
<1>5. QED
  BY <1>1, <1>4 DEF HInv

\* One type is replaced by another state of it.
LEMMA PutWhole ==
    ASSUME DataInv, NEW i \in 1..Len(registry), NEW e, Whole(e), SameType(e, registry[i]),
           registry' = [registry EXCEPT ![i] = e], cur' = cur, held' = held, phase' = phase
    PROVE  DataInv'
<1>1. HInv'
  BY PutKeeps DEF DataInv, Whole, SameType
<1>2. registry \in Seq(Elements(registry)) /\ RegistryInv
  BY DEF DataInv, HInv, RegistryInv
<1>3. /\ Len(registry') = Len(registry)
      /\ \A k \in 1..Len(registry) : registry'[k] = IF k = i THEN e ELSE registry[k]
  BY <1>2, PutIs
<1>4. ValuesInv'
  BY <1>3 DEF DataInv, ValuesInv
<1>5. \A k \in 1..Len(registry) : /\ registry'[k].plugin = registry[k].plugin
                                  /\ registry'[k].name = registry[k].name
                                  /\ registry'[k].fields = registry[k].fields
  BY <1>3 DEF SameType
<1>6. HeldInv'
  <2>1. CASE held = [i |-> 0]
    BY <2>1 DEF HeldInv
  <2>2. CASE held # [i |-> 0]
    <3>1. {j \in 1..Len(registry') : registry'[j].plugin = held.plugin /\ registry'[j].name = held.type}
            = {j \in 1..Len(registry) : registry[j].plugin = held.plugin /\ registry[j].name = held.type}
      BY <1>3, <1>5
    <3>2. find_registered(registry', held.plugin, held.type) = find_registered(registry, held.plugin, held.type)
      BY <3>1 DEF find_registered
    <3> DEFINE at == find_registered(registry, held.plugin, held.type)
               c == CHOOSE k \in at : TRUE
    <3>3. at # {} /\ phase = "up" /\ WalkIs(held, Walked.fields)
      BY <2>2 DEF DataInv, HeldInv
    <3>4. c \in 1..Len(registry)
      BY <1>2, <3>3, FoundIs
    <3>5. find_registered(registry', held'.plugin, held'.type) = at
      BY <3>2
    <3>6. Walked = registry[c] /\ Walked' = registry'[c]
      BY <3>5 DEF Walked
    <3> HIDE DEF at, c
    <3>7. Walked'.fields = Walked.fields
      BY <1>5, <3>4, <3>6
    <3>8. WalkIs(held', Walked'.fields)
      BY <3>3, <3>7
    <3>9. QED
      BY <3>3, <3>5, <3>8 DEF HeldInv
  <2>3. QED
    BY <2>1, <2>2
<1>7. QED
  BY <1>1, <1>4, <1>6 DEF DataInv

-----------------------------------------------------------------------------
(* Loading.                                                                *)

\* The initial state satisfies the invariant.
LEMMA InitHInv == Init => HInv
<1> SUFFICES ASSUME Init PROVE HInv
  OBVIOUS
<1>1. cur = NoType /\ registry = <<>>
  BY DEF Init
<1>2. CurInv
  BY <1>1, HeapKitAssumption DEF CurInv, NoType, Packed
<1>3. RegistryInv
  BY <1>1, HeapKitAssumption DEF RegistryInv
<1>4. QED
  BY <1>2, <1>3 DEF HInv

\* Steps that touch neither the registry nor the type being read.
LEMMA SameKeeps ==
    ASSUME HInv, UNCHANGED <<cur, registry>>
    PROVE  HInv'
  BY DEF HInv, CurInv, RegistryInv

\* The lines of a data file.
LEMMA ReadKeeps ==
    ASSUME HInv,
           \/ \E t \in TypeNames : StructLine(t)
           \/ Reading /\ \E l \in FieldLines[pid] : FieldLine(l[1], l[2])
           \/ EndOfFile
    PROVE  HInv'
<1>1. ASSUME registry' = registry, NEW t, cur' = [name |-> t, fields |-> <<>>, size |-> 0]
      PROVE  HInv'
  <2>1. cur'.fields = <<>> /\ cur'.size = 0
        /\ cur' = [name |-> cur'.name, fields |-> cur'.fields, size |-> cur'.size]
    BY <1>1
  <2>2. Packed(<<>>, 0)
    BY HeapKitAssumption DEF Packed
  <2>3. CurInv'
    BY <2>1, <2>2 DEF CurInv
  <2>4. QED
    BY <1>1, <2>3 DEF HInv, RegistryInv
<1>2. ASSUME NEW t \in TypeNames, StructLine(t) PROVE HInv'
  BY <1>1, <1>2 DEF StructLine
<1>3. CASE EndOfFile
  BY <1>1, <1>3 DEF EndOfFile, NextFile, NoType
<1>4. ASSUME Reading, NEW l \in FieldLines[pid], FieldLine(l[1], l[2]) PROVE HInv'
  <2> DEFINE type == hk_parse_type(l[2])
             f == [name |-> l[1], type |-> type, size |-> hk_type_size(type), offset |-> cur.size]
  <2>1. /\ registry' = registry
        /\ \/ cur' = cur
           \/ /\ Len(cur.fields) < HEAPKIT_MAX_FIELD
              /\ cur' = [cur EXCEPT !.fields = Append(@, f), !.size = Grown(@, f.size)]
    BY <1>4 DEF FieldLine
  <2>2. CASE cur' = cur
    BY <2>1, <2>2, SameKeeps
  <2>3. CASE /\ Len(cur.fields) < HEAPKIT_MAX_FIELD
             /\ cur' = [cur EXCEPT !.fields = Append(@, f), !.size = Grown(@, f.size)]
    <3>1. /\ cur = [name |-> cur.name, fields |-> cur.fields, size |-> cur.size]
          /\ Packed(cur.fields, cur.size) /\ cur.size \in Nat
      BY DEF HInv, CurInv, Packed
    <3>2. type \in FieldType /\ hk_type_size(type) \in Nat /\ l[1] \in FieldNames
      BY <1>4, SizeIs DEF Reading, FieldNames
    <3>3. f \in Field /\ f.size = hk_type_size(f.type) /\ f.offset = cur.size
      BY <3>1, <3>2 DEF Field
    <3> HIDE DEF f
    <3>4. cur' = [name |-> cur.name, fields |-> Append(cur.fields, f), size |-> cur.size + f.size]
      BY <2>3, <3>1 DEF Grown
    <3>5. Packed(Append(cur.fields, f), cur.size + f.size)
      BY <2>3, <3>1, <3>3, PackedAppend
    <3>6. CurInv'
      <4>1. cur'.fields = Append(cur.fields, f) /\ cur'.size = cur.size + f.size /\ cur'.name = cur.name
        BY <3>4
      <4>2. QED
        BY <3>4, <3>5, <4>1 DEF CurInv
    <3>7. QED
      BY <2>1, <3>6 DEF HInv, RegistryInv
  <2>4. QED
    BY <2>1, <2>2, <2>3
<1>5. QED
  BY <1>2, <1>3, <1>4

\* hk_type_register: a new name, and room for it.
LEMMA RegisterKeeps ==
    ASSUME HInv, NEW memory \in BOOLEAN, hk_type_register(memory)
    PROVE  HInv'
<1> DEFINE e == [plugin |-> pid, name |-> cur.name, fields |-> cur.fields, size |-> cur.size,
                 mem |-> [b \in 0..(cur.size - 1) |-> Byte(Zero, 0)]]
<1>1. CASE cur' = NoType /\ registry' = registry
  <2>1. cur'.fields = <<>> /\ cur'.size = 0
        /\ cur' = [name |-> cur'.name, fields |-> cur'.fields, size |-> cur'.size]
    BY <1>1 DEF NoType
  <2>2. Packed(<<>>, 0)
    BY HeapKitAssumption DEF Packed
  <2>3. CurInv'
    BY <2>1, <2>2 DEF CurInv
  <2>4. QED
    BY <1>1, <2>3 DEF HInv, RegistryInv
<1>2. CASE RegisterResult(pid, cur, memory) = 0 /\ cur' = NoType /\ registry' = Append(registry, e)
  <2>1. find_registered(registry, pid, cur.name) = {} /\ ~(Len(registry) >= MAX_REGISTERED_TYPES)
    BY <1>2 DEF RegisterResult
  <2>2. \A i \in 1..Len(registry) : ~(registry[i].plugin = pid /\ registry[i].name = cur.name)
    BY <2>1, FoundIs DEF HInv
  <2>3. /\ e = [plugin |-> e.plugin, name |-> e.name, fields |-> e.fields, size |-> e.size, mem |-> e.mem]
        /\ e.plugin = pid /\ e.name = cur.name /\ e.fields = cur.fields /\ e.size = cur.size
        /\ DOMAIN e.mem = 0..(cur.size - 1)
    OBVIOUS
  <2>4. Sound(e)
    BY <2>3 DEF Sound, HInv, CurInv
  <2> HIDE DEF e
  <2> DEFINE S == Elements(registry) \cup {e}
  <2>5. registry \in Seq(S) /\ e \in S
    BY DEF HInv, RegistryInv
  <2> HIDE DEF S
  <2>6. /\ registry' \in Seq(S) /\ Len(registry) \in Nat /\ Len(registry') = Len(registry) + 1
        /\ \A k \in 1..Len(registry) : registry'[k] = registry[k]
        /\ registry'[Len(registry) + 1] = e
    BY <1>2, <2>5
  <2>7. \A k \in 1..Len(registry') : k \in 1..Len(registry) \/ k = Len(registry) + 1
    BY <2>6
  <2>8. Len(registry') <= MAX_REGISTERED_TYPES
    BY <2>1, <2>6, HeapKitAssumption
  <2>9. \A k \in 1..Len(registry') : Sound(registry'[k])
    BY <2>4, <2>6, <2>7 DEF HInv, RegistryInv
  <2>10. ASSUME NEW k \in 1..Len(registry'), NEW l \in 1..Len(registry'),
                registry'[k].plugin = registry'[l].plugin, registry'[k].name = registry'[l].name
         PROVE  k = l
    <3>1. CASE k \in 1..Len(registry) /\ l \in 1..Len(registry)
      BY <2>6, <2>10, <3>1 DEF HInv, RegistryInv
    <3>2. CASE k = Len(registry) + 1 \/ l = Len(registry) + 1
      BY <2>2, <2>3, <2>6, <2>7, <2>10, <3>2
    <3>3. QED
      BY <2>7, <3>1, <3>2
  <2>11. RegistryInv'
    <3>1. registry' \in Seq(Elements(registry'))
      BY <2>6, SeqOverItself
    <3>2. QED
      BY <2>8, <2>9, <2>10, <3>1 DEF RegistryInv
  <2>12. CurInv'
    <3>1. cur'.fields = <<>> /\ cur'.size = 0
          /\ cur' = [name |-> cur'.name, fields |-> cur'.fields, size |-> cur'.size]
      BY <1>2 DEF NoType
    <3>2. Packed(<<>>, 0)
      BY HeapKitAssumption DEF Packed
    <3>3. QED
      BY <3>1, <3>2 DEF CurInv
  <2>13. QED
    BY <2>11, <2>12 DEF HInv
<1>3. QED
  BY <1>1, <1>2 DEF hk_type_register, NextFile

\* Nothing is held and the types are left alone.
LEMMA IdleKeeps ==
    ASSUME DataInv, HInv', held = [i |-> 0], held' = held, registry' = registry
    PROVE  DataInv'
<1>1. ValuesInv'
  BY DEF DataInv, ValuesInv
<1>2. HeldInv'
  BY DEF HeldInv
<1>3. QED
  BY <1>1, <1>2 DEF DataInv

\* A new instance is all zero.
LEMMA NewWhole ==
    ASSUME NEW e, Sound(e), e.mem = [b \in 0..(e.size - 1) |-> Byte(Zero, 0)]
    PROVE  Whole(e)
<1>1. ASSUME NEW k \in 1..Len(e.fields) PROVE Value(e, e.fields[k]) = Zero
  <2> DEFINE f == e.fields[k]
  <2>1. CASE f.size = 0
    BY <2>1 DEF Value
  <2>2. CASE f.size # 0
    <3>1. f.size \in Nat /\ f.offset \in Nat /\ Span(f) \subseteq 0..(e.size - 1)
      BY PackedFields, PackedApart DEF Sound
    <3>2. f.offset \in Span(f)
      BY <2>2, <3>1 DEF Span
    <3>3. \A b \in Span(f) : e.mem[b] = <<Zero, 0>> /\ Byte(Zero, b - f.offset) = <<Zero, 0>>
      BY <3>1 DEF Byte
    <3>4. e.mem[f.offset][1] = Zero
      <4>1. e.mem[f.offset] = <<Zero, 0>>
        BY <3>2, <3>3
      <4>2. <<Zero, 0>>[1] = Zero
        OBVIOUS
      <4>3. QED
        BY <4>1, <4>2
    <3>5. QED
      BY <2>2, <3>3, <3>4 DEF Value
  <2>3. QED
    BY <2>1, <2>2
<1>2. QED
  BY <1>1, ZeroTyped DEF Whole

\* hk_type_register: the new instance is whole too.
LEMMA RegisterWhole ==
    ASSUME DataInv, NEW memory \in BOOLEAN, hk_type_register(memory)
    PROVE  DataInv'
<1>1. HInv'
  BY RegisterKeeps DEF DataInv
<1>2. held = [i |-> 0] /\ held' = held
  BY DEF hk_type_register, NextFile, Reading, DataInv, HeldInv
<1>3. CASE registry' = registry
  BY <1>1, <1>2, <1>3, IdleKeeps
<1> DEFINE e == [plugin |-> pid, name |-> cur.name, fields |-> cur.fields, size |-> cur.size,
                 mem |-> [b \in 0..(cur.size - 1) |-> Byte(Zero, 0)]]
<1>4. CASE registry' = Append(registry, e)
  <2>1. e.size = cur.size /\ e.mem = [b \in 0..(e.size - 1) |-> Byte(Zero, 0)]
    OBVIOUS
  <2> HIDE DEF e
  <2> DEFINE S == Elements(registry) \cup {e}
  <2>2. registry \in Seq(S) /\ e \in S
    BY DEF DataInv, HInv, RegistryInv
  <2> HIDE DEF S
  <2>3. /\ Len(registry) \in Nat /\ Len(registry') = Len(registry) + 1
        /\ \A k \in 1..Len(registry) : registry'[k] = registry[k]
        /\ registry'[Len(registry) + 1] = e
    BY <1>4, <2>2
  <2>4. Sound(e)
    <3>1. Len(registry) + 1 \in 1..Len(registry')
      BY <2>3
    <3>2. QED
      BY <1>1, <2>3, <3>1 DEF HInv, RegistryInv
  <2>5. Whole(e)
    BY <2>1, <2>4, NewWhole
  <2>6. \A k \in 1..Len(registry') : k \in 1..Len(registry) \/ k = Len(registry) + 1
    BY <2>3
  <2>7. ValuesInv'
    BY <2>3, <2>5, <2>6 DEF DataInv, ValuesInv
  <2>8. QED
    BY <1>1, <1>2, <2>7 DEF DataInv, HeldInv
<1>5. QED
  BY <1>3, <1>4 DEF hk_type_register

-----------------------------------------------------------------------------
(* Setting a field.                                                        *)

\* What hk_set_field leaves: the registry, or one type written, as r says.
SetEffect(r, p, t, name, v, connected) ==
    \/ r.reg = registry /\ r.ret = -1
    \/ \E i \in find_registered(registry, p, t) : LET T == Touched(registry[i], name, connected) IN
          /\ i \in 1..Len(registry)
          /\ r.ret = IF \E k \in T : ~connected \/ Printed(registry[i].fields[k].type) THEN 0 ELSE -2
          /\ r.reg = [registry EXCEPT ![i] = Written(registry[i], {registry[i].fields[k] : k \in T}, v)]

\* That is what it leaves.
LEMMA SetFieldIs ==
    ASSUME HInv, NEW p, NEW t, NEW name, NEW v, NEW connected,
           NEW r, r = hk_set_field(registry, p, t, name, v, connected)
    PROVE  SetEffect(r, p, t, name, v, connected)
<1> DEFINE at == find_registered(registry, p, t)
           i == CHOOSE k \in at : TRUE
<1>1. CASE at = {}
  BY <1>1 DEF hk_set_field, SetEffect
<1>2. CASE at # {}
  <2>1. i \in at
    BY <1>2
  <2>2. i \in 1..Len(registry)
    BY <2>1, FoundIs DEF HInv
  <2>3. LET T == Touched(registry[i], name, connected) IN
        /\ r.ret = IF \E k \in T : ~connected \/ Printed(registry[i].fields[k].type) THEN 0 ELSE -2
        /\ r.reg = [registry EXCEPT ![i] = Written(registry[i], {registry[i].fields[k] : k \in T}, v)]
    BY <1>2 DEF hk_set_field
  <2> HIDE DEF i, at
  <2>4. QED
    BY <2>1, <2>2, <2>3 DEF at, SetEffect
<1>3. QED
  BY <1>1, <1>2

\* The first field of a name is one of those that hk_set_field writes.
LEMMA FirstTouched ==
    ASSUME NEW e, Sound(e), NEW name, NEW connected, Named(e, name) # {}
    PROVE  /\ First(Named(e, name)) # {}
           /\ First(Named(e, name)) \subseteq Touched(e, name, connected)
           /\ Touched(e, name, connected) \subseteq Named(e, name)
           /\ Named(e, name) \subseteq 1..Len(e.fields)
<1>1. Named(e, name) \subseteq 1..Len(e.fields) /\ Named(e, name) \in SUBSET Nat
  <2>1. Len(e.fields) \in Nat
    BY PackedFields DEF Sound
  <2>2. QED
    BY <2>1 DEF Named
<1>2. First(Named(e, name)) # {}
  BY <1>1, LeastExists DEF First
<1>3. First(Named(e, name)) \subseteq Touched(e, name, connected)
  BY DEF First, Touched
<1>4. QED
  BY <1>1, <1>2, <1>3 DEF Touched

\* A value for the first field of a name, written to some fields of that name.
LEMMA NamedWhole ==
    ASSUME NEW e, Whole(e), NEW name, NEW m \in Named(e, name), NEW v \in Values[e.fields[m].type],
           NEW T \in SUBSET Named(e, name), NEW F, F = {e.fields[k] : k \in T}, NEW r, r = Written(e, F, v)
    PROVE  Whole(r) /\ SameType(r, e)
<1>1. Sound(e) /\ m \in 1..Len(e.fields) /\ T \in SUBSET (1..Len(e.fields))
  BY DEF Whole, Named
<1>2. Sound(r) /\ SameType(r, e)
  BY <1>1, WrittenIs DEF SameType
<1>3. Text(v) /\ Typed(e.fields[m].type, v)
  <2>1. e.fields[m].type \in FieldType
    BY <1>1, PackedFields DEF Sound
  <2>2. QED
    BY <2>1, ArgumentTyped
<1>4. \A k \in 1..Len(e.fields) :
        /\ k \in T /\ (e.fields[k].size = 0 => v = Zero) => Value(r, e.fields[k]) = v
        /\ k \notin T => Value(r, e.fields[k]) = Value(e, e.fields[k])
  BY ONLY F = {e.fields[l] : l \in T}, r = Written(e, F, v), <1>1, ValueAfter
<1>5. \A k \in 1..Len(e.fields) : \/ Value(r, e.fields[k]) = Zero
                                  \/ k \in T /\ Value(r, e.fields[k]) = v
                                  \/ Value(r, e.fields[k]) = Value(e, e.fields[k])
  BY <1>4 DEF Value
<1>6. \A k \in 1..Len(e.fields) : Text(Value(r, e.fields[k]))
  BY <1>3, <1>5, ZeroTyped DEF Whole
<1>7. ASSUME DistinctNames(e.fields), NEW k \in 1..Len(e.fields)
      PROVE  Typed(e.fields[k].type, Value(r, e.fields[k]))
  <2>1. k \in T => k = m
    BY <1>7 DEF Named, DistinctNames
  <2>2. Typed(e.fields[k].type, Value(e, e.fields[k]))
    BY <1>7 DEF Whole
  <2>3. QED
    BY <1>3, <1>5, <2>1, <2>2, ZeroTyped
<1>8. QED
  BY <1>2, <1>6, <1>7 DEF Whole, SameType

\* What a plugin may pass is a value for the first field of the name.
LEMMA ArgumentIs ==
    ASSUME DataInv, NEW p, NEW t, NEW name, NEW v \in Arguments(registry, p, t, name),
           NEW i \in find_registered(registry, p, t)
    PROVE  \E m \in Named(registry[i], name) : v \in Values[registry[i].fields[m].type]
<1>1. RegistryInv /\ i \in 1..Len(registry)
  BY FoundIs DEF DataInv, HInv
<1>2. PICK e : e = registry[i]
  OBVIOUS
<1>3. Sound(e)
  BY <1>1, <1>2 DEF DataInv, ValuesInv, Whole
<1>4. registry[CHOOSE k \in find_registered(registry, p, t) : TRUE] = e
  BY <1>1, <1>2, FoundOne
<1>5. hk_field_exists(registry, p, t, name) /\ v \in Values[hk_field_type(registry, p, t, name)]
  BY DEF Arguments
<1>6. Named(e, name) # {}
  BY <1>4, <1>5 DEF hk_field_exists, hk_field_type
<1> DEFINE m == CHOOSE k \in First(Named(e, name)) : TRUE
<1>7. m \in Named(e, name)
  BY <1>3, <1>6, FirstTouched DEF First
<1>8. hk_field_type(registry, p, t, name) = e.fields[m].type
  BY <1>4, <1>6 DEF hk_field_type
<1> HIDE DEF m
<1>9. QED
  BY <1>2, <1>5, <1>7, <1>8

\* A plugin sets a field.
LEMMA SetFieldWhole ==
    ASSUME DataInv, NEW p, NEW t, NEW name, SetField(p, t, name)
    PROVE  DataInv'
<1>1. PICK v \in Arguments(registry, p, t, name), connected \in BOOLEAN :
        registry' = hk_set_field(registry, p, t, name, v, connected).reg
  BY DEF SetField
<1>2. cur' = cur /\ held' = held /\ phase' = phase
  BY DEF SetField
<1>3. CASE registry' = registry
  <2>1. HInv' /\ ValuesInv'
    BY <1>2, <1>3, SameKeeps DEF DataInv, ValuesInv
  <2>2. HeldInv'
    BY <1>2, <1>3 DEF DataInv, HeldInv, Walked
  <2>3. QED
    BY <2>1, <2>2 DEF DataInv
<1>4. ASSUME NEW i \in find_registered(registry, p, t), NEW T, T = Touched(registry[i], name, connected),
             registry' = [registry EXCEPT ![i] = Written(registry[i], {registry[i].fields[k] : k \in T}, v)]
      PROVE  DataInv'
  <2>1. PICK e : e = registry[i]
    OBVIOUS
  <2>2. PICK F : F = {e.fields[k] : k \in T}
    OBVIOUS
  <2>3. PICK r : r = Written(e, F, v)
    OBVIOUS
  <2>4. i \in 1..Len(registry)
    BY FoundIs DEF DataInv, HInv
  <2>5. Whole(e)
    BY <2>1, <2>4 DEF DataInv, ValuesInv
  <2>6. PICK m \in Named(e, name) : v \in Values[e.fields[m].type]
    BY <2>1, ArgumentIs
  <2>7. T \in SUBSET Named(e, name)
    BY <1>4, <2>1 DEF Touched
  <2>8. Whole(r) /\ SameType(r, e)
    BY <2>2, <2>3, <2>5, <2>6, <2>7, NamedWhole
  <2>9. registry' = [registry EXCEPT ![i] = r]
    BY <1>4, <2>1, <2>2, <2>3
  <2>10. QED
    BY <1>2, <2>1, <2>4, <2>8, <2>9, PutWhole
<1>5. PICK r : r = hk_set_field(registry, p, t, name, v, connected)
  OBVIOUS
<1>6. SetEffect(r, p, t, name, v, connected)
  BY <1>5, SetFieldIs DEF DataInv
<1>7. registry' = r.reg
  BY <1>1, <1>5
<1>8. QED
  BY <1>3, <1>4, <1>6, <1>7 DEF SetEffect

-----------------------------------------------------------------------------
(* Reading and writing texts.                                              *)

\* hk_get_type starts a walk.
LEMMA GetTypeWhole ==
    ASSUME DataInv, NEW p, NEW t, NEW size, GetType(p, t, size)
    PROVE  DataInv'
<1>1. /\ phase' = "up" /\ cur' = cur /\ registry' = registry
      /\ find_registered(registry, p, t) # {}
      /\ held' = [i |-> 1, plugin |-> p, type |-> t, size |-> size, out |-> <<>>, was |-> <<>>, ret |-> 0]
  BY DEF GetType
<1>2. HInv' /\ ValuesInv'
  BY <1>1, SameKeeps DEF DataInv, ValuesInv
<1>3. /\ held'.i = 1 /\ held'.plugin = p /\ held'.type = t /\ held'.size = size
      /\ held'.out = <<>> /\ held'.was = <<>> /\ held'.ret = 0
  BY <1>1
<1>4. find_registered(registry', held'.plugin, held'.type) # {}
  BY <1>1, <1>3
<1>5. PICK F : F = Walked'.fields
  OBVIOUS
<1>6. Len(F) \in Nat
  <2>1. PICK i \in find_registered(registry, p, t) : Walked' = registry[i]
    BY <1>1, <1>3 DEF Walked
  <2>2. Sound(registry[i])
    BY FoundIs DEF DataInv, HInv, RegistryInv
  <2>3. QED
    BY <1>5, <2>1, <2>2, PackedFields DEF Sound
<1>7. WalkIs(held', F)
  <2>1. \E pos : TextAt(F, <<>>, 0, <<>>, pos)
    BY TextStarts
  <2>2. /\ <<>> \in Seq(Symbol) /\ <<>> \in Seq(Seq(Symbol)) /\ Len(<<>>) = 1 - 1 /\ 1 - 1 = 0
        /\ 1 \in Nat /\ 1 <= 1 /\ 1 <= Len(F) + 1
    BY <1>6
  <2>3. held' = [i |-> held'.i, plugin |-> held'.plugin, type |-> held'.type, size |-> held'.size,
                 out |-> held'.out, was |-> held'.was, ret |-> held'.ret]
    BY <1>1, <1>3
  <2>4. \A k \in 1..(1 - 1) : FALSE
    OBVIOUS
  <2>5. QED
    BY <1>3, <2>1, <2>2, <2>3, <2>4 DEF WalkIs
<1>8. HeldInv'
  BY <1>1, <1>4, <1>5, <1>7 DEF HeldInv
<1>9. QED
  BY <1>2, <1>8 DEF DataInv

\* A walk over F, one field further.
LEMMA WalkNext ==
    ASSUME NEW F, F \in Seq(Field), NEW h, WalkIs(h, F), h.i <= Len(F), NEW v, Text(v),
           DistinctNames(F) => Typed(F[h.i].type, v),
           NEW g, g = [i |-> h.i + 1, plugin |-> h.plugin, type |-> h.type, size |-> h.size,
                       out |-> h.out \o Part(F[h.i], v), was |-> Append(h.was, v), ret |-> h.ret]
    PROVE  WalkIs(g, F)
<1>1. PICK n \in Nat : n + 1 = h.i /\ n = h.i - 1
  BY DEF WalkIs
<1>2. /\ h.was \in Seq(Seq(Symbol)) /\ Len(h.was) = n
      /\ \A k \in 1..n : Text(h.was[k])
      /\ DistinctNames(F) => \A k \in 1..n : Typed(F[k].type, h.was[k])
      /\ h.out \in Seq(Symbol)
  BY <1>1 DEF WalkIs
<1>3. PICK pos : TextAt(F, h.was, n, h.out, pos)
  BY <1>1 DEF WalkIs
<1>4. n + 1 \in 1..Len(F) /\ F[n + 1] \in Field /\ Len(F) \in Nat
  BY <1>1
<1>5. PICK w : w = Append(h.was, v)
  OBVIOUS
<1>6. w \in Seq(Seq(Symbol)) /\ Len(w) = n + 1 /\ (\A k \in 1..n : w[k] = h.was[k]) /\ w[n + 1] = v
  <2>1. v \in Seq(Symbol)
    BY DEF Text
  <2>2. QED
    BY <1>2, <1>5, <2>1
<1>7. PICK new : new = h.out \o Part(F[n + 1], v)
  OBVIOUS
<1>8. new \in Seq(Symbol)
  <2>1. Part(F[n + 1], v) \in Seq(Symbol)
    BY <1>4, PartText
  <2>2. QED
    BY <1>2, <1>7, <2>1
<1>9. (\A k \in 1..n : w[k] = h.was[k]) /\ w[n + 1] = v
  BY <1>6
<1>10. \E q : TextAt(F, w, n + 1, new, q)
  <2>1. F[n + 1] \in Field /\ Text(w[n + 1]) /\ new = h.out \o Part(F[n + 1], w[n + 1])
    BY <1>4, <1>7, <1>9
  <2>2. PICK u \in Seq(Symbol) : u = h.out
    BY <1>2
  <2>3. TextAt(F, h.was, n, u, pos) /\ new = u \o Part(F[n + 1], w[n + 1])
    BY <1>3, <2>1, <2>2
  <2>4. QED
    BY <1>9, <2>1, <2>3, TextGrows
<1>11. \A k \in 1..(n + 1) : k \in 1..n \/ k = n + 1
  OBVIOUS
<1>12. \A k \in 1..(n + 1) : Text(w[k])
  BY <1>2, <1>9, <1>11
<1>13. DistinctNames(F) => \A k \in 1..(n + 1) : Typed(F[k].type, w[k])
  BY <1>1, <1>2, <1>9, <1>11
<1>14. /\ g = [i |-> g.i, plugin |-> g.plugin, type |-> g.type, size |-> g.size, out |-> g.out,
               was |-> g.was, ret |-> g.ret]
       /\ g.i = (n + 1) + 1 /\ g.out = new /\ g.was = w
  BY <1>1, <1>5, <1>7
<1>15. g.i \in Nat /\ 1 <= g.i /\ g.i <= Len(F) + 1 /\ g.i - 1 = n + 1
  <2>1. g.i = (n + 1) + 1 /\ n + 1 <= Len(F) /\ Len(F) \in Nat
    BY <1>4, <1>14
  <2>2. QED
    BY <2>1
<1>16. QED
  BY <1>6, <1>8, <1>10, <1>12, <1>13, <1>14, <1>15 DEF WalkIs

\* hk_serialize goes on to the next field, or gives up.
LEMMA SerializeWhole ==
    ASSUME DataInv, SerializeField
    PROVE  DataInv'
<1>1. phase' = phase /\ cur' = cur /\ registry' = registry /\ Walking
  BY DEF SerializeField
<1>2. HInv' /\ ValuesInv'
  BY <1>1, SameKeeps DEF DataInv, ValuesInv
<1>3. held.i > 0 /\ held.ret = 0 /\ held.i <= Len(Walked.fields)
  BY <1>1 DEF Walking
<1>4. held # [i |-> 0]
  BY <1>3
<1>5. /\ phase = "up" /\ find_registered(registry, held.plugin, held.type) # {}
      /\ WalkIs(held, Walked.fields)
  BY <1>4 DEF DataInv, HeldInv
<1>6. PICK e : e = Walked
  OBVIOUS
<1>7. PICK F : F = e.fields
  OBVIOUS
<1>8. PICK c \in find_registered(registry, held.plugin, held.type) : e = registry[c]
  BY <1>5, <1>6 DEF Walked
<1>9. Whole(e)
  BY <1>8, FoundIs DEF DataInv, HInv, ValuesInv
<1>10. F \in Seq(Field)
  BY <1>7, <1>9, PackedFields DEF Whole, Sound
<1>11. PICK h : h = held
  OBVIOUS
<1>12. WalkIs(h, F) /\ h.i <= Len(F)
  BY <1>3, <1>5, <1>6, <1>7, <1>11
<1>13. h.i \in 1..Len(F)
  BY <1>12 DEF WalkIs
<1>14. PICK v : v = Value(e, F[h.i])
  OBVIOUS
<1>15. Text(v) /\ (DistinctNames(F) => Typed(F[h.i].type, v))
  BY <1>7, <1>9, <1>13, <1>14 DEF Whole
<1>16. h = [i |-> h.i, plugin |-> h.plugin, type |-> h.type, size |-> h.size, out |-> h.out,
            was |-> h.was, ret |-> h.ret]
  BY <1>12 DEF WalkIs
<1>17. PICK g : g = held'
  OBVIOUS
<1> DEFINE more == [i |-> h.i + 1, plugin |-> h.plugin, type |-> h.type, size |-> h.size,
                    out |-> h.out \o Part(F[h.i], v), was |-> Append(h.was, v), ret |-> h.ret]
<1>18. g = more \/ g = [h EXCEPT !.ret = -3]
  <2>1. \/ ~Printed(F[h.i].type) /\ g = [h EXCEPT !.i = @ + 1, !.was = Append(@, v)]
        \/ g = [h EXCEPT !.ret = -3]
        \/ /\ Printed(F[h.i].type)
           /\ g = [[h EXCEPT !.i = @ + 1, !.was = Append(@, v)] EXCEPT !.out = @ \o FieldText(F[h.i], v)]
    BY <1>6, <1>7, <1>11, <1>14, <1>17 DEF SerializeField
  <2>2. CASE ~Printed(F[h.i].type) /\ g = [h EXCEPT !.i = @ + 1, !.was = Append(@, v)]
    <3>1. Part(F[h.i], v) = <<>> /\ h.out \in Seq(Symbol)
      BY <1>12, <2>2 DEF Part, WalkIs
    <3>2. h.out \o Part(F[h.i], v) = h.out
      BY <3>1
    <3>3. QED
      BY <1>16, <2>2, <3>2
  <2>3. CASE /\ Printed(F[h.i].type)
             /\ g = [[h EXCEPT !.i = @ + 1, !.was = Append(@, v)] EXCEPT !.out = @ \o FieldText(F[h.i], v)]
    <3>1. Part(F[h.i], v) = FieldText(F[h.i], v)
      BY <2>3 DEF Part
    <3>2. QED
      BY <1>16, <2>3, <3>1
  <2>4. QED
    BY <2>1, <2>2, <2>3
<1>19. WalkIs(g, F) /\ g.plugin = h.plugin /\ g.type = h.type
  <2>1. CASE g = more
    <3>1. g.plugin = h.plugin /\ g.type = h.type
      BY <2>1
    <3>2. QED
      BY <1>10, <1>12, <1>15, <2>1, <3>1, WalkNext
  <2>2. CASE g = [h EXCEPT !.ret = -3]
    <3>1. g = [i |-> h.i, plugin |-> h.plugin, type |-> h.type, size |-> h.size, out |-> h.out,
               was |-> h.was, ret |-> -3]
      BY <1>16, <2>2
    <3>2. /\ g.i = h.i /\ g.plugin = h.plugin /\ g.type = h.type /\ g.out = h.out /\ g.was = h.was
          /\ g = [i |-> g.i, plugin |-> g.plugin, type |-> g.type, size |-> g.size, out |-> g.out,
                  was |-> g.was, ret |-> g.ret]
      BY <3>1
    <3>3. QED
      BY <1>12, <3>2 DEF WalkIs
  <2>3. QED
    BY <1>18, <2>1, <2>2
<1>20. held'.plugin = held.plugin /\ held'.type = held.type /\ Walked' = Walked
  <2>1. held'.plugin = held.plugin /\ held'.type = held.type
    BY <1>11, <1>17, <1>19
  <2>2. QED
    BY <1>1, <2>1 DEF Walked
<1>21. HeldInv'
  <2>1. WalkIs(held', Walked'.fields)
    BY <1>6, <1>7, <1>17, <1>19, <1>20
  <2>2. find_registered(registry', held'.plugin, held'.type) # {}
    BY <1>1, <1>5, <1>20
  <2>3. QED
    BY <1>1, <1>5, <2>1, <2>2 DEF HeldInv
<1>22. QED
  BY <1>2, <1>21 DEF DataInv

\* The gateway writes a type back.
LEMMA SetTypeWhole ==
    ASSUME DataInv, NEW p, SetType(p)
    PROVE  DataInv'
<1>1. PICK i \in find_registered(registry, p, held.type) :
        registry' = [registry EXCEPT ![i] = hk_deserialize(@, held.out)]
  BY DEF SetType
<1>2. cur' = cur /\ held' = held /\ phase' = phase /\ i \in 1..Len(registry)
  BY FoundIs DEF SetType, DataInv, HInv
<1>3. held # [i |-> 0]
  BY DEF SetType
<1>4. held.out \in Seq(Symbol)
  BY <1>3 DEF DataInv, HeldInv, WalkIs
<1>5. PICK d : d = hk_deserialize(registry[i], held.out)
  OBVIOUS
<1>6. Whole(d) /\ SameType(d, registry[i])
  BY <1>2, <1>4, <1>5, DeserializeKeeps DEF DataInv, ValuesInv
<1>7. registry' = [registry EXCEPT ![i] = d]
  BY <1>1, <1>5
<1>8. QED
  BY <1>2, <1>6, <1>7, PutWhole

-----------------------------------------------------------------------------
(* The theorems.                                                           *)

\* The initial state satisfies the invariant.
LEMMA InitData == Init => DataInv
<1> SUFFICES ASSUME Init PROVE DataInv
  OBVIOUS
<1>1. registry = <<>> /\ held = [i |-> 0]
  BY DEF Init
<1>2. ValuesInv /\ HeldInv
  BY <1>1 DEF ValuesInv, HeldInv
<1>3. QED
  BY <1>2, InitHInv DEF DataInv

\* Every step keeps it.
LEMMA NextData == DataInv /\ [Next]_vars => DataInv'
<1> SUFFICES ASSUME DataInv, [Next]_vars PROVE DataInv'
  OBVIOUS
<1>1. CASE UNCHANGED vars
  <2>1. phase' = phase /\ cur' = cur /\ registry' = registry /\ held' = held
    BY <1>1 DEF vars
  <2>2. HInv' /\ ValuesInv'
    BY <2>1, SameKeeps DEF DataInv, ValuesInv
  <2>3. HeldInv'
    BY <2>1 DEF DataInv, HeldInv, Walked
  <2>4. QED
    BY <2>2, <2>3 DEF DataInv
<1>2. ASSUME \/ \E t \in TypeNames : StructLine(t)
             \/ Reading /\ \E l \in FieldLines[pid] : FieldLine(l[1], l[2])
             \/ EndOfFile
      PROVE  DataInv'
  <2>1. HInv'
    BY <1>2, ReadKeeps DEF DataInv
  <2>2. Reading /\ held' = held /\ registry' = registry
    BY <1>2 DEF StructLine, FieldLine, EndOfFile, NextFile
  <2>3. held = [i |-> 0]
    BY <2>2 DEF Reading, DataInv, HeldInv
  <2>4. QED
    BY <2>1, <2>2, <2>3, IdleKeeps
<1>3. QED
  BY <1>1, <1>2, RegisterWhole, SetFieldWhole, GetTypeWhole, SerializeWhole, SetTypeWhole DEF Next

\* The invariant holds in every reachable state: what is registered is laid out
\* in its instance, each instance holds values, and the text that is held is
\* that of the values hk_serialize has read.
THEOREM HeapKitInvariance == Spec => []DataInv
<1>1. QED
  BY InitData, NextData, PTL DEF Spec

\* plugin_data_set and hk_type_register: the registry stays within its bound, a
\* plugin's names are unique in it, and the fields of a type lie inside its
\* instance, apart from each other.
THEOREM HeapKitLayout == Spec => []Layout
<1>1. HInv => Layout
  <2> SUFFICES ASSUME HInv PROVE Layout
    OBVIOUS
  <2>1. ASSUME NEW i \in 1..Len(registry), NEW F, F = registry[i].fields
        PROVE  /\ Len(F) <= HEAPKIT_MAX_FIELD
               /\ \A k \in 1..Len(F) : Span(F[k]) \subseteq DOMAIN registry[i].mem
               /\ \A k, l \in 1..Len(F) : k # l => Span(F[k]) \cap Span(F[l]) = {}
    <3>1. Packed(F, registry[i].size) /\ DOMAIN registry[i].mem = 0..(registry[i].size - 1)
      BY <2>1 DEF HInv, RegistryInv, Sound
    <3>2. QED
      BY <3>1, PackedApart DEF Packed
  <2>2. QED
    BY <2>1 DEF HInv, RegistryInv, Layout
<1>2. DataInv => HInv
  BY DEF DataInv
<1>3. QED
  BY <1>1, <1>2, HeapKitInvariance, PTL

\* What SetTellsTruth says of the outcome r of one call.
Truth(r, p, t, name, v, connected) ==
    /\ r.ret = 0 => hk_get_field(r.reg, p, t, name) = [ret |-> 0, value |-> v]
    /\ \A j \in 1..Len(registry) :
          r.reg[j] # registry[j] =>
             /\ registry[j].plugin = p /\ registry[j].name = t
             /\ \A k \in 1..Len(registry[j].fields) :
                   Value(r.reg[j], registry[j].fields[k]) # Value(registry[j], registry[j].fields[k]) =>
                      /\ registry[j].fields[k].name = name
                      /\ r.ret = 0 \/ (connected /\ ~Printed(registry[j].fields[k].type))

\* hk_set_field and hk_get_field (heapkit.c): an answer of 0 means that the
\* value can be read back, and nothing but fields of that name in the caller's
\* own type has changed; another means that nothing has, unless it was a
\* pointer or structure set while the gateway was connected.
THEOREM HeapKitSetTellsTruth == Spec => []SetTellsTruth
<1>1. HInv => SetTellsTruth
  <2> SUFFICES ASSUME HInv, NEW p \in loaded, NEW t \in TypeNames, NEW name \in FieldNames,
                      NEW connected \in BOOLEAN, NEW v \in Arguments(registry, p, t, name),
                      NEW r, r = hk_set_field(registry, p, t, name, v, connected)
               PROVE  Truth(r, p, t, name, v, connected)
    BY DEF SetTellsTruth, Truth
  <2>1. SetEffect(r, p, t, name, v, connected)
    BY SetFieldIs
  <2>2. CASE r.reg = registry /\ r.ret = -1
    BY <2>2 DEF Truth
  <2>3. CASE ~(r.reg = registry /\ r.ret = -1)
    <3>1. PICK i \in find_registered(registry, p, t) : LET T == Touched(registry[i], name, connected) IN
            /\ i \in 1..Len(registry)
            /\ r.ret = IF \E k \in T : ~connected \/ Printed(registry[i].fields[k].type) THEN 0 ELSE -2
            /\ r.reg = [registry EXCEPT ![i] = Written(registry[i], {registry[i].fields[k] : k \in T}, v)]
      BY <2>1, <2>3 DEF SetEffect
    <3> DEFINE e == registry[i]
               T == Touched(e, name, connected)
               F == {e.fields[k] : k \in T}
               new == Written(e, F, v)
    <3>2. /\ i \in 1..Len(registry)
          /\ r.ret = (IF \E k \in T : ~connected \/ Printed(e.fields[k].type) THEN 0 ELSE -2)
          /\ r.reg = [registry EXCEPT ![i] = new]
      BY <3>1
    <3>3. e = registry[i] /\ T = Touched(e, name, connected) /\ F = {e.fields[k] : k \in T}
          /\ new = Written(e, F, v)
      OBVIOUS
    <3> HIDE DEF e, T, F, new
    <3>4. /\ i \in find_registered(registry, p, t) /\ i \in 1..Len(registry) /\ e = registry[i]
          /\ T = Touched(e, name, connected)
          /\ r.ret = (IF \E k \in T : ~connected \/ Printed(e.fields[k].type) THEN 0 ELSE -2)
          /\ F = {e.fields[k] : k \in T} /\ new = Written(e, F, v)
          /\ r.reg = [registry EXCEPT ![i] = new]
      BY <3>2, <3>3
    <3>5. Sound(e) /\ RegistryInv
      BY <3>4 DEF HInv, RegistryInv
    <3>6. T \subseteq Named(e, name) /\ Named(e, name) \subseteq 1..Len(e.fields)
      BY <3>4 DEF Touched, Named
    <3>7. /\ new.plugin = e.plugin /\ new.name = e.name /\ new.fields = e.fields
      BY <3>4, <3>5, WrittenIs
    <3>8. /\ Len(r.reg) = Len(registry)
          /\ \A j \in 1..Len(registry) : r.reg[j] = IF j = i THEN new ELSE registry[j]
      BY <3>4, <3>5 DEF RegistryInv
    <3>9. /\ T \in SUBSET (1..Len(e.fields))
          /\ F = {e.fields[l] : l \in T} /\ new = Written(e, F, v)
      BY <3>4, <3>6
    <3>10. \A k \in 1..Len(e.fields) :
            /\ k \in T /\ (e.fields[k].size = 0 => v = Zero) => Value(new, e.fields[k]) = v
            /\ k \notin T => Value(new, e.fields[k]) = Value(e, e.fields[k])
      BY <3>5, <3>9, ValueAfter
    <3>11. ASSUME r.ret = 0
          PROVE  hk_get_field(r.reg, p, t, name) = [ret |-> 0, value |-> v]
      <4>1. Named(e, name) # {}
        BY <3>4, <3>6, <3>11
      <4> DEFINE m == CHOOSE k \in First(Named(e, name)) : TRUE
      <4>2. m \in First(Named(e, name)) /\ m \in T /\ m \in 1..Len(e.fields)
        BY <3>4, <3>5, <4>1, FirstTouched
      <4>3. (CHOOSE k \in find_registered(registry, p, t) : TRUE) = i
        BY <3>4, <3>5, FoundOne
      <4>4. hk_field_type(registry, p, t, name) = e.fields[m].type
        BY <3>4, <4>1, <4>3 DEF hk_field_type
      <4>5. e.fields[m].size = 0 => v = Zero
        <5>1. e.fields[m].type \in FieldType /\ e.fields[m].size = hk_type_size(e.fields[m].type)
          BY <3>5, <4>2, PackedFields DEF Sound, Packed
        <5>2. v \in Values[e.fields[m].type]
          BY <4>4 DEF Arguments
        <5>3. Values["struct"] = {Zero}
          BY DEF Values
        <5>4. QED
          BY <5>1, <5>2, <5>3, SizeIs
      <4>6. Value(new, e.fields[m]) = v
        BY <3>10, <4>2, <4>5
      <4>7. find_registered(r.reg, p, t) = find_registered(registry, p, t)
        <5>1. \A j \in 1..Len(registry) :
                r.reg[j].plugin = registry[j].plugin /\ r.reg[j].name = registry[j].name
          BY <3>4, <3>7, <3>8
        <5>2. {j \in 1..Len(r.reg) : r.reg[j].plugin = p /\ r.reg[j].name = t}
                = {j \in 1..Len(registry) : registry[j].plugin = p /\ registry[j].name = t}
          BY <3>8, <5>1
        <5>3. QED
          BY <5>2 DEF find_registered
      <4>8. Named(new, name) = Named(e, name)
        BY <3>7 DEF Named
      <4>9. r.reg[i] = new
        BY <3>4, <3>8
      <4>10. /\ find_registered(r.reg, p, t) # {}
             /\ r.reg[CHOOSE k \in find_registered(r.reg, p, t) : TRUE] = new
        BY <3>4, <4>3, <4>7, <4>9
      <4>11. hk_get_field(r.reg, p, t, name)
               = [ret |-> 0, value |-> Value(new, new.fields[CHOOSE k \in First(Named(new, name)) : TRUE])]
        BY <4>1, <4>8, <4>10 DEF hk_get_field
      <4>12. new.fields[CHOOSE k \in First(Named(new, name)) : TRUE] = e.fields[m]
        BY <3>7, <4>8
      <4>13. QED
        BY <4>6, <4>11, <4>12
    <3>12. ASSUME NEW j \in 1..Len(registry), r.reg[j] # registry[j]
          PROVE  /\ registry[j].plugin = p /\ registry[j].name = t
                 /\ \A k \in 1..Len(registry[j].fields) :
                      Value(r.reg[j], registry[j].fields[k]) # Value(registry[j], registry[j].fields[k]) =>
                        /\ registry[j].fields[k].name = name
                        /\ r.ret = 0 \/ (connected /\ ~Printed(registry[j].fields[k].type))
      <4>1. j = i /\ r.reg[j] = new
        BY <3>8, <3>12
      <4>2. e.plugin = p /\ e.name = t
        BY <3>4, <3>5, FoundIs
      <4>3. ASSUME NEW k \in 1..Len(e.fields), Value(new, e.fields[k]) # Value(e, e.fields[k])
            PROVE  /\ e.fields[k].name = name
                   /\ r.ret = 0 \/ (connected /\ ~Printed(e.fields[k].type))
        <5>1. k \in T
          BY <3>10, <4>3
        <5>2. e.fields[k].name = name
          BY <3>6, <5>1 DEF Named
        <5>3. QED
          BY <3>4, <5>1, <5>2
      <4>4. QED
        BY <3>4, <4>1, <4>2, <4>3
    <3>13. QED
      BY <3>11, <3>12 DEF Truth
  <2>4. QED
    BY <2>2, <2>3
<1>2. DataInv => HInv
  BY DEF DataInv
<1>3. QED
  BY <1>1, <1>2, HeapKitInvariance, PTL

\* hk_serialize and hk_deserialize (heapkit.c): a text that was answered with 0
\* and that Readable describes gives every printed field the value it had when
\* it was read, and leaves the others alone, however many fields there are, and
\* whatever was set while the text was made and since.
THEOREM HeapKitRestores == Spec => []Restores
<1>1. DataInv => Restores
  <2> SUFFICES ASSUME DataInv, held.i > 0, held.ret = 0, ~Walking, Readable(Walked, held.was, held.out),
                      NEW l \in 1..Len(Walked.fields)
               PROVE  Value(hk_deserialize(Walked, held.out), Walked.fields[l]) =
                        IF Printed(Walked.fields[l].type) THEN Normal(Walked.fields[l].type, held.was[l])
                        ELSE Value(Walked, Walked.fields[l])
    BY DEF Restores
  <2>1. held # [i |-> 0]
    OBVIOUS
  <2>2. find_registered(registry, held.plugin, held.type) # {} /\ WalkIs(held, Walked.fields)
    BY <2>1 DEF DataInv, HeldInv
  <2>3. PICK e : e = Walked
    OBVIOUS
  <2>4. PICK F : F = e.fields
    OBVIOUS
  <2>5. PICK w : w = held.was
    OBVIOUS
  <2>6. PICK out : out = held.out
    OBVIOUS
  <2>7. PICK c \in find_registered(registry, held.plugin, held.type) : e = registry[c]
    BY <2>2, <2>3 DEF Walked
  <2>8. Whole(e) /\ Sound(e)
    BY <2>7, FoundIs DEF DataInv, HInv, ValuesInv, Whole
  <2>9. F \in Seq(Field) /\ Len(F) \in Nat /\ \A k \in 1..Len(F) : F[k] \in Field
    BY <2>4, <2>8, PackedFields DEF Sound
  <2>10. held.i - 1 = Len(F)
    <3>1. ~(held.i <= Len(F)) /\ held.i \in Nat /\ held.i <= Len(F) + 1
      BY <2>2, <2>3, <2>4 DEF Walking, WalkIs
    <3>2. QED
      BY <2>9, <3>1
  <2>11. /\ \A k \in 1..Len(F) : Text(w[k])
         /\ DistinctNames(F) => \A k \in 1..Len(F) : Typed(F[k].type, w[k])
         /\ out \in Seq(Symbol)
         /\ \E pos : TextAt(F, w, Len(F), out, pos)
    BY <2>2, <2>3, <2>4, <2>5, <2>6, <2>10 DEF WalkIs
  <2>12. PICK pos : TextAt(F, w, Len(F), out, pos)
    BY <2>11
  <2>13. Readable(e, w, out)
    BY <2>3, <2>5, <2>6
  <2>14. DistinctNames(F)
    BY <2>4, <2>13 DEF Readable, DistinctNames
  <2>15. ASSUME NEW k \in 1..Len(F), Printed(F[k].type)
         PROVE  /\ F[k].name # "="
                /\ Fits(F[k], w[k])
                /\ \A j \in 1..Len(Body(F[k], w[k])) : Body(F[k], w[k])[j] # Sep
                /\ NulChar(F[k], w[k]) => \A i \in 1..Len(F) : Printed(F[i].type) => i <= k
    <3>1. /\ F[k].name # "=" /\ F[k].name # Sep
          /\ Len(Shown(F[k].type, w[k])) + 3 < TempLen
          /\ ~Contains(Shown(F[k].type, w[k]), Sep)
          /\ F[k].type = "char" /\ w[k] = Zero => \A i \in 1..Len(F) : Printed(F[i].type) => i <= k
      BY <2>4, <2>13, <2>15 DEF Readable
    <3>2. \A j \in 1..Len(Body(F[k], w[k])) : Body(F[k], w[k])[j] # Sep
      <4> DEFINE s == Visible(F[k].type, w[k])
                 b == Body(F[k], w[k])
      <4>1. /\ s \in Seq(Symbol) /\ Len(b) = Len(s) + 2 /\ b[1] = F[k].name /\ b[2] = "="
            /\ \A j \in 1..Len(s) : b[j + 2] = s[j]
        BY <2>9, <2>11, <2>15, BodyIs
      <4>2. \A j \in 1..Len(s) : s[j] # Sep
        <5>1. CASE F[k].type = "char" /\ w[k] = Zero
          <6>1. s = <<>>
            BY <5>1 DEF Visible
          <6>2. QED
            BY <6>1
        <5>2. CASE ~(F[k].type = "char" /\ w[k] = Zero)
          <6>1. s = Shown(F[k].type, w[k])
            BY <5>2 DEF Visible
          <6>2. QED
            BY <3>1, <6>1 DEF Contains
        <5>3. QED
          BY <5>1, <5>2
      <4> HIDE DEF s, b
      <4>3. "=" # Sep
        BY Zenon DEF Sep
      <4>4. Len(s) \in Nat
        BY <4>1
      <4>5. ASSUME NEW j \in 1..Len(b) PROVE b[j] # Sep
        <5>1. j = 1 \/ j = 2 \/ (j - 2 \in 1..Len(s) /\ (j - 2) + 2 = j)
          BY <4>1, <4>4
        <5>2. QED
          BY <3>1, <4>1, <4>2, <4>3, <5>1
      <4>6. QED
        BY <4>5 DEF b
    <3>3. QED
      BY <3>1, <3>2 DEF Fits, NulChar
  <2>16. Len(out) < BufLen \/ (Len(out) = BufLen /\ out[BufLen] = Sep)
    BY <2>13 DEF Readable
  <2>17. Legible(F, w, out, pos)
    BY <2>9, <2>11, <2>12, <2>15, <2>16 DEF Legible
  <2>18. PICK d : d = hk_deserialize(e, out)
    OBVIOUS
  <2>19. l \in 1..Len(e.fields) /\ Legible(e.fields, w, out, pos) /\ DistinctNames(e.fields)
         /\ \A k \in 1..Len(e.fields) : Typed(e.fields[k].type, w[k])
    BY <2>3, <2>4, <2>11, <2>14, <2>17
  <2>20. Value(d, e.fields[l]) = IF Printed(e.fields[l].type) THEN Normal(e.fields[l].type, w[l])
                                 ELSE Value(e, e.fields[l])
    BY <2>8, <2>18, <2>19, TextRestores
  <2>21. QED
    BY <2>3, <2>5, <2>6, <2>18, <2>20
<1>2. QED
  BY <1>1, HeapKitInvariance, PTL

=============================================================================
