------------------------------ MODULE HeapKit ------------------------------
(***************************************************************************)
(* HeapKit (src/core/heapkit.c): structures that plugins declare in their  *)
(* data files and share with the gateway, one instance of each.            *)
(*                                                                         *)
(* While loading, plugin_data_set (src/plugin/plugin_loader.c) reads the   *)
(* data file of one plugin after the other and registers its types.  Then  *)
(* plugins set fields through their stubs, and the gateway library reads a *)
(* type as text (hk_get_type) and writes text back (hk_set_type).  Nothing *)
(* is locked: a read walks over the fields while plugins set them.         *)
(*                                                                         *)
(* An instance is a sequence of bytes; byte k of the value v is <<v, k>>.  *)
(* A text is a sequence of symbols: a name, a number, a word or a          *)
(* character is one symbol, and lengths count symbols.                     *)
(***************************************************************************)
EXTENDS Integers, Sequences, FiniteSets, SequencesExt

CONSTANTS
    PluginCount,            \* the plugins that were given an id
    TypeNames,              \* names of structures
    FieldLines,             \* by plugin: the <<name, word>> of its field lines
    HEAPKIT_MAX_FIELD,
    MAX_REGISTERED_TYPES,
    TempLen,                \* temp in hk_serialize, 256
    BufLen,                 \* buf in hk_deserialize, 1024
    OutSizes,               \* sizes of the gateway library's buffers
    MaxStructs              \* bound on the struct lines of a file

ASSUME HeapKitAssumption ==
    /\ {PluginCount, HEAPKIT_MAX_FIELD, MAX_REGISTERED_TYPES, TempLen, BufLen, MaxStructs} \subseteq Nat \ {0}
    /\ OutSizes \subseteq Nat

\* Ids are given out in the order of loading.
Plugins == 1..PluginCount

VARIABLES
    phase,     \* "load", "up", or "wild": memory was overwritten
    pid,       \* the plugin whose data file is being read
    cur,       \* current_type, current_fields, field_index of plugin_data_set
    structs,   \* struct lines read in this file
    loaded,    \* plugins whose data file was accepted
    registry,  \* g_type_registry[0 .. g_type_count - 1]
    held       \* a walk of hk_serialize, or the text it has left with the library

vars == <<phase, pid, cur, structs, loaded, registry, held>>

-----------------------------------------------------------------------------
(* Values.                                                                 *)

Sep == ";"                    \* ends the text of a field
Zero == <<"zero">>            \* 0, 0.0, false, NUL, NULL
Str(s) == <<"str">> \o s      \* a pointer to the text s

\* What plugins put into fields of each type; other characters come from texts.
Values == [int |-> {Zero, <<"7">>}, float |-> {Zero, <<"7.0004">>},
           bool |-> {Zero, <<"true">>}, char |-> {Zero, <<Sep>>},
           string |-> {Zero, Str(<<"=">>), Str(<<"x", "y">>)},
           ptr |-> {Zero, <<"p">>}, struct |-> {Zero}]

Size == [int |-> 4, float |-> 4, bool |-> 1, char |-> 1, string |-> 8, ptr |-> 8]

hk_type_size(type) == IF type \in DOMAIN Size THEN Size[type] ELSE 0

\* Any other word is taken for the name of a structure.
hk_parse_type(word) == IF word \in DOMAIN Size THEN word ELSE "struct"

Printed(type) == type \notin {"ptr", "struct"}

-----------------------------------------------------------------------------
(* The instance of a type.                                                 *)

Byte(v, k) == <<v, IF v = Zero THEN 0 ELSE k>>

Span(f) == f.offset .. (f.offset + f.size - 1)

\* The instance after memcpy of v to the fields F.
Written(e, F, v) ==
    [e EXCEPT !.mem = [b \in DOMAIN @ |->
        LET hit == {f \in F : b \in Span(f)}
        IN  IF hit = {} THEN @[b] ELSE Byte(v, b - (CHOOSE f \in hit : TRUE).offset)]]

\* The value of a field; "torn" if its bytes are not those of one value.
Value(e, f) ==
    IF f.size = 0 THEN Zero
    ELSE LET v == e.mem[f.offset][1]
         IN  IF \A b \in Span(f) : e.mem[b] = Byte(v, b - f.offset) THEN v ELSE <<"torn">>

\* The positions of the fields with a name, and the first of them.
Named(e, name) == {i \in 1..Len(e.fields) : e.fields[i].name = name}
First(S) == {i \in S : \A j \in S : i <= j}

MutFind(reg, p, t) == First({i \in 1..Len(reg) : reg[i].name = t})

find_registered(reg, p, t) == First({i \in 1..Len(reg) : reg[i].plugin = p /\ reg[i].name = t})

-----------------------------------------------------------------------------
(* plugin_data_set and hk_type_register.                                   *)

NoType == [name |-> "none", fields |-> <<>>, size |-> 0]

Init ==
    /\ phase = "load"
    /\ pid = 1
    /\ cur = NoType
    /\ structs = 0
    /\ loaded = {}
    /\ registry = <<>>
    /\ held = [i |-> 0]

Reading == phase = "load" /\ pid \in Plugins

\* The file ends, or is given up: the next plugin's is read.
NextFile ==
    /\ pid' = pid + 1
    /\ cur' = NoType
    /\ structs' = 0
    /\ phase' = IF pid + 1 \in Plugins THEN "load" ELSE "up"
    /\ UNCHANGED held

\* A type without an end line before is dropped.
StructLine(name) ==
    /\ Reading
    /\ structs < MaxStructs
    /\ structs' = structs + 1
    /\ cur' = [name |-> name, fields |-> <<>>, size |-> 0]
    /\ UNCHANGED <<phase, pid, loaded, registry, held>>

MutGrown(size, by) == by

Grown(size, by) == size + by

\* There is no check of field_index against HEAPKIT_MAX_FIELD.
FieldLine(name, word) ==
    /\ Reading
    /\ cur # NoType
    /\ LET type == hk_parse_type(word)
           field == [name |-> name, type |-> type, size |-> hk_type_size(type), offset |-> cur.size]
       IN  IF Len(cur.fields) < HEAPKIT_MAX_FIELD
           THEN /\ cur' = [cur EXCEPT !.fields = Append(@, field), !.size = Grown(@, field.size)]
                /\ UNCHANGED phase
           ELSE phase' = "wild" /\ UNCHANGED cur
    /\ UNCHANGED <<pid, structs, loaded, registry, held>>

\* The answer of hk_type_register; memory is the outcome of calloc.
RegisterResult(p, type, memory) ==
    CASE find_registered(registry, p, type.name) # {} -> 1
      [] find_registered(registry, p, type.name) = {} /\ Len(registry) >= MAX_REGISTERED_TYPES -> -2
      [] OTHER -> IF memory THEN 0 ELSE -3

\* A type that cannot be registered fails the plugin; those before it stay.
hk_type_register(memory) ==
    /\ Reading
    /\ cur # NoType
    /\ IF RegisterResult(pid, cur, memory) = 0
       THEN /\ registry' = Append(registry,
                   [plugin |-> pid, name |-> cur.name, fields |-> cur.fields, size |-> cur.size,
                    mem |-> [b \in 0..(cur.size - 1) |-> Byte(Zero, 0)]])
            /\ cur' = NoType
            /\ UNCHANGED <<phase, pid, structs, held>>
       ELSE NextFile /\ UNCHANGED registry
    /\ UNCHANGED loaded

EndOfFile ==
    /\ Reading
    /\ NextFile
    /\ loaded' = loaded \cup {pid}
    /\ UNCHANGED registry

-----------------------------------------------------------------------------
(* Fields, for plugins.                                                    *)

\* The fields hk_set_field writes: the first with the name and, since a field
\* that is not reported to the gateway does not end the loop, those after it
\* up to the first that is.
Touched(e, name, connected) ==
    LET ends == {i \in Named(e, name) : ~connected \/ Printed(e.fields[i].type)}
    IN  {i \in Named(e, name) : \A j \in ends : i <= j}

\* The answer of hk_set_field and the registry it leaves.
hk_set_field(reg, p, t, name, v, connected) ==
    LET at == find_registered(reg, p, t)
        i == CHOOSE k \in at : TRUE
        e == reg[i]
        touched == Touched(e, name, connected)
    IN  IF at = {} THEN [ret |-> -1, reg |-> reg]
        ELSE [ret |-> IF \E k \in touched : ~connected \/ Printed(e.fields[k].type) THEN 0 ELSE -2,
              reg |-> [reg EXCEPT ![i] = Written(e, {e.fields[k] : k \in touched}, v)]]

\* The answer of hk_get_field and the value it copies.
hk_get_field(reg, p, t, name) ==
    LET at == find_registered(reg, p, t)
        e == reg[CHOOSE k \in at : TRUE]
    IN  IF at = {} THEN [ret |-> -1, value |-> Zero]
        ELSE IF Named(e, name) = {} THEN [ret |-> -2, value |-> Zero]
        ELSE [ret |-> 0, value |-> Value(e, e.fields[CHOOSE i \in First(Named(e, name)) : TRUE])]

\* The type of the first field with the name.
hk_field_type(reg, p, t, name) ==
    LET at == find_registered(reg, p, t)
        e == reg[CHOOSE k \in at : TRUE]
    IN  IF at = {} \/ Named(e, name) = {} THEN "unknown"
        ELSE e.fields[CHOOSE i \in First(Named(e, name)) : TRUE].type

hk_field_exists(reg, p, t, name) == hk_field_type(reg, p, t, name) # "unknown"

\* What a plugin may pass as a value: one of the type of the field.
Arguments(reg, p, t, name) ==
    IF hk_field_exists(reg, p, t, name) THEN Values[hk_field_type(reg, p, t, name)] ELSE {}

\* A plugin sets a field through its stub, which carries its own id.
SetField(p, t, name) ==
    /\ phase = "up"
    /\ p \in loaded
    /\ \E v \in Arguments(registry, p, t, name), connected \in BOOLEAN :
          registry' = hk_set_field(registry, p, t, name, v, connected).reg
    /\ UNCHANGED <<phase, pid, cur, structs, loaded, held>>

-----------------------------------------------------------------------------
(* Text, for the gateway.                                                  *)

Cut(s, n) == SubSeq(s, 1, IF Len(s) < n THEN Len(s) ELSE n)

\* The value as printf shows it; %.3f rounds.
Shown(type, v) ==
    CASE type = "int"    -> IF v = Zero THEN <<"0">> ELSE v
      [] type = "float"  -> IF v = Zero THEN <<"0.000">> ELSE <<"7.000">>
      [] type = "bool"   -> IF v = Zero THEN <<"false">> ELSE <<"true">>
      [] type = "char"   -> v
      [] type = "string" -> <<"quote">> \o (IF v = Zero THEN <<>> ELSE Tail(v)) \o <<"quote">>

\* One field in temp.  %c of a NUL ends the string before the ";".
FieldText(f, v) ==
    Cut(IF f.type = "char" /\ v = Zero THEN <<f.name, "=">>
        ELSE <<f.name, "=">> \o Shown(f.type, v) \o <<Sep>>, TempLen - 1)

Walked == registry[CHOOSE i \in find_registered(registry, held.plugin, held.type) : TRUE]

Walking == held.i > 0 /\ held.ret = 0 /\ held.i <= Len(Walked.fields)

\* gateway_hk_get_type calls hk_serialize, which starts with an empty text.
GetType(p, t, size) ==
    /\ phase = "up"
    /\ ~Walking
    /\ find_registered(registry, p, t) # {}
    /\ held' = [i |-> 1, plugin |-> p, type |-> t, size |-> size, out |-> <<>>, was |-> <<>>, ret |-> 0]
    /\ UNCHANGED <<phase, pid, cur, structs, loaded, registry>>

\* One round of the loop of hk_serialize.
SerializeField ==
    /\ Walking
    /\ LET f == Walked.fields[held.i]
           v == Value(Walked, f)
           next == [held EXCEPT !.i = @ + 1, !.was = Append(@, v)]
       IN  held' = IF ~Printed(f.type) THEN next
                   ELSE IF Len(held.out) + Len(FieldText(f, v)) >= held.size
                   THEN [held EXCEPT !.ret = -3]
                   ELSE [next EXCEPT !.out = @ \o FieldText(f, v)]
    /\ UNCHANGED <<phase, pid, cur, structs, loaded, registry>>

\* strtok: the pieces between the ";".  The empty ones, which it skips, change
\* nothing: like every piece without "=" they are skipped by Assigned.
Tokens(text) ==
    FoldLeft(LAMBDA acc, s : IF s = Sep THEN Append(acc, <<>>)
                             ELSE [acc EXCEPT ![Len(acc)] = Append(@, s)],
             << <<>> >>, text)

FirstChar(s) ==
    CASE s = "true" -> "t" [] s = "false" -> "f" [] s = "7.000" -> "7" [] s = "0.000" -> "0" [] OTHER -> s

\* The text of a string value without its quotes, if it has both.
MutStripped(val) == SubSeq(val, 2, Len(val))

Stripped(val) == SubSeq(val, 2, Len(val) - 1)

Quoted(val) == val # <<>> /\ Head(val) = "quote" /\ Last(val) = "quote"

\* What is stored for the text val; old if the type has no text.
Parsed(type, val, old) ==
    CASE type \in {"int", "float"} -> IF val # <<>> /\ Head(val) \in {"7", "7.000"} THEN <<"7">> ELSE Zero
      [] type = "bool"   -> IF val = <<"true">> THEN <<"true">> ELSE Zero
      [] type = "char"   -> IF val = <<>> THEN Zero ELSE <<FirstChar(Head(val))>>
      [] type = "string" -> Str(IF Quoted(val) THEN Stripped(val) ELSE val)
      [] OTHER -> old

\* One token of hk_deserialize; it is skipped without "=" or a known name.
Assigned(e, token) ==
    LET eq == First({i \in 1..Len(token) : token[i] = "="})
    IN  IF eq = {} THEN e
        ELSE LET n == CHOOSE i \in eq : TRUE
                 at == First({i \in 1..Len(e.fields) : <<e.fields[i].name>> = SubSeq(token, 1, n - 1)})
                 f == e.fields[CHOOSE i \in at : TRUE]
             IN  IF at = {} THEN e
                 ELSE Written(e, {f}, Parsed(f.type, SubSeq(token, n + 1, Len(token)), Value(e, f)))

hk_deserialize(e, data) == FoldLeft(Assigned, e, Tokens(Cut(data, BufLen - 1)))

\* gateway_hk_set_type, with the text of an earlier hk_get_type: for the same
\* type, or for another plugin's type of the same name.
SetType(p) ==
    /\ phase = "up"
    /\ held.i > 0 /\ ~Walking /\ held.ret = 0
    /\ \E i \in find_registered(registry, p, held.type) :
          registry' = [registry EXCEPT ![i] = hk_deserialize(@, held.out)]
    /\ UNCHANGED <<phase, pid, cur, structs, loaded, held>>

-----------------------------------------------------------------------------
FieldNames == {l[1] : l \in UNION {FieldLines[p] : p \in Plugins}}

Next ==
    \/ \E t \in TypeNames : StructLine(t)
    \/ Reading /\ \E l \in FieldLines[pid] : FieldLine(l[1], l[2])
    \/ \E memory \in BOOLEAN : hk_type_register(memory)
    \/ EndOfFile
    \/ \E p \in Plugins, t \in TypeNames :
          \/ \E name \in FieldNames : SetField(p, t, name)
          \/ \E size \in OutSizes : GetType(p, t, size)
    \/ SerializeField
    \/ \E p \in Plugins : SetType(p)

Spec == Init /\ [][Next]_vars

-----------------------------------------------------------------------------
(* Properties.                                                             *)

\* Whatever the data files contain and however many types are refused: the
\* registry stays within its bound, a plugin's names are unique in it, and the
\* fields of each type lie inside its instance, apart from each other.
Layout ==
    /\ Len(registry) <= MAX_REGISTERED_TYPES
    /\ \A i, j \in 1..Len(registry) :
          registry[i].plugin = registry[j].plugin /\ registry[i].name = registry[j].name => i = j
    /\ \A i \in 1..Len(registry) : LET F == registry[i].fields IN
          /\ Len(F) <= HEAPKIT_MAX_FIELD
          /\ \A k \in 1..Len(F) : Span(F[k]) \subseteq DOMAIN registry[i].mem
          /\ \A k, l \in 1..Len(F) : k # l => Span(F[k]) \cap Span(F[l]) = {}

\* hk_set_field answers 0 only if hk_get_field then yields the value; nothing
\* but fields of that name in the caller's own type changes; and another answer
\* means that nothing has changed, unless a pointer or structure was set while
\* the gateway was connected: that is answered -2 although it is done.
SetTellsTruth ==
    phase = "up" =>
    \A p \in loaded, t \in TypeNames, name \in FieldNames, connected \in BOOLEAN :
    \A v \in Arguments(registry, p, t, name) :
        LET r == hk_set_field(registry, p, t, name, v, connected) IN
        /\ r.ret = 0 => hk_get_field(r.reg, p, t, name) = [ret |-> 0, value |-> v]
        /\ \A i \in 1..Len(registry) : LET e == registry[i] IN
              r.reg[i] # e =>
                 /\ e.plugin = p /\ e.name = t
                 /\ \A k \in 1..Len(e.fields) :
                       Value(r.reg[i], e.fields[k]) # Value(e, e.fields[k]) =>
                          /\ e.fields[k].name = name
                          /\ r.ret = 0 \/ (connected /\ ~Printed(e.fields[k].type))

\* What survives printing: three decimals of a float; NULL becomes "".
Normal(type, v) ==
    IF type = "float" /\ v # Zero THEN <<"7">>
    ELSE IF type = "string" /\ v = Zero THEN Str(<<>>) ELSE v

\* Texts hk_deserialize can take apart: the names are distinct and not
\* separators, every field's text and the whole fit their buffers (a ";" at the
\* end may be lost, but not the "=" of a NUL character), no value contains a
\* ";", and no NUL character stands before another field.
Readable(e, was, out) ==
    LET P == {i \in 1..Len(e.fields) : Printed(e.fields[i].type)} IN
    /\ Len(out) < BufLen \/ (Len(out) = BufLen /\ out[BufLen] = Sep)
    /\ \A i, j \in 1..Len(e.fields) : e.fields[i].name = e.fields[j].name => i = j
    /\ \A i \in P : LET f == e.fields[i] IN
          /\ f.name \notin {"=", Sep}
          /\ Len(Shown(f.type, was[i])) + 3 < TempLen
          /\ ~Contains(Shown(f.type, was[i]), Sep)
          /\ f.type = "char" /\ was[i] = Zero => \A j \in P : j <= i

\* A text that hk_serialize has answered with 0, however old, restores every
\* field to the value it had when it was read, whatever plugins and gateway did
\* since and while it was read.
Restores ==
    held.i > 0 /\ held.ret = 0 /\ ~Walking /\ Readable(Walked, held.was, held.out) =>
        \A i \in 1..Len(Walked.fields) : LET f == Walked.fields[i] IN
            Value(hk_deserialize(Walked, held.out), f) =
                IF Printed(f.type) THEN Normal(f.type, held.was[i]) ELSE Value(Walked, f)

=============================================================================
