--------------------------- MODULE HeapKitLemmas ---------------------------
(***************************************************************************)
(* What HeapKit's operators do, for every structure and every text: where  *)
(* fields lie and what writing them changes, how a text falls into pieces, *)
(* what hk_serialize writes and that hk_deserialize reads it back.         *)
(*                                                                         *)
(* Facts about all the symbols of a text, or all its tokens, need          *)
(* induction.  It is done for a set in place of a predicate (UpTo): were   *)
(* something missing from the set, the least that is would follow from     *)
(* the one before.  The folds are unrolled into the sequence of their      *)
(* results in the same way (FoldAssigned, TokensSplit).                    *)
(***************************************************************************)
EXTENDS HeapKit, WellFoundedInduction, TLAPS

-----------------------------------------------------------------------------
(* Types and their instances.                                              *)

FieldType == {"int", "float", "bool", "char", "string", "ptr", "struct"}

Field == [name : FieldNames, type : FieldType, size : Nat, offset : Nat]

\* Fields are laid out one behind the other in size bytes.
Packed(F, size) ==
    /\ F \in Seq(Field)
    /\ Len(F) <= HEAPKIT_MAX_FIELD
    /\ size \in Nat
    /\ \A k \in 1..Len(F) : F[k].size = hk_type_size(F[k].type) /\ F[k].offset + F[k].size <= size
    /\ \A k, l \in 1..Len(F) : k < l => F[k].offset + F[k].size <= F[l].offset

\* A registered type and its instance, which has all the bytes of its fields.
Sound(e) ==
    /\ e = [plugin |-> e.plugin, name |-> e.name, fields |-> e.fields, size |-> e.size, mem |-> e.mem]
    /\ Packed(e.fields, e.size)
    /\ DOMAIN e.mem = 0..(e.size - 1)

\* A set of numbers that is not empty has a least element.
LEMMA LeastExists ==
    ASSUME NEW S \in SUBSET Nat, S # {}
    PROVE  \E i \in S : \A j \in S : i <= j
<1> DEFINE R == {ss \in Nat \X Nat : ss[1] < ss[2]}
<1>1. IsWellFoundedOn(R, Nat)
  BY NatLessThanWellFounded DEF OpToRel
<1> HIDE DEF R
<1>2. PICK x \in S : \A y \in S : ~(<<y, x>> \in R)
  BY <1>1, WFMin
<1>3. ASSUME NEW y \in S PROVE x <= y
  <2>1. <<y, x>> \notin R /\ x \in Nat /\ y \in Nat
    BY <1>2
  <2>2. ~(y < x)
    BY <2>1 DEF R
  <2>3. QED
    BY <2>1, <2>2
<1>4. QED
  BY <1>3

\* Only structures have no bytes of their own.
LEMMA SizeIs ==
    /\ \A word : hk_parse_type(word) \in FieldType
    /\ \A type \in FieldType : hk_type_size(type) \in Nat /\ (hk_type_size(type) = 0 <=> type = "struct")
<1>1. DOMAIN Size = {"int", "float", "bool", "char", "string", "ptr"}
  BY DEF Size
<1>2. /\ Size["int"] = 4 /\ Size["float"] = 4 /\ Size["bool"] = 1 /\ Size["char"] = 1
      /\ Size["string"] = 8 /\ Size["ptr"] = 8
  BY DEF Size
<1>3. \A word : hk_parse_type(word) \in FieldType
  BY <1>1 DEF hk_parse_type, FieldType
<1>4. \A type \in FieldType : hk_type_size(type) \in Nat /\ (hk_type_size(type) = 0 <=> type = "struct")
  BY <1>1, <1>2 DEF hk_type_size, FieldType
<1>5. QED
  BY <1>3, <1>4

\* The fields of a packed type are fields.
LEMMA PackedFields ==
    ASSUME NEW F, NEW size, Packed(F, size)
    PROVE  /\ F \in Seq(Field) /\ Len(F) \in Nat /\ size \in Nat
           /\ \A k \in 1..Len(F) : F[k] \in Field
           /\ \A k \in 1..Len(F) : F[k].size \in Nat /\ F[k].offset \in Nat /\ F[k].type \in FieldType
<1>1. F \in Seq(Field) /\ Len(F) \in Nat /\ size \in Nat
  BY DEF Packed
<1>2. \A k \in 1..Len(F) : F[k] \in Field
  BY <1>1
<1>3. QED
  BY <1>1, <1>2 DEF Field

\* A field behind the others is packed as they are.
LEMMA PackedAppend ==
    ASSUME NEW F, NEW size, Packed(F, size), Len(F) < HEAPKIT_MAX_FIELD,
           NEW f \in Field, f.size = hk_type_size(f.type), f.offset = size,
           NEW G, G = Append(F, f)
    PROVE  Packed(G, size + f.size)
<1>1. /\ F \in Seq(Field) /\ Len(F) \in Nat /\ size \in Nat /\ f.size \in Nat
      /\ \A k \in 1..Len(F) : F[k].size \in Nat /\ F[k].offset \in Nat
  BY PackedFields DEF Field
<1>2. /\ G \in Seq(Field) /\ Len(G) = Len(F) + 1
      /\ \A k \in 1..Len(F) : G[k] = F[k]
      /\ G[Len(F) + 1] = f
  BY <1>1
<1>3. Len(G) <= HEAPKIT_MAX_FIELD /\ size + f.size \in Nat
  BY <1>1, <1>2, HeapKitAssumption
<1>4. ASSUME NEW k \in 1..Len(G)
      PROVE  G[k].size = hk_type_size(G[k].type) /\ G[k].offset + G[k].size <= size + f.size
  <2>1. CASE k = Len(F) + 1
    BY <1>1, <1>2, <2>1
  <2>2. CASE k # Len(F) + 1
    <3>1. k \in 1..Len(F)
      BY <1>1, <1>2, <2>2
    <3>2. F[k].size = hk_type_size(F[k].type) /\ F[k].offset + F[k].size <= size
      BY <3>1 DEF Packed
    <3>3. QED
      BY <1>1, <1>2, <3>1, <3>2
  <2>3. QED
    BY <2>1, <2>2
<1>5. ASSUME NEW k \in 1..Len(G), NEW l \in 1..Len(G), k < l
      PROVE  G[k].offset + G[k].size <= G[l].offset
  <2>1. k \in 1..Len(F)
    BY <1>1, <1>2, <1>5
  <2>2. F[k].offset + F[k].size <= size
    BY <2>1 DEF Packed
  <2>3. CASE l = Len(F) + 1
    BY <1>1, <1>2, <2>1, <2>2, <2>3
  <2>4. CASE l # Len(F) + 1
    <3>1. l \in 1..Len(F)
      BY <1>1, <1>2, <2>4
    <3>2. QED
      BY <1>2, <1>5, <2>1, <3>1 DEF Packed
  <2>5. QED
    BY <2>3, <2>4
<1>6. QED
  BY <1>2, <1>3, <1>4, <1>5 DEF Packed

\* Packed fields lie in their bytes and apart from each other.
LEMMA PackedApart ==
    ASSUME NEW F, NEW size, Packed(F, size)
    PROVE  /\ \A k \in 1..Len(F) : Span(F[k]) \subseteq 0..(size - 1)
           /\ \A k, l \in 1..Len(F) : k # l => Span(F[k]) \cap Span(F[l]) = {}
<1>1. /\ F \in Seq(Field) /\ Len(F) \in Nat /\ size \in Nat
      /\ \A k \in 1..Len(F) : F[k].size \in Nat /\ F[k].offset \in Nat
  BY PackedFields
<1>2. ASSUME NEW k \in 1..Len(F) PROVE Span(F[k]) \subseteq 0..(size - 1)
  <2>1. F[k].offset + F[k].size <= size
    BY DEF Packed
  <2>2. QED
    BY <1>1, <2>1 DEF Span
<1>3. ASSUME NEW k \in 1..Len(F), NEW l \in 1..Len(F), k < l
      PROVE  Span(F[k]) \cap Span(F[l]) = {}
  <2>1. F[k].offset + F[k].size <= F[l].offset
    BY <1>3 DEF Packed
  <2>2. QED
    BY <1>1, <2>1 DEF Span
<1>4. ASSUME NEW k \in 1..Len(F), NEW l \in 1..Len(F), k # l
      PROVE  Span(F[k]) \cap Span(F[l]) = {}
  <2>1. k < l \/ l < k
    BY <1>1, <1>4
  <2>2. QED
    BY <1>3, <2>1
<1>5. QED
  BY <1>2, <1>4

\* Byte b of the instance after v has been written to the fields F.
NewByte(e, F, v, b) ==
    LET hit == {f \in F : b \in Span(f)}
    IN  IF hit = {} THEN e.mem[b] ELSE Byte(v, b - (CHOOSE f \in hit : TRUE).offset)

\* Writing fields changes bytes, and nothing else of a type.
LEMMA WrittenIs ==
    ASSUME NEW e, Sound(e), NEW F, NEW v, NEW r, r = Written(e, F, v)
    PROVE  /\ Sound(r)
           /\ r.plugin = e.plugin /\ r.name = e.name /\ r.fields = e.fields /\ r.size = e.size
           /\ \A b \in DOMAIN e.mem : r.mem[b] = NewByte(e, F, v, b)
<1> DEFINE new == [b \in DOMAIN e.mem |-> NewByte(e, F, v, b)]
<1>1. r = [e EXCEPT !.mem = new]
  BY DEF Written, NewByte
<1>2. DOMAIN new = DOMAIN e.mem
  OBVIOUS
<1>3. \A b \in DOMAIN e.mem : new[b] = NewByte(e, F, v, b)
  OBVIOUS
<1> HIDE DEF new
<1>4. e = [plugin |-> e.plugin, name |-> e.name, fields |-> e.fields, size |-> e.size, mem |-> e.mem]
  BY DEF Sound
<1>5. r = [plugin |-> e.plugin, name |-> e.name, fields |-> e.fields, size |-> e.size, mem |-> new]
  BY <1>1, <1>4
<1>6. /\ r.plugin = e.plugin /\ r.name = e.name /\ r.fields = e.fields /\ r.size = e.size /\ r.mem = new
      /\ r = [plugin |-> r.plugin, name |-> r.name, fields |-> r.fields, size |-> r.size, mem |-> r.mem]
  BY <1>5
<1>7. Sound(r)
  BY <1>2, <1>6 DEF Sound
<1>8. QED
  BY <1>3, <1>6, <1>7

\* After a value has been written to some fields, those have the value and the
\* others the one they had: no write reaches into a neighbour.
LEMMA ValueAfter ==
    ASSUME NEW e, Sound(e), NEW T \in SUBSET (1..Len(e.fields)), NEW v,
           NEW F, F = {e.fields[l] : l \in T}, NEW r, r = Written(e, F, v), NEW k \in 1..Len(e.fields)
    PROVE  /\ k \in T /\ (e.fields[k].size = 0 => v = Zero) => Value(r, e.fields[k]) = v
           /\ k \notin T => Value(r, e.fields[k]) = Value(e, e.fields[k])
<1> DEFINE f == e.fields[k]
           hit(b) == {g \in F : b \in Span(g)}
<1>1. \A b \in DOMAIN e.mem : r.mem[b] = NewByte(e, F, v, b)
  BY WrittenIs
<1>2. \A b \in DOMAIN e.mem :
         r.mem[b] = IF hit(b) = {} THEN e.mem[b] ELSE Byte(v, b - (CHOOSE g \in hit(b) : TRUE).offset)
  BY <1>1 DEF NewByte
<1>3. /\ \A l \in 1..Len(e.fields) : Span(e.fields[l]) \subseteq DOMAIN e.mem
      /\ \A l, m \in 1..Len(e.fields) : l # m => Span(e.fields[l]) \cap Span(e.fields[m]) = {}
  BY PackedApart DEF Sound
<1>4. f.size \in Nat /\ f.offset \in Nat
  BY PackedFields DEF Sound
<1>5. CASE f.size = 0
  BY <1>5 DEF Value
<1>6. CASE f.size # 0
  <2>1. f.offset \in Span(f) /\ Span(f) \subseteq DOMAIN e.mem /\ \A b \in Span(f) : b \in Int
    BY <1>3, <1>4, <1>6 DEF Span
  <2>2. \A b \in Span(f), l \in T : b \in Span(e.fields[l]) => l = k
    BY <1>3
  <2>3. ASSUME k \in T PROVE Value(r, f) = v
    <3>1. ASSUME NEW b \in Span(f) PROVE r.mem[b] = Byte(v, b - f.offset)
      <4>1. f \in hit(b) /\ \A g \in hit(b) : g = f
        BY <2>2, <2>3
      <4>2. (CHOOSE g \in hit(b) : TRUE) = f /\ hit(b) # {}
        BY <4>1
      <4>3. QED
        BY <1>2, <2>1, <4>2
    <3>2. r.mem[f.offset][1] = v
      <4>1. r.mem[f.offset] = Byte(v, f.offset - f.offset)
        BY <2>1, <3>1
      <4>2. Byte(v, f.offset - f.offset)[1] = v
        BY DEF Byte
      <4>3. QED
        BY <4>1, <4>2
    <3>3. QED
      BY <1>6, <3>1, <3>2 DEF Value
  <2>4. ASSUME k \notin T PROVE Value(r, f) = Value(e, f)
    <3>1. \A b \in Span(f) : hit(b) = {}
      BY <2>2, <2>4
    <3>2. \A b \in Span(f) : r.mem[b] = e.mem[b]
      BY <1>2, <2>1, <3>1
    <3>3. QED
      BY <2>1, <3>2 DEF Value
  <2>5. QED
    BY <2>3, <2>4
<1>7. QED
  BY <1>5, <1>6

-----------------------------------------------------------------------------
(* Induction, for a set in place of a predicate, and the folds.            *)

\* A set that has 0, and every number up to n after its predecessor, has all of
\* them: the least that is missing would have a predecessor.
LEMMA UpTo ==
    ASSUME NEW n \in Nat, NEW S, 0 \in S, \A k \in 0..(n - 1) : k \in S => k + 1 \in S
    PROVE  \A k \in 0..n : k \in S
<1> DEFINE M == {k \in 0..n : k \notin S}
<1> SUFFICES ASSUME M # {} PROVE FALSE
  OBVIOUS
<1>1. M \in SUBSET Nat
  OBVIOUS
<1>2. PICK m \in M : \A j \in M : m <= j
  BY <1>1, LeastExists
<1>3. m \in 0..n /\ m \notin S /\ m # 0
  OBVIOUS
<1>4. m - 1 \in 0..(n - 1) /\ m - 1 \in 0..n /\ ~(m <= m - 1) /\ (m - 1) + 1 = m
  BY <1>3
<1>5. m - 1 \in S
  BY <1>2, <1>4
<1>6. QED
  BY <1>3, <1>4, <1>5

\* The greatest number of 1..k, and of a set that has k.
LEMMA MaxIs ==
    ASSUME NEW k \in Nat \ {0}, NEW S \in SUBSET (1..k), k \in S
    PROVE  Max(S) = k
<1>1. \A y \in S : k >= y
  OBVIOUS
<1>2. ASSUME NEW x \in S, \A y \in S : x >= y PROVE x = k
  BY <1>2
<1>3. QED
  BY <1>1, <1>2 DEF Max

\* FoldLeft(Assigned, e, s) assigns the tokens of s one after the other.
LEMMA FoldAssigned ==
    ASSUME NEW X, NEW s \in Seq(X), NEW e
    PROVE  \E r : /\ r[0] = e
                  /\ \A k \in 1..Len(s) : r[k] = Assigned(r[k - 1], s[k])
                  /\ FoldLeft(Assigned, e, s) = r[Len(s)]
<1> DEFINE fold(f, k) == f = [S \in SUBSET (1..k) |->
                                IF S = {} THEN e ELSE Assigned(f[S \ {Max(S)}], s[Max(S)])]
           K == {k \in Nat : \E f : fold(f, k)}
<1>1. Len(s) \in Nat /\ DOMAIN s = 1..Len(s)
  OBVIOUS
<1>2. 0 \in K
  <2> DEFINE f == [S \in SUBSET (1..0) |-> e]
  <2>1. \A S \in SUBSET (1..0) : S = {}
    OBVIOUS
  <2>2. fold(f, 0)
    BY <2>1
  <2>3. QED
    BY <2>2
<1>3. ASSUME NEW k \in 0..(Len(s) - 1), k \in K PROVE k + 1 \in K
  <2>1. PICK f : fold(f, k)
    BY <1>3
  <2> DEFINE g == [S \in SUBSET (1..(k + 1)) |->
                     IF k + 1 \in S THEN Assigned(f[S \ {k + 1}], s[k + 1]) ELSE f[S]]
  <2>2. ASSUME NEW S \in SUBSET (1..(k + 1))
        PROVE  g[S] = IF S = {} THEN e ELSE Assigned(g[S \ {Max(S)}], s[Max(S)])
    <3>1. CASE k + 1 \in S
      <4>1. Max(S) = k + 1
        BY <1>1, <1>3, <3>1, MaxIs
      <4>2. S \ {k + 1} \in SUBSET (1..(k + 1)) /\ k + 1 \notin S \ {k + 1} /\ S # {}
        BY <3>1
      <4>3. g[S \ {k + 1}] = f[S \ {k + 1}] /\ g[S] = Assigned(f[S \ {k + 1}], s[k + 1])
        BY <3>1, <4>2
      <4>4. QED
        BY <4>1, <4>2, <4>3
    <3>2. CASE k + 1 \notin S
      <4>1. S \in SUBSET (1..k)
        BY <1>1, <1>3, <3>2
      <4>2. f[S] = IF S = {} THEN e ELSE Assigned(f[S \ {Max(S)}], s[Max(S)])
        BY <2>1, <4>1
      <4>3. g[S] = f[S] /\ g[S \ {Max(S)}] = f[S \ {Max(S)}]
        <5>1. S \ {Max(S)} \in SUBSET (1..(k + 1)) /\ k + 1 \notin S \ {Max(S)}
          BY <3>2
        <5>2. QED
          BY <3>2, <5>1
      <4>4. QED
        BY <4>2, <4>3
    <3>3. QED
      BY <3>1, <3>2
  <2>3. fold(g, k + 1)
    BY <2>2
  <2> HIDE DEF fold, g
  <2>4. k + 1 \in Nat
    BY <1>1
  <2>5. QED
    BY <2>3, <2>4
<1> HIDE DEF K
<1>4. Len(s) \in K
  <2>1. \A k \in 0..Len(s) : k \in K
    BY <1>1, <1>2, <1>3, UpTo
  <2>2. QED
    BY <1>1, <2>1
<1>5. PICK f : fold(f, Len(s))
  BY <1>4 DEF K
<1> DEFINE g == CHOOSE it : it = [S \in SUBSET DOMAIN s |->
                                    IF S = {} THEN e ELSE Assigned(it[S \ {Max(S)}], s[Max(S)])]
           r == [k \in 0..Len(s) |-> g[1..k]]
<1>6. FoldLeft(Assigned, e, s) = g[DOMAIN s]
  BY DEF FoldLeft, MapThenFoldSet
<1>7. g = [S \in SUBSET (1..Len(s)) |-> IF S = {} THEN e ELSE Assigned(g[S \ {Max(S)}], s[Max(S)])]
  BY <1>1, <1>5
<1> HIDE DEF g, fold
<1>8. \A S \in SUBSET (1..Len(s)) : g[S] = IF S = {} THEN e ELSE Assigned(g[S \ {Max(S)}], s[Max(S)])
  BY <1>7
<1>9. r[0] = e
  <2>1. 1..0 = {} /\ 1..0 \in SUBSET (1..Len(s))
    OBVIOUS
  <2>2. g[1..0] = e
    BY <1>8, <2>1
  <2>3. QED
    BY <1>1, <2>2
<1>10. ASSUME NEW k \in 1..Len(s) PROVE r[k] = Assigned(r[k - 1], s[k])
  <2>1. Max(1..k) = k
    BY <1>1, MaxIs
  <2>2. (1..k) \ {k} = 1..(k - 1)
    BY <1>1
  <2>3. 1..k # {} /\ 1..k \in SUBSET (1..Len(s))
    <3>1. k \in 1..k /\ \A j \in 1..k : j \in 1..Len(s)
      BY <1>1
    <3>2. QED
      BY <3>1
  <2>4. g[1..k] = Assigned(g[1..(k - 1)], s[k])
    BY <1>8, <2>1, <2>2, <2>3
  <2>5. QED
    BY <1>1, <2>4
<1>11. FoldLeft(Assigned, e, s) = r[Len(s)]
  BY <1>1, <1>6
<1>12. QED
  BY <1>9, <1>10, <1>11

\* What strtok does with one symbol: a ";" opens a new piece.
Split(pieces, s) ==
    IF s = Sep THEN Append(pieces, <<>>) ELSE [pieces EXCEPT ![Len(pieces)] = Append(@, s)]

\* Tokens splits a text symbol by symbol.
LEMMA TokensSplit ==
    ASSUME NEW X, NEW s \in Seq(X)
    PROVE  \E r : /\ r[0] = << <<>> >>
                  /\ \A k \in 1..Len(s) : r[k] = Split(r[k - 1], s[k])
                  /\ Tokens(s) = r[Len(s)]
<1> DEFINE fold(f, k) == f = [S \in SUBSET (1..k) |->
                                IF S = {} THEN << <<>> >> ELSE Split(f[S \ {Max(S)}], s[Max(S)])]
           K == {k \in Nat : \E f : fold(f, k)}
<1>1. Len(s) \in Nat /\ DOMAIN s = 1..Len(s)
  OBVIOUS
<1>2. 0 \in K
  <2> DEFINE f == [S \in SUBSET (1..0) |-> << <<>> >>]
  <2>1. \A S \in SUBSET (1..0) : S = {}
    OBVIOUS
  <2>2. fold(f, 0)
    BY <2>1
  <2>3. QED
    BY <2>2
<1>3. ASSUME NEW k \in 0..(Len(s) - 1), k \in K PROVE k + 1 \in K
  <2>1. PICK f : fold(f, k)
    BY <1>3
  <2> DEFINE g == [S \in SUBSET (1..(k + 1)) |->
                     IF k + 1 \in S THEN Split(f[S \ {k + 1}], s[k + 1]) ELSE f[S]]
  <2>2. ASSUME NEW S \in SUBSET (1..(k + 1))
        PROVE  g[S] = IF S = {} THEN << <<>> >> ELSE Split(g[S \ {Max(S)}], s[Max(S)])
    <3>1. CASE k + 1 \in S
      <4>1. Max(S) = k + 1
        BY <1>1, <1>3, <3>1, MaxIs
      <4>2. S \ {k + 1} \in SUBSET (1..(k + 1)) /\ k + 1 \notin S \ {k + 1} /\ S # {}
        BY <3>1
      <4>3. g[S \ {k + 1}] = f[S \ {k + 1}] /\ g[S] = Split(f[S \ {k + 1}], s[k + 1])
        BY <3>1, <4>2
      <4>4. QED
        BY <4>1, <4>2, <4>3
    <3>2. CASE k + 1 \notin S
      <4>1. S \in SUBSET (1..k)
        BY <1>1, <1>3, <3>2
      <4>2. f[S] = IF S = {} THEN << <<>> >> ELSE Split(f[S \ {Max(S)}], s[Max(S)])
        BY <2>1, <4>1
      <4>3. g[S] = f[S] /\ g[S \ {Max(S)}] = f[S \ {Max(S)}]
        <5>1. S \ {Max(S)} \in SUBSET (1..(k + 1)) /\ k + 1 \notin S \ {Max(S)}
          BY <3>2
        <5>2. QED
          BY <3>2, <5>1
      <4>4. QED
        BY <4>2, <4>3
    <3>3. QED
      BY <3>1, <3>2
  <2>3. fold(g, k + 1)
    BY <2>2
  <2> HIDE DEF fold, g
  <2>4. k + 1 \in Nat
    BY <1>1
  <2>5. QED
    BY <2>3, <2>4
<1> HIDE DEF K
<1>4. Len(s) \in K
  <2>1. \A k \in 0..Len(s) : k \in K
    BY <1>1, <1>2, <1>3, UpTo
  <2>2. QED
    BY <1>1, <2>1
<1>5. PICK f : fold(f, Len(s))
  BY <1>4 DEF K
<1> DEFINE g == CHOOSE it : it = [S \in SUBSET DOMAIN s |->
                                    IF S = {} THEN << <<>> >> ELSE Split(it[S \ {Max(S)}], s[Max(S)])]
           r == [k \in 0..Len(s) |-> g[1..k]]
<1>6. Tokens(s) = g[DOMAIN s]
  BY DEF Tokens, FoldLeft, MapThenFoldSet, Split
<1>7. g = [S \in SUBSET (1..Len(s)) |-> IF S = {} THEN << <<>> >> ELSE Split(g[S \ {Max(S)}], s[Max(S)])]
  BY <1>1, <1>5
<1> HIDE DEF g, fold
<1>8. \A S \in SUBSET (1..Len(s)) : g[S] = IF S = {} THEN << <<>> >> ELSE Split(g[S \ {Max(S)}], s[Max(S)])
  BY <1>7
<1>9. r[0] = << <<>> >>
  <2>1. 1..0 = {} /\ 1..0 \in SUBSET (1..Len(s))
    OBVIOUS
  <2>2. g[1..0] = << <<>> >>
    BY <1>8, <2>1
  <2>3. QED
    BY <1>1, <2>2
<1>10. ASSUME NEW k \in 1..Len(s) PROVE r[k] = Split(r[k - 1], s[k])
  <2>1. Max(1..k) = k
    BY <1>1, MaxIs
  <2>2. (1..k) \ {k} = 1..(k - 1)
    BY <1>1
  <2>3. 1..k # {} /\ 1..k \in SUBSET (1..Len(s))
    <3>1. k \in 1..k /\ \A j \in 1..k : j \in 1..Len(s)
      BY <1>1
    <3>2. QED
      BY <3>1
  <2>4. g[1..k] = Split(g[1..(k - 1)], s[k])
    BY <1>8, <2>1, <2>2, <2>3
  <2>5. QED
    BY <1>1, <2>4
<1>11. Tokens(s) = r[Len(s)]
  BY <1>1, <1>6
<1>12. QED
  BY <1>9, <1>10, <1>11

-----------------------------------------------------------------------------
(* The pieces of a text.                                                   *)

\* A part of a sequence.
LEMMA SubSeqIs ==
    ASSUME NEW X, NEW t \in Seq(X), NEW b \in 0..Len(t), NEW a \in 1..(b + 1)
    PROVE  /\ SubSeq(t, a, b) \in Seq(X)
           /\ Len(SubSeq(t, a, b)) = b - a + 1
           /\ \A j \in 1..(b - a + 1) : SubSeq(t, a, b)[j] = t[a + j - 1]
  OBVIOUS

\* Sequences with the same elements are the same.
LEMMA SameSeq ==
    ASSUME NEW X, NEW s \in Seq(X), NEW u \in Seq(X), Len(s) = Len(u),
           \A j \in 1..Len(s) : s[j] = u[j]
    PROVE  s = u
  OBVIOUS

\* A part of a sequence and the element behind it.
LEMMA SubSeqGrows ==
    ASSUME NEW X, NEW t \in Seq(X), NEW b \in 0..(Len(t) - 1), NEW a \in 1..(b + 1)
    PROVE  Append(SubSeq(t, a, b), t[b + 1]) = SubSeq(t, a, b + 1)
<1> DEFINE s == Append(SubSeq(t, a, b), t[b + 1])
           u == SubSeq(t, a, b + 1)
<1>1. Len(t) \in Nat /\ b \in 0..Len(t) /\ b + 1 \in 0..Len(t) /\ a \in 1..(b + 2) /\ t[b + 1] \in X
  OBVIOUS
<1>2. /\ SubSeq(t, a, b) \in Seq(X) /\ Len(SubSeq(t, a, b)) = b - a + 1
      /\ \A j \in 1..(b - a + 1) : SubSeq(t, a, b)[j] = t[a + j - 1]
  BY <1>1, SubSeqIs
<1>3. u \in Seq(X) /\ Len(u) = b - a + 2 /\ \A j \in 1..(b - a + 2) : u[j] = t[a + j - 1]
  BY <1>1, SubSeqIs
<1>4. s \in Seq(X) /\ Len(s) = b - a + 2 /\ \A j \in 1..(b - a + 2) : s[j] = t[a + j - 1]
  BY <1>1, <1>2
<1> HIDE DEF s, u
<1>5. s = u
  BY <1>3, <1>4, SameSeq
<1>6. QED
  BY <1>5 DEF s, u

\* From a to b there is no ";", and there is one before a, or nothing.
Run(t, a, b) ==
    /\ 1 <= a /\ a <= b + 1 /\ b <= Len(t)
    /\ a = 1 \/ t[a - 1] = Sep
    /\ \A j \in a..b : t[j] # Sep

\* A run that goes on to the next ";" or to the end.
Piece(t, a, b) == Run(t, a, b) /\ (b = Len(t) \/ t[b + 1] = Sep)

\* Runs with the same end have the same beginning.
LEMMA RunsMeet ==
    ASSUME NEW X, NEW t \in Seq(X), NEW a \in Nat, NEW b \in Nat, NEW c \in Nat, Run(t, a, b), Run(t, c, b)
    PROVE  a = c
<1>1. /\ Len(t) \in Nat /\ b <= Len(t) /\ 1 <= a /\ a <= b + 1 /\ 1 <= c /\ c <= b + 1
      /\ a = 1 \/ t[a - 1] = Sep
      /\ c = 1 \/ t[c - 1] = Sep
      /\ \A j \in a..b : t[j] # Sep
      /\ \A j \in c..b : t[j] # Sep
  BY DEF Run
<1>2. ~(a < c)
  <2> SUFFICES ASSUME a < c PROVE FALSE
    OBVIOUS
  <2>1. c - 1 \in a..b /\ c # 1
    BY <1>1
  <2>2. QED
    BY <1>1, <2>1
<1>3. ~(c < a)
  <2> SUFFICES ASSUME c < a PROVE FALSE
    OBVIOUS
  <2>1. a - 1 \in c..b /\ a # 1
    BY <1>1
  <2>2. QED
    BY <1>1, <2>1
<1>4. QED
  BY <1>1, <1>2, <1>3

\* Pieces that have a symbol in common are the same.
LEMMA PiecesMeet ==
    ASSUME NEW X, NEW t \in Seq(X), NEW a \in Nat, NEW b \in Nat, NEW c \in Nat, NEW d \in Nat,
           Piece(t, a, b), Piece(t, c, d), NEW x \in a..b, x \in c..d
    PROVE  a = c /\ b = d
<1>1. /\ Len(t) \in Nat /\ b <= Len(t) /\ d <= Len(t) /\ 1 <= a /\ a <= b + 1 /\ 1 <= c /\ c <= d + 1
      /\ b = Len(t) \/ t[b + 1] = Sep
      /\ d = Len(t) \/ t[d + 1] = Sep
      /\ \A j \in a..b : t[j] # Sep
      /\ \A j \in c..d : t[j] # Sep
  BY DEF Piece, Run
<1>2. ~(b < d)
  <2> SUFFICES ASSUME b < d PROVE FALSE
    OBVIOUS
  <2>1. b + 1 \in c..d /\ b # Len(t)
    BY <1>1
  <2>2. QED
    BY <1>1, <2>1
<1>3. ~(d < b)
  <2> SUFFICES ASSUME d < b PROVE FALSE
    OBVIOUS
  <2>1. d + 1 \in a..b /\ d # Len(t)
    BY <1>1
  <2>2. QED
    BY <1>1, <2>1
<1>4. b = d
  BY <1>1, <1>2, <1>3
<1>5. QED
  BY <1>4, RunsMeet DEF Piece

\* The pieces of the first k symbols of t: the last is still open, and the
\* others are those that a ";" has ended.
Ended(t, k, a, b) == Run(t, a, b) /\ b < k /\ t[b + 1] = Sep

SplitUpTo(pieces, X, t, k) ==
    /\ pieces \in Seq(Seq(X))
    /\ Len(pieces) > 0
    /\ \E a \in Nat : Run(t, a, k) /\ pieces[Len(pieces)] = SubSeq(t, a, k)
    /\ \A q \in 1..(Len(pieces) - 1) :
          \E a, b \in Nat : Ended(t, k, a, b) /\ pieces[q] = SubSeq(t, a, b)
    /\ \A a, b \in Nat :
          Ended(t, k, a, b) => \E q \in 1..(Len(pieces) - 1) : pieces[q] = SubSeq(t, a, b)

\* One more symbol.
LEMMA SplitNext ==
    ASSUME NEW X, NEW t \in Seq(X), NEW k \in Nat, k < Len(t), NEW P, SplitUpTo(P, X, t, k),
           NEW Q, Q = Split(P, t[k + 1])
    PROVE  SplitUpTo(Q, X, t, k + 1)
<1>1. /\ Len(t) \in Nat /\ t[k + 1] \in X
      /\ P \in Seq(Seq(X)) /\ Len(P) \in Nat /\ Len(P) > 0
  BY DEF SplitUpTo
<1>2. PICK a0 \in Nat : Run(t, a0, k) /\ P[Len(P)] = SubSeq(t, a0, k)
  BY DEF SplitUpTo
<1>3. \A q \in 1..(Len(P) - 1) :
          \E a, b \in Nat : Ended(t, k, a, b) /\ P[q] = SubSeq(t, a, b)
  BY DEF SplitUpTo
<1>4. \A a, b \in Nat :
          Ended(t, k, a, b) => \E q \in 1..(Len(P) - 1) : P[q] = SubSeq(t, a, b)
  BY DEF SplitUpTo
<1>5. \A a, b \in Nat : Ended(t, k, a, b) => Ended(t, k + 1, a, b)
  BY <1>1 DEF Ended, Run
<1>6. /\ SubSeq(t, a0, k) \in Seq(X)
      /\ k \in 0..(Len(t) - 1) /\ k \in 0..Len(t) /\ a0 \in 1..(k + 1)
  <2>1. k \in 0..(Len(t) - 1) /\ k \in 0..Len(t) /\ a0 \in 1..(k + 1)
    BY <1>1, <1>2 DEF Run
  <2>2. QED
    BY <2>1, SubSeqIs
<1>7. CASE t[k + 1] = Sep
  <2>1. Q = Append(P, <<>>)
    BY <1>7 DEF Split
  <2>2. /\ Q \in Seq(Seq(X)) /\ Len(Q) = Len(P) + 1
        /\ Q[Len(Q)] = <<>>
        /\ \A q \in 1..Len(P) : Q[q] = P[q]
    <3>1. <<>> \in Seq(X)
      OBVIOUS
    <3>2. QED
      BY <1>1, <2>1, <3>1
  <2>3. Ended(t, k + 1, a0, k)
    BY <1>1, <1>2, <1>7 DEF Ended
  <2>4. Run(t, k + 2, k + 1) /\ Q[Len(Q)] = SubSeq(t, k + 2, k + 1)
    <3>1. Run(t, k + 2, k + 1)
      BY <1>1, <1>7 DEF Run
    <3>2. SubSeq(t, k + 2, k + 1) = <<>>
      BY <1>1
    <3>3. QED
      BY <2>2, <3>1, <3>2
  <2>5. /\ Len(P) \in Nat /\ Len(P) > 0 /\ Len(Q) = Len(P) + 1
        /\ \A q \in 1..Len(P) : Q[q] = P[q]
    BY <1>1, <2>2
  <2>6. ASSUME NEW q \in 1..(Len(Q) - 1)
        PROVE  \E a, b \in Nat : Ended(t, k + 1, a, b) /\ Q[q] = SubSeq(t, a, b)
    <3>1. CASE q = Len(P)
      <4>1. Q[q] = SubSeq(t, a0, k)
        BY <1>2, <2>5, <3>1
      <4>2. QED
        BY <2>3, <4>1
    <3>2. CASE q # Len(P)
      <4>1. q \in 1..(Len(P) - 1) /\ Q[q] = P[q]
        BY <2>5, <3>2
      <4>2. QED
        BY <1>3, <1>5, <4>1
    <3>3. QED
      BY <3>1, <3>2
  <2>7. ASSUME NEW a \in Nat, NEW b \in Nat, Ended(t, k + 1, a, b)
        PROVE  \E q \in 1..(Len(Q) - 1) : Q[q] = SubSeq(t, a, b)
    <3>1. CASE b = k
      <4>1. a = a0
        BY <1>2, <2>7, <3>1, RunsMeet DEF Ended
      <4>2. Len(P) \in 1..(Len(Q) - 1) /\ Q[Len(P)] = SubSeq(t, a, b)
        BY <1>2, <2>5, <3>1, <4>1
      <4>3. QED
        BY <4>2
    <3>2. CASE b # k
      <4>1. Ended(t, k, a, b)
        BY <1>1, <2>7, <3>2 DEF Ended
      <4>2. PICK q \in 1..(Len(P) - 1) : P[q] = SubSeq(t, a, b)
        BY <1>4, <4>1
      <4>3. q \in 1..(Len(Q) - 1) /\ Q[q] = P[q]
        BY <2>5
      <4>4. QED
        BY <4>2, <4>3
    <3>3. QED
      BY <3>1, <3>2
  <2>8. Len(Q) > 0 /\ k + 2 \in Nat
    BY <1>1, <2>2
  <2>9. QED
    BY <2>2, <2>4, <2>6, <2>7, <2>8 DEF SplitUpTo
<1>8. CASE t[k + 1] # Sep
  <2> DEFINE last == Append(SubSeq(t, a0, k), t[k + 1])
  <2>1. last = SubSeq(t, a0, k + 1) /\ last \in Seq(X)
    <3>1. last = SubSeq(t, a0, k + 1)
      BY <1>6, SubSeqGrows
    <3>2. last \in Seq(X)
      BY <1>1, <1>6
    <3>3. QED
      BY <3>1, <3>2
  <2>2. Q = [P EXCEPT ![Len(P)] = last]
    BY <1>2, <1>8 DEF Split
  <2> HIDE DEF last
  <2>3. /\ Q \in Seq(Seq(X)) /\ Len(Q) = Len(P)
        /\ Q[Len(Q)] = last
        /\ \A q \in 1..(Len(P) - 1) : Q[q] = P[q]
    <3>1. Len(P) \in 1..Len(P) /\ \A q \in 1..(Len(P) - 1) : q \in 1..Len(P) /\ q # Len(P)
      <4>1. Len(P) \in Nat /\ Len(P) > 0
        BY <1>1
      <4>2. QED
        BY <4>1
    <3>2. Q \in Seq(Seq(X)) /\ Len(Q) = Len(P)
      BY <1>1, <2>1, <2>2, <3>1
    <3>3. \A q \in 1..Len(P) : Q[q] = IF q = Len(P) THEN last ELSE P[q]
      BY <1>1, <2>2
    <3>4. QED
      BY <3>1, <3>2, <3>3
  <2>4. Run(t, a0, k + 1)
    BY <1>1, <1>2, <1>8 DEF Run
  <2>5. \A a, b \in Nat : Ended(t, k + 1, a, b) => Ended(t, k, a, b)
    BY <1>1, <1>8 DEF Ended, Run
  <2>6. ASSUME NEW q \in 1..(Len(Q) - 1)
        PROVE  \E a, b \in Nat : Ended(t, k + 1, a, b) /\ Q[q] = SubSeq(t, a, b)
    BY <1>3, <1>5, <2>3
  <2>7. ASSUME NEW a \in Nat, NEW b \in Nat, Ended(t, k + 1, a, b)
        PROVE  \E q \in 1..(Len(Q) - 1) : Q[q] = SubSeq(t, a, b)
    BY <1>4, <2>3, <2>5, <2>7
  <2>8. Len(Q) > 0
    BY <1>1, <2>3
  <2>9. QED
    BY <2>1, <2>3, <2>4, <2>6, <2>7, <2>8 DEF SplitUpTo
<1>9. QED
  BY <1>7, <1>8

\* All pieces of a text over X, and nothing else.
PiecesOf(P, X, t) ==
    /\ P \in Seq(Seq(X))
    /\ \A q \in 1..Len(P) : \E a, b \in Nat : Piece(t, a, b) /\ P[q] = SubSeq(t, a, b)
    /\ \A a, b \in Nat : Piece(t, a, b) => \E q \in 1..Len(P) : P[q] = SubSeq(t, a, b)

\* That is what Tokens yields.
LEMMA TokensAre ==
    ASSUME NEW X, NEW t \in Seq(X), NEW P, P = Tokens(t)
    PROVE  PiecesOf(P, X, t)
<1>1. PICK r : /\ r[0] = << <<>> >>
               /\ \A k \in 1..Len(t) : r[k] = Split(r[k - 1], t[k])
               /\ P = r[Len(t)]
  BY TokensSplit
<1> DEFINE K == {k \in 0..Len(t) : SplitUpTo(r[k], X, t, k)}
<1>2. Len(t) \in Nat
  OBVIOUS
<1>3. 0 \in K
  <2> DEFINE one == << <<>> >>
  <2>1. <<>> \in Seq(X) /\ one \in Seq(Seq(X)) /\ Len(one) = 1 /\ one[1] = <<>>
    OBVIOUS
  <2>2. Run(t, 1, 0) /\ SubSeq(t, 1, 0) = <<>>
    BY <1>2 DEF Run
  <2>3. ASSUME NEW a \in Nat, NEW b \in Nat, Ended(t, 0, a, b) PROVE FALSE
    BY <1>2, <2>3 DEF Ended
  <2> HIDE DEF one
  <2>4. SplitUpTo(one, X, t, 0)
    BY <2>1, <2>2, <2>3 DEF SplitUpTo
  <2>5. QED
    BY <1>1, <1>2, <2>4 DEF one
<1>4. ASSUME NEW k \in 0..(Len(t) - 1), k \in K PROVE k + 1 \in K
  <2>1. k + 1 \in 1..Len(t) /\ (k + 1) - 1 = k
    BY <1>2
  <2>2. r[k + 1] = Split(r[k], t[k + 1])
    BY <1>1, <2>1
  <2>3. SplitUpTo(r[k + 1], X, t, k + 1)
    BY <1>2, <1>4, <2>2, SplitNext
  <2>4. QED
    BY <2>1, <2>3
<1> HIDE DEF K
<1>5. Len(t) \in K
  <2>1. \A k \in 0..Len(t) : k \in K
    BY <1>2, <1>3, <1>4, UpTo
  <2>2. QED
    BY <1>2, <2>1
<1>6. SplitUpTo(P, X, t, Len(t))
  BY <1>1, <1>5 DEF K
<1>7. P \in Seq(Seq(X)) /\ Len(P) \in Nat /\ Len(P) > 0
  BY <1>6 DEF SplitUpTo
<1>8. PICK a0 \in Nat : Run(t, a0, Len(t)) /\ P[Len(P)] = SubSeq(t, a0, Len(t))
  BY <1>6 DEF SplitUpTo
<1>9. ASSUME NEW q \in 1..Len(P)
      PROVE  \E a, b \in Nat : Piece(t, a, b) /\ P[q] = SubSeq(t, a, b)
  <2>1. CASE q = Len(P)
    BY <1>2, <1>8, <2>1 DEF Piece
  <2>2. CASE q # Len(P)
    <3>1. q \in 1..(Len(P) - 1)
      BY <1>7, <2>2
    <3>2. QED
      BY <1>6, <3>1 DEF SplitUpTo, Ended, Piece
  <2>3. QED
    BY <2>1, <2>2
<1>10. ASSUME NEW a \in Nat, NEW b \in Nat, Piece(t, a, b)
       PROVE  \E q \in 1..Len(P) : P[q] = SubSeq(t, a, b)
  <2>1. CASE b = Len(t)
    <3>1. a = a0
      BY <1>8, <1>10, <2>1, RunsMeet DEF Piece
    <3>2. QED
      BY <1>7, <1>8, <2>1, <3>1
  <2>2. CASE b # Len(t)
    <3>1. Ended(t, Len(t), a, b)
      <4>1. Run(t, a, b) /\ t[b + 1] = Sep
        BY <1>10, <2>2 DEF Piece
      <4>2. b <= Len(t)
        BY <4>1 DEF Run
      <4>3. QED
        BY <1>2, <2>2, <4>1, <4>2 DEF Ended
    <3>2. PICK q \in 1..(Len(P) - 1) : P[q] = SubSeq(t, a, b)
      BY <1>6, <3>1 DEF SplitUpTo
    <3>3. q \in 1..Len(P)
      <4>1. Len(P) \in Nat /\ Len(P) > 0
        BY <1>7
      <4>2. QED
        BY <4>1
    <3>4. QED
      BY <3>2, <3>3
  <2>3. QED
    BY <2>1, <2>2
<1>11. QED
  BY <1>7, <1>9, <1>10 DEF PiecesOf

-----------------------------------------------------------------------------
(* Values and their texts.                                                 *)

Symbol == FieldNames \cup {"=", Sep, "quote", "zero", "str", "torn", "p", "x", "y", "0", "7", "7.0004",
                           "0.000", "7.000", "false", "true", "t", "f"}

\* Every value is a sequence of symbols, and not empty.
Text(v) == v \in Seq(Symbol) /\ v # <<>>

\* The values a field of each printed type can have, if a plugin always knows
\* which field it sets.
Typed(type, v) ==
    /\ type = "int" => v \in {Zero, <<"7">>}
    /\ type = "float" => v \in {Zero, <<"7">>, <<"7.0004">>}
    /\ type = "bool" => v \in {Zero, <<"true">>}
    /\ type = "char" => \E c \in Symbol : v = <<c>> /\ FirstChar(c) = c
    /\ type = "string" => v = Zero \/ \E s \in Seq(Symbol) : v = Str(s)

\* The characters of the model are symbols.
LEMMA SymbolIs ==
    {"=", Sep, "quote", "zero", "str", "torn", "p", "x", "y", "0", "7", "7.0004",
     "0.000", "7.000", "false", "true", "t", "f"} \subseteq Symbol
  BY DEF Symbol

\* A text of one symbol.
LEMMA OneSymbol ==
    ASSUME NEW c \in Symbol
    PROVE  <<c>> \in Seq(Symbol) /\ Text(<<c>>) /\ Len(<<c>>) = 1 /\ <<c>>[1] = c /\ Head(<<c>>) = c
  BY DEF Text

\* A string with its tag.
LEMMA StrIs ==
    ASSUME NEW s \in Seq(Symbol)
    PROVE  Text(Str(s)) /\ Tail(Str(s)) = s /\ Str(s) # Zero
<1>1. "str" \in Symbol /\ "zero" \in Symbol
  BY SymbolIs
<1> DEFINE u == Str(s)
<1>2. /\ u \in Seq(Symbol) /\ Len(u) = Len(s) + 1 /\ u[1] = "str"
      /\ \A k \in 1..Len(s) : u[k + 1] = s[k]
  BY <1>1 DEF Str
<1> HIDE DEF u
<1>3. Tail(u) \in Seq(Symbol) /\ Len(Tail(u)) = Len(s) /\ \A k \in 1..Len(s) : Tail(u)[k] = s[k]
  BY <1>2
<1>4. Tail(u) = s
  BY <1>3, SameSeq
<1>5. u # Zero
  BY <1>2 DEF Zero
<1>6. u # <<>>
  BY <1>2
<1>7. QED
  BY <1>2, <1>4, <1>5, <1>6 DEF Text, u

\* FirstChar takes a symbol to one that it leaves alone.
LEMMA FirstCharIs ==
    ASSUME NEW c \in Symbol
    PROVE  FirstChar(c) \in Symbol /\ FirstChar(FirstChar(c)) = FirstChar(c)
<1>1. {"t", "f", "7", "0"} \subseteq Symbol
  BY SymbolIs
<1>2. QED
  BY <1>1 DEF FirstChar

\* Zero is a value of every type.
LEMMA ZeroTyped == Text(Zero) /\ \A type : Typed(type, Zero)
<1>1. "zero" \in Symbol
  BY SymbolIs
<1>2. FirstChar("zero") = "zero"
  BY DEF FirstChar
<1>3. QED
  BY <1>1, <1>2, OneSymbol DEF Zero, Typed

\* What plugins pass has the type of the field.
LEMMA ArgumentTyped ==
    ASSUME NEW type \in FieldType, NEW v \in Values[type]
    PROVE  Text(v) /\ Typed(type, v)
<1>1. {"7", "7.0004", "true", Sep, "=", "x", "y", "p"} \subseteq Symbol
  BY SymbolIs
<1>2. CASE v = Zero
  BY <1>2, ZeroTyped
<1>3. CASE v # Zero
  <2>1. CASE type = "int"
    <3>1. v = <<"7">>
      BY <1>3, <2>1 DEF Values
    <3>2. QED
      BY <1>1, <2>1, <3>1, OneSymbol DEF Typed
  <2>2. CASE type = "float"
    <3>1. v = <<"7.0004">>
      BY <1>3, <2>2 DEF Values
    <3>2. QED
      BY <1>1, <2>2, <3>1, OneSymbol DEF Typed
  <2>3. CASE type = "bool"
    <3>1. v = <<"true">>
      BY <1>3, <2>3 DEF Values
    <3>2. QED
      BY <1>1, <2>3, <3>1, OneSymbol DEF Typed
  <2>4. CASE type = "char"
    <3>1. v = <<Sep>>
      BY <1>3, <2>4 DEF Values
    <3>2. FirstChar(Sep) = Sep
      BY Zenon DEF FirstChar, Sep
    <3>3. QED
      BY <1>1, <2>4, <3>1, <3>2, OneSymbol DEF Typed
  <2>5. CASE type = "string"
    <3>1. v = Str(<<"=">>) \/ v = Str(<<"x", "y">>)
      BY <1>3, <2>5 DEF Values
    <3>2. <<"=">> \in Seq(Symbol) /\ <<"x", "y">> \in Seq(Symbol)
      BY <1>1
    <3>3. QED
      BY <2>5, <3>1, <3>2, StrIs DEF Typed
  <2>6. CASE type = "ptr"
    <3>1. v = <<"p">>
      BY <1>3, <2>6 DEF Values
    <3>2. QED
      BY <1>1, <2>6, <3>1, OneSymbol DEF Typed
  <2>7. CASE type = "struct"
    BY <1>3, <2>7 DEF Values
  <2>8. QED
    BY <2>1, <2>2, <2>3, <2>4, <2>5, <2>6, <2>7 DEF FieldType
<1>4. QED
  BY <1>2, <1>3

\* A string is shown in quotes.
LEMMA QuotedIs ==
    ASSUME NEW s \in Seq(Symbol), NEW u, u = <<"quote">> \o s \o <<"quote">>
    PROVE  u \in Seq(Symbol) /\ Quoted(u) /\ Stripped(u) = s
<1>1. "quote" \in Symbol
  BY SymbolIs
<1>2. /\ u \in Seq(Symbol) /\ Len(u) = Len(s) + 2 /\ u[1] = "quote" /\ u[Len(s) + 2] = "quote"
      /\ \A k \in 1..Len(s) : u[k + 1] = s[k]
  BY <1>1
<1>3. Len(s) \in Nat
  OBVIOUS
<1>4. Quoted(u)
  BY <1>2, <1>3 DEF Quoted, Last
<1>5. Stripped(u) \in Seq(Symbol) /\ Len(Stripped(u)) = Len(s) /\ \A k \in 1..Len(s) : Stripped(u)[k] = s[k]
  <2>1. Len(u) - 1 \in 0..Len(u) /\ 2 \in 1..(Len(u) - 1 + 1) /\ (Len(u) - 1) - 2 + 1 = Len(s)
    BY <1>2, <1>3
  <2>2. /\ SubSeq(u, 2, Len(u) - 1) \in Seq(Symbol)
        /\ Len(SubSeq(u, 2, Len(u) - 1)) = Len(s)
        /\ \A k \in 1..Len(s) : SubSeq(u, 2, Len(u) - 1)[k] = u[2 + k - 1]
    BY <1>2, <2>1, SubSeqIs
  <2>3. \A k \in 1..Len(s) : 2 + k - 1 = k + 1
    BY <1>3
  <2>4. QED
    BY <1>2, <2>2, <2>3 DEF Stripped
<1>6. Stripped(u) = s
  BY <1>5, SameSeq
<1>7. QED
  BY <1>2, <1>4, <1>6

\* A value is shown as a text.
LEMMA ShownText ==
    ASSUME NEW type \in FieldType, Printed(type), NEW v, Text(v)
    PROVE  Shown(type, v) \in Seq(Symbol)
<1>1. {"0", "0.000", "7.000", "true", "false", "quote"} \subseteq Symbol
  BY SymbolIs
<1>2. v \in Seq(Symbol) /\ v # <<>>
  BY DEF Text
<1>3. CASE type = "int"
  BY <1>1, <1>2, <1>3 DEF Shown
<1>4. CASE type = "float"
  BY <1>1, <1>4 DEF Shown
<1>5. CASE type = "bool"
  BY <1>1, <1>5 DEF Shown
<1>6. CASE type = "char"
  BY <1>2, <1>6 DEF Shown
<1>7. CASE type = "string"
  <2>1. Tail(v) \in Seq(Symbol) /\ <<>> \in Seq(Symbol)
    BY <1>2
  <2>2. \E s \in Seq(Symbol) : Shown(type, v) = <<"quote">> \o s \o <<"quote">>
    BY <1>7, <2>1 DEF Shown
  <2>3. QED
    BY <2>2, QuotedIs
<1>8. QED
  BY <1>3, <1>4, <1>5, <1>6, <1>7 DEF Printed, FieldType

\* What is stored for a text is a value, and one of the field's type.
LEMMA ParsedTyped ==
    ASSUME NEW type \in FieldType, NEW val \in Seq(Symbol), NEW old, Text(old)
    PROVE  /\ Text(Parsed(type, val, old))
           /\ Printed(type) => Typed(type, Parsed(type, val, old))
<1>1. {"7", "true"} \subseteq Symbol
  BY SymbolIs
<1>2. CASE type \in {"int", "float"}
  <2>1. Parsed(type, val, old) \in {<<"7">>, Zero}
    BY <1>2 DEF Parsed
  <2>2. QED
    BY <1>1, <1>2, <2>1, OneSymbol, ZeroTyped DEF Typed
<1>3. CASE type = "bool"
  <2>1. Parsed(type, val, old) \in {<<"true">>, Zero}
    BY <1>3 DEF Parsed
  <2>2. QED
    BY <1>1, <1>3, <2>1, OneSymbol, ZeroTyped DEF Typed
<1>4. CASE type = "char"
  <2>1. CASE val = <<>>
    <3>1. Parsed(type, val, old) = Zero
      BY <1>4, <2>1 DEF Parsed
    <3>2. QED
      BY <3>1, ZeroTyped
  <2>2. CASE val # <<>>
    <3>1. Parsed(type, val, old) = <<FirstChar(Head(val))>> /\ Head(val) \in Symbol
      BY <1>4, <2>2 DEF Parsed
    <3>2. QED
      BY <1>4, <3>1, FirstCharIs, OneSymbol DEF Typed
  <2>3. QED
    BY <2>1, <2>2
<1>5. CASE type = "string"
  <2>1. Stripped(val) \in Seq(Symbol)
    BY DEF Stripped
  <2>2. \E s \in Seq(Symbol) : Parsed(type, val, old) = Str(s)
    BY <1>5, <2>1 DEF Parsed
  <2>3. QED
    BY <1>5, <2>2, StrIs DEF Typed
<1>6. CASE type \in {"ptr", "struct"}
  <2>1. Parsed(type, val, old) = old
    BY <1>6 DEF Parsed
  <2>2. QED
    BY <1>6, <2>1 DEF Printed
<1>7. QED
  BY <1>2, <1>3, <1>4, <1>5, <1>6 DEF FieldType

\* What a field shows.  A NUL character shows nothing.
Visible(type, v) == IF type = "char" /\ v = Zero THEN <<>> ELSE Shown(type, v)

\* Reading a value back.
LEMMA RoundTrip ==
    ASSUME NEW type \in FieldType, Printed(type), NEW v, Text(v), Typed(type, v), NEW old
    PROVE  Parsed(type, Visible(type, v), old) = Normal(type, v)
<1>1. CASE type = "int"
  <2>1. v = Zero \/ v = <<"7">>
    BY <1>1 DEF Typed
  <2>2. Zero # <<"7">>
    BY DEF Zero
  <2>3. Normal(type, v) = v /\ Visible(type, v) = IF v = Zero THEN <<"0">> ELSE v
    BY <1>1 DEF Normal, Visible, Shown
  <2>4. Parsed(type, <<"0">>, old) = Zero /\ Parsed(type, <<"7">>, old) = <<"7">>
    BY <1>1 DEF Parsed
  <2>5. QED
    BY <2>1, <2>2, <2>3, <2>4
<1>2. CASE type = "float"
  <2>1. Normal(type, v) = IF v = Zero THEN Zero ELSE <<"7">>
    BY <1>2 DEF Normal
  <2>2. Visible(type, v) = IF v = Zero THEN <<"0.000">> ELSE <<"7.000">>
    BY <1>2 DEF Visible, Shown
  <2>3. Parsed(type, <<"0.000">>, old) = Zero /\ Parsed(type, <<"7.000">>, old) = <<"7">>
    BY <1>2 DEF Parsed
  <2>4. QED
    BY <2>1, <2>2, <2>3
<1>3. CASE type = "bool"
  <2>1. v = Zero \/ v = <<"true">>
    BY <1>3 DEF Typed
  <2>2. Zero # <<"true">>
    BY DEF Zero
  <2>3. Normal(type, v) = v /\ Visible(type, v) = IF v = Zero THEN <<"false">> ELSE <<"true">>
    BY <1>3 DEF Normal, Visible, Shown
  <2>4. Parsed(type, <<"false">>, old) = Zero /\ Parsed(type, <<"true">>, old) = <<"true">>
    BY <1>3 DEF Parsed
  <2>5. QED
    BY <2>1, <2>2, <2>3, <2>4
<1>4. CASE type = "char"
  <2>1. PICK c \in Symbol : v = <<c>> /\ FirstChar(c) = c
    BY <1>4 DEF Typed
  <2>2. Normal(type, v) = v /\ Visible(type, v) = IF v = Zero THEN <<>> ELSE v
    BY <1>4 DEF Normal, Visible, Shown
  <2>3. Parsed(type, <<>>, old) = Zero
    BY <1>4 DEF Parsed
  <2>4. Parsed(type, v, old) = v
    <3>1. v # <<>> /\ Head(v) = c
      BY <2>1, OneSymbol DEF Text
    <3>2. QED
      BY <1>4, <2>1, <3>1 DEF Parsed
  <2>5. QED
    BY <2>2, <2>3, <2>4
<1>5. CASE type = "string"
  <2>1. PICK s \in Seq(Symbol) : Visible(type, v) = <<"quote">> \o s \o <<"quote">> /\ Normal(type, v) = Str(s)
    <3>1. CASE v = Zero
      <4>1. <<>> \in Seq(Symbol)
        OBVIOUS
      <4>2. Visible(type, v) = <<"quote">> \o <<>> \o <<"quote">> /\ Normal(type, v) = Str(<<>>)
        BY <1>5, <3>1 DEF Visible, Shown, Normal
      <4>3. QED
        BY <4>1, <4>2
    <3>2. CASE v # Zero
      <4>1. PICK s \in Seq(Symbol) : v = Str(s)
        BY <1>5, <3>2 DEF Typed
      <4>2. Tail(v) = s
        BY <4>1, StrIs
      <4>3. Visible(type, v) = <<"quote">> \o s \o <<"quote">> /\ Normal(type, v) = v
        BY <1>5, <3>2, <4>2 DEF Visible, Shown, Normal
      <4>4. QED
        BY <4>1, <4>3
    <3>3. QED
      BY <3>1, <3>2
  <2> DEFINE u == Visible(type, v)
  <2>2. Quoted(u) /\ Stripped(u) = s
    BY <2>1, QuotedIs
  <2> HIDE DEF u
  <2>3. Parsed(type, u, old) = Str(s)
    BY <1>5, <2>2 DEF Parsed
  <2>4. QED
    BY <2>1, <2>3 DEF u
<1>6. QED
  BY <1>1, <1>2, <1>3, <1>4, <1>5 DEF Printed, FieldType

-----------------------------------------------------------------------------
(* hk_deserialize.                                                         *)

DistinctNames(F) == \A i, j \in 1..Len(F) : F[i].name = F[j].name => i = j

\* A type whose fields have values, of the right type if a name tells which.
Whole(e) ==
    /\ Sound(e)
    /\ \A k \in 1..Len(e.fields) : Text(Value(e, e.fields[k]))
    /\ DistinctNames(e.fields) => \A k \in 1..Len(e.fields) : Typed(e.fields[k].type, Value(e, e.fields[k]))

SameType(r, e) == r.plugin = e.plugin /\ r.name = e.name /\ r.fields = e.fields /\ r.size = e.size

\* A value written to a field, and to no other.
LEMMA OneWritten ==
    ASSUME NEW e, Sound(e), NEW k \in 1..Len(e.fields), NEW v, e.fields[k].size = 0 => v = Zero,
           NEW r, r = Written(e, {e.fields[k]}, v)
    PROVE  /\ Sound(r) /\ SameType(r, e)
           /\ \A l \in 1..Len(e.fields) :
                 Value(r, e.fields[l]) = IF l = k THEN v ELSE Value(e, e.fields[l])
<1>1. Sound(r) /\ SameType(r, e)
  BY WrittenIs DEF SameType
<1> DEFINE F == {e.fields[k]}
           T == {k}
<1>2. T \in SUBSET (1..Len(e.fields)) /\ F = {e.fields[l] : l \in T}
  OBVIOUS
<1> HIDE DEF F, T
<1>3. r = Written(e, F, v)
  BY DEF F
<1>4. \A l \in 1..Len(e.fields) : /\ l \in T /\ (e.fields[l].size = 0 => v = Zero) => Value(r, e.fields[l]) = v
                                  /\ l \notin T => Value(r, e.fields[l]) = Value(e, e.fields[l])
  BY <1>2, <1>3, ValueAfter
<1>5. QED
  BY <1>1, <1>4 DEF T

\* One token changes at most one field, to what some text stands for.
LEMMA AssignedIs ==
    ASSUME NEW e, Sound(e), NEW token \in Seq(Symbol), NEW r, r = Assigned(e, token)
    PROVE  \/ r = e
           \/ \E k \in 1..Len(e.fields), val \in Seq(Symbol) :
                 r = Written(e, {e.fields[k]}, Parsed(e.fields[k].type, val, Value(e, e.fields[k])))
<1> DEFINE eq == First({i \in 1..Len(token) : token[i] = "="})
           n == CHOOSE i \in eq : TRUE
           at == First({i \in 1..Len(e.fields) : <<e.fields[i].name>> = SubSeq(token, 1, n - 1)})
           k == CHOOSE i \in at : TRUE
           val == SubSeq(token, n + 1, Len(token))
<1>1. CASE eq = {} \/ at = {}
  BY <1>1 DEF Assigned
<1>2. CASE eq # {} /\ at # {}
  <2>1. n \in eq /\ k \in at
    BY <1>2
  <2>2. n \in 1..Len(token) /\ k \in 1..Len(e.fields)
    BY <2>1 DEF First
  <2>3. r = Written(e, {e.fields[k]}, Parsed(e.fields[k].type, val, Value(e, e.fields[k])))
    BY <1>2 DEF Assigned
  <2>4. val \in Seq(Symbol)
    <3> HIDE DEF n
    <3>1. Len(token) \in 0..Len(token) /\ n + 1 \in 1..(Len(token) + 1)
      BY <2>2
    <3>2. QED
      BY <3>1, SubSeqIs
  <2> HIDE DEF k, val
  <2>5. QED
    BY <2>2, <2>3, <2>4
<1>3. QED
  BY <1>1, <1>2

\* One token leaves a type whole.
LEMMA AssignedKeeps ==
    ASSUME NEW e, Whole(e), NEW token \in Seq(Symbol), NEW r, r = Assigned(e, token)
    PROVE  Whole(r) /\ SameType(r, e)
<1>1. CASE r = e
  BY <1>1 DEF SameType
<1>2. ASSUME NEW k \in 1..Len(e.fields), NEW val \in Seq(Symbol),
             r = Written(e, {e.fields[k]}, Parsed(e.fields[k].type, val, Value(e, e.fields[k])))
      PROVE  Whole(r) /\ SameType(r, e)
  <2> DEFINE f == e.fields[k]
             v == Parsed(f.type, val, Value(e, f))
  <2>1. Sound(e) /\ Text(Value(e, f)) /\ Packed(e.fields, e.size)
    BY DEF Whole, Sound
  <2>2. f.type \in FieldType /\ f.size = hk_type_size(f.type)
    BY <2>1, PackedFields DEF Packed
  <2>3. Text(v) /\ (Printed(f.type) => Typed(f.type, v))
    BY <2>1, <2>2, ParsedTyped
  <2>4. ~Printed(f.type) => Typed(f.type, v)
    BY DEF Printed, Typed
  <2>5. f.size = 0 => v = Zero
    <3> SUFFICES ASSUME f.size = 0 PROVE v = Zero
      OBVIOUS
    <3>1. f.type = "struct"
      BY <2>2, SizeIs
    <3>2. Value(e, f) = Zero
      BY DEF Value
    <3>3. QED
      BY <3>1, <3>2 DEF Parsed
  <2> HIDE DEF v
  <2>6. /\ Sound(r) /\ SameType(r, e)
        /\ \A l \in 1..Len(e.fields) : Value(r, e.fields[l]) = IF l = k THEN v ELSE Value(e, e.fields[l])
    BY <1>2, <2>1, <2>5, OneWritten DEF v
  <2>7. r.fields = e.fields
    BY <2>6 DEF SameType
  <2>8. \A l \in 1..Len(e.fields) : Text(Value(r, e.fields[l]))
    BY <2>3, <2>6 DEF Whole
  <2>9. DistinctNames(e.fields) => \A l \in 1..Len(e.fields) : Typed(e.fields[l].type, Value(r, e.fields[l]))
    BY <2>3, <2>4, <2>6 DEF Whole
  <2>10. QED
    BY <2>6, <2>7, <2>8, <2>9 DEF Whole
<1>3. QED
  BY <1>1, <1>2, AssignedIs DEF Whole

\* The part of a text that fits into a buffer.
LEMMA CutIs ==
    ASSUME NEW X, NEW t \in Seq(X), NEW n \in Nat
    PROVE  /\ Cut(t, n) \in Seq(X)
           /\ Len(Cut(t, n)) = IF Len(t) < n THEN Len(t) ELSE n
           /\ \A j \in 1..Len(Cut(t, n)) : Cut(t, n)[j] = t[j]
<1> DEFINE m == IF Len(t) < n THEN Len(t) ELSE n
<1>1. Len(t) \in Nat
  OBVIOUS
<1>2. m \in 0..Len(t) /\ 1 \in 1..(m + 1) /\ m - 1 + 1 = m
  BY <1>1
<1> HIDE DEF m
<1>3. /\ SubSeq(t, 1, m) \in Seq(X) /\ Len(SubSeq(t, 1, m)) = m
      /\ \A j \in 1..m : SubSeq(t, 1, m)[j] = t[1 + j - 1]
  BY <1>2, SubSeqIs
<1>4. \A j \in 1..m : 1 + j - 1 = j
  BY <1>2
<1>5. QED
  BY <1>3, <1>4 DEF Cut, m

\* Whatever the text, hk_deserialize leaves the type whole.
LEMMA DeserializeKeeps ==
    ASSUME NEW e, Whole(e), NEW data \in Seq(Symbol), NEW d, d = hk_deserialize(e, data)
    PROVE  Whole(d) /\ SameType(d, e)
<1> DEFINE P == Tokens(Cut(data, BufLen - 1))
<1>1. Cut(data, BufLen - 1) \in Seq(Symbol)
  <2>1. BufLen - 1 \in Nat
    BY HeapKitAssumption
  <2>2. QED
    BY <2>1, CutIs
<1>2. P \in Seq(Seq(Symbol)) /\ d = FoldLeft(Assigned, e, P)
  BY <1>1, TokensAre DEF PiecesOf, hk_deserialize
<1> HIDE DEF P
<1>3. PICK r : /\ r[0] = e
               /\ \A k \in 1..Len(P) : r[k] = Assigned(r[k - 1], P[k])
               /\ FoldLeft(Assigned, e, P) = r[Len(P)]
  BY <1>2, FoldAssigned
<1> DEFINE K == {k \in 0..Len(P) : Whole(r[k]) /\ SameType(r[k], e)}
<1>4. Len(P) \in Nat
  BY <1>2
<1>5. 0 \in K
  BY <1>3, <1>4 DEF SameType
<1>6. ASSUME NEW k \in 0..(Len(P) - 1), k \in K PROVE k + 1 \in K
  <2>1. k + 1 \in 1..Len(P) /\ k + 1 \in 0..Len(P) /\ (k + 1) - 1 = k
    BY <1>4
  <2>2. r[k + 1] = Assigned(r[k], P[k + 1]) /\ P[k + 1] \in Seq(Symbol)
    BY <1>2, <1>3, <2>1
  <2>3. Whole(r[k + 1]) /\ SameType(r[k + 1], r[k])
    BY <1>6, <2>2, AssignedKeeps
  <2>4. QED
    BY <1>6, <2>1, <2>3 DEF SameType
<1> HIDE DEF K
<1>7. Len(P) \in K
  <2>1. \A k \in 0..Len(P) : k \in K
    BY <1>4, <1>5, <1>6, UpTo
  <2>2. QED
    BY <1>4, <2>1
<1>8. QED
  BY <1>2, <1>3, <1>7 DEF K

-----------------------------------------------------------------------------
(* What hk_serialize has written.                                          *)

NulChar(f, v) == f.type = "char" /\ v = Zero

\* The text of a field without the ";", and with it, if it fits.
Body(f, v) == <<f.name, "=">> \o Visible(f.type, v)

Part(f, v) == IF Printed(f.type) THEN FieldText(f, v) ELSE <<>>

Fits(f, v) == Len(Shown(f.type, v)) + 3 < TempLen

\* A field's text is a text.
LEMMA PartText ==
    ASSUME NEW f \in Field, NEW v, Text(v)
    PROVE  Part(f, v) \in Seq(Symbol)
<1>1. f.name \in Symbol /\ f.type \in FieldType /\ {"=", Sep} \subseteq Symbol
  BY SymbolIs DEF Field, Symbol
<1>2. <<>> \in Seq(Symbol)
  OBVIOUS
<1>3. CASE Printed(f.type)
  <2>1. TempLen - 1 \in Nat
    BY HeapKitAssumption
  <2>2. Shown(f.type, v) \in Seq(Symbol)
    BY <1>1, <1>3, ShownText
  <2>3. <<f.name, "=">> \in Seq(Symbol) /\ <<f.name, "=">> \o Shown(f.type, v) \o <<Sep>> \in Seq(Symbol)
    BY <1>1, <2>2
  <2>4. \E u \in Seq(Symbol) : FieldText(f, v) = Cut(u, TempLen - 1)
    BY <2>3 DEF FieldText
  <2>5. QED
    BY <1>3, <2>1, <2>4, CutIs DEF Part
<1>4. QED
  BY <1>2, <1>3 DEF Part

\* Name, "=" and value.
LEMMA BodyIs ==
    ASSUME NEW f \in Field, Printed(f.type), NEW v, Text(v)
    PROVE  /\ Body(f, v) \in Seq(Symbol) /\ Visible(f.type, v) \in Seq(Symbol)
           /\ Len(Body(f, v)) = Len(Visible(f.type, v)) + 2
           /\ Body(f, v)[1] = f.name /\ Body(f, v)[2] = "="
           /\ \A j \in 1..Len(Visible(f.type, v)) : Body(f, v)[j + 2] = Visible(f.type, v)[j]
<1>1. f.name \in Symbol /\ f.type \in FieldType /\ "=" \in Symbol
  BY SymbolIs DEF Field, Symbol
<1>2. Visible(f.type, v) \in Seq(Symbol)
  <2>1. <<>> \in Seq(Symbol) /\ Shown(f.type, v) \in Seq(Symbol)
    BY <1>1, ShownText
  <2>2. QED
    BY <2>1 DEF Visible
<1> DEFINE s == Visible(f.type, v)
<1> HIDE DEF s
<1>3. /\ <<f.name, "=">> \o s \in Seq(Symbol) /\ Len(<<f.name, "=">> \o s) = Len(s) + 2
      /\ (<<f.name, "=">> \o s)[1] = f.name /\ (<<f.name, "=">> \o s)[2] = "="
      /\ \A j \in 1..Len(s) : (<<f.name, "=">> \o s)[j + 2] = s[j]
  BY <1>1, <1>2 DEF s
<1>4. QED
  BY <1>2, <1>3 DEF Body, s

\* A text that fits is the body and, unless a NUL swallows it, the ";".
LEMMA PartIs ==
    ASSUME NEW f \in Field, Printed(f.type), NEW v, Text(v), Fits(f, v)
    PROVE  /\ Len(Part(f, v)) = Len(Body(f, v)) + IF NulChar(f, v) THEN 0 ELSE 1
           /\ \A j \in 1..Len(Body(f, v)) : Part(f, v)[j] = Body(f, v)[j]
           /\ ~NulChar(f, v) => Part(f, v)[Len(Body(f, v)) + 1] = Sep
<1>1. f.name \in Symbol /\ f.type \in FieldType /\ {"=", Sep} \subseteq Symbol
  BY SymbolIs DEF Field, Symbol
<1>2. TempLen - 1 \in Nat
  BY HeapKitAssumption
<1> DEFINE n == Len(Shown(f.type, v))
<1>3. Shown(f.type, v) \in Seq(Symbol) /\ n \in Nat
  BY <1>1, ShownText
<1>4. n + 3 < TempLen
  BY DEF Fits
<1> HIDE DEF n
<1>5. TempLen \in Nat /\ 2 < TempLen - 1 /\ (n + 3 < TempLen - 1 \/ n + 3 = TempLen - 1)
  <2>1. TempLen \in Nat
    BY HeapKitAssumption
  <2>2. QED
    BY <1>3, <1>4, <2>1
<1>6. CASE NulChar(f, v)
  <2> DEFINE u == <<f.name, "=">>
  <2>1. u \in Seq(Symbol) /\ Len(u) = 2
    BY <1>1
  <2>2. Part(f, v) = Cut(u, TempLen - 1)
    BY <1>6 DEF Part, FieldText, NulChar
  <2>3. Body(f, v) = u
    BY <1>6, <2>1 DEF Body, Visible, NulChar
  <2> HIDE DEF u
  <2>4. Len(u) < TempLen - 1
    BY <1>5, <2>1
  <2>5. Len(Part(f, v)) = 2 /\ \A j \in 1..2 : Part(f, v)[j] = u[j]
    BY <1>2, <2>1, <2>2, <2>4, CutIs
  <2>6. QED
    BY <1>6, <2>1, <2>3, <2>5
<1>7. CASE ~NulChar(f, v)
  <2> DEFINE b == Body(f, v)
             u == b \o <<Sep>>
  <2>1. b = <<f.name, "=">> \o Shown(f.type, v)
    BY <1>7 DEF Body, Visible, NulChar
  <2>2. Part(f, v) = Cut(u, TempLen - 1)
    BY <1>7, <2>1 DEF Part, FieldText, NulChar
  <2>3. b \in Seq(Symbol) /\ Len(b) \in Nat /\ Len(b) = n + 2
    BY <1>1, <1>3, <2>1 DEF n
  <2> HIDE DEF b
  <2>4. /\ u \in Seq(Symbol) /\ Len(u) = Len(b) + 1 /\ u[Len(b) + 1] = Sep
        /\ \A j \in 1..Len(b) : u[j] = b[j]
    BY <1>1, <2>3
  <2> HIDE DEF u
  <2>5. Len(u) < TempLen - 1 \/ (~(Len(u) < TempLen - 1) /\ Len(u) = TempLen - 1)
    <3>1. Len(u) = n + 3
      BY <1>3, <2>3, <2>4
    <3>2. QED
      BY <1>3, <1>5, <3>1
  <2>6. Len(Part(f, v)) = Len(u) /\ \A j \in 1..Len(u) : Part(f, v)[j] = u[j]
    BY <1>2, <2>2, <2>4, <2>5, CutIs
  <2>7. QED
    BY <1>7, <2>3, <2>4, <2>6 DEF b
<1>8. QED
  BY <1>6, <1>7

\* A field after which the next one starts with a new piece.
Clean(f, v) == Printed(f.type) => Fits(f, v) /\ ~NulChar(f, v)

\* out is the text of the first n fields of F with the values was; that of
\* field k starts behind symbol pos[k].
TextAt(F, was, n, out, pos) ==
    /\ pos \in [1..(n + 1) -> Nat]
    /\ pos[1] = 0 /\ pos[n + 1] = Len(out)
    /\ \A k \in 1..n : /\ pos[k + 1] = pos[k] + Len(Part(F[k], was[k]))
                       /\ \A j \in 1..Len(Part(F[k], was[k])) : out[pos[k] + j] = Part(F[k], was[k])[j]
    /\ \A k, l \in 1..(n + 1) : k <= l => pos[k] <= pos[l]
    /\ \A a \in 1..Len(out) : \E k \in 1..n : pos[k] < a /\ a <= pos[k + 1]
    /\ \A k \in 1..(n + 1) :
          (\A j \in 1..(k - 1) : Clean(F[j], was[j])) => pos[k] = 0 \/ out[pos[k]] = Sep

\* The text before the first field.
LEMMA TextStarts ==
    ASSUME NEW F, NEW was
    PROVE  \E pos : TextAt(F, was, 0, <<>>, pos)
<1> DEFINE pos == [k \in 1..1 |-> 0]
<1>1. pos \in [1..(0 + 1) -> Nat] /\ pos[1] = 0 /\ Len(<<>>) = 0
  OBVIOUS
<1> HIDE DEF pos
<1>2. TextAt(F, was, 0, <<>>, pos)
  BY <1>1 DEF TextAt
<1>3. QED
  BY <1>2

\* A clean field's text is empty or ends with a ";".
LEMMA CleanEnds ==
    ASSUME NEW f \in Field, NEW v, Text(v), Clean(f, v), NEW part, part = Part(f, v)
    PROVE  Len(part) \in Nat /\ (Len(part) = 0 \/ part[Len(part)] = Sep)
<1>1. part \in Seq(Symbol)
  BY PartText
<1>2. Len(part) \in Nat
  BY <1>1
<1>3. CASE Printed(f.type)
  <2>1. Fits(f, v) /\ ~NulChar(f, v)
    BY <1>3 DEF Clean
  <2>2. Len(part) = Len(Body(f, v)) + 1 /\ part[Len(Body(f, v)) + 1] = Sep
    BY <1>3, <2>1, PartIs
  <2>3. QED
    BY <1>2, <2>2
<1>4. CASE ~Printed(f.type)
  <2>1. part = <<>>
    BY <1>4 DEF Part
  <2>2. QED
    BY <2>1
<1>5. QED
  BY <1>3, <1>4

\* The text of one more field.
LEMMA TextGrows ==
    ASSUME NEW F, NEW n \in Nat, NEW was, NEW out \in Seq(Symbol), NEW pos, TextAt(F, was, n, out, pos),
           NEW w, \A k \in 1..n : w[k] = was[k], F[n + 1] \in Field, Text(w[n + 1]),
           NEW new, new = out \o Part(F[n + 1], w[n + 1])
    PROVE  \E q : TextAt(F, w, n + 1, new, q)
<1> DEFINE part == Part(F[n + 1], w[n + 1])
           q == [k \in 1..(n + 1 + 1) |-> IF k = n + 2 THEN Len(out) + Len(part) ELSE pos[k]]
           L == Len(out)
           M == Len(part)
<1>1. part \in Seq(Symbol)
  BY PartText
<1>2. L \in Nat /\ M \in Nat
  BY <1>1
<1>3. /\ new \in Seq(Symbol) /\ Len(new) = L + M
      /\ \A j \in 1..L : new[j] = out[j]
      /\ \A j \in 1..M : new[L + j] = part[j]
  BY <1>1
<1>4. /\ pos \in [1..(n + 1) -> Nat] /\ pos[1] = 0 /\ pos[n + 1] = L
      /\ \A k, l \in 1..(n + 1) : k <= l => pos[k] <= pos[l]
  BY DEF TextAt
<1>5. Clean(F[n + 1], w[n + 1]) => M = 0 \/ part[M] = Sep
  BY CleanEnds
<1> HIDE DEF part, L, M
<1>6. /\ q \in [1..(n + 1 + 1) -> Nat]
      /\ \A k \in 1..(n + 1) : q[k] = pos[k]
      /\ q[n + 1 + 1] = L + M
  BY <1>2, <1>4 DEF L, M
<1> HIDE DEF q
<1>7. q[1] = 0 /\ q[n + 1 + 1] = Len(new)
  BY <1>3, <1>4, <1>6
<1>8. ASSUME NEW k \in 1..(n + 1)
      PROVE  /\ q[k + 1] = q[k] + Len(Part(F[k], w[k]))
             /\ \A j \in 1..Len(Part(F[k], w[k])) : new[q[k] + j] = Part(F[k], w[k])[j]
  <2>1. CASE k = n + 1
    <3>1. q[k] = L /\ q[k + 1] = L + M /\ Part(F[k], w[k]) = part /\ Len(Part(F[k], w[k])) = M
      BY <1>4, <1>6, <2>1 DEF part, M
    <3>2. QED
      BY <1>2, <1>3, <3>1
  <2>2. CASE k # n + 1
    <3>1. k \in 1..n /\ k + 1 \in 1..(n + 1) /\ w[k] = was[k]
      BY <2>2
    <3> DEFINE u == Part(F[k], was[k])
    <3>2. pos[k + 1] = pos[k] + Len(u) /\ \A j \in 1..Len(u) : out[pos[k] + j] = u[j]
      BY <3>1 DEF TextAt
    <3>3. Part(F[k], w[k]) = u
      BY <3>1
    <3> HIDE DEF u
    <3>4. q[k] = pos[k] /\ q[k + 1] = pos[k + 1]
      BY <1>6, <3>1
    <3>5. pos[k] \in Nat /\ pos[k + 1] \in Nat /\ pos[k + 1] <= L
      <4>1. pos[k] \in Nat /\ pos[k + 1] \in Nat
        BY <1>4, <3>1
      <4>2. pos[k + 1] <= pos[n + 1]
        BY <1>4, <3>1
      <4>3. QED
        BY <1>4, <4>1, <4>2
    <3>6. ASSUME NEW j \in 1..Len(u) PROVE new[pos[k] + j] = u[j]
      <4>1. pos[k] + j \in 1..L
        <5>1. Len(u) \in Int
          BY <3>2, <3>5, PartText
        <5>2. QED
          BY <1>2, <3>2, <3>5, <5>1
      <4>2. QED
        BY <1>3, <3>2, <4>1
    <3>7. QED
      BY <3>2, <3>3, <3>4, <3>6
  <2>3. QED
    BY <2>1, <2>2
<1>9. \A k, l \in 1..(n + 1 + 1) : k <= l => q[k] <= q[l]
  <2> SUFFICES ASSUME NEW k \in 1..(n + 1 + 1), NEW l \in 1..(n + 1 + 1), k <= l
               PROVE  q[k] <= q[l]
    OBVIOUS
  <2>1. CASE l = n + 2
    <3>1. CASE k = n + 2
      BY <1>6, <2>1, <3>1
    <3>2. CASE k # n + 2
      <4>1. k \in 1..(n + 1) /\ k <= n + 1
        BY <3>2
      <4>2. q[k] <= L /\ q[k] \in Nat /\ q[l] = L + M
        BY <1>4, <1>6, <2>1, <4>1
      <4>3. QED
        BY <1>2, <4>2
    <3>3. QED
      BY <3>1, <3>2
  <2>2. CASE l # n + 2
    <3>1. k \in 1..(n + 1) /\ l \in 1..(n + 1)
      BY <2>2
    <3>2. QED
      BY <1>4, <1>6, <3>1
  <2>3. QED
    BY <2>1, <2>2
<1>10. ASSUME NEW a \in 1..Len(new) PROVE \E k \in 1..(n + 1) : q[k] < a /\ a <= q[k + 1]
  <2>1. a \in Nat /\ a <= L + M /\ 1 <= a
    BY <1>2, <1>3
  <2>2. CASE a <= L
    <3>1. a \in 1..L
      BY <1>2, <2>1, <2>2
    <3>2. PICK k \in 1..n : pos[k] < a /\ a <= pos[k + 1]
      BY <3>1 DEF TextAt, L
    <3>3. k \in 1..(n + 1) /\ k + 1 \in 1..(n + 1)
      OBVIOUS
    <3>4. QED
      BY <1>6, <3>2, <3>3
  <2>3. CASE ~(a <= L)
    <3>1. n + 1 \in 1..(n + 1) /\ q[n + 1] = L /\ q[n + 1 + 1] = L + M /\ L < a
      BY <1>2, <1>4, <1>6, <2>1, <2>3
    <3>2. QED
      BY <2>1, <3>1
  <2>4. QED
    BY <2>2, <2>3
<1>11. ASSUME NEW k \in 1..(n + 1 + 1), \A j \in 1..(k - 1) : Clean(F[j], w[j])
       PROVE  q[k] = 0 \/ new[q[k]] = Sep
  <2>1. ASSUME NEW l \in 1..(n + 1), l <= k PROVE pos[l] = 0 \/ (pos[l] \in 1..L /\ out[pos[l]] = Sep)
    <3>1. \A j \in 1..(l - 1) : j \in 1..(k - 1) /\ j \in 1..n
      BY <2>1
    <3>2. \A j \in 1..(l - 1) : Clean(F[j], was[j])
      BY <1>11, <3>1
    <3>3. pos[l] = 0 \/ out[pos[l]] = Sep
      BY <3>2 DEF TextAt
    <3>4. pos[l] \in Nat /\ pos[l] <= L
      BY <1>4
    <3>5. QED
      BY <1>2, <3>3, <3>4
  <2>2. CASE k # n + 2
    <3>1. k \in 1..(n + 1) /\ k <= k
      BY <2>2
    <3>2. QED
      BY <1>3, <1>6, <2>1, <3>1
  <2>3. CASE k = n + 2
    <3>1. n + 1 \in 1..(k - 1) /\ n + 1 \in 1..(n + 1) /\ n + 1 <= k
      BY <2>3
    <3>2. M = 0 \/ part[M] = Sep
      BY <1>5, <1>11, <3>1
    <3>3. q[k] = L + M
      BY <1>6, <2>3
    <3>4. CASE M = 0
      <4>1. L = 0 \/ (L \in 1..L /\ out[L] = Sep)
        BY <1>4, <2>1, <3>1
      <4>2. q[k] = L
        BY <1>2, <3>3, <3>4
      <4>3. QED
        BY <1>3, <4>1, <4>2
    <3>5. CASE M # 0
      <4>1. M \in 1..M
        BY <1>2, <3>5
      <4>2. QED
        BY <1>3, <3>2, <3>3, <3>5, <4>1
    <3>6. QED
      BY <3>4, <3>5
  <2>4. QED
    BY <2>2, <2>3
<1>12. n + 1 \in Nat
  OBVIOUS
<1>13. TextAt(F, w, n + 1, new, q)
  BY <1>6, <1>7, <1>8, <1>9, <1>10, <1>11 DEF TextAt
<1>14. QED
  BY <1>13

-----------------------------------------------------------------------------
(* What hk_deserialize makes of it.                                        *)

\* The text of all fields, if Readable says that it can be taken apart.
Legible(F, w, out, pos) ==
    /\ F \in Seq(Field)
    /\ \A k \in 1..Len(F) : Text(w[k])
    /\ out \in Seq(Symbol)
    /\ TextAt(F, w, Len(F), out, pos)
    /\ Len(out) < BufLen \/ (Len(out) = BufLen /\ out[BufLen] = Sep)
    /\ \A k \in 1..Len(F) : Printed(F[k].type) =>
          /\ F[k].name # "="
          /\ Fits(F[k], w[k])
          /\ \A j \in 1..Len(Body(F[k], w[k])) : Body(F[k], w[k])[j] # Sep
          /\ NulChar(F[k], w[k]) => \A l \in 1..Len(F) : Printed(F[l].type) => l <= k

\* The copy in buf lacks at most the last symbol, and then that is a ";".
LEMMA CopyIs ==
    ASSUME NEW F, NEW w, NEW out, NEW pos, Legible(F, w, out, pos), NEW t, t = Cut(out, BufLen - 1)
    PROVE  /\ t \in Seq(Symbol) /\ Len(t) \in Nat /\ Len(out) \in Nat
           /\ \A j \in 1..Len(t) : t[j] = out[j]
           /\ Len(t) = Len(out) \/ (Len(t) = Len(out) - 1 /\ out[Len(out)] = Sep)
<1>1. out \in Seq(Symbol) /\ (Len(out) < BufLen \/ (Len(out) = BufLen /\ out[BufLen] = Sep))
  BY DEF Legible
<1>2. BufLen \in Nat /\ BufLen - 1 \in Nat
  BY HeapKitAssumption
<1>3. /\ t \in Seq(Symbol)
      /\ Len(t) = IF Len(out) < BufLen - 1 THEN Len(out) ELSE BufLen - 1
      /\ \A j \in 1..Len(t) : t[j] = out[j]
  BY <1>1, <1>2, CutIs
<1>4. Len(out) \in Nat /\ Len(t) \in Nat
  BY <1>1, <1>3
<1>5. Len(t) = Len(out) \/ (Len(t) = Len(out) - 1 /\ Len(out) = BufLen)
  <2>1. Len(out) < BufLen \/ Len(out) = BufLen
    BY <1>1
  <2>2. Len(t) = IF Len(out) < BufLen - 1 THEN Len(out) ELSE BufLen - 1
    BY <1>3
  <2>3. QED
    BY <1>2, <1>4, <2>1, <2>2
<1>6. Len(out) = BufLen => out[Len(out)] = Sep
  <2>1. ~(BufLen < BufLen)
    BY <1>2
  <2>2. QED
    BY <1>1, <2>1
<1>7. QED
  BY <1>3, <1>4, <1>5, <1>6

\* Where the text of a field stands in out.
LEMMA PartStands ==
    ASSUME NEW F, NEW w, NEW out, NEW pos, Legible(F, w, out, pos),
           NEW k \in 1..Len(F), Printed(F[k].type), NEW b, b = Body(F[k], w[k])
    PROVE  /\ Len(b) \in Nat /\ 2 <= Len(b) /\ pos[k] \in Nat /\ pos[k + 1] \in Nat /\ pos[k + 1] <= Len(out)
           /\ b \in Seq(Symbol)
           /\ \A j \in 1..Len(b) : out[pos[k] + j] = b[j] /\ b[j] # Sep
           /\ NulChar(F[k], w[k]) => pos[k + 1] = pos[k] + Len(b)
           /\ ~NulChar(F[k], w[k]) => /\ pos[k + 1] = pos[k] + Len(b) + 1
                                      /\ out[pos[k] + Len(b) + 1] = Sep
<1>1. F[k] \in Field /\ Text(w[k]) /\ Fits(F[k], w[k]) /\ Len(F) \in Nat
  BY DEF Legible
<1> DEFINE u == Part(F[k], w[k])
<1>2. /\ Len(u) = Len(b) + (IF NulChar(F[k], w[k]) THEN 0 ELSE 1)
      /\ \A j \in 1..Len(b) : u[j] = b[j]
      /\ ~NulChar(F[k], w[k]) => u[Len(b) + 1] = Sep
  BY <1>1, PartIs
<1>3. b \in Seq(Symbol) /\ Len(b) \in Nat /\ 2 <= Len(b)
  <2>1. /\ b \in Seq(Symbol) /\ Visible(F[k].type, w[k]) \in Seq(Symbol)
        /\ Len(b) = Len(Visible(F[k].type, w[k])) + 2
    BY <1>1, BodyIs
  <2>2. Len(Visible(F[k].type, w[k])) \in Nat
    BY <2>1
  <2>3. QED
    BY <2>1, <2>2
<1>4. /\ pos \in [1..(Len(F) + 1) -> Nat] /\ pos[Len(F) + 1] = Len(out)
      /\ pos[k + 1] = pos[k] + Len(u)
      /\ \A j \in 1..Len(u) : out[pos[k] + j] = u[j]
      /\ \A i, l \in 1..(Len(F) + 1) : i <= l => pos[i] <= pos[l]
  BY DEF Legible, TextAt
<1>5. k \in 1..(Len(F) + 1) /\ k + 1 \in 1..(Len(F) + 1) /\ Len(F) + 1 \in 1..(Len(F) + 1) /\ k + 1 <= Len(F) + 1
  BY <1>1
<1>6. pos[k] \in Nat /\ pos[k + 1] \in Nat /\ pos[k + 1] <= Len(out)
  BY <1>4, <1>5
<1>7. \A j \in 1..Len(b) : b[j] # Sep
  BY DEF Legible
<1> HIDE DEF u
<1>8. ASSUME NEW j \in 1..Len(b) PROVE out[pos[k] + j] = b[j]
  <2>1. j \in 1..Len(u)
    BY <1>2, <1>3
  <2>2. QED
    BY <1>2, <1>4, <2>1
<1>9. NulChar(F[k], w[k]) => pos[k + 1] = pos[k] + Len(b)
  BY <1>2, <1>3, <1>4
<1>10. ASSUME ~NulChar(F[k], w[k])
       PROVE  pos[k + 1] = pos[k] + Len(b) + 1 /\ out[pos[k] + Len(b) + 1] = Sep
  <2>1. Len(u) = Len(b) + 1 /\ u[Len(b) + 1] = Sep /\ Len(b) + 1 \in 1..Len(u)
    BY <1>2, <1>3, <1>10
  <2>2. out[pos[k] + (Len(b) + 1)] = Sep
    BY <1>4, <2>1
  <2>3. pos[k] + (Len(b) + 1) = pos[k] + Len(b) + 1
    <3>1. pos[k] \in Nat /\ Len(b) \in Nat
      BY <1>3, <1>6
    <3>2. QED
      BY <3>1
  <2>4. QED
    BY <1>4, <2>1, <2>2, <2>3
<1>11. QED
  BY <1>3, <1>6, <1>7, <1>8, <1>9, <1>10

\* Every symbol of out belongs to the text of a printed field.
LEMMA PartOf ==
    ASSUME NEW F, NEW w, NEW out, NEW pos, Legible(F, w, out, pos), NEW x \in 1..Len(out)
    PROVE  \E k \in 1..Len(F) : Printed(F[k].type) /\ pos[k] < x /\ x <= pos[k + 1]
<1>1. PICK k \in 1..Len(F) : pos[k] < x /\ x <= pos[k + 1]
  BY DEF Legible, TextAt
<1>2. Printed(F[k].type)
  <2> SUFFICES ASSUME ~Printed(F[k].type) PROVE FALSE
    OBVIOUS
  <2>1. Part(F[k], w[k]) = <<>>
    BY DEF Part
  <2>2. Len(Part(F[k], w[k])) = 0
    BY <2>1
  <2>3. pos[k + 1] = pos[k] + 0 /\ pos \in [1..(Len(F) + 1) -> Nat] /\ Len(F) \in Nat /\ Len(out) \in Nat
    BY <2>2 DEF Legible, TextAt
  <2>4. pos[k] \in Nat
    BY <2>3
  <2>5. QED
    BY <1>1, <2>3, <2>4
<1>3. QED
  BY <1>1, <1>2

\* The text of a field, without the ";", is a piece of the copy.
LEMMA PartPiece ==
    ASSUME NEW F, NEW w, NEW out, NEW pos, Legible(F, w, out, pos), NEW t, t = Cut(out, BufLen - 1),
           NEW k \in 1..Len(F), Printed(F[k].type), NEW b, b = Body(F[k], w[k])
    PROVE  Piece(t, pos[k] + 1, pos[k] + Len(b)) /\ SubSeq(t, pos[k] + 1, pos[k] + Len(b)) = b
<1> DEFINE p == pos[k]
           L == Len(out)
           m == Len(t)
           n == Len(b)
<1>1. /\ t \in Seq(Symbol) /\ m \in Nat /\ L \in Nat
      /\ \A j \in 1..m : t[j] = out[j]
      /\ m = L \/ (m = L - 1 /\ out[L] = Sep)
  BY CopyIs
<1>2. /\ n \in Nat /\ 2 <= n /\ p \in Nat /\ pos[k + 1] \in Nat /\ pos[k + 1] <= L
      /\ b \in Seq(Symbol)
      /\ \A j \in 1..n : out[p + j] = b[j] /\ b[j] # Sep
      /\ NulChar(F[k], w[k]) => pos[k + 1] = p + n
      /\ ~NulChar(F[k], w[k]) => pos[k + 1] = p + n + 1 /\ out[p + n + 1] = Sep
  BY PartStands
<1>3. Len(F) \in Nat
  BY DEF Legible
<1>4. p = 0 \/ out[p] = Sep
  <2>1. \A j \in 1..(k - 1) : Clean(F[j], w[j])
    <3> SUFFICES ASSUME NEW j \in 1..(k - 1), Printed(F[j].type)
                 PROVE  Fits(F[j], w[j]) /\ ~NulChar(F[j], w[j])
      BY DEF Clean
    <3>1. j \in 1..Len(F) /\ ~(k <= j)
      BY <1>3
    <3>2. QED
      BY <3>1 DEF Legible
  <2>2. k \in 1..(Len(F) + 1)
    BY <1>3
  <2>3. QED
    BY <2>1, <2>2 DEF Legible, TextAt
<1> HIDE DEF p, L, m, n
<1>5. p + n <= L
  <2>1. pos[k + 1] = p + n \/ pos[k + 1] = p + n + 1
    BY <1>2
  <2>2. n \in Nat /\ p \in Nat /\ L \in Nat /\ pos[k + 1] <= L
    BY <1>1, <1>2
  <2>3. QED
    BY <2>1, <2>2
<1>6. p + n <= m
  <2> SUFFICES ASSUME ~(p + n <= m) PROVE FALSE
    OBVIOUS
  <2>1. n \in Nat /\ 2 <= n /\ p \in Nat /\ L \in Nat /\ m \in Nat /\ (m = L \/ m = L - 1)
    BY <1>1, <1>2
  <2>2. p + n = L /\ m = L - 1 /\ m # L /\ n \in 1..n
    BY <1>5, <2>1
  <2>3. out[L] = Sep
    BY <1>1, <2>2
  <2>4. out[p + n] # Sep
    BY <1>2, <2>2
  <2>5. QED
    BY <2>2, <2>3, <2>4
<1>7. n \in Nat /\ 2 <= n /\ p \in Nat /\ m \in Nat /\ L \in Nat
  BY <1>1, <1>2
<1>8. ASSUME NEW j \in 1..n PROVE t[p + j] = b[j] /\ t[p + j] # Sep
  <2>1. p + j \in 1..m
    BY <1>6, <1>7
  <2>2. QED
    BY <1>1, <1>2, <2>1
<1>9. p = 0 \/ t[p] = Sep
  <2>1. p = 0 \/ p \in 1..m
    BY <1>6, <1>7
  <2>2. QED
    BY <1>1, <1>4, <2>1
<1>10. p + n = m \/ t[p + n + 1] = Sep
  <2>1. CASE NulChar(F[k], w[k])
    <3>1. pos[k + 1] = p + n
      BY <1>2, <2>1
    <3>2. p + n = L
      <4> SUFFICES ASSUME p + n # L PROVE FALSE
        OBVIOUS
      <4>1. p + n < L /\ L \in 1..L
        BY <1>5, <1>7
      <4>2. PICK l \in 1..Len(F) : Printed(F[l].type) /\ pos[l] < L /\ L <= pos[l + 1]
        BY <4>1, PartOf DEF L
      <4>3. l <= k
        BY <2>1, <4>2 DEF Legible
      <4>4. l + 1 \in 1..(Len(F) + 1) /\ k + 1 \in 1..(Len(F) + 1) /\ l + 1 <= k + 1
        BY <1>3, <4>3
      <4>5. pos[l + 1] <= pos[k + 1] /\ pos[l + 1] \in Nat
        BY <4>4 DEF Legible, TextAt
      <4>6. QED
        BY <1>7, <3>1, <4>1, <4>2, <4>5
    <3>3. m = L \/ m = L - 1
      BY <1>1
    <3>4. QED
      BY <1>6, <1>7, <3>2, <3>3
  <2>2. CASE ~NulChar(F[k], w[k])
    <3>1. out[p + n + 1] = Sep
      BY <1>2, <2>2
    <3>2. p + n = m \/ p + n + 1 \in 1..m
      BY <1>6, <1>7
    <3>3. QED
      BY <1>1, <3>1, <3>2
  <2>3. QED
    BY <2>1, <2>2
<1>11. Piece(t, p + 1, p + n)
  <2>1. 1 <= p + 1 /\ p + 1 <= p + n + 1 /\ p + n <= m /\ (p + 1) - 1 = p /\ (p = 0 => p + 1 = 1)
    BY <1>6, <1>7
  <2>2. ASSUME NEW j \in (p + 1)..(p + n) PROVE t[j] # Sep
    <3>1. j - p \in 1..n /\ p + (j - p) = j
      BY <1>7
    <3>2. QED
      BY <1>8, <3>1
  <2>3. p + 1 = 1 \/ t[(p + 1) - 1] = Sep
    BY <1>9, <2>1
  <2>4. QED
    BY <1>10, <2>1, <2>2, <2>3 DEF Piece, Run, m
<1>12. SubSeq(t, p + 1, p + n) = b
  <2>1. p + n \in 0..Len(t) /\ p + 1 \in 1..((p + n) + 1) /\ (p + n) - (p + 1) + 1 = n
    BY <1>6, <1>7 DEF m
  <2> DEFINE s == SubSeq(t, p + 1, p + n)
  <2>2. s \in Seq(Symbol) /\ Len(s) = n /\ \A j \in 1..n : s[j] = t[(p + 1) + j - 1]
    BY <1>1, <2>1, SubSeqIs
  <2>3. \A j \in 1..n : (p + 1) + j - 1 = p + j
    BY <1>7
  <2> HIDE DEF s
  <2>4. \A j \in 1..n : s[j] = b[j]
    BY <1>8, <2>2, <2>3
  <2>5. s = b
    BY <1>2, <2>2, <2>4, SameSeq DEF n
  <2>6. QED
    BY <2>5 DEF s
<1>13. QED
  BY <1>11, <1>12 DEF p, n

\* And there are no other pieces but empty ones.
LEMMA PieceIsPart ==
    ASSUME NEW F, NEW w, NEW out, NEW pos, Legible(F, w, out, pos), NEW t, t = Cut(out, BufLen - 1),
           NEW a \in Nat, NEW b \in Nat, Piece(t, a, b), a <= b
    PROVE  \E k \in 1..Len(F) : Printed(F[k].type) /\ SubSeq(t, a, b) = Body(F[k], w[k])
<1>1. /\ t \in Seq(Symbol) /\ Len(t) \in Nat /\ Len(out) \in Nat
      /\ \A j \in 1..Len(t) : t[j] = out[j]
      /\ Len(t) = Len(out) \/ Len(t) = Len(out) - 1
  BY CopyIs
<1>2. 1 <= a /\ b <= Len(t) /\ t[a] # Sep
  BY DEF Piece, Run
<1>3. a \in 1..Len(t) /\ a \in 1..Len(out)
  BY <1>1, <1>2
<1>4. PICK k \in 1..Len(F) : Printed(F[k].type) /\ pos[k] < a /\ a <= pos[k + 1]
  BY <1>3, PartOf
<1>5. PICK u : u = Body(F[k], w[k])
  OBVIOUS
<1>6. /\ Len(u) \in Nat /\ pos[k] \in Nat
      /\ NulChar(F[k], w[k]) => pos[k + 1] = pos[k] + Len(u)
      /\ ~NulChar(F[k], w[k]) => pos[k + 1] = pos[k] + Len(u) + 1 /\ out[pos[k] + Len(u) + 1] = Sep
  BY ONLY Legible(F, w, out, pos), k \in 1..Len(F), <1>4, <1>5, PartStands
<1>7. Piece(t, pos[k] + 1, pos[k] + Len(u)) /\ SubSeq(t, pos[k] + 1, pos[k] + Len(u)) = u
  BY <1>4, <1>5, PartPiece
<1>8. a # pos[k] + Len(u) + 1 \/ NulChar(F[k], w[k])
  BY <1>1, <1>2, <1>3, <1>6
<1>9. a \in (pos[k] + 1)..(pos[k] + Len(u))
  <2>1. a <= pos[k] + Len(u) + 1 /\ (NulChar(F[k], w[k]) => a <= pos[k] + Len(u))
    BY <1>4, <1>6
  <2>2. Len(u) \in Nat /\ pos[k] \in Nat
    BY <1>6
  <2>3. QED
    BY <1>4, <1>8, <2>1, <2>2
<1>10. a = pos[k] + 1 /\ b = pos[k] + Len(u)
  <2>1. pos[k] + 1 \in Nat /\ pos[k] + Len(u) \in Nat /\ a \in a..b
    BY <1>6
  <2>2. PICK c \in Nat, d \in Nat : c = pos[k] + 1 /\ d = pos[k] + Len(u)
    BY <2>1
  <2>3. Piece(t, c, d) /\ a \in c..d
    BY <1>7, <1>9, <2>2
  <2>4. t \in Seq(Symbol) /\ a \in a..b
    BY <1>1, <2>1
  <2>5. a = c /\ b = d
    BY ONLY Piece(t, a, b), a \in Nat, b \in Nat, c \in Nat, d \in Nat, <2>3, <2>4, PiecesMeet
  <2>6. QED
    BY <2>2, <2>5
<1>11. QED
  BY <1>4, <1>5, <1>7, <1>10

\* A token that is the text of a field sets that field.
LEMMA AssignedBody ==
    ASSUME NEW e, Sound(e), DistinctNames(e.fields), NEW k \in 1..Len(e.fields), Printed(e.fields[k].type),
           e.fields[k].name # "=", NEW v, Text(v), Typed(e.fields[k].type, v)
    PROVE  Assigned(e, Body(e.fields[k], v)) = Written(e, {e.fields[k]}, Normal(e.fields[k].type, v))
<1> DEFINE f == e.fields[k]
           s == Visible(f.type, v)
           n == Len(s)
<1>1. f \in Field /\ f.type \in FieldType
  BY PackedFields DEF Sound
<1>2. PICK b : b = Body(f, v)
  OBVIOUS
<1>3. /\ b \in Seq(Symbol) /\ s \in Seq(Symbol) /\ Len(b) = n + 2
      /\ b[1] = f.name /\ b[2] = "=" /\ \A j \in 1..n : b[j + 2] = s[j]
  BY <1>1, <1>2, BodyIs
<1>4. n \in Nat /\ Len(b) \in Nat /\ Len(b) = n + 2
  BY <1>3
<1> HIDE DEF s, n
<1> DEFINE eq == First({i \in 1..Len(b) : b[i] = "="})
           at == First({i \in 1..Len(e.fields) : <<e.fields[i].name>> = SubSeq(b, 1, 2 - 1)})
<1>5. eq = {2}
  <2>1. 2 \in 1..Len(b) /\ \A i \in 1..Len(b) : i # 1 => 2 <= i
    BY <1>4
  <2>2. b[1] # "=" /\ b[2] = "="
    BY <1>3
  <2>3. 2 \in eq
    BY <2>1, <2>2 DEF First
  <2>4. ASSUME NEW i \in eq PROVE i = 2
    <3>1. i \in 1..Len(b) /\ i <= 2 /\ i # 1
      BY <2>1, <2>2, <2>4 DEF First
    <3>2. QED
      BY <1>4, <3>1
  <2>5. QED
    BY <2>3, <2>4
<1>6. SubSeq(b, 1, 2 - 1) = <<f.name>>
  <2>1. 2 - 1 \in 0..Len(b) /\ 1 \in 1..((2 - 1) + 1) /\ (2 - 1) - 1 + 1 = 1
    BY <1>4
  <2>2. PICK u : u = SubSeq(b, 1, 2 - 1)
    OBVIOUS
  <2>3. u \in Seq(Symbol) /\ Len(u) = 1 /\ \A j \in 1..1 : u[j] = b[1 + j - 1]
    BY <1>3, <2>1, <2>2, SubSeqIs
  <2>4. u[1] = f.name
    BY <1>3, <2>3
  <2>5. f.name \in Symbol
    BY <1>1 DEF Field, Symbol
  <2>6. <<f.name>> \in Seq(Symbol) /\ Len(<<f.name>>) = 1 /\ <<f.name>>[1] = f.name
    BY <2>5, OneSymbol
  <2>7. PICK n1 : n1 = <<f.name>>
    OBVIOUS
  <2>8. \A j \in 1..Len(u) : u[j] = n1[j]
    BY <2>3, <2>4, <2>6, <2>7
  <2>9. u = n1
    BY <2>3, <2>6, <2>7, <2>8, SameSeq
  <2>10. QED
    BY <2>2, <2>7, <2>9
<1>7. at = {k}
  <2>1. \A i \in 1..Len(e.fields) : <<e.fields[i].name>> = <<f.name>> <=> i = k
    <3>1. \A i \in 1..Len(e.fields) : e.fields[i].name = f.name <=> i = k
      BY DEF DistinctNames
    <3>2. QED
      BY <3>1
  <2>2. {i \in 1..Len(e.fields) : <<e.fields[i].name>> = SubSeq(b, 1, 2 - 1)} = {k}
    BY <1>6, <2>1
  <2>3. k <= k
    OBVIOUS
  <2>4. QED
    BY <2>2, <2>3 DEF First
<1>8. SubSeq(b, 2 + 1, Len(b)) = s
  <2>1. Len(b) \in 0..Len(b) /\ 2 + 1 \in 1..(Len(b) + 1) /\ Len(b) - (2 + 1) + 1 = n
    BY <1>4
  <2>2. PICK u : u = SubSeq(b, 2 + 1, Len(b))
    OBVIOUS
  <2>3. u \in Seq(Symbol) /\ Len(u) = n /\ \A j \in 1..n : u[j] = b[(2 + 1) + j - 1]
    BY <1>3, <2>1, <2>2, SubSeqIs
  <2>4. \A j \in 1..n : (2 + 1) + j - 1 = j + 2
    BY <1>4
  <2>5. \A j \in 1..n : u[j] = s[j]
    BY <1>3, <2>3, <2>4
  <2>6. u = s
    BY <1>3, <2>3, <2>5, SameSeq DEF n
  <2>7. QED
    BY <2>2, <2>6
<1>9. (CHOOSE i \in eq : TRUE) = 2 /\ (CHOOSE i \in at : TRUE) = k
  BY <1>5, <1>7
<1>10. eq # {} /\ at # {}
  BY <1>5, <1>7
<1>11. Assigned(e, b) = Written(e, {f}, Parsed(f.type, s, Value(e, f)))
  BY <1>8, <1>9, <1>10 DEF Assigned
<1>12. Parsed(f.type, s, Value(e, f)) = Normal(f.type, v)
  BY <1>1, RoundTrip DEF s
<1>13. QED
  BY <1>2, <1>11, <1>12

\* An empty token sets nothing.
LEMMA AssignedNone ==
    ASSUME NEW e PROVE Assigned(e, <<>>) = e
<1>1. First({i \in 1..Len(<<>>) : <<>>[i] = "="}) = {}
  BY DEF First
<1>2. QED
  BY <1>1 DEF Assigned

\* A token is empty, or the text of a field.
Sensible(F, w, token) ==
    token = <<>> \/ \E k \in 1..Len(F) : Printed(F[k].type) /\ token = Body(F[k], w[k])

\* The values of the fields after the first q tokens of P.
SetBy(F, w, P, q, e, r) ==
    /\ Sound(r) /\ r.fields = F
    /\ \A l \in 1..Len(F) :
          Value(r, F[l]) = IF Printed(F[l].type) /\ \E x \in 1..q : P[x] = Body(F[l], w[l])
                           THEN Normal(F[l].type, w[l]) ELSE Value(e, F[l])

\* One more token, in whatever order and however often.
LEMMA SetByNext ==
    ASSUME NEW F, F \in Seq(Field), DistinctNames(F), NEW w,
           \A k \in 1..Len(F) : Text(w[k]) /\ Typed(F[k].type, w[k]),
           \A k \in 1..Len(F) : Printed(F[k].type) => F[k].name # "=",
           NEW P, NEW q \in Nat, NEW e, NEW r, SetBy(F, w, P, q, e, r), Sensible(F, w, P[q + 1]),
           NEW s, s = Assigned(r, P[q + 1])
    PROVE  SetBy(F, w, P, q + 1, e, s)
<1>1. Sound(r) /\ r.fields = F /\ Packed(F, r.size)
  BY DEF SetBy, Sound
<1>2. \A l \in 1..Len(F) : F[l] \in Field /\ F[l].type \in FieldType /\ F[l].size = hk_type_size(F[l].type)
  BY <1>1, PackedFields DEF Packed
<1>3. 1..(q + 1) = (1..q) \cup {q + 1}
  OBVIOUS
<1>4. \A l \in 1..Len(F) : (\E x \in 1..(q + 1) : P[x] = Body(F[l], w[l]))
                               <=> (\E x \in 1..q : P[x] = Body(F[l], w[l])) \/ P[q + 1] = Body(F[l], w[l])
  BY <1>3
<1>5. \A l \in 1..Len(F) : Printed(F[l].type) =>
         /\ Body(F[l], w[l]) \in Seq(Symbol) /\ Body(F[l], w[l])[1] = F[l].name /\ Body(F[l], w[l]) # <<>>
  <2> SUFFICES ASSUME NEW l \in 1..Len(F), Printed(F[l].type), NEW b, b = Body(F[l], w[l])
               PROVE  b \in Seq(Symbol) /\ b[1] = F[l].name /\ b # <<>>
    OBVIOUS
  <2> DEFINE u == Visible(F[l].type, w[l])
  <2>1. b \in Seq(Symbol) /\ u \in Seq(Symbol) /\ Len(b) = Len(u) + 2 /\ b[1] = F[l].name
    BY <1>2, BodyIs
  <2> HIDE DEF u
  <2>2. Len(u) \in Nat
    BY <2>1
  <2>3. Len(b) # 0
    BY <2>1, <2>2
  <2>4. b # <<>>
    BY <2>3
  <2>5. QED
    BY <2>1, <2>4
<1>6. CASE P[q + 1] = <<>>
  <2>1. s = r
    BY <1>6, AssignedNone
  <2>2. \A l \in 1..Len(F) : Printed(F[l].type) => P[q + 1] # Body(F[l], w[l])
    BY <1>5, <1>6
  <2>3. QED
    BY <1>4, <2>1, <2>2 DEF SetBy
<1>7. ASSUME NEW k \in 1..Len(F), Printed(F[k].type), P[q + 1] = Body(F[k], w[k])
      PROVE  SetBy(F, w, P, q + 1, e, s)
  <2> DEFINE v == Normal(F[k].type, w[k])
  <2>1. s = Written(r, {F[k]}, v)
    BY <1>1, <1>7, AssignedBody
  <2>2. F[k].size # 0
    BY <1>2, <1>7, SizeIs DEF Printed
  <2>3. /\ Sound(s) /\ SameType(s, r)
        /\ \A l \in 1..Len(F) : Value(s, F[l]) = IF l = k THEN v ELSE Value(r, F[l])
    BY <1>1, <2>1, <2>2, OneWritten
  <2> HIDE DEF v
  <2>4. s.fields = F
    BY <1>1, <2>3 DEF SameType
  <2>5. ASSUME NEW l \in 1..Len(F)
        PROVE  Value(s, F[l]) = IF Printed(F[l].type) /\ \E x \in 1..(q + 1) : P[x] = Body(F[l], w[l])
                                THEN Normal(F[l].type, w[l]) ELSE Value(e, F[l])
    <3>1. CASE l = k
      BY <1>4, <1>7, <2>3, <3>1 DEF v
    <3>2. CASE l # k
      <4>1. Printed(F[l].type) => P[q + 1] # Body(F[l], w[l])
        <5>1. F[l].name # F[k].name
          BY <3>2 DEF DistinctNames
        <5>2. QED
          BY <1>5, <1>7, <5>1
      <4>2. Value(s, F[l]) = Value(r, F[l])
        BY <2>3, <3>2
      <4>3. QED
        BY <1>4, <4>1, <4>2 DEF SetBy
    <3>3. QED
      BY <3>1, <3>2
  <2>6. QED
    BY <2>3, <2>4, <2>5 DEF SetBy
<1>8. QED
  BY <1>6, <1>7 DEF Sensible

\* A legible text restores every printed field, and leaves the others alone.
LEMMA TextRestores ==
    ASSUME NEW e, Sound(e), NEW w, NEW out, NEW pos, Legible(e.fields, w, out, pos), DistinctNames(e.fields),
           \A k \in 1..Len(e.fields) : Typed(e.fields[k].type, w[k]),
           NEW d, d = hk_deserialize(e, out), NEW l \in 1..Len(e.fields)
    PROVE  Value(d, e.fields[l]) = IF Printed(e.fields[l].type) THEN Normal(e.fields[l].type, w[l])
                                   ELSE Value(e, e.fields[l])
<1>1. PICK F : F = e.fields
  OBVIOUS
<1>2. PICK t : t = Cut(out, BufLen - 1)
  OBVIOUS
<1>3. PICK P : P = Tokens(t)
  OBVIOUS
<1>4. /\ F \in Seq(Field) /\ Legible(F, w, out, pos)
      /\ \A k \in 1..Len(F) : Text(w[k]) /\ Typed(F[k].type, w[k])
      /\ \A k \in 1..Len(F) : Printed(F[k].type) => F[k].name # "="
  BY <1>1 DEF Legible
<1>5. t \in Seq(Symbol)
  BY <1>2, CopyIs
<1>6. PiecesOf(P, Symbol, t)
  BY <1>3, <1>5, TokensAre
<1>7. P \in Seq(Seq(Symbol))
  BY <1>6 DEF PiecesOf
<1>8. PICK r : /\ r[0] = e
               /\ \A k \in 1..Len(P) : r[k] = Assigned(r[k - 1], P[k])
               /\ FoldLeft(Assigned, e, P) = r[Len(P)]
  BY <1>7, FoldAssigned
<1>9. d = r[Len(P)] /\ Len(P) \in Nat
  BY <1>2, <1>3, <1>7, <1>8 DEF hk_deserialize
<1>10. ASSUME NEW q \in 1..Len(P) PROVE Sensible(F, w, P[q])
  <2>1. PICK a \in Nat, b \in Nat : Piece(t, a, b) /\ P[q] = SubSeq(t, a, b)
    BY <1>6 DEF PiecesOf
  <2>2. CASE a <= b
    <3>1. \E k \in 1..Len(F) : Printed(F[k].type) /\ SubSeq(t, a, b) = Body(F[k], w[k])
      BY ONLY a \in Nat, b \in Nat, <1>2, <1>4, <2>1, <2>2, PieceIsPart
    <3>2. QED
      BY <2>1, <3>1 DEF Sensible
  <2>3. CASE ~(a <= b)
    <3>1. SubSeq(t, a, b) = <<>>
      BY <1>5, <2>3
    <3>2. QED
      BY <2>1, <3>1 DEF Sensible
  <2>4. QED
    BY <2>2, <2>3
<1> DEFINE K == {q \in 0..Len(P) : SetBy(F, w, P, q, e, r[q])}
<1>11. 0 \in K
  <2>1. \A x \in 1..0 : FALSE
    OBVIOUS
  <2>2. SetBy(F, w, P, 0, e, r[0])
    BY <1>1, <1>8, <2>1 DEF SetBy
  <2>3. QED
    BY <1>9, <2>2
<1>12. ASSUME NEW q \in 0..(Len(P) - 1), q \in K PROVE q + 1 \in K
  <2>1. q + 1 \in 1..Len(P) /\ q + 1 \in 0..Len(P) /\ (q + 1) - 1 = q /\ q \in Nat
    BY <1>9
  <2>2. r[q + 1] = Assigned(r[q], P[q + 1])
    BY <1>8, <2>1
  <2>3. Sensible(F, w, P[q + 1])
    BY <1>10, <2>1
  <2>4. SetBy(F, w, P, q, e, r[q])
    BY <1>12
  <2>5. SetBy(F, w, P, q + 1, e, r[q + 1])
    BY <1>1, <1>4, <2>1, <2>2, <2>3, <2>4, SetByNext
  <2>6. QED
    BY <2>1, <2>5
<1> HIDE DEF K
<1>13. SetBy(F, w, P, Len(P), e, d)
  <2>1. \A q \in 0..Len(P) : q \in K
    BY <1>9, <1>11, <1>12, UpTo
  <2>2. Len(P) \in K
    BY <1>9, <2>1
  <2>3. QED
    BY <1>9, <2>2 DEF K
<1>14. Printed(F[l].type) => \E q \in 1..Len(P) : P[q] = Body(F[l], w[l])
  <2> SUFFICES ASSUME Printed(F[l].type), NEW b, b = Body(F[l], w[l])
               PROVE  \E q \in 1..Len(P) : P[q] = b
    OBVIOUS
  <2>1. l \in 1..Len(F)
    BY <1>1
  <2>2. Piece(t, pos[l] + 1, pos[l] + Len(b)) /\ SubSeq(t, pos[l] + 1, pos[l] + Len(b)) = b
    BY <1>2, <1>4, <2>1, PartPiece
  <2>3. Len(b) \in Nat /\ pos[l] \in Nat
    BY <1>4, <2>1, PartStands
  <2>4. pos[l] + 1 \in Nat /\ pos[l] + Len(b) \in Nat
    BY <2>3
  <2>5. PICK x \in Nat, y \in Nat : x = pos[l] + 1 /\ y = pos[l] + Len(b)
    BY <2>4
  <2>6. \E q \in 1..Len(P) : P[q] = SubSeq(t, x, y)
    BY <1>6, <2>2, <2>5 DEF PiecesOf
  <2>7. QED
    BY <2>2, <2>5, <2>6
<1>15. QED
  BY <1>1, <1>13, <1>14 DEF SetBy

=============================================================================
