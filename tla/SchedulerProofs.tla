-------------------------- MODULE SchedulerProofs --------------------------
(***************************************************************************)
(* Theorems about Scheduler, for every number of threads, plugins, timers  *)
(* and clock values: the types, the ownership of timer blocks, the order   *)
(* of the list, that a sleeping thread misses no insertion, that one-shot  *)
(* timers fire once, and what a step may never do to the other timers.     *)
(***************************************************************************)
EXTENDS Scheduler, TLAPS

-----------------------------------------------------------------------------
(* Sequences: the operators the list is built from, element by element, as *)
(* the SMT backend can use them.                                           *)

\* The elements of a concatenation.
LEMMA ConcatIs ==
    ASSUME NEW S, NEW a \in Seq(S), NEW b \in Seq(S)
    PROVE  /\ a \o b \in Seq(S)
           /\ Len(a \o b) = Len(a) + Len(b)
           /\ \A i \in 1..(Len(a) + Len(b)) :
                (a \o b)[i] = IF i <= Len(a) THEN a[i] ELSE b[i - Len(a)]
  OBVIOUS

\* InsertAt(s, j, e) puts e behind the first j - 1 elements: what linking a
\* node into a list does.
LEMMA InsertAtIs ==
    ASSUME NEW S, NEW s \in Seq(S), NEW j \in 1..(Len(s) + 1), NEW e \in S
    PROVE  /\ InsertAt(s, j, e) \in Seq(S)
           /\ Len(InsertAt(s, j, e)) = Len(s) + 1
           /\ \A i \in 1..(j - 1) : InsertAt(s, j, e)[i] = s[i]
           /\ InsertAt(s, j, e)[j] = e
           /\ \A i \in (j + 1)..(Len(s) + 1) : InsertAt(s, j, e)[i] = s[i - 1]
<1> DEFINE a == SubSeq(s, 1, j - 1)
           b == SubSeq(s, j, Len(s))
           c == a \o <<e>>
<1>1. a \in Seq(S) /\ Len(a) = j - 1 /\ \A i \in 1..(j - 1) : a[i] = s[i]
  OBVIOUS
<1>2. /\ b \in Seq(S)
      /\ Len(b) = Len(s) + 1 - j
      /\ \A i \in 1..(Len(s) + 1 - j) : b[i] = s[j - 1 + i]
  OBVIOUS
<1>3. InsertAt(s, j, e) = c \o b
  BY DEF InsertAt
<1> HIDE DEF a, b
<1>4. /\ c \in Seq(S)
      /\ Len(c) = j
      /\ \A i \in 1..j : c[i] = IF i < j THEN a[i] ELSE e
  BY <1>1
<1> HIDE DEF c
<1>5. /\ c \o b \in Seq(S)
      /\ Len(c \o b) = Len(c) + Len(b)
      /\ \A i \in 1..(Len(c) + Len(b)) :
            (c \o b)[i] = IF i <= Len(c) THEN c[i] ELSE b[i - Len(c)]
  BY <1>2, <1>4, ConcatIs
<1>6. Len(c) + Len(b) = Len(s) + 1
  BY <1>2, <1>4
<1>7. \A i \in 1..(j - 1) : (c \o b)[i] = s[i]
  BY <1>1, <1>4, <1>5, <1>6
<1>8. (c \o b)[j] = e
  BY <1>4, <1>5, <1>6
<1>9. ASSUME NEW i \in (j + 1)..(Len(s) + 1)
      PROVE  (c \o b)[i] = s[i - 1]
  <2>1. i - j \in 1..(Len(s) + 1 - j) /\ j - 1 + (i - j) = i - 1
    OBVIOUS
  <2>2. (c \o b)[i] = b[i - j]
    BY <1>4, <1>5, <1>6
  <2>3. QED
    BY <2>1, <2>2, <1>2
<1>10. QED
  BY <1>3, <1>5, <1>6, <1>7, <1>8, <1>9

\* RemoveAt(s, k) drops the k-th element: what unlinking a list node does.
LEMMA RemoveAtIs ==
    ASSUME NEW S, NEW s \in Seq(S), NEW k \in 1..Len(s)
    PROVE  /\ RemoveAt(s, k) \in Seq(S)
           /\ Len(RemoveAt(s, k)) = Len(s) - 1
           /\ \A i \in 1..(k - 1) : RemoveAt(s, k)[i] = s[i]
           /\ \A i \in k..(Len(s) - 1) : RemoveAt(s, k)[i] = s[i + 1]
<1> DEFINE a == SubSeq(s, 1, k - 1)
           b == SubSeq(s, k + 1, Len(s))
<1>1. a \in Seq(S) /\ Len(a) = k - 1 /\ \A i \in 1..(k - 1) : a[i] = s[i]
  OBVIOUS
<1>2. b \in Seq(S) /\ Len(b) = Len(s) - k /\ \A i \in 1..(Len(s) - k) : b[i] = s[k + i]
  OBVIOUS
<1>3. RemoveAt(s, k) = a \o b
  BY DEF RemoveAt
<1> HIDE DEF a, b
<1>4. /\ a \o b \in Seq(S)
      /\ Len(a \o b) = Len(a) + Len(b)
      /\ \A i \in 1..(Len(a) + Len(b)) :
            (a \o b)[i] = IF i <= Len(a) THEN a[i] ELSE b[i - Len(a)]
  BY <1>1, <1>2, ConcatIs
<1>5. Len(a) + Len(b) = Len(s) - 1
  BY <1>1, <1>2
<1>6. \A i \in 1..(k - 1) : (a \o b)[i] = s[i]
  BY <1>1, <1>4, <1>5
<1>7. ASSUME NEW i \in k..(Len(s) - 1)
      PROVE  (a \o b)[i] = s[i + 1]
  <2>1. i - (k - 1) \in 1..(Len(s) - k) /\ k + (i - (k - 1)) = i + 1
    OBVIOUS
  <2>2. (a \o b)[i] = b[i - (k - 1)]
    BY <1>1, <1>4, <1>5
  <2>3. QED
    BY <2>1, <2>2, <1>2
<1>8. QED
  BY <1>3, <1>4, <1>5, <1>6, <1>7

-----------------------------------------------------------------------------
(* Linking and unlinking.                                                  *)

\* insert_timer keeps a list free of duplicates, adds the new block and
\* nothing else, and keeps the list sorted.
LEMMA InsertKeeps ==
    ASSUME NEW s \in Seq(Timers), NEW o \in Timers, NEW tm \in [Timers -> TimerRec],
           NEW k \in 0..Len(s),
           Slot(s, tm, tm[o].due, k), ~In(s, o), Distinct(s), SortedBy(s, tm),
           NEW r, r = InsertAt(s, k + 1, o)
    PROVE  /\ r \in Seq(Timers)
           /\ Len(r) = Len(s) + 1
           /\ Distinct(r)
           /\ \A x \in Timers : In(r, x) <=> In(s, x) \/ x = o
           /\ SortedBy(r, tm)
           /\ r[1] = o \/ (s # <<>> /\ r[1] = s[1])
<1> DEFINE src(i) == IF i <= k THEN i ELSE i - 1
<1>1. /\ r \in Seq(Timers)
      /\ Len(r) = Len(s) + 1
      /\ r[k + 1] = o
      /\ \A i \in 1..k : r[i] = s[i]
      /\ \A i \in (k + 2)..(Len(s) + 1) : r[i] = s[i - 1]
  <2> DEFINE j == k + 1
  <2>1. j \in 1..(Len(s) + 1)
    OBVIOUS
  <2>2. r = InsertAt(s, j, o)
    OBVIOUS
  <2> HIDE DEF j
  <2>3. InsertAt(s, j, o) \in Seq(Timers)
    BY <2>1, InsertAtIs
  <2>4. Len(InsertAt(s, j, o)) = Len(s) + 1
    BY <2>1, InsertAtIs
  <2>5. \A i \in 1..(j - 1) : InsertAt(s, j, o)[i] = s[i]
    BY <2>1, InsertAtIs
  <2>6. InsertAt(s, j, o)[j] = o
    BY <2>1, InsertAtIs
  <2>7. \A i \in (j + 1)..(Len(s) + 1) : InsertAt(s, j, o)[i] = s[i - 1]
    BY <2>1, InsertAtIs
  <2>8. QED
    BY <2>1, <2>2, <2>3, <2>4, <2>5, <2>6, <2>7 DEF j
<1>a. \A i \in 1..Len(r) : i # k + 1 => src(i) \in 1..Len(s) /\ r[i] = s[src(i)]
  BY <1>1
<1>b. \A i, j \in 1..Len(r) : i # k + 1 /\ j # k + 1 /\ src(i) = src(j) => i = j
  BY <1>1
<1>2. Distinct(r)
  <2>1. SUFFICES ASSUME NEW i \in 1..Len(r), NEW j \in 1..Len(r), r[i] = r[j]
                 PROVE  i = j
    BY DEF Distinct
  <2>2. CASE i = k + 1 /\ j = k + 1
    BY <2>2
  <2>3. CASE i = k + 1 /\ j # k + 1
    BY <2>1, <2>3, <1>1, <1>a DEF In
  <2>4. CASE i # k + 1 /\ j = k + 1
    BY <2>1, <2>4, <1>1, <1>a DEF In
  <2>5. CASE i # k + 1 /\ j # k + 1
    <3>1. s[src(i)] = s[src(j)] /\ src(i) \in 1..Len(s) /\ src(j) \in 1..Len(s)
      BY <2>1, <2>5, <1>a
    <3>2. src(i) = src(j)
      BY <3>1 DEF Distinct
    <3>3. QED
      BY <2>5, <3>2, <1>b
  <2>6. QED
    BY <2>2, <2>3, <2>4, <2>5
<1>3. \A x \in Timers : In(r, x) <=> In(s, x) \/ x = o
  <2>1. ASSUME NEW x \in Timers, In(r, x) PROVE In(s, x) \/ x = o
    <3>1. PICK i \in 1..Len(r) : r[i] = x
      BY <2>1 DEF In
    <3>2. CASE i = k + 1
      BY <1>1, <3>1, <3>2
    <3>3. CASE i # k + 1
      <4>1. src(i) \in 1..Len(s) /\ s[src(i)] = x
        BY <1>a, <3>1, <3>3
      <4>2. QED
        BY <4>1 DEF In
    <3>4. QED
      BY <3>2, <3>3
  <2>2. In(r, o)
    <3>1. k + 1 \in 1..Len(r) /\ r[k + 1] = o
      BY <1>1
    <3>2. QED
      BY <3>1 DEF In
  <2>3. ASSUME NEW x \in Timers, In(s, x) PROVE In(r, x)
    <3>1. PICK i \in 1..Len(s) : s[i] = x
      BY <2>3 DEF In
    <3>2. CASE i <= k
      BY <1>1, <3>1, <3>2 DEF In
    <3>3. CASE i > k
      <4>1. i + 1 \in 1..(Len(s) + 1) /\ r[i + 1] = s[i]
        BY <1>1, <3>3
      <4>2. QED
        BY <1>1, <3>1, <4>1 DEF In
    <3>4. QED
      BY <3>2, <3>3
  <2>4. QED
    BY <2>1, <2>2, <2>3
<1>4. SortedBy(r, tm)
  <2>0. \A x \in Timers : tm[x].due \in Nat
    BY SchedulerAssumption DEF TimerRec
  <2>1. SUFFICES ASSUME NEW i \in 1..Len(r), NEW j \in 1..Len(r), i < j
                 PROVE  tm[r[i]].due <= tm[r[j]].due
    BY DEF SortedBy
  <2>2. \A m \in 1..Len(s) : s[m] \in Timers
    OBVIOUS
  <2>3. \A m \in 1..Len(s) : m <= k => tm[s[m]].due <= tm[o].due
    BY DEF Slot
  <2>4. \A m \in 1..Len(s) : m > k => tm[o].due < tm[s[m]].due
    <3>1. SUFFICES ASSUME NEW m \in 1..Len(s), m > k PROVE tm[o].due < tm[s[m]].due
      OBVIOUS
    <3>2. k < Len(s) /\ k + 1 \in 1..Len(s)
      BY <3>1
    <3>3. tm[o].due < tm[s[k + 1]].due
      BY <3>2 DEF Slot
    <3>4. tm[s[k + 1]].due <= tm[s[m]].due
      BY <3>1, <3>2, <2>0, <2>2 DEF SortedBy
    <3>5. QED
      BY <3>2, <3>3, <3>4, <2>0, <2>2
  <2>5. CASE i <= k /\ j <= k
    <3>1. r[i] = s[i] /\ r[j] = s[j] /\ i \in 1..Len(s) /\ j \in 1..Len(s)
      BY <2>5, <1>1
    <3>2. QED
      BY <2>1, <3>1 DEF SortedBy
  <2>6. CASE i <= k /\ j = k + 1
    BY <2>6, <1>1, <2>3
  <2>7. CASE i <= k /\ j > k + 1
    <3>1. i \in 1..Len(s) /\ j - 1 \in 1..Len(s) /\ i < j - 1
      BY <2>7, <1>1
    <3>2. r[i] = s[i] /\ r[j] = s[j - 1]
      BY <2>7, <1>1
    <3>3. QED
      BY <3>1, <3>2 DEF SortedBy
  <2>8. CASE i = k + 1
    <3>1. j - 1 \in 1..Len(s) /\ j - 1 > k /\ r[i] = o /\ r[j] = s[j - 1]
      BY <2>1, <2>8, <1>1
    <3>2. tm[o].due < tm[s[j - 1]].due
      BY <3>1, <2>4
    <3>3. tm[o].due \in Nat /\ tm[s[j - 1]].due \in Nat
      BY <3>1, <2>0, <2>2
    <3>4. tm[o].due <= tm[s[j - 1]].due
      BY <3>2, <3>3
    <3>5. QED
      BY <3>1, <3>4
  <2>9. CASE i > k + 1
    <3>1. i - 1 \in 1..Len(s) /\ j - 1 \in 1..Len(s) /\ i - 1 < j - 1
      BY <2>1, <2>9, <1>1
    <3>2. r[i] = s[i - 1]
      BY <2>9, <1>1
    <3>3. r[j] = s[j - 1]
      BY <2>1, <2>9, <1>1
    <3>4. tm[s[i - 1]].due <= tm[s[j - 1]].due
      BY <3>1 DEF SortedBy
    <3>5. QED
      BY <3>2, <3>3, <3>4
  <2>10. QED
    BY <2>1, <2>5, <2>6, <2>7, <2>8, <2>9, <1>1
<1>5. r[1] = o \/ (s # <<>> /\ r[1] = s[1])
  BY <1>1
<1>6. QED
  BY <1>1, <1>2, <1>3, <1>4, <1>5

\* Unlinking the k-th node removes its block and nothing else, and keeps the
\* list sorted.
LEMMA RemoveKeeps ==
    ASSUME NEW s \in Seq(Timers), NEW tm \in [Timers -> TimerRec],
           NEW k \in 1..Len(s), Distinct(s), SortedBy(s, tm),
           NEW r, r = RemoveAt(s, k)
    PROVE  /\ r \in Seq(Timers)
           /\ Distinct(r)
           /\ \A x \in Timers : In(r, x) <=> In(s, x) /\ x # s[k]
           /\ SortedBy(r, tm)
           /\ r # <<>> => tm[s[1]].due <= tm[r[1]].due
<1> DEFINE src(i) == IF i < k THEN i ELSE i + 1
<1>1. /\ r \in Seq(Timers)
      /\ Len(r) = Len(s) - 1
      /\ \A i \in 1..(k - 1) : r[i] = s[i]
      /\ \A i \in k..(Len(s) - 1) : r[i] = s[i + 1]
  BY RemoveAtIs
<1>a. \A i \in 1..Len(r) : src(i) \in 1..Len(s) /\ r[i] = s[src(i)]
  BY <1>1
<1>b. \A i, j \in 1..Len(r) : (src(i) = src(j) => i = j) /\ (i < j => src(i) < src(j))
  BY <1>1
<1> HIDE DEF src
<1>2. Distinct(r)
  <2>1. SUFFICES ASSUME NEW i \in 1..Len(r), NEW j \in 1..Len(r), r[i] = r[j]
                 PROVE  i = j
    BY DEF Distinct
  <2>2. src(i) = src(j)
    BY <2>1, <1>a DEF Distinct
  <2>3. QED
    BY <2>2, <1>b
<1>3. \A x \in Timers : In(r, x) <=> In(s, x) /\ x # s[k]
  <2>1. ASSUME NEW x \in Timers, In(r, x) PROVE In(s, x) /\ x # s[k]
    BY <1>1, <2>1 DEF In, Distinct
  <2>2. ASSUME NEW x \in Timers, In(s, x), x # s[k] PROVE In(r, x)
    <3>1. PICK i \in 1..Len(s) : s[i] = x
      BY <2>2 DEF In
    <3>2. CASE i < k
      BY <1>1, <3>1, <3>2 DEF In
    <3>3. CASE i > k
      <4>1. i - 1 \in 1..(Len(s) - 1) /\ r[i - 1] = s[i]
        BY <1>1, <3>3
      <4>2. QED
        BY <1>1, <3>1, <4>1 DEF In
    <3>4. QED
      BY <2>2, <3>1, <3>2, <3>3
  <2>3. QED
    BY <2>1, <2>2
<1>4. SortedBy(r, tm)
  <2>1. SUFFICES ASSUME NEW i \in 1..Len(r), NEW j \in 1..Len(r), i < j
                 PROVE  tm[r[i]].due <= tm[r[j]].due
    BY DEF SortedBy
  <2>2. src(i) \in 1..Len(s) /\ src(j) \in 1..Len(s) /\ src(i) < src(j)
    BY <2>1, <1>a, <1>b
  <2>3. tm[s[src(i)]].due <= tm[s[src(j)]].due
    BY <2>2 DEF SortedBy
  <2>4. QED
    BY <2>3, <1>a
<1>5. r # <<>> => tm[s[1]].due <= tm[r[1]].due
  <2>1. SUFFICES ASSUME r # <<>> PROVE tm[s[1]].due <= tm[r[1]].due
    OBVIOUS
  <2>2. Len(r) >= 1 /\ 1 \in 1..Len(s)
    BY <1>1, <2>1
  <2>3. tm[s[1]].due \in Nat
    BY <2>2, SchedulerAssumption DEF TimerRec
  <2>4. CASE 1 < k
    BY <2>2, <2>3, <2>4, <1>1
  <2>5. CASE k = 1
    BY <2>2, <2>5, <1>1 DEF SortedBy
  <2>6. QED
    BY <2>4, <2>5
<1>6. QED
  BY <1>1, <1>2, <1>3, <1>4, <1>5

-----------------------------------------------------------------------------
(* The inductive invariant.                                                *)

\* A call in progress works on a real block.
CallInv == \A t \in Threads : call[t].pc # "idle" => call[t].obj \in Timers

\* The scheduler thread has a block exactly from the pop to the re-arm, and
\* exists exactly between scheduler_init and the join.
ThreadInv ==
    /\ cur # NoTimer <=> thr \in {"cb", "rearm"}
    /\ phase \in {"off", "failed"} => thr = "none"
    /\ phase \in {"free", "done"} => thr = "exit"
    /\ g_running => phase = "up"

IInv == TypeOK /\ CallInv /\ ThreadInv /\ TimerOwnership /\ Sorted /\ NoMissedWakeup

\* The initial state satisfies it.
LEMMA InitIInv == Init => IInv
<1> SUFFICES ASSUME Init PROVE IInv
  OBVIOUS
<1> USE SchedulerAssumption DEF Init, Timers, Threads, NoTimer, Idle
<1>1. Blank \in TimerRec
  BY DEF Blank, TimerRec
<1>2. TypeOK
  <2>1. timer \in [Timers -> TimerRec]
    BY <1>1
  <2>2. call \in [Threads -> [pc : {"idle", "store", "insert", "return"},
                             obj : Timers \cup {NoTimer}, ms : Nat]]
    OBVIOUS
  <2>3. heap \in [Timers -> {"unused", "live", "freed"}] /\ g_timers \in Seq(Timers)
    OBVIOUS
  <2>4. now \in 0..MaxNow /\ g_next_id \in Nat \ {0} /\ deadline \in Nat
    OBVIOUS
  <2>5. QED
    BY <2>1, <2>2, <2>3, <2>4, Zenon DEF TypeOK
<1>3. CallInv /\ ThreadInv /\ NoMissedWakeup
  BY DEF CallInv, ThreadInv, NoMissedWakeup
<1>4. TimerOwnership /\ Sorted
  BY DEF TimerOwnership, OneHolder, HeldIffLive, Distinct, Linked, In, Private,
         Sorted, SortedBy
<1>5. QED
  BY <1>2, <1>3, <1>4 DEF IInv

\* What a step that leaves the list, the blocks and the calls alone keeps.
LEMMA ListUntouched ==
    ASSUME TimerOwnership, Sorted, CallInv, UNCHANGED <<g_timers, timer, heap, cur, call>>
    PROVE  TimerOwnership' /\ Sorted' /\ CallInv'
  BY DEF TimerOwnership, OneHolder, HeldIffLive, Distinct, Linked, In, Private,
         Sorted, SortedBy, CallInv

\* The scheduler thread's own steps that only move its control point.
LEMMA GotoKeeps ==
    ASSUME IInv, SchedExit \/ SchedWait \/ SchedTimedWait \/ WakeTimeout \/ WakeSpurious
                 \/ CbReturn \/ CbCrash
    PROVE  IInv'
<1> USE SchedulerAssumption DEF IInv, Goto, service
<1>1. UNCHANGED <<now, g_timers, g_next_id, timer, heap, cur, g_running, phase, call, last>>
  BY DEF SchedExit, SchedWait, SchedTimedWait, WakeTimeout, WakeSpurious, CbReturn,
         CbCrash, blocks
<1>2. TimerOwnership' /\ Sorted' /\ CallInv'
  BY <1>1, ListUntouched
<1>3. ThreadInv'
  BY <1>1 DEF ThreadInv, SchedExit, SchedWait, SchedTimedWait, WakeTimeout, WakeSpurious,
              CbReturn, CbCrash
<1>4. CASE SchedExit \/ SchedWait \/ WakeTimeout \/ WakeSpurious \/ CbReturn
  <2>1. TypeOK'
    BY <1>1, <1>4 DEF TypeOK, SchedExit, SchedWait, WakeTimeout, WakeSpurious, CbReturn
  <2>2. NoMissedWakeup'
    BY <1>1, <1>4 DEF NoMissedWakeup, SchedExit, SchedWait, WakeTimeout, WakeSpurious, CbReturn
  <2>3. QED
    BY <2>1, <2>2, <1>2, <1>3
<1>5. CASE SchedTimedWait
  <2>1. g_timers[1] \in Timers /\ timer[g_timers[1]].due \in Nat
    BY <1>5 DEF TypeOK, SchedTimedWait, TimerRec
  <2>2. PICK late \in 0..Slip : deadline' = timer[g_timers[1]].due + late
    BY <1>5 DEF SchedTimedWait
  <2>3. TypeOK'
    BY <1>1, <1>5, <2>1, <2>2 DEF TypeOK, SchedTimedWait
  <2>4. NoMissedWakeup'
    BY <1>1, <1>5, <2>1, <2>2 DEF NoMissedWakeup, SchedTimedWait
  <2>5. QED
    BY <2>3, <2>4, <1>2, <1>3
<1>6. CASE CbCrash
  <2>1. cur \in Timers
    BY <1>6 DEF CbCrash, ThreadInv, TypeOK
  <2>2. TypeOK'
    BY <1>1, <1>6, <2>1 DEF TypeOK, CbCrash, TimerRec
  <2>3. NoMissedWakeup'
    BY <1>1, <1>6 DEF NoMissedWakeup, CbCrash
  <2>4. QED
    BY <2>2, <2>3, <1>2, <1>3
<1>7. QED
  BY <1>4, <1>5, <1>6

\* Due times are natural numbers.
LEMMA DueNat == TypeOK => \A x \in Timers : timer[x].due \in Nat
  BY SchedulerAssumption DEF TypeOK, TimerRec

\* Setting a due time keeps the types and touches one block only.
LEMMA DueInIs ==
    ASSUME TypeOK, NEW o \in Timers, NEW ms \in Nat
    PROVE  /\ DueIn(o, ms) \in [Timers -> TimerRec]
           /\ \A x \in Timers : x # o => DueIn(o, ms)[x] = timer[x]
<1> DEFINE r == [timer[o] EXCEPT !.due = (now + ms) % TimeMod]
<1>1. now + ms \in Nat /\ (now + ms) % TimeMod \in 0..(TimeMod - 1)
  BY SchedulerAssumption DEF TypeOK
<1>2. timer[o] \in TimerRec
  BY DEF TypeOK
<1>3. r \in TimerRec
  BY <1>1, <1>2 DEF TimerRec
<1>4. DueIn(o, ms) = [timer EXCEPT ![o] = r]
  BY DEF DueIn
<1> HIDE DEF r
<1>5. QED
  BY <1>3, <1>4 DEF TypeOK

\* The steps of after_ms/every_ms outside the critical section, and cancel.
LEMMA AddKeeps ==
    ASSUME IInv, NEW t \in Threads, NEW p \in Plugins, NEW ms \in Delays, NEW rep \in BOOLEAN,
           AddLoad(t, p, ms, rep)
    PROVE  IInv'
<1> USE SchedulerAssumption DEF IInv
<1>1. PICK o \in Timers :
        /\ heap[o] = "unused"
        /\ heap' = [heap EXCEPT ![o] = "live"]
        /\ timer' = [timer EXCEPT ![o] =
               [Blank EXCEPT !.id = g_next_id, !.plugin = p, !.repeating = rep,
                             !.interval = IF rep THEN ms ELSE 0]]
        /\ call' = [call EXCEPT ![t] = [pc |-> "store", obj |-> o, ms |-> ms]]
  BY DEF AddLoad
<1>2. /\ call[t].pc = "idle"
      /\ UNCHANGED <<now, g_timers, g_next_id, thr, cur, deadline, g_running, phase, errlog, last>>
  BY DEF AddLoad, CanCall, thread, service, outcomes
<1>3. ~Linked(o) /\ o # cur /\ \A u \in Threads : ~Private(u, o)
  BY <1>1 DEF TimerOwnership, HeldIffLive
<1>4. TypeOK'
  <2>1. Blank \in TimerRec
    BY DEF Blank, TimerRec
  <2>2. timer' \in [Timers -> TimerRec]
    BY <1>1, <2>1 DEF TypeOK, TimerRec
  <2>3. call' \in [Threads -> [pc : {"idle", "store", "insert", "return"},
                              obj : Timers \cup {NoTimer}, ms : Nat]]
    BY <1>1 DEF TypeOK
  <2>4. QED
    BY <1>1, <1>2, <2>2, <2>3 DEF TypeOK
<1>5. CallInv' /\ ThreadInv'
  BY <1>1, <1>2 DEF CallInv, ThreadInv, TypeOK
<1>6. \A i \in 1..Len(g_timers) : g_timers[i] \in Timers /\ timer'[g_timers[i]] = timer[g_timers[i]]
  BY <1>1, <1>3 DEF TypeOK, Linked, In
<1>7. Sorted' /\ NoMissedWakeup'
  <2>1. Sorted'
    BY <1>2, <1>6 DEF Sorted, SortedBy
  <2>2. g_timers # <<>> => 1 \in 1..Len(g_timers)
    BY DEF TypeOK
  <2>3. NoMissedWakeup'
    BY <1>2, <1>6, <2>2 DEF NoMissedWakeup
  <2>4. QED
    BY <2>1, <2>3
<1>8. \A x \in Timers, u \in Threads :
         Private(u, x)' <=> IF u = t THEN x = o ELSE Private(u, x)
  BY <1>1, <1>2 DEF Private, TypeOK
<1>9. \A x \in Timers : Linked(x)' <=> Linked(x)
  BY <1>2 DEF Linked, In
<1>10. \A x \in Timers : ~Private(t, x)
  BY <1>2 DEF Private
<1>11. OneHolder'
  <2>1. Distinct(g_timers)'
    BY <1>2 DEF TimerOwnership, OneHolder, Distinct
  <2>2. QED
    BY <1>2, <1>3, <1>8, <1>9, <1>10, <2>1 DEF TimerOwnership, OneHolder
<1>12. HeldIffLive'
  BY <1>1, <1>2, <1>3, <1>8, <1>9, <1>10 DEF TimerOwnership, HeldIffLive, TypeOK
<1>13. QED
  BY <1>4, <1>5, <1>7, <1>11, <1>12 DEF TimerOwnership

\* Storing the counter and the due time of a block that only its caller holds.
LEMMA StoreKeeps ==
    ASSUME IInv, NEW t \in Threads, AddStore(t)
    PROVE  IInv'
<1> USE SchedulerAssumption DEF IInv
<1> DEFINE o == call[t].obj
<1>1. /\ call[t].pc = "store"
      /\ g_next_id' = timer[o].id + 1
      /\ timer' = DueIn(o, call[t].ms)
      /\ call' = [call EXCEPT ![t].pc = "insert"]
      /\ UNCHANGED <<now, g_timers, heap, thr, cur, deadline, g_running, phase, errlog, last>>
  BY DEF AddStore, thread, service, outcomes
<1>2. o \in Timers /\ Private(t, o)
  BY <1>1 DEF CallInv, Private
<1>a. call[t].ms \in Nat
  BY DEF TypeOK
<1> HIDE DEF o
<1>3. ~Linked(o)
  BY <1>2 DEF TimerOwnership, OneHolder
<1>4. TypeOK'
  <2>3. timer' \in [Timers -> TimerRec]
    BY <1>1, <1>2, <1>a, DueInIs
  <2>4. call' \in [Threads -> [pc : {"idle", "store", "insert", "return"},
                              obj : Timers \cup {NoTimer}, ms : Nat]]
    BY <1>1 DEF TypeOK
  <2>5. g_next_id' \in Nat \ {0}
    <3>1. timer[o] \in TimerRec
      BY <1>2 DEF TypeOK
    <3>2. timer[o].id \in Nat
      BY <3>1 DEF TimerRec
    <3>3. QED
      BY <1>1, <3>2
  <2>6. QED
    BY <1>1, <2>3, <2>4, <2>5 DEF TypeOK
<1>5. CallInv' /\ ThreadInv'
  BY <1>1, <1>2 DEF CallInv, ThreadInv, TypeOK
<1>6. \A i \in 1..Len(g_timers) : g_timers[i] \in Timers /\ timer'[g_timers[i]] = timer[g_timers[i]]
  <2>1. \A x \in Timers : x # o => timer'[x] = timer[x]
    BY <1>1, <1>2, <1>a, DueInIs
  <2>2. QED
    BY <2>1, <1>3 DEF TypeOK, Linked, In
<1>7. Sorted' /\ NoMissedWakeup'
  <2>0. g_timers' = g_timers
    BY <1>1
  <2>1. Sorted'
    BY <2>0, <1>6 DEF Sorted, SortedBy
  <2>2. g_timers # <<>> => 1 \in 1..Len(g_timers)
    BY DEF TypeOK
  <2>3. NoMissedWakeup'
    BY <1>1, <1>6, <2>2 DEF NoMissedWakeup
  <2>4. QED
    BY <2>1, <2>3
<1>8. \A x \in Timers, u \in Threads : Private(u, x)' <=> Private(u, x)
  BY <1>1 DEF Private, TypeOK
<1>9. \A x \in Timers : Linked(x)' <=> Linked(x)
  BY <1>1 DEF Linked, In
<1>10. Distinct(g_timers)'
  BY <1>1 DEF TimerOwnership, OneHolder, Distinct
<1>11. TimerOwnership'
  BY <1>1, <1>8, <1>9, <1>10 DEF TimerOwnership, OneHolder, HeldIffLive
<1>12. QED
  BY <1>4, <1>5, <1>7, <1>11

\* The critical section of after_ms/every_ms: the block passes from the caller
\* to the list, and the broadcast leaves no stale deadline behind.
LEMMA InsertStepKeeps ==
    ASSUME IInv, NEW t \in Threads, AddInsert(t)
    PROVE  IInv'
<1> USE SchedulerAssumption DEF IInv
<1> DEFINE o == call[t].obj
<1>1. /\ call[t].pc = "insert"
      /\ thr' = Woken
      /\ call' = [call EXCEPT ![t].pc = "return"]
      /\ UNCHANGED <<now, g_next_id, timer, heap, cur, deadline, g_running, phase, errlog, last>>
  BY DEF AddInsert, blocks, service, outcomes
<1>2. PICK k \in 0..Len(g_timers) :
        /\ Slot(g_timers, timer, timer[o].due, k)
        /\ g_timers' = InsertAt(g_timers, k + 1, o)
  BY DEF AddInsert, insert_timer
<1>3. o \in Timers /\ Private(t, o)
  BY <1>1 DEF CallInv, Private
<1> HIDE DEF o
<1>4. ~In(g_timers, o) /\ o # cur
  BY <1>3 DEF TimerOwnership, OneHolder, Linked
<1>5. /\ g_timers' \in Seq(Timers)
      /\ Distinct(g_timers')
      /\ \A x \in Timers : In(g_timers', x) <=> In(g_timers, x) \/ x = o
      /\ SortedBy(g_timers', timer)
  <2>1. g_timers \in Seq(Timers) /\ timer \in [Timers -> TimerRec]
    BY DEF TypeOK
  <2>2. Distinct(g_timers) /\ SortedBy(g_timers, timer)
    BY DEF TimerOwnership, OneHolder, Sorted
  <2>3. QED
    BY <1>2, <1>3, <1>4, <2>1, <2>2, InsertKeeps
<1>6. TypeOK'
  BY <1>1, <1>5 DEF TypeOK, Woken
<1>7. CallInv' /\ ThreadInv'
  BY <1>1 DEF CallInv, ThreadInv, TypeOK, Woken
<1>8. Sorted' /\ NoMissedWakeup'
  BY <1>1, <1>5 DEF Sorted, NoMissedWakeup, Woken, SortedBy
<1>9. \A x \in Timers, u \in Threads : Private(u, x)' <=> Private(u, x) /\ u # t
  BY <1>1 DEF Private, TypeOK
<1>10. \A x \in Timers : Private(t, x) => x = o
  BY DEF Private, o
<1>11. \A x \in Timers : Linked(x)' <=> Linked(x) \/ x = o
  BY <1>5 DEF Linked
<1>12. OneHolder'
  <2>1. Distinct(g_timers)'
    BY <1>5 DEF Distinct
  <2>2. \A u \in Threads : u # t => ~Private(u, o)
    BY <1>3 DEF TimerOwnership, OneHolder
  <2>3. QED
    BY <1>1, <1>4, <1>9, <1>11, <2>1, <2>2 DEF TimerOwnership, OneHolder
<1>13. HeldIffLive'
  BY <1>1, <1>3, <1>9, <1>10, <1>11 DEF TimerOwnership, HeldIffLive
<1>14. QED
  BY <1>6, <1>7, <1>8, <1>12, <1>13 DEF TimerOwnership

\* Returning from a call, or answering a cancel that found nothing.
LEMMA AnswerKeeps ==
    ASSUME IInv, NEW t \in Threads, NEW p \in Plugins, NEW id \in Nat,
           AddFails(t, p) \/ AddReturn(t) \/ CancelMissed(t, p, id)
    PROVE  IInv'
<1> USE SchedulerAssumption DEF IInv
<1>1. UNCHANGED <<now, g_timers, g_next_id, timer, heap, thr, cur, deadline, g_running, phase, errlog>>
  BY DEF AddFails, AddReturn, CancelMissed, blocks, thread, service
<1>2. \/ UNCHANGED call
      \/ call[t].pc = "return" /\ call' = [call EXCEPT ![t] = Idle]
  BY DEF AddFails, AddReturn, CancelMissed
<1>3. TypeOK' /\ CallInv'
  <2>1. call' \in [Threads -> [pc : {"idle", "store", "insert", "return"},
                              obj : Timers \cup {NoTimer}, ms : Nat]]
    BY <1>2 DEF TypeOK, Idle
  <2>2. TypeOK'
    BY <1>1, <2>1 DEF TypeOK
  <2>3. CallInv'
    BY <1>2 DEF TypeOK, CallInv, Idle
  <2>4. QED
    BY <2>2, <2>3
<1>4. ThreadInv' /\ NoMissedWakeup' /\ Sorted'
  BY <1>1 DEF ThreadInv, NoMissedWakeup, Sorted, SortedBy
<1>5. \A x \in Timers, u \in Threads : Private(u, x)' <=> Private(u, x)
  BY <1>2 DEF Private, TypeOK, Idle
<1>6. \A x \in Timers : Linked(x)' <=> Linked(x)
  BY <1>1 DEF Linked, In
<1>7. Distinct(g_timers)'
  BY <1>1 DEF TimerOwnership, OneHolder, Distinct
<1>8. TimerOwnership'
  BY <1>1, <1>5, <1>6, <1>7 DEF TimerOwnership, OneHolder, HeldIffLive
<1>9. QED
  BY <1>3, <1>4, <1>8

\* scheduler_cancel unlinks and frees one block of the list.
LEMMA CancelKeeps ==
    ASSUME IInv, NEW t \in Threads, NEW p \in Plugins, NEW id \in Nat, CancelFound(t, p, id)
    PROVE  IInv'
<1> USE SchedulerAssumption DEF IInv
<1>1. PICK k \in 1..Len(g_timers) :
        /\ g_timers' = RemoveAt(g_timers, k)
        /\ heap' = [heap EXCEPT ![g_timers[k]] = "freed"]
  BY DEF CancelFound, Unlinked
<1>2. UNCHANGED <<now, timer, g_next_id, thr, cur, deadline, g_running, phase, call, errlog>>
  BY DEF CancelFound, thread, service
<1> DEFINE o == g_timers[k]
<1>3. o \in Timers /\ Linked(o)
  BY DEF TypeOK, Linked, In
<1>4. /\ g_timers' \in Seq(Timers)
      /\ Distinct(g_timers')
      /\ \A x \in Timers : In(g_timers', x) <=> In(g_timers, x) /\ x # o
      /\ SortedBy(g_timers', timer)
      /\ g_timers' # <<>> => timer[g_timers[1]].due <= timer[g_timers'[1]].due
  <2>1. g_timers \in Seq(Timers) /\ timer \in [Timers -> TimerRec]
    BY DEF TypeOK
  <2>2. Distinct(g_timers) /\ SortedBy(g_timers, timer)
    BY DEF TimerOwnership, OneHolder, Sorted
  <2>3. QED
    BY <1>1, <2>1, <2>2, RemoveKeeps
<1>5. TypeOK' /\ CallInv' /\ ThreadInv'
  BY <1>1, <1>2, <1>3, <1>4 DEF TypeOK, CallInv, ThreadInv
<1>6. Sorted'
  BY <1>2, <1>4 DEF Sorted, SortedBy
<1>7. NoMissedWakeup'
  <2>1. g_timers # <<>>
    BY <1>1
  <2>2. SUFFICES ASSUME thr = "timedwait", g_running, g_timers' # <<>>
                 PROVE  deadline <= timer[g_timers'[1]].due + Slip
    BY <1>2, <2>1 DEF NoMissedWakeup
  <2>3. g_timers[1] \in Timers /\ g_timers'[1] \in Timers
    BY <1>4, <2>1, <2>2 DEF TypeOK
  <2>4. timer[g_timers[1]].due \in Nat /\ timer[g_timers'[1]].due \in Nat
    BY <2>3, DueNat
  <2>5. deadline <= timer[g_timers[1]].due + Slip
    BY <2>1, <2>2 DEF NoMissedWakeup
  <2>6. QED
    BY <2>2, <2>4, <2>5, <1>4 DEF TypeOK
<1> HIDE DEF o
<1>8. \A x \in Timers, u \in Threads : Private(u, x)' <=> Private(u, x)
  BY <1>2 DEF Private
<1>9. \A x \in Timers : Linked(x)' <=> Linked(x) /\ x # o
  BY <1>4 DEF Linked
<1>10. OneHolder'
  <2>1. Distinct(g_timers)'
    BY <1>4 DEF Distinct
  <2>2. QED
    BY <1>2, <1>8, <1>9, <2>1 DEF TimerOwnership, OneHolder
<1>11. HeldIffLive'
  <2>1. o # cur /\ \A u \in Threads : ~Private(u, o)
    BY <1>3 DEF TimerOwnership, OneHolder
  <2>2. heap' = [heap EXCEPT ![o] = "freed"]
    BY <1>1 DEF o
  <2>3. QED
    BY <1>2, <1>3, <1>8, <1>9, <2>1, <2>2 DEF TimerOwnership, HeldIffLive, TypeOK
<1>12. QED
  BY <1>5, <1>6, <1>7, <1>10, <1>11 DEF TimerOwnership

\* sched_thread takes the head: the block passes from the list to the thread.
LEMMA PopKeeps ==
    ASSUME IInv, SchedPop
    PROVE  IInv'
<1> USE SchedulerAssumption DEF IInv
<1> DEFINE o == g_timers[1]
<1>1. /\ thr = "loop" /\ thr' = "cb"
      /\ g_running
      /\ g_timers # <<>>
      /\ cur' = o
      /\ timer' = [timer EXCEPT ![o] = Fired(@)]
      /\ g_timers' = RemoveAt(g_timers, 1)
      /\ UNCHANGED <<now, heap, g_next_id, deadline, g_running, phase, call, errlog, last>>
  BY DEF SchedPop, service, outcomes
<1>2. 1 \in 1..Len(g_timers) /\ o \in Timers /\ Linked(o) /\ cur = NoTimer
  BY <1>1 DEF TypeOK, Linked, In, ThreadInv
<1>3. /\ g_timers' \in Seq(Timers)
      /\ Distinct(g_timers')
      /\ \A x \in Timers : In(g_timers', x) <=> In(g_timers, x) /\ x # o
      /\ SortedBy(g_timers', timer)
  <2>1. g_timers \in Seq(Timers) /\ timer \in [Timers -> TimerRec]
    BY DEF TypeOK
  <2>2. Distinct(g_timers) /\ SortedBy(g_timers, timer)
    BY DEF TimerOwnership, OneHolder, Sorted
  <2>3. QED
    BY <1>1, <1>2, <2>1, <2>2, RemoveKeeps
<1> HIDE DEF o
<1>4. timer' \in [Timers -> TimerRec] /\ \A x \in Timers : timer'[x].due = timer[x].due
  <2> DEFINE r == Fired(timer[o])
  <2>1. timer[o] \in TimerRec /\ timer \in [Timers -> TimerRec]
    BY <1>2 DEF TypeOK
  <2>2. r \in TimerRec /\ r.due = timer[o].due
    BY <2>1 DEF TimerRec, Fired
  <2>3. timer' = [timer EXCEPT ![o] = r]
    BY <1>1
  <2> HIDE DEF r
  <2>4. QED
    BY <2>1, <2>2, <2>3, <1>2
<1>5. TypeOK'
  BY <1>1, <1>2, <1>3, <1>4 DEF TypeOK
<1>6. CallInv' /\ ThreadInv' /\ NoMissedWakeup'
  BY <1>1, <1>2 DEF CallInv, ThreadInv, NoMissedWakeup, Timers, NoTimer
<1>7. Sorted'
  BY <1>3, <1>4 DEF Sorted, SortedBy
<1>8. \A x \in Timers, u \in Threads : Private(u, x)' <=> Private(u, x)
  BY <1>1 DEF Private
<1>9. \A x \in Timers : Linked(x)' <=> Linked(x) /\ x # o
  BY <1>3 DEF Linked
<1>10. OneHolder'
  <2>1. Distinct(g_timers)'
    BY <1>3 DEF Distinct
  <2>2. \A u \in Threads : ~Private(u, o)
    BY <1>2 DEF TimerOwnership, OneHolder
  <2>3. QED
    BY <1>1, <1>8, <1>9, <2>1, <2>2 DEF TimerOwnership, OneHolder
<1>11. HeldIffLive'
  BY <1>1, <1>2, <1>8, <1>9 DEF TimerOwnership, HeldIffLive, Timers, NoTimer
<1>12. QED
  BY <1>5, <1>6, <1>7, <1>10, <1>11 DEF TimerOwnership

\* A repeating timer passes from the thread back to the list, at its new place.
LEMMA RearmKeeps ==
    ASSUME IInv, Rearm
    PROVE  IInv'
<1> USE SchedulerAssumption DEF IInv
<1> DEFINE tm == DueIn(cur, timer[cur].interval)
<1>1. /\ thr = "rearm" /\ thr' = "loop"
      /\ cur' = NoTimer
      /\ timer' = tm
      /\ UNCHANGED <<now, heap, g_next_id, deadline, g_running, phase, call, errlog, last>>
  BY DEF Rearm, service, outcomes
<1>2. PICK k \in 0..Len(g_timers) :
        /\ Slot(g_timers, tm, tm[cur].due, k)
        /\ g_timers' = InsertAt(g_timers, k + 1, cur)
  BY DEF Rearm, insert_timer
<1>3. cur \in Timers
  BY <1>1 DEF ThreadInv, TypeOK
<1>4. timer[cur].interval \in Nat
  BY <1>3 DEF TypeOK, TimerRec
<1>5. tm \in [Timers -> TimerRec] /\ \A x \in Timers : x # cur => tm[x] = timer[x]
  BY <1>3, <1>4, DueInIs
<1> HIDE DEF tm
<1>6. ~In(g_timers, cur) /\ \A u \in Threads : ~Private(u, cur)
  BY <1>3 DEF TimerOwnership, OneHolder, Linked
<1>7. /\ g_timers' \in Seq(Timers)
      /\ Distinct(g_timers')
      /\ \A x \in Timers : In(g_timers', x) <=> In(g_timers, x) \/ x = cur
      /\ SortedBy(g_timers', tm)
  <2>1. g_timers \in Seq(Timers) /\ Distinct(g_timers)
    BY DEF TypeOK, TimerOwnership, OneHolder
  <2>2. \A i \in 1..Len(g_timers) : g_timers[i] \in Timers /\ tm[g_timers[i]] = timer[g_timers[i]]
    BY <2>1, <1>5, <1>6 DEF In
  <2>3. SortedBy(g_timers, tm)
    BY <2>2 DEF Sorted, SortedBy
  <2>4. QED
    BY <1>2, <1>3, <1>5, <1>6, <2>1, <2>3, InsertKeeps
<1>8. TypeOK'
  BY <1>1, <1>5, <1>7 DEF TypeOK
<1>9. CallInv' /\ ThreadInv' /\ NoMissedWakeup'
  BY <1>1 DEF CallInv, ThreadInv, NoMissedWakeup
<1>10. Sorted'
  BY <1>1, <1>7 DEF Sorted, SortedBy
<1>11. \A x \in Timers, u \in Threads : Private(u, x)' <=> Private(u, x)
  BY <1>1 DEF Private
<1>12. \A x \in Timers : Linked(x)' <=> Linked(x) \/ x = cur
  BY <1>7 DEF Linked
<1>13. \A x \in Timers : x # NoTimer
  BY DEF Timers, NoTimer
<1>14. OneHolder'
  <2>1. Distinct(g_timers)'
    BY <1>7 DEF Distinct
  <2>2. QED
    BY <1>1, <1>6, <1>11, <1>12, <1>13, <2>1 DEF TimerOwnership, OneHolder
<1>15. HeldIffLive'
  BY <1>1, <1>11, <1>12, <1>13 DEF TimerOwnership, HeldIffLive
<1>16. QED
  BY <1>8, <1>9, <1>10, <1>14, <1>15 DEF TimerOwnership

\* The timer in flight is freed; nobody else holds it.
LEMMA DisposeKeeps ==
    ASSUME IInv, Dispose
    PROVE  IInv'
<1> USE SchedulerAssumption DEF IInv
<1>1. /\ thr = "rearm" /\ thr' = "loop"
      /\ cur' = NoTimer
      /\ heap' = [heap EXCEPT ![cur] = "freed"]
      /\ UNCHANGED <<now, timer, g_timers, g_next_id, deadline, g_running, phase, call, errlog, last>>
  BY DEF Dispose, service, outcomes
<1>2. cur \in Timers
  BY <1>1 DEF ThreadInv, TypeOK
<1>3. TypeOK' /\ CallInv' /\ ThreadInv' /\ NoMissedWakeup'
  BY <1>1, <1>2 DEF TypeOK, CallInv, ThreadInv, NoMissedWakeup
<1>4. Sorted'
  BY <1>1 DEF Sorted, SortedBy
<1>5. \A x \in Timers, u \in Threads : Private(u, x)' <=> Private(u, x)
  BY <1>1 DEF Private
<1>6. \A x \in Timers : Linked(x)' <=> Linked(x)
  BY <1>1 DEF Linked, In
<1>7. \A x \in Timers : x # NoTimer
  BY DEF Timers, NoTimer
<1>8. OneHolder'
  <2>1. Distinct(g_timers)'
    BY <1>1 DEF TimerOwnership, OneHolder, Distinct
  <2>2. QED
    BY <1>1, <1>5, <1>6, <1>7, <2>1 DEF TimerOwnership, OneHolder
<1>9. HeldIffLive'
  <2>1. ~Linked(cur) /\ \A u \in Threads : ~Private(u, cur)
    BY <1>2 DEF TimerOwnership, OneHolder
  <2>2. QED
    BY <1>1, <1>2, <1>5, <1>6, <1>7, <2>1 DEF TimerOwnership, HeldIffLive, TypeOK
<1>10. QED
  BY <1>3, <1>4, <1>8, <1>9 DEF TimerOwnership

\* scheduler_init and the signalling half of scheduler_shutdown.
LEMMA ServiceKeeps ==
    ASSUME IInv,
           (\E ok \in BOOLEAN : scheduler_init(ok)) \/ ShutdownSignal \/ ShutdownJoin \/ Tick
    PROVE  IInv'
<1> USE SchedulerAssumption DEF IInv
<1>1. UNCHANGED <<g_timers, g_next_id, timer, heap, cur, deadline, call, errlog, last>>
  BY DEF scheduler_init, ShutdownSignal, ShutdownJoin, Tick, blocks, thread, outcomes
<1>2. TimerOwnership' /\ Sorted' /\ CallInv'
  BY <1>1, ListUntouched
<1>3. TypeOK'
  <2>1. now' \in 0..MaxNow
    BY DEF TypeOK, scheduler_init, ShutdownSignal, ShutdownJoin, Tick
  <2>2. /\ g_running' \in BOOLEAN
        /\ thr' \in {"none", "loop", "wait", "timedwait", "cb", "rearm", "exit"}
        /\ phase' \in {"off", "failed", "up", "join", "free", "done"}
    BY DEF TypeOK, scheduler_init, ShutdownSignal, ShutdownJoin, Tick, Woken, thread, service
  <2>3. QED
    BY <1>1, <2>1, <2>2 DEF TypeOK
<1>4. ThreadInv' /\ NoMissedWakeup'
  BY <1>1 DEF ThreadInv, NoMissedWakeup, scheduler_init, ShutdownSignal, ShutdownJoin, Tick,
              Joinable, Woken, thread, service
<1>5. QED
  BY <1>2, <1>3, <1>4

\* scheduler_shutdown frees the list: exactly the blocks it holds die.
LEMMA FreeKeeps ==
    ASSUME IInv, ShutdownFree
    PROVE  IInv'
<1> USE SchedulerAssumption DEF IInv
<1>1. /\ phase = "free" /\ phase' = "done"
      /\ heap' = [o \in Timers |-> IF o \in Range(g_timers) THEN "freed" ELSE heap[o]]
      /\ g_timers' = <<>>
      /\ UNCHANGED <<now, timer, g_next_id, thr, cur, deadline, g_running, call, errlog, last>>
  BY DEF ShutdownFree, thread, outcomes
<1>2. \A x \in Timers : x \in Range(g_timers) <=> Linked(x)
  BY DEF Range, Linked, In, TypeOK
<1>3. TypeOK' /\ CallInv' /\ ThreadInv' /\ NoMissedWakeup'
  BY <1>1 DEF TypeOK, CallInv, ThreadInv, NoMissedWakeup
<1>4. Sorted' /\ Distinct(g_timers)' /\ \A x \in Timers : ~Linked(x)'
  BY <1>1 DEF Sorted, SortedBy, Distinct, Linked, In
<1>5. \A x \in Timers, u \in Threads : Private(u, x)' <=> Private(u, x)
  BY <1>1 DEF Private
<1>6. OneHolder'
  BY <1>1, <1>4, <1>5 DEF TimerOwnership, OneHolder
<1>7. HeldIffLive'
  BY <1>1, <1>2, <1>4, <1>5 DEF TimerOwnership, OneHolder, HeldIffLive
<1>8. QED
  BY <1>3, <1>4, <1>6, <1>7 DEF TimerOwnership

\* Every step keeps the invariant.
LEMMA NextIInv == IInv /\ [Next]_vars => IInv'
<1> SUFFICES ASSUME IInv, [Next]_vars PROVE IInv'
  OBVIOUS
<1>1. CASE UNCHANGED vars
  <2>1. TimerOwnership' /\ Sorted' /\ CallInv'
    BY <1>1, ListUntouched DEF IInv, vars
  <2>2. TypeOK' /\ ThreadInv' /\ NoMissedWakeup'
    BY <1>1 DEF IInv, vars, TypeOK, ThreadInv, NoMissedWakeup
  <2>3. QED
    BY <2>1, <2>2 DEF IInv
<1>2. ASSUME NEW t \in Threads, Call(t) PROVE IInv'
  <2>1. PICK p \in Plugins :
          \/ AddFails(t, p)
          \/ \E ms \in Delays, rep \in BOOLEAN : AddLoad(t, p, ms, rep)
          \/ \E id \in 0..(g_next_id - 1) : CancelFound(t, p, id) \/ CancelMissed(t, p, id)
    BY <1>2 DEF Call
  <2>2. CASE AddFails(t, p)
    <3>1. 0 \in Nat
      OBVIOUS
    <3>2. QED
      BY <2>2, <3>1, AnswerKeeps
  <2>3. CASE \E ms \in Delays, rep \in BOOLEAN : AddLoad(t, p, ms, rep)
    BY <2>3, AddKeeps
  <2>4. CASE \E id \in 0..(g_next_id - 1) : CancelFound(t, p, id) \/ CancelMissed(t, p, id)
    <3>1. PICK id \in 0..(g_next_id - 1) : CancelFound(t, p, id) \/ CancelMissed(t, p, id)
      BY <2>4
    <3>2. id \in Nat
      BY DEF IInv, TypeOK
    <3>3. QED
      BY <3>1, <3>2, AnswerKeeps, CancelKeeps
  <2>5. QED
    BY <2>1, <2>2, <2>3, <2>4
<1>3. ASSUME NEW t \in Threads, CallStep(t) PROVE IInv'
  <2>1. PICK p \in Plugins : TRUE
    BY SchedulerAssumption
  <2>2. CASE AddStore(t)
    BY <2>2, StoreKeeps
  <2>3. CASE AddInsert(t)
    BY <2>3, InsertStepKeeps
  <2>4. CASE AddReturn(t)
    <3>1. 0 \in Nat
      OBVIOUS
    <3>2. QED
      BY <2>1, <2>4, <3>1, AnswerKeeps
  <2>5. QED
    BY <1>3, <2>2, <2>3, <2>4 DEF CallStep
<1>4. CASE SchedStep \/ WakeSpurious \/ CbReturn \/ CbCrash
  BY <1>4, GotoKeeps, PopKeeps, RearmKeeps, DisposeKeeps DEF SchedStep
<1>5. CASE (\E ok \in BOOLEAN : scheduler_init(ok)) \/ ShutdownSignal \/ ShutdownJoin \/ Tick
  BY <1>5, ServiceKeeps
<1>6. CASE ShutdownFree
  BY <1>6, FreeKeeps
<1>7. QED
  BY <1>1, <1>2, <1>3, <1>4, <1>5, <1>6 DEF Next

\* The timer service never leaves the inductive invariant.
THEOREM Invariance == Spec => []IInv
  BY InitIInv, NextIInv, PTL DEF Spec

-----------------------------------------------------------------------------
(* The theorems.                                                           *)

\* Type correctness of the timer service.
THEOREM SchedulerTypes == Spec => []TypeOK
<1>1. IInv => TypeOK
  BY DEF IInv
<1>2. QED
  BY <1>1, Invariance, PTL

\* Whatever threads arm, cancel, fire, crash and shut down, a timer block is
\* live exactly while one holder has it: no double free, no use of a freed
\* block by the list or by the thread running its callback, none lost.
THEOREM SchedulerOwnership == Spec => []TimerOwnership
<1>1. IInv => TimerOwnership
  BY DEF IInv
<1>2. QED
  BY <1>1, Invariance, PTL

\* The list sched_thread takes the head of is always sorted by due time.
THEOREM SchedulerSorted == Spec => []Sorted
<1>1. IInv => Sorted
  BY DEF IInv
<1>2. QED
  BY <1>1, Invariance, PTL

\* The scheduler thread never sleeps past the due time of the earliest timer.
THEOREM SchedulerWakes == Spec => []NoMissedWakeup
<1>1. IInv => NoMissedWakeup
  BY DEF IInv
<1>2. QED
  BY <1>1, Invariance, PTL

\* When scheduler_shutdown has joined the thread no callback runs any more.
THEOREM SchedulerQuiesces == Spec => []ShutdownQuiesces
<1>1. IInv => ShutdownQuiesces
  BY DEF IInv, ThreadInv, ShutdownQuiesces
<1>2. QED
  BY <1>1, Invariance, PTL

-----------------------------------------------------------------------------
(* A one-shot timer fires once.                                            *)

\* A one-shot timer that can still be popped has not fired yet.
OneShotInv ==
    \A o \in Timers : ~timer[o].repeating =>
        /\ timer[o].fires < 2
        /\ Linked(o) \/ (\E t \in Threads : Private(t, o)) => timer[o].fires = 0

\* A step that gives no block new contents and hands none to the list keeps it.
LEMMA NothingArmed ==
    ASSUME OneShotInv,
           \A o \in Timers : /\ timer'[o].repeating = timer[o].repeating
                             /\ timer'[o].fires = timer[o].fires
                             /\ Linked(o)' => Linked(o) \/ timer[o].repeating
                                                        \/ \E t \in Threads : Private(t, o)
                             /\ \A t \in Threads : Private(t, o)' => Private(t, o)
    PROVE  OneShotInv'
  BY DEF OneShotInv

\* What a change of the due time leaves alone.
LEMMA DueInKeeps ==
    ASSUME TypeOK, NEW o, NEW ms, timer' = DueIn(o, ms), NEW x \in Timers
    PROVE  timer'[x].repeating = timer[x].repeating /\ timer'[x].fires = timer[x].fires
<1>1. timer \in [Timers -> TimerRec]
  BY DEF TypeOK
<1>2. CASE x = o
  <2>1. timer'[x] = [timer[x] EXCEPT !.due = (now + ms) % TimeMod]
    BY <1>1, <1>2 DEF DueIn
  <2>2. timer[x] \in TimerRec
    BY <1>1
  <2>3. QED
    BY <2>1, <2>2 DEF TimerRec
<1>3. CASE x # o
  BY <1>1, <1>3 DEF DueIn
<1>4. QED
  BY <1>2, <1>3

\* A fresh block has not fired.
LEMMA LoadKeepsOnce ==
    ASSUME IInv, OneShotInv, NEW t \in Threads, NEW p \in Plugins, NEW ms \in Delays,
           NEW rep \in BOOLEAN, AddLoad(t, p, ms, rep)
    PROVE  OneShotInv'
<1>1. PICK o \in Timers :
        /\ heap[o] = "unused"
        /\ timer' = [timer EXCEPT ![o] =
               [Blank EXCEPT !.id = g_next_id, !.plugin = p, !.repeating = rep,
                             !.interval = IF rep THEN ms ELSE 0]]
        /\ call' = [call EXCEPT ![t] = [pc |-> "store", obj |-> o, ms |-> ms]]
  BY DEF AddLoad
<1>2. g_timers' = g_timers
  BY DEF AddLoad
<1>3. timer'[o].fires = 0 /\ \A x \in Timers : x # o => timer'[x] = timer[x]
  BY <1>1 DEF IInv, TypeOK, Blank
<1>4. \A x \in Timers : Linked(x)' <=> Linked(x)
  BY <1>2 DEF Linked, In
<1>5. \A x \in Timers, u \in Threads : x # o /\ Private(u, x)' => Private(u, x)
  BY <1>1 DEF IInv, TypeOK, Private
<1>6. QED
  BY <1>3, <1>4, <1>5 DEF OneShotInv

\* The popped block was linked, so if it is a one-shot this is its first call.
LEMMA PopKeepsOnce ==
    ASSUME IInv, OneShotInv, SchedPop
    PROVE  OneShotInv'
<1> DEFINE o == g_timers[1]
<1>1. /\ g_timers # <<>>
      /\ timer' = [timer EXCEPT ![o] = Fired(@)]
      /\ g_timers' = RemoveAt(g_timers, 1)
      /\ call' = call
  BY DEF SchedPop
<1>2. /\ g_timers \in Seq(Timers) /\ timer \in [Timers -> TimerRec]
      /\ Distinct(g_timers) /\ SortedBy(g_timers, timer)
  BY DEF IInv, TypeOK, TimerOwnership, OneHolder, Sorted
<1>3. 1 \in 1..Len(g_timers) /\ o \in Timers /\ Linked(o)
  BY <1>1, <1>2 DEF Linked, In
<1>4. \A x \in Timers : In(g_timers', x) <=> In(g_timers, x) /\ x # o
  BY <1>1, <1>2, <1>3, RemoveKeeps
<1> HIDE DEF o
<1>5. \A x \in Timers : Linked(x)' <=> Linked(x) /\ x # o
  BY <1>4 DEF Linked
<1>6. \A x \in Timers, u \in Threads : Private(u, x)' <=> Private(u, x)
  BY <1>1 DEF Private
<1>7. \A u \in Threads : ~Private(u, o)
  BY <1>3 DEF IInv, TimerOwnership, OneHolder
<1>8. \A x \in Timers : x # o => timer'[x] = timer[x]
  BY <1>1, <1>2
<1>9. /\ timer'[o].repeating = timer[o].repeating
      /\ timer'[o].fires = IF timer[o].fires = 0 THEN 1 ELSE 2
  <2>1. timer[o] \in TimerRec /\ timer'[o] = Fired(timer[o])
    BY <1>1, <1>2, <1>3
  <2>2. QED
    BY <2>1 DEF TimerRec, Fired
<1>10. ~timer[o].repeating => timer'[o].fires = 1
  BY <1>3, <1>9 DEF OneShotInv
<1>11. QED
  BY <1>3, <1>5, <1>6, <1>7, <1>8, <1>9, <1>10 DEF OneShotInv

\* What insert_timer links in, and what it leaves alone.
LEMMA LinkedAfterInsert ==
    ASSUME TypeOK, TypeOK', Distinct(g_timers), NEW o \in Timers, ~Linked(o),
           SortedBy(g_timers, timer'), insert_timer(o, timer')
    PROVE  /\ \A x \in Timers : Linked(x)' <=> Linked(x) \/ x = o
           /\ \A i, j \in 1..Len(g_timers') :
                 g_timers'[i] = o /\ i < j => timer'[o].due < timer'[g_timers'[j]].due
<1>1. PICK k \in 0..Len(g_timers) :
        /\ Slot(g_timers, timer', timer'[o].due, k)
        /\ g_timers' = InsertAt(g_timers, k + 1, o)
  BY DEF insert_timer
<1>2. g_timers \in Seq(Timers) /\ timer' \in [Timers -> TimerRec]
  BY DEF TypeOK
<1>3. /\ Distinct(g_timers')
      /\ Len(g_timers') = Len(g_timers) + 1
      /\ \A x \in Timers : In(g_timers', x) <=> In(g_timers, x) \/ x = o
  BY <1>1, <1>2, InsertKeeps DEF Linked
<1>4. \A x \in Timers : Linked(x)' <=> Linked(x) \/ x = o
  BY <1>3 DEF Linked
<1>5. ASSUME NEW i \in 1..Len(g_timers'), NEW j \in 1..Len(g_timers'), g_timers'[i] = o, i < j
      PROVE  timer'[o].due < timer'[g_timers'[j]].due
  <2> DEFINE n == k + 1
  <2>1. n \in 1..(Len(g_timers) + 1) /\ g_timers' = InsertAt(g_timers, n, o)
    BY <1>1, <1>2
  <2> HIDE DEF n
  <2>2. g_timers'[n] = o
    BY <1>2, <2>1, InsertAtIs
  <2>3. \A m \in (n + 1)..(Len(g_timers) + 1) : g_timers'[m] = g_timers[m - 1]
    <3>1. g_timers \in Seq(Timers) /\ n \in 1..(Len(g_timers) + 1)
      BY <1>2, <2>1
    <3>2. \A m \in (n + 1)..(Len(g_timers) + 1) : InsertAt(g_timers, n, o)[m] = g_timers[m - 1]
      BY ONLY <3>1, InsertAtIs, o \in Timers
    <3>3. QED
      BY <2>1, <3>2
  <2>4. i = n
    BY <1>3, <1>5, <2>1, <2>2 DEF Distinct
  <2>5. j - 1 \in 1..Len(g_timers) /\ g_timers'[j] = g_timers[j - 1] /\ k + 1 <= j - 1 /\ k + 1 \in 1..Len(g_timers)
    BY <1>2, <1>3, <1>5, <2>3, <2>4 DEF n
  <2>6. timer'[o].due < timer'[g_timers[k + 1]].due
    BY <1>1, <1>2, <2>5 DEF Slot
  <2>7. timer'[g_timers[k + 1]].due <= timer'[g_timers[j - 1]].due
    <3>1. CASE k + 1 = j - 1
      <4>1. g_timers[j - 1] \in Timers
        BY <1>2, <2>5
      <4>2. timer'[g_timers[j - 1]].due \in Nat
        BY <1>2, <4>1, SchedulerAssumption DEF TimerRec
      <4>3. QED
        BY <3>1, <4>2
    <3>2. CASE k + 1 < j - 1
      BY <2>5, <3>2 DEF SortedBy
    <3>3. QED
      BY <2>5, <3>1, <3>2
  <2>8. /\ timer'[o].due \in Nat /\ timer'[g_timers[k + 1]].due \in Nat
        /\ timer'[g_timers[j - 1]].due \in Nat
    <3>1. \A x \in Timers : timer'[x].due \in Nat
      BY <1>2, SchedulerAssumption DEF TimerRec
    <3>2. g_timers[k + 1] \in Timers /\ g_timers[j - 1] \in Timers
      BY <1>2, <2>5
    <3>3. QED
      BY <3>1, <3>2
  <2>9. QED
    BY <2>5, <2>6, <2>7, <2>8
<1>6. QED
  BY <1>4, <1>5

\* The two steps that link a block in.
LEMMA LinkSteps ==
    ASSUME IInv, IInv', NEW o \in Timers,
           \/ \E t \in Threads : AddInsert(t) /\ o = call[t].obj
           \/ Rearm /\ o = cur
    PROVE  /\ ~Linked(o)
           /\ \A x \in Timers : Linked(x)' <=> Linked(x) \/ x = o
           /\ \A i, j \in 1..Len(g_timers') :
                 g_timers'[i] = o /\ i < j => timer'[o].due < timer'[g_timers'[j]].due
           /\ timer[o].repeating \/ \E t \in Threads : Private(t, o)
           /\ \A x \in Timers, t \in Threads : Private(t, x)' => Private(t, x)
           /\ \A x \in Timers : timer'[x].repeating = timer[x].repeating /\ timer'[x].fires = timer[x].fires
<1>1. g_timers \in Seq(Timers) /\ timer \in [Timers -> TimerRec] /\ timer' \in [Timers -> TimerRec]
      /\ Distinct(g_timers) /\ SortedBy(g_timers, timer)
  BY DEF IInv, TypeOK, TimerOwnership, OneHolder, Sorted
<1>2. CASE \E t \in Threads : AddInsert(t) /\ o = call[t].obj
  <2>1. PICK t \in Threads : AddInsert(t) /\ o = call[t].obj
    BY <1>2
  <2>2. /\ call[t].pc = "insert" /\ timer' = timer
        /\ call' = [call EXCEPT ![t].pc = "return"]
        /\ insert_timer(o, timer')
    BY <2>1 DEF AddInsert, blocks
  <2>3. Private(t, o)
    BY <2>1, <2>2 DEF Private
  <2>4. ~Linked(o)
    BY <2>3 DEF IInv, TimerOwnership, OneHolder
  <2>5. /\ \A x \in Timers : Linked(x)' <=> Linked(x) \/ x = o
        /\ \A i, j \in 1..Len(g_timers') :
              g_timers'[i] = o /\ i < j => timer'[o].due < timer'[g_timers'[j]].due
    BY <1>1, <2>2, <2>4, LinkedAfterInsert DEF IInv
  <2>6. \A x \in Timers, u \in Threads : Private(u, x)' => Private(u, x)
    BY <2>2 DEF Private, IInv, TypeOK
  <2>7. QED
    BY <2>2, <2>3, <2>4, <2>5, <2>6
<1>3. CASE Rearm /\ o = cur
  <2>1. /\ timer[o].repeating
        /\ timer' = DueIn(o, timer[o].interval)
        /\ insert_timer(o, timer')
        /\ call' = call
    BY <1>3 DEF Rearm, Rearms
  <2>2. ~Linked(o)
    BY <1>3 DEF IInv, TimerOwnership, OneHolder
  <2>3. \A x \in Timers : x # o => timer'[x] = timer[x]
    BY <1>1, <2>1 DEF DueIn
  <2>4. SortedBy(g_timers, timer')
    <3>1. \A i \in 1..Len(g_timers) : g_timers[i] \in Timers /\ timer'[g_timers[i]] = timer[g_timers[i]]
      BY <1>1, <2>2, <2>3 DEF Linked, In
    <3>2. QED
      BY <1>1, <3>1 DEF SortedBy
  <2>5. /\ \A x \in Timers : Linked(x)' <=> Linked(x) \/ x = o
        /\ \A i, j \in 1..Len(g_timers') :
              g_timers'[i] = o /\ i < j => timer'[o].due < timer'[g_timers'[j]].due
    BY <1>1, <2>1, <2>2, <2>4, LinkedAfterInsert DEF IInv
  <2>6. \A x \in Timers, u \in Threads : Private(u, x)' => Private(u, x)
    BY <2>1 DEF Private
  <2>7. \A x \in Timers : timer'[x].repeating = timer[x].repeating /\ timer'[x].fires = timer[x].fires
    BY <2>1, DueInKeeps DEF IInv
  <2>8. QED
    BY <2>1, <2>2, <2>5, <2>6, <2>7
<1>4. QED
  BY <1>2, <1>3

\* No other step links a block in.
LEMMA OthersLinkNone ==
    ASSUME IInv, [Next]_vars, ~Rearm, \A t \in Threads : ~AddInsert(t), NEW x \in Timers, Linked(x)'
    PROVE  Linked(x)
<1>1. g_timers' = g_timers => Linked(x)
  BY DEF Linked, In
<1>2. ASSUME NEW k \in 1..Len(g_timers), g_timers' = RemoveAt(g_timers, k) PROVE Linked(x)
  <2>1. /\ g_timers \in Seq(Timers) /\ timer \in [Timers -> TimerRec]
        /\ Distinct(g_timers) /\ SortedBy(g_timers, timer)
    BY DEF IInv, TypeOK, TimerOwnership, OneHolder, Sorted
  <2>2. In(g_timers', x) => In(g_timers, x)
    BY <1>2, <2>1, RemoveKeeps
  <2>3. QED
    BY <2>2 DEF Linked
<1>3. UNCHANGED vars => g_timers' = g_timers
  BY DEF vars
<1>4. ASSUME NEW t \in Threads, Call(t) PROVE Linked(x)
  <2>1. CASE g_timers' = g_timers
    BY <1>1, <2>1
  <2>2. CASE \E p \in Plugins, id \in 0..(g_next_id - 1) : CancelFound(t, p, id)
    BY <1>2, <2>2 DEF CancelFound, Unlinked
  <2>3. QED
    BY <1>4, <2>1, <2>2 DEF Call, AddFails, AddLoad, CancelMissed
<1>5. ASSUME NEW t \in Threads PROVE AddStore(t) \/ AddReturn(t) => g_timers' = g_timers
  BY DEF AddStore, AddReturn
<1>6. SchedPop => Linked(x)
  <2>1. SUFFICES ASSUME SchedPop PROVE Linked(x)
    OBVIOUS
  <2>2. g_timers # <<>> /\ g_timers' = RemoveAt(g_timers, 1) /\ g_timers \in Seq(Timers)
    BY <2>1 DEF SchedPop, IInv, TypeOK
  <2>3. 1 \in 1..Len(g_timers)
    BY <2>2
  <2>4. QED
    BY <1>2, <2>2, <2>3
<1>7. SchedExit \/ SchedWait \/ SchedTimedWait \/ WakeTimeout \/ WakeSpurious \/ CbReturn \/ CbCrash
        => g_timers' = g_timers
  BY DEF SchedExit, SchedWait, SchedTimedWait, WakeTimeout, WakeSpurious, CbReturn, CbCrash, Goto
<1>8. Dispose \/ (\E ok \in BOOLEAN : scheduler_init(ok)) \/ ShutdownSignal \/ ShutdownJoin \/ Tick
        => g_timers' = g_timers
  BY DEF Dispose, scheduler_init, ShutdownSignal, ShutdownJoin, Tick
<1>9. ~ShutdownFree
  BY DEF ShutdownFree, Linked, In
<1>10. QED
  BY <1>1, <1>3, <1>4, <1>5, <1>6, <1>7, <1>8, <1>9 DEF Next, CallStep, SchedStep

\* Every step keeps the one-shot invariant.
LEMMA NextOnce == IInv /\ IInv' /\ OneShotInv /\ [Next]_vars => OneShotInv'
<1> SUFFICES ASSUME IInv, IInv', OneShotInv, [Next]_vars PROVE OneShotInv'
  OBVIOUS
<1>1. CASE Rearm \/ \E t \in Threads : AddInsert(t)
  <2>1. PICK o \in Timers : \/ \E t \in Threads : AddInsert(t) /\ o = call[t].obj
                            \/ Rearm /\ o = cur
    BY <1>1 DEF AddInsert, Rearm, IInv, CallInv, ThreadInv, TypeOK
  <2>2. /\ \A x \in Timers : Linked(x)' <=> Linked(x) \/ x = o
        /\ timer[o].repeating \/ \E t \in Threads : Private(t, o)
        /\ \A x \in Timers, t \in Threads : Private(t, x)' => Private(t, x)
        /\ \A x \in Timers : timer'[x].repeating = timer[x].repeating /\ timer'[x].fires = timer[x].fires
    BY <2>1, LinkSteps
  <2>3. QED
    BY <2>2, NothingArmed
<1>2. ASSUME ~(Rearm \/ \E t \in Threads : AddInsert(t)),
             \A x \in Timers, t \in Threads : Private(t, x)' => Private(t, x),
             \A x \in Timers : timer'[x].repeating = timer[x].repeating /\ timer'[x].fires = timer[x].fires
      PROVE  OneShotInv'
  <2>1. \A x \in Timers : Linked(x)' => Linked(x)
    BY <1>2, OthersLinkNone
  <2>2. QED
    BY <1>2, <2>1, NothingArmed
<1>3. CASE ~(Rearm \/ \E t \in Threads : AddInsert(t))
  <2> DEFINE Same == /\ \A x \in Timers, t \in Threads : Private(t, x)' => Private(t, x)
                     /\ \A x \in Timers : timer'[x].repeating = timer[x].repeating
                                          /\ timer'[x].fires = timer[x].fires
  <2>1. Same => OneShotInv'
    BY <1>2, <1>3
  <2>2. timer' = timer /\ call' = call => Same
    BY DEF Private
  <2>3. UNCHANGED vars => timer' = timer /\ call' = call
    BY DEF vars
  <2>4. ASSUME NEW t \in Threads, Call(t) PROVE OneShotInv'
    <3>1. CASE timer' = timer /\ call' = call
      BY <2>1, <2>2, <3>1
    <3>2. CASE \E p \in Plugins, ms \in Delays, rep \in BOOLEAN : AddLoad(t, p, ms, rep)
      BY <3>2, LoadKeepsOnce
    <3>3. QED
      BY <2>4, <3>1, <3>2 DEF Call, AddFails, CancelFound, CancelMissed, blocks
  <2>5. ASSUME NEW t \in Threads, AddStore(t) PROVE Same
    <3>1. \A x \in Timers : timer'[x].repeating = timer[x].repeating /\ timer'[x].fires = timer[x].fires
      BY <2>5, DueInKeeps DEF AddStore, IInv
    <3>2. \A x \in Timers, u \in Threads : Private(u, x)' => Private(u, x)
      BY <2>5 DEF AddStore, Private, IInv, TypeOK
    <3>3. QED
      BY <3>1, <3>2
  <2>6. ASSUME NEW t \in Threads, AddReturn(t) PROVE Same
    BY <2>6 DEF AddReturn, Private, IInv, TypeOK, blocks, Idle
  <2>7. SchedExit \/ SchedWait \/ SchedTimedWait \/ WakeTimeout \/ WakeSpurious \/ CbReturn \/ CbCrash
          => timer' = timer /\ call' = call
    BY DEF SchedExit, SchedWait, SchedTimedWait, WakeTimeout, WakeSpurious, CbReturn, CbCrash, Goto, blocks
  <2>8. Dispose \/ (\E ok \in BOOLEAN : scheduler_init(ok)) \/ ShutdownSignal \/ ShutdownJoin
          \/ ShutdownFree \/ Tick => timer' = timer /\ call' = call
    BY DEF Dispose, scheduler_init, ShutdownSignal, ShutdownJoin, ShutdownFree, Tick, blocks
  <2> HIDE DEF Same
  <2>9. QED
    BY <1>3, <2>1, <2>2, <2>3, <2>4, <2>5, <2>6, <2>7, <2>8, PopKeepsOnce
       DEF Next, CallStep, SchedStep
<1>4. QED
  BY <1>1, <1>3

\* A one-shot timer never fires twice, whatever crashes, re-enters and races.
THEOREM SchedulerOneShot == Spec => []OneShotOnce
<1>1. Init => OneShotInv
  <2>1. SUFFICES ASSUME Init PROVE OneShotInv
    OBVIOUS
  <2>2. \A o \in Timers : timer[o].fires = 0
    BY <2>1 DEF Init, Blank
  <2>3. QED
    BY <2>2 DEF OneShotInv
<1>2. OneShotInv => OneShotOnce
  BY DEF OneShotInv, OneShotOnce
<1>3. QED
  BY <1>1, <1>2, NextOnce, Invariance, PTL DEF Spec

-----------------------------------------------------------------------------
(* What a step never does.                                                 *)

\* Timers due at the same time fire in the order in which they were armed,
\* re-armed repeating timers included.
THEOREM SchedulerFifo == Spec => FifoAmongEquals
<1> DEFINE A == \A o \in Timers : Linked(o)' /\ ~Linked(o) =>
                   \A i, j \in 1..Len(g_timers') :
                       g_timers'[i] = o /\ i < j => timer'[o].due < timer'[g_timers'[j]].due
<1>1. IInv /\ IInv' /\ [Next]_vars => A
  <2>1. SUFFICES ASSUME IInv, IInv', [Next]_vars, NEW o \in Timers, Linked(o)', ~Linked(o)
                 PROVE  \A i, j \in 1..Len(g_timers') :
                           g_timers'[i] = o /\ i < j => timer'[o].due < timer'[g_timers'[j]].due
    OBVIOUS
  <2>2. Rearm \/ \E t \in Threads : AddInsert(t)
    BY <2>1, OthersLinkNone
  <2>3. PICK x \in Timers : \/ \E t \in Threads : AddInsert(t) /\ x = call[t].obj
                            \/ Rearm /\ x = cur
    BY <2>1, <2>2 DEF AddInsert, Rearm, IInv, CallInv, ThreadInv, TypeOK
  <2>4. o = x
    BY <2>1, <2>3, LinkSteps
  <2>5. QED
    BY <2>1, <2>3, <2>4, LinkSteps
<1>2. IInv /\ IInv' /\ [Next]_vars => [A]_vars
  BY <1>1
<1> HIDE DEF A
<1>3. Spec => [][A]_vars
  BY <1>2, Invariance, PTL DEF Spec
<1>4. QED
  BY <1>3 DEF A, FifoAmongEquals

\* Only a cancel by its own plugin that answers 0, or the stop of the service,
\* takes a repeating timer away.
THEOREM SchedulerSurvives == Spec => RepeatingSurvives
<1> DEFINE A == \A o \in Timers :
                   timer[o].repeating /\ heap[o] = "live" /\ heap'[o] # "live" =>
                       \/ /\ last'.op = "cancel" /\ last'.ret = 0
                          /\ last'.obj = o /\ last'.plugin = timer[o].plugin
                       \/ ~g_running
<1>1. IInv /\ [Next]_vars => A
  <2> SUFFICES ASSUME IInv, [Next]_vars, NEW o \in Timers,
                      timer[o].repeating, heap[o] = "live", heap'[o] # "live", g_running
               PROVE  /\ last'.op = "cancel" /\ last'.ret = 0
                      /\ last'.obj = o /\ last'.plugin = timer[o].plugin
    OBVIOUS
  <2>1. ~ UNCHANGED vars
    BY DEF vars
  <2>2. ASSUME NEW t \in Threads, Call(t)
        PROVE  /\ last'.op = "cancel" /\ last'.ret = 0
               /\ last'.obj = o /\ last'.plugin = timer[o].plugin
    <3>1. ASSUME NEW p \in Plugins, NEW ms \in Delays, NEW rep \in BOOLEAN PROVE ~AddLoad(t, p, ms, rep)
      BY DEF AddLoad, IInv, TypeOK
    <3>2. PICK p \in Plugins, id \in 0..(g_next_id - 1) : CancelFound(t, p, id)
      BY <2>2, <3>1 DEF Call, AddFails, CancelMissed, blocks
    <3>3. PICK k \in 1..Len(g_timers) :
            /\ Match(p, id, g_timers[k])
            /\ heap' = [heap EXCEPT ![g_timers[k]] = "freed"]
            /\ Returned("cancel", p, g_timers[k], 0, {}, FALSE)
      BY <3>2 DEF CancelFound
    <3>4. o = g_timers[k]
      BY <3>3 DEF IInv, TypeOK
    <3>5. QED
      BY <3>3, <3>4 DEF Match, Returned
  <2>3. ASSUME NEW t \in Threads PROVE ~CallStep(t)
    BY DEF CallStep, AddStore, AddInsert, AddReturn, blocks
  <2>4. ~Dispose
    <3>1. SUFFICES ASSUME Dispose PROVE FALSE
      OBVIOUS
    <3>2. o = cur
      BY <3>1 DEF Dispose, IInv, TypeOK
    <3>3. QED
      BY <3>1, <3>2 DEF Dispose, Rearms
  <2>5. ~(SchedExit \/ SchedWait \/ SchedTimedWait \/ WakeTimeout \/ WakeSpurious \/ CbReturn \/ CbCrash)
    BY DEF SchedExit, SchedWait, SchedTimedWait, WakeTimeout, WakeSpurious, CbReturn, CbCrash, Goto, blocks
  <2>6. ~(SchedPop \/ Rearm)
    BY DEF SchedPop, Rearm
  <2>7. ~((\E ok \in BOOLEAN : scheduler_init(ok)) \/ ShutdownSignal \/ ShutdownJoin \/ Tick)
    BY DEF scheduler_init, ShutdownSignal, ShutdownJoin, Tick, blocks
  <2>8. ~ShutdownFree
    BY DEF ShutdownFree, IInv, ThreadInv
  <2>9. QED
    BY <2>1, <2>2, <2>3, <2>4, <2>5, <2>6, <2>7, <2>8 DEF Next, SchedStep
<1>2. IInv /\ [Next]_vars => [A]_vars
  BY <1>1
<1> HIDE DEF A
<1>3. Spec => [][A]_vars
  BY <1>2, Invariance, PTL DEF Spec
<1>4. QED
  BY <1>3 DEF A, RepeatingSurvives

=============================================================================
