--------------------------- MODULE EventBusProofs ---------------------------
(***************************************************************************)
(* Theorems about EventBus, for every number of workers, clients, keys and *)
(* messages and every capacity of the ring buffer.                         *)
(***************************************************************************)
EXTENDS EventBus, SequenceTheorems, TLAPS

-----------------------------------------------------------------------------
(* The arithmetic of the ring.                                             *)

\* The slot of the i-th oldest task when the oldest is in slot h.
SlotOf(h, i) == (h + i - 1) % MaxTasks

\* The remainder of a number below twice the capacity.
LEMMA ModIs ==
    ASSUME NEW x \in 0..(2 * MaxTasks - 1)
    PROVE  x % MaxTasks = IF x < MaxTasks THEN x ELSE x - MaxTasks
  BY BusAssumption

\* Slots of different tasks differ.
LEMMA SlotsDiffer ==
    ASSUME NEW h \in 0..(MaxTasks - 1)
    PROVE  \A i, j \in 1..MaxTasks : SlotOf(h, i) = SlotOf(h, j) => i = j
<1>1. SUFFICES ASSUME NEW i \in 1..MaxTasks, NEW j \in 1..MaxTasks, SlotOf(h, i) = SlotOf(h, j)
               PROVE  i = j
  OBVIOUS
<1> DEFINE x == h + i - 1
           y == h + j - 1
<1>2. MaxTasks \in Nat /\ x \in 0..(2 * MaxTasks - 1) /\ y \in 0..(2 * MaxTasks - 1)
  BY BusAssumption
<1>3. x % MaxTasks = y % MaxTasks
  BY <1>1 DEF SlotOf
<1>4. y - x = j - i /\ y - x < MaxTasks /\ x - y < MaxTasks
  BY <1>2
<1> HIDE DEF x, y
<1>5. x % MaxTasks = IF x < MaxTasks THEN x ELSE x - MaxTasks
  BY <1>2, ModIs
<1>6. y % MaxTasks = IF y < MaxTasks THEN y ELSE y - MaxTasks
  BY <1>2, ModIs
<1>7. x = y
  BY <1>2, <1>3, <1>4, <1>5, <1>6
<1>8. QED
  BY <1>2, <1>4, <1>7

\* Slots are slots of the array; the slot behind c tasks is (h + c) % MaxTasks;
\* advancing the head renumbers the tasks.
LEMMA SlotFacts ==
    ASSUME NEW h \in 0..(MaxTasks - 1)
    PROVE  /\ \A i \in 1..MaxTasks : SlotOf(h, i) \in 0..(MaxTasks - 1)
           /\ \A c \in 0..MaxTasks : SlotOf(h, c + 1) = (h + c) % MaxTasks
           /\ SlotOf(h, 1) = h
           /\ NextSlot(h) \in 0..(MaxTasks - 1)
           /\ \A i \in 0..(MaxTasks - 1) : SlotOf(NextSlot(h), i) = SlotOf(h, i + 1)
           /\ \A c \in 0..(MaxTasks - 1) : NextSlot((h + c) % MaxTasks) = (h + c + 1) % MaxTasks
           /\ \A c \in 1..MaxTasks : (NextSlot(h) + (c - 1)) % MaxTasks = (h + c) % MaxTasks
<1> USE BusAssumption
<1>1. \A i \in 1..MaxTasks : SlotOf(h, i) \in 0..(MaxTasks - 1)
  BY DEF SlotOf
<1>2. \A c \in 0..MaxTasks : SlotOf(h, c + 1) = (h + c) % MaxTasks
  BY DEF SlotOf
<1>3. SlotOf(h, 1) = h
  BY DEF SlotOf
<1>4. NextSlot(h) \in 0..(MaxTasks - 1) /\ NextSlot(h) = IF h + 1 < MaxTasks THEN h + 1 ELSE 0
  <2>1. h + 1 \in 0..(2 * MaxTasks - 1)
    OBVIOUS
  <2>2. QED
    BY <2>1, ModIs DEF NextSlot
<1>5. ASSUME NEW c \in 0..(MaxTasks - 1) PROVE NextSlot((h + c) % MaxTasks) = (h + c + 1) % MaxTasks
  <2>1. h + c \in 0..(2 * MaxTasks - 1) /\ h + c + 1 \in 0..(2 * MaxTasks - 1)
    OBVIOUS
  <2>2. /\ (h + c) % MaxTasks = IF h + c < MaxTasks THEN h + c ELSE h + c - MaxTasks
        /\ (h + c + 1) % MaxTasks = IF h + c + 1 < MaxTasks THEN h + c + 1 ELSE h + c + 1 - MaxTasks
    BY <2>1, ModIs
  <2>3. CASE h + c < MaxTasks
    BY <2>2, <2>3 DEF NextSlot
  <2>4. CASE h + c >= MaxTasks
    <3>1. h + c - MaxTasks + 1 \in 0..(2 * MaxTasks - 1)
      BY <2>4
    <3>2. h + c - MaxTasks + 1 < MaxTasks
      BY <2>4
    <3>3. (h + c - MaxTasks + 1) % MaxTasks = h + c - MaxTasks + 1
      BY <3>1, <3>2, ModIs
    <3>4. QED
      BY <2>2, <2>4, <3>3 DEF NextSlot
  <2>5. QED
    BY <2>3, <2>4
<1>6. ASSUME NEW c \in 1..MaxTasks PROVE (NextSlot(h) + (c - 1)) % MaxTasks = (h + c) % MaxTasks
  <2>1. h + c \in 0..(2 * MaxTasks - 1)
    OBVIOUS
  <2>2. (h + c) % MaxTasks = IF h + c < MaxTasks THEN h + c ELSE h + c - MaxTasks
    BY <2>1, ModIs
  <2>3. CASE h + 1 < MaxTasks
    BY <1>4, <2>3
  <2>4. CASE h + 1 >= MaxTasks
    <3>1. h = MaxTasks - 1 /\ c - 1 \in 0..(2 * MaxTasks - 1)
      BY <2>4
    <3>2. (c - 1) % MaxTasks = c - 1
      BY <3>1, ModIs
    <3>3. QED
      BY <1>4, <2>2, <2>4, <3>1, <3>2
  <2>5. QED
    BY <2>3, <2>4
<1>7. ASSUME NEW i \in 0..(MaxTasks - 1) PROVE SlotOf(NextSlot(h), i) = SlotOf(h, i + 1)
  <2>1. CASE i = 0
    <3>1. SlotOf(h, i + 1) = h
      BY <1>3, <2>1
    <3>2. CASE h + 1 < MaxTasks
      BY <1>4, <2>1, <3>1, <3>2 DEF SlotOf
    <3>3. CASE h + 1 >= MaxTasks
      BY <1>4, <2>1, <3>1, <3>3 DEF SlotOf
    <3>4. QED
      BY <3>2, <3>3
  <2>2. CASE i # 0
    <3>1. i \in 1..MaxTasks
      BY <2>2
    <3>2. (NextSlot(h) + (i - 1)) % MaxTasks = (h + i) % MaxTasks
      BY <3>1, <1>6
    <3>3. QED
      BY <3>2, <1>4 DEF SlotOf
  <2>3. QED
    BY <2>1, <2>2
<1>8. QED
  BY <1>1, <1>2, <1>3, <1>4, <1>5, <1>6, <1>7

-----------------------------------------------------------------------------
(* The inductive invariant.                                                *)

\* Whoever holds a task holds a real one.
TaskInv ==
    /\ \A i \in 1..count : Occupied[i] \in Task
    /\ \A w \in Workers : wpc[w] = "cb" => wtask[w] \in Task
    /\ \A t \in Threads : InEnqueue(t) => ptask[t] \in Task

\* Whoever is in enqueue_task holds sub_mutex (so there is at most one).
LockInv == \A t \in Threads : InEnqueue(t) => sub_mutex = t

\* What the phases of bus_shutdown say about the workers and the queue.
PhaseInv ==
    /\ mpc = "run" <=> ~g_bus_shut_down
    /\ \A w \in Workers : wpc[w] = "exit" => g_bus_shut_down /\ count = 0
    /\ mpc \in {"drain", "subs", "done"} => \A w \in Workers : wpc[w] = "exit"
    /\ sub_mutex = Gone <=> mpc = "done"

BInv ==
    /\ TypeOK /\ RingConsistent /\ TaskInv /\ LockInv /\ PhaseInv
    /\ DataOwnership /\ SubsOutliveTasks

\* The bus starts in a state that satisfies the invariant.
LEMMA InitBInv == Init => BInv
<1> SUFFICES ASSUME Init PROVE BInv
  OBVIOUS
<1> USE BusAssumption DEF Init
<1>1. TypeOK
  <2>1. tasks \in [0..(MaxTasks - 1) -> Task \cup {NoTask}]
    OBVIOUS
  <2>2. wtask \in [Workers -> Task \cup {NoTask}] /\ ptask \in [Threads -> Task \cup {NoTask}]
    OBVIOUS
  <2>3. head \in 0..(MaxTasks - 1) /\ tail \in 0..(MaxTasks - 1) /\ count \in 0..MaxTasks
    OBVIOUS
  <2>4. g_head \in Seq(Sub) /\ Len(g_head) <= MaxSubs
    OBVIOUS
  <2>5. QED
    BY <2>1, <2>2, <2>3, <2>4 DEF TypeOK
<1>2. RingConsistent
  BY DEF RingConsistent
<1>3. (\A w \in Workers : wpc[w] = "top") /\ \A t \in Threads : ~InEnqueue(t)
  BY DEF InEnqueue
<1>4. 1..count = {}
  OBVIOUS
<1>5. TaskInv /\ LockInv /\ PhaseInv
  BY <1>3, <1>4 DEF TaskInv, LockInv, PhaseInv
<1>6. DataOwnership
  BY <1>3, <1>4 DEF DataOwnership, InQueue, InCallback, InPublish
<1>7. SubsOutliveTasks
  BY <1>3, <1>4 DEF SubsOutliveTasks
<1>8. QED
  BY <1>1, <1>2, <1>5, <1>6, <1>7 DEF BInv

\* A step that only moves control points, and keeps who is in a callback, in
\* enqueue_task and who has left, keeps the invariant.
LEMMA ControlKeeps ==
    ASSUME BInv,
           UNCHANGED <<g_head, sub_mutex, ring, g_bus_shut_down, data, wtask, ptask, mpc, critical>>,
           pc' \in [Threads -> {"idle", "lock", "enqueue", "waitfull"}],
           wpc' \in [Workers -> {"top", "waitempty", "cb", "exit"}],
           \A t \in Threads : InEnqueue(t)' <=> InEnqueue(t),
           \A w \in Workers : (wpc'[w] = "cb" <=> wpc[w] = "cb") /\ (wpc'[w] = "exit" <=> wpc[w] = "exit")
    PROVE  BInv'
<1> USE DEF BInv, ring
<1>1. TypeOK' /\ RingConsistent'
  BY DEF TypeOK, RingConsistent
<1>2. Occupied' = Occupied /\ count' = count
  BY DEF Occupied
<1>3. TaskInv' /\ LockInv' /\ PhaseInv'
  BY <1>2 DEF TaskInv, LockInv, PhaseInv
<1>4. \A m \in Msgs :
        /\ InQueue(m)' <=> InQueue(m)
        /\ \A w \in Workers : InCallback(w, m)' <=> InCallback(w, m)
        /\ \A t \in Threads : InPublish(t, m)' <=> InPublish(t, m)
  BY <1>2 DEF InQueue, InCallback, InPublish
<1>5. DataOwnership'
  BY <1>2, <1>4 DEF DataOwnership
<1>6. SubsOutliveTasks'
  BY <1>2 DEF SubsOutliveTasks, Range
<1>7. QED
  BY <1>1, <1>3, <1>5, <1>6

\* A step that moves one thread between points of the same kind, or none.
Quiet ==
    /\ UNCHANGED <<g_head, sub_mutex, ring, g_bus_shut_down, data, wtask, ptask, mpc, critical>>
    /\ \/ UNCHANGED <<pc, wpc>>
       \/ \E u \in Threads, s \in {"idle", "lock", "enqueue", "waitfull"} :
            /\ pc' = [pc EXCEPT ![u] = s] /\ UNCHANGED wpc
            /\ pc[u] \in {"idle", "lock"} <=> s \in {"idle", "lock"}
       \/ \E v \in Workers, s \in {"top", "waitempty"} :
            /\ wpc' = [wpc EXCEPT ![v] = s] /\ UNCHANGED pc
            /\ wpc[v] \in {"top", "waitempty"}

\* Such a step keeps the invariant.
LEMMA QuietKeeps ==
    ASSUME BInv, Quiet
    PROVE  BInv'
<1>1. pc \in [Threads -> {"idle", "lock", "enqueue", "waitfull"}]
      /\ wpc \in [Workers -> {"top", "waitempty", "cb", "exit"}]
  BY DEF BInv, TypeOK
<1>2. UNCHANGED <<g_head, sub_mutex, ring, g_bus_shut_down, data, wtask, ptask, mpc, critical>>
  BY DEF Quiet
<1>3. /\ pc' \in [Threads -> {"idle", "lock", "enqueue", "waitfull"}]
      /\ wpc' \in [Workers -> {"top", "waitempty", "cb", "exit"}]
  BY <1>1 DEF Quiet
<1>4. \A u \in Threads : InEnqueue(u)' <=> InEnqueue(u)
  BY <1>1 DEF InEnqueue, Quiet
<1>5. \A v \in Workers : (wpc'[v] = "cb" <=> wpc[v] = "cb") /\ (wpc'[v] = "exit" <=> wpc[v] = "exit")
  BY <1>1 DEF Quiet
<1>6. QED
  BY <1>2, <1>3, <1>4, <1>5, ControlKeeps

\* bus_subscribe only lengthens the list of subscriptions.
LEMMA SubscribeKeeps ==
    ASSUME BInv, NEW t \in Threads, NEW k \in Keys, bus_subscribe(t, k)
    PROVE  BInv'
<1> USE BusAssumption DEF BInv
<1> DEFINE s == [id |-> Len(g_head) + 1, key |-> k]
<1>1. /\ pc[t] = "lock"
      /\ Len(g_head) < MaxSubs
      /\ g_head' = <<s>> \o g_head
      /\ pc' = [pc EXCEPT ![t] = "idle"]
      /\ UNCHANGED <<sub_mutex, tasks, head, tail, count, g_bus_shut_down, data, wpc, wtask,
                     ptask, mpc, critical>>
  BY DEF bus_subscribe, ring, work
<1>2. g_head \in Seq(Sub) /\ Len(g_head) \in Nat /\ s \in Sub
  BY <1>1 DEF TypeOK, Sub
<1> HIDE DEF s
<1>3. g_head' \in Seq(Sub) /\ Len(g_head') = Len(g_head) + 1
  BY <1>1, <1>2
<1>4. Range(g_head) \subseteq Range(g_head')
  <2>1. ASSUME NEW i \in 1..Len(g_head) PROVE g_head'[i + 1] = g_head[i] /\ i + 1 \in 1..Len(g_head')
    BY <1>1, <1>2
  <2>2. QED
    BY <1>2, <1>3, <2>1 DEF Range
<1>5. TypeOK' /\ RingConsistent'
  BY <1>1, <1>2, <1>3 DEF TypeOK, RingConsistent
<1>6. Occupied' = Occupied
  BY <1>1 DEF Occupied
<1>7. \A u \in Threads : InEnqueue(u)' <=> InEnqueue(u)
  BY <1>1 DEF InEnqueue, TypeOK
<1>8. TaskInv' /\ LockInv' /\ PhaseInv'
  BY <1>1, <1>6, <1>7 DEF TaskInv, LockInv, PhaseInv
<1>9. \A m \in Msgs :
        /\ InQueue(m)' <=> InQueue(m)
        /\ \A w \in Workers : InCallback(w, m)' <=> InCallback(w, m)
        /\ \A u \in Threads : InPublish(u, m)' <=> InPublish(u, m)
  BY <1>1, <1>6, <1>7 DEF InQueue, InCallback, InPublish
<1>10. DataOwnership'
  BY <1>1, <1>6, <1>9 DEF DataOwnership
<1>11. SubsOutliveTasks'
  BY <1>1, <1>4, <1>6, <1>7 DEF SubsOutliveTasks
<1>12. QED
  BY <1>5, <1>8, <1>10, <1>11

\* bus_publish finds its subscription and allocates a copy nobody holds yet.
LEMMA LookupKeeps ==
    ASSUME BInv, NEW t \in Threads, NEW k \in Keys, PublishLookup(t, k)
    PROVE  BInv'
<1> USE BusAssumption DEF BInv
<1>1. PICK i \in Found(k), n \in Msgs :
        /\ Fresh(n)
        /\ data' = [data EXCEPT ![n] = "live"]
        /\ ptask' = [ptask EXCEPT ![t] = [data |-> n, sub |-> g_head[i]]]
  BY DEF PublishLookup
<1>2. /\ pc[t] = "lock"
      /\ sub_mutex = None
      /\ sub_mutex' = t
      /\ pc' = [pc EXCEPT ![t] = "enqueue"]
      /\ UNCHANGED <<g_head, tasks, head, tail, count, g_bus_shut_down, wpc, wtask, mpc, critical>>
  BY DEF PublishLookup, ring, work
<1> DEFINE x == [data |-> n, sub |-> g_head[i]]
<1>3. g_head[i] \in Sub /\ g_head[i] \in Range(g_head) /\ x \in Task
  BY DEF Found, TypeOK, Range, Task
<1>4. data[n] = "unused"
  BY <1>1 DEF Fresh
<1>5. x.data = n /\ x.sub = g_head[i] /\ ptask' = [ptask EXCEPT ![t] = x]
  BY <1>1
<1> HIDE DEF x
<1>6. TypeOK' /\ RingConsistent'
  BY <1>1, <1>2, <1>3, <1>5 DEF TypeOK, RingConsistent
<1>7. Occupied' = Occupied
  BY <1>2 DEF Occupied
<1>8. \A u \in Threads : (InEnqueue(u)' <=> u = t) /\ ~InEnqueue(u)
  <2>1. \A u \in Threads : ~InEnqueue(u)
    BY <1>2 DEF LockInv
  <2>2. QED
    BY <1>2, <2>1 DEF InEnqueue, TypeOK
<1>9. TaskInv' /\ LockInv' /\ PhaseInv'
  <2>1. ptask'[t] = x
    BY <1>5 DEF TypeOK
  <2>2. QED
    BY <1>2, <1>3, <1>7, <1>8, <2>1 DEF TaskInv, LockInv, PhaseInv
<1>10. \A m \in Msgs :
        /\ InQueue(m)' <=> InQueue(m)
        /\ \A w \in Workers : InCallback(w, m)' <=> InCallback(w, m)
        /\ \A u \in Threads : InPublish(u, m)' <=> u = t /\ m = n
  BY <1>2, <1>5, <1>7, <1>8 DEF InQueue, InCallback, InPublish, TypeOK
<1>11. ~InQueue(n) /\ \A w \in Workers : ~InCallback(w, n)
  BY <1>4 DEF DataOwnership
<1>12. DataOwnership'
  BY <1>1, <1>2, <1>7, <1>10, <1>11 DEF DataOwnership, TypeOK
<1>13. SubsOutliveTasks'
  <2>1. ptask'[t].sub \in Range(g_head)
    BY <1>3, <1>5 DEF TypeOK
  <2>2. QED
    BY <1>2, <1>7, <1>8, <2>1 DEF SubsOutliveTasks
<1>14. QED
  BY <1>6, <1>9, <1>12, <1>13

\* The ring after a push: the same tasks and the new one.
LEMMA PushIs ==
    ASSUME TypeOK, RingConsistent, count < MaxTasks, NEW x,
           tasks' = [tasks EXCEPT ![tail] = x], tail' = NextSlot(tail),
           count' = count + 1, head' = head
    PROVE  /\ \A i \in 1..count : Occupied'[i] = Occupied[i]
           /\ Occupied'[count + 1] = x
           /\ RingConsistent'
           /\ tail' \in 0..(MaxTasks - 1)
<1> USE BusAssumption
<1>1. /\ head \in 0..(MaxTasks - 1) /\ tail \in 0..(MaxTasks - 1) /\ count \in 0..(MaxTasks - 1)
      /\ tasks \in [0..(MaxTasks - 1) -> Task \cup {NoTask}]
  BY DEF TypeOK
<1>2. SlotOf(head, count + 1) = tail
  BY <1>1, SlotFacts DEF RingConsistent
<1>3. ASSUME NEW i \in 1..count PROVE Occupied'[i] = Occupied[i]
  <2>1. i \in 1..MaxTasks /\ count + 1 \in 1..MaxTasks /\ i # count + 1
    BY <1>1
  <2>2. SlotOf(head, i) # tail
    BY <1>1, <1>2, <2>1, SlotsDiffer
  <2>3. SlotOf(head, i) \in 0..(MaxTasks - 1)
    BY <1>1, <2>1, SlotFacts
  <2>4. tasks'[SlotOf(head, i)] = tasks[SlotOf(head, i)]
    BY <1>1, <2>2, <2>3
  <2>5. QED
    BY <1>1, <2>4 DEF Occupied, SlotOf
<1>4. Occupied'[count + 1] = x
  <2>1. count + 1 \in 1..count' /\ tasks'[tail] = x
    BY <1>1
  <2>2. Occupied'[count + 1] = tasks'[SlotOf(head, count + 1)]
    BY <2>1 DEF Occupied, SlotOf
  <2>3. QED
    BY <1>2, <2>1, <2>2
<1>5. RingConsistent' /\ tail' \in 0..(MaxTasks - 1)
  <2>1. NextSlot((head + count) % MaxTasks) = (head + count + 1) % MaxTasks
    BY <1>1, SlotFacts
  <2>2. head + count + 1 = head + (count + 1)
    BY <1>1
  <2>3. tail' \in 0..(MaxTasks - 1)
    BY <1>1, SlotFacts
  <2>4. QED
    BY <2>1, <2>2, <2>3 DEF RingConsistent
<1>6. QED
  BY <1>3, <1>4, <1>5

\* The ring after a take: the same tasks without the oldest.
LEMMA TakeIs ==
    ASSUME TypeOK, RingConsistent, count > 0, tasks' = tasks, tail' = tail,
           head' = NextSlot(head), count' = count - 1
    PROVE  /\ \A i \in 1..(count - 1) : Occupied'[i] = Occupied[i + 1]
           /\ Occupied[1] = tasks[head]
           /\ RingConsistent'
           /\ head' \in 0..(MaxTasks - 1)
<1> USE BusAssumption
<1>1. head \in 0..(MaxTasks - 1) /\ tail \in 0..(MaxTasks - 1) /\ count \in 1..MaxTasks
  BY DEF TypeOK
<1>2. ASSUME NEW i \in 1..(count - 1) PROVE Occupied'[i] = Occupied[i + 1]
  <2>1. i \in 0..(MaxTasks - 1) /\ i + 1 \in 1..count
    BY <1>1
  <2>2. SlotOf(NextSlot(head), i) = SlotOf(head, i + 1)
    BY <1>1, <2>1, SlotFacts
  <2>3. QED
    BY <1>1, <2>1, <2>2 DEF Occupied, SlotOf
<1>3. Occupied[1] = tasks[head]
  <2>1. SlotOf(head, 1) = head
    BY <1>1, SlotFacts
  <2>2. QED
    BY <1>1, <2>1 DEF Occupied, SlotOf
<1>4. RingConsistent' /\ head' \in 0..(MaxTasks - 1)
  <2>1. (NextSlot(head) + (count - 1)) % MaxTasks = (head + count) % MaxTasks
    BY <1>1, SlotFacts
  <2>2. head' \in 0..(MaxTasks - 1)
    BY <1>1, SlotFacts
  <2>3. QED
    BY <2>1, <2>2 DEF RingConsistent
<1>5. QED
  BY <1>2, <1>3, <1>4

-----------------------------------------------------------------------------
(* The steps that move tasks.                                              *)

\* The publisher in enqueue_task is the only one and holds a live copy that
\* nobody else has.
LEMMA PublisherAlone ==
    ASSUME BInv, NEW t \in Threads, InEnqueue(t)
    PROVE  /\ \A u \in Threads : InEnqueue(u) <=> u = t
           /\ sub_mutex = t
           /\ ptask[t] \in Task
           /\ ptask[t].sub \in Range(g_head)
           /\ ptask[t].data \in Msgs
           /\ data[ptask[t].data] = "live"
           /\ ~InQueue(ptask[t].data)
           /\ \A w \in Workers : ~InCallback(w, ptask[t].data)
<1> USE DEF BInv
<1>1. /\ \A u \in Threads : InEnqueue(u) <=> u = t
      /\ sub_mutex = t
  BY DEF LockInv
<1>2. ptask[t] \in Task /\ ptask[t].sub \in Range(g_head)
  BY DEF TaskInv, SubsOutliveTasks
<1>3. ptask[t].data \in Msgs
  BY <1>2 DEF Task
<1>4. InPublish(t, ptask[t].data)
  BY DEF InPublish
<1>5. QED
  BY <1>1, <1>2, <1>3, <1>4 DEF DataOwnership

\* enqueue_task stores a task.
LEMMA PushKeeps ==
    ASSUME BInv, NEW t \in Threads, EnqueuePush(t)
    PROVE  BInv'
<1> USE BusAssumption DEF BInv
<1> DEFINE x == ptask[t]
<1>1. /\ pc[t] = "enqueue" /\ count < MaxTasks /\ ~g_bus_shut_down
      /\ tasks' = [tasks EXCEPT ![tail] = x] /\ tail' = NextSlot(tail)
      /\ count' = count + 1 /\ head' = head
      /\ wpc' \in Signal(wpc, "waitempty", "top")
      /\ sub_mutex' = None
      /\ pc' = [pc EXCEPT ![t] = "idle"]
      /\ ptask' = [ptask EXCEPT ![t] = NoTask]
      /\ UNCHANGED <<g_head, g_bus_shut_down, data, wtask, mpc, critical>>
  BY DEF EnqueuePush, PublishReturn
<1>2. InEnqueue(t)
  BY <1>1 DEF InEnqueue
<1>3. /\ \A u \in Threads : InEnqueue(u) <=> u = t
      /\ sub_mutex = t
      /\ x \in Task /\ x.sub \in Range(g_head) /\ x.data \in Msgs
      /\ data[x.data] = "live"
      /\ ~InQueue(x.data)
      /\ \A w \in Workers : ~InCallback(w, x.data)
  BY <1>2, PublisherAlone
<1> HIDE DEF x
<1>4. /\ \A i \in 1..count : Occupied'[i] = Occupied[i]
      /\ Occupied'[count + 1] = x
      /\ RingConsistent'
      /\ tail' \in 0..(MaxTasks - 1)
  BY <1>1, PushIs
<1>5. /\ wpc' \in [Workers -> {"top", "waitempty", "cb", "exit"}]
      /\ \A w \in Workers : (wpc'[w] = "cb" <=> wpc[w] = "cb") /\ (wpc'[w] = "exit" <=> wpc[w] = "exit")
  <2>1. wpc \in [Workers -> {"top", "waitempty", "cb", "exit"}]
    BY DEF TypeOK
  <2>2. /\ wpc' \in [Workers -> {"top", "waitempty", "cb", "exit"}]
        /\ \A w \in Workers : wpc'[w] = wpc[w] \/ (wpc[w] = "waitempty" /\ wpc'[w] = "top")
    BY <1>1, <2>1 DEF Signal
  <2>3. QED
    BY <2>2
<1>6. count \in Nat /\ count' \in 0..MaxTasks /\ 1..count' = 1..count \cup {count + 1}
  BY <1>1 DEF TypeOK
<1>7. \A u \in Threads : ~InEnqueue(u)'
  BY <1>1, <1>3 DEF InEnqueue, TypeOK
<1>8. TypeOK'
  <2>1. /\ sub_mutex' \in Threads \cup {None, Gone}
        /\ tasks' \in [0..(MaxTasks - 1) -> Task \cup {NoTask}]
        /\ pc' \in [Threads -> {"idle", "lock", "enqueue", "waitfull"}]
        /\ ptask' \in [Threads -> Task \cup {NoTask}]
    BY <1>1, <1>3 DEF TypeOK
  <2>2. QED
    BY <1>1, <1>4, <1>5, <1>6, <2>1 DEF TypeOK
<1>9. TaskInv'
  BY <1>1, <1>3, <1>4, <1>5, <1>6, <1>7 DEF TaskInv
<1>10. LockInv' /\ PhaseInv'
  BY <1>1, <1>3, <1>5, <1>7 DEF LockInv, PhaseInv
<1>11. \A m \in Msgs :
        /\ InQueue(m)' <=> InQueue(m) \/ m = x.data
        /\ \A w \in Workers : InCallback(w, m)' <=> InCallback(w, m)
        /\ \A u \in Threads : ~InPublish(u, m)'
  BY <1>1, <1>4, <1>5, <1>6, <1>7 DEF InQueue, InCallback, InPublish
<1>12. ASSUME NEW i \in 1..count', NEW j \in 1..count', (Occupied[i].data)' = (Occupied[j].data)'
       PROVE  i = j
  <2>1. CASE i \in 1..count /\ j \in 1..count
    BY <1>4, <1>12, <2>1 DEF DataOwnership
  <2>2. CASE i = count + 1 /\ j = count + 1
    BY <2>2
  <2>3. CASE i = count + 1 /\ j \in 1..count
    BY <1>3, <1>4, <1>12, <2>3 DEF InQueue
  <2>4. CASE j = count + 1 /\ i \in 1..count
    BY <1>3, <1>4, <1>12, <2>4 DEF InQueue
  <2>5. QED
    BY <1>6, <2>1, <2>2, <2>3, <2>4
<1>13. DataOwnership'
  BY <1>1, <1>3, <1>11, <1>12 DEF DataOwnership
<1>14. SubsOutliveTasks'
  BY <1>1, <1>3, <1>4, <1>5, <1>6, <1>7 DEF SubsOutliveTasks
<1>15. QED
  BY <1>4, <1>8, <1>9, <1>10, <1>13, <1>14

\* enqueue_task refuses a task: the publisher just goes away.
LEMMA RefuseKeeps ==
    ASSUME BInv, NEW t \in Threads, EnqueueRefuse(t)
    PROVE  BInv'
<1> USE BusAssumption DEF BInv
<1>1. /\ pc[t] = "enqueue"
      /\ sub_mutex' = None
      /\ pc' = [pc EXCEPT ![t] = "idle"]
      /\ ptask' = [ptask EXCEPT ![t] = NoTask]
      /\ UNCHANGED <<g_head, tasks, head, tail, count, g_bus_shut_down, data, wpc, wtask, mpc, critical>>
  BY DEF EnqueueRefuse, PublishReturn, ring, work
<1>2. InEnqueue(t)
  BY <1>1 DEF InEnqueue
<1>3. (\A u \in Threads : InEnqueue(u) <=> u = t) /\ sub_mutex = t
  BY <1>2, PublisherAlone
<1>4. \A u \in Threads : ~InEnqueue(u)'
  BY <1>1, <1>3 DEF InEnqueue, TypeOK
<1>5. TypeOK' /\ RingConsistent'
  BY <1>1 DEF TypeOK, RingConsistent
<1>6. Occupied' = Occupied
  BY <1>1 DEF Occupied
<1>7. TaskInv' /\ LockInv' /\ PhaseInv'
  BY <1>1, <1>3, <1>4, <1>6 DEF TaskInv, LockInv, PhaseInv
<1>8. \A m \in Msgs :
        /\ InQueue(m)' <=> InQueue(m)
        /\ \A w \in Workers : InCallback(w, m)' <=> InCallback(w, m)
        /\ \A u \in Threads : ~InPublish(u, m)'
  BY <1>1, <1>4, <1>6 DEF InQueue, InCallback, InPublish
<1>9. DataOwnership'
  BY <1>1, <1>6, <1>8 DEF DataOwnership
<1>10. SubsOutliveTasks'
  BY <1>1, <1>4, <1>6 DEF SubsOutliveTasks
<1>11. QED
  BY <1>5, <1>7, <1>9, <1>10

\* A worker takes the oldest task.
LEMMA TakeKeeps ==
    ASSUME BInv, NEW w \in Workers, WorkerTake(w)
    PROVE  BInv'
<1> USE BusAssumption DEF BInv
<1> DEFINE x == tasks[head]
<1>1. /\ wpc[w] = "top" /\ count > 0
      /\ wtask' = [wtask EXCEPT ![w] = x]
      /\ head' = NextSlot(head) /\ count' = count - 1
      /\ wpc' = [wpc EXCEPT ![w] = "cb"]
      /\ pc' \in Signal(pc, "waitfull", "enqueue")
      /\ UNCHANGED <<g_head, sub_mutex, tasks, tail, g_bus_shut_down, data, ptask, mpc, critical>>
  BY DEF WorkerTake
<1>2. /\ \A i \in 1..(count - 1) : Occupied'[i] = Occupied[i + 1]
      /\ Occupied[1] = x
      /\ RingConsistent'
      /\ head' \in 0..(MaxTasks - 1)
  BY <1>1, TakeIs
<1> HIDE DEF x
<1>3. count \in 1..MaxTasks /\ count' \in 0..MaxTasks /\ 1 \in 1..count
      /\ \A i \in 1..(count - 1) : i + 1 \in 1..count
  BY <1>1 DEF TypeOK
<1>4. x \in Task /\ x.sub \in Range(g_head) /\ x.data \in Msgs
  <2>1. Occupied[1] \in Task /\ Occupied[1].sub \in Range(g_head)
    BY <1>3 DEF TaskInv, SubsOutliveTasks
  <2>2. QED
    BY <1>2, <2>1 DEF Task
<1>5. InQueue(x.data) /\ data[x.data] = "live"
  <2>1. InQueue(x.data)
    BY <1>2, <1>3 DEF InQueue
  <2>2. QED
    BY <1>4, <2>1 DEF DataOwnership
<1>6. /\ pc' \in [Threads -> {"idle", "lock", "enqueue", "waitfull"}]
      /\ \A u \in Threads : InEnqueue(u)' <=> InEnqueue(u)
  <2>1. pc \in [Threads -> {"idle", "lock", "enqueue", "waitfull"}]
    BY DEF TypeOK
  <2>2. /\ pc' \in [Threads -> {"idle", "lock", "enqueue", "waitfull"}]
        /\ \A u \in Threads : pc'[u] = pc[u] \/ (pc[u] = "waitfull" /\ pc'[u] = "enqueue")
    BY <1>1, <2>1 DEF Signal
  <2>3. QED
    BY <2>2 DEF InEnqueue
<1>7. /\ wpc' \in [Workers -> {"top", "waitempty", "cb", "exit"}]
      /\ \A v \in Workers : wpc'[v] = IF v = w THEN "cb" ELSE wpc[v]
      /\ \A v \in Workers : wtask'[v] = IF v = w THEN x ELSE wtask[v]
  BY <1>1 DEF TypeOK
<1>8. TypeOK'
  <2>1. wtask' \in [Workers -> Task \cup {NoTask}]
    BY <1>1, <1>4 DEF TypeOK
  <2>2. QED
    BY <1>1, <1>2, <1>3, <1>6, <1>7, <2>1 DEF TypeOK
<1>9. TaskInv'
  BY <1>1, <1>2, <1>3, <1>4, <1>6, <1>7 DEF TaskInv
<1>10. LockInv' /\ PhaseInv'
  BY <1>1, <1>6, <1>7 DEF LockInv, PhaseInv
<1>11. ASSUME NEW m \in Msgs
       PROVE  /\ InQueue(m)' => InQueue(m) /\ m # x.data
              /\ \A v \in Workers : InCallback(v, m)' <=> InCallback(v, m) \/ (v = w /\ m = x.data)
              /\ \A u \in Threads : InPublish(u, m)' <=> InPublish(u, m)
  <2>1. InQueue(m)' => InQueue(m) /\ m # x.data
    <3>1. SUFFICES ASSUME InQueue(m)' PROVE InQueue(m) /\ m # x.data
      OBVIOUS
    <3>2. PICK i \in 1..(count - 1) : Occupied'[i].data = m
      BY <1>1, <3>1 DEF InQueue
    <3>3. Occupied[i + 1].data = m /\ i + 1 \in 1..count /\ i + 1 # 1
      BY <1>2, <1>3, <3>2
    <3>4. m # x.data
      BY <1>2, <1>3, <3>3 DEF DataOwnership
    <3>5. QED
      BY <3>3, <3>4 DEF InQueue
  <2>2. ASSUME NEW v \in Workers
        PROVE  InCallback(v, m)' <=> InCallback(v, m) \/ (v = w /\ m = x.data)
    BY <1>1, <1>7 DEF InCallback
  <2>3. \A u \in Threads : InPublish(u, m)' <=> InPublish(u, m)
    BY <1>1, <1>6 DEF InPublish
  <2>4. QED
    BY <2>1, <2>2, <2>3
<1>12. \A i, j \in 1..count' : (Occupied[i].data)' = (Occupied[j].data)' => i = j
  <2>1. \A i, j \in 1..count : Occupied[i].data = Occupied[j].data => i = j
    BY DEF DataOwnership
  <2>2. SUFFICES ASSUME NEW i \in 1..(count - 1), NEW j \in 1..(count - 1),
                        Occupied[i + 1].data = Occupied[j + 1].data
                 PROVE  i = j
    BY <1>1, <1>2
  <2>3. i + 1 = j + 1
    BY <1>3, <2>1, <2>2
  <2>4. QED
    BY <1>3, <2>3
<1>13. /\ \A v \in Workers : ~InCallback(v, x.data)
       /\ \A u \in Threads : ~InPublish(u, x.data)
  BY <1>4, <1>5 DEF DataOwnership
<1>14. DataOwnership'
  <2>1. ASSUME NEW m \in Msgs
        PROVE  /\ InQueue(m)' => \A v \in Workers : ~InCallback(v, m)'
               /\ InQueue(m)' \/ (\E v \in Workers : InCallback(v, m)') =>
                      \A t \in Threads : ~InPublish(t, m)'
               /\ \A u, v \in Workers : InCallback(u, m)' /\ InCallback(v, m)' => u = v
               /\ InQueue(m)' \/ (\E v \in Workers : InCallback(v, m)')
                              \/ (\E t \in Threads : InPublish(t, m)') => data[m] = "live"
    <3>1. CASE m = x.data
      BY <1>5, <1>11, <1>13, <3>1
    <3>2. CASE m # x.data
      BY <1>11, <3>2 DEF DataOwnership
    <3>3. QED
      BY <3>1, <3>2
  <2>2. QED
    BY <1>1, <1>12, <2>1 DEF DataOwnership
<1>15. SubsOutliveTasks'
  BY <1>1, <1>2, <1>3, <1>4, <1>6, <1>7 DEF SubsOutliveTasks
<1>16. QED
  BY <1>2, <1>8, <1>9, <1>10, <1>14, <1>15

\* A task is over: the worker gives up its task and the copy is freed; at most
\* one unused copy (fresh, that of a nested call that crashed) becomes live.
LEMMA DoneKeeps ==
    ASSUME BInv, NEW w \in Workers, TaskDone(w),
           NEW fresh \in SUBSET Msgs,
           \A m \in fresh : data[m] = "unused",
           data' = [m \in Msgs |-> IF m \in fresh THEN "live" ELSE Released(w)[m]],
           pc' \in [Threads -> {"idle", "lock", "enqueue", "waitfull"}],
           \A t \in Threads : InEnqueue(t)' <=> InEnqueue(t),
           sub_mutex' = sub_mutex \/ (sub_mutex = None /\ sub_mutex' = w),
           critical' = critical \/ critical' = critical \cup {wtask[w].sub},
           UNCHANGED <<g_head, ring, g_bus_shut_down, ptask, mpc>>
    PROVE  BInv'
<1> USE BusAssumption DEF BInv
<1> DEFINE d == wtask[w].data
<1>1. /\ wpc[w] = "cb"
      /\ wpc' = [wpc EXCEPT ![w] = "top"]
      /\ wtask' = [wtask EXCEPT ![w] = NoTask]
      /\ UNCHANGED <<tasks, head, tail, count>>
  BY DEF TaskDone, ring
<1>2. wtask[w] \in Task /\ d \in Msgs /\ wtask[w].sub \in Sub
  BY <1>1 DEF TaskInv, Task
<1>3. /\ \A v \in Workers : wpc'[v] = IF v = w THEN "top" ELSE wpc[v]
      /\ \A v \in Workers : v # w => wtask'[v] = wtask[v]
  BY <1>1 DEF TypeOK
<1>4. InCallback(w, d)
  BY <1>1 DEF InCallback
<1>5. data[d] = "live" /\ ~InQueue(d) /\ (\A t \in Threads : ~InPublish(t, d))
      /\ \A v \in Workers : InCallback(v, d) => v = w
  BY <1>2, <1>4 DEF DataOwnership
<1>6. \A m \in Msgs : m # d /\ data[m] # "unused" => data'[m] = data[m]
  BY DEF Released, TypeOK
<1> HIDE DEF d
<1>7. TypeOK' /\ RingConsistent'
  <2>1. data' \in [Msgs -> {"unused", "live", "freed"}]
    <3>1. Released(w) \in [Msgs -> {"unused", "live", "freed"}]
      BY DEF Released, TypeOK
    <3>2. QED
      BY <3>1
  <2>2. /\ wpc' \in [Workers -> {"top", "waitempty", "cb", "exit"}]
        /\ wtask' \in [Workers -> Task \cup {NoTask}]
    BY <1>1 DEF TypeOK
  <2>3. critical' \subseteq Sub
    BY <1>2 DEF TypeOK
  <2>4. sub_mutex' \in Threads \cup {None, Gone}
    BY DEF TypeOK, Threads
  <2>5. TypeOK'
    BY <1>1, <2>1, <2>2, <2>3, <2>4 DEF TypeOK
  <2>6. QED
    BY <1>1, <2>5 DEF RingConsistent
<1>8. Occupied' = Occupied
  BY <1>1 DEF Occupied
<1>9. TaskInv'
  BY <1>1, <1>3, <1>8 DEF TaskInv
<1>10. LockInv'
  BY DEF LockInv, Threads
<1>11. PhaseInv'
  BY <1>1, <1>3 DEF PhaseInv, Threads
<1>12. \A m \in Msgs :
        /\ InQueue(m)' <=> InQueue(m)
        /\ \A v \in Workers : InCallback(v, m)' <=> InCallback(v, m) /\ v # w
        /\ \A t \in Threads : InPublish(t, m)' <=> InPublish(t, m)
  BY <1>1, <1>3, <1>8 DEF InQueue, InCallback, InPublish
<1>13. DataOwnership'
  <2>1. ASSUME NEW m \in Msgs
        PROVE  /\ InQueue(m)' => \A v \in Workers : ~InCallback(v, m)'
               /\ InQueue(m)' \/ (\E v \in Workers : InCallback(v, m)') =>
                      \A t \in Threads : ~InPublish(t, m)'
               /\ \A u, v \in Workers : InCallback(u, m)' /\ InCallback(v, m)' => u = v
    BY <1>12 DEF DataOwnership
  <2>2. ASSUME NEW m \in Msgs,
               InQueue(m)' \/ (\E v \in Workers : InCallback(v, m)') \/ (\E t \in Threads : InPublish(t, m)')
        PROVE  data'[m] = "live"
    <3>1. InQueue(m) \/ (\E v \in Workers : InCallback(v, m) /\ v # w) \/ (\E t \in Threads : InPublish(t, m))
      BY <1>12, <2>2
    <3>2. data[m] = "live"
      BY <3>1 DEF DataOwnership
    <3>3. m # d
      BY <1>5, <3>1
    <3>4. QED
      BY <1>6, <3>2, <3>3
  <2>3. \A i, j \in 1..count' : (Occupied[i].data)' = (Occupied[j].data)' => i = j
    BY <1>1, <1>8 DEF DataOwnership
  <2>4. QED
    BY <2>1, <2>2, <2>3 DEF DataOwnership
<1>14. SubsOutliveTasks'
  BY <1>1, <1>3, <1>8 DEF SubsOutliveTasks
<1>15. QED
  BY <1>7, <1>9, <1>10, <1>11, <1>13, <1>14

\* A callback returns, or crashes.
LEMMA CallbackKeeps ==
    ASSUME BInv, NEW w \in Workers, CbReturn(w) \/ CbCrash(w)
    PROVE  BInv'
<1>1. /\ TaskDone(w)
      /\ data' = Released(w)
      /\ critical' = critical \/ critical' = critical \cup {wtask[w].sub}
      /\ sub_mutex' = sub_mutex /\ pc' = pc
      /\ UNCHANGED <<g_head, ring, g_bus_shut_down, ptask, mpc>>
  BY DEF CbReturn, CbCrash, pub
<1>2. data' = [m \in Msgs |-> IF m \in {} THEN "live" ELSE Released(w)[m]]
  BY <1>1 DEF BInv, TypeOK, Released
<1>3. \A t \in Threads : InEnqueue(t)' <=> InEnqueue(t)
  BY <1>1 DEF InEnqueue
<1>4. {} \in SUBSET Msgs /\ (\A m \in {} : data[m] = "unused")
  OBVIOUS
<1>5. pc' \in [Threads -> {"idle", "lock", "enqueue", "waitfull"}]
  BY <1>1 DEF BInv, TypeOK
<1>6. QED
  BY <1>1, <1>2, <1>3, <1>4, <1>5, DoneKeeps

\* A nested bus_publish crashes.
LEMMA CopyKeeps ==
    ASSUME BInv, NEW w \in Workers, NEW k \in Keys, CopyCrash(w, k)
    PROVE  BInv'
<1>1. /\ pc \in [Threads -> {"idle", "lock", "enqueue", "waitfull"}]
      /\ Released(w) \in [Msgs -> {"unused", "live", "freed"}]
      /\ w \in Threads
  BY DEF BInv, TypeOK, Released, Threads
<1>2. PICK n \in Msgs : Fresh(n) /\ data' = [Released(w) EXCEPT ![n] = "live"]
  BY DEF CopyCrash
<1>3. /\ TaskDone(w)
      /\ pc[w] = "lock" /\ pc' = [pc EXCEPT ![w] = "idle"]
      /\ sub_mutex = None /\ sub_mutex' = w
      /\ critical' = critical \cup {wtask[w].sub}
      /\ UNCHANGED <<g_head, ring, g_bus_shut_down, ptask, mpc>>
  BY DEF CopyCrash
<1>4. data' = [m \in Msgs |-> IF m \in {n} THEN "live" ELSE Released(w)[m]]
  BY <1>1, <1>2
<1>5. \A m \in {n} : data[m] = "unused"
  BY <1>2 DEF Fresh
<1>6. \A t \in Threads : InEnqueue(t)' <=> InEnqueue(t)
  BY <1>1, <1>3 DEF InEnqueue
<1>7. pc' \in [Threads -> {"idle", "lock", "enqueue", "waitfull"}]
  BY <1>1, <1>3
<1>8. {n} \in SUBSET Msgs
  OBVIOUS
<1>9. QED
  BY <1>3, <1>4, <1>5, <1>6, <1>7, <1>8, DoneKeeps

-----------------------------------------------------------------------------
(* The steps of the shutdown.                                              *)

\* A worker leaves: only in a shutdown and with an empty queue.
LEMMA ExitKeeps ==
    ASSUME BInv, NEW w \in Workers, WorkerExit(w)
    PROVE  BInv'
<1> USE DEF BInv
<1>1. /\ wpc[w] = "top" /\ g_bus_shut_down /\ count = 0
      /\ wpc' = [wpc EXCEPT ![w] = "exit"]
      /\ UNCHANGED <<g_head, sub_mutex, tasks, head, tail, count, g_bus_shut_down, data, wtask,
                     pc, ptask, mpc, critical>>
  BY DEF WorkerExit, Leaves, ring, pub
<1>2. \A v \in Workers : wpc'[v] = IF v = w THEN "exit" ELSE wpc[v]
  BY <1>1 DEF TypeOK
<1>3. TypeOK' /\ RingConsistent'
  BY <1>1 DEF TypeOK, RingConsistent
<1>4. Occupied' = Occupied /\ \A t \in Threads : InEnqueue(t)' <=> InEnqueue(t)
  BY <1>1 DEF Occupied, InEnqueue
<1>5. TaskInv' /\ LockInv' /\ PhaseInv'
  BY <1>1, <1>2, <1>4 DEF TaskInv, LockInv, PhaseInv
<1>6. \A m \in Msgs :
        /\ InQueue(m)' <=> InQueue(m)
        /\ \A v \in Workers : InCallback(v, m)' <=> InCallback(v, m)
        /\ \A t \in Threads : InPublish(t, m)' <=> InPublish(t, m)
  BY <1>1, <1>2, <1>4 DEF InQueue, InCallback, InPublish
<1>7. DataOwnership'
  BY <1>1, <1>4, <1>6 DEF DataOwnership
<1>8. SubsOutliveTasks'
  BY <1>1, <1>2, <1>4 DEF SubsOutliveTasks
<1>9. QED
  BY <1>3, <1>5, <1>7, <1>8

\* bus_shutdown announces the shutdown, or has joined the workers.
LEMMA PhaseKeeps ==
    ASSUME BInv, ShutdownSignal \/ ShutdownJoin
    PROVE  BInv'
<1> USE DEF BInv
<1>1. /\ UNCHANGED <<g_head, sub_mutex, tasks, head, tail, count, data, wtask, pc, ptask, critical>>
      /\ mpc' \in {"join", "drain"}
      /\ mpc \in {"run", "join"}
      /\ g_bus_shut_down'
      /\ g_bus_shut_down' \in BOOLEAN
      /\ mpc' = "drain" => \A w \in Workers : wpc'[w] = "exit"
  <2>1. CASE ShutdownSignal
    BY <2>1 DEF ShutdownSignal, ring, pub
  <2>2. CASE ShutdownJoin
    BY <2>2 DEF ShutdownJoin, Joined, ring, work, pub, PhaseInv, TypeOK
  <2>3. QED
    BY <2>1, <2>2
<1>2. /\ wpc' \in [Workers -> {"top", "waitempty", "cb", "exit"}]
      /\ \A w \in Workers : (wpc'[w] = "cb" <=> wpc[w] = "cb") /\ (wpc'[w] = "exit" <=> wpc[w] = "exit")
  BY DEF ShutdownSignal, ShutdownJoin, TypeOK, work
<1>3. TypeOK' /\ RingConsistent'
  BY <1>1, <1>2 DEF TypeOK, RingConsistent
<1>4. Occupied' = Occupied /\ \A t \in Threads : InEnqueue(t)' <=> InEnqueue(t)
  BY <1>1 DEF Occupied, InEnqueue
<1>5. TaskInv' /\ LockInv'
  BY <1>1, <1>2, <1>4 DEF TaskInv, LockInv
<1>6. PhaseInv'
  BY <1>1, <1>2 DEF PhaseInv
<1>7. \A m \in Msgs :
        /\ InQueue(m)' <=> InQueue(m)
        /\ \A v \in Workers : InCallback(v, m)' <=> InCallback(v, m)
        /\ \A t \in Threads : InPublish(t, m)' <=> InPublish(t, m)
  BY <1>1, <1>2, <1>4 DEF InQueue, InCallback, InPublish
<1>8. DataOwnership'
  BY <1>1, <1>4, <1>7 DEF DataOwnership
<1>9. SubsOutliveTasks'
  BY <1>1, <1>2, <1>4 DEF SubsOutliveTasks
<1>10. QED
  BY <1>3, <1>5, <1>6, <1>8, <1>9

\* Once the workers have left, the queue is empty and no callback runs: what
\* bus_shutdown frees then, nobody holds.
LEMMA FreeKeeps ==
    ASSUME BInv, ShutdownDrain \/ ShutdownSubs
    PROVE  BInv'
<1> USE BusAssumption DEF BInv
<1>1. \A w \in Workers : wpc[w] = "exit"
  BY DEF PhaseInv, ShutdownDrain, ShutdownSubs
<1>2. count = 0 /\ 1..count = {}
  BY <1>1 DEF PhaseInv
<1>3. UNCHANGED <<tasks, head, tail, count, g_bus_shut_down, wpc, wtask, pc, ptask, critical>>
  BY DEF ShutdownDrain, ShutdownSubs, ring, work, pub
<1>4. \A m \in Msgs : ~InQueue(m)' /\ \A w \in Workers : ~InCallback(w, m)'
  BY <1>1, <1>2, <1>3 DEF InQueue, InCallback
<1>5. CASE ShutdownDrain
  <2>1. data' = data /\ mpc' = "subs" /\ mpc = "drain" /\ UNCHANGED <<g_head, sub_mutex>>
    BY <1>2, <1>5 DEF ShutdownDrain, TypeOK
  <2>2. TypeOK' /\ RingConsistent'
    BY <1>3, <2>1 DEF TypeOK, RingConsistent
  <2>3. \A t \in Threads : InEnqueue(t)' <=> InEnqueue(t)
    BY <1>3 DEF InEnqueue
  <2>4. TaskInv' /\ LockInv' /\ PhaseInv'
    BY <1>1, <1>2, <1>3, <2>1, <2>3 DEF TaskInv, LockInv, PhaseInv
  <2>5. \A m \in Msgs : \A t \in Threads : InPublish(t, m)' <=> InPublish(t, m)
    BY <1>3, <2>3 DEF InPublish
  <2>6. DataOwnership'
    BY <1>2, <1>3, <1>4, <2>1, <2>5 DEF DataOwnership
  <2>7. SubsOutliveTasks'
    BY <1>1, <1>2, <1>3, <2>1, <2>3 DEF SubsOutliveTasks
  <2>8. QED
    BY <2>2, <2>4, <2>6, <2>7
<1>6. CASE ShutdownSubs
  <2>1. data' = data /\ mpc' = "done" /\ mpc = "subs" /\ g_head' = <<>> /\ sub_mutex = None /\ sub_mutex' = Gone
    BY <1>6 DEF ShutdownSubs
  <2>2. g_head' \in Seq(Sub) /\ Len(g_head') <= MaxSubs
    BY <2>1
  <2>3. TypeOK' /\ RingConsistent'
    BY <1>3, <2>1, <2>2 DEF TypeOK, RingConsistent
  <2>4. \A t \in Threads : ~InEnqueue(t)'
    <3>1. \A t \in Threads : ~InEnqueue(t)
      BY <2>1 DEF LockInv
    <3>2. QED
      BY <1>3, <3>1 DEF InEnqueue
  <2>5. TaskInv' /\ LockInv' /\ PhaseInv'
    BY <1>1, <1>2, <1>3, <2>1, <2>4 DEF TaskInv, LockInv, PhaseInv
  <2>6. \A m \in Msgs : \A t \in Threads : ~InPublish(t, m)'
    BY <2>4 DEF InPublish
  <2>7. DataOwnership'
    BY <1>2, <1>3, <1>4, <2>1, <2>6 DEF DataOwnership
  <2>8. SubsOutliveTasks'
    BY <1>1, <1>2, <1>3, <2>4 DEF SubsOutliveTasks
  <2>9. QED
    BY <2>3, <2>5, <2>7, <2>8
<1>7. QED
  BY <1>5, <1>6

-----------------------------------------------------------------------------
(* The theorems.                                                           *)

\* Every step of the bus preserves the inductive invariant.
LEMMA NextBInv == BInv /\ [Next]_vars => BInv'
<1> SUFFICES ASSUME BInv, [Next]_vars PROVE BInv'
  OBVIOUS
<1>1. UNCHANGED vars => Quiet
  BY DEF vars, work, pub, Quiet
<1>2. ASSUME NEW t \in Threads PROVE Call(t) => Quiet
  BY DEF Call, CallRejected, CallLock, CanCall, work, pub, Quiet
<1>3. ASSUME NEW t \in Threads PROVE (\E k \in Keys : PublishFails(t, k)) \/ EnqueueWait(t) => Quiet
  BY DEF PublishFails, EnqueueWait, work, Quiet
<1>4. ASSUME NEW t \in Threads PROVE CallStep(t) => BInv'
  BY <1>3, QuietKeeps, SubscribeKeeps, LookupKeeps, PushKeeps, RefuseKeeps DEF CallStep
<1>5. ASSUME NEW w \in Workers PROVE WorkerWait(w) => Quiet
  BY DEF WorkerWait, pub, Quiet
<1>6. ASSUME NEW w \in Workers PROVE WorkerStep(w) => BInv'
  BY <1>5, QuietKeeps, ExitKeeps, TakeKeeps DEF WorkerStep
<1>7. ASSUME NEW w \in Workers, CbReturn(w) \/ CbCrash(w) PROVE BInv'
  BY <1>7, CallbackKeeps
<1>8. ASSUME NEW w \in Workers, NEW k \in Keys, CopyCrash(w, k) PROVE BInv'
  BY <1>8, CopyKeeps
<1>9. SpuriousWake => Quiet
  BY DEF SpuriousWake, Quiet
<1>10. QED
  BY <1>1, <1>2, <1>4, <1>6, <1>7, <1>8, <1>9, QuietKeeps, PhaseKeeps, FreeKeeps
     DEF Next, ShutdownStep

\* The bus never leaves the inductive invariant.
THEOREM BusInvariance == Spec => []BInv
  BY InitBInv, NextBInv, PTL DEF Spec

\* Every variable keeps its type.
THEOREM BusTypes == Spec => []TypeOK
<1>1. BInv => TypeOK
  BY DEF BInv
<1>2. QED
  BY <1>1, BusInvariance, PTL

\* head, tail and count always describe the same segment of the ring.
THEOREM BusRing == Spec => []RingConsistent
<1>1. BInv => RingConsistent
  BY DEF BInv
<1>2. QED
  BY <1>1, BusInvariance, PTL

\* Whatever threads publish, deliver, crash and shut down, a published copy
\* has one holder and is live as long as it has one: nothing is delivered
\* twice, used after it is freed or freed twice.
THEOREM BusOwnership == Spec => []DataOwnership
<1>1. BInv => DataOwnership
  BY DEF BInv
<1>2. QED
  BY <1>1, BusInvariance, PTL

\* bus_shutdown never frees a subscription a task or a publisher points at.
THEOREM BusSubsOutlive == Spec => []SubsOutliveTasks
<1>1. BInv => SubsOutliveTasks
  BY DEF BInv
<1>2. QED
  BY <1>1, BusInvariance, PTL

\* When bus_shutdown has joined the workers the queue is empty.
THEOREM BusDrained == Spec => []DrainedAtJoin
<1>1. BInv => DrainedAtJoin
  BY BusAssumption DEF BInv, PhaseInv, DrainedAtJoin
<1>2. QED
  BY <1>1, BusInvariance, PTL

-----------------------------------------------------------------------------
(* No wake-up is lost.                                                     *)

\* A step that keeps the number of tasks, puts no publisher to sleep and takes
\* no worker out of its loop keeps WaitersWoken.
LEMMA CalmKeepsWoken ==
    ASSUME WaitersWoken, count' = count,
           \A t \in Threads : pc'[t] = "waitfull" => pc[t] = "waitfull",
           \A w \in Workers : wpc[w] \in {"top", "cb"} => wpc'[w] \in {"top", "cb"}
    PROVE  WaitersWoken'
  BY DEF WaitersWoken

\* A push wakes a worker if one sleeps; if none does, all of them are awake, for
\* nobody leaves before the shutdown.
LEMMA PushKeepsWoken ==
    ASSUME BInv, WaitersWoken, NEW t \in Threads, EnqueuePush(t)
    PROVE  WaitersWoken'
<1>1. /\ pc \in [Threads -> {"idle", "lock", "enqueue", "waitfull"}]
      /\ wpc \in [Workers -> {"top", "waitempty", "cb", "exit"}]
  BY DEF BInv, TypeOK
<1>2. /\ pc[t] = "enqueue" /\ ~g_bus_shut_down
      /\ pc' = [pc EXCEPT ![t] = "idle"]
      /\ wpc' \in Signal(wpc, "waitempty", "top")
  BY DEF EnqueuePush, PublishReturn
<1>3. InEnqueue(t)
  BY <1>2 DEF InEnqueue
<1>4. \A u \in Threads : pc'[u] # "waitfull"
  <2>1. \A u \in Threads : InEnqueue(u) <=> u = t
    BY <1>3, PublisherAlone
  <2>2. QED
    BY <1>1, <1>2, <2>1 DEF InEnqueue
<1>5. \E w \in Workers : wpc'[w] \in {"top", "cb"}
  <2>1. CASE \E w \in Workers : wpc[w] = "waitempty"
    <3>1. PICK x \in Workers : wpc' = [wpc EXCEPT ![x] = "top"]
      BY <1>1, <1>2, <2>1 DEF Signal
    <3>2. QED
      BY <1>1, <3>1
  <2>2. CASE ~\E w \in Workers : wpc[w] = "waitempty"
    <3>1. wpc' = wpc
      BY <1>1, <1>2, <2>2 DEF Signal
    <3>2. \A w \in Workers : wpc[w] # "exit"
      BY <1>2 DEF BInv, PhaseInv
    <3>3. PICK w \in Workers : TRUE
      BY BusAssumption
    <3>4. QED
      BY <1>1, <2>2, <3>1, <3>2, <3>3
  <2>3. QED
    BY <2>1, <2>2
<1>6. QED
  BY <1>4, <1>5 DEF WaitersWoken

\* A take wakes the one publisher that can be asleep.
LEMMA TakeKeepsWoken ==
    ASSUME BInv, WaitersWoken, NEW w \in Workers, WorkerTake(w)
    PROVE  WaitersWoken'
<1>1. /\ pc \in [Threads -> {"idle", "lock", "enqueue", "waitfull"}]
      /\ wpc \in [Workers -> {"top", "waitempty", "cb", "exit"}]
  BY DEF BInv, TypeOK
<1>2. wpc' = [wpc EXCEPT ![w] = "cb"] /\ pc' \in Signal(pc, "waitfull", "enqueue")
  BY DEF WorkerTake
<1>3. \A t \in Threads : pc'[t] # "waitfull"
  <2>1. CASE \E t \in Threads : pc[t] = "waitfull"
    <3>1. PICK x \in Threads : pc[x] = "waitfull" /\ pc' = [pc EXCEPT ![x] = "enqueue"]
      BY <1>1, <1>2, <2>1 DEF Signal
    <3>2. InEnqueue(x)
      BY <3>1 DEF InEnqueue
    <3>3. \A u \in Threads : InEnqueue(u) <=> u = x
      BY <3>2, PublisherAlone
    <3>4. QED
      BY <1>1, <3>1, <3>3 DEF InEnqueue
  <2>2. CASE ~\E t \in Threads : pc[t] = "waitfull"
    BY <1>1, <1>2, <2>2 DEF Signal
  <2>3. QED
    BY <2>1, <2>2
<1>4. wpc'[w] = "cb"
  BY <1>1, <1>2
<1>5. QED
  BY <1>3, <1>4 DEF WaitersWoken

\* Every step keeps WaitersWoken.
LEMMA NextWoken == BInv /\ WaitersWoken /\ [Next]_vars => WaitersWoken'
<1> SUFFICES ASSUME BInv, WaitersWoken, [Next]_vars PROVE WaitersWoken'
  OBVIOUS
<1> DEFINE Calm == /\ count' = count
                   /\ \A t \in Threads : pc'[t] = "waitfull" => pc[t] = "waitfull"
                   /\ \A w \in Workers : wpc[w] \in {"top", "cb"} => wpc'[w] \in {"top", "cb"}
<1>1. /\ pc \in [Threads -> {"idle", "lock", "enqueue", "waitfull"}]
      /\ wpc \in [Workers -> {"top", "waitempty", "cb", "exit"}]
      /\ count \in 0..MaxTasks
  BY DEF BInv, TypeOK
<1>2. Calm => WaitersWoken'
  BY CalmKeepsWoken
<1>3. UNCHANGED vars => Calm
  BY DEF vars, ring, work, pub
<1>4. ASSUME NEW t \in Threads PROVE Call(t) => Calm
  BY <1>1 DEF Call, CallRejected, CallLock, ring, work, pub
<1>5. ASSUME NEW t \in Threads, CallStep(t) PROVE WaitersWoken'
  <2>1. (\E k \in Keys : bus_subscribe(t, k) \/ PublishFails(t, k) \/ PublishLookup(t, k)) => Calm
    BY <1>1 DEF bus_subscribe, PublishFails, PublishLookup, ring, work
  <2>2. EnqueueWait(t) => WaitersWoken'
    BY <1>1 DEF EnqueueWait, WaitersWoken, ring, work
  <2>3. EnqueueRefuse(t) => Calm
    BY <1>1 DEF EnqueueRefuse, PublishReturn, ring, work
  <2>4. QED
    BY <1>2, <1>5, <2>1, <2>2, <2>3, PushKeepsWoken DEF CallStep
<1>6. ASSUME NEW w \in Workers, WorkerStep(w) PROVE WaitersWoken'
  <2>1. WorkerWait(w) \/ WorkerExit(w) => WaitersWoken'
    BY <1>1 DEF WorkerWait, WorkerExit, Leaves, WaitersWoken, ring, pub
  <2>2. QED
    BY <1>6, <2>1, TakeKeepsWoken DEF WorkerStep
<1>7. ASSUME NEW w \in Workers, CbReturn(w) \/ CbCrash(w) \/ \E k \in Keys : CopyCrash(w, k) PROVE Calm
  <2>1. TaskDone(w) /\ count' = count /\ (pc' = pc \/ pc' = [pc EXCEPT ![w] = "idle"])
    BY <1>7 DEF CbReturn, CbCrash, CopyCrash, ring, pub
  <2>2. QED
    BY <1>1, <2>1 DEF TaskDone, Threads
<1>8. ShutdownSignal \/ ShutdownStep => Calm
  BY <1>1 DEF ShutdownSignal, ShutdownStep, ShutdownJoin, ShutdownDrain, ShutdownSubs, ring, work, pub
<1>9. SpuriousWake => Calm
  BY <1>1 DEF SpuriousWake, ring
<1> HIDE DEF Calm
<1>10. QED
  BY <1>2, <1>3, <1>4, <1>5, <1>6, <1>7, <1>8, <1>9 DEF Next

\* Whatever threads publish, wait, crash and shut down: a publisher sleeps only
\* while the queue is full, and with a task queued some worker is awake.
THEOREM BusWakes == Spec => []WaitersWoken
<1>1. Init => WaitersWoken
  BY BusAssumption DEF Init, WaitersWoken
<1>2. QED
  BY <1>1, NextWoken, BusInvariance, PTL DEF Spec

-----------------------------------------------------------------------------
(* No copy is lost while the bus is up.                                    *)

\* Somebody will free the copy m or pass it on.
Held(m) ==
    \/ InQueue(m)
    \/ \E w \in Workers : InCallback(w, m)
    \/ \E t \in Threads : InPublish(t, m)

\* A step after which every live copy was live before, or has a holder, and
\* which takes no live copy from all its holders, keeps NoLeakWhileUp.
LEMMA HoldersKeep ==
    ASSUME NoLeakWhileUp,
           g_bus_shut_down => g_bus_shut_down',
           \A m \in Msgs : data'[m] = "live" => Held(m)' \/ (data[m] = "live" /\ (Held(m) => Held(m)'))
    PROVE  NoLeakWhileUp'
  BY DEF NoLeakWhileUp, Held

\* A step that neither touches the tasks and copies nor moves a thread into or
\* out of a callback or enqueue_task.
LEMMA StillKeepsHolders ==
    ASSUME NoLeakWhileUp,
           UNCHANGED <<tasks, head, count, data, wtask, ptask>>,
           g_bus_shut_down => g_bus_shut_down',
           \A t \in Threads : InEnqueue(t) => InEnqueue(t)',
           \A w \in Workers : wpc[w] = "cb" => wpc'[w] = "cb"
    PROVE  NoLeakWhileUp'
<1>1. Occupied' = Occupied /\ count' = count
  BY DEF Occupied
<1>2. \A m \in Msgs : Held(m) => Held(m)'
  BY <1>1 DEF Held, InQueue, InCallback, InPublish
<1>3. QED
  BY <1>2, HoldersKeep

\* The copy that bus_publish allocates is held by the publisher.
LEMMA LookupKeepsHolders ==
    ASSUME BInv, NoLeakWhileUp, NEW t \in Threads, NEW k \in Keys, PublishLookup(t, k)
    PROVE  NoLeakWhileUp'
<1>1. PICK i \in Found(k), n \in Msgs :
        /\ data' = [data EXCEPT ![n] = "live"]
        /\ ptask' = [ptask EXCEPT ![t] = [data |-> n, sub |-> g_head[i]]]
  BY DEF PublishLookup
<1>2. /\ sub_mutex = None
      /\ pc' = [pc EXCEPT ![t] = "enqueue"]
      /\ UNCHANGED <<tasks, head, count, g_bus_shut_down, wpc, wtask>>
  BY DEF PublishLookup, ring, work
<1>3. \A u \in Threads : ~InEnqueue(u)
  BY <1>2, BusAssumption DEF BInv, LockInv
<1>4. InPublish(t, n)'
  BY <1>1, <1>2 DEF InPublish, InEnqueue, BInv, TypeOK
<1>5. Occupied' = Occupied /\ count' = count
  BY <1>2 DEF Occupied
<1>6. \A m \in Msgs : Held(m) => Held(m)'
  BY <1>2, <1>3, <1>5 DEF Held, InQueue, InCallback, InPublish
<1>7. \A m \in Msgs : m # n => data'[m] = data[m]
  BY <1>1 DEF BInv, TypeOK
<1>8. Held(n)'
  BY <1>4 DEF Held
<1>9. QED
  BY <1>2, <1>6, <1>7, <1>8, HoldersKeep

\* A push moves a copy from the publisher into the ring.
LEMMA PushKeepsHolders ==
    ASSUME BInv, NoLeakWhileUp, NEW t \in Threads, EnqueuePush(t)
    PROVE  NoLeakWhileUp'
<1>1. /\ pc[t] = "enqueue" /\ count < MaxTasks
      /\ tasks' = [tasks EXCEPT ![tail] = ptask[t]] /\ tail' = NextSlot(tail)
      /\ count' = count + 1 /\ head' = head
      /\ wpc' \in Signal(wpc, "waitempty", "top")
      /\ UNCHANGED <<g_bus_shut_down, data, wtask>>
  BY DEF EnqueuePush
<1>2. InEnqueue(t)
  BY <1>1 DEF InEnqueue
<1>3. \A u \in Threads : InEnqueue(u) <=> u = t
  BY <1>2, PublisherAlone
<1>4. /\ \A i \in 1..count : Occupied'[i] = Occupied[i]
      /\ Occupied'[count + 1] = ptask[t]
  BY <1>1, PushIs DEF BInv
<1>5. \A w \in Workers : wpc[w] = "cb" => wpc'[w] = "cb"
  <2>1. wpc \in [Workers -> {"top", "waitempty", "cb", "exit"}]
    BY DEF BInv, TypeOK
  <2>2. QED
    BY <1>1, <2>1 DEF Signal
<1>6. count + 1 \in 1..count' /\ \A i \in 1..count : i \in 1..count'
  BY <1>1, BusAssumption DEF BInv, TypeOK
<1>7. ASSUME NEW m \in Msgs, Held(m) PROVE Held(m)'
  <2>1. CASE InQueue(m)
    BY <1>4, <1>6, <2>1 DEF Held, InQueue
  <2>2. CASE \E w \in Workers : InCallback(w, m)
    BY <1>1, <1>5, <2>2 DEF Held, InCallback
  <2>3. CASE \E u \in Threads : InPublish(u, m)
    BY <1>3, <1>4, <1>6, <2>3 DEF Held, InPublish, InQueue
  <2>4. QED
    BY <1>7, <2>1, <2>2, <2>3 DEF Held
<1>8. QED
  BY <1>1, <1>7, HoldersKeep

\* A take moves a copy from the ring to the worker.
LEMMA TakeKeepsHolders ==
    ASSUME BInv, NoLeakWhileUp, NEW w \in Workers, WorkerTake(w)
    PROVE  NoLeakWhileUp'
<1>1. /\ wpc[w] = "top" /\ count > 0
      /\ wtask' = [wtask EXCEPT ![w] = tasks[head]]
      /\ head' = NextSlot(head) /\ count' = count - 1
      /\ wpc' = [wpc EXCEPT ![w] = "cb"]
      /\ pc' \in Signal(pc, "waitfull", "enqueue")
      /\ UNCHANGED <<tasks, tail, g_bus_shut_down, data, ptask>>
  BY DEF WorkerTake
<1>2. /\ \A i \in 1..(count - 1) : Occupied'[i] = Occupied[i + 1]
      /\ Occupied[1] = tasks[head]
  BY <1>1, TakeIs DEF BInv
<1>3. /\ pc \in [Threads -> {"idle", "lock", "enqueue", "waitfull"}]
      /\ wpc \in [Workers -> {"top", "waitempty", "cb", "exit"}]
      /\ wtask \in [Workers -> Task \cup {NoTask}]
      /\ count \in Nat
  BY BusAssumption DEF BInv, TypeOK
<1>4. \A u \in Threads : InEnqueue(u) => InEnqueue(u)'
  BY <1>1, <1>3 DEF InEnqueue, Signal
<1>5. /\ wpc'[w] = "cb" /\ wtask'[w] = tasks[head]
      /\ \A v \in Workers : wpc[v] = "cb" => wpc'[v] = "cb" /\ wtask'[v] = wtask[v]
  BY <1>1, <1>3
<1>6. ASSUME NEW m \in Msgs, Held(m) PROVE Held(m)'
  <2>1. CASE InQueue(m)
    <3>1. PICK i \in 1..count : Occupied[i].data = m
      BY <2>1 DEF InQueue
    <3>2. CASE i = 1
      BY <1>2, <1>5, <3>1, <3>2 DEF Held, InCallback
    <3>3. CASE i # 1
      <4>1. i - 1 \in 1..(count - 1) /\ i = (i - 1) + 1
        BY <1>3, <3>3
      <4>2. Occupied'[i - 1] = Occupied[i] /\ i - 1 \in 1..count'
        BY <1>1, <1>2, <4>1
      <4>3. QED
        BY <3>1, <4>2 DEF Held, InQueue
    <3>4. QED
      BY <3>2, <3>3
  <2>2. CASE \E v \in Workers : InCallback(v, m)
    BY <1>5, <2>2 DEF Held, InCallback
  <2>3. CASE \E u \in Threads : InPublish(u, m)
    BY <1>1, <1>4, <2>3 DEF Held, InPublish
  <2>4. QED
    BY <1>6, <2>1, <2>2, <2>3 DEF Held
<1>7. QED
  BY <1>1, <1>6, HoldersKeep

\* A callback that returns or crashes gives up its copy and frees it.
LEMMA CallbackKeepsHolders ==
    ASSUME BInv, NoLeakWhileUp, NEW w \in Workers, CbReturn(w) \/ CbCrash(w)
    PROVE  NoLeakWhileUp'
<1>1. /\ TaskDone(w)
      /\ data' = Released(w)
      /\ UNCHANGED <<tasks, head, count, g_bus_shut_down, pc, ptask>>
  BY DEF CbReturn, CbCrash, pub, ring
<1>2. wpc[w] = "cb" /\ wtask[w] \in Task /\ wtask[w].data \in Msgs
  BY <1>1 DEF TaskDone, BInv, TaskInv, Task
<1>3. \A m \in Msgs : data'[m] = IF m = wtask[w].data THEN "freed" ELSE data[m]
  BY <1>1 DEF Released, BInv, TypeOK
<1>4. \A v \in Workers : v # w => wpc'[v] = wpc[v] /\ wtask'[v] = wtask[v]
  BY <1>1 DEF TaskDone, BInv, TypeOK
<1>5. Occupied' = Occupied
  BY <1>1 DEF Occupied
<1>6. ASSUME NEW m \in Msgs, m # wtask[w].data, Held(m) PROVE Held(m)'
  BY <1>1, <1>4, <1>5, <1>6 DEF Held, InQueue, InCallback, InPublish, InEnqueue
<1>7. QED
  BY <1>1, <1>3, <1>6, HoldersKeep

\* Without a crash inside memcpy, every step keeps NoLeakWhileUp: a refusal,
\* which does lose a copy, needs the shutdown to have begun.
LEMMA NextNoLeak ==
    ASSUME "memcpy" \notin Faults, BInv, NoLeakWhileUp, [Next]_vars
    PROVE  NoLeakWhileUp'
<1> DEFINE Still == /\ UNCHANGED <<tasks, head, count, data, wtask, ptask>>
                    /\ g_bus_shut_down => g_bus_shut_down'
                    /\ \A t \in Threads : InEnqueue(t) => InEnqueue(t)'
                    /\ \A w \in Workers : wpc[w] = "cb" => wpc'[w] = "cb"
<1>1. /\ pc \in [Threads -> {"idle", "lock", "enqueue", "waitfull"}]
      /\ wpc \in [Workers -> {"top", "waitempty", "cb", "exit"}]
  BY DEF BInv, TypeOK
<1>2. Still => NoLeakWhileUp'
  BY StillKeepsHolders
<1>3. UNCHANGED vars => Still
  BY DEF vars, ring, work, pub, InEnqueue
<1>4. ASSUME NEW t \in Threads PROVE Call(t) => Still
  BY <1>1 DEF Call, CallRejected, CallLock, CanCall, ring, work, pub, InEnqueue
<1>5. ASSUME NEW t \in Threads, CallStep(t) PROVE NoLeakWhileUp'
  <2>1. ASSUME NEW k \in Keys PROVE bus_subscribe(t, k) \/ PublishFails(t, k) => Still
    BY <1>1 DEF bus_subscribe, PublishFails, ring, work, InEnqueue
  <2>2. EnqueueWait(t) => Still
    BY <1>1 DEF EnqueueWait, ring, work, InEnqueue
  <2>3. EnqueueRefuse(t) => NoLeakWhileUp'
    BY DEF EnqueueRefuse, NoLeakWhileUp
  <2>4. QED
    BY <1>2, <1>5, <2>1, <2>2, <2>3, LookupKeepsHolders, PushKeepsHolders DEF CallStep
<1>6. ASSUME NEW w \in Workers, WorkerStep(w) PROVE NoLeakWhileUp'
  <2>1. WorkerWait(w) \/ WorkerExit(w) => Still
    BY <1>1 DEF WorkerWait, WorkerExit, ring, pub, InEnqueue
  <2>2. QED
    BY <1>2, <1>6, <2>1, TakeKeepsHolders DEF WorkerStep
<1>7. ASSUME NEW w \in Workers, NEW k \in Keys PROVE ~CopyCrash(w, k)
  BY DEF CopyCrash
<1>8. ShutdownSignal \/ ShutdownJoin \/ ShutdownSubs => Still
  BY <1>1 DEF ShutdownSignal, ShutdownJoin, ShutdownSubs, ring, work, pub, InEnqueue
<1>9. ShutdownDrain => NoLeakWhileUp'
  <2>1. SUFFICES ASSUME ShutdownDrain PROVE g_bus_shut_down'
    BY DEF NoLeakWhileUp
  <2>2. mpc = "drain" /\ g_bus_shut_down' = g_bus_shut_down
    BY <2>1 DEF ShutdownDrain
  <2>3. QED
    BY <2>2 DEF BInv, PhaseInv
<1>10. SpuriousWake => Still
  BY <1>1 DEF SpuriousWake, ring, InEnqueue
<1> HIDE DEF Still
<1>11. QED
  BY <1>2, <1>3, <1>4, <1>5, <1>6, <1>7, <1>8, <1>9, <1>10, CallbackKeepsHolders DEF Next, ShutdownStep

\* If no published argument makes memcpy itself crash, every allocated copy has
\* a holder until the bus shuts down, whatever callbacks crash.
THEOREM BusNoLeak ==
    ASSUME "memcpy" \notin Faults
    PROVE  Spec => []NoLeakWhileUp
<1>1. Init => NoLeakWhileUp
  BY DEF Init, NoLeakWhileUp
<1>2. BInv /\ NoLeakWhileUp /\ [Next]_vars => NoLeakWhileUp'
  BY NextNoLeak
<1>3. QED
  BY <1>1, <1>2, BusInvariance, PTL DEF Spec

-----------------------------------------------------------------------------
(* The ring buffer implements the closable FIFO.                           *)

\* The occupied slots form a sequence of tasks, as long as count says.
LEMMA OccupiedSeq ==
    ASSUME BInv
    PROVE  Occupied \in Seq(Task) /\ Len(Occupied) = count
<1>1. count \in Nat /\ \A i \in 1..count : Occupied[i] \in Task
  BY BusAssumption DEF BInv, TypeOK, TaskInv
<1>2. Occupied = [i \in 1..count |-> Occupied[i]]
  BY DEF Occupied
<1> DEFINE f == [i \in 1..count |-> Occupied[i]]
<1>3. f \in [1..count -> Task]
  BY <1>1
<1>4. f \in Seq(Task) /\ Len(f) = count
  BY <1>1, <1>3, IsASeq, LenProperties
<1>5. QED
  BY <1>2, <1>4

\* A push appends to the sequence.
LEMMA PushIsPut ==
    ASSUME BInv, BInv', NEW t \in Threads, EnqueuePush(t)
    PROVE  Queue!Put(ptask[t])
<1>1. /\ count < MaxTasks /\ ~g_bus_shut_down /\ InEnqueue(t)
      /\ tasks' = [tasks EXCEPT ![tail] = ptask[t]] /\ tail' = NextSlot(tail)
      /\ count' = count + 1 /\ head' = head /\ g_bus_shut_down' = g_bus_shut_down
  BY DEF EnqueuePush, InEnqueue
<1>2. ptask[t] \in Task
  BY <1>1, PublisherAlone
<1>3. /\ \A i \in 1..count : Occupied'[i] = Occupied[i]
      /\ Occupied'[count + 1] = ptask[t]
  BY <1>1, PushIs DEF BInv
<1>4. Occupied \in Seq(Task) /\ Len(Occupied) = count
  BY OccupiedSeq
<1>5. Occupied' \in Seq(Task) /\ Len(Occupied') = count + 1
  <2>1. (Occupied \in Seq(Task) /\ Len(Occupied) = count)'
    BY OccupiedSeq, PTL
  <2>2. QED
    BY <1>1, <2>1
<1> DEFINE a == Append(Occupied, ptask[t])
<1>6. /\ a \in Seq(Task) /\ Len(a) = count + 1
      /\ \A i \in 1..count : a[i] = Occupied[i]
      /\ a[count + 1] = ptask[t]
  BY <1>2, <1>4, AppendProperties
<1> HIDE DEF a
<1>7. \A i \in 1..(count + 1) : Occupied'[i] = a[i]
  <2>1. count \in Nat
    BY BusAssumption DEF BInv, TypeOK
  <2>2. 1..(count + 1) = 1..count \cup {count + 1}
    BY <2>1
  <2>3. QED
    BY <1>3, <1>6, <2>2
<1>8. Occupied' = a
  BY <1>5, <1>6, <1>7, SeqEqual
<1>9. QED
  BY <1>1, <1>4, <1>8 DEF Queue!Put, a

\* A take removes the head of the sequence.
LEMMA TakeIsGet ==
    ASSUME BInv, BInv', NEW w \in Workers, WorkerTake(w)
    PROVE  Queue!Get
<1>1. /\ count > 0 /\ tasks' = tasks /\ tail' = tail
      /\ head' = NextSlot(head) /\ count' = count - 1 /\ g_bus_shut_down' = g_bus_shut_down
  BY DEF WorkerTake
<1>2. \A i \in 1..(count - 1) : Occupied'[i] = Occupied[i + 1]
  BY <1>1, TakeIs DEF BInv
<1>3. Occupied \in Seq(Task) /\ Len(Occupied) = count /\ Occupied # <<>>
  <2>1. Occupied \in Seq(Task) /\ Len(Occupied) = count
    BY OccupiedSeq
  <2>2. QED
    BY <1>1, <2>1
<1>4. Occupied' \in Seq(Task) /\ Len(Occupied') = count - 1
  <2>1. (Occupied \in Seq(Task) /\ Len(Occupied) = count)'
    BY OccupiedSeq, PTL
  <2>2. QED
    BY <1>1, <2>1
<1> DEFINE r == Tail(Occupied)
<1>5. /\ r \in Seq(Task) /\ Len(r) = count - 1
      /\ \A i \in 1..(count - 1) : r[i] = Occupied[i + 1]
  BY <1>3, HeadTailProperties
<1> HIDE DEF r
<1>6. Occupied' = r
  BY <1>2, <1>4, <1>5, SeqEqual
<1>7. QED
  BY <1>1, <1>3, <1>6 DEF Queue!Get, r

\* Every step of the bus is a step of the FIFO, or leaves it alone.
LEMMA StepRefines ==
    BInv /\ BInv' /\ [Next]_vars => [Queue!Next]_<<Occupied, g_bus_shut_down>>
<1> SUFFICES ASSUME BInv, BInv', [Next]_vars
             PROVE  Queue!Next \/ UNCHANGED <<Occupied, g_bus_shut_down>>
  OBVIOUS
<1> DEFINE Still == UNCHANGED <<ring, g_bus_shut_down>>
<1>1. Still => UNCHANGED <<Occupied, g_bus_shut_down>>
  BY DEF ring, Occupied
<1>2. UNCHANGED vars => Still
  BY DEF vars
<1>3. ASSUME NEW t \in Threads PROVE Call(t) => Still
  BY DEF Call, CallRejected, CallLock
<1>4. ASSUME NEW t \in Threads, CallStep(t) PROVE Still \/ \E x \in Task : Queue!Put(x)
  <2>1. CASE EnqueuePush(t)
    <3>1. InEnqueue(t)
      BY <2>1 DEF EnqueuePush, InEnqueue
    <3>2. ptask[t] \in Task
      BY <3>1, PublisherAlone
    <3>3. QED
      BY <2>1, <3>2, PushIsPut
  <2>2. CASE ~EnqueuePush(t)
    BY <1>4, <2>2 DEF CallStep, bus_subscribe, PublishFails, PublishLookup, EnqueueWait, EnqueueRefuse
  <2>3. QED
    BY <2>1, <2>2
<1>5. ASSUME NEW w \in Workers, WorkerStep(w) PROVE Still \/ Queue!Get
  BY <1>5, TakeIsGet DEF WorkerStep, WorkerWait, WorkerExit
<1>6. ASSUME NEW w \in Workers, CbReturn(w) \/ CbCrash(w) \/ \E k \in Keys : CopyCrash(w, k) PROVE Still
  BY <1>6 DEF CbReturn, CbCrash, CopyCrash
<1>7. ShutdownSignal => Queue!Close
  BY DEF ShutdownSignal, Queue!Close, ring, Occupied
<1>8. ShutdownStep => Still
  BY DEF ShutdownStep, ShutdownJoin, ShutdownDrain, ShutdownSubs
<1>9. SpuriousWake => Still
  BY DEF SpuriousWake
<1> HIDE DEF Still
<1>10. QED
  BY <1>1, <1>2, <1>3, <1>4, <1>5, <1>6, <1>7, <1>8, <1>9 DEF Next, Queue!Next

\* The ring buffer with its two condition variables implements a bounded FIFO
\* that can be closed: accepted tasks come out once each and in order, and
\* nothing is accepted after the shutdown began.
THEOREM BusImplementsFifo == Spec => IsFifo
<1>1. Init => Queue!Init
  <2>1. SUFFICES ASSUME Init PROVE Occupied = <<>> /\ g_bus_shut_down = FALSE
    BY DEF Queue!Init
  <2>2. BInv
    BY <2>1, InitBInv
  <2>3. count = 0 /\ g_bus_shut_down = FALSE
    BY <2>1 DEF Init
  <2>4. Occupied \in Seq(Task) /\ Len(Occupied) = 0
    BY <2>2, <2>3, OccupiedSeq
  <2>5. QED
    BY <2>3, <2>4
<1>2. QED
  BY <1>1, StepRefines, BusInvariance, PTL DEF Spec, IsFifo, Queue!Spec

=============================================================================
