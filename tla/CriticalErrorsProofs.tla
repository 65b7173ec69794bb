------------------------ MODULE CriticalErrorsProofs ------------------------
(***************************************************************************)
(* Theorems about CriticalErrors, for every number of slots and bits and   *)
(* whatever an oversized shift yields.                                     *)
(***************************************************************************)
EXTENDS CriticalErrors, TLAPS

\* The consumer holds a record only while it writes it.
MsgInv == cpc # "write" => msg = NULL

\* While it writes, its loop index is that of a slot.
ScanInv == cpc = "write" => i < Slots

\* The inductive invariant.
EInv == TypeOK /\ MsgInv /\ ScanInv /\ RecordOwnership /\ NoMissedSignal

\* A bit of the bitmap is one of its Width bits.
LEMMA BitIs ==
    ASSUME NEW n \in Index
    PROVE  Bit(n) \subseteq 0..(Width - 1)
  BY ErrorsAssumption DEF Bit, Index

\* The queue starts empty.
LEMMA InitEInv == Init => EInv
  BY ErrorsAssumption
     DEF Init, EInv, TypeOK, MsgInv, ScanInv, RecordOwnership, NoMissedSignal, Index, Recs, NULL

\* Adding a record: its block is unused, so nobody holds it yet.
LEMMA AddKeeps ==
    ASSUME EInv, NEW p \in Producers, NEW r \in Recs \cup {NULL}, AddRecord(p, r)
    PROVE  EInv'
<1> USE ErrorsAssumption DEF EInv
<1>1. PICK n \in Index :
        /\ g_critical_error_queues' = [g_critical_error_queues EXCEPT ![n] = r]
        /\ g_critical_error_bitmap' = g_critical_error_bitmap \cup Bit(n)
  BY DEF AddRecord
<1>2. /\ cpc' = Signalled /\ ppc' = [ppc EXCEPT ![p] = "run"]
      /\ UNCHANGED <<alive, i, msg, written, shl>>
      /\ r = NULL => heap' = heap
      /\ r # NULL => heap[r] = "unused" /\ heap' = [heap EXCEPT ![r] = "live"]
  BY DEF AddRecord
<1>3. TypeOK'
  BY <1>1, <1>2, BitIs DEF TypeOK, Signalled
<1>4. MsgInv' /\ ScanInv' /\ NoMissedSignal'
  <2>1. cpc' # "sleep" /\ (cpc' = "write" <=> cpc = "write")
    BY <1>2 DEF Signalled
  <2>2. QED
    BY <1>2, <2>1 DEF MsgInv, ScanInv, NoMissedSignal
<1>5. \A q \in Recs : heap[q] = "live" => heap'[q] = "live" /\ q # r
  <2>1. \A q \in Recs : q # NULL
    BY DEF Recs, NULL
  <2>2. QED
    BY <1>2, <2>1 DEF TypeOK
<1>6. \A k \in Index : g_critical_error_queues'[k] = IF k = n THEN r ELSE g_critical_error_queues[k]
  BY <1>1 DEF TypeOK
<1>7. \A k \in Index : g_critical_error_queues[k] # NULL =>
          g_critical_error_queues[k] # r /\ heap'[g_critical_error_queues[k]] = "live"
  BY <1>5 DEF RecordOwnership, TypeOK
<1>8. msg # NULL => msg # r /\ heap'[msg] = "live"
  BY <1>5 DEF RecordOwnership, TypeOK
<1>9. r # NULL => heap'[r] = "live"
  BY <1>2 DEF TypeOK
<1>10. RecordOwnership'
  BY <1>2, <1>6, <1>7, <1>8, <1>9 DEF RecordOwnership, TypeOK
<1>11. QED
  BY <1>3, <1>4, <1>10

\* The consumer takes a slot: the record moves from the slot to its hand.
LEMMA TakeKeeps ==
    ASSUME EInv, ConsumerTake
    PROVE  EInv'
<1> USE ErrorsAssumption DEF EInv
<1>1. PICK n \in i..(Slots - 1) :
        /\ msg' = g_critical_error_queues[n]
        /\ g_critical_error_queues' = [g_critical_error_queues EXCEPT ![n] = NULL]
        /\ g_critical_error_bitmap' = g_critical_error_bitmap \ Bit(n)
        /\ i' = n
  BY DEF ConsumerTake, Emptied, Cleared
<1>2. cpc' = "write" /\ cpc # "write" /\ UNCHANGED <<alive, ppc, heap, written, shl>>
  BY DEF ConsumerTake
<1>3. n \in Index
  BY DEF TypeOK, Index
<1>4. TypeOK'
  <2>1. i' \in 0..Slots
    BY <1>1, <1>3 DEF Index
  <2>2. msg' \in Recs \cup {NULL} /\ g_critical_error_queues' \in [Index -> Recs \cup {NULL}]
    BY <1>1, <1>3 DEF TypeOK
  <2>3. g_critical_error_bitmap' \subseteq 0..(Width - 1)
    BY <1>1 DEF TypeOK
  <2>4. QED
    BY <1>2, <2>1, <2>2, <2>3 DEF TypeOK
<1>5. MsgInv' /\ ScanInv' /\ NoMissedSignal'
  BY <1>1, <1>2, <1>3 DEF MsgInv, ScanInv, NoMissedSignal, Index
<1>6. \A k \in Index : g_critical_error_queues'[k] = IF k = n THEN NULL ELSE g_critical_error_queues[k]
  BY <1>1 DEF TypeOK
<1>7. RecordOwnership'
  BY <1>1, <1>2, <1>3, <1>6 DEF RecordOwnership
<1>8. QED
  BY <1>4, <1>5, <1>7

\* The consumer writes and frees a record that no slot points at.
LEMMA WriteKeeps ==
    ASSUME EInv, ConsumerWrite
    PROVE  EInv'
<1> USE ErrorsAssumption DEF EInv
<1>1. /\ msg' = NULL /\ i' = i + 1 /\ cpc' = "scan"
      /\ msg = NULL => UNCHANGED <<heap, written>>
      /\ msg # NULL => heap' = [heap EXCEPT ![msg] = "freed"] /\ written' = written \cup {msg}
      /\ UNCHANGED <<alive, ppc, g_critical_error_bitmap, g_critical_error_queues, shl>>
  BY DEF ConsumerWrite, table
<1>2. i < Slots
  BY DEF ConsumerWrite, ScanInv
<1>3. TypeOK'
  BY <1>1, <1>2 DEF TypeOK
<1>4. MsgInv' /\ ScanInv' /\ NoMissedSignal'
  BY <1>1 DEF MsgInv, ScanInv, NoMissedSignal
<1>5. \A n \in Index : g_critical_error_queues[n] # NULL =>
          heap'[g_critical_error_queues[n]] = heap[g_critical_error_queues[n]]
  BY <1>1 DEF RecordOwnership, TypeOK
<1>6. RecordOwnership'
  BY <1>1, <1>5 DEF RecordOwnership
<1>7. QED
  BY <1>3, <1>4, <1>6

\* A step that only moves control points, not into the writing of a record
\* and not to sleep over a marked slot, keeps the invariant.
LEMMA ControlKeeps ==
    ASSUME EInv,
           UNCHANGED <<g_critical_error_bitmap, g_critical_error_queues, heap, msg, written, shl>>,
           alive' \in BOOLEAN, ppc' \in [Producers -> {"run", "record", "send"}],
           cpc' \in {"top", "sleep", "scan", "write"},
           cpc' = "write" <=> cpc = "write",
           cpc' = "sleep" => g_critical_error_bitmap = {},
           i' = i \/ (i' = 0 /\ cpc # "write")
    PROVE  EInv'
<1> USE ErrorsAssumption DEF EInv
<1>1. TypeOK'
  BY DEF TypeOK
<1>2. MsgInv' /\ ScanInv' /\ NoMissedSignal'
  BY DEF MsgInv, ScanInv, NoMissedSignal
<1>3. RecordOwnership'
  BY DEF RecordOwnership
<1>4. QED
  BY <1>1, <1>2, <1>3

\* Every step preserves the invariant.
LEMMA NextEInv == EInv /\ [Next]_vars => EInv'
<1> SUFFICES ASSUME EInv, [Next]_vars PROVE EInv'
  OBVIOUS
<1>1. /\ alive \in BOOLEAN /\ ppc \in [Producers -> {"run", "record", "send"}]
      /\ cpc \in {"top", "sleep", "scan", "write"}
      /\ cpc = "sleep" => g_critical_error_bitmap = {}
  BY DEF EInv, TypeOK, NoMissedSignal
<1>2. CASE UNCHANGED vars
  BY <1>1, <1>2, ControlKeeps DEF vars
<1>3. ASSUME NEW p \in Producers, CrashRecovered(p) \/ CrashFatal(p) \/ AddDropped(p) \/ AddSends(p)
      PROVE  EInv'
  <2>1. /\ UNCHANGED <<g_critical_error_bitmap, g_critical_error_queues, heap, msg, written, shl, cpc, i>>
        /\ alive' \in BOOLEAN /\ ppc' \in [Producers -> {"run", "record", "send"}]
    BY <1>1, <1>3 DEF CrashRecovered, CrashFatal, AddDropped, AddSends, table, consumer
  <2>2. QED
    BY <1>1, <2>1, ControlKeeps
<1>4. ASSUME NEW p \in Producers, NEW r \in Recs \cup {NULL}, AddRecord(p, r) PROVE EInv'
  BY <1>4, AddKeeps
<1>5. ASSUME ConsumerSleep \/ ConsumerWake \/ ConsumerRound PROVE EInv'
  <2>1. /\ UNCHANGED <<g_critical_error_bitmap, g_critical_error_queues, heap, msg, written, shl, alive, ppc>>
        /\ cpc' \in {"top", "sleep"} /\ cpc # "write"
        /\ cpc' = "sleep" => g_critical_error_bitmap = {}
        /\ i' = i \/ i' = 0
    BY <1>5 DEF ConsumerSleep, ConsumerWake, ConsumerRound, table
  <2>2. QED
    BY <1>1, <2>1, ControlKeeps
<1>6. QED
  BY <1>2, <1>3, <1>4, <1>5, TakeKeeps, WriteKeeps DEF Next, Add, ConsumerStep

\* The queue never leaves the inductive invariant.
THEOREM ErrorsInvariance == Spec => []EInv
  BY InitEInv, NextEInv, PTL DEF Spec

\* Every variable keeps its type.
THEOREM ErrorsTypes == Spec => []TypeOK
<1>1. EInv => TypeOK
  BY DEF EInv
<1>2. QED
  BY <1>1, ErrorsInvariance, PTL

\* Whatever the aliasing of bits, no record is written or freed twice.
THEOREM ErrorsOwnership == Spec => []RecordOwnership
<1>1. EInv => RecordOwnership
  BY DEF EInv
<1>2. QED
  BY <1>1, ErrorsInvariance, PTL

\* The consumer never sleeps over a marked slot.
THEOREM ErrorsSignal == Spec => []NoMissedSignal
<1>1. EInv => NoMissedSignal
  BY DEF EInv
<1>2. QED
  BY <1>1, ErrorsInvariance, PTL

-----------------------------------------------------------------------------
(* A slot with a bit of its own keeps its record.                          *)

\* What a bit is does not change: shl belongs to the build.
LEMMA BitKept ==
    ASSUME shl' = shl
    PROVE  /\ \A n \in Index : Bit(n)' = Bit(n)
           /\ \A n \in Index : OwnBit(n)' <=> OwnBit(n)
<1>1. \A n \in Index : Bit(n)' = Bit(n)
  BY DEF Bit
<1>2. QED
  BY <1>1 DEF OwnBit

\* A slot with a bit of its own is marked after a step, if it was marked and the
\* bits of other slots only were cleared.
LEMMA OthersCleared ==
    ASSUME shl' = shl, NEW n \in Index, NEW k \in Index, k # n, OwnBit(k), Marked(k),
           g_critical_error_bitmap' = g_critical_error_bitmap \ Bit(n)
    PROVE  Marked(k)'
<1>1. Bit(n) \cap Bit(k) = {}
  BY DEF OwnBit
<1>2. Bit(k)' = Bit(k)
  BY BitKept
<1>3. QED
  BY <1>1, <1>2 DEF Marked

\* Every step keeps the slots of such records marked.
LEMMA NextOwnSlot ==
    ASSUME EInv, OwnSlotKept, [Next]_vars
    PROVE  OwnSlotKept'
<1> USE ErrorsAssumption DEF EInv
<1>1. CASE UNCHANGED <<g_critical_error_bitmap, g_critical_error_queues, shl>>
  BY <1>1, BitKept DEF OwnSlotKept, Marked
<1>2. ASSUME NEW p \in Producers, NEW r \in Recs \cup {NULL}, AddRecord(p, r) PROVE OwnSlotKept'
  <2>1. PICK n \in Index :
          /\ g_critical_error_queues' = [g_critical_error_queues EXCEPT ![n] = r]
          /\ g_critical_error_bitmap' = g_critical_error_bitmap \cup Bit(n)
    BY <1>2 DEF AddRecord
  <2>2. shl' = shl
    BY <1>2 DEF AddRecord
  <2>3. ASSUME NEW k \in Index, OwnBit(k)', g_critical_error_queues'[k] # NULL PROVE Marked(k)'
    <3>1. OwnBit(k) /\ Bit(k)' = Bit(k)
      BY <2>2, <2>3, BitKept
    <3>2. CASE k = n
      BY <2>1, <3>1, <3>2 DEF OwnBit, Marked
    <3>3. CASE k # n
      <4>1. g_critical_error_queues[k] # NULL
        BY <2>1, <2>3, <3>3 DEF TypeOK
      <4>2. Marked(k)
        BY <3>1, <4>1 DEF OwnSlotKept
      <4>3. QED
        BY <2>1, <3>1, <4>2 DEF Marked
    <3>4. QED
      BY <3>2, <3>3
  <2>4. QED
    BY <2>3 DEF OwnSlotKept
<1>3. ASSUME ConsumerTake PROVE OwnSlotKept'
  <2>1. PICK n \in i..(Slots - 1) :
          /\ g_critical_error_queues' = [g_critical_error_queues EXCEPT ![n] = NULL]
          /\ g_critical_error_bitmap' = g_critical_error_bitmap \ Bit(n)
    BY <1>3 DEF ConsumerTake, Emptied, Cleared
  <2>2. n \in Index /\ shl' = shl
    BY <1>3 DEF TypeOK, Index, ConsumerTake
  <2>3. ASSUME NEW k \in Index, OwnBit(k)', g_critical_error_queues'[k] # NULL PROVE Marked(k)'
    <3>1. k # n /\ g_critical_error_queues[k] # NULL
      BY <2>1, <2>2, <2>3 DEF TypeOK
    <3>2. OwnBit(k)
      BY <2>2, <2>3, BitKept
    <3>3. Marked(k)
      BY <3>1, <3>2 DEF OwnSlotKept
    <3>4. QED
      BY <2>1, <2>2, <3>1, <3>2, <3>3, OthersCleared
  <2>4. QED
    BY <2>3 DEF OwnSlotKept
<1>4. \/ UNCHANGED vars
      \/ \E p \in Producers : CrashRecovered(p) \/ CrashFatal(p) \/ AddDropped(p) \/ AddSends(p)
      \/ ConsumerSleep \/ ConsumerWake \/ ConsumerRound \/ ConsumerWrite
      => UNCHANGED <<g_critical_error_bitmap, g_critical_error_queues, shl>>
  BY DEF vars, CrashRecovered, CrashFatal, AddDropped, AddSends, ConsumerSleep, ConsumerWake,
         ConsumerRound, ConsumerWrite, table, consumer
<1>5. QED
  BY <1>1, <1>2, <1>3, <1>4 DEF Next, Add, ConsumerStep

\* A record in a slot whose bit no other slot shares stays marked for the consumer
\* until it has taken it, and so is not overwritten either, for every number of
\* slots and bits: with 63 slots on 32 bits, what has reached a slot is lost only
\* where the slot shares its bit or has none.
THEOREM ErrorsOwnSlotKept == Spec => []OwnSlotKept
<1>1. Init => OwnSlotKept
  BY DEF Init, OwnSlotKept
<1>2. EInv /\ OwnSlotKept /\ [Next]_vars => OwnSlotKept'
  BY NextOwnSlot
<1>3. QED
  BY <1>1, <1>2, ErrorsInvariance, PTL DEF Spec

=============================================================================
