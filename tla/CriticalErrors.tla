--------------------------- MODULE CriticalErrors ---------------------------
(***************************************************************************)
(* Crash records: crash_handler (src/core/crash_recovery.c) and the queue  *)
(* of critical errors (src/core/log.c).                                    *)
(*                                                                         *)
(* A scheduler or bus thread whose callback crashes is thrown back to its  *)
(* sigsetjmp and puts a record into the lowest slot whose bit is clear; a  *)
(* consumer thread writes the records to a file.  The bitmap has Width     *)
(* bits (32 in the code) for Slots slots (63), and a bit is 1U << i: a     *)
(* shift by Width or more is undefined.  A critical section of             *)
(* g_critical_error_mtx is one step; the consumer leaves it to write, and  *)
(* a producer keeps it while it sends the record to a connected gateway.   *)
(***************************************************************************)
EXTENDS Integers, FiniteSets

CONSTANTS
    Producers,   \* the threads that run plugin callbacks under a marker
    Width,       \* bits of g_critical_error_bitmap
    Slots,       \* MAX_CRITICAL_ERROR_QUEUE_SIZE
    MaxRecs,     \* bound: number of strdup'ed records
    Shifts       \* what 1U << n may yield for n >= Width: "wraps", "zero"

Recs == 1..MaxRecs
NULL == 0
Index == 0..(Slots - 1)

ASSUME ErrorsAssumption ==
    /\ Width \in Nat \ {0}
    /\ Slots \in Nat \ {0}
    /\ MaxRecs \in Nat
    /\ Shifts \subseteq {"wraps", "zero"}

VARIABLES
    alive,                     \* the process
    ppc,                       \* control point of each producer
    g_critical_error_bitmap,   \* the set of its 1 bits
    g_critical_error_queues,
    heap,                      \* each record: "unused", "live" or "freed"
    cpc, i, msg,               \* the consumer: control point, loop index, record
    written,                   \* records that reached a log file
    shl                        \* which of the Shifts this build has

vars == <<alive, ppc, g_critical_error_bitmap, g_critical_error_queues, heap,
          cpc, i, msg, written, shl>>

table    == <<g_critical_error_bitmap, g_critical_error_queues>>
consumer == <<cpc, i, msg>>

\* core_log_init has started the consumer.
Init ==
    /\ alive = TRUE
    /\ ppc = [p \in Producers |-> "run"]
    /\ g_critical_error_bitmap = {}
    /\ g_critical_error_queues = [n \in Index |-> NULL]
    /\ heap = [r \in Recs |-> "unused"]
    /\ cpc = "top" /\ i = 0 /\ msg = NULL
    /\ written = {}
    /\ shl \in Shifts

\* 1U << n.  Machines shift by n modulo the width; a compiler may as well
\* fold an out-of-range shift to 0.
Bit(n) ==
    IF n < Width THEN {n} ELSE IF shl = "wraps" THEN {n % Width} ELSE {}

\* g_critical_error_bitmap & (1U << n)
Marked(n) == Bit(n) \cap g_critical_error_bitmap # {}

-----------------------------------------------------------------------------
(* crash_handler.                                                          *)

\* The marker is on the stack close to the fault: siglongjmp.
CrashRecovered(p) ==
    /\ alive
    /\ ppc[p] = "run"
    /\ ppc' = [ppc EXCEPT ![p] = "record"]
    /\ UNCHANGED <<alive, table, heap, consumer, written, shl>>

\* No marker found: _exit(1).
CrashFatal(p) ==
    /\ alive
    /\ ppc[p] = "run"
    /\ alive' = FALSE
    /\ UNCHANGED <<ppc, table, heap, consumer, written, shl>>

-----------------------------------------------------------------------------
(* add_scheduler_critical_error and add_event_bus_critical_error.          *)

MutFreeSlot(n) == g_critical_error_queues[n] = NULL \/ n = 0

\* The search stops at the first slot whose bit is clear.
FreeSlot(n) == ~Marked(n) /\ \A k \in 0..(n - 1) : Marked(k)

\* Nobody has g_critical_error_mtx.
Unlocked == \A p \in Producers : ppc[p] # "send"

\* No slot: the record is dropped with a warning.
AddDropped(p) ==
    /\ alive
    /\ ppc[p] = "record"
    /\ Unlocked
    /\ \A n \in Index : Marked(n)
    /\ ppc' = [ppc EXCEPT ![p] = "run"]
    /\ UNCHANGED <<alive, table, heap, consumer, written, shl>>

\* There is a slot, and g_gateway_connected_flag is set: gateway_msg_send, with
\* the mutex held.  It may have to wait for the dispatcher (module Gateway).
AddSends(p) ==
    /\ alive
    /\ ppc[p] = "record"
    /\ Unlocked
    /\ \E n \in Index : FreeSlot(n)
    /\ ppc' = [ppc EXCEPT ![p] = "send"]
    /\ UNCHANGED <<alive, table, heap, consumer, written, shl>>

MutNoSignal == cpc

\* pthread_cond_signal(&g_critical_error_cond)
Signalled == IF cpc = "sleep" THEN "top" ELSE cpc

\* No gateway is connected, or gateway_msg_send has returned: the slot gets the
\* record r (NULL if strdup fails) and is marked.
AddRecord(p, r) ==
    /\ alive
    /\ ppc[p] = "send" \/ (ppc[p] = "record" /\ Unlocked)
    /\ \E n \in Index :
        /\ FreeSlot(n)
        /\ g_critical_error_queues' = [g_critical_error_queues EXCEPT ![n] = r]
        /\ g_critical_error_bitmap' = g_critical_error_bitmap \cup Bit(n)
    /\ \/ r = NULL /\ UNCHANGED heap
       \/ /\ r # NULL /\ heap[r] = "unused"
          /\ heap' = [heap EXCEPT ![r] = "live"]
    /\ cpc' = Signalled
    /\ ppc' = [ppc EXCEPT ![p] = "run"]
    /\ UNCHANGED <<alive, i, msg, written, shl>>

\* The next record is the lowest unused one.
Add(p) ==
    \/ AddRecord(p, NULL)
    \/ \E r \in Recs : (\A q \in 1..(r - 1) : heap[q] # "unused") /\ AddRecord(p, r)

-----------------------------------------------------------------------------
(* critical_error_consumer_thread.                                         *)

\* Nothing marked: wait.
ConsumerSleep ==
    /\ alive
    /\ cpc = "top"
    /\ Unlocked
    /\ g_critical_error_bitmap = {}
    /\ cpc' = "sleep"
    /\ UNCHANGED <<alive, ppc, table, heap, i, msg, written, shl>>

\* The condition wait may end without a signal.
ConsumerWake ==
    /\ alive
    /\ cpc = "sleep"
    /\ cpc' = "top"
    /\ UNCHANGED <<alive, ppc, table, heap, i, msg, written, shl>>

MutCleared(n) == {}

\* g_critical_error_bitmap &= ~(1U << n)
Cleared(n) == g_critical_error_bitmap \ Bit(n)

MutKeptSlot(n) == g_critical_error_queues

\* g_critical_error_queues[n] = NULL
Emptied(n) == [g_critical_error_queues EXCEPT ![n] = NULL]

\* The loop reaches a marked slot: empty it, clear its bit, leave the mutex.
ConsumerTake ==
    /\ alive
    /\ \/ cpc = "top" /\ g_critical_error_bitmap # {}
       \/ cpc = "scan"
    /\ Unlocked
    /\ \E n \in i..(Slots - 1) :
        /\ Marked(n)
        /\ \A k \in i..(n - 1) : ~Marked(k)
        /\ msg' = g_critical_error_queues[n]
        /\ g_critical_error_queues' = Emptied(n)
        /\ g_critical_error_bitmap' = Cleared(n)
        /\ i' = n
    /\ cpc' = "write"
    /\ UNCHANGED <<alive, ppc, heap, written, shl>>

\* Outside the mutex: write a record (to the error log if the file cannot be
\* opened) and free it, then go on with the next slot.
ConsumerWrite ==
    /\ alive
    /\ cpc = "write"
    /\ IF msg = NULL THEN UNCHANGED <<heap, written>>
       ELSE /\ heap' = [heap EXCEPT ![msg] = "freed"]
            /\ written' = written \cup {msg}
    /\ msg' = NULL
    /\ i' = i + 1
    /\ cpc' = "scan"
    /\ UNCHANGED <<alive, ppc, table, shl>>

\* No marked slot is left in this pass.
ConsumerRound ==
    /\ alive
    /\ cpc = "scan"
    /\ Unlocked
    /\ \A n \in i..(Slots - 1) : ~Marked(n)
    /\ i' = 0
    /\ cpc' = "top"
    /\ UNCHANGED <<alive, ppc, table, heap, msg, written, shl>>

ConsumerStep == ConsumerSleep \/ ConsumerTake \/ ConsumerWrite \/ ConsumerRound

Next ==
    \/ \E p \in Producers :
        CrashRecovered(p) \/ CrashFatal(p) \/ AddDropped(p) \/ AddSends(p) \/ Add(p)
    \/ ConsumerStep \/ ConsumerWake

Spec == Init /\ [][Next]_vars

\* The consumer thread goes on running and gets the mutex now and then, and
\* gateway_msg_send returns; nothing has to crash.
FairSpec ==
    /\ Spec
    /\ SF_vars(ConsumerStep)
    /\ \A p \in Producers : WF_vars(ppc[p] = "send" /\ Add(p))

-----------------------------------------------------------------------------
(* Properties.                                                             *)

\* The types of the variables.
TypeOK ==
    /\ alive \in BOOLEAN
    /\ ppc \in [Producers -> {"run", "record", "send"}]
    /\ g_critical_error_bitmap \subseteq 0..(Width - 1)
    /\ g_critical_error_queues \in [Index -> Recs \cup {NULL}]
    /\ heap \in [Recs -> {"unused", "live", "freed"}]
    /\ cpc \in {"top", "sleep", "scan", "write"}
    /\ i \in 0..Slots
    /\ msg \in Recs \cup {NULL}
    /\ written \subseteq Recs
    /\ shl \in {"wraps", "zero"}

\* A record the consumer holds or a slot points at is allocated, and has no
\* second holder: none is written or freed twice, in spite of the aliased bits.
RecordOwnership ==
    /\ msg # NULL => heap[msg] = "live" /\ \A n \in Index : g_critical_error_queues[n] # msg
    /\ \A n \in Index : LET r == g_critical_error_queues[n] IN
        r # NULL => heap[r] = "live" /\ \A k \in Index : g_critical_error_queues[k] = r => k = n

\* The consumer never sleeps while a slot is marked.
NoMissedSignal == cpc = "sleep" => g_critical_error_bitmap = {}

\* No other slot shares the bit of slot n.  In the code this is slot 31 where
\* shifts are modulo the width, and slots 0 to 31 where they yield 0.
OwnBit(n) == Bit(n) # {} /\ \A k \in Index \ {n} : Bit(k) \cap Bit(n) = {}

\* A record in such a slot is not lost: the slot stays marked until the consumer
\* has taken the record, whatever it does to slots that share their bits.
OwnSlotKept == \A n \in Index : OwnBit(n) /\ g_critical_error_queues[n] # NULL => Marked(n)

\* ... and the record is eventually written, although producers go on adding
\* records and keep the mutex while they send.
RecordsWritten ==
    \A n \in Index, r \in Recs :
        (OwnBit(n) /\ g_critical_error_queues[n] = r) ~> (r \in written \/ ~alive)

\* CONTRIBUTING.md, Zero-Leak Rule: a record that has been allocated can still
\* be freed: a marked slot or the consumer has it.
NoneLost ==
    \A r \in Recs : heap[r] = "live" =>
        \/ msg = r
        \/ \E n \in Index : Marked(n) /\ g_critical_error_queues[n] = r

=============================================================================
