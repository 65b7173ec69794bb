--------------------------- MODULE GatewayProofs ---------------------------
(***************************************************************************)
(* Theorems about Gateway, for every number of sending threads, libraries, *)
(* message lengths and every size of the arena: the types, that the flush  *)
(* loses and repeats no stored message, and that the arena is set up once. *)
(***************************************************************************)
EXTENDS Gateway, TLAPS

-----------------------------------------------------------------------------
(* The inductive invariant.                                                *)

\* The records that TypeOK only looks into, as sets.
RecordInv ==
    /\ ctl \in [pc : {"idle", "init", "connect", "start"}, lib : Libs \cup {NoLib},
                cmd : {"none", "start", "restart"}]
    /\ send \in [Senders -> {Idle} \cup [pc : {"check", "lock"}, msg : Msg]]

\* The control thread connects the gateway after the dispatcher has been set
\* up, and the library is started, once and for all, right after.
CtlInv ==
    /\ ctl.pc # "idle" => ~gateway_is_alive
    /\ connected <=> gateway_is_alive \/ ctl.pc = "start"

\* Until then nobody sends, nothing is stored and no thread is created twice.
QuietInv ==
    /\ ~connected => /\ contents = <<>>
                     /\ current_offset = 0
                     /\ disp \in {"none", "sleep"}
                     /\ \A s \in Senders : send[s] = Idle
    /\ ~connected /\ ctl.pc # "connect" => created = 0
    /\ created <= 1

\* The dispatcher holds the mutex while on_data runs, on a copy of the arena
\* that stays exact.
FlushInv ==
    /\ disp \in {"data", "relock"} <=> mutex = Disp
    /\ disp \in {"data", "relock"} => msg_buf = contents

GInv == TypeOK /\ RecordInv /\ CtlInv /\ QuietInv /\ FlushInv /\ NoneLost

\* The initial state satisfies it.
LEMMA InitGInv == Init => GInv
<1> SUFFICES ASSUME Init PROVE GInv
  OBVIOUS
<1> USE GatewayAssumption DEF Init
<1>1. <<>> \in Seq(Msg)
  OBVIOUS
<1>2. RecordInv
  BY DEF RecordInv
<1>3. \A s \in Senders : send[s].pc = "idle"
  BY DEF Idle
<1>4. TypeOK
  <2>1. ctl.pc = "idle" /\ ctl.lib = NoLib /\ ctl.cmd = "none"
    OBVIOUS
  <2>2. current_offset \in 0..(Capacity - 1) /\ sent \in 0..MaxMsgs /\ created \in Nat
    OBVIOUS
  <2>3. QED
    BY <1>1, <1>3, <2>1, <2>2 DEF TypeOK
<1>5. CtlInv /\ QuietInv
  BY DEF CtlInv, QuietInv
<1>6. Nobody # Disp
  OBVIOUS
<1>7. FlushInv
  BY <1>6 DEF FlushInv
<1>8. NoneLost
  BY DEF NoneLost
<1>9. QED
  BY <1>2, <1>4, <1>5, <1>7, <1>8 DEF GInv

\* What is appended to the second part is appended to the whole.
LEMMA AppendLast ==
    ASSUME NEW a \in Seq(Msg), NEW b \in Seq(Msg), NEW x \in Msg
    PROVE  Append(a \o b, x) = a \o Append(b, x)
  OBVIOUS

\* The senders' records are typed whatever the sender does next.
LEMMA SendTyped ==
    ASSUME RecordInv, NEW s \in Senders, send[s].pc # "idle"
    PROVE  /\ send[s] \in [pc : {"check", "lock"}, msg : Msg]
           /\ send[s].msg \in Msg
           /\ send[s] # Idle
<1>1. Idle.pc = "idle"
  BY DEF Idle
<1>2. send[s] \in {Idle} \cup [pc : {"check", "lock"}, msg : Msg]
  BY DEF RecordInv
<1>3. QED
  BY <1>1, <1>2

-----------------------------------------------------------------------------
(* The commands.                                                           *)

\* A step that only answers, or nothing at all.
LEMMA AnswerKeeps ==
    ASSUME GInv,
           UNCHANGED <<connected, gateway_is_alive, ctl, store, mutex, disp, created, send,
                       msg_buf, history>>
    PROVE  GInv'
<1> USE DEF GInv, store, history
<1>1. TypeOK' /\ RecordInv'
  BY DEF TypeOK, RecordInv
<1>2. CtlInv' /\ QuietInv' /\ FlushInv' /\ NoneLost'
  BY DEF CtlInv, QuietInv, FlushInv, NoneLost
<1>3. QED
  BY <1>1, <1>2

\* A library is loaded only while no gateway is alive or being started.
LEMMA LoadKeeps ==
    ASSUME GInv, NEW cmd \in {"start", "restart"}, NEW lib \in Libs, CtlLoad(cmd, lib)
    PROVE  GInv'
<1> USE DEF GInv
<1>1. /\ ctl.pc = "idle" /\ ~gateway_is_alive
      /\ ctl' = [pc |-> "init", lib |-> lib, cmd |-> cmd]
      /\ UNCHANGED <<connected, gateway_is_alive, arena, contents, current_offset, mutex, disp,
                     created, send, msg_buf, sent, accepted, delivered>>
  BY DEF CtlLoad, MayInit, store, history
<1>2. ctl'.pc = "init" /\ ctl'.lib = lib /\ ctl'.cmd = cmd
  BY <1>1
<1>3. TypeOK' /\ RecordInv'
  BY <1>1, <1>2 DEF TypeOK, RecordInv
<1>4. CtlInv' /\ QuietInv'
  BY <1>1, <1>2 DEF CtlInv, QuietInv
<1>5. FlushInv' /\ NoneLost'
  BY <1>1 DEF FlushInv, NoneLost
<1>6. QED
  BY <1>3, <1>4, <1>5

\* The dispatcher is set up while nothing is stored, so nothing is lost.
LEMMA SetUpKeeps ==
    ASSUME GInv, NEW got \in {"null", "live"}, NEW thread \in BOOLEAN,
           gateway_dispatcher_init(got, thread)
    PROVE  GInv'
<1> USE GatewayAssumption DEF GInv
<1>1. /\ ctl.pc = "init"
      /\ arena' = got /\ contents' = <<>> /\ current_offset' = 0
      /\ disp' = IF thread THEN "sleep" ELSE disp
      /\ created' = created + (IF thread THEN 1 ELSE 0)
      /\ ctl' = [ctl EXCEPT !.pc = "connect"]
      /\ UNCHANGED <<connected, gateway_is_alive, mutex, send, msg_buf, sent, accepted, delivered>>
  BY DEF gateway_dispatcher_init, history
<1>2. ~gateway_is_alive /\ ~connected
  BY <1>1 DEF CtlInv
<1>3. contents = <<>> /\ disp \in {"none", "sleep"} /\ created = 0 /\ \A s \in Senders : send[s] = Idle
  BY <1>1, <1>2 DEF QuietInv
<1>4. ctl'.pc = "connect" /\ ctl'.lib = ctl.lib /\ ctl'.cmd = ctl.cmd /\ RecordInv'
  BY <1>1 DEF RecordInv
<1>5. created' \in {0, 1} /\ disp' \in {"none", "sleep"}
  BY <1>1, <1>3
<1>6. current_offset' \in 0..(Capacity - 1) /\ contents' \in Seq(Msg)
  BY <1>1
<1>7. TypeOK'
  BY <1>1, <1>4, <1>5, <1>6 DEF TypeOK
<1>8. CtlInv' /\ QuietInv'
  BY <1>1, <1>2, <1>3, <1>4, <1>5 DEF CtlInv, QuietInv
<1>9. FlushInv'
  BY <1>1, <1>3, <1>5 DEF FlushInv
<1>10. NoneLost'
  BY <1>1, <1>3 DEF NoneLost
<1>11. QED
  BY <1>4, <1>7, <1>8, <1>9, <1>10

\* The flag is set when the dispatcher is there; then the library is started.
LEMMA ConnectKeeps ==
    ASSUME GInv, CtlConnect \/ gateway_start_lib
    PROVE  GInv'
<1> USE DEF GInv
<1>1. /\ ctl.pc \in {"connect", "start"}
      /\ ctl' = [ctl EXCEPT !.pc = IF ctl.pc = "connect" THEN "start" ELSE "idle"]
      /\ connected' = TRUE
      /\ gateway_is_alive' = (ctl.pc = "start" \/ gateway_is_alive)
      /\ UNCHANGED <<arena, contents, current_offset, mutex, disp, created, send, msg_buf, sent,
                     accepted, delivered>>
  BY DEF CtlConnect, gateway_start_lib, store, history, TypeOK
<1>2. /\ ctl'.pc = (IF ctl.pc = "connect" THEN "start" ELSE "idle")
      /\ ctl'.lib = ctl.lib /\ ctl'.cmd = ctl.cmd /\ RecordInv'
  BY <1>1 DEF RecordInv
<1>3. TypeOK'
  BY <1>1, <1>2 DEF TypeOK
<1>4. CtlInv' /\ QuietInv'
  BY <1>1, <1>2 DEF CtlInv, QuietInv
<1>5. FlushInv' /\ NoneLost'
  BY <1>1 DEF FlushInv, NoneLost
<1>6. QED
  BY <1>2, <1>3, <1>4, <1>5

-----------------------------------------------------------------------------
(* The senders.                                                            *)

\* Nobody sends before the gateway is connected.
LEMMA SendingConnected ==
    ASSUME GInv, NEW s \in Senders, send[s].pc # "idle"
    PROVE  connected
  BY DEF GInv, QuietInv, Idle

\* A step of one sender that stores nothing.
LEMMA SenderMoves ==
    ASSUME GInv, NEW s \in Senders, connected,
           NEW r \in {Idle} \cup [pc : {"check", "lock"}, msg : Msg],
           send' = [send EXCEPT ![s] = r], sent' \in 0..MaxMsgs,
           UNCHANGED <<gateway, store, mutex, disp, created, msg_buf, accepted, delivered>>
    PROVE  GInv'
<1> USE DEF GInv, gateway, store
<1>1. send' \in [Senders -> {Idle} \cup [pc : {"check", "lock"}, msg : Msg]]
  BY DEF RecordInv
<1>2. RecordInv'
  BY <1>1 DEF RecordInv
<1>3. \A u \in Senders : send'[u].pc # "idle" => send'[u].msg \in Msg
  BY <1>1 DEF Idle
<1>4. TypeOK'
  BY <1>3 DEF TypeOK
<1>5. CtlInv' /\ QuietInv'
  BY DEF CtlInv, QuietInv
<1>6. FlushInv' /\ NoneLost'
  BY DEF FlushInv, NoneLost
<1>7. QED
  BY <1>2, <1>4, <1>5, <1>6

\* A thread begins to send.
LEMMA BeginKeeps ==
    ASSUME GInv, NEW s \in Senders, NEW len \in Lens, SendBegin(s, len)
    PROVE  GInv'
<1> DEFINE r == [pc |-> "check", msg |-> [n |-> sent', len |-> len]]
<1>1. /\ connected /\ sent < MaxMsgs /\ sent' = sent + 1
      /\ send' = [send EXCEPT ![s] = r]
      /\ UNCHANGED <<gateway, store, mutex, disp, created, msg_buf, accepted, delivered>>
  BY DEF SendBegin
<1>2. sent' \in 1..MaxMsgs
  BY <1>1, GatewayAssumption DEF GInv, TypeOK
<1>3. r \in [pc : {"check", "lock"}, msg : Msg]
  BY <1>2 DEF Msg
<1> HIDE DEF r
<1>4. sent' \in 0..MaxMsgs
  BY <1>2, GatewayAssumption
<1>5. QED
  BY <1>1, <1>3, <1>4, SenderMoves

\* It looks at the arena pointer, or finds the arena full and gives up.
LEMMA CheckDropKeeps ==
    ASSUME GInv, NEW s \in Senders, SendCheck(s) \/ SendDrop(s)
    PROVE  GInv'
<1>1. send[s].pc # "idle"
  BY DEF SendCheck, SendDrop
<1>2. send[s] \in [pc : {"check", "lock"}, msg : Msg] /\ connected
  BY <1>1, SendTyped, SendingConnected DEF GInv
<1> DEFINE q == [send[s] EXCEPT !.pc = "lock"]
<1>3. q \in [pc : {"check", "lock"}, msg : Msg]
  BY <1>2
<1>4. send' = [send EXCEPT ![s] = Idle] \/ send' = [send EXCEPT ![s] = q]
  BY DEF SendCheck, SendDrop
<1> HIDE DEF q
<1>5. /\ sent' \in 0..MaxMsgs
      /\ UNCHANGED <<gateway, store, mutex, disp, created, msg_buf, accepted, delivered>>
  BY DEF SendCheck, SendDrop, history, GInv, TypeOK
<1>6. QED
  BY <1>2, <1>3, <1>4, <1>5, SenderMoves

\* A message is stored while no flush is under way.
LEMMA StoreKeeps ==
    ASSUME GInv, NEW s \in Senders, SendStore(s)
    PROVE  GInv'
<1> USE GatewayAssumption DEF GInv
<1> DEFINE m == send[s].msg
<1>1. /\ send[s].pc = "lock" /\ mutex = Nobody
      /\ current_offset + m.len + 1 < Capacity
      /\ contents' = Append(contents, m)
      /\ current_offset' = current_offset + m.len + 1
      /\ accepted' = Append(accepted, m)
      /\ send' = [send EXCEPT ![s] = Idle]
      /\ UNCHANGED <<connected, gateway_is_alive, ctl, arena, mutex, disp, created, msg_buf, sent, delivered>>
  BY DEF SendStore, Fits, gateway
<1>2. m \in Msg /\ connected
  BY <1>1, SendTyped, SendingConnected
<1>3. m.len \in Nat
  BY <1>2 DEF Msg
<1> HIDE DEF m
<1>4. contents \in Seq(Msg) /\ accepted \in Seq(Msg) /\ delivered \in Seq(Msg)
  BY DEF TypeOK
<1>5. contents' \in Seq(Msg) /\ accepted' \in Seq(Msg)
  BY <1>1, <1>2, <1>4
<1>6. current_offset' \in 0..(Capacity - 1)
  BY <1>1, <1>3 DEF TypeOK
<1>7. send' \in [Senders -> {Idle} \cup [pc : {"check", "lock"}, msg : Msg]]
  BY <1>1 DEF RecordInv
<1>8. \A u \in Senders : send'[u].pc # "idle" => send'[u].msg \in Msg
  BY <1>7 DEF Idle
<1>9. TypeOK' /\ RecordInv'
  BY <1>1, <1>5, <1>6, <1>7, <1>8 DEF TypeOK, RecordInv
<1>10. CtlInv' /\ QuietInv'
  BY <1>1, <1>2 DEF CtlInv, QuietInv
<1>11. FlushInv'
  BY <1>1 DEF FlushInv
<1>12. NoneLost'
  <2>1. m \in Msg
    BY <1>2
  <2>2. Append(delivered \o contents, m) = delivered \o Append(contents, m)
    BY <1>4, <2>1, AppendLast
  <2>3. QED
    BY <1>1, <2>2 DEF NoneLost
<1>13. QED
  BY <1>9, <1>10, <1>11, <1>12

-----------------------------------------------------------------------------
(* The dispatcher.                                                         *)

\* The dispatcher looks, takes its copy, or is called back.
LEMMA DispKeeps ==
    ASSUME GInv, DispCheck \/ FlushLock \/ OnDataSends
    PROVE  GInv'
<1> USE GatewayAssumption DEF GInv
<1>1. UNCHANGED <<connected, gateway_is_alive, ctl, arena, contents, current_offset, created, send,
                  sent, accepted, delivered>>
  BY DEF DispCheck, FlushLock, OnDataSends, gateway, store, history
<1>2. mutex' \in {Nobody, Disp} /\ msg_buf' \in Seq(Msg)
      /\ disp' \in {"none", "sleep", "flush", "data", "relock"}
  BY DEF DispCheck, FlushLock, OnDataSends, TypeOK
<1>3. TypeOK' /\ RecordInv'
  BY <1>1, <1>2 DEF TypeOK, RecordInv
<1>4. ~connected => disp' \in {"none", "sleep"}
  BY DEF DispCheck, FlushLock, OnDataSends, has_data, QuietInv
<1>5. CtlInv' /\ QuietInv'
  BY <1>1, <1>4 DEF CtlInv, QuietInv
<1>6. FlushInv'
  BY <1>1 DEF FlushInv, DispCheck, FlushLock, OnDataSends
<1>7. NoneLost'
  BY <1>1 DEF NoneLost
<1>8. QED
  BY <1>3, <1>5, <1>6, <1>7

\* on_data has been given exactly what the flush throws away.
LEMMA DoneKeeps ==
    ASSUME GInv, FlushDone
    PROVE  GInv'
<1> USE GatewayAssumption DEF GInv
<1>1. /\ disp = "data"
      /\ delivered' = delivered \o msg_buf
      /\ msg_buf' = <<>> /\ contents' = <<>> /\ current_offset' = 0
      /\ mutex' = Nobody /\ disp' = "sleep"
      /\ UNCHANGED <<connected, gateway_is_alive, ctl, arena, created, send, sent, accepted>>
  BY DEF FlushDone, gateway
<1>2. msg_buf = contents
  BY <1>1 DEF FlushInv
<1>3. delivered \in Seq(Msg) /\ msg_buf \in Seq(Msg)
  BY DEF TypeOK
<1>4. delivered' \in Seq(Msg) /\ delivered' \o <<>> = delivered'
  BY <1>1, <1>3
<1>5. current_offset' \in 0..(Capacity - 1) /\ contents' \in Seq(Msg) /\ msg_buf' \in Seq(Msg)
  BY <1>1
<1>6. TypeOK' /\ RecordInv'
  BY <1>1, <1>4, <1>5 DEF TypeOK, RecordInv
<1>7. CtlInv' /\ QuietInv' /\ FlushInv'
  BY <1>1 DEF CtlInv, QuietInv, FlushInv
<1>8. NoneLost'
  BY <1>1, <1>2, <1>4 DEF NoneLost
<1>9. QED
  BY <1>6, <1>7, <1>8

-----------------------------------------------------------------------------
(* The theorems.                                                           *)

\* Every step keeps the invariant.
LEMMA NextGInv == GInv /\ [Next]_vars => GInv'
<1> SUFFICES ASSUME GInv, [Next]_vars PROVE GInv'
  OBVIOUS
<1> DEFINE Same == UNCHANGED <<connected, gateway_is_alive, ctl, store, mutex, disp, created, send,
                               msg_buf, history>>
<1>1. UNCHANGED vars => Same
  BY DEF vars, store, history
<1>2. (\E cmd \in {"malformed", "unknown", "stop"} : CtlRefused(cmd)) \/ CtlStatus
        \/ (\E cmd \in {"start", "restart"} : CtlInitFails(cmd)) => Same
  BY DEF CtlRefused, CtlStatus, CtlInitFails
<1>3. Same => GInv'
  BY AnswerKeeps
<1> HIDE DEF Same
<1>4. Ctl => GInv'
  BY <1>2, <1>3, LoadKeeps, SetUpKeeps, ConnectKeeps DEF Ctl
<1>5. ASSUME NEW s \in Senders PROVE Sender(s) \/ (\E len \in Lens : SendBegin(s, len)) => GInv'
  BY BeginKeeps, CheckDropKeeps, StoreKeeps DEF Sender
<1>6. Dispatcher \/ OnDataSends => GInv'
  BY DispKeeps, DoneKeeps DEF Dispatcher
<1>7. QED
  BY <1>1, <1>3, <1>4, <1>5, <1>6 DEF Next

\* The gateway never leaves the inductive invariant.
THEOREM GatewayInvariance == Spec => []GInv
  BY InitGInv, NextGInv, PTL DEF Spec

\* Type correctness of the gateway; in particular the offset never reaches the
\* end of the arena.
THEOREM GatewayTypes == Spec => []TypeOK
<1>1. GInv => TypeOK
  BY DEF GInv
<1>2. QED
  BY <1>1, GatewayInvariance, PTL

\* However senders race with the flush and with the start of the library, what
\* was stored is what on_data was given and what the arena holds, in order.
THEOREM GatewayNoneLost == Spec => []NoneLost
<1>1. GInv => NoneLost
  BY DEF GInv
<1>2. QED
  BY <1>1, GatewayInvariance, PTL

\* However often start and restart are sent, the arena is set up once, before
\* anybody sends.
THEOREM GatewaySetUpOnce == Spec => []SetUpOnce
<1>1. GInv => SetUpOnce
  <2>1. SUFFICES ASSUME GInv PROVE SetUpOnce
    OBVIOUS
  <2>2. created <= 1
    BY <2>1 DEF GInv, QuietInv
  <2>3. ctl.pc = "init" => ~connected
    BY <2>1 DEF GInv, CtlInv
  <2>4. QED
    BY <2>1, <2>2, <2>3 DEF GInv, QuietInv, SetUpOnce, Idle
<1>2. QED
  BY <1>1, GatewayInvariance, PTL

=============================================================================
