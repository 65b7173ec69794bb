------------------------------ MODULE Gateway ------------------------------
(***************************************************************************)
(* The gateway of CoreCDTL: gateway commands of the control session        *)
(* (handle_ctl_command of src/core/core_ctl.c), loading and starting of    *)
(* the gateway library (src/gateway/gateway.c) and the dispatcher that     *)
(* collects the messages of every thread in an arena and hands them to     *)
(* the library (src/gateway/gateway_dispatcher.c).                         *)
(*                                                                         *)
(* core_ctl.c reads a static gateway_is_alive of its own that nothing      *)
(* assigns, not the variable of gateway.c.  Its branches for a running     *)
(* gateway are never taken, so gateway_stop_lib, gateway_restart_lib,      *)
(* gateway_close_lib and gateway_dispatcher_close have no caller.          *)
(***************************************************************************)
EXTENDS Integers, Sequences

CONSTANTS
    Senders,     \* the threads of the core that report to the gateway
    Disp,        \* the dispatcher thread
    Libs,        \* gateway names a command may carry
    Lens,        \* lengths of formatted messages
    Capacity,    \* MAX_TOTAL_SIZE
    Reentrant,   \* whether the library's on_data calls back into the core
    MaxMsgs      \* bound: messages sent

NoLib  == "no lib"
Nobody == "nobody"

ASSUME GatewayAssumption ==
    /\ Disp \notin Senders
    /\ Nobody \notin Senders \cup {Disp}
    /\ NoLib \notin Libs
    /\ Lens \subseteq Nat \ {0}
    /\ Capacity \in Nat \ {0}
    /\ Reentrant \in BOOLEAN
    /\ MaxMsgs \in Nat

VARIABLES
    connected,          \* g_gateway_connected_flag
    gateway_is_alive,   \* the variable of gateway.c
    ctl,                \* the control thread: control point and command at hand
    arena,              \* arena_d_instance: "null" or "live"
    contents,           \* the messages in the arena
    current_offset,
    mutex,              \* holder of gateway_d_flush_mutex
    disp,               \* control point of the dispatcher thread
    created,            \* history: dispatcher threads created
    send,               \* each sender's control point and message
    msg_buf,            \* the copy that on_data reads
    sent,               \* history: number of messages sent
    accepted,           \* history: messages stored in the arena, in order
    delivered,          \* history: messages handed to on_data, in order
    last                \* the last response to a command

vars == <<connected, gateway_is_alive, ctl, arena, contents, current_offset, mutex,
          disp, created, send, msg_buf, sent, accepted, delivered, last>>

gateway == <<connected, gateway_is_alive, ctl, last>>
store   == <<arena, contents, current_offset>>
history == <<sent, accepted, delivered>>

Msg  == [n : 1..MaxMsgs, len : Lens]
Idle == [pc |-> "idle"]

Init ==
    /\ connected = FALSE
    /\ gateway_is_alive = FALSE
    /\ ctl = [pc |-> "idle", lib |-> NoLib, cmd |-> "none"]
    /\ arena = "null"
    /\ contents = <<>>
    /\ current_offset = 0
    /\ mutex = Nobody
    /\ disp = "none"
    /\ created = 0
    /\ send = [s \in Senders |-> Idle]
    /\ msg_buf = <<>>
    /\ sent = 0
    /\ accepted = <<>>
    /\ delivered = <<>>
    /\ last = [cmd |-> "none", ok |-> TRUE]

-----------------------------------------------------------------------------
(* Commands: handle_ctl_command, on the thread that serves the session.    *)

\* The static variable of core_ctl.c that shadows the one of gateway.c.
ctl_gateway_is_alive == FALSE

Respond(cmd, ok) == last' = [cmd |-> cmd, ok |-> ok]

\* A malformed line, an unknown action, and a stop, which is refused since the
\* static variable reads 0.
CtlRefused(cmd) ==
    /\ ctl.pc = "idle"
    /\ ~ctl_gateway_is_alive
    /\ Respond(cmd, FALSE)
    /\ UNCHANGED <<connected, gateway_is_alive, ctl, store, mutex, disp, created,
                   send, msg_buf, history>>

\* status: ok stands for the answer "Running".
CtlStatus ==
    /\ ctl.pc = "idle"
    /\ Respond("status", ctl_gateway_is_alive)
    /\ UNCHANGED <<connected, gateway_is_alive, ctl, store, mutex, disp, created,
                   send, msg_buf, history>>

MutMayInit == TRUE

\* The first test of gateway_init_lib.
MayInit == ~gateway_is_alive

\* start and restart, when gateway_init_lib fails: the gateway is up already,
\* or the file, dlopen or one of the five symbols is missing.
CtlInitFails(cmd) ==
    /\ ctl.pc = "idle"
    /\ Respond(cmd, FALSE)
    /\ UNCHANGED <<connected, gateway_is_alive, ctl, store, mutex, disp, created,
                   send, msg_buf, history>>

\* start and restart: the library is loaded and init_fn has run.
CtlLoad(cmd, lib) ==
    /\ ctl.pc = "idle"
    /\ MayInit
    /\ ctl' = [pc |-> "init", lib |-> lib, cmd |-> cmd]
    /\ UNCHANGED <<connected, gateway_is_alive, store, mutex, disp, created, send,
                   msg_buf, history, last>>

\* gateway_dispatcher_init; the results of malloc and of pthread_create are
\* not looked at.
gateway_dispatcher_init(got, thread) ==
    /\ ctl.pc = "init"
    /\ arena' = got
    /\ contents' = <<>>
    /\ current_offset' = 0
    /\ disp' = IF thread THEN "sleep" ELSE disp
    /\ created' = created + (IF thread THEN 1 ELSE 0)
    /\ ctl' = [ctl EXCEPT !.pc = "connect"]
    /\ UNCHANGED <<connected, gateway_is_alive, mutex, send, msg_buf, history, last>>

\* The end of gateway_init_lib.
CtlConnect ==
    /\ ctl.pc = "connect"
    /\ connected' = TRUE
    /\ ctl' = [ctl EXCEPT !.pc = "start"]
    /\ UNCHANGED <<gateway_is_alive, store, mutex, disp, created, send, msg_buf,
                   history, last>>

\* gateway_start_lib, and the response.
gateway_start_lib ==
    /\ ctl.pc = "start"
    /\ connected
    /\ ~gateway_is_alive
    /\ gateway_is_alive' = TRUE
    /\ ctl' = [ctl EXCEPT !.pc = "idle"]
    /\ Respond(ctl.cmd, TRUE)
    /\ UNCHANGED <<connected, store, mutex, disp, created, send, msg_buf, history>>

-----------------------------------------------------------------------------
(* gateway_msg_send and gateway_d_msg_add, on any thread.                  *)

\* A thread sees the flag, and formats its message.
SendBegin(s, len) ==
    /\ connected
    /\ send[s].pc = "idle"
    /\ sent < MaxMsgs
    /\ sent' = sent + 1
    /\ send' = [send EXCEPT ![s] = [pc |-> "check", msg |-> [n |-> sent', len |-> len]]]
    /\ UNCHANGED <<gateway, store, mutex, disp, created, msg_buf, accepted, delivered>>

\* The test of the arena pointer, before the lock.
SendCheck(s) ==
    /\ send[s].pc = "check"
    /\ send' = [send EXCEPT ![s] = IF arena = "null" THEN Idle ELSE [@ EXCEPT !.pc = "lock"]]
    /\ UNCHANGED <<gateway, store, mutex, disp, created, msg_buf, history>>

MutFits(len) == current_offset + len <= Capacity

\* A message and its newline fit.
Fits(len) == current_offset + len + 1 < Capacity

\* The critical section: the message is stored, or dropped.
SendStore(s) ==
    /\ send[s].pc = "lock"
    /\ mutex = Nobody
    /\ Fits(send[s].msg.len)
    /\ contents' = Append(contents, send[s].msg)
    /\ current_offset' = current_offset + send[s].msg.len + 1
    /\ accepted' = Append(accepted, send[s].msg)
    /\ send' = [send EXCEPT ![s] = Idle]
    /\ UNCHANGED <<gateway, arena, mutex, disp, created, msg_buf, sent, delivered>>

SendDrop(s) ==
    /\ send[s].pc = "lock"
    /\ mutex = Nobody
    /\ ~Fits(send[s].msg.len)
    /\ send' = [send EXCEPT ![s] = Idle]
    /\ UNCHANGED <<gateway, store, mutex, disp, created, msg_buf, history>>

-----------------------------------------------------------------------------
(* dispatcher_loop and gateway_d_flush.                                    *)

MutHasData == current_offset >= Capacity \div 2

has_data == current_offset > 0

\* usleep returns; the offset is looked at under the mutex.
DispCheck ==
    /\ disp = "sleep"
    /\ mutex = Nobody
    /\ disp' = IF has_data THEN "flush" ELSE "sleep"
    /\ UNCHANGED <<gateway, store, mutex, created, send, msg_buf, history>>

\* on_data without the mutex.
MutFlushLock ==
    /\ disp = "flush"
    /\ mutex = Nobody
    /\ msg_buf' = contents
    /\ disp' = "data"
    /\ UNCHANGED <<gateway, store, mutex, created, send, history>>

\* gateway_d_flush up to the call of on_data, which runs under the mutex.  The
\* early return for an empty arena is not taken: DispCheck has just seen data,
\* and only this thread resets the offset.
FlushLock ==
    /\ disp = "flush"
    /\ arena = "live"
    /\ current_offset # 0
    /\ mutex = Nobody
    /\ mutex' = Disp
    /\ msg_buf' = contents
    /\ disp' = "data"
    /\ UNCHANGED <<gateway, store, created, send, history>>

\* on_data calls into the core (a restart of a plugin whose start function
\* publishes, say), which reports it to the gateway: gateway_d_msg_add asks for
\* the mutex this thread holds.
OnDataSends ==
    /\ disp = "data"
    /\ Reentrant
    /\ disp' = "relock"
    /\ UNCHANGED <<gateway, store, mutex, created, send, msg_buf, history>>

\* The mutex is not released.
MutFlushDone ==
    /\ disp = "data"
    /\ delivered' = delivered \o msg_buf
    /\ msg_buf' = <<>>
    /\ contents' = <<>>
    /\ current_offset' = 0
    /\ disp' = "sleep"
    /\ UNCHANGED <<gateway, arena, mutex, created, send, sent, accepted>>

\* on_data returns; the arena is emptied and the mutex released.
FlushDone ==
    /\ disp = "data"
    /\ delivered' = delivered \o msg_buf
    /\ msg_buf' = <<>>
    /\ contents' = <<>>
    /\ current_offset' = 0
    /\ mutex' = Nobody
    /\ disp' = "sleep"
    /\ UNCHANGED <<gateway, arena, created, send, sent, accepted>>

-----------------------------------------------------------------------------
Ctl ==
    \/ \E cmd \in {"malformed", "unknown", "stop"} : CtlRefused(cmd)
    \/ CtlStatus
    \/ \E cmd \in {"start", "restart"} : CtlInitFails(cmd)
    \/ \E cmd \in {"start", "restart"}, lib \in Libs : CtlLoad(cmd, lib)
    \/ \E got \in {"null", "live"}, thread \in BOOLEAN : gateway_dispatcher_init(got, thread)
    \/ CtlConnect
    \/ gateway_start_lib

Sender(s) == SendCheck(s) \/ SendStore(s) \/ SendDrop(s)

Dispatcher == DispCheck \/ FlushLock \/ FlushDone

Next ==
    \/ Ctl
    \/ \E s \in Senders : Sender(s) \/ \E len \in Lens : SendBegin(s, len)
    \/ Dispatcher
    \/ OnDataSends

Spec == Init /\ [][Next]_vars

\* The threads run, the library's on_data returns, and a thread that waits for
\* the mutex does not lose every race for it.
FairSpec ==
    /\ Spec
    /\ SF_vars(DispCheck)
    /\ SF_vars(FlushLock)
    /\ WF_vars(FlushDone)
    /\ \A s \in Senders : SF_vars(Sender(s))

-----------------------------------------------------------------------------
(* Properties.                                                             *)

\* Every variable has its type.
TypeOK ==
    /\ connected \in BOOLEAN
    /\ gateway_is_alive \in BOOLEAN
    /\ ctl.pc \in {"idle", "init", "connect", "start"}
    /\ ctl.lib \in Libs \cup {NoLib}
    /\ ctl.cmd \in {"none", "start", "restart"}
    /\ arena \in {"null", "live"}
    /\ contents \in Seq(Msg)
    /\ current_offset \in 0..(Capacity - 1)
    /\ mutex \in {Nobody, Disp}
    /\ disp \in {"none", "sleep", "flush", "data", "relock"}
    /\ created \in Nat
    /\ \A s \in Senders : send[s].pc # "idle" => send[s].msg \in Msg
    /\ msg_buf \in Seq(Msg)
    /\ sent \in 0..MaxMsgs
    /\ accepted \in Seq(Msg)
    /\ delivered \in Seq(Msg)

\* What senders have stored is what on_data has been given followed by what is
\* still in the arena, in one order: the flush, which resets the offset only
\* after the library's callback, loses and repeats no message stored meanwhile.
NoneLost == accepted = delivered \o contents

\* However often start and restart are sent, the arena is set up once: one
\* dispatcher thread serves it (a second one would flush the same messages), and
\* gateway_dispatcher_init, which writes the arena and the offset without the
\* mutex, does so while no thread is sending and no message is stored.
SetUpOnce ==
    /\ created <= 1
    /\ ctl.pc = "init" => contents = <<>> /\ \A s \in Senders : send[s].pc = "idle"

\* A message stored in the arena reaches the library, when the dispatcher
\* thread could be created: it polls the offset every FLUSH_INTERVAL_MS.  The
\* exception is an on_data that calls back: it waits for its own mutex.
Delivered == (contents # <<>> /\ disp # "none") ~> (contents = <<>> \/ disp = "relock")

\* With the same exception, gateway_msg_send returns: a sender waits for the
\* flush at most.
SendReturns ==
    \A s \in Senders : (send[s].pc # "idle") ~> (send[s].pc = "idle" \/ disp = "relock")

=============================================================================
