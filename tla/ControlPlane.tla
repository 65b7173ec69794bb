---------------------------- MODULE ControlPlane ----------------------------
(***************************************************************************)
(* How corecdtl-ctl reaches the daemon: corecdtl_init and its core_loop    *)
(* thread (src/core/cored.c), the PID file (src/core/runtime.c), the       *)
(* control socket (src/core/core_ctl.c) and the client                     *)
(* (ctl/corecdtl-ctl.c).                                                   *)
(*                                                                         *)
(* The client reads the PID file, sends SIGUSR1 and connects to a Unix     *)
(* socket.  The signal makes core_loop open the socket, on which it serves *)
(* one client after the other until nobody connects for 30 seconds.  What  *)
(* a command does is the matter of module Gateway.                         *)
(***************************************************************************)
EXTENDS Naturals, FiniteSets

CONSTANTS
    Ctls,       \* corecdtl-ctl processes
    Faults,     \* subset of {"bind", "select", "interrupt", "hangup", "init"}
    MaxCmds     \* bound: commands sent

ASSUME ControlAssumption ==
    /\ Faults \subseteq {"bind", "select", "interrupt", "hangup", "init"}
    /\ MaxCmds \in Nat

VARIABLES
    dpc,         \* corecdtl_init; "dead" once a signal has ended the process
    pidfile,     \* the PID file is there
    sig,         \* SIGUSR1 is pending
    g_ctl_run,
    loop,        \* control point of core_loop and unix_sock_ctl_run
    cpc,         \* control point of each client
    g_connected, \* of each client
    conn,        \* the connection of each client, seen from the daemon
    unread,      \* clients whose command has not been read
    cmds         \* number of commands sent

vars == <<dpc, pidfile, sig, g_ctl_run, loop, cpc, g_connected, conn, unread, cmds>>

daemon == <<dpc, pidfile>>
client == <<cpc, g_connected, cmds>>

Init ==
    /\ dpc = "start"
    /\ pidfile = FALSE
    /\ sig = FALSE
    /\ g_ctl_run = FALSE
    /\ loop = "none"
    /\ cpc = [c \in Ctls |-> "idle"]
    /\ g_connected = [c \in Ctls |-> FALSE]
    /\ conn = [c \in Ctls |-> "none"]
    /\ unread = {}
    /\ cmds = 0

Alive == dpc # "dead"

\* The connections after the daemon has closed those of the clients in s.
Closed(s) == [c \in Ctls |-> IF c \in s /\ conn[c] # "none" THEN "reset" ELSE conn[c]]

\* A signal with the default action ends the process.
Die == dpc' = "dead" /\ loop' = "none" /\ conn' = Closed(Ctls)

-----------------------------------------------------------------------------
(* corecdtl_init.                                                          *)

\* core_init: the PID file comes first, then everything else.
write_pid_file ==
    /\ dpc = "start"
    /\ dpc' = "loading"
    /\ pidfile' = TRUE
    /\ UNCHANGED <<sig, g_ctl_run, loop, conn, unread, client>>

\* The PID file cannot be written, or a later step of core_init fails, which
\* leaves it, or, with the handler installed, the thread cannot be created.
InitFails ==
    /\ "init" \in Faults
    /\ \/ dpc \in {"start", "loading"} /\ dpc' = "aborted"
       \/ dpc = "handler" /\ dpc' = "failed"
    /\ UNCHANGED <<pidfile, sig, g_ctl_run, loop, conn, unread, client>>

\* core_init has returned: sigaction(SIGUSR1).
InstallHandler ==
    /\ dpc = "loading"
    /\ dpc' = "handler"
    /\ UNCHANGED <<pidfile, sig, g_ctl_run, loop, conn, unread, client>>

\* The core_loop thread is created.
StartLoop ==
    /\ dpc = "handler"
    /\ dpc' = "up"
    /\ loop' = "top"
    /\ UNCHANGED <<pidfile, sig, g_ctl_run, conn, unread, client>>

-----------------------------------------------------------------------------
(* signal_cli_handle.                                                      *)

MutWoken == loop

\* pthread_cond_signal(&g_cond): the loop thread gets g_mutex back.
Woken == IF loop = "wait" THEN "locked" ELSE loop

\* On a thread other than core_loop's, which waits while that one has g_mutex,
\* for ever if it is stuck.
HandleSignal ==
    /\ sig
    /\ dpc \in {"handler", "up", "failed"}
    /\ g_ctl_run \/ loop \notin {"locked", "stuck"}
    /\ sig' = FALSE
    /\ g_ctl_run' = TRUE
    /\ loop' = IF g_ctl_run THEN loop ELSE Woken
    /\ UNCHANGED <<daemon, conn, unread, client>>

\* On the core_loop thread, inside its critical section: the handler locks a
\* mutex its own thread holds.
HandleSignalOnLoop ==
    /\ "interrupt" \in Faults
    /\ sig
    /\ Alive
    /\ loop = "locked"
    /\ ~g_ctl_run
    /\ sig' = FALSE
    /\ loop' = "stuck"
    /\ UNCHANGED <<daemon, g_ctl_run, conn, unread, client>>

-----------------------------------------------------------------------------
(* core_loop and unix_sock_ctl_run.                                        *)

\* A step of the thread from one control point to another.
Goto(from, to) ==
    /\ Alive
    /\ loop = from
    /\ loop' = to
    /\ UNCHANGED <<daemon, sig, g_ctl_run, client>>

LoopLock == Goto("top", "locked") /\ UNCHANGED <<conn, unread>>
LoopWait == ~g_ctl_run /\ Goto("locked", "wait") /\ UNCHANGED <<conn, unread>>
LoopWake == Goto("wait", "locked") /\ UNCHANGED <<conn, unread>>
LoopRun  == g_ctl_run /\ Goto("locked", "bind") /\ UNCHANGED <<conn, unread>>

\* create_and_bind_socket; g_ctl_run stays set, so a failure is tried again.
Bind      == Goto("bind", "accept") /\ UNCHANGED <<conn, unread>>
BindFails == "bind" \in Faults /\ Goto("bind", "top") /\ UNCHANGED <<conn, unread>>

Pending == {c \in Ctls : conn[c] = "pending"}

\* Nobody connects within the timeout: the socket is closed and unlinked.
AcceptTimeout == Pending = {} /\ Goto("accept", "top") /\ UNCHANGED <<conn, unread>>

\* select or accept fails: the same, and connections not accepted are reset.
AcceptFails ==
    /\ "select" \in Faults
    /\ Goto("accept", "top")
    /\ conn' = Closed(Pending)
    /\ unread' = unread \ Pending

Accept(c) ==
    /\ conn[c] = "pending"
    /\ Goto("accept", "serve")
    /\ conn' = [conn EXCEPT ![c] = "accepted"]
    /\ UNCHANGED unread

\* read and handle_ctl_command.
ReadCommand(c) ==
    /\ conn[c] = "accepted"
    /\ c \in unread
    /\ Goto("serve", "write")
    /\ unread' = unread \ {c}
    /\ UNCHANGED conn

\* write(client_fd): the client reads the response, or, when it has gone in
\* the meantime, the write raises SIGPIPE.
WriteResponse(c) ==
    /\ Alive
    /\ loop = "write"
    /\ conn[c] = "accepted"
    /\ \/ /\ cpc[c] = "command"
          /\ loop' = "serve"
          /\ cpc' = [cpc EXCEPT ![c] = "idle"]
          /\ UNCHANGED <<dpc, conn>>
       \/ cpc[c] = "exited" /\ Die /\ UNCHANGED cpc
    /\ UNCHANGED <<pidfile, sig, g_ctl_run, g_connected, unread, cmds>>

MutHungUp(c) == conn

\* close(client_fd)
HungUp(c) == Closed({c})

\* The daemon waits for the client to go.
MutEndSession(c) ==
    /\ conn[c] = "accepted"
    /\ c \notin unread
    /\ cpc[c] = "exited"
    /\ Goto("serve", "closing")
    /\ UNCHANGED <<conn, unread>>

\* The session ends: no command within the timeout, the client has gone, or
\* select fails ...
EndSession(c) ==
    /\ conn[c] = "accepted"
    /\ c \notin unread \/ "select" \in Faults
    /\ Goto("serve", "closing")
    /\ UNCHANGED <<conn, unread>>

\* ... and the connection is closed, with a command in it that came too late.
CloseSession(c) ==
    /\ conn[c] = "accepted"
    /\ Goto("closing", "accept")
    /\ conn' = HungUp(c)
    /\ unread' = unread \ {c}

LoopStep ==
    \/ LoopLock \/ LoopWait \/ LoopRun
    \/ AcceptTimeout
    \/ \E c \in Ctls : Accept(c) \/ ReadCommand(c) \/ WriteResponse(c)
                     \/ EndSession(c) \/ CloseSession(c)

-----------------------------------------------------------------------------
(* corecdtl-ctl.                                                           *)

Step(c, from, to) == cpc[c] = from /\ cpc' = [cpc EXCEPT ![c] = to]

\* The client finds a PID.
read_pid_from_file == pidfile

\* connect: kill(pid, SIGUSR1), whose default action is to end the process.  If
\* there is no PID file, or no process, connect changes nothing.  Client and
\* daemon are taken to agree on PID_FILE_PATH (their Linux builds do not).
ConnectSignal(c) ==
    /\ Step(c, "idle", "trying")
    /\ ~g_connected[c]
    /\ read_pid_from_file /\ Alive
    /\ IF dpc \in {"loading", "aborted"} THEN Die /\ UNCHANGED sig
       ELSE sig' = TRUE /\ UNCHANGED <<dpc, loop, conn>>
    /\ UNCHANGED <<pidfile, g_ctl_run, unread, g_connected, cmds>>

\* One of the ten attempts finds the socket, with room in its backlog, ...
ConnectDone(c) ==
    /\ Step(c, "trying", "idle")
    /\ loop \in {"accept", "serve", "write", "closing"}
    /\ Cardinality(Pending) < 2
    /\ conn' = [conn EXCEPT ![c] = "pending"]
    /\ g_connected' = [g_connected EXCEPT ![c] = TRUE]
    /\ UNCHANGED <<daemon, sig, g_ctl_run, loop, unread, cmds>>

\* ... or none does.
ConnectGivesUp(c) ==
    /\ Step(c, "trying", "idle")
    /\ UNCHANGED <<daemon, sig, g_ctl_run, loop, conn, unread, g_connected, cmds>>

\* send_command: write, then read.  Of an empty line nothing is sent.  On a
\* connection that the daemon has closed the write raises SIGPIPE.
SendCommand(c) ==
    /\ g_connected[c]
    /\ cmds < MaxCmds
    /\ cmds' = cmds + 1
    /\ IF conn[c] = "reset" THEN Step(c, "idle", "killed") /\ UNCHANGED unread
       ELSE Step(c, "idle", "command") /\ unread' \in {unread, unread \cup {c}}
    /\ UNCHANGED <<daemon, sig, g_ctl_run, loop, conn, g_connected>>

\* The daemon closes the connection while the client reads; g_connected stays.
ReadEnds(c) ==
    /\ Step(c, "command", "idle")
    /\ conn[c] = "reset"
    /\ UNCHANGED <<daemon, sig, g_ctl_run, loop, conn, unread, g_connected, cmds>>

\* exit, or the end of the process while it waits for a response.
Exit(c) ==
    /\ \/ Step(c, "idle", "exited")
       \/ "hangup" \in Faults /\ Step(c, "command", "exited")
    /\ UNCHANGED <<daemon, sig, g_ctl_run, loop, conn, unread, g_connected, cmds>>

-----------------------------------------------------------------------------
InitStep == write_pid_file \/ InstallHandler \/ StartLoop

Next ==
    \/ InitStep \/ InitFails
    \/ HandleSignal \/ HandleSignalOnLoop
    \/ LoopStep \/ LoopWake \/ Bind \/ BindFails \/ AcceptFails
    \/ \E c \in Ctls :
        \/ ConnectSignal(c) \/ ConnectDone(c) \/ ConnectGivesUp(c)
        \/ SendCommand(c) \/ ReadEnds(c) \/ Exit(c)

Spec == Init /\ [][Next]_vars

\* The daemon's threads run, a pending signal is handled, timeouts expire, and
\* the socket can be bound now and then; a client's read sees the end of its
\* connection.  Nobody has to use a client.
FairSpec ==
    /\ Spec
    /\ WF_vars(InitStep)
    /\ SF_vars(HandleSignal)
    /\ WF_vars(LoopStep)
    /\ SF_vars(Bind)
    /\ \A c \in Ctls : WF_vars(ReadEnds(c))

-----------------------------------------------------------------------------
(* Properties.                                                             *)

\* A SIGUSR1 that reaches a daemon that is up makes it open the socket, however
\* it races with core_loop's test of g_ctl_run, unless the process dies or the
\* handler ran on the loop's own thread inside its critical section.
SignalOpensSocket ==
    (sig /\ dpc = "up") ~> (loop \in {"accept", "serve", "write", "stuck"} \/ ~Alive)

\* A client in the backlog is accepted or reset, although another one is being
\* served: as no client sends commands for ever (MaxCmds), sessions end, by the
\* timeout at the latest.
PendingServed == \A c \in Ctls : (conn[c] = "pending") ~> (conn[c] # "pending")

\* A client that waits for a response gets one, or learns that the daemon has
\* closed the connection, unless it ends itself: a command read from the
\* backlog, one that came after the timeout, an empty one or the end of the
\* daemon leaves nobody waiting.
CommandAnswered == \A c \in Ctls : (cpc[c] = "command") ~> (cpc[c] # "command")
=============================================================================
