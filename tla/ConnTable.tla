------------------------------ MODULE ConnTable ------------------------------
(***************************************************************************)
(* Who keeps a Connection alive: TcpServer::m_conns, EventLoop::m_conns,   *)
(* the local shared_ptr of handleNewConnection and the tasks of workers    *)
(* count; a Channel* reported by epoll and the `this' bound into a posted  *)
(* reply do not.  The main thread accepts, one sub-loop handles events and *)
(* sweeps silent connections on its timer, workers reply.                  *)
(*                                                                         *)
(* The fd of a connection is closed by ~Socket, that is, when nothing      *)
(* keeps the connection alive any more; then the kernel may reuse it.      *)
(***************************************************************************)
EXTENDS Naturals, FiniteSets

CONSTANTS Conns,     \* the Connection objects that may be created
          NoConn,    \* the null shared_ptr
          Timer,     \* m_timerchannel
          Wakeup,    \* m_wakeupchannel
          MaxFd,     \* file descriptors for clients are 1 .. MaxFd
          MaxTasks   \* bound on the unfinished replies of one connection

ASSUME ChannelsDistinct == Timer # Wakeup /\ {NoConn, Timer, Wakeup} \cap Conns = {}
ASSUME ConnsFinite == IsFiniteSet(Conns)
ASSUME MaxFdNat == MaxFd \in Nat
ASSUME MaxTasksPositive == MaxTasks \in Nat \ {0}

Fds == 1 .. MaxFd

VARIABLES
  created,       \* the connections constructed so far
  fdOf,          \* m_clientsock->fd() of each of them, 0 before
  server,        \* TcpServer::m_conns: the connection under each fd
  loop,          \* EventLoop::m_conns
  disconnected,  \* the connections with m_disconnected
  silent,        \* the connections without a message for m_timeout seconds
  mpc, fresh,    \* the main thread in handleNewConnection, and its Conn
  lpc,           \* the loop thread: "wait", "dispatch", "sweep" or "remove"
  batch,         \* the channels reported and not yet dispatched
  cursor,        \* the key at which the sweep stands, 0 before the first
  tasks,         \* for each connection, the tasks that workers hold
  posted,        \* and the replies posted to the loop, with a raw this
  victim, swept, \* history: the connection just erased by a sweep; all of them
  crash          \* "none", or what ended the process

main    == <<mpc, fresh>>
looper  == <<lpc, batch, cursor, victim, swept>>
objects == <<created, fdOf, disconnected>>
replies == <<tasks, posted>>
vars == <<objects, server, loop, silent, main, looper, replies, crash>>

\* Some shared_ptr points to c.
Held(c) ==
  \/ fresh = c \/ tasks[c] > 0
  \/ \E fd \in Fds : server[fd] = c \/ loop[fd] = c

Registered == {c \in created \ disconnected : Held(c)}

\* Fault: closeCallback closes the socket.
FreeFdsOnceClosed ==
  {fd \in Fds : \A c \in created \ disconnected : Held(c) => fdOf[c] # fd}

FreeFds == {fd \in Fds : \A c \in created : Held(c) => fdOf[c] # fd}

Init ==
  /\ created = {} /\ fdOf = [c \in Conns |-> 0] /\ disconnected = {} /\ silent = {}
  /\ server = [fd \in Fds |-> NoConn] /\ loop = [fd \in Fds |-> NoConn]
  /\ mpc = "idle" /\ fresh = NoConn
  /\ lpc = "wait" /\ batch = {} /\ cursor = 0
  /\ tasks = [c \in Conns |-> 0] /\ posted = [c \in Conns |-> 0]
  /\ victim = NoConn /\ swept = {} /\ crash = "none"

-----------------------------------------------------------------------------
(* The main thread: Acceptor::newConnection and handleNewConnection.       *)

\* accept, and the constructor, which registers the channel with the loop.
\* (That its callbacks come later is the subject of Connection.tla.)
Accept(c) ==
  /\ mpc = "idle"
  /\ c \notin created
  /\ \E fd \in FreeFds : fdOf' = [fdOf EXCEPT ![c] = fd]
  /\ created' = created \cup {c}
  /\ fresh' = c
  /\ mpc' = "server"
  /\ UNCHANGED <<disconnected, server, loop, silent, looper, replies, crash>>

InsertServer ==
  /\ mpc = "server"
  /\ server' = [server EXCEPT ![fdOf[fresh]] = fresh]
  /\ mpc' = "lock"
  /\ UNCHANGED <<objects, loop, silent, fresh, looper, replies, crash>>

\* EventLoop::newConnection: lock m_connmutex, then insert.
LockConns ==
  /\ mpc = "lock"
  /\ mpc' = "insert"
  /\ UNCHANGED <<objects, server, loop, silent, fresh, looper, replies, crash>>

\* The sweep iterates without m_connmutex: then the insertion is a data race.
InsertLoop ==
  /\ mpc = "insert"
  /\ loop' = [loop EXCEPT ![fdOf[fresh]] = fresh]
  /\ mpc' = "return"
  /\ IF lpc = "sweep" THEN crash' \in {"none", "map_race"} ELSE UNCHANGED crash
  /\ UNCHANGED <<objects, server, silent, fresh, looper, replies>>

Return ==
  /\ mpc = "return"
  /\ fresh' = NoConn
  /\ mpc' = "idle"
  /\ UNCHANGED <<objects, server, loop, silent, looper, replies, crash>>

-----------------------------------------------------------------------------
(* The loop thread.                                                        *)

EpollWait ==
  /\ lpc = "wait"
  /\ \E b \in SUBSET (Registered \cup {Timer, Wakeup}) : b # {} /\ batch' = b
  /\ lpc' = "dispatch"
  /\ UNCHANGED <<objects, server, loop, silent, main, cursor, victim, swept, replies, crash>>

Dispatch(ch) ==
  /\ lpc = "dispatch"
  /\ ch \in batch
  /\ batch' = batch \ {ch}
  /\ UNCHANGED <<cursor, victim, swept>>

\* handleEvent on a Channel that was destroyed with its Connection.
UseFreedChannel(c) ==
  /\ Dispatch(c) /\ ~Held(c)
  /\ crash' = "use_after_free"
  /\ UNCHANGED <<objects, server, loop, silent, main, lpc, replies>>

\* onMessage with a message: m_lasttime is set, a worker gets a task.
HandleMessage(c) ==
  /\ Dispatch(c) /\ Held(c)
  /\ tasks[c] + posted[c] < MaxTasks
  /\ silent' = silent \ {c}
  /\ tasks' = [tasks EXCEPT ![c] = @ + 1]
  /\ UNCHANGED <<objects, server, loop, main, lpc, posted, crash>>

\* writeCallback, which changes nothing here.
HandleWrite(c) ==
  /\ Dispatch(c) /\ Held(c)
  /\ UNCHANGED <<objects, server, loop, silent, main, lpc, replies, crash>>

\* Fault: the close handler also erases the connection from the loop's map.
CloseErasesBoth(c) ==
  /\ Dispatch(c) /\ Held(c)
  /\ disconnected' = disconnected \cup {c}
  /\ server' = [server EXCEPT ![fdOf[c]] = NoConn]
  /\ loop' = [loop EXCEPT ![fdOf[c]] = NoConn]
  /\ UNCHANGED <<created, fdOf, silent, main, lpc, replies, crash>>

\* onMessage with the end of the stream: closeCallback, handleCloseConnection.
HandleClose(c) ==
  /\ Dispatch(c) /\ Held(c)
  /\ disconnected' = disconnected \cup {c}
  /\ server' = [server EXCEPT ![fdOf[c]] = NoConn]
  /\ UNCHANGED <<created, fdOf, loop, silent, main, lpc, replies, crash>>

\* handleWakeup: sendinLoop for one posted reply.  A connection that was
\* closed fails in EPOLL_CTL_MOD; one that was destroyed is used after free.
RunPosted(c) ==
  /\ lpc = "dispatch" /\ Wakeup \in batch
  /\ posted[c] > 0
  /\ posted' = [posted EXCEPT ![c] = @ - 1]
  /\ crash' = CASE ~Held(c)          -> "use_after_free"
                [] c \in Registered  -> crash
                [] OTHER             -> "mod_error"
  /\ UNCHANGED <<objects, server, loop, silent, main, looper, tasks>>

EndWakeup ==
  /\ Dispatch(Wakeup)
  /\ \A c \in Conns : posted[c] = 0
  /\ UNCHANGED <<objects, server, loop, silent, main, lpc, replies, crash>>

\* handleTimer: sweep m_conns in the order of its keys.
HandleTimer ==
  /\ lpc = "dispatch" /\ Timer \in batch
  /\ batch' = batch \ {Timer}
  /\ lpc' = "sweep"
  /\ UNCHANGED <<objects, server, loop, silent, main, cursor, victim, swept, replies, crash>>

IsNext(fd) ==
  /\ fd > cursor /\ loop[fd] # NoConn
  /\ \A f \in Fds : f > cursor /\ f < fd => loop[f] = NoConn

SweepKeeps(fd) ==
  /\ lpc = "sweep" /\ IsNext(fd) /\ loop[fd] \notin silent
  /\ cursor' = fd
  /\ UNCHANGED <<objects, server, loop, silent, main, lpc, batch, victim, swept, replies, crash>>

\* The erase, under m_connmutex; it may destroy the connection.
SweepErases(fd) ==
  /\ lpc = "sweep" /\ IsNext(fd) /\ loop[fd] \in silent
  /\ mpc # "insert"
  /\ cursor' = fd
  /\ loop' = [loop EXCEPT ![fd] = NoConn]
  /\ victim' = loop[fd]
  /\ swept' = swept \cup {loop[fd]}
  /\ lpc' = "remove"
  /\ UNCHANGED <<objects, server, silent, main, batch, replies, crash>>

\* Fault: handleTimer does not call m_ConnTimeout.
RemoveNothing ==
  /\ lpc = "remove"
  /\ victim' = NoConn
  /\ lpc' = "sweep"
  /\ UNCHANGED <<objects, server, loop, silent, main, batch, cursor, swept, replies, crash>>

\* m_ConnTimeout: TcpServer::removeConn with the fd, which is all it has.
RemoveConn ==
  /\ lpc = "remove"
  /\ server' = [server EXCEPT ![cursor] = NoConn]
  /\ victim' = NoConn
  /\ lpc' = "sweep"
  /\ UNCHANGED <<objects, loop, silent, main, batch, cursor, swept, replies, crash>>

EndSweep ==
  /\ lpc = "sweep"
  /\ \A fd \in Fds : fd > cursor => loop[fd] = NoConn
  /\ lpc' = "dispatch"
  /\ cursor' = 0
  /\ UNCHANGED <<objects, server, loop, silent, main, batch, victim, swept, replies, crash>>

EndBatch ==
  /\ lpc = "dispatch" /\ batch = {}
  /\ lpc' = "wait"
  /\ UNCHANGED <<objects, server, loop, silent, main, batch, cursor, victim, swept, replies, crash>>

-----------------------------------------------------------------------------
(* Workers and time.                                                       *)

\* Fault: a task that was already called is called again.
ReplyAgain(c) ==
  /\ c \in created
  /\ tasks' = [tasks EXCEPT ![c] = @ - 1]
  /\ posted' = IF c \in disconnected THEN posted ELSE [posted EXCEPT ![c] = @ + 1]
  /\ UNCHANGED <<objects, server, loop, silent, main, looper, crash>>

\* onMessage of EchoServer calls send, which posts this; then the task and
\* its shared_ptr are gone.
Reply(c) ==
  /\ tasks[c] > 0
  /\ tasks' = [tasks EXCEPT ![c] = @ - 1]
  /\ posted' = IF c \in disconnected THEN posted ELSE [posted EXCEPT ![c] = @ + 1]
  /\ UNCHANGED <<objects, server, loop, silent, main, looper, crash>>

\* m_timeout seconds pass without a message.
FallSilent(c) ==
  /\ c \in created \ silent /\ Held(c)
  /\ silent' = silent \cup {c}
  /\ UNCHANGED <<objects, server, loop, main, looper, replies, crash>>

-----------------------------------------------------------------------------
MainStep == InsertServer \/ LockConns \/ InsertLoop \/ Return
ConnEvent(c) == UseFreedChannel(c) \/ HandleMessage(c) \/ HandleWrite(c) \/ HandleClose(c)
SweepStep ==
  \/ RemoveConn \/ EndSweep
  \/ \E fd \in Fds : SweepKeeps(fd) \/ SweepErases(fd)
LoopStep ==
  \/ EpollWait \/ EndWakeup \/ HandleTimer \/ SweepStep \/ EndBatch
  \/ \E c \in Conns : ConnEvent(c) \/ RunPosted(c)

Next ==
  /\ crash = "none"
  /\ \/ MainStep \/ LoopStep
     \/ \E c \in Conns : Accept(c) \/ Reply(c) \/ FallSilent(c)

Spec == Init /\ [][Next]_vars

(***************************************************************************)
(* Threads are scheduled, time passes, and the re-armed timer is reported  *)
(* again and again (EventLoop!TimerKeepsFiring).  Nobody has to connect.   *)
(***************************************************************************)
Fairness ==
  /\ WF_vars(MainStep) /\ WF_vars(crash = "none" /\ LoopStep)
  /\ SF_vars(crash = "none" /\ EpollWait /\ Timer \in batch')
  /\ \A c \in Conns : WF_vars(crash = "none" /\ Reply(c)) /\ WF_vars(FallSilent(c))

FairSpec == Spec /\ Fairness

-----------------------------------------------------------------------------
(* Properties.                                                             *)

TypeOK ==
  /\ created \in SUBSET Conns /\ disconnected \in SUBSET created
  /\ silent \in SUBSET created /\ swept \in SUBSET created
  /\ fdOf \in [Conns -> 0 .. MaxFd]
  /\ server \in [Fds -> created \cup {NoConn}] /\ loop \in [Fds -> created \cup {NoConn}]
  /\ mpc \in {"idle", "server", "lock", "insert", "return"}
  /\ fresh \in created \cup {NoConn} /\ victim \in created \cup {NoConn}
  /\ lpc \in {"wait", "dispatch", "sweep", "remove"}
  /\ batch \in SUBSET (created \cup {Timer, Wakeup})
  /\ cursor \in 0 .. MaxFd
  /\ tasks \in [Conns -> 0 .. MaxTasks] /\ posted \in [Conns -> 0 .. MaxTasks]
  /\ crash \in {"none", "map_race", "mod_error", "use_after_free"}

(***************************************************************************)
(* A connection is never pushed out of a map by a newer one with the same  *)
(* fd: whatever is in a map keeps its fd open (TcpServer.cpp:61,           *)
(* EventLoop.cpp:137, Socket.cpp:17).                                      *)
(***************************************************************************)
InsertReplacesNothing ==
  /\ mpc = "server" => server[fdOf[fresh]] = NoConn
  /\ mpc \in {"server", "lock", "insert"} => loop[fdOf[fresh]] = NoConn

(***************************************************************************)
(* Whatever the server's map holds, a later sweep will find: the entry is  *)
(* also in the loop's map, or about to be put there, or its removal is     *)
(* under way - even when the client left before handleNewConnection was    *)
(* done, and the entry is stale from the start (TcpServer.cpp:59-65).      *)
(***************************************************************************)
ServerEntriesSweepable ==
  \A fd \in Fds : server[fd] # NoConn =>
    \/ loop[fd] = server[fd]
    \/ mpc \in {"lock", "insert"} /\ fresh = server[fd]
    \/ lpc = "remove" /\ cursor = fd

(***************************************************************************)
(* Closing never frees a connection under the loop's feet: a Channel* of   *)
(* the batch or the `this' of a posted reply dangles only if a sweep has   *)
(* erased the connection (EventLoop.cpp:117-130, Connection.cpp:103).      *)
(***************************************************************************)
OnlySweepFrees ==
  \A c \in created : (c \in batch \/ posted[c] > 0) /\ ~Held(c) => c \in swept

(***************************************************************************)
(* The descriptor of a client that has left is eventually closed, although *)
(* the close handler leaves the connection in the loop's map.              *)
(***************************************************************************)
ClosedReleased ==
  \A c \in Conns : c \in disconnected ~> (~Held(c) \/ crash # "none")

(***************************************************************************)
(* EventLoop.h:56 says that m_ConnTimeout deletes the connection that has  *)
(* timed out from the map of the server: it deletes no other one.          *)
(***************************************************************************)
RemovesTimedOut ==
  [][lpc = "remove" /\ lpc' = "sweep" => server[cursor] \in {victim, NoConn}]_vars
=============================================================================
