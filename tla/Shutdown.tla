------------------------------ MODULE Shutdown ------------------------------
(***************************************************************************)
(* From main() to exit(): the start of the server, the signal handler Stop *)
(* of echo.cpp and EchoServer::stop, which ends the worker pool, then the  *)
(* loops, then the I/O pool, and the deletion of the server part by part.  *)
(*                                                                         *)
(* A handler runs on top of whatever its host thread was doing and never   *)
(* returns to it.  The kernel gives the first signal to the main thread; a *)
(* second one comes on top of the first handler if it is the other signal, *)
(* and goes to any other thread if it is the same one, which is blocked.   *)
(*                                                                         *)
(* delete is unconditional: a stop() that returned early has joined nobody.*)
(* A step that uses a part of the server that was destroyed is undefined:  *)
(* it may end the process, or go on as if the part were still there.       *)
(*                                                                         *)
(* Pools and loops are those of ThreadPool.tla and EventLoop.tla, in less  *)
(* detail.  A lock that a pool thread takes is taken and left in one step; *)
(* the main thread may be interrupted while it holds one.                  *)
(***************************************************************************)
EXTENDS Naturals, Sequences, FiniteSets

CONSTANTS Workers,     \* the threads of EchoServer::m_threadpool
          IOThreads,   \* the threads of TcpServer::m_threadpool
          Loops,       \* the sub-loops
          Main,        \* the main thread
          Nobody,      \* no thread, no loop, no lock
          Targets,     \* the pool threads that a second signal may interrupt
          MaxQueued    \* bound: no message is read when so many tasks wait

Threads == Workers \cup IOThreads
Pools   == {"work", "io"}
Parts   == Pools \cup {"server", "loops"}   \* the server: callbacks, m_conns, m_mutex
Locks   == {"server", "queue", "stdout"} \cup Loops   \* a loop stands for its m_connmutex

ASSUME ThreadsDistinct ==
  /\ Workers \cap IOThreads = {}
  /\ Main \notin Threads /\ Nobody \notin Threads \cup {Main}
ASSUME LocksDistinct == Nobody \notin Locks /\ Loops \cap {"server", "queue", "stdout"} = {}
ASSUME TargetsAreThreads == Targets \subseteq Threads
ASSUME MaxQueuedNat == MaxQueued \in Nat

VARIABLES
  server,    \* the global pointer: "null" or "set"
  gone,      \* the parts of the server that were destroyed
  iotasks,   \* the loops whose runLoop waits in the I/O pool
  added,     \* the loops whose runLoop was added
  queued,    \* how many tasks wait in the worker pool
  poolstop,  \* m_stop of each pool
  joined,    \* the pools whose threads were all joined
  tpc,       \* where each pool thread is (see PoolStates)
  running,   \* the loop whose runLoop an I/O thread is in
  loopstop,  \* the loops with m_stop
  woken,     \* the loops whose eventfd is readable
  path,      \* the locks that the handler of a channel still has to take
  held,      \* the lock that the main thread holds
  host,      \* the thread that each of two signals interrupted
  hpc,       \* where each handler is (see HandlerStates)
  hpool,     \* the pool that each handler stops
  tostop,    \* the loops that each handler still has to stop
  missed,    \* history: m_stop was set between a predicate and its wait
  outcome    \* "running", "exited", or what else ended the process

life   == <<server, added, gone>>
pools  == <<iotasks, queued, poolstop, joined, missed>>
loops  == <<running, loopstop, woken>>
locks  == <<path, held>>
signal == <<host, hpc, hpool, tostop>>
vars   == <<life, pools, tpc, loops, locks, signal, outcome>>

(***************************************************************************)
(* "test"   at while (m_stop == false)     "enter"  waiting for m_mutex    *)
(* "check"  predicate false, not blocked   "asleep" in m_cv.wait           *)
(* "run"    a worker in its task           "loop"   at while (!m_stop)     *)
(* "epoll"  in epoll_wait, or in a handler if there is a path              *)
(***************************************************************************)
PoolStates == {"test", "enter", "check", "asleep", "run", "loop", "epoll", "exited"}

(***************************************************************************)
(* "print" before the call of stop(), "test" to "join" in the stop() of a  *)
(* pool, "loops" in TcpServer::stop; then the destructors: "pool" and      *)
(* "threads" in ~ThreadPool, "members" and "free" in ~TcpServer.           *)
(***************************************************************************)
StopStates    == {"none", "buried", "print", "test", "set", "notify", "join", "loops"}
DeleteStates  == {"delete", "pool", "threads", "members", "free", "exit"}
HandlerStates == StopStates \cup DeleteStates

Members(p) == IF p = "work" THEN Workers ELSE IOThreads
PoolOf(t)  == IF t \in Workers THEN "work" ELSE "io"

Sleepers(p)  == {t \in Members(p) : tpc[t] = "asleep"}
MutexFree(p) == \A t \in Members(p) : tpc[t] # "check"

Interrupted(t) == \E h \in {1, 2} : host[h] = t
OnMain   == outcome = "running" /\ ~Interrupted(Main)
OnPool(t) == outcome = "running" /\ ~Interrupted(t)
Free(t)  == OnPool(t) /\ path[t] = << >>

Goto(t, s) == tpc' = [tpc EXCEPT ![t] = s]

Init ==
  /\ server = "null" /\ added = {} /\ gone = {}
  /\ iotasks = << >> /\ queued = 0
  /\ poolstop = [p \in Pools |-> FALSE] /\ joined = {} /\ missed = FALSE
  /\ tpc = [t \in Threads |-> "test"]
  /\ running = [t \in IOThreads |-> Nobody] /\ loopstop = {} /\ woken = {}
  /\ path = [t \in Threads |-> << >>] /\ held = Nobody
  /\ host = [h \in {1, 2} |-> Nobody] /\ hpc = [h \in {1, 2} |-> "none"]
  /\ hpool = [h \in {1, 2} |-> "work"] /\ tostop = [h \in {1, 2} |-> Loops]
  /\ outcome = "running"

-----------------------------------------------------------------------------
(* The main thread, while no handler runs on it.                           *)

\* notify_one
Notify(p) ==
  IF Sleepers(p) = {} THEN UNCHANGED tpc ELSE \E t \in Sleepers(p) : Goto(t, "enter")

\* The constructor of TcpServer adds the runLoop of each sub-loop.
AddLoop(l) ==
  /\ OnMain /\ server = "null"
  /\ l \notin added /\ MutexFree("io")
  /\ added' = added \cup {l}
  /\ iotasks' = Append(iotasks, l)
  /\ Notify("io")
  /\ UNCHANGED <<server, gone, queued, poolstop, joined, missed, loops, locks, signal, outcome>>

\* main assigns the global pointer and calls start().
AssignServer ==
  /\ OnMain /\ server = "null"
  /\ added = Loops
  /\ server' = "set"
  /\ UNCHANGED <<added, gone, pools, tpc, loops, locks, signal, outcome>>

\* handleNewConnection takes and leaves m_mutex, then m_connmutex of the loop,
\* then prints.  A signal between two locks is like one before the first.
Accept ==
  /\ OnMain /\ server = "set"
  /\ \/ held = Nobody   /\ held' = "server"
     \/ held = "server" /\ held' \in Loops
     \/ held \in Loops  /\ held' = "stdout"
     \/ held = "stdout" /\ held' = Nobody
  /\ UNCHANGED <<life, pools, tpc, loops, path, signal, outcome>>

-----------------------------------------------------------------------------
(* The threads of both pools.                                              *)

TestStop(t) ==
  /\ Free(t) /\ tpc[t] = "test"
  /\ Goto(t, IF poolstop[PoolOf(t)] THEN "exited" ELSE "enter")
  /\ UNCHANGED <<life, pools, loops, locks, signal, outcome>>

\* A worker gets m_mutex: it takes a task, or returns, or is about to wait.
EnterWorker(t) ==
  /\ Free(t) /\ t \in Workers /\ tpc[t] = "enter" /\ MutexFree("work")
  /\ IF queued > 0
     THEN Goto(t, "run") /\ queued' = queued - 1
     ELSE Goto(t, IF poolstop["work"] THEN "exited" ELSE "check") /\ UNCHANGED queued
  /\ UNCHANGED <<life, iotasks, poolstop, joined, missed, loops, locks, signal, outcome>>

\* Fault: the thread goes on although it popped nothing.
EnterIOEmpty(t) ==
  /\ Free(t) /\ t \in IOThreads /\ tpc[t] = "enter" /\ MutexFree("io")
  /\ Goto(t, "loop")
  /\ iotasks' = IF iotasks # << >> THEN Tail(iotasks) ELSE iotasks
  /\ running' = IF iotasks # << >> THEN [running EXCEPT ![t] = Head(iotasks)] ELSE running
  /\ UNCHANGED <<life, queued, poolstop, joined, missed, loopstop, woken, locks, signal, outcome>>

\* An I/O thread does: its task is the runLoop of a loop.
EnterIO(t) ==
  /\ Free(t) /\ t \in IOThreads /\ tpc[t] = "enter" /\ MutexFree("io")
  /\ IF iotasks # << >>
     THEN /\ Goto(t, "loop")
          /\ running' = [running EXCEPT ![t] = Head(iotasks)]
          /\ iotasks' = Tail(iotasks)
     ELSE /\ Goto(t, IF poolstop["io"] THEN "exited" ELSE "check")
          /\ UNCHANGED <<running, iotasks>>
  /\ UNCHANGED <<life, queued, poolstop, joined, missed, loopstop, woken, locks, signal, outcome>>

Block(t) ==
  /\ Free(t) /\ tpc[t] = "check"
  /\ Goto(t, "asleep")
  /\ UNCHANGED <<life, pools, loops, locks, signal, outcome>>

\* EchoServer::onMessage posts the reply to a loop and wakes it.
RunTask(t) ==
  /\ Free(t) /\ tpc[t] = "run"
  /\ Goto(t, "test")
  /\ \E l \in Loops : woken' = woken \cup {l}
  /\ UNCHANGED <<life, pools, running, loopstop, locks, signal, outcome>>

\* runLoop returns when it finds m_stop, and with it the task of the pool.
TestLoop(t) ==
  /\ Free(t) /\ tpc[t] = "loop"
  /\ IF running[t] \in loopstop
     THEN Goto(t, "test") /\ running' = [running EXCEPT ![t] = Nobody]
     ELSE Goto(t, "epoll") /\ UNCHANGED running
  /\ UNCHANGED <<life, pools, loopstop, woken, locks, signal, outcome>>

HandleWakeup(t) ==
  /\ Free(t) /\ tpc[t] = "epoll" /\ running[t] \in woken
  /\ woken' = woken \ {running[t]}
  /\ Goto(t, "loop")
  /\ UNCHANGED <<life, pools, running, loopstop, locks, signal, outcome>>

\* A message (printed, added to the worker pool), a close (printed, erased
\* from the server's map), or a timeout (erased from both maps).
HandleClient(t) ==
  /\ Free(t) /\ tpc[t] = "epoll" /\ server = "set"
  /\ \E p \in {<<"stdout", "queue">>, <<"stdout", "server">>, <<running[t], "server">>} :
       /\ p[2] = "queue" => queued < MaxQueued
       /\ path' = [path EXCEPT ![t] = p]
  /\ UNCHANGED <<life, pools, tpc, loops, held, signal, outcome>>

\* The thread gets the next lock of its path and does what it guards.
PassLock(t) ==
  /\ OnPool(t) /\ t \in Threads /\ path[t] # << >> /\ Head(path[t]) # "queue"
  /\ held # Head(path[t])
  /\ path' = [path EXCEPT ![t] = Tail(@)]
  /\ Goto(t, IF Tail(path[t]) = << >> THEN "loop" ELSE tpc[t])
  /\ UNCHANGED <<life, pools, loops, held, signal, outcome>>

\* The last one of a message is that of the worker pool, in addTask.
AddTask(t) ==
  /\ OnPool(t) /\ t \in Threads /\ path[t] = <<"queue">>
  /\ MutexFree("work")
  /\ path' = [path EXCEPT ![t] = << >>]
  /\ queued' = queued + 1
  /\ IF Sleepers("work") = {}
     THEN Goto(t, "loop")
     ELSE \E w \in Sleepers("work") : tpc' = [tpc EXCEPT ![t] = "loop", ![w] = "enter"]
  /\ UNCHANGED <<life, iotasks, poolstop, joined, missed, loops, held, signal, outcome>>

-----------------------------------------------------------------------------
(* The signal handlers.                                                    *)

FirstSignal ==
  /\ outcome = "running" /\ host[1] = Nobody
  /\ host' = [host EXCEPT ![1] = Main]
  /\ hpc' = [hpc EXCEPT ![1] = "print"]
  /\ UNCHANGED <<life, pools, tpc, loops, locks, hpool, tostop, outcome>>

\* The same signal interrupts a pool thread.
SecondSignal(t) ==
  /\ outcome = "running" /\ host[1] = Main /\ host[2] = Nobody
  /\ tpc[t] # "exited"
  /\ host' = [host EXCEPT ![2] = t]
  /\ hpc' = [hpc EXCEPT ![2] = "print"]
  /\ UNCHANGED <<life, pools, tpc, loops, locks, hpool, tostop, outcome>>

\* The other signal interrupts the first handler, which never goes on: where it
\* was is forgotten.
NestedSignal ==
  /\ outcome = "running" /\ host[1] = Main /\ host[2] = Nobody
  /\ host' = [host EXCEPT ![2] = Main]
  /\ hpc' = [hpc EXCEPT ![1] = "buried", ![2] = "print"]
  /\ hpool' = [hpool EXCEPT ![1] = "work"]
  /\ tostop' = [tostop EXCEPT ![1] = {}]
  /\ UNCHANGED <<life, pools, tpc, loops, locks, outcome>>

HandlerAt(h, s) == outcome = "running" /\ hpc[h] = s

HandlerGoto(h, s) == hpc' = [hpc EXCEPT ![h] = s]

\* Fault: the handler stops the TcpServer only.
CallStopOfTcp(h) ==
  /\ HandlerAt(h, "print")
  /\ held = "stdout" => host[h] = Main
  /\ HandlerGoto(h, IF server = "set" THEN "loops" ELSE "print")
  /\ outcome' = IF server = "set" THEN "running" ELSE "null_server"
  /\ UNCHANGED <<life, pools, tpc, loops, locks, host, hpool, tostop>>

\* std::cout, and the call of stop() through the global pointer.
CallStop(h) ==
  /\ HandlerAt(h, "print")
  /\ held = "stdout" => host[h] = Main
  /\ HandlerGoto(h, IF server = "set" THEN "test" ELSE "print")
  /\ outcome' = IF server = "set" THEN "running" ELSE "null_server"
  /\ UNCHANGED <<life, pools, tpc, loops, locks, host, hpool, tostop>>

\* What follows the stop of the pool.
AfterPool(h) == IF hpool[h] = "work" THEN "loops" ELSE "delete"

\* ThreadPool::stop returns at once if m_stop is set already.
TestPool(h) ==
  /\ HandlerAt(h, "test")
  /\ HandlerGoto(h, IF poolstop[hpool[h]] THEN AfterPool(h) ELSE "set")
  /\ UNCHANGED <<life, pools, tpc, loops, locks, host, hpool, tostop, outcome>>

SetStop(h) ==
  /\ HandlerAt(h, "set")
  /\ poolstop' = [poolstop EXCEPT ![hpool[h]] = TRUE]
  /\ missed' = (missed \/ ~MutexFree(hpool[h]))
  /\ HandlerGoto(h, "notify")
  /\ UNCHANGED <<life, iotasks, queued, joined, tpc, loops, locks, host, hpool, tostop, outcome>>

NotifyAll(h) ==
  /\ HandlerAt(h, "notify")
  /\ tpc' = [t \in Threads |-> IF t \in Sleepers(hpool[h]) THEN "enter" ELSE tpc[t]]
  /\ HandlerGoto(h, "join")
  /\ UNCHANGED <<life, pools, loops, locks, host, hpool, tostop, outcome>>

\* Fault: stop() joins one thread and forgets the others.
JoinFirst(h) ==
  /\ HandlerAt(h, "join")
  /\ \E t \in Members(hpool[h]) : tpc[t] = "exited"
  /\ joined' = joined \cup {hpool[h]}
  /\ HandlerGoto(h, AfterPool(h))
  /\ UNCHANGED <<life, iotasks, queued, poolstop, missed, tpc, loops, locks, host, hpool, tostop, outcome>>

JoinAll(h) ==
  /\ HandlerAt(h, "join")
  /\ hpool[h] \notin joined
  /\ \A t \in Members(hpool[h]) : tpc[t] = "exited"
  /\ joined' = joined \cup {hpool[h]}
  /\ HandlerGoto(h, AfterPool(h))
  /\ UNCHANGED <<life, iotasks, queued, poolstop, missed, tpc, loops, locks, host, hpool, tostop, outcome>>

\* join throws for the calling thread, and for one that the other handler
\* joins or has joined; nobody catches it.
JoinThrows(h) ==
  /\ HandlerAt(h, "join")
  /\ \/ host[h] \in Members(hpool[h])
     \/ hpool[h] \in joined
     \/ hpc[3 - h] = "join" /\ hpool[3 - h] = hpool[h]
  /\ outcome' = "terminate"
  /\ UNCHANGED <<life, pools, tpc, loops, locks, signal>>

\* Fault: stopLoop sets the flag and does not wake the loop.
StopLoopAsleep(h, l) ==
  /\ HandlerAt(h, "loops") /\ l \in tostop[h]
  /\ tostop' = [tostop EXCEPT ![h] = @ \ {l}]
  /\ loopstop' = loopstop \cup {l}
  /\ UNCHANGED <<life, pools, tpc, running, woken, locks, host, hpc, hpool, outcome>>

\* stopLoop of one of the loops.  The main loop is stopped first, which has no
\* effect: its thread never returns from its handler.
StopLoop(h, l) ==
  /\ HandlerAt(h, "loops") /\ l \in tostop[h]
  /\ tostop' = [tostop EXCEPT ![h] = @ \ {l}]
  /\ loopstop' = loopstop \cup {l}
  /\ woken' = woken \cup {l}
  /\ UNCHANGED <<life, pools, tpc, running, locks, host, hpc, hpool, outcome>>

\* Fault: TcpServer::stop forgets the I/O pool.
EndLoopsAndDelete(h) ==
  /\ HandlerAt(h, "loops") /\ tostop[h] = {}
  /\ HandlerGoto(h, "delete")
  /\ UNCHANGED <<life, pools, tpc, loops, locks, host, hpool, tostop, outcome>>

EndLoops(h) ==
  /\ HandlerAt(h, "loops") /\ tostop[h] = {}
  /\ hpool' = [hpool EXCEPT ![h] = "io"]
  /\ HandlerGoto(h, "test")
  /\ UNCHANGED <<life, pools, tpc, loops, locks, host, tostop, outcome>>

\* delete server: the members go in reverse order, the worker pool first.
Delete(h) ==
  /\ HandlerAt(h, "delete")
  /\ hpool' = [hpool EXCEPT ![h] = "work"]
  /\ HandlerGoto(h, "pool")
  /\ UNCHANGED <<life, pools, tpc, loops, locks, host, tostop, outcome>>

\* ~ThreadPool: m_stop was set on every way here, so its stop() returns at once,
\* whoever was joined.  m_cv, m_mutex and m_taskqueue go before m_threads.  With a
\* thread asleep on m_cv the destructor may wait: the step need not come.
DestroyPool(h) ==
  /\ HandlerAt(h, "pool")
  /\ gone' = gone \cup {hpool[h]}
  /\ HandlerGoto(h, "threads")
  /\ UNCHANGED <<server, added, pools, tpc, loops, locks, host, hpool, tostop, outcome>>

Joinable(p) == Members(p) # {} /\ p \notin joined

AfterThreads(h) == IF hpool[h] = "work" THEN "members" ELSE "free"

\* Fault: the threads were detached, so nothing notices that they still run.
DetachThreads(h) ==
  /\ HandlerAt(h, "threads")
  /\ HandlerGoto(h, AfterThreads(h))
  /\ UNCHANGED <<life, pools, tpc, loops, locks, host, hpool, tostop, outcome>>

\* m_threads: a std::thread that is joinable ends the process.
DestroyThreads(h) ==
  /\ HandlerAt(h, "threads")
  /\ IF Joinable(hpool[h])
     THEN outcome' = "terminate" /\ UNCHANGED hpc
     ELSE HandlerGoto(h, AfterThreads(h)) /\ UNCHANGED outcome
  /\ UNCHANGED <<life, pools, tpc, loops, locks, host, hpool, tostop>>

\* ~TcpServer: its callbacks, m_conns and m_mutex go before its I/O pool ...
DestroyMembers(h) ==
  /\ HandlerAt(h, "members")
  /\ gone' = gone \cup {"server"}
  /\ hpool' = [hpool EXCEPT ![h] = "io"]
  /\ HandlerGoto(h, "pool")
  /\ UNCHANGED <<server, added, pools, tpc, loops, locks, host, tostop, outcome>>

\* ... and the loops after it, with the memory of the whole.
DestroyLoops(h) ==
  /\ HandlerAt(h, "free")
  /\ gone' = gone \cup {"loops"}
  /\ HandlerGoto(h, "exit")
  /\ UNCHANGED <<server, added, pools, tpc, loops, locks, host, hpool, tostop, outcome>>

Exit(h) ==
  /\ HandlerAt(h, "exit")
  /\ outcome' = "exited"
  /\ UNCHANGED <<life, pools, tpc, loops, locks, signal>>

-----------------------------------------------------------------------------
(* Undefined behaviour.                                                    *)

\* What the next step of a pool thread uses: a lock and what it guards or the
\* callback that leads to it, a loop, or the flag, mutex and queue of its pool.
UsedPart(t) ==
  IF path[t] # << >>
  THEN IF Head(path[t]) = "queue" THEN "work"
       ELSE IF Head(path[t]) \in Loops THEN "loops" ELSE "server"
  ELSE IF tpc[t] \in {"run", "loop", "epoll"} THEN "loops" ELSE PoolOf(t)

UseDestroyed(t) ==
  /\ OnPool(t) /\ tpc[t] \notin {"asleep", "exited"}
  /\ UsedPart(t) \in gone
  /\ outcome' = "use_after_free"
  /\ UNCHANGED <<life, pools, tpc, loops, locks, signal>>

\* What the next step of a handler uses, or destroys.
HandlerUses(h) ==
  IF hpc[h] \in {"test", "set", "notify", "join", "pool"} THEN {hpool[h]}
  ELSE IF hpc[h] = "members" THEN {"server"}
  ELSE IF hpc[h] \in {"loops", "free"} THEN {"loops"} ELSE {}

HandlerUsesDestroyed(h) ==
  /\ outcome = "running" /\ HandlerUses(h) \cap gone # {}
  /\ outcome' = "use_after_free"
  /\ UNCHANGED <<life, pools, tpc, loops, locks, signal>>

-----------------------------------------------------------------------------
MainStep == (\E l \in Loops : AddLoop(l)) \/ AssignServer

\* What a pool thread does without a lock, and without being asked.
ThreadStep(t) ==
  \/ TestStop(t) \/ Block(t) \/ RunTask(t) \/ TestLoop(t) \/ HandleWakeup(t)

LockStep(t) == EnterWorker(t) \/ EnterIO(t) \/ PassLock(t) \/ AddTask(t)

HandlerStep(h) ==
  \/ CallStop(h) \/ TestPool(h) \/ SetStop(h) \/ NotifyAll(h)
  \/ JoinAll(h) \/ JoinThrows(h)
  \/ (\E l \in Loops : StopLoop(h, l)) \/ EndLoops(h)
  \/ Delete(h) \/ DestroyPool(h) \/ DestroyThreads(h)
  \/ DestroyMembers(h) \/ DestroyLoops(h) \/ Exit(h)

Next ==
  \/ MainStep \/ Accept
  \/ \E t \in Threads : ThreadStep(t) \/ LockStep(t) \/ HandleClient(t)
  \/ FirstSignal \/ (\E t \in Targets : SecondSignal(t)) \/ NestedSignal
  \/ \E h \in {1, 2} : HandlerStep(h) \/ HandlerUsesDestroyed(h)
  \/ \E t \in Threads : UseDestroyed(t)

Spec == Init /\ [][Next]_vars

(***************************************************************************)
(* Threads that can run are scheduled, and one that again and again finds  *)
(* the lock it waits for free gets it.  Signals, clients and new           *)
(* connections need not come.                                              *)
(***************************************************************************)
Fairness ==
  /\ \A t \in Threads : WF_vars(ThreadStep(t)) /\ SF_vars(LockStep(t))
  /\ WF_vars(HandlerStep(1))

FairSpec == Spec /\ Fairness

-----------------------------------------------------------------------------
(* Properties.                                                             *)

(***************************************************************************)
(* Types; a thread that calls runLoop is an I/O thread with a loop, and    *)
(* waits for locks only in the handler of a channel.                       *)
(***************************************************************************)
TypeOK ==
  /\ server \in {"null", "set"} /\ added \in SUBSET Loops /\ gone \in SUBSET Parts
  /\ iotasks \in Seq(Loops) /\ queued \in Nat
  /\ poolstop \in [Pools -> BOOLEAN] /\ joined \in SUBSET Pools /\ missed \in BOOLEAN
  /\ tpc \in [Threads -> PoolStates]
  /\ running \in [IOThreads -> Loops \cup {Nobody}]
  /\ \A t \in Threads :
       /\ tpc[t] \in {"loop", "epoll"} => t \in IOThreads /\ running[t] \in Loops
       /\ path[t] # << >> => tpc[t] = "epoll"
  /\ loopstop \in SUBSET Loops /\ woken \in SUBSET Loops
  /\ path \in [Threads -> Seq(Locks)] /\ held \in Locks \cup {Nobody}
  /\ host \in [{1, 2} -> Threads \cup {Main, Nobody}] /\ hpc \in [{1, 2} -> HandlerStates]
  /\ hpool \in [{1, 2} -> Pools] /\ tostop \in [{1, 2} -> SUBSET Loops]
  /\ outcome \in {"running", "exited", "null_server", "use_after_free", "terminate"}

(***************************************************************************)
(* Wherever the threads were when it came, one signal never makes a part   *)
(* of the server go under a running thread: delete (echo.cpp:12) begins    *)
(* only when both pools were joined (EchoServer.cpp:27-30).                *)
(***************************************************************************)
DeletedAlone ==
  host[2] = Nobody /\ gone # {} => \A t \in Threads : tpc[t] = "exited"

(***************************************************************************)
(* A second signal can make stop() return early and delete begin under     *)
(* running threads.  The order of the members still limits what they lose: *)
(* m_threads (ThreadPool.h:24), which ends the process if nobody joined    *)
(* them, comes before the members of TcpServer for the workers, and before *)
(* the loops and the memory of the server for all.                         *)
(***************************************************************************)
JoinedBeforeFreed ==
  /\ "server" \in gone => \A w \in Workers : tpc[w] = "exited"
  /\ "loops" \in gone => \A t \in Threads : tpc[t] = "exited"

(***************************************************************************)
(* One signal never makes the process end in another way than exit(),      *)
(* except while main is still constructing the server (echo.cpp:24-27).    *)
(***************************************************************************)
OneSignalIsClean ==
  host[2] = Nobody => outcome \in {"running", "exited", "null_server"}

(***************************************************************************)
(* Workers are stopped before loops (EchoServer.cpp:28-29): when a loop is *)
(* told to stop no worker will post a reply to it any more.                *)
(***************************************************************************)
LoopsOutliveWorkers ==
  host[2] = Nobody /\ loopstop # {} => \A w \in Workers : tpc[w] # "run"

(***************************************************************************)
(* The only things that keep the handler from reaching exit(): it came     *)
(* when main held a lock or before there was a server, a pool was stopped  *)
(* in the window before a wait, or another signal came on top.             *)
(***************************************************************************)
StopCompletes ==
  hpc[1] = "print" /\ server = "set" /\ held = Nobody
    ~> outcome = "exited" \/ missed \/ host[2] # Nobody
=============================================================================
