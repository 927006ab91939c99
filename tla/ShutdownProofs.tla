--------------------------- MODULE ShutdownProofs ---------------------------
(***************************************************************************)
(* Proofs about Shutdown for any number of threads and loops.              *)
(***************************************************************************)
EXTENDS Shutdown, TLAPS

(***************************************************************************)
(* The inductive invariant.  A thread that has ended stays ended, so what  *)
(* was joined stays joined (JoinedEnded).  A handler passes the destructor *)
(* of a m_threads only if the threads were joined, whoever joined them     *)
(* (DestroyedEnded).  That one signal is harmless needs to know where the  *)
(* handler is when flags are set, pools joined and parts destroyed:        *)
(* otherwise it might find a flag set, and skip a join.                    *)
(***************************************************************************)
Ended(p) == \A t \in Members(p) : tpc[t] = "exited"

JoinedEnded == \A p \in joined : Ended(p)

DestroyedEnded ==
  /\ \A h \in {1, 2} :
       /\ hpc[h] \in {"members", "free", "exit"} => Ended("work")
       /\ hpc[h] \in {"pool", "threads"} /\ hpool[h] = "io" => Ended("work")
       /\ hpc[h] \in {"free", "exit"} => Ended("io")
  /\ "server" \in gone => Ended("work")
  /\ "loops" \in gone => Ended("work") /\ Ended("io")

OneHandler ==
  host[2] = Nobody =>
    /\ hpc[2] = "none" /\ hpc[1] # "buried"
    /\ host[1] \in {Main, Nobody}
    /\ host[1] = Nobody => hpc[1] = "none"
    /\ hpc[1] \in {"none", "loops", "members"} => hpool[1] = "work"
    /\ hpc[1] \in {"delete", "free", "exit"} => hpool[1] = "io"
    /\ "work" \in joined <=> (hpool[1] = "io" \/ hpc[1] \in {"loops"} \cup DeleteStates)
    /\ "io" \in joined <=> hpc[1] \in DeleteStates
    /\ poolstop["work"] =>
         hpool[1] = "io" \/ hpc[1] \in {"notify", "join", "loops"} \cup DeleteStates
    /\ poolstop["io"] =>
         hpc[1] \in DeleteStates \/ (hpool[1] = "io" /\ hpc[1] \in {"notify", "join"})
    /\ loopstop # {} => "work" \in joined
    /\ gone # {} => hpc[1] \in DeleteStates \ {"delete"}
    /\ "work" \in gone /\ hpc[1] = "pool" => hpool[1] = "io"
    /\ "server" \in gone =>
         hpc[1] \in {"free", "exit"} \/ (hpc[1] \in {"pool", "threads"} /\ hpool[1] = "io")
    /\ "io" \in gone =>
         hpc[1] \in {"free", "exit"} \/ (hpc[1] = "threads" /\ hpool[1] = "io")
    /\ "loops" \in gone => hpc[1] = "exit"
    /\ outcome \in {"running", "exited", "null_server"}

IInv == TypeOK /\ JoinedEnded /\ DestroyedEnded /\ OneHandler

\* Initially nothing was joined, and there is no handler.
LEMMA InitIInv == Init => IInv
<1> SUFFICES ASSUME Init PROVE IInv
  OBVIOUS
<1>1. iotasks \in Seq(Loops) /\ \A t \in Threads : path[t] \in Seq(Locks)
  BY DEF Init
<1>2. TypeOK
  BY <1>1 DEF Init, TypeOK, PoolStates, HandlerStates, StopStates, Pools
<1>3. JoinedEnded /\ DestroyedEnded
  BY DEF Init, JoinedEnded, DestroyedEnded
<1>4. OneHandler
  BY DEF Init, OneHandler, Pools, DeleteStates
<1> QED BY <1>2, <1>3, <1>4 DEF IInv

-----------------------------------------------------------------------------
(* Types.                                                                  *)

\* A path of two locks.
LEMMA TwoLocks == ASSUME NEW S, NEW a \in S, NEW b \in S PROVE <<a, b>> \in Seq(S)
OBVIOUS

\* What notify_one does to the threads of a pool.
LEMMA NotifyTypes ==
  ASSUME TypeOK, NEW p \in Pools, Notify(p)
  PROVE  /\ tpc' \in [Threads -> PoolStates]
         /\ \A t \in Threads : tpc'[t] = tpc[t] \/ (tpc[t] = "asleep" /\ tpc'[t] = "enter")
<1>1. Sleepers(p) \subseteq Threads
  BY DEF Sleepers, Members, Threads
<1> QED BY <1>1 DEF Notify, Goto, Sleepers, TypeOK, PoolStates

\* The steps of the main thread keep the types.
LEMMA MainTypes == TypeOK /\ (MainStep \/ Accept) => TypeOK'
<1> SUFFICES ASSUME TypeOK, MainStep \/ Accept PROVE TypeOK'
  OBVIOUS
<1>1. ASSUME NEW l \in Loops, AddLoop(l) PROVE TypeOK'
  <2>1. Append(iotasks, l) \in Seq(Loops)
    BY DEF TypeOK
  <2>2. /\ tpc' \in [Threads -> PoolStates]
        /\ \A t \in Threads : tpc'[t] = tpc[t] \/ (tpc[t] = "asleep" /\ tpc'[t] = "enter")
    BY <1>1, NotifyTypes DEF AddLoop, Pools
  <2> QED BY <1>1, <2>1, <2>2 DEF AddLoop, TypeOK, loops, locks, signal
<1>2. CASE AssignServer
  BY <1>2 DEF AssignServer, TypeOK, pools, loops, locks, signal
<1>3. CASE Accept
  BY <1>3 DEF Accept, TypeOK, Locks, life, pools, loops, signal
<1> QED BY <1>1, <1>2, <1>3 DEF MainStep

\* So do those of a pool thread.
LEMMA ThreadTypes ==
  ASSUME TypeOK, NEW t \in Threads, ThreadStep(t) \/ LockStep(t) \/ HandleClient(t)
  PROVE  TypeOK'
<1> USE DEF life, loops, pools, locks, signal
<1>1. CASE TestStop(t)
  BY <1>1 DEF TestStop, Goto, TypeOK, PoolStates, Free
<1>2. CASE Block(t)
  BY <1>2 DEF Block, Goto, TypeOK, PoolStates, Free
<1>3. CASE RunTask(t)
  BY <1>3 DEF RunTask, Goto, TypeOK, PoolStates, Free
<1>4. CASE TestLoop(t)
  BY <1>4 DEF TestLoop, Goto, TypeOK, PoolStates, Free
<1>5. CASE HandleWakeup(t)
  BY <1>5 DEF HandleWakeup, Goto, TypeOK, PoolStates, Free
<1>6. CASE EnterWorker(t)
  <2>1. queued' \in Nat
    BY <1>6 DEF EnterWorker, TypeOK
  <2> QED BY <1>6, <2>1 DEF EnterWorker, Goto, TypeOK, PoolStates, Free
<1>7. CASE EnterIO(t)
  <2>1. iotasks # << >> => Head(iotasks) \in Loops /\ Tail(iotasks) \in Seq(Loops)
    BY DEF TypeOK
  <2>2. CASE iotasks # << >>
    <3>1. /\ tpc' = [tpc EXCEPT ![t] = "loop"] /\ running' = [running EXCEPT ![t] = Head(iotasks)]
          /\ iotasks' = Tail(iotasks) /\ t \in IOThreads /\ path[t] = << >>
      BY <1>7, <2>2 DEF EnterIO, Goto, Free
    <3>2. UNCHANGED <<life, queued, poolstop, joined, missed, loopstop, woken, locks, signal, outcome>>
      BY <1>7 DEF EnterIO
    <3> QED BY <2>1, <2>2, <3>1, <3>2 DEF TypeOK, PoolStates
  <2>3. CASE iotasks = << >>
    BY <1>7, <2>3 DEF EnterIO, Goto, TypeOK, PoolStates, Free
  <2> QED BY <2>2, <2>3
<1>8. CASE HandleClient(t)
  <2>1. t \in IOThreads /\ running[t] \in Loops
    BY <1>8 DEF HandleClient, TypeOK
  <2>2. PICK p \in {<<"stdout", "queue">>, <<"stdout", "server">>, <<running[t], "server">>} :
          path' = [path EXCEPT ![t] = p]
    BY <1>8 DEF HandleClient
  <2>3. p \in Seq(Locks)
    <3>1. {"server", "queue", "stdout", running[t]} \subseteq Locks
      BY <2>1 DEF Locks
    <3> QED BY <2>2, <3>1, TwoLocks
  <2>4. tpc[t] = "epoll" /\ UNCHANGED <<life, pools, tpc, loops, held, signal, outcome>>
    BY <1>8 DEF HandleClient
  <2> QED BY <2>2, <2>3, <2>4 DEF TypeOK
<1>9. CASE PassLock(t)
  <2>1. path[t] # << >> => Tail(path[t]) \in Seq(Locks)
    BY DEF TypeOK
  <2> QED BY <1>9, <2>1 DEF PassLock, Goto, TypeOK, PoolStates
<1>10. CASE AddTask(t)
  <2>1. path[t] = <<"queue">> /\ queued' \in Nat /\ << >> \in Seq(Locks)
    BY <1>10 DEF AddTask, TypeOK
  <2> tpc[t] = "epoll"
    <3>1. <<"queue">> # << >>
      OBVIOUS
    <3> QED BY <2>1, <3>1 DEF TypeOK
  <2>2. Sleepers("work") \subseteq Threads /\ \A w \in Sleepers("work") : tpc[w] = "asleep"
    BY DEF Sleepers, Members, Threads
  <2> QED BY <1>10, <2>1, <2>2 DEF AddTask, Goto, TypeOK, PoolStates
<1> QED BY <1>1, <1>2, <1>3, <1>4, <1>5, <1>6, <1>7, <1>8, <1>9, <1>10 DEF ThreadStep, LockStep

\* So do signals and the steps of a handler.
LEMMA SignalTypes ==
  ASSUME TypeOK, FirstSignal \/ NestedSignal \/ \E t \in Targets : SecondSignal(t)
  PROVE  TypeOK'
<1> USE DEF life, loops, pools, locks, TypeOK, HandlerStates, StopStates, Pools
<1>1. CASE FirstSignal
  BY <1>1 DEF FirstSignal
<1>2. CASE NestedSignal
  BY <1>2 DEF NestedSignal
<1>3. ASSUME NEW t \in Targets, SecondSignal(t) PROVE TypeOK'
  BY <1>3, TargetsAreThreads DEF SecondSignal
<1> QED BY <1>1, <1>2, <1>3

\* The steps of a handler keep the types.
LEMMA HandlerTypes ==
  ASSUME TypeOK, NEW h \in {1, 2}, HandlerStep(h)
  PROVE  TypeOK'
<1> USE DEF life, loops, pools, locks, TypeOK, HandlerStates, StopStates, DeleteStates,
            HandlerGoto, AfterPool
<1>1. CASE CallStop(h)
  BY <1>1 DEF CallStop
<1>2. CASE TestPool(h)
  BY <1>2 DEF TestPool
<1>3. CASE SetStop(h)
  BY <1>3 DEF SetStop
<1>4. CASE NotifyAll(h)
  BY <1>4 DEF NotifyAll, PoolStates, Sleepers
<1>5. CASE JoinAll(h)
  BY <1>5 DEF JoinAll
<1>6. CASE JoinThrows(h)
  BY <1>6 DEF JoinThrows, signal
<1>7. ASSUME NEW l \in Loops, StopLoop(h, l) PROVE TypeOK'
  BY <1>7 DEF StopLoop
<1>8. CASE EndLoops(h)
  BY <1>8 DEF EndLoops, Pools
<1>9. CASE Delete(h)
  BY <1>9 DEF Delete, Pools
<1>10. CASE DestroyPool(h)
  BY <1>10 DEF DestroyPool, Parts
<1>11. CASE DestroyThreads(h)
  BY <1>11 DEF DestroyThreads, AfterThreads
<1>12. CASE DestroyMembers(h)
  BY <1>12 DEF DestroyMembers, Parts, Pools
<1>13. CASE DestroyLoops(h)
  BY <1>13 DEF DestroyLoops, Parts
<1>14. CASE Exit(h)
  BY <1>14 DEF Exit, signal
<1> QED BY <1>1, <1>2, <1>3, <1>4, <1>5, <1>6, <1>7, <1>8, <1>9, <1>10, <1>11, <1>12,
           <1>13, <1>14 DEF HandlerStep

\* The use of a destroyed part changes nothing but the outcome.
LEMMA UndefinedEffect ==
  ASSUME \/ \E t \in Threads : UseDestroyed(t)
         \/ \E h \in {1, 2} : HandlerUsesDestroyed(h)
  PROVE  /\ UNCHANGED <<life, pools, tpc, loops, locks, signal>>
         /\ outcome' = "use_after_free"
BY DEF UseDestroyed, HandlerUsesDestroyed

\* Every step keeps the types.
LEMMA TypeStep == TypeOK /\ [Next]_vars => TypeOK'
<1> SUFFICES ASSUME TypeOK, [Next]_vars PROVE TypeOK'
  OBVIOUS
<1>1. CASE UNCHANGED vars
  BY <1>1 DEF TypeOK, vars, life, pools, loops, locks, signal
<1>2. CASE (\E t \in Threads : UseDestroyed(t)) \/ (\E h \in {1, 2} : HandlerUsesDestroyed(h))
  BY <1>2, UndefinedEffect DEF TypeOK, life, pools, loops, locks, signal
<1> QED BY <1>1, <1>2, MainTypes, ThreadTypes, SignalTypes, HandlerTypes DEF Next

-----------------------------------------------------------------------------
(* What the handlers rely on.                                              *)

\* A thread that has ended stays ended: nobody moves it, and it waits for nothing.
LEMMA EndedStays ==
  ASSUME TypeOK, [Next]_vars, NEW t \in Threads, tpc[t] = "exited"
  PROVE  tpc'[t] = "exited"
<1>1. CASE UNCHANGED tpc
  BY <1>1
<1>2. ASSUME NEW l \in Loops, AddLoop(l) PROVE tpc'[t] = "exited"
  <2>1. Notify("io")
    BY <1>2 DEF AddLoop
  <2> QED BY <2>1, NotifyTypes DEF Pools
<1>3. ASSUME NEW u \in Threads, ThreadStep(u) \/ LockStep(u) PROVE tpc'[t] = "exited"
  <2> USE DEF Goto, TypeOK
  <2>1. CASE TestStop(u)
    BY <2>1 DEF TestStop
  <2>2. CASE Block(u)
    BY <2>2 DEF Block
  <2>3. CASE RunTask(u)
    BY <2>3 DEF RunTask
  <2>4. CASE TestLoop(u)
    BY <2>4 DEF TestLoop
  <2>5. CASE HandleWakeup(u)
    BY <2>5 DEF HandleWakeup
  <2>6. CASE EnterWorker(u)
    BY <2>6 DEF EnterWorker
  <2>7. CASE EnterIO(u)
    BY <2>7 DEF EnterIO
  <2>8. CASE PassLock(u)
    BY <2>8 DEF PassLock
  <2>9. CASE AddTask(u)
    <3>1. path[u] # << >>
      BY <2>9 DEF AddTask
    <3>2. tpc[u] = "epoll"
      BY <3>1
    <3> QED BY <2>9, <3>2 DEF AddTask, Sleepers
  <2> QED BY <1>3, <2>1, <2>2, <2>3, <2>4, <2>5, <2>6, <2>7, <2>8, <2>9 DEF ThreadStep, LockStep
<1>4. ASSUME NEW h \in {1, 2}, NotifyAll(h) PROVE tpc'[t] = "exited"
  BY <1>4 DEF NotifyAll, Sleepers
<1>5. ASSUME NEW h \in {1, 2}, HandlerStep(h), ~NotifyAll(h) PROVE UNCHANGED tpc
  BY <1>5 DEF HandlerStep, CallStop, TestPool, SetStop, JoinAll, JoinThrows, StopLoop, EndLoops,
              Delete, DestroyPool, DestroyThreads, DestroyMembers, DestroyLoops, Exit
<1>6. ASSUME FirstSignal \/ NestedSignal \/ AssignServer \/ Accept
             \/ (\E u \in Targets : SecondSignal(u)) \/ (\E u \in Threads : HandleClient(u))
             \/ (\E u \in Threads : UseDestroyed(u)) \/ (\E h \in {1, 2} : HandlerUsesDestroyed(h))
             \/ UNCHANGED vars
      PROVE  UNCHANGED tpc
  BY <1>6, UndefinedEffect DEF FirstSignal, NestedSignal, AssignServer, Accept, SecondSignal, HandleClient, vars
<1> QED BY <1>1, <1>2, <1>3, <1>4, <1>5, <1>6 DEF Next, MainStep

\* The members of both pools are the threads.
LEMMA MembersThreads == Members("work") = Workers /\ Members("io") = IOThreads
BY DEF Members

\* What has ended stays ended.
LEMMA EndedPoolStays ==
  ASSUME TypeOK, [Next]_vars, NEW p, Ended(p)
  PROVE  Ended(p)'
<1>1. Members(p) \subseteq Threads
  BY DEF Members, Threads
<1> QED BY <1>1, EndedStays DEF Ended, Members

\* Only JoinAll joins.
LEMMA OthersKeepJoined ==
  ASSUME [Next]_vars, \A h \in {1, 2} : ~JoinAll(h)
  PROVE  UNCHANGED joined
<1> USE DEF pools
<1>1. CASE MainStep \/ Accept
  BY <1>1 DEF MainStep, Accept, AddLoop, AssignServer
<1>2. ASSUME NEW t \in Threads, ThreadStep(t) \/ LockStep(t) \/ HandleClient(t)
      PROVE  UNCHANGED joined
  BY <1>2 DEF ThreadStep, LockStep, HandleClient, TestStop, Block, RunTask, TestLoop,
              HandleWakeup, EnterWorker, EnterIO, PassLock, AddTask
<1>3. CASE FirstSignal \/ NestedSignal \/ (\E t \in Targets : SecondSignal(t))
  BY <1>3 DEF FirstSignal, NestedSignal, SecondSignal
<1>4. ASSUME NEW h \in {1, 2}, HandlerStep(h) PROVE UNCHANGED joined
  BY <1>4 DEF HandlerStep, CallStop, TestPool, SetStop, NotifyAll, JoinThrows, StopLoop, EndLoops,
              Delete, DestroyPool, DestroyThreads, DestroyMembers, DestroyLoops, Exit
<1>5. CASE (\E t \in Threads : UseDestroyed(t)) \/ (\E h \in {1, 2} : HandlerUsesDestroyed(h))
  BY <1>5, UndefinedEffect
<1>6. CASE UNCHANGED vars
  BY <1>6 DEF vars
<1> QED BY <1>1, <1>2, <1>3, <1>4, <1>5, <1>6 DEF Next

\* What was joined has ended.
LEMMA JoinedStep == TypeOK /\ JoinedEnded /\ [Next]_vars => JoinedEnded'
<1> SUFFICES ASSUME TypeOK, JoinedEnded, [Next]_vars PROVE JoinedEnded'
  OBVIOUS
<1>1. ASSUME NEW p \in joined PROVE Ended(p)'
  BY EndedPoolStays DEF JoinedEnded
<1>2. ASSUME NEW h \in {1, 2}, JoinAll(h) PROVE JoinedEnded'
  <2>1. joined' = joined \cup {hpool[h]} /\ Ended(hpool[h])
    BY <1>2 DEF JoinAll, Ended
  <2> QED BY <2>1, <1>1, EndedPoolStays DEF JoinedEnded
<1>3. CASE \A h \in {1, 2} : ~JoinAll(h)
  BY <1>1, <1>3, OthersKeepJoined DEF JoinedEnded
<1> QED BY <1>2, <1>3

-----------------------------------------------------------------------------
(* The destructors.                                                        *)

Destructor(h) == DestroyThreads(h) \/ DestroyMembers(h) \/ DestroyLoops(h)

\* Everything but three of the destructors leaves alone what DestroyedEnded is about:
\* no handler enters the states behind a m_threads, and no part but a pool goes.
LEMMA OthersKeepDestroyed ==
  ASSUME TypeOK, [Next]_vars, \A h \in {1, 2} : ~Destructor(h)
  PROVE  /\ "server" \in gone' => "server" \in gone
         /\ "loops" \in gone' => "loops" \in gone
         /\ \A h \in {1, 2} :
              /\ hpc'[h] \in {"members", "free", "exit"} => hpc'[h] = hpc[h]
              /\ hpc'[h] \in {"pool", "threads"} /\ hpool'[h] = "io" =>
                   hpc[h] \in {"pool", "threads"} /\ hpool[h] = "io"
<1> USE DEF life, signal
<1>1. CASE MainStep \/ Accept
  BY <1>1 DEF MainStep, Accept, AddLoop, AssignServer
<1>2. ASSUME NEW t \in Threads, ThreadStep(t) \/ LockStep(t) \/ HandleClient(t)
      PROVE  UNCHANGED <<gone, hpc, hpool>>
  BY <1>2 DEF ThreadStep, LockStep, HandleClient, TestStop, Block, RunTask, TestLoop,
              HandleWakeup, EnterWorker, EnterIO, PassLock, AddTask
<1>3. CASE FirstSignal \/ NestedSignal \/ (\E t \in Targets : SecondSignal(t))
  BY <1>3 DEF FirstSignal, NestedSignal, SecondSignal, TypeOK
<1>4. ASSUME NEW h \in {1, 2}, HandlerStep(h)
      PROVE  /\ "server" \in gone' => "server" \in gone
             /\ "loops" \in gone' => "loops" \in gone
             /\ \A i \in {1, 2} :
                  /\ hpc'[i] \in {"members", "free", "exit"} => hpc'[i] = hpc[i]
                  /\ hpc'[i] \in {"pool", "threads"} /\ hpool'[i] = "io" =>
                       hpc[i] \in {"pool", "threads"} /\ hpool[i] = "io"
  <2> USE DEF TypeOK, HandlerAt, HandlerGoto, AfterPool
  <2>1. CASE CallStop(h) \/ TestPool(h) \/ SetStop(h) \/ NotifyAll(h)
    BY <2>1 DEF CallStop, TestPool, SetStop, NotifyAll
  <2>2. CASE JoinAll(h) \/ JoinThrows(h) \/ (\E l \in Loops : StopLoop(h, l)) \/ EndLoops(h)
    BY <2>2 DEF JoinAll, JoinThrows, StopLoop, EndLoops
  <2>3. CASE Delete(h) \/ Exit(h)
    BY <2>3 DEF Delete, Exit
  <2>4. CASE DestroyPool(h)
    BY <2>4 DEF DestroyPool, Pools
  <2> QED BY <1>4, <2>1, <2>2, <2>3, <2>4 DEF HandlerStep, Destructor
<1>5. CASE (\E t \in Threads : UseDestroyed(t)) \/ (\E h \in {1, 2} : HandlerUsesDestroyed(h))
  BY <1>5, UndefinedEffect
<1>6. CASE UNCHANGED vars
  BY <1>6 DEF vars
<1> QED BY <1>1, <1>2, <1>3, <1>4, <1>5, <1>6 DEF Next

\* m_threads stands between running threads and what is destroyed after it.
LEMMA DestroyedStep ==
  TypeOK /\ JoinedEnded /\ DestroyedEnded /\ [Next]_vars => DestroyedEnded'
<1> SUFFICES ASSUME TypeOK, JoinedEnded, DestroyedEnded, [Next]_vars PROVE DestroyedEnded'
  OBVIOUS
<1>0. (Ended("work") => Ended("work")') /\ (Ended("io") => Ended("io")')
  BY EndedPoolStays
<1>1. ASSUME NEW h \in {1, 2}, DestroyThreads(h) PROVE DestroyedEnded'
  <2>1. UNCHANGED <<gone, hpool>> /\ hpc[h] = "threads" /\ hpool[h] \in {"work", "io"}
    BY <1>1 DEF DestroyThreads, HandlerAt, life, TypeOK, Pools
  <2>2. CASE Joinable(hpool[h])
    BY <1>0, <1>1, <2>1, <2>2 DEF DestroyThreads, DestroyedEnded
  <2>3. CASE ~Joinable(hpool[h])
    <3>1. Ended(hpool[h])
      BY <2>3 DEF Joinable, JoinedEnded, Ended
    <3>2. hpc' = [hpc EXCEPT ![h] = IF hpool[h] = "work" THEN "members" ELSE "free"]
      BY <1>1, <2>3 DEF DestroyThreads, HandlerGoto, AfterThreads
    <3>3. \A i \in {1, 2} : i # h => hpc'[i] = hpc[i]
      BY <3>2 DEF TypeOK
    <3>4. hpc'[h] = IF hpool[h] = "work" THEN "members" ELSE "free"
      BY <3>2 DEF TypeOK
    <3>5. Ended("work")' /\ (hpool[h] = "io" => Ended("io")')
      BY <1>0, <2>1, <3>1 DEF DestroyedEnded
    <3> QED BY <1>0, <2>1, <3>3, <3>4, <3>5 DEF DestroyedEnded
  <2> QED BY <2>2, <2>3
<1>2. ASSUME NEW h \in {1, 2}, DestroyMembers(h) PROVE DestroyedEnded'
  <2>1. hpc[h] = "members" /\ hpc' = [hpc EXCEPT ![h] = "pool"]
        /\ hpool' = [hpool EXCEPT ![h] = "io"] /\ gone' = gone \cup {"server"}
    BY <1>2 DEF DestroyMembers, HandlerAt, HandlerGoto
  <2>2. Ended("work")'
    BY <1>0, <2>1 DEF DestroyedEnded
  <2> QED BY <1>0, <2>1, <2>2 DEF DestroyedEnded, TypeOK
<1>3. ASSUME NEW h \in {1, 2}, DestroyLoops(h) PROVE DestroyedEnded'
  <2>1. hpc[h] = "free" /\ hpc' = [hpc EXCEPT ![h] = "exit"]
        /\ hpool' = hpool /\ gone' = gone \cup {"loops"}
    BY <1>3 DEF DestroyLoops, HandlerAt, HandlerGoto
  <2>2. Ended("work")' /\ Ended("io")'
    BY <1>0, <2>1 DEF DestroyedEnded
  <2> QED BY <1>0, <2>1, <2>2 DEF DestroyedEnded, TypeOK
<1>4. CASE \A h \in {1, 2} : ~Destructor(h)
  BY <1>0, <1>4, OthersKeepDestroyed DEF DestroyedEnded
<1> QED BY <1>1, <1>2, <1>3, <1>4 DEF Destructor

-----------------------------------------------------------------------------
(* One handler.                                                            *)

\* What the main thread and the pool threads leave alone.
LEMMA ThreadsKeepSignal ==
  ASSUME MainStep \/ Accept \/ \E t \in Threads : ThreadStep(t) \/ LockStep(t) \/ HandleClient(t)
  PROVE  UNCHANGED <<signal, poolstop, joined, loopstop, gone, outcome>>
<1> USE DEF life, pools, loops
<1>1. CASE MainStep \/ Accept
  BY <1>1 DEF MainStep, Accept, AddLoop, AssignServer
<1>2. ASSUME NEW t \in Threads, ThreadStep(t) \/ LockStep(t) \/ HandleClient(t)
      PROVE  UNCHANGED <<signal, poolstop, joined, loopstop, gone, outcome>>
  BY <1>2 DEF ThreadStep, LockStep, HandleClient, TestStop, Block, RunTask, TestLoop,
              HandleWakeup, EnterWorker, EnterIO, PassLock, AddTask
<1> QED BY <1>1, <1>2

\* A step of the only handler keeps what is known of it.
LEMMA HandlerOneStep ==
  ASSUME TypeOK, OneHandler, host[2] = Nobody, HandlerStep(1)
  PROVE  OneHandler'
<1> USE DEF OneHandler, HandlerAt, HandlerGoto, AfterPool, TypeOK, HandlerStates, StopStates,
            DeleteStates, Pools, life, pools, loops, locks
<1>1. CASE CallStop(1)
  BY <1>1 DEF CallStop
<1>2. CASE TestPool(1)
  BY <1>2 DEF TestPool
<1>3. CASE SetStop(1)
  BY <1>3 DEF SetStop
<1>4. CASE NotifyAll(1)
  BY <1>4 DEF NotifyAll
<1>5. CASE JoinAll(1)
  BY <1>5 DEF JoinAll
<1>6. CASE JoinThrows(1)
  <2>1. Main \notin Members("work") /\ Main \notin Members("io") /\ Nobody \notin Threads
    BY ThreadsDistinct DEF Members, Threads
  <2>2. host[1] = Main /\ hpc[1] = "join" /\ hpc[2] = "none"
    BY <1>6 DEF JoinThrows
  <2> QED BY <1>6, <2>1, <2>2 DEF JoinThrows
<1>7. ASSUME NEW l \in Loops, StopLoop(1, l) PROVE OneHandler'
  BY <1>7 DEF StopLoop
<1>8. CASE EndLoops(1)
  BY <1>8 DEF EndLoops
<1>9. CASE Delete(1)
  BY <1>9 DEF Delete
<1>10. CASE DestroyPool(1)
  BY <1>10 DEF DestroyPool
<1>11. CASE DestroyThreads(1)
  <2>1. "work" \in joined /\ "io" \in joined
    BY <1>11 DEF DestroyThreads
  <2>2. ~Joinable(hpool[1])
    BY <2>1 DEF Joinable
  <2> QED BY <1>11, <2>1, <2>2 DEF DestroyThreads, AfterThreads
<1>12. CASE DestroyMembers(1)
  BY <1>12 DEF DestroyMembers
<1>13. CASE DestroyLoops(1)
  BY <1>13 DEF DestroyLoops
<1>14. CASE Exit(1)
  BY <1>14 DEF Exit, signal
<1> QED BY <1>1, <1>2, <1>3, <1>4, <1>5, <1>6, <1>7, <1>8, <1>9, <1>10, <1>11, <1>12,
           <1>13, <1>14 DEF HandlerStep

\* The second handler does not move before its signal.
LEMMA NoSecondHandler == ASSUME hpc[2] = "none", HandlerStep(2) PROVE FALSE
BY DEF HandlerStep, HandlerAt, CallStop, TestPool, SetStop, NotifyAll, JoinAll, JoinThrows,
       StopLoop, EndLoops, Delete, DestroyPool, DestroyThreads, DestroyMembers, DestroyLoops, Exit

\* With one handler nobody is left to use what is destroyed.
LEMMA NothingUsed ==
  ASSUME TypeOK, JoinedEnded, OneHandler, host[2] = Nobody
  PROVE  /\ \A t \in Threads : ~UseDestroyed(t)
         /\ \A h \in {1, 2} : ~HandlerUsesDestroyed(h)
<1>1. gone # {} => \A t \in Threads : tpc[t] = "exited"
  <2> SUFFICES ASSUME gone # {} PROVE Ended("work") /\ Ended("io")
    BY MembersThreads DEF Ended, Threads
  <2> QED BY DEF OneHandler, JoinedEnded
<1>2. \A t \in Threads : ~UseDestroyed(t)
  BY <1>1 DEF UseDestroyed
<1>3. HandlerUses(2) = {}
  BY DEF OneHandler, HandlerUses
<1>4. ASSUME NEW x \in HandlerUses(1), x \in gone PROVE FALSE
  BY <1>4 DEF OneHandler, HandlerUses, DeleteStates, TypeOK, Pools
<1> QED BY <1>2, <1>3, <1>4 DEF HandlerUsesDestroyed

\* Every step keeps it.
LEMMA OneHandlerStep == TypeOK /\ JoinedEnded /\ OneHandler /\ [Next]_vars => OneHandler'
<1> SUFFICES ASSUME TypeOK, JoinedEnded, OneHandler, [Next]_vars, host'[2] = Nobody
             PROVE  OneHandler'
  BY DEF OneHandler
<1>1. CASE MainStep \/ Accept \/ \E t \in Threads : ThreadStep(t) \/ LockStep(t) \/ HandleClient(t)
  <2>1. UNCHANGED <<signal, poolstop, joined, loopstop, gone, outcome>>
    BY <1>1, ThreadsKeepSignal
  <2> QED BY <2>1 DEF OneHandler, signal
<1>2. CASE FirstSignal
  BY <1>2, ThreadsDistinct DEF FirstSignal, OneHandler, TypeOK, DeleteStates, life, pools, loops, Pools
<1>3. CASE NestedSignal \/ \E t \in Targets : SecondSignal(t)
  <2>1. Main # Nobody /\ Nobody \notin Targets
    BY ThreadsDistinct, TargetsAreThreads
  <2> QED BY <1>3, <2>1 DEF NestedSignal, SecondSignal, TypeOK
<1>4. ASSUME NEW h \in {1, 2}, HandlerStep(h) PROVE OneHandler'
  <2>1. UNCHANGED host
    BY <1>4 DEF HandlerStep, CallStop, TestPool, SetStop, NotifyAll, JoinAll, JoinThrows,
                StopLoop, EndLoops, Delete, DestroyPool, DestroyThreads, DestroyMembers,
                DestroyLoops, Exit, signal
  <2>2. host[2] = Nobody /\ hpc[2] = "none"
    BY <2>1 DEF OneHandler
  <2>3. h = 1
    BY <1>4, <2>2, NoSecondHandler
  <2> QED BY <1>4, <2>2, <2>3, HandlerOneStep
<1>5. ASSUME (\E t \in Threads : UseDestroyed(t)) \/ (\E h \in {1, 2} : HandlerUsesDestroyed(h))
      PROVE  FALSE
  <2>1. UNCHANGED host
    BY <1>5, UndefinedEffect DEF signal
  <2> QED BY <1>5, <2>1, NothingUsed
<1>6. CASE UNCHANGED vars
  BY <1>6 DEF vars, OneHandler, life, pools, loops, signal
<1> QED BY <1>1, <1>2, <1>3, <1>4, <1>5, <1>6 DEF Next

-----------------------------------------------------------------------------
(* The theorems.                                                           *)

\* The invariant holds in every reachable state.
LEMMA Invariant == Spec => []IInv
<1>1. IInv /\ [Next]_vars => IInv'
  BY TypeStep, JoinedStep, DestroyedStep, OneHandlerStep DEF IInv
<1> QED BY InitIInv, <1>1, PTL DEF Spec

\* The variables have their types: from the start of main() to exit().
THEOREM TypeCorrect == Spec => []TypeOK
<1>1. IInv => TypeOK
  BY DEF IInv
<1> QED BY Invariant, <1>1, PTL

\* One signal: delete begins only when every thread of both pools was joined.
THEOREM DeletedAloneCorrect == Spec => []DeletedAlone
<1>1. IInv => DeletedAlone
  <2> SUFFICES ASSUME IInv, host[2] = Nobody, gone # {} PROVE Ended("work") /\ Ended("io")
    BY MembersThreads DEF DeletedAlone, Ended, Threads
  <2> QED BY DEF IInv, OneHandler, JoinedEnded
<1> QED BY Invariant, <1>1, PTL

\* Any signals: a m_threads that nobody joined ends the process before TcpServer's
\* members, the loops and the memory of the server go under its threads.
THEOREM JoinedBeforeFreedCorrect == Spec => []JoinedBeforeFreed
<1>1. IInv => JoinedBeforeFreed
  BY MembersThreads DEF IInv, DestroyedEnded, JoinedBeforeFreed, Ended, Threads
<1> QED BY Invariant, <1>1, PTL

\* With one signal the handler of echo.cpp joins everything before it deletes.
THEOREM OneSignalCorrect == Spec => []OneSignalIsClean
<1>1. IInv => OneSignalIsClean
  BY DEF IInv, OneSignalIsClean, OneHandler
<1> QED BY Invariant, <1>1, PTL

\* EchoServer::stop ends the workers before it tells a loop to stop.
THEOREM LoopsOutliveCorrect == Spec => []LoopsOutliveWorkers
<1>1. IInv => LoopsOutliveWorkers
  <2> SUFFICES ASSUME IInv, host[2] = Nobody, loopstop # {}, NEW w \in Workers
               PROVE  tpc[w] # "run"
    BY DEF LoopsOutliveWorkers
  <2>1. "work" \in joined
    BY DEF IInv, OneHandler
  <2> QED BY <2>1, MembersThreads DEF IInv, JoinedEnded, Ended
<1> QED BY Invariant, <1>1, PTL
=============================================================================
