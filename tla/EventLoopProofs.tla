--------------------------- MODULE EventLoopProofs ---------------------------
(***************************************************************************)
(* Proofs about EventLoop for any sets of connections and tasks, any       *)
(* MaxEvents, and with or without a timeout of epoll_wait.                 *)
(***************************************************************************)
EXTENDS EventLoop, TLAPS

(***************************************************************************)
(* The inductive invariant.  NoLostWakeup is inductive on its own.  That   *)
(* stopLoop interrupts the wait also needs that m_stop is set before the   *)
(* wakeup: the loop then enters epoll_wait only while spc is still "idle". *)
(***************************************************************************)
FlagFirst == spc # "idle" => stop

IInv == TypeOK /\ NoLostWakeup /\ FlagFirst /\ StopInterruptsWait

\* The initial state has no task, no wakeup and no stop.
LEMMA InitIInv == Init => IInv
<1> SUFFICES ASSUME Init PROVE IInv
  OBVIOUS
<1>1. queue \in Seq(Tasks) /\ executed \in Seq(Tasks)
  BY DEF Init
<1>2. TypeOK
  BY <1>1 DEF Init, TypeOK, LoopStates
<1> QED BY <1>2 DEF Init, IInv, NoLostWakeup, FlagFirst, StopInterruptsWait

\* Every step keeps the types.
LEMMA TypeStep == TypeOK /\ [Next]_vars => TypeOK'
<1> SUFFICES ASSUME TypeOK, [Next]_vars PROVE TypeOK'
  OBVIOUS
<1> USE DEF TypeOK, LoopStates
<1>1. CASE TestStop
  BY <1>1 DEF TestStop
<1>2. CASE EpollWait
  BY <1>2 DEF EpollWait, Ready
<1>3. CASE EpollTimeout
  BY <1>3 DEF EpollTimeout
<1>4. CASE HandleTimer
  BY <1>4 DEF HandleTimer
<1>5. CASE HandleWakeup
  BY <1>5 DEF HandleWakeup
<1>6. CASE Lock
  BY <1>6 DEF Lock
<1>7. CASE RunTask
  <2>1. Head(queue) \in Tasks /\ Tail(queue) \in Seq(Tasks)
    BY <1>7 DEF RunTask
  <2> QED BY <1>7, <2>1 DEF RunTask
<1>8. CASE Unlock
  BY <1>8 DEF Unlock
<1>9. CASE EndBatch
  BY <1>9 DEF EndBatch
<1>10. ASSUME NEW ch \in Conns, HandleSocket(ch) \/ SocketEvent(ch) PROVE TypeOK'
  BY <1>10 DEF HandleSocket, SocketEvent
<1>11. ASSUME NEW t \in Tasks, Post(t) PROVE TypeOK'
  BY <1>11 DEF Post
<1>12. ASSUME NEW t \in Tasks, WakeUp(t) PROVE TypeOK'
  BY <1>12 DEF WakeUp
<1>13. CASE StopFlag
  BY <1>13 DEF StopFlag
<1>14. CASE StopWake
  BY <1>14 DEF StopWake
<1>15. CASE TimerFires
  BY <1>15 DEF TimerFires
<1>16. CASE UNCHANGED vars
  BY <1>16 DEF vars
<1> QED
  BY <1>1, <1>2, <1>3, <1>4, <1>5, <1>6, <1>7, <1>8, <1>9, <1>10, <1>11, <1>12,
     <1>13, <1>14, <1>15, <1>16 DEF Next, LoopStep

\* A push leaves its caller to wake the loop up, a read of the eventfd leaves
\* the loop to drain the queue, and the drain ends on an empty queue.
LEMMA WakeupStep == TypeOK /\ NoLostWakeup /\ [Next]_vars => NoLostWakeup'
<1> SUFFICES ASSUME TypeOK, NoLostWakeup, [Next]_vars PROVE NoLostWakeup'
  OBVIOUS
<1> USE DEF TypeOK, NoLostWakeup
<1>1. CASE TestStop \/ EpollWait \/ EpollTimeout \/ HandleTimer \/ EndBatch
  BY <1>1 DEF TestStop, EpollWait, EpollTimeout, HandleTimer, EndBatch
<1>2. CASE HandleWakeup \/ Lock
  BY <1>2 DEF HandleWakeup, Lock
<1>3. CASE RunTask \/ Unlock
  BY <1>3 DEF RunTask, Unlock
<1>4. ASSUME NEW ch \in Conns, HandleSocket(ch) \/ SocketEvent(ch) PROVE NoLostWakeup'
  BY <1>4 DEF HandleSocket, SocketEvent
<1>5. ASSUME NEW t \in Tasks, Post(t) \/ WakeUp(t) PROVE NoLostWakeup'
  <2>1. CASE Post(t)
    BY <2>1 DEF Post
  <2>2. CASE WakeUp(t)
    <3>1. eventfd' > 0
      BY <2>2 DEF WakeUp
    <3> QED BY <3>1
  <2> QED BY <1>5, <2>1, <2>2
<1>6. CASE StopFlag \/ StopWake \/ TimerFires
  BY <1>6 DEF StopFlag, StopWake, TimerFires
<1>7. CASE UNCHANGED vars
  BY <1>7 DEF vars
<1> QED BY <1>1, <1>2, <1>3, <1>4, <1>5, <1>6, <1>7 DEF Next, LoopStep

\* Only TestStop enters the wait and only with m_stop unset; only
\* handleWakeup empties the eventfd, and it is then not in the wait.
LEMMA StopStep ==
  TypeOK /\ FlagFirst /\ StopInterruptsWait /\ [Next]_vars
    => FlagFirst' /\ StopInterruptsWait'
<1> SUFFICES ASSUME TypeOK, FlagFirst, StopInterruptsWait, [Next]_vars
             PROVE  FlagFirst' /\ StopInterruptsWait'
  OBVIOUS
<1> USE DEF TypeOK, FlagFirst, StopInterruptsWait
<1>1. CASE TestStop
  BY <1>1 DEF TestStop
<1>2. CASE EpollWait \/ EpollTimeout \/ HandleTimer \/ EndBatch
  BY <1>2 DEF EpollWait, EpollTimeout, HandleTimer, EndBatch
<1>3. CASE HandleWakeup \/ Lock \/ RunTask \/ Unlock
  BY <1>3 DEF HandleWakeup, Lock, RunTask, Unlock
<1>4. ASSUME NEW ch \in Conns, HandleSocket(ch) \/ SocketEvent(ch)
      PROVE  FlagFirst' /\ StopInterruptsWait'
  BY <1>4 DEF HandleSocket, SocketEvent
<1>5. ASSUME NEW t \in Tasks, Post(t) \/ WakeUp(t)
      PROVE  FlagFirst' /\ StopInterruptsWait'
  BY <1>5 DEF Post, WakeUp
<1>6. CASE StopFlag \/ StopWake \/ TimerFires
  BY <1>6 DEF StopFlag, StopWake, TimerFires
<1>7. CASE UNCHANGED vars
  BY <1>7 DEF vars
<1> QED BY <1>1, <1>2, <1>3, <1>4, <1>5, <1>6, <1>7 DEF Next, LoopStep

\* The invariant is inductive.
THEOREM Invariance == Spec => []IInv
<1>1. IInv /\ [Next]_vars => IInv'
  BY TypeStep, WakeupStep, StopStep DEF IInv
<1> QED BY InitIInv, <1>1, PTL DEF Spec

-----------------------------------------------------------------------------
(***************************************************************************)
(* Type correctness of the loop; the timer is always armed or expired.     *)
(***************************************************************************)
THEOREM TypeCorrect == Spec => []TypeOK
<1>1. IInv => TypeOK
  BY DEF IInv
<1> QED BY <1>1, Invariance, PTL

(***************************************************************************)
(* addTasktoqueue and handleWakeup lose no wakeup, for any number of       *)
(* posting threads.                                                        *)
(***************************************************************************)
THEOREM NoLostWakeupCorrect == Spec => []NoLostWakeup
<1>1. IInv => NoLostWakeup
  BY DEF IInv
<1> QED BY <1>1, Invariance, PTL

(***************************************************************************)
(* After stopLoop has returned, epoll_wait cannot block.                   *)
(***************************************************************************)
THEOREM StopInterruptsCorrect == Spec => []StopInterruptsWait
<1>1. IInv => StopInterruptsWait
  BY DEF IInv
<1> QED BY <1>1, Invariance, PTL

(***************************************************************************)
(* The loop is a task queue: the push of addTasktoqueue is Post, a pop in  *)
(* handleWakeup is Start, and nothing else touches the queue.              *)
(***************************************************************************)
THEOREM Refinement == Spec => ImplementsTaskQueue
<1>1. Init => TQ!TQInit
  BY DEF Init, TQ!TQInit
<1>2. ASSUME [Next]_vars PROVE [TQ!TQNext]_(TQ!tqvars)
  <2> USE DEF TQ!tqvars
  <2>1. CASE RunTask
    BY <2>1 DEF RunTask, TQ!Start, TQ!TQNext
  <2>2. ASSUME NEW t \in Tasks, Post(t) PROVE TQ!TQNext
    BY <2>2 DEF Post, Posted, Elements, TQ!Post, TQ!Members, TQ!TQNext
  <2>3. CASE TestStop \/ EpollWait \/ EpollTimeout \/ HandleTimer \/ HandleWakeup
               \/ Lock \/ Unlock \/ EndBatch
    BY <2>3 DEF TestStop, EpollWait, EpollTimeout, HandleTimer, HandleWakeup, Lock,
                Unlock, EndBatch
  <2>4. ASSUME NEW ch \in Conns, HandleSocket(ch) \/ SocketEvent(ch)
        PROVE  UNCHANGED <<queue, executed>>
    BY <2>4 DEF HandleSocket, SocketEvent
  <2>5. ASSUME NEW t \in Tasks, WakeUp(t) PROVE UNCHANGED <<queue, executed>>
    BY <2>5 DEF WakeUp
  <2>6. CASE StopFlag \/ StopWake \/ TimerFires \/ UNCHANGED vars
    BY <2>6 DEF StopFlag, StopWake, TimerFires, vars
  <2> QED BY <1>2, <2>1, <2>2, <2>3, <2>4, <2>5, <2>6 DEF Next, LoopStep
<1> QED BY <1>1, <1>2, PTL DEF Spec, ImplementsTaskQueue, TQ!TQSpec
=============================================================================
