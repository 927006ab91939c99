------------------------------ MODULE EventLoop ------------------------------
(***************************************************************************)
(* Server/EventLoop.{h,cpp} with Epoll::loop: one thread that waits in     *)
(* epoll_wait and dispatches the channels it reports, other threads that   *)
(* post tasks to it (addTasktoqueue) and one that stops it (stopLoop).     *)
(*                                                                         *)
(* A post is two steps, the push under m_mutex and the write to the        *)
(* eventfd without it, and so is handleWakeup, which reads the eventfd     *)
(* before it takes m_mutex; anything may happen in between.                *)
(***************************************************************************)
EXTENDS Naturals, Sequences, FiniteSets

CONSTANTS Wakeup,     \* m_wakeupchannel
          Timer,      \* m_timerchannel
          Conns,      \* the channels of connections (or of the acceptor)
          Tasks,      \* the tasks that may be posted, each by its own thread
          MaxEvents,  \* the size of Epoll::m_events
          Timeout     \* does runLoop have a timeout, that is, not -1

ASSUME ChannelsDistinct == Wakeup # Timer /\ {Wakeup, Timer} \cap Conns = {}
ASSUME SetsFinite == IsFiniteSet(Conns) /\ IsFiniteSet(Tasks)
ASSUME MaxEventsPositive == MaxEvents \in Nat \ {0}
ASSUME TimeoutIsFlag == Timeout \in BOOLEAN

VARIABLES stop,      \* m_stop
          queue,     \* m_taskqueue
          eventfd,   \* the counter of m_eventfd
          timer,     \* m_timerfd: counting down, or expired and readable
          sockready, \* the other channels with an event epoll has not reported
          batch,     \* the channels reported and not yet dispatched
          pc,        \* where the loop thread is (see LoopStates)
          posting,   \* tasks pushed whose thread has not called wakeUp yet
          spc,       \* where the caller of stopLoop() is
          executed   \* history: the tasks called, in order

vars == <<stop, queue, eventfd, timer, sockready, batch, pc, posting, spc, executed>>

Channels == {Wakeup, Timer} \cup Conns

(***************************************************************************)
(* "test"     at the while condition     "wait"   in epoll_wait            *)
(* "dispatch" in the loop over chs       "lock"   in handleWakeup, has     *)
(*                                                read the eventfd         *)
(* "drain"    in handleWakeup, holds     "exited" runLoop returned         *)
(*            m_mutex                                                      *)
(***************************************************************************)
LoopStates == {"test", "wait", "dispatch", "lock", "drain", "exited"}

MutexFree == pc # "drain"

Elements(s) == {s[i] : i \in 1 .. Len(s)}
Posted      == Elements(queue) \cup Elements(executed)

\* Both channels of the loop itself are level-triggered.
Ready ==
  {ch \in Channels : \/ ch = Wakeup /\ eventfd > 0
                     \/ ch = Timer /\ timer = "fired"
                     \/ ch \in sockready}

Init ==
  /\ stop = FALSE
  /\ queue = << >>
  /\ eventfd = 0
  /\ timer = "armed"
  /\ sockready = {}
  /\ batch = {}
  /\ pc = "test"
  /\ posting = {}
  /\ spc = "idle"
  /\ executed = << >>

-----------------------------------------------------------------------------
(* The loop thread.                                                        *)

\* while (!m_stop)
TestStop ==
  /\ pc = "test"
  /\ pc' = IF stop THEN "exited" ELSE "wait"
  /\ UNCHANGED <<stop, queue, eventfd, timer, sockready, batch, posting, spc, executed>>

\* epoll_wait reports what is ready, at most MaxEvents channels of it.
EpollWait ==
  /\ pc = "wait"
  /\ Ready # {}
  /\ \E b \in SUBSET Ready :
       /\ Cardinality(b) <= MaxEvents
       /\ b # Ready => Cardinality(b) = MaxEvents
       /\ batch' = b
       /\ sockready' = sockready \ b
  /\ pc' = "dispatch"
  /\ UNCHANGED <<stop, queue, eventfd, timer, posting, spc, executed>>

\* epoll_wait reports nothing: m_epollwaitTimeout is called.
EpollTimeout ==
  /\ Timeout
  /\ pc = "wait"
  /\ Ready = {}
  /\ pc' = "test"
  /\ UNCHANGED <<stop, queue, eventfd, timer, sockready, batch, posting, spc, executed>>

\* The handler of a connection or of the acceptor returns.
HandleSocket(ch) ==
  /\ pc = "dispatch"
  /\ ch \in batch \cap Conns
  /\ batch' = batch \ {ch}
  /\ UNCHANGED <<stop, queue, eventfd, timer, sockready, pc, posting, spc, executed>>

\* Fault: handleTimer reads the expired one-shot timer but does not re-arm it.
HandleTimerNoRearm ==
  /\ pc = "dispatch"
  /\ Timer \in batch
  /\ batch' = batch \ {Timer}
  /\ timer' = "off"
  /\ UNCHANGED <<stop, queue, eventfd, sockready, pc, posting, spc, executed>>

\* handleTimer re-arms the one-shot timer, which makes it unreadable again.
HandleTimer ==
  /\ pc = "dispatch"
  /\ Timer \in batch
  /\ batch' = batch \ {Timer}
  /\ timer' = "armed"
  /\ UNCHANGED <<stop, queue, eventfd, sockready, pc, posting, spc, executed>>

\* Fault: the eventfd is never read.
WakeupWithoutRead ==
  /\ pc = "dispatch"
  /\ Wakeup \in batch
  /\ batch' = batch \ {Wakeup}
  /\ pc' = "lock"
  /\ UNCHANGED <<stop, queue, eventfd, timer, sockready, posting, spc, executed>>

\* handleWakeup begins: the read empties the counter.
HandleWakeup ==
  /\ pc = "dispatch"
  /\ Wakeup \in batch
  /\ batch' = batch \ {Wakeup}
  /\ eventfd' = 0
  /\ pc' = "lock"
  /\ UNCHANGED <<stop, queue, timer, sockready, posting, spc, executed>>

Lock ==
  /\ pc = "lock"
  /\ pc' = "drain"
  /\ UNCHANGED <<stop, queue, eventfd, timer, sockready, batch, posting, spc, executed>>

\* Fault: the newest task is called first.
RunNewest ==
  /\ pc = "drain"
  /\ queue # << >>
  /\ queue' = SubSeq(queue, 1, Len(queue) - 1)
  /\ executed' = Append(executed, queue[Len(queue)])
  /\ UNCHANGED <<stop, eventfd, timer, sockready, batch, pc, posting, spc>>

\* Fault: handleWakeup calls one task, as if each post were a wakeup.
RunOneTask ==
  /\ pc = "drain"
  /\ queue # << >>
  /\ queue' = Tail(queue)
  /\ executed' = Append(executed, Head(queue))
  /\ pc' = "dispatch"
  /\ UNCHANGED <<stop, eventfd, timer, sockready, batch, posting, spc>>

\* The oldest task is popped and called, m_mutex still held.
RunTask ==
  /\ pc = "drain"
  /\ queue # << >>
  /\ queue' = Tail(queue)
  /\ executed' = Append(executed, Head(queue))
  /\ UNCHANGED <<stop, eventfd, timer, sockready, batch, pc, posting, spc>>

\* handleWakeup returns and releases m_mutex once the queue is empty.
Unlock ==
  /\ pc = "drain"
  /\ queue = << >>
  /\ pc' = "dispatch"
  /\ UNCHANGED <<stop, queue, eventfd, timer, sockready, batch, posting, spc, executed>>

\* Fault: the loop goes on without testing m_stop while channels are ready.
EndBatchWhileReady ==
  /\ pc = "dispatch"
  /\ batch = {}
  /\ pc' = IF Ready # {} THEN "wait" ELSE "test"
  /\ UNCHANGED <<stop, queue, eventfd, timer, sockready, batch, posting, spc, executed>>

\* The loop over chs ends.
EndBatch ==
  /\ pc = "dispatch"
  /\ batch = {}
  /\ pc' = "test"
  /\ UNCHANGED <<stop, queue, eventfd, timer, sockready, batch, posting, spc, executed>>

-----------------------------------------------------------------------------
(* The other threads and the kernel.                                       *)

\* addTasktoqueue: the push, under m_mutex.
Post(t) ==
  /\ t \notin Posted
  /\ MutexFree
  /\ queue' = Append(queue, t)
  /\ posting' = posting \cup {t}
  /\ UNCHANGED <<stop, eventfd, timer, sockready, batch, pc, spc, executed>>

\* Fault: only the thread that finds one task in the queue wakes the loop up.
WakeUpIfFirst(t) ==
  /\ t \in posting
  /\ posting' = posting \ {t}
  /\ eventfd' = IF Len(queue) = 1 THEN eventfd + 1 ELSE eventfd
  /\ UNCHANGED <<stop, queue, timer, sockready, batch, pc, spc, executed>>

\* addTasktoqueue: wakeUp, after m_mutex was released.
WakeUp(t) ==
  /\ t \in posting
  /\ posting' = posting \ {t}
  /\ eventfd' = eventfd + 1
  /\ UNCHANGED <<stop, queue, timer, sockready, batch, pc, spc, executed>>

StopFlag ==
  /\ spc = "idle"
  /\ stop' = TRUE
  /\ spc' = "wake"
  /\ UNCHANGED <<queue, eventfd, timer, sockready, batch, pc, posting, executed>>

\* Fault: stopLoop does not wake the loop up.
StopNoWake ==
  /\ spc = "wake"
  /\ spc' = "done"
  /\ UNCHANGED <<stop, queue, eventfd, timer, sockready, batch, pc, posting, executed>>

StopWake ==
  /\ spc = "wake"
  /\ eventfd' = eventfd + 1
  /\ spc' = "done"
  /\ UNCHANGED <<stop, queue, timer, sockready, batch, pc, posting, executed>>

TimerFires ==
  /\ timer = "armed"
  /\ timer' = "fired"
  /\ UNCHANGED <<stop, queue, eventfd, sockready, batch, pc, posting, spc, executed>>

SocketEvent(ch) ==
  /\ ch \in Conns \ sockready
  /\ sockready' = sockready \cup {ch}
  /\ UNCHANGED <<stop, queue, eventfd, timer, batch, pc, posting, spc, executed>>

-----------------------------------------------------------------------------
LoopStep ==
  \/ TestStop \/ EpollWait \/ HandleTimer \/ HandleWakeup \/ Lock
  \/ RunTask \/ Unlock \/ EndBatch
  \/ \E ch \in Conns : HandleSocket(ch)

Next ==
  \/ LoopStep \/ EpollTimeout
  \/ \E t \in Tasks : Post(t) \/ WakeUp(t)
  \/ StopFlag \/ StopWake
  \/ TimerFires \/ \E ch \in Conns : SocketEvent(ch)

Spec == Init /\ [][Next]_vars

(***************************************************************************)
(* Threads are scheduled, handlers and tasks return and an armed timer     *)
(* expires.  When more than MaxEvents channels are ready, epoll moves the  *)
(* level-triggered ones it reported to the tail of its ready list, so each *)
(* of them is reported again and again.  No client has to send anything,   *)
(* nobody has to post or to stop the loop, and no wait has to time out.    *)
(***************************************************************************)
Fairness ==
  /\ WF_vars(LoopStep)
  /\ SF_vars(EpollWait /\ Wakeup \in batch')
  /\ SF_vars(EpollWait /\ Timer \in batch')
  /\ \A t \in Tasks : WF_vars(WakeUp(t))
  /\ WF_vars(StopWake)
  /\ WF_vars(TimerFires)

FairSpec == Spec /\ Fairness

-----------------------------------------------------------------------------
(* Properties.                                                             *)

TypeOK ==
  /\ stop \in BOOLEAN
  /\ queue \in Seq(Tasks)
  /\ eventfd \in Nat
  /\ timer \in {"armed", "fired"}
  /\ sockready \in SUBSET Conns
  /\ batch \in SUBSET Channels
  /\ pc \in LoopStates
  /\ posting \in SUBSET Tasks
  /\ spc \in {"idle", "wake", "done"}
  /\ executed \in Seq(Tasks)

(***************************************************************************)
(* No wakeup is lost between the two steps of a post and the two steps of  *)
(* handleWakeup: whenever a task is queued, the eventfd is readable, or    *)
(* its counter is still to be raised, or the loop is about to drain the    *)
(* queue (lines 73-101).                                                   *)
(***************************************************************************)
NoLostWakeup ==
  queue # << >> => eventfd > 0 \/ posting # {} \/ pc \in {"lock", "drain"}

(***************************************************************************)
(* stopLoop cannot leave the loop asleep: m_stop is set before the wakeup, *)
(* so once stopLoop has returned the loop is in epoll_wait only with the   *)
(* eventfd readable, even if handleWakeup has already consumed the write   *)
(* of stopLoop together with the write of a post (lines 37, 52-56, 92).    *)
(***************************************************************************)
StopInterruptsWait == spc = "done" /\ pc = "wait" => eventfd > 0

(***************************************************************************)
(* The loop implements the abstract queue: tasks are called once, in the   *)
(* order in which they were posted, whichever thread posted them.          *)
(***************************************************************************)
TQ == INSTANCE TaskQueue WITH pending <- queue, started <- executed

ImplementsTaskQueue == TQ!TQSpec

(***************************************************************************)
(* A posted task is called, however busy the sockets are, unless the loop  *)
(* is stopped.                                                             *)
(***************************************************************************)
PostedRuns == \A t \in Tasks : t \in Elements(queue) ~> (t \in Elements(executed) \/ stop)

(***************************************************************************)
(* stopLoop ends the loop wherever it is and however busy the sockets are  *)
(* (lines 37-48).                                                          *)
(***************************************************************************)
StopEndsLoop == stop ~> pc = "exited"

(***************************************************************************)
(* The one-shot timer keeps firing for as long as the loop runs (line 109).*)
(***************************************************************************)
TimerKeepsFiring == <>stop \/ ([]<>(timer = "fired") /\ []<>(timer = "armed"))

(***************************************************************************)
(* The level-triggered eventfd does not make the loop spin: when posting   *)
(* has ended, the counter becomes 0 and stays 0 (line 92).                 *)
(***************************************************************************)
WakeupsSubside == <>(stop \/ [](eventfd = 0))
=============================================================================
