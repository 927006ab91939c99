----------------------------- MODULE ThreadPool -----------------------------
(***************************************************************************)
(* Server/ThreadPool.{h,cpp}: worker threads that sleep on a condition     *)
(* variable, callers of addTask, and one caller of stop().                 *)
(*                                                                         *)
(* A worker is cut at every point where another thread can get in between: *)
(* the test of the while loop, the acquisition of m_mutex, the evaluation  *)
(* of the wait predicate, the moment the wait blocks, front(), pop(), and  *)
(* the task.  stop() writes m_stop WITHOUT m_mutex, so it can fall between *)
(* the predicate and the wait.                                             *)
(***************************************************************************)
EXTENDS Naturals, Sequences, FiniteSets

CONSTANTS Workers,  \* the threads of m_threads
          Tasks,    \* the tasks that callers may add, each by one addTask call
          NoTask    \* the empty std::function

ASSUME WorkersFinite == IsFiniteSet(Workers)
ASSUME TasksFinite == IsFiniteSet(Tasks)
ASSUME NoTaskIsNoTask == NoTask \notin Tasks

VARIABLES stop,     \* m_stop
          queue,    \* m_taskqueue
          wpc,      \* where each worker is in its loop (see WorkerStates)
          task,     \* the local variable task of each worker
          adding,   \* tasks pushed by an addTask that has not notified yet
          spc,      \* where the caller of stop() is
          taken,    \* history: the tasks popped, in order
          done      \* history: the tasks whose call has returned

vars == <<stop, queue, wpc, task, adding, spc, taken, done>>

(***************************************************************************)
(* "test"   at the while condition          "lock"   waiting for m_mutex   *)
(* "pred"   holds m_mutex, before the       "sleep"  holds m_mutex, found  *)
(*          wait predicate                           the predicate false   *)
(* "pop"    holds m_mutex, has moved        "run"    calling task()        *)
(*          front() into task               "asleep" blocked in m_cv.wait  *)
(* "exited" the thread function returned                                   *)
(***************************************************************************)
WorkerStates == {"test", "lock", "pred", "sleep", "pop", "asleep", "run", "exited"}

MutexFree == \A w \in Workers : wpc[w] \notin {"pred", "sleep", "pop"}
Sleepers  == {w \in Workers : wpc[w] = "asleep"}

Elements(s) == {s[i] : i \in 1 .. Len(s)}
Added       == Elements(taken) \cup Elements(queue)

Goto(w, pc) == wpc' = [wpc EXCEPT ![w] = pc]

Init ==
  /\ stop = FALSE
  /\ queue = << >>
  /\ wpc = [w \in Workers |-> "test"]
  /\ task = [w \in Workers |-> NoTask]
  /\ adding = {}
  /\ spc = "idle"
  /\ taken = << >>
  /\ done = {}

-----------------------------------------------------------------------------
(* The worker loop.                                                        *)

\* while (m_stop == false)
TestStop(w) ==
  /\ wpc[w] = "test"
  /\ Goto(w, IF stop THEN "exited" ELSE "lock")
  /\ UNCHANGED <<stop, queue, task, adding, spc, taken, done>>

\* Fault: no mutex is taken, so other threads get in between front() and pop().
LockNothing(w) ==
  /\ wpc[w] = "lock"
  /\ Goto(w, "pred")
  /\ UNCHANGED <<stop, queue, task, adding, spc, taken, done>>

\* The unique_lock, and the lock taken again when m_cv.wait wakes up.
Lock(w) ==
  /\ wpc[w] = "lock"
  /\ MutexFree
  /\ Goto(w, "pred")
  /\ UNCHANGED <<stop, queue, task, adding, spc, taken, done>>

\* Fault: the newest task is moved out, and pop() removes the oldest.
TakeBack(w) ==
  /\ wpc[w] = "pred"
  /\ queue # << >>
  /\ task' = [task EXCEPT ![w] = queue[Len(queue)]]
  /\ Goto(w, "pop")
  /\ UNCHANGED <<stop, queue, adding, spc, taken, done>>

\* The predicate is true because there is a task: it is moved out of the queue,
\* which keeps an empty std::function in its place until pop().
TakeFront(w) ==
  /\ wpc[w] = "pred"
  /\ queue # << >>
  /\ task' = [task EXCEPT ![w] = Head(queue)]
  /\ Goto(w, "pop")
  /\ UNCHANGED <<stop, queue, adding, spc, taken, done>>

\* pop(), and the end of the scope of the unique_lock.
Pop(w) ==
  /\ wpc[w] = "pop"
  /\ queue' = Tail(queue)
  /\ taken' = Append(taken, task[w])
  /\ Goto(w, "run")
  /\ UNCHANGED <<stop, task, adding, spc, done>>

\* The predicate is true because of m_stop, and there is no task: return.
ExitOnStop(w) ==
  /\ wpc[w] = "pred"
  /\ stop /\ queue = << >>
  /\ Goto(w, "exited")
  /\ UNCHANGED <<stop, queue, task, adding, spc, taken, done>>

\* The predicate is false; the wait has not blocked yet.
FindNothing(w) ==
  /\ wpc[w] = "pred"
  /\ ~stop /\ queue = << >>
  /\ Goto(w, "sleep")
  /\ UNCHANGED <<stop, queue, task, adding, spc, taken, done>>

\* The wait releases m_mutex and blocks, in one step.
Block(w) ==
  /\ wpc[w] = "sleep"
  /\ Goto(w, "asleep")
  /\ UNCHANGED <<stop, queue, task, adding, spc, taken, done>>

\* A condition variable may wake up for no reason.
SpuriousWake(w) ==
  /\ wpc[w] = "asleep"
  /\ Goto(w, "lock")
  /\ UNCHANGED <<stop, queue, task, adding, spc, taken, done>>

\* Fault: the thread calls its task although it popped none.
RunWithoutTask(w) ==
  /\ wpc[w] \in {"run", "pred"}
  /\ done' = done \cup {task[w]}
  /\ task' = [task EXCEPT ![w] = NoTask]
  /\ Goto(w, "test")
  /\ UNCHANGED <<stop, queue, adding, spc, taken>>

\* task() returns.
RunTask(w) ==
  /\ wpc[w] = "run"
  /\ done' = done \cup {task[w]}
  /\ task' = [task EXCEPT ![w] = NoTask]
  /\ Goto(w, "test")
  /\ UNCHANGED <<stop, queue, adding, spc, taken>>

-----------------------------------------------------------------------------
(* addTask: push under m_mutex, then notify without it.                    *)

AddTask(t) ==
  /\ t \notin Added
  /\ MutexFree
  /\ queue' = Append(queue, t)
  /\ adding' = adding \cup {t}
  /\ UNCHANGED <<stop, wpc, task, spc, taken, done>>

\* Fault: addTask notifies only when the task it pushed is the only one.
NotifyIfFirst(t) ==
  /\ t \in adding
  /\ adding' = adding \ {t}
  /\ IF Sleepers = {} \/ Len(queue) # 1
     THEN UNCHANGED wpc
     ELSE \E w \in Sleepers : Goto(w, "lock")
  /\ UNCHANGED <<stop, queue, task, spc, taken, done>>

\* Fault: addTask does not notify.
NotifyNobody(t) ==
  /\ t \in adding
  /\ adding' = adding \ {t}
  /\ UNCHANGED <<stop, queue, wpc, task, spc, taken, done>>

NotifyOne(t) ==
  /\ t \in adding
  /\ adding' = adding \ {t}
  /\ IF Sleepers = {} THEN UNCHANGED wpc ELSE \E w \in Sleepers : Goto(w, "lock")
  /\ UNCHANGED <<stop, queue, task, spc, taken, done>>

-----------------------------------------------------------------------------
(* stop(): set the flag, notify everybody, join every thread.              *)

SetStop ==
  /\ spc = "idle"
  /\ stop' = TRUE
  /\ spc' = "notify"
  /\ UNCHANGED <<queue, wpc, task, adding, taken, done>>

\* Fault: stop() wakes one thread only.
NotifyOneOnStop ==
  /\ spc = "notify"
  /\ IF Sleepers = {} THEN UNCHANGED wpc ELSE \E w \in Sleepers : Goto(w, "lock")
  /\ spc' = "join"
  /\ UNCHANGED <<stop, queue, task, adding, taken, done>>

NotifyAll ==
  /\ spc = "notify"
  /\ wpc' = [w \in Workers |-> IF w \in Sleepers THEN "lock" ELSE wpc[w]]
  /\ spc' = "join"
  /\ UNCHANGED <<stop, queue, task, adding, taken, done>>

\* Fault: stop() joins one thread and forgets the others.
JoinFirst ==
  /\ spc = "join"
  /\ \E w \in Workers : wpc[w] = "exited"
  /\ spc' = "stopped"
  /\ UNCHANGED <<stop, queue, wpc, task, adding, taken, done>>

JoinAll ==
  /\ spc = "join"
  /\ \A w \in Workers : wpc[w] = "exited"
  /\ spc' = "stopped"
  /\ UNCHANGED <<stop, queue, wpc, task, adding, taken, done>>

-----------------------------------------------------------------------------
WorkerStep(w) ==
  \/ TestStop(w) \/ TakeFront(w) \/ Pop(w) \/ ExitOnStop(w)
  \/ FindNothing(w) \/ Block(w) \/ RunTask(w)

Next ==
  \/ \E w \in Workers : WorkerStep(w) \/ Lock(w) \/ SpuriousWake(w)
  \/ \E t \in Tasks : AddTask(t) \/ NotifyOne(t)
  \/ SetStop \/ NotifyAll \/ JoinAll

Spec == Init /\ [][Next]_vars

(***************************************************************************)
(* Every thread that can run is eventually scheduled, tasks return, and a  *)
(* worker that again and again finds m_mutex free gets it.  Nobody has to  *)
(* call addTask or stop(), and no spurious wakeup has to happen.           *)
(***************************************************************************)
Fairness ==
  /\ \A w \in Workers : WF_vars(WorkerStep(w)) /\ SF_vars(Lock(w))
  /\ \A t \in Tasks : WF_vars(NotifyOne(t))
  /\ WF_vars(NotifyAll) /\ WF_vars(JoinAll)

FairSpec == Spec /\ Fairness

-----------------------------------------------------------------------------
(* Properties.                                                             *)

(***************************************************************************)
(* Types; in particular what is called was once pushed.                    *)
(***************************************************************************)
TypeOK ==
  /\ stop \in BOOLEAN
  /\ queue \in Seq(Tasks)
  /\ wpc \in [Workers -> WorkerStates]
  /\ task \in [Workers -> Tasks \cup {NoTask}]
  /\ adding \in SUBSET Tasks
  /\ spc \in {"idle", "notify", "join", "stopped"}
  /\ taken \in Seq(Tasks)
  /\ done \in SUBSET Tasks

(***************************************************************************)
(* A task that addTask accepted is called at most once: while a worker     *)
(* calls it no other worker has it, and it is neither in the queue nor     *)
(* done.  front() and pop() are two steps (lines 30-31): it is m_mutex     *)
(* that keeps two workers from the same front().                           *)
(***************************************************************************)
RunOnce ==
  \A w \in Workers : wpc[w] = "run" =>
    /\ task[w] \notin done \cup Elements(queue)
    /\ \A v \in Workers \ {w} : task[v] # task[w]

(***************************************************************************)
(* notify_one wakes enough threads: unless stop() was called, a worker     *)
(* sleeps only if every queued task has a worker of its own on the way to  *)
(* the queue, or a caller of addTask about to notify.                      *)
(***************************************************************************)
Awake == {w \in Workers : wpc[w] \in {"test", "lock", "pred", "pop"}}

NoIdleSleeper ==
  ~stop /\ Sleepers # {} => Len(queue) <= Cardinality(adding) + Cardinality(Awake)

(***************************************************************************)
(* When stop() has returned, every task that was started has also          *)
(* returned, so the owner may destroy what the tasks refer to (lines       *)
(* 56-64; the destructor and EchoServer::stop rely on it).                 *)
(***************************************************************************)
StopWaitsForTasks == spc = "stopped" => done = Elements(taken)

(***************************************************************************)
(* The pool implements the abstract queue: tasks start in the order in     *)
(* which they were pushed, none twice.                                     *)
(***************************************************************************)
TQ == INSTANCE TaskQueue WITH pending <- queue, started <- taken

ImplementsTaskQueue == TQ!TQSpec

(***************************************************************************)
(* Every task that was pushed is called and returns, unless the pool is    *)
(* stopped: no wakeup of the condition variable is lost between addTask's  *)
(* push and its notify_one.                                                *)
(***************************************************************************)
EveryTaskRuns == \A t \in Tasks : t \in Added ~> (t \in done \/ stop)

(***************************************************************************)
(* stop() returns, provided no worker was between its wait predicate and   *)
(* its wait when m_stop was written: that window is the only obstacle.     *)
(***************************************************************************)
StopReturnsOutsideWindow ==
  (spc = "notify" /\ \A w \in Workers : wpc[w] # "sleep") ~> spc = "stopped"

(***************************************************************************)
(* ThreadPool.cpp:27 says that a thread may exit only when the queue holds *)
(* no task.                                                                *)
(***************************************************************************)
ExitOnlyWhenDrained ==
  [][\A w \in Workers :
       wpc[w] # "exited" /\ wpc'[w] = "exited" => queue = << >>]_vars
=============================================================================
