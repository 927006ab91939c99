-------------------------- MODULE ThreadPoolProofs --------------------------
(***************************************************************************)
(* Proofs about ThreadPool for any finite sets of workers and tasks.       *)
(***************************************************************************)
EXTENDS ThreadPool, FiniteSetTheorems, TLAPS

(***************************************************************************)
(* The inductive invariant.  It adds to the properties of ThreadPool       *)
(*  - that m_mutex excludes, so that a worker about to block still sees an *)
(*    empty queue, and one about to pop the task it took (LockInv);        *)
(*  - where every pushed task is: the queue, a worker or done (TaskInv).   *)
(***************************************************************************)
LockInv ==
  /\ \A v, w \in Workers :
       wpc[v] \in {"pred", "sleep", "pop"} /\ wpc[w] \in {"pred", "sleep", "pop"} => v = w
  /\ \A w \in Workers :
       /\ wpc[w] = "sleep" => queue = << >>
       /\ wpc[w] = "pop" => queue # << >> /\ task[w] = Head(queue)

Running == {w \in Workers : wpc[w] = "run"}

TaskInv ==
  /\ \A w \in Workers : task[w] # NoTask <=> wpc[w] \in {"pop", "run"}
  /\ \A i, j \in 1 .. Len(queue) : queue[i] = queue[j] => i = j
  /\ Elements(queue) \cap Elements(taken) = {}
  /\ \A v, w \in Workers : task[v] # NoTask /\ task[v] = task[w] => v = w
  /\ \A w \in Workers : wpc[w] = "run" => task[w] \in Elements(taken) \ done
  /\ done \subseteq Elements(taken)
  /\ Elements(taken) \subseteq done \cup {task[w] : w \in Running}
  /\ adding \subseteq Added

JoinInv == spc = "stopped" => \A w \in Workers : wpc[w] = "exited"

IInv == TypeOK /\ LockInv /\ TaskInv /\ NoIdleSleeper /\ JoinInv

-----------------------------------------------------------------------------
(* Facts about sequences and about the sets the invariant counts.          *)

\* Pushing adds one element to the set of elements of a queue.
LEMMA ElementsAppend ==
  ASSUME NEW S, NEW s \in Seq(S), NEW e \in S
  PROVE  Elements(Append(s, e)) = Elements(s) \cup {e}
<1>1. /\ Len(Append(s, e)) = Len(s) + 1
      /\ Append(s, e)[Len(s) + 1] = e
      /\ \A i \in 1 .. Len(s) : Append(s, e)[i] = s[i]
  OBVIOUS
<1>2. Elements(Append(s, e)) \subseteq Elements(s) \cup {e}
  BY <1>1 DEF Elements
<1>3. Elements(s) \cup {e} \subseteq Elements(Append(s, e))
  BY <1>1 DEF Elements
<1> QED BY <1>2, <1>3

\* Popping splits the elements into the head and the rest.
LEMMA ElementsTail ==
  ASSUME NEW S, NEW s \in Seq(S), s # << >>
  PROVE  Elements(s) = Elements(Tail(s)) \cup {Head(s)}
<1>1. /\ Len(Tail(s)) = Len(s) - 1
      /\ Head(s) = s[1]
      /\ \A i \in 1 .. Len(Tail(s)) : Tail(s)[i] = s[i + 1]
      /\ Len(s) \in Nat \ {0}
  OBVIOUS
<1>2. Elements(s) \subseteq Elements(Tail(s)) \cup {Head(s)}
  <2> SUFFICES ASSUME NEW i \in 1 .. Len(s), i # 1
               PROVE  s[i] \in Elements(Tail(s))
    BY <1>1 DEF Elements
  <2>1. i - 1 \in 1 .. Len(Tail(s)) /\ s[i] = Tail(s)[i - 1]
    BY <1>1
  <2> QED BY <2>1 DEF Elements
<1>3. Elements(Tail(s)) \cup {Head(s)} \subseteq Elements(s)
  <2>1. ASSUME NEW i \in 1 .. Len(Tail(s)) PROVE Tail(s)[i] \in Elements(s)
    <3>1. i + 1 \in 1 .. Len(s) /\ Tail(s)[i] = s[i + 1]
      BY <1>1
    <3> QED BY <3>1 DEF Elements
  <2>2. Head(s) \in Elements(s)
    BY <1>1 DEF Elements
  <2> QED BY <2>1, <2>2 DEF Elements
<1> QED BY <1>2, <1>3

\* A sequence without repetitions does not hold its head again.
LEMMA HeadIsFresh ==
  ASSUME NEW S, NEW s \in Seq(S), s # << >>,
         \A i, j \in 1 .. Len(s) : s[i] = s[j] => i = j
  PROVE  /\ Head(s) \notin Elements(Tail(s))
         /\ \A i, j \in 1 .. Len(Tail(s)) : Tail(s)[i] = Tail(s)[j] => i = j
<1>1. /\ Len(Tail(s)) = Len(s) - 1
      /\ Head(s) = s[1]
      /\ \A i \in 1 .. Len(Tail(s)) : Tail(s)[i] = s[i + 1]
      /\ Len(s) \in Nat \ {0}
  OBVIOUS
<1>2. ASSUME NEW i \in 1 .. Len(Tail(s)) PROVE Tail(s)[i] # Head(s)
  <2>1. i + 1 \in 1 .. Len(s) /\ 1 \in 1 .. Len(s) /\ i + 1 # 1
    BY <1>1
  <2> QED BY <1>1, <2>1
<1>3. ASSUME NEW i \in 1 .. Len(Tail(s)), NEW j \in 1 .. Len(Tail(s)),
             Tail(s)[i] = Tail(s)[j]
      PROVE  i = j
  <2>1. i + 1 \in 1 .. Len(s) /\ j + 1 \in 1 .. Len(s)
    BY <1>1
  <2>2. i + 1 = j + 1
    BY <1>1, <1>3, <2>1
  <2> QED BY <2>2
<1> QED BY <1>2, <1>3 DEF Elements

\* The counted sets are finite, so their cardinalities are numbers.
LEMMA CountedSetsFinite ==
  ASSUME TypeOK
  PROVE  /\ IsFiniteSet(adding) /\ Cardinality(adding) \in Nat
         /\ IsFiniteSet(Awake) /\ Cardinality(Awake) \in Nat
<1>1. adding \in SUBSET Tasks /\ Awake \in SUBSET Workers
  BY DEF TypeOK, Awake
<1>2. IsFiniteSet(adding) /\ IsFiniteSet(Awake)
  BY <1>1, FS_Subset, WorkersFinite, TasksFinite
<1> QED BY <1>2, FS_CardinalityType

-----------------------------------------------------------------------------
\* Nobody has taken a task yet.
LEMMA InitIInv == Init => IInv
<1> SUFFICES ASSUME Init PROVE IInv
  OBVIOUS
<1>1. TypeOK
  <2>1. queue \in Seq(Tasks) /\ taken \in Seq(Tasks)
    BY DEF Init
  <2>2. wpc \in [Workers -> WorkerStates] /\ task \in [Workers -> Tasks \cup {NoTask}]
    BY DEF Init, WorkerStates
  <2> QED BY <2>1, <2>2 DEF Init, TypeOK
<1>2. LockInv /\ NoIdleSleeper /\ JoinInv
  BY DEF Init, LockInv, NoIdleSleeper, Sleepers, JoinInv
<1>3. TaskInv
  BY DEF Init, TaskInv, Elements, Added
<1> QED BY <1>1, <1>2, <1>3 DEF IInv

\* Types are kept by every step; a task that returns is a pushed one.
LEMMA TypeStep == IInv /\ [Next]_vars => TypeOK'
<1> SUFFICES ASSUME IInv, [Next]_vars PROVE TypeOK'
  OBVIOUS
<1> USE DEF IInv, TypeOK, WorkerStates, Goto
<1>1. ASSUME NEW w \in Workers, TestStop(w) PROVE TypeOK'
  BY <1>1 DEF TestStop
<1>2. ASSUME NEW w \in Workers, Lock(w) PROVE TypeOK'
  BY <1>2 DEF Lock
<1>3. ASSUME NEW w \in Workers, TakeFront(w) \/ Pop(w) PROVE TypeOK'
  <2>1. CASE TakeFront(w)
    <3>1. Head(queue) \in Tasks
      BY <2>1 DEF TakeFront
    <3> QED BY <2>1, <3>1 DEF TakeFront
  <2>2. CASE Pop(w)
    <3>1. task[w] \in Tasks /\ Tail(queue) \in Seq(Tasks)
      BY <2>2 DEF Pop, LockInv
    <3>2. Append(taken, task[w]) \in Seq(Tasks)
      BY <3>1
    <3> QED BY <2>2, <3>1, <3>2 DEF Pop
  <2> QED BY <1>3, <2>1, <2>2
<1>4. ASSUME NEW w \in Workers, ExitOnStop(w) PROVE TypeOK'
  BY <1>4 DEF ExitOnStop
<1>5. ASSUME NEW w \in Workers, FindNothing(w) PROVE TypeOK'
  BY <1>5 DEF FindNothing
<1>6. ASSUME NEW w \in Workers, Block(w) PROVE TypeOK'
  BY <1>6 DEF Block
<1>7. ASSUME NEW w \in Workers, SpuriousWake(w) PROVE TypeOK'
  BY <1>7 DEF SpuriousWake
<1>8. ASSUME NEW w \in Workers, RunTask(w) PROVE TypeOK'
  <2>1. task[w] \in Tasks
    BY <1>8 DEF RunTask, TaskInv
  <2> QED BY <1>8, <2>1 DEF RunTask
<1>9. ASSUME NEW t \in Tasks, AddTask(t) PROVE TypeOK'
  BY <1>9 DEF AddTask
<1>10. ASSUME NEW t \in Tasks, NotifyOne(t) PROVE TypeOK'
  BY <1>10 DEF NotifyOne, Sleepers
<1>11. CASE SetStop
  BY <1>11 DEF SetStop
<1>12. CASE NotifyAll
  BY <1>12 DEF NotifyAll
<1>13. CASE JoinAll
  BY <1>13 DEF JoinAll
<1>14. CASE UNCHANGED vars
  BY <1>14 DEF vars
<1> QED
  BY <1>1, <1>2, <1>3, <1>4, <1>5, <1>6, <1>7, <1>8, <1>9, <1>10, <1>11, <1>12,
     <1>13, <1>14 DEF Next, WorkerStep

-----------------------------------------------------------------------------
\* The mutex excludes, and nobody pushes while a worker is falling asleep.
LEMMA LockStep == IInv /\ [Next]_vars => LockInv'
<1> SUFFICES ASSUME IInv, [Next]_vars PROVE LockInv'
  OBVIOUS
<1> USE DEF IInv, TypeOK, WorkerStates, Goto, LockInv, MutexFree
<1>1. ASSUME NEW w \in Workers, TestStop(w) PROVE LockInv'
  BY <1>1 DEF TestStop
<1>2. ASSUME NEW w \in Workers, Lock(w) PROVE LockInv'
  BY <1>2 DEF Lock
<1>3. ASSUME NEW w \in Workers, TakeFront(w) \/ Pop(w) PROVE LockInv'
  <2>1. CASE TakeFront(w)
    BY <2>1 DEF TakeFront
  <2>2. CASE Pop(w)
    BY <2>2 DEF Pop
  <2> QED BY <1>3, <2>1, <2>2
<1>4. ASSUME NEW w \in Workers, ExitOnStop(w) PROVE LockInv'
  BY <1>4 DEF ExitOnStop
<1>5. ASSUME NEW w \in Workers, FindNothing(w) PROVE LockInv'
  BY <1>5 DEF FindNothing
<1>6. ASSUME NEW w \in Workers, Block(w) PROVE LockInv'
  BY <1>6 DEF Block
<1>7. ASSUME NEW w \in Workers, SpuriousWake(w) PROVE LockInv'
  BY <1>7 DEF SpuriousWake
<1>8. ASSUME NEW w \in Workers, RunTask(w) PROVE LockInv'
  BY <1>8 DEF RunTask
<1>9. ASSUME NEW t \in Tasks, AddTask(t) PROVE LockInv'
  BY <1>9 DEF AddTask
<1>10. ASSUME NEW t \in Tasks, NotifyOne(t) PROVE LockInv'
  BY <1>10 DEF NotifyOne, Sleepers
<1>11. CASE SetStop
  BY <1>11 DEF SetStop
<1>12. CASE NotifyAll
  BY <1>12 DEF NotifyAll, Sleepers
<1>13. CASE JoinAll
  BY <1>13 DEF JoinAll
<1>14. CASE UNCHANGED vars
  BY <1>14 DEF vars
<1> QED
  BY <1>1, <1>2, <1>3, <1>4, <1>5, <1>6, <1>7, <1>8, <1>9, <1>10, <1>11, <1>12,
     <1>13, <1>14 DEF Next, WorkerStep

\* A step that leaves queue, tasks and histories alone keeps TaskInv, as long
\* as no worker takes, pops or calls a task and adding only shrinks.
LEMMA TaskFrame ==
  ASSUME TaskInv, UNCHANGED <<queue, task, taken, done>>, adding' \subseteq adding,
         \A w \in Workers : /\ wpc'[w] = "run" <=> wpc[w] = "run"
                            /\ wpc'[w] = "pop" <=> wpc[w] = "pop"
  PROVE  TaskInv'
<1>1. Running' = Running /\ Added' = Added
      /\ Elements(queue') = Elements(queue) /\ Elements(taken') = Elements(taken)
  BY DEF Running, Added, Elements
<1>2. {task'[w] : w \in Running'} = {task[w] : w \in Running}
  BY <1>1
<1> QED BY <1>1, <1>2 DEF TaskInv, Elements

\* Taking the front gives a worker a task that nobody else has.
LEMMA TakeFrontInv ==
  ASSUME IInv, NEW w \in Workers, TakeFront(w)
  PROVE  TaskInv'
<1> DEFINE h == Head(queue)
<1> USE DEF IInv, TypeOK
<1>1. /\ queue \in Seq(Tasks) /\ queue # << >> /\ h \in Tasks
      /\ task' = [task EXCEPT ![w] = h] /\ wpc' = [wpc EXCEPT ![w] = "pop"]
      /\ wpc[w] = "pred" /\ UNCHANGED <<queue, adding, taken, done>>
  BY DEF TakeFront, Goto
<1>2. h \in Elements(queue) /\ h \notin Elements(taken) /\ h # NoTask
  BY <1>1, ElementsTail, NoTaskIsNoTask DEF TaskInv
<1>3. \A v \in Workers : /\ task'[v] = IF v = w THEN h ELSE task[v]
                         /\ wpc'[v] = IF v = w THEN "pop" ELSE wpc[v]
  BY <1>1
<1>4. \A v \in Workers : task[v] # h
  <2> SUFFICES ASSUME NEW v \in Workers, task[v] = h PROVE FALSE
    OBVIOUS
  <2>1. wpc[v] \in {"pop", "run"}
    BY <1>2 DEF TaskInv
  <2>2. wpc[v] # "run"
    BY <1>2 DEF TaskInv
  <2>3. wpc[v] # "pop"
    BY <1>1 DEF LockInv
  <2> QED BY <2>1, <2>2, <2>3
<1>5. Running' = Running /\ w \notin Running
  BY <1>1, <1>3 DEF Running
<1>6. {task'[v] : v \in Running'} = {task[v] : v \in Running}
  BY <1>3, <1>5 DEF Running
<1>7. \A v \in Workers : task'[v] # NoTask <=> wpc'[v] \in {"pop", "run"}
  BY <1>2, <1>3 DEF TaskInv
<1>8. \A u, v \in Workers : task'[u] # NoTask /\ task'[u] = task'[v] => u = v
  BY <1>3, <1>4 DEF TaskInv
<1>9. \A v \in Workers : wpc'[v] = "run" => task'[v] \in Elements(taken) \ done
  BY <1>3 DEF TaskInv
<1>10. /\ Elements(queue') = Elements(queue) /\ Elements(taken') = Elements(taken)
       /\ Added' = Added
  BY <1>1 DEF Elements, Added
<1>11. Elements(taken') \subseteq done' \cup {task'[v] : v \in Running'}
  BY <1>1, <1>6, <1>10 DEF TaskInv
<1> QED
  <2>1. /\ \A i, j \in 1 .. Len(queue') : queue'[i] = queue'[j] => i = j
        /\ Elements(queue') \cap Elements(taken') = {}
        /\ done' \subseteq Elements(taken') /\ adding' \subseteq Added'
    BY <1>1, <1>10 DEF TaskInv
  <2>2. \A v \in Workers : wpc'[v] = "run" => task'[v] \in Elements(taken') \ done'
    BY <1>1, <1>9, <1>10
  <2>3. TaskInv' <=>
          /\ \A v \in Workers : task'[v] # NoTask <=> wpc'[v] \in {"pop", "run"}
          /\ \A i, j \in 1 .. Len(queue') : queue'[i] = queue'[j] => i = j
          /\ Elements(queue') \cap Elements(taken') = {}
          /\ \A u, v \in Workers : task'[u] # NoTask /\ task'[u] = task'[v] => u = v
          /\ \A v \in Workers : wpc'[v] = "run" => task'[v] \in Elements(taken') \ done'
          /\ done' \subseteq Elements(taken')
          /\ Elements(taken') \subseteq done' \cup {task'[v] : v \in Running'}
          /\ adding' \subseteq Added'
    BY DEF TaskInv, Elements
  <2> QED BY <1>7, <1>8, <1>11, <2>1, <2>2, <2>3

\* A popped task moves from the queue to the worker that took it.
LEMMA PopInv ==
  ASSUME IInv, NEW w \in Workers, Pop(w)
  PROVE  TaskInv'
<1> DEFINE h == Head(queue)
<1> USE DEF IInv, TypeOK
<1>1. /\ queue \in Seq(Tasks) /\ queue # << >> /\ taken \in Seq(Tasks)
      /\ h \in Tasks /\ task[w] = h /\ wpc[w] = "pop"
      /\ queue' = Tail(queue) /\ taken' = Append(taken, h)
      /\ wpc' = [wpc EXCEPT ![w] = "run"] /\ UNCHANGED <<task, adding, done>>
  BY DEF Pop, Goto, LockInv
<1>2. Elements(taken') = Elements(taken) \cup {h}
  BY <1>1, ElementsAppend
<1>3. Elements(queue) = Elements(queue') \cup {h}
  BY <1>1, ElementsTail
<1>4. /\ h \notin Elements(queue')
      /\ \A i, j \in 1 .. Len(queue') : queue'[i] = queue'[j] => i = j
  <2>1. \A i, j \in 1 .. Len(queue) : queue[i] = queue[j] => i = j
    BY DEF TaskInv
  <2> QED BY <1>1, <2>1, HeadIsFresh
<1>5. h \notin Elements(taken)
  BY <1>3 DEF TaskInv
<1>6. \A v \in Workers : wpc'[v] = IF v = w THEN "run" ELSE wpc[v]
  BY <1>1
<1>7. Running' = Running \cup {w}
  BY <1>6 DEF Running
<1>8. \A v \in Workers : task'[v] # NoTask <=> wpc'[v] \in {"pop", "run"}
  BY <1>1, <1>6 DEF TaskInv
<1>9. Elements(queue') \cap Elements(taken') = {}
  BY <1>2, <1>3, <1>4 DEF TaskInv
<1>10. \A u, v \in Workers : task'[u] # NoTask /\ task'[u] = task'[v] => u = v
  BY <1>1 DEF TaskInv
<1>11. done' \subseteq Elements(taken')
  BY <1>1, <1>2 DEF TaskInv
<1>12. \A v \in Workers : wpc'[v] = "run" => task'[v] \in Elements(taken') \ done'
  <2>1. h \notin done
    BY <1>5 DEF TaskInv
  <2> QED BY <1>1, <1>2, <1>6, <2>1 DEF TaskInv
<1>13. Elements(taken') \subseteq done' \cup {task'[v] : v \in Running'}
  BY <1>1, <1>2, <1>7 DEF TaskInv
<1>14. adding' \subseteq Added'
  <2>1. Added' = Elements(taken') \cup Elements(queue')
    BY DEF Added, Elements
  <2> QED BY <2>1, <1>1, <1>2, <1>3 DEF TaskInv, Added
<1> QED
  <2>1. TaskInv' <=>
          /\ \A v \in Workers : task'[v] # NoTask <=> wpc'[v] \in {"pop", "run"}
          /\ \A i, j \in 1 .. Len(queue') : queue'[i] = queue'[j] => i = j
          /\ Elements(queue') \cap Elements(taken') = {}
          /\ \A u, v \in Workers : task'[u] # NoTask /\ task'[u] = task'[v] => u = v
          /\ \A v \in Workers : wpc'[v] = "run" => task'[v] \in Elements(taken') \ done'
          /\ done' \subseteq Elements(taken')
          /\ Elements(taken') \subseteq done' \cup {task'[v] : v \in Running'}
          /\ adding' \subseteq Added'
    BY DEF TaskInv, Elements
  <2> QED BY <2>1, <1>4, <1>8, <1>9, <1>10, <1>11, <1>12, <1>13, <1>14

\* A task that returns moves from its worker to done.
LEMMA RunTaskInv ==
  ASSUME IInv, NEW w \in Workers, RunTask(w)
  PROVE  TaskInv'
<1> USE DEF IInv, TypeOK
<1>1. /\ done' = done \cup {task[w]} /\ task' = [task EXCEPT ![w] = NoTask]
      /\ wpc' = [wpc EXCEPT ![w] = "test"] /\ wpc[w] = "run"
      /\ UNCHANGED <<queue, adding, taken>>
  BY DEF RunTask, Goto
<1>2. \A v \in Workers : /\ task'[v] = IF v = w THEN NoTask ELSE task[v]
                         /\ wpc'[v] = IF v = w THEN "test" ELSE wpc[v]
  BY <1>1
<1>3. task[w] # NoTask /\ task[w] \in Elements(taken)
  BY <1>1 DEF TaskInv
<1>4. Elements(queue') = Elements(queue) /\ Elements(taken') = Elements(taken)
      /\ Added' = Added
  BY <1>1 DEF Elements, Added
<1>5. \A v \in Workers : task'[v] # NoTask <=> wpc'[v] \in {"pop", "run"}
  BY <1>2 DEF TaskInv
<1>6. \A u, v \in Workers : task'[u] # NoTask /\ task'[u] = task'[v] => u = v
  BY <1>2 DEF TaskInv
<1>7. \A v \in Workers : wpc'[v] = "run" => task'[v] \in Elements(taken') \ done'
  <2> SUFFICES ASSUME NEW v \in Workers, wpc'[v] = "run"
               PROVE  task'[v] \in Elements(taken') \ done'
    OBVIOUS
  <2>1. v # w /\ task'[v] = task[v] /\ wpc[v] = "run"
    BY <1>2
  <2>2. task[v] \in Elements(taken) \ done /\ task[v] # NoTask /\ task[v] # task[w]
    BY <2>1 DEF TaskInv
  <2> QED BY <1>1, <1>4, <2>1, <2>2
<1>8. Elements(taken') \subseteq done' \cup {task'[v] : v \in Running'}
  <2> SUFFICES ASSUME NEW x \in Elements(taken), x \notin done, x # task[w]
               PROVE  \E v \in Running' : x = task'[v]
    BY <1>1, <1>4
  <2>1. PICK v \in Running : x = task[v]
    BY DEF TaskInv
  <2>2. v # w /\ v \in Workers /\ v \in Running'
    BY <2>1, <1>2 DEF Running
  <2> QED BY <2>1, <2>2, <1>2
<1> QED
  BY <1>1, <1>3, <1>4, <1>5, <1>6, <1>7, <1>8 DEF TaskInv

\* A pushed task was nowhere before.
LEMMA AddTaskInv ==
  ASSUME IInv, NEW t \in Tasks, AddTask(t)
  PROVE  TaskInv'
<1> USE DEF IInv, TypeOK
<1>1. /\ queue' = Append(queue, t) /\ adding' = adding \cup {t}
      /\ UNCHANGED <<wpc, task, taken, done>>
      /\ t \notin Elements(queue) /\ t \notin Elements(taken)
  BY DEF AddTask, Added
<1>2. Elements(queue') = Elements(queue) \cup {t} /\ Elements(taken') = Elements(taken)
  BY <1>1, ElementsAppend DEF Elements
<1>3. \A i, j \in 1 .. Len(queue') : queue'[i] = queue'[j] => i = j
  <2>1. /\ Len(queue') = Len(queue) + 1 /\ queue'[Len(queue) + 1] = t
        /\ \A i \in 1 .. Len(queue) : queue'[i] = queue[i] /\ queue[i] # t
    BY <1>1 DEF Elements
  <2> QED BY <2>1 DEF TaskInv
<1>4. adding' \subseteq Added'
  <2>1. Added' = Elements(taken') \cup Elements(queue')
    BY DEF Added, Elements
  <2> QED BY <2>1, <1>1, <1>2 DEF TaskInv, Added
<1> QED
  <2>0. Running' = Running
    BY <1>1 DEF Running
  <2>1. /\ \A v \in Workers : task'[v] # NoTask <=> wpc'[v] \in {"pop", "run"}
        /\ \A u, v \in Workers : task'[u] # NoTask /\ task'[u] = task'[v] => u = v
        /\ \A v \in Workers : wpc'[v] = "run" => task'[v] \in Elements(taken') \ done'
        /\ done' \subseteq Elements(taken')
        /\ Elements(taken') \subseteq done' \cup {task'[v] : v \in Running'}
    BY <1>1, <1>2, <2>0 DEF TaskInv
  <2>2. Elements(queue') \cap Elements(taken') = {}
    BY <1>1, <1>2 DEF TaskInv
  <2>3. TaskInv' <=>
          /\ \A v \in Workers : task'[v] # NoTask <=> wpc'[v] \in {"pop", "run"}
          /\ \A i, j \in 1 .. Len(queue') : queue'[i] = queue'[j] => i = j
          /\ Elements(queue') \cap Elements(taken') = {}
          /\ \A u, v \in Workers : task'[u] # NoTask /\ task'[u] = task'[v] => u = v
          /\ \A v \in Workers : wpc'[v] = "run" => task'[v] \in Elements(taken') \ done'
          /\ done' \subseteq Elements(taken')
          /\ Elements(taken') \subseteq done' \cup {task'[v] : v \in Running'}
          /\ adding' \subseteq Added'
    BY DEF TaskInv, Elements
  <2> QED BY <1>3, <1>4, <2>1, <2>2, <2>3

\* Where the tasks are, through every step.
LEMMA TaskStep == IInv /\ [Next]_vars => TaskInv'
<1> SUFFICES ASSUME IInv, [Next]_vars PROVE TaskInv'
  OBVIOUS
<1>0. TaskInv /\ TypeOK
  BY DEF IInv
<1> USE DEF TypeOK, Goto
<1>1. ASSUME NEW w \in Workers,
             TestStop(w) \/ Lock(w) \/ ExitOnStop(w) \/ FindNothing(w)
               \/ Block(w) \/ SpuriousWake(w)
      PROVE  TaskInv'
  <2>1. UNCHANGED <<queue, task, taken, done, adding>>
    BY <1>1 DEF TestStop, Lock, ExitOnStop, FindNothing, Block, SpuriousWake
  <2>2. \A v \in Workers : /\ wpc'[v] = "run" <=> wpc[v] = "run"
                           /\ wpc'[v] = "pop" <=> wpc[v] = "pop"
    BY <1>0, <1>1 DEF TestStop, Lock, ExitOnStop, FindNothing, Block, SpuriousWake
  <2> QED BY <1>0, <2>1, <2>2, TaskFrame
<1>2. ASSUME NEW w \in Workers, TakeFront(w) \/ Pop(w) PROVE TaskInv'
  BY <1>2, TakeFrontInv, PopInv
<1>3. ASSUME NEW w \in Workers, RunTask(w) PROVE TaskInv'
  BY <1>3, RunTaskInv
<1>4. ASSUME NEW t \in Tasks, AddTask(t) PROVE TaskInv'
  BY <1>4, AddTaskInv
<1>5. ASSUME NEW t \in Tasks, NotifyOne(t) PROVE TaskInv'
  <2>1. UNCHANGED <<queue, task, taken, done>> /\ adding' \subseteq adding
    BY <1>5 DEF NotifyOne
  <2>2. \A v \in Workers : /\ wpc'[v] = "run" <=> wpc[v] = "run"
                           /\ wpc'[v] = "pop" <=> wpc[v] = "pop"
    BY <1>0, <1>5 DEF NotifyOne, Sleepers
  <2> QED BY <1>0, <2>1, <2>2, TaskFrame
<1>6. CASE SetStop \/ NotifyAll \/ JoinAll
  <2>1. UNCHANGED <<queue, task, taken, done, adding>>
    BY <1>6 DEF SetStop, NotifyAll, JoinAll
  <2>2. \A v \in Workers : /\ wpc'[v] = "run" <=> wpc[v] = "run"
                           /\ wpc'[v] = "pop" <=> wpc[v] = "pop"
    BY <1>0, <1>6 DEF SetStop, NotifyAll, JoinAll, Sleepers
  <2> QED BY <1>0, <2>1, <2>2, TaskFrame
<1>7. CASE UNCHANGED vars
  BY <1>0, <1>7, TaskFrame DEF vars
<1> QED
  BY <1>1, <1>2, <1>3, <1>4, <1>5, <1>6, <1>7 DEF Next, WorkerStep

-----------------------------------------------------------------------------
\* The counting argument: a push is paid for by its caller, a notification
\* by the thread it wakes, and a popped task by the thread that pops it.
LEMMA NoIdleSleeperStep == IInv /\ [Next]_vars => NoIdleSleeper'
<1> SUFFICES ASSUME IInv, [Next]_vars, ~stop', Sleepers' # {}
             PROVE  Len(queue') <= Cardinality(adding') + Cardinality(Awake')
  BY DEF NoIdleSleeper
<1>0. /\ TypeOK /\ Len(queue) \in Nat
      /\ IsFiniteSet(adding) /\ Cardinality(adding) \in Nat
      /\ IsFiniteSet(Awake) /\ Cardinality(Awake) \in Nat
  BY CountedSetsFinite DEF IInv, TypeOK
<1>a. TypeOK' /\ Cardinality(adding') \in Nat /\ Cardinality(Awake') \in Nat
  <2>1. TypeOK'
    BY TypeStep
  <2>2. adding' \in SUBSET Tasks /\ Awake' \in SUBSET Workers
    BY <2>1 DEF TypeOK, Awake
  <2>3. IsFiniteSet(adding') /\ IsFiniteSet(Awake')
    BY <2>2, FS_Subset, WorkersFinite, TasksFinite
  <2> QED BY <2>1, <2>3, FS_CardinalityType
<1>b. Sleepers # {} => stop \/ Len(queue) <= Cardinality(adding) + Cardinality(Awake)
  BY DEF IInv, NoIdleSleeper
<1> USE DEF Goto
<1>1. ASSUME NEW w \in Workers, TestStop(w) \/ Lock(w) \/ TakeFront(w)
      PROVE  Len(queue') <= Cardinality(adding') + Cardinality(Awake')
  <2>1. Awake' = Awake /\ Sleepers' = Sleepers /\ ~stop
    BY <1>0, <1>1 DEF TestStop, Lock, TakeFront, Awake, Sleepers, TypeOK
  <2>2. UNCHANGED <<queue, adding>>
    BY <1>1 DEF TestStop, Lock, TakeFront
  <2> QED BY <2>1, <2>2, <1>b
<1>2. ASSUME NEW w \in Workers, Pop(w)
      PROVE  Len(queue') <= Cardinality(adding') + Cardinality(Awake')
  <2>1. w \in Awake /\ Awake' = Awake \ {w} /\ Sleepers' = Sleepers /\ ~stop
    BY <1>0, <1>2 DEF Pop, Awake, Sleepers, TypeOK
  <2>2. Cardinality(Awake') = Cardinality(Awake) - 1
    BY <1>0, <2>1, FS_RemoveElement
  <2>3. Len(queue') = Len(queue) - 1 /\ adding' = adding
    BY <1>0, <1>2 DEF Pop, TypeOK, IInv, LockInv
  <2> QED BY <1>0, <2>1, <2>2, <2>3, <1>b
<1>3. ASSUME NEW w \in Workers, FindNothing(w) \/ Block(w)
      PROVE  Len(queue') <= Cardinality(adding') + Cardinality(Awake')
  <2>1. queue' = << >>
    BY <1>3 DEF FindNothing, Block, IInv, LockInv
  <2>2. Len(queue') = 0
    BY <2>1
  <2> QED BY <2>2, <1>a
<1>4. ASSUME NEW w \in Workers, SpuriousWake(w) \/ RunTask(w)
      PROVE  Len(queue') <= Cardinality(adding') + Cardinality(Awake')
  <2>1. Awake' = Awake \cup {w} /\ Sleepers' \subseteq Sleepers /\ ~stop
    BY <1>0, <1>4 DEF SpuriousWake, RunTask, Awake, Sleepers, TypeOK
  <2>2. Cardinality(Awake') >= Cardinality(Awake)
    <3>1. Cardinality(Awake \cup {w}) \in {Cardinality(Awake), Cardinality(Awake) + 1}
      BY <1>0, FS_AddElement
    <3> QED BY <1>0, <2>1, <3>1
  <2>3. UNCHANGED <<queue, adding>>
    BY <1>4 DEF SpuriousWake, RunTask
  <2> QED BY <1>0, <1>a, <2>1, <2>2, <2>3, <1>b
<1>5. ASSUME NEW t \in Tasks, AddTask(t)
      PROVE  Len(queue') <= Cardinality(adding') + Cardinality(Awake')
  <2>1. Awake' = Awake /\ Sleepers' = Sleepers /\ ~stop
    BY <1>5 DEF AddTask, Awake, Sleepers
  <2>2. t \notin adding /\ adding' = adding \cup {t} /\ Len(queue') = Len(queue) + 1
    BY <1>0, <1>5 DEF AddTask, IInv, TaskInv, TypeOK
  <2>3. Cardinality(adding') = Cardinality(adding) + 1
    BY <1>0, <2>2, FS_AddElement
  <2> QED BY <1>0, <2>1, <2>2, <2>3, <1>b
<1>6. ASSUME NEW t \in Tasks, NotifyOne(t)
      PROVE  Len(queue') <= Cardinality(adding') + Cardinality(Awake')
  <2>1. t \in adding /\ adding' = adding \ {t} /\ queue' = queue /\ ~stop
    BY <1>6 DEF NotifyOne
  <2>2. Cardinality(adding') = Cardinality(adding) - 1
    BY <1>0, <2>1, FS_RemoveElement
  <2>3. Sleepers # {}
    BY <1>6 DEF NotifyOne, Sleepers
  <2>4. PICK w \in Sleepers : wpc' = [wpc EXCEPT ![w] = "lock"]
    BY <1>6, <2>3 DEF NotifyOne
  <2>5. w \notin Awake /\ Awake' = Awake \cup {w}
    BY <1>0, <2>4 DEF Awake, Sleepers, TypeOK
  <2>6. Cardinality(Awake') = Cardinality(Awake) + 1
    BY <1>0, <2>5, FS_AddElement
  <2> QED BY <1>0, <2>1, <2>2, <2>3, <2>6, <1>b
<1>7. CASE NotifyAll
  <2>1. Sleepers' = {}
    BY <1>7 DEF NotifyAll, Sleepers
  <2> QED BY <2>1
<1>8. CASE JoinAll \/ UNCHANGED vars
  <2>1. Awake' = Awake /\ Sleepers' = Sleepers /\ ~stop /\ UNCHANGED <<queue, adding>>
    BY <1>8 DEF JoinAll, vars, Awake, Sleepers
  <2> QED BY <2>1, <1>b
<1>9. ~SetStop /\ \A w \in Workers : ~ExitOnStop(w)
  BY DEF SetStop, ExitOnStop
<1> QED
  BY <1>1, <1>2, <1>3, <1>4, <1>5, <1>6, <1>7, <1>8, <1>9 DEF Next, WorkerStep

-----------------------------------------------------------------------------
\* join returns only when every thread has, and no thread comes back.
LEMMA JoinStep == IInv /\ [Next]_vars => JoinInv'
<1> SUFFICES ASSUME IInv, [Next]_vars PROVE JoinInv'
  OBVIOUS
<1> USE DEF IInv, TypeOK, JoinInv, Goto
<1>1. ASSUME NEW w \in Workers, WorkerStep(w) \/ Lock(w) \/ SpuriousWake(w)
      PROVE  JoinInv'
  <2>1. wpc[w] # "exited" /\ spc' = spc
    BY <1>1 DEF WorkerStep, TestStop, Lock, TakeFront, Pop, ExitOnStop, FindNothing,
                Block, SpuriousWake, RunTask
  <2> QED BY <2>1
<1>2. ASSUME NEW t \in Tasks, AddTask(t) \/ NotifyOne(t) PROVE JoinInv'
  BY <1>2 DEF AddTask, NotifyOne, Sleepers
<1>3. CASE SetStop \/ NotifyAll \/ JoinAll
  BY <1>3 DEF SetStop, NotifyAll, JoinAll
<1>4. CASE UNCHANGED vars
  BY <1>4 DEF vars
<1> QED BY <1>1, <1>2, <1>3, <1>4 DEF Next

\* The invariant is inductive.
THEOREM Invariance == Spec => []IInv
<1>1. IInv /\ [Next]_vars => IInv'
  BY TypeStep, LockStep, TaskStep, NoIdleSleeperStep, JoinStep DEF IInv
<1> QED BY InitIInv, <1>1, PTL DEF Spec

-----------------------------------------------------------------------------
(* The properties of ThreadPool.                                           *)

(***************************************************************************)
(* Type correctness; in particular what task() calls was always pushed.    *)
(***************************************************************************)
THEOREM TypeCorrect == Spec => []TypeOK
<1>1. IInv => TypeOK
  BY DEF IInv
<1> QED BY <1>1, Invariance, PTL

(***************************************************************************)
(* No task is called twice, for any number of workers and tasks.           *)
(***************************************************************************)
THEOREM RunOnceCorrect == Spec => []RunOnce
<1>1. IInv => RunOnce
  BY DEF IInv, TaskInv, RunOnce
<1> QED BY <1>1, Invariance, PTL

(***************************************************************************)
(* notify_one is never lost or short: the bound on sleepers holds for any  *)
(* number of workers, tasks and simultaneous callers of addTask.           *)
(***************************************************************************)
THEOREM NoIdleSleeperCorrect == Spec => []NoIdleSleeper
<1>1. IInv => NoIdleSleeper
  BY DEF IInv
<1> QED BY <1>1, Invariance, PTL

(***************************************************************************)
(* stop() returns only after every started task has returned.              *)
(***************************************************************************)
THEOREM StopWaitsCorrect == Spec => []StopWaitsForTasks
<1>1. ASSUME IInv, spc = "stopped" PROVE done = Elements(taken)
  <2>1. Running = {}
    BY <1>1 DEF IInv, JoinInv, Running
  <2>2. done \subseteq Elements(taken) /\ Elements(taken) \subseteq done
    BY <1>1, <2>1 DEF IInv, TaskInv
  <2> QED BY <2>2
<1> QED BY <1>1, Invariance, PTL DEF StopWaitsForTasks

(***************************************************************************)
(* The pool is a task queue: the pop is Start, because what was taken is   *)
(* still at the head, the push of addTask is Post, and every other step    *)
(* leaves both sequences alone.                                            *)
(***************************************************************************)
THEOREM Refinement == Spec => ImplementsTaskQueue
<1>1. Init => TQ!TQInit
  BY DEF Init, TQ!TQInit
<1>2. ASSUME IInv, [Next]_vars PROVE [TQ!TQNext]_(TQ!tqvars)
  <2> USE DEF TQ!tqvars
  <2>1. ASSUME NEW w \in Workers, Pop(w) PROVE TQ!Start
    BY <1>2, <2>1 DEF IInv, LockInv, Pop, TQ!Start
  <2>2. ASSUME NEW t \in Tasks, AddTask(t) PROVE TQ!Post(t)
    BY <2>2 DEF AddTask, TQ!Post, Added, Elements, TQ!Members
  <2>3. ASSUME NEW w \in Workers,
               TestStop(w) \/ Lock(w) \/ TakeFront(w) \/ ExitOnStop(w) \/ FindNothing(w)
                 \/ Block(w) \/ SpuriousWake(w) \/ RunTask(w)
        PROVE  UNCHANGED <<queue, taken>>
    BY <2>3 DEF TestStop, Lock, TakeFront, ExitOnStop, FindNothing, Block, SpuriousWake, RunTask
  <2>4. ASSUME NEW t \in Tasks, NotifyOne(t) PROVE UNCHANGED <<queue, taken>>
    BY <2>4 DEF NotifyOne
  <2>5. CASE SetStop \/ NotifyAll \/ JoinAll \/ UNCHANGED vars
    BY <2>5 DEF SetStop, NotifyAll, JoinAll, vars
  <2> QED
    BY <1>2, <2>1, <2>2, <2>3, <2>4, <2>5 DEF Next, WorkerStep, TQ!TQNext
<1> QED BY <1>1, <1>2, Invariance, PTL DEF Spec, ImplementsTaskQueue, TQ!TQSpec
=============================================================================
