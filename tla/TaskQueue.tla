------------------------------ MODULE TaskQueue ------------------------------
(***************************************************************************)
(* What a task queue of the server promises to the threads that post work  *)
(* to it: a task is posted at most once, tasks are started in the order in *)
(* which they were posted, and none is started twice or made up.           *)
(* ThreadPool::m_taskqueue and EventLoop::m_taskqueue are both meant to    *)
(* keep this promise; ThreadPool.tla and EventLoop.tla implement it.       *)
(***************************************************************************)
EXTENDS Sequences, Naturals

CONSTANT Tasks      \* the tasks that may be posted

VARIABLES pending,  \* posted and not yet started, oldest first
          started   \* started, in the order of starting

tqvars == <<pending, started>>

Members(s) == {s[i] : i \in 1 .. Len(s)}

TQInit == pending = << >> /\ started = << >>

Post(t) ==
  /\ t \notin Members(pending) \cup Members(started)
  /\ pending' = Append(pending, t)
  /\ UNCHANGED started

Start ==
  /\ pending # << >>
  /\ started' = Append(started, Head(pending))
  /\ pending' = Tail(pending)

TQNext == Start \/ \E t \in Tasks : Post(t)

TQSpec == TQInit /\ [][TQNext]_tqvars
=============================================================================
