--------------------------- MODULE ConnTableProofs ---------------------------
(***************************************************************************)
(* Proofs about ConnTable for any number of connections, descriptors and   *)
(* unfinished replies.                                                     *)
(***************************************************************************)
EXTENDS ConnTable, TLAPS

(***************************************************************************)
(* The inductive invariant, in parts.                                      *)
(*  Bounded    unfinished replies are counted correctly                    *)
(*  Keys       an entry of a map is found under its own descriptor         *)
(*  Own        two living connections never share a descriptor             *)
(*  Entering   the new connection is in no map before it is inserted       *)
(*  Tracked    the loop's map holds every connection from its insertion to *)
(*             its sweep, which is why only a sweep frees                  *)
(***************************************************************************)
Bounded ==
  \A c \in Conns : /\ tasks[c] + posted[c] <= MaxTasks
                   /\ c \notin created => tasks[c] = 0 /\ posted[c] = 0

Keys ==
  /\ \A c \in created : fdOf[c] \in Fds
  /\ \A fd \in Fds : /\ server[fd] # NoConn => fdOf[server[fd]] = fd
                     /\ loop[fd] # NoConn => fdOf[loop[fd]] = fd

Own == \A c, d \in created : Held(c) /\ Held(d) /\ fdOf[c] = fdOf[d] => c = d

Entering ==
  /\ mpc = "idle" <=> fresh = NoConn
  /\ mpc = "server" => \A fd \in Fds : server[fd] # fresh
  /\ mpc \in {"server", "lock", "insert"} => \A fd \in Fds : loop[fd] # fresh

Tracked ==
  \A c \in created :
    c \in swept \/ loop[fdOf[c]] = c \/ (fresh = c /\ mpc \in {"server", "lock", "insert"})

IInv == TypeOK /\ Bounded /\ Keys /\ Own /\ Entering /\ Tracked /\ ServerEntriesSweepable

-----------------------------------------------------------------------------
(* Steps that change neither the maps nor the objects.                     *)

Quiet ==
  /\ UNCHANGED <<objects, server, loop, main, swept>>
  /\ \A c \in Conns : tasks'[c] > 0 => Held(c)
  /\ lpc = "remove" => lpc' = "remove" /\ cursor' = cursor

\* Every step that is not quiet is one of seven actions.
LEMMA Effects ==
  TypeOK /\ [Next]_vars =>
    \/ Quiet
    \/ \E c \in Conns : Accept(c) \/ HandleClose(c)
    \/ MainStep
    \/ RemoveConn \/ \E fd \in Fds : SweepErases(fd)
<1> SUFFICES ASSUME TypeOK, [Next]_vars,
                    ~ \E c \in Conns : Accept(c) \/ HandleClose(c),
                    ~ MainStep, ~ RemoveConn, ~ \E fd \in Fds : SweepErases(fd)
             PROVE  Quiet
  OBVIOUS
<1>0. \A c \in Conns : tasks[c] \in Nat /\ (tasks[c] > 0 => Held(c))
  BY MaxTasksPositive DEF TypeOK, Held
<1> USE DEF objects, main, looper, replies, Dispatch
<1>1. ASSUME NEW c \in Conns, HandleMessage(c) PROVE Quiet
  <2>1. \A d \in Conns : tasks'[d] > 0 => Held(d)
    BY <1>0, <1>1 DEF HandleMessage, TypeOK
  <2> QED BY <1>1, <2>1 DEF HandleMessage, Quiet
<1>2. ASSUME NEW c \in Conns, Reply(c) PROVE Quiet
  <2>1. \A d \in Conns : tasks'[d] > 0 => Held(d)
    BY <1>0, <1>2 DEF Reply, TypeOK
  <2> QED BY <1>2, <2>1 DEF Reply, Quiet
<1>3. ASSUME UNCHANGED <<objects, server, loop, main, swept, tasks>>,
             lpc = "remove" => lpc' = "remove" /\ cursor' = cursor
      PROVE  Quiet
  BY <1>0, <1>3 DEF Quiet
<1>4. ASSUME NEW c \in Conns, UseFreedChannel(c) \/ HandleWrite(c) \/ RunPosted(c) \/ FallSilent(c)
      PROVE  Quiet
  BY <1>3, <1>4 DEF UseFreedChannel, HandleWrite, RunPosted, FallSilent
<1>5. CASE EpollWait \/ EndWakeup \/ HandleTimer \/ EndSweep \/ EndBatch
  BY <1>3, <1>5 DEF EpollWait, EndWakeup, HandleTimer, EndSweep, EndBatch
<1>6. ASSUME NEW fd \in Fds, SweepKeeps(fd) PROVE Quiet
  BY <1>3, <1>6 DEF SweepKeeps
<1>7. CASE UNCHANGED vars
  BY <1>3, <1>7 DEF vars
<1> QED BY <1>1, <1>2, <1>4, <1>5, <1>6, <1>7 DEF Next, LoopStep, SweepStep, ConnEvent

-----------------------------------------------------------------------------
(* Each part is inductive.                                                 *)

\* The types are inductive, with the count of unfinished replies.
LEMMA TypeStep == TypeOK /\ Bounded /\ Keys /\ Entering /\ [Next]_vars => TypeOK' /\ Bounded'
<1> SUFFICES ASSUME TypeOK, Bounded, Keys, Entering, [Next]_vars PROVE TypeOK' /\ Bounded'
  OBVIOUS
<1> USE DEF TypeOK, Bounded, objects, main, looper, replies, Dispatch
<1>1. ASSUME NEW c \in Conns, Accept(c) PROVE TypeOK' /\ Bounded'
  <2>1. fdOf' \in [Conns -> 0 .. MaxFd]
    BY <1>1, MaxFdNat DEF Accept, FreeFds, Fds
  <2> QED BY <1>1, <2>1 DEF Accept
<1>2. CASE InsertServer
  <2>1. server' \in [Fds -> created \cup {NoConn}]
    BY <1>2 DEF InsertServer
  <2> QED BY <1>2, <2>1 DEF InsertServer
<1>3. CASE LockConns
  BY <1>3 DEF LockConns
<1>4. CASE InsertLoop
  <2>1. loop' \in [Fds -> created \cup {NoConn}] /\ crash' \in {crash, "none", "map_race"}
    BY <1>4 DEF InsertLoop
  <2> QED BY <1>4, <2>1 DEF InsertLoop
<1>5. CASE Return
  BY <1>5 DEF Return
<1>6. CASE EpollWait
  BY <1>6 DEF EpollWait, Registered
<1>7. ASSUME NEW c \in Conns, UseFreedChannel(c) PROVE TypeOK' /\ Bounded'
  BY <1>7 DEF UseFreedChannel
<1>8. ASSUME NEW c \in Conns, HandleMessage(c) PROVE TypeOK' /\ Bounded'
  <2>1. c \in created
    BY <1>8, ChannelsDistinct DEF HandleMessage
  <2>2. tasks[c] + 1 \in 0 .. MaxTasks /\ tasks[c] + 1 + posted[c] <= MaxTasks
    BY <1>8, MaxTasksPositive DEF HandleMessage
  <2>3. tasks' \in [Conns -> 0 .. MaxTasks]
    BY <1>8, <2>2 DEF HandleMessage
  <2>4. Bounded'
    BY <1>8, <2>1, <2>2, MaxTasksPositive DEF HandleMessage
  <2> QED BY <1>8, <2>3, <2>4 DEF HandleMessage
<1>9. ASSUME NEW c \in Conns, HandleWrite(c) PROVE TypeOK' /\ Bounded'
  BY <1>9 DEF HandleWrite
<1>10. ASSUME NEW c \in Conns, HandleClose(c) PROVE TypeOK' /\ Bounded'
  <2>1. c \in created
    BY <1>10, ChannelsDistinct DEF HandleClose
  <2> QED BY <1>10, <2>1 DEF HandleClose
<1>11. ASSUME NEW c \in Conns, RunPosted(c) PROVE TypeOK' /\ Bounded'
  <2>1. posted[c] - 1 \in 0 .. MaxTasks /\ posted[c] - 1 <= posted[c]
    BY <1>11, MaxTasksPositive DEF RunPosted
  <2>2. posted' \in [Conns -> 0 .. MaxTasks] /\ tasks' = tasks
    BY <1>11, <2>1 DEF RunPosted
  <2>3. Bounded'
    BY <1>11, <2>1, MaxTasksPositive DEF RunPosted
  <2>4. crash' \in {crash, "use_after_free", "mod_error"}
    BY <1>11 DEF RunPosted
  <2> QED BY <1>11, <2>2, <2>3, <2>4 DEF RunPosted
<1>12. CASE EndWakeup
  BY <1>12 DEF EndWakeup
<1>13. CASE HandleTimer
  BY <1>13 DEF HandleTimer
<1>14. ASSUME NEW fd \in Fds, SweepKeeps(fd) PROVE TypeOK' /\ Bounded'
  <2>1. fd \in 0 .. MaxFd
    BY MaxFdNat DEF Fds
  <2> QED BY <1>14, <2>1 DEF SweepKeeps
<1>15. ASSUME NEW fd \in Fds, SweepErases(fd) PROVE TypeOK' /\ Bounded'
  <2>1. fd \in 0 .. MaxFd /\ loop[fd] \in created
    BY <1>15, MaxFdNat DEF Fds, SweepErases, IsNext
  <2>2. loop' \in [Fds -> created \cup {NoConn}]
    BY <1>15 DEF SweepErases
  <2> QED BY <1>15, <2>1, <2>2 DEF SweepErases
<1>16. CASE RemoveConn
  BY <1>16 DEF RemoveConn
<1>17. CASE EndSweep
  BY <1>17, MaxFdNat DEF EndSweep
<1>18. CASE EndBatch
  BY <1>18 DEF EndBatch
<1>19. ASSUME NEW c \in Conns, Reply(c) PROVE TypeOK' /\ Bounded'
  <2>1. tasks[c] - 1 \in 0 .. MaxTasks /\ posted[c] + 1 \in 0 .. MaxTasks
    BY <1>19, MaxTasksPositive DEF Reply
  <2>2. tasks' \in [Conns -> 0 .. MaxTasks] /\ posted' \in [Conns -> 0 .. MaxTasks]
    BY <1>19, <2>1 DEF Reply
  <2>3. Bounded'
    BY <1>19, <2>1, MaxTasksPositive DEF Reply
  <2> QED BY <1>19, <2>2, <2>3 DEF Reply
<1>20. ASSUME NEW c \in Conns, FallSilent(c) PROVE TypeOK' /\ Bounded'
  BY <1>20 DEF FallSilent
<1>21. CASE UNCHANGED vars
  BY <1>21 DEF vars
<1> QED
  BY <1>1, <1>2, <1>3, <1>4, <1>5, <1>6, <1>7, <1>8, <1>9, <1>10, <1>11, <1>12, <1>13,
     <1>14, <1>15, <1>16, <1>17, <1>18, <1>19, <1>20, <1>21
     DEF Next, MainStep, LoopStep, SweepStep, ConnEvent

\* The keys and the place of the new connection are inductive.
LEMMA KeysStep == IInv /\ [Next]_vars => Keys' /\ Entering'
<1> SUFFICES ASSUME IInv, [Next]_vars PROVE Keys' /\ Entering'
  OBVIOUS
<1> USE DEF IInv, TypeOK, Keys, Entering, objects, main, looper, replies
<1>0. NoConn \notin created
  BY ChannelsDistinct
<1>1. CASE Quiet
  BY <1>1 DEF Quiet
<1>2. ASSUME NEW c \in Conns, Accept(c) PROVE Keys' /\ Entering'
  <2>1. PICK fd \in FreeFds : fdOf' = [fdOf EXCEPT ![c] = fd]
    BY <1>2 DEF Accept
  <2>2. fd \in Fds /\ c # NoConn
    BY ChannelsDistinct DEF FreeFds
  <2>3. \A f \in Fds : server[f] # c /\ loop[f] # c
    BY <1>2, <2>2 DEF Accept
  <2> QED BY <1>2, <2>1, <2>2, <2>3 DEF Accept
<1>3. ASSUME NEW c \in Conns, HandleClose(c) PROVE Keys' /\ Entering'
  BY <1>3, <1>0 DEF HandleClose
<1>4. CASE InsertServer
  BY <1>4, <1>0 DEF InsertServer
<1>5. CASE LockConns
  BY <1>5 DEF LockConns
<1>6. CASE InsertLoop
  BY <1>6, <1>0 DEF InsertLoop
<1>7. CASE Return
  BY <1>7, <1>0 DEF Return
<1>8. CASE RemoveConn
  BY <1>8, <1>0 DEF RemoveConn
<1>9. ASSUME NEW fd \in Fds, SweepErases(fd) PROVE Keys' /\ Entering'
  BY <1>9, <1>0 DEF SweepErases
<1> QED BY <1>1, <1>2, <1>3, <1>4, <1>5, <1>6, <1>7, <1>8, <1>9, Effects DEF MainStep

\* Two living connections keep different descriptors.
LEMMA OwnStep == IInv /\ [Next]_vars => Own'
<1> SUFFICES ASSUME IInv, [Next]_vars PROVE Own'
  OBVIOUS
<1>0. TypeOK /\ Own /\ Entering /\ \A c \in Conns : tasks[c] \in Nat
  BY MaxTasksPositive DEF IInv, TypeOK
<1> USE DEF objects, main, looper, replies
<1>1. ASSUME created' = created, fdOf' = fdOf, \A c \in created : Held(c)' => Held(c)
      PROVE  Own'
  BY <1>0, <1>1 DEF Own
<1>2. CASE Quiet
  <2>1. \A c \in created : Held(c)' => Held(c)
    BY <1>0, <1>2 DEF Quiet, Held, TypeOK
  <2> QED BY <1>1, <1>2, <2>1 DEF Quiet
<1>3. ASSUME NEW c \in Conns, Accept(c) PROVE Own'
  <2>1. PICK fd \in FreeFds : fdOf' = [fdOf EXCEPT ![c] = fd]
    BY <1>3 DEF Accept
  <2>2. \A d \in created : fdOf'[d] = fdOf[d]
    BY <1>0, <1>3, <2>1 DEF Accept, TypeOK
  <2>3. fdOf'[c] = fd
    BY <1>0, <2>1 DEF TypeOK
  <2>4. \A d \in created : Held(d)' => Held(d)
    BY <1>0, <1>3 DEF Accept, Held
  <2>5. \A d \in created : Held(d) => fdOf[d] # fd
    BY DEF FreeFds
  <2> QED BY <1>0, <1>3, <2>2, <2>3, <2>4, <2>5 DEF Accept, Own
<1>4. ASSUME NEW c \in Conns, HandleClose(c) PROVE Own'
  <2>1. \A d \in created : Held(d)' => Held(d)
    BY <1>0, <1>4, ChannelsDistinct DEF HandleClose, Held, TypeOK
  <2> QED BY <1>1, <1>4, <2>1 DEF HandleClose
<1>5. CASE InsertServer
  <2>1. \A d \in created : Held(d)' => Held(d)
    BY <1>0, <1>5 DEF InsertServer, Held, TypeOK
  <2> QED BY <1>1, <1>5, <2>1 DEF InsertServer
<1>6. CASE LockConns
  BY <1>1, <1>6 DEF LockConns, Held
<1>7. CASE InsertLoop
  <2>1. \A d \in created : Held(d)' => Held(d)
    BY <1>0, <1>7 DEF InsertLoop, Held, TypeOK
  <2> QED BY <1>1, <1>7, <2>1 DEF InsertLoop
<1>8. CASE Return
  <2>1. \A d \in created : Held(d)' => Held(d)
    BY <1>0, <1>8, ChannelsDistinct DEF Return, Held, TypeOK
  <2> QED BY <1>1, <1>8, <2>1 DEF Return
<1>9. CASE RemoveConn
  <2>1. \A d \in created : Held(d)' => Held(d)
    BY <1>0, <1>9, ChannelsDistinct DEF RemoveConn, Held, TypeOK
  <2> QED BY <1>1, <1>9, <2>1 DEF RemoveConn
<1>10. ASSUME NEW fd \in Fds, SweepErases(fd) PROVE Own'
  <2>1. \A d \in created : Held(d)' => Held(d)
    BY <1>0, <1>10, ChannelsDistinct DEF SweepErases, Held, TypeOK
  <2> QED BY <1>1, <1>10, <2>1 DEF SweepErases
<1> QED
  BY <1>0, <1>2, <1>3, <1>4, <1>5, <1>6, <1>7, <1>8, <1>9, <1>10, Effects DEF MainStep

\* A new connection finds its place free.
LEMMA PlaceFree == IInv => InsertReplacesNothing
<1> SUFFICES ASSUME IInv PROVE InsertReplacesNothing
  OBVIOUS
<1> USE DEF IInv, TypeOK, Keys, Own, Entering, Held
<1>1. CASE mpc \in {"server", "lock", "insert"}
  <2>1. fresh \in created /\ fdOf[fresh] \in Fds
    BY <1>1
  <2>2. mpc = "server" => server[fdOf[fresh]] = NoConn
    BY <1>1, <2>1
  <2>3. loop[fdOf[fresh]] = NoConn
    BY <1>1, <2>1
  <2> QED BY <2>2, <2>3 DEF InsertReplacesNothing
<1>2. CASE mpc \in {"idle", "return"}
  BY <1>2 DEF InsertReplacesNothing
<1> QED BY <1>1, <1>2

\* The two facts about the maps are inductive.
LEMMA TrackStep == IInv /\ [Next]_vars => Tracked' /\ ServerEntriesSweepable'
<1> SUFFICES ASSUME IInv, [Next]_vars PROVE Tracked' /\ ServerEntriesSweepable'
  OBVIOUS
<1>0. /\ TypeOK /\ Keys /\ Entering /\ Tracked /\ ServerEntriesSweepable
      /\ InsertReplacesNothing /\ NoConn \notin created
  BY PlaceFree, ChannelsDistinct DEF IInv, TypeOK
<1> USE DEF TypeOK, Keys, Entering, Tracked, ServerEntriesSweepable, InsertReplacesNothing,
            objects, main, looper, replies
<1>1. CASE Quiet
  BY <1>0, <1>1 DEF Quiet
<1>2. ASSUME NEW c \in Conns, Accept(c) PROVE Tracked' /\ ServerEntriesSweepable'
  <2>1. \A d \in created : fdOf'[d] = fdOf[d] /\ d # fresh
    BY <1>0, <1>2 DEF Accept
  <2> QED BY <1>0, <1>2, <2>1 DEF Accept
<1>3. ASSUME NEW c \in Conns, HandleClose(c) PROVE Tracked' /\ ServerEntriesSweepable'
  BY <1>0, <1>3 DEF HandleClose, Dispatch
<1>4. CASE InsertServer
  BY <1>0, <1>4 DEF InsertServer
<1>5. CASE LockConns
  BY <1>0, <1>5 DEF LockConns
<1>6. CASE InsertLoop
  <2>1. fresh \in created /\ fdOf[fresh] \in Fds /\ loop[fdOf[fresh]] = NoConn
    BY <1>0, <1>6 DEF InsertLoop
  <2>2. Tracked'
    BY <1>0, <1>6, <2>1 DEF InsertLoop
  <2>3. ServerEntriesSweepable'
    BY <1>0, <1>6, <2>1 DEF InsertLoop
  <2> QED BY <2>2, <2>3
<1>7. CASE Return
  BY <1>0, <1>7 DEF Return
<1>8. CASE RemoveConn
  BY <1>0, <1>8 DEF RemoveConn
<1>9. ASSUME NEW fd \in Fds, SweepErases(fd) PROVE Tracked' /\ ServerEntriesSweepable'
  <2>1. Tracked'
    BY <1>0, <1>9 DEF SweepErases
  <2>2. ServerEntriesSweepable'
    BY <1>0, <1>9 DEF SweepErases
  <2> QED BY <2>1, <2>2
<1> QED BY <1>0, <1>1, <1>2, <1>3, <1>4, <1>5, <1>6, <1>7, <1>8, <1>9, Effects DEF MainStep

-----------------------------------------------------------------------------
(***************************************************************************)
(* The parts hold together in every reachable state.                       *)
(***************************************************************************)
THEOREM Invariance == Spec => []IInv
<1>1. Init => IInv
  BY ChannelsDistinct, MaxFdNat, MaxTasksPositive
     DEF Init, IInv, TypeOK, Bounded, Keys, Own, Entering, Tracked, ServerEntriesSweepable
<1>2. IInv /\ [Next]_vars => IInv'
  BY TypeStep, KeysStep, OwnStep, TrackStep DEF IInv
<1> QED BY <1>1, <1>2, PTL DEF Spec

(***************************************************************************)
(* The types of the maps, the threads and the counters.                    *)
(***************************************************************************)
THEOREM TypeCorrect == Spec => []TypeOK
<1>1. IInv => TypeOK
  BY DEF IInv
<1> QED BY <1>1, Invariance, PTL

(***************************************************************************)
(* handleNewConnection never pushes a connection out of a map.             *)
(***************************************************************************)
THEOREM InsertCorrect == Spec => []InsertReplacesNothing
BY Invariance, PlaceFree, PTL

(***************************************************************************)
(* Every entry of the server's map will be met by a sweep.                 *)
(***************************************************************************)
THEOREM SweepableCorrect == Spec => []ServerEntriesSweepable
<1>1. IInv => ServerEntriesSweepable
  BY DEF IInv
<1> QED BY <1>1, Invariance, PTL

(***************************************************************************)
(* Nothing but a sweep makes a Channel* or a posted `this' dangle.         *)
(***************************************************************************)
THEOREM OnlySweepFreesCorrect == Spec => []OnlySweepFrees
<1>1. IInv => OnlySweepFrees
  BY DEF IInv, Keys, Tracked, OnlySweepFrees, Held
<1> QED BY <1>1, Invariance, PTL
=============================================================================
