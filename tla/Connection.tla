----------------------------- MODULE Connection -----------------------------
(***************************************************************************)
(* One client connection: Connection.{h,cpp} with its Channel, its entry   *)
(* in Epoll, its Buffers and the path of a message through EchoServer, the *)
(* worker pool and the task queue of its event loop.                       *)
(*                                                                         *)
(* The main thread constructs the connection, the loop thread handles its  *)
(* events, workers compute replies and post them to the loop thread.  The  *)
(* loop thread is cut where another thread can tell: between the return of *)
(* epoll_wait and the handler, between two reads, between two messages.    *)
(* The two queues are the FIFO queues of ThreadPool.tla and EventLoop.tla. *)
(***************************************************************************)
EXTENDS Naturals, Sequences, FiniteSets

CONSTANTS Messages,  \* how many requests the client may send; they are 1, 2, ..
          Units,     \* how many segments one request arrives in
          Workers,   \* the threads of EchoServer::m_threadpool; may be empty
          SendSpace  \* the replies the kernel accepts before the client reads

ASSUME MessagesNat == Messages \in Nat
ASSUME UnitsPositive == Units \in Nat \ {0}
ASSUME WorkersFinite == IsFiniteSet(Workers)
ASSUME SendSpacePositive == SendSpace \in Nat \ {0}

VARIABLES
  \* the client and the two directions of the socket
  sent,         \* how many segments the client has sent
  eof,          \* the client has closed its sending side
  rcv,          \* segments the server has not read yet
  snd,          \* replies the kernel has accepted and the client has not read
  received,     \* the replies the client has read
  \* the epoll instance and the Channel
  registered,   \* is the fd in the epoll tree
  edge,         \* is the fd in epoll's ready list (it is edge-triggered)
  inepoll,      \* m_inepoll
  events,       \* m_events without EPOLLET, a subset of {"in", "out"}
  revents,      \* m_revents between epoll_wait and handleEvent, else empty
  \* the Connection
  setup,        \* how far the main thread is in constructing it (see Setup)
  disconnected, \* m_disconnected
  inbuf,        \* m_inputbuffer, as a sequence of segments
  outbuf,       \* m_outputbuffer, as a sequence of replies
  loop,         \* what the loop thread does with it: "idle", "read" or "pick"
  message,      \* the local variable message of onMessage
  \* the queues and the workers
  loopq,        \* replies in EventLoop::m_taskqueue
  workq,        \* messages in ThreadPool::m_taskqueue
  wpc, work,    \* where each worker is, and its message
  crash         \* "none", or what ended the process

client  == <<sent, eof, rcv, snd, received>>
poll    == <<registered, edge, inepoll, events>>
conn    == <<setup, disconnected, inbuf, outbuf>>
thread  == <<revents, loop, message>>
pool    == <<loopq, workq, wpc, work>>
vars    == <<client, poll, conn, thread, pool, crash>>

NoMsg == 0   \* the empty string

\* The values of setup: the channel is not registered yet; it is, but none of
\* the four callbacks is set; the last one that was set.
Setup == <<"new", "registered", "close", "error", "message", "complete">>

\* The request that the k-th segment of the stream belongs to.
RequestOf(k) == (k + Units - 1) \div Units

Full == Len(snd) >= SendSpace

\* What a poll of the socket finds, of what ev asks for.
Level(ev) ==
  {e \in ev : \/ e = "in" /\ (rcv # << >> \/ eof)
              \/ e = "out" /\ ~Full}

Init ==
  /\ sent = 0 /\ eof = FALSE /\ rcv = << >> /\ snd = << >> /\ received = << >>
  /\ registered = FALSE /\ edge = FALSE /\ inepoll = FALSE /\ events = {}
  /\ setup = 1 /\ disconnected = FALSE /\ inbuf = << >> /\ outbuf = << >>
  /\ revents = {} /\ loop = "idle" /\ message = NoMsg
  /\ loopq = << >> /\ workq = << >>
  /\ wpc = [w \in Workers |-> "idle"] /\ work = [w \in Workers |-> NoMsg]
  /\ crash = "none"

-----------------------------------------------------------------------------
(* The client and the kernel.  An event of a kind that the fd is           *)
(* registered for puts the fd into the ready list.                         *)

Signal(e) == edge' = (edge \/ (registered /\ e \in events))

ClientSend ==
  /\ ~eof /\ sent < Messages * Units
  /\ sent' = sent + 1
  /\ rcv' = Append(rcv, sent + 1)
  /\ Signal("in")
  /\ UNCHANGED <<eof, snd, received, registered, inepoll, events, conn, thread, pool, crash>>

ClientClose ==
  /\ ~eof
  /\ eof' = TRUE
  /\ Signal("in")
  /\ UNCHANGED <<sent, rcv, snd, received, registered, inepoll, events, conn, thread, pool, crash>>

\* The client reads a reply; a full socket becomes writable again.
ClientReceive ==
  /\ snd # << >>
  /\ received' = Append(received, Head(snd))
  /\ snd' = Tail(snd)
  /\ IF Full THEN Signal("out") ELSE UNCHANGED edge
  /\ UNCHANGED <<sent, eof, rcv, registered, inepoll, events, conn, thread, pool, crash>>

-----------------------------------------------------------------------------
(* Epoll::updataChannel: ADD or MOD, both of which poll the socket at once;*)
(* MOD of an fd that is not in the tree fails and ends the process.        *)

UpdataChannel(ev) ==
  /\ events' = ev
  /\ IF inepoll /\ ~registered
     THEN crash' = "mod_error" /\ UNCHANGED <<registered, edge, inepoll>>
     ELSE /\ registered' = TRUE
          /\ inepoll' = TRUE
          /\ edge' = (edge \/ Level(ev) # {})
          /\ UNCHANGED crash

EnableReading == UpdataChannel(events \cup {"in"})
EnableWriting == UpdataChannel(events \cup {"out"})

\* Called only in the handler of a channel that is in the tree: MOD succeeds.
DisableWriting ==
  /\ events' = events \ {"out"}
  /\ edge' = (edge \/ Level(events') # {})

\* Channel::remove: disableAll and DEL.  m_inepoll stays as it is.
Remove == events' = {} /\ registered' = FALSE /\ edge' = FALSE

-----------------------------------------------------------------------------
(* The main thread in TcpServer::handleNewConnection.                      *)

\* The constructor of Connection ends with enablereading().
Construct ==
  /\ Setup[setup] = "new"
  /\ setup' = setup + 1
  /\ EnableReading
  /\ UNCHANGED <<client, disconnected, inbuf, outbuf, thread, pool>>

\* Then the callbacks are set, one after the other.
SetCallback ==
  /\ Setup[setup] \notin {"new", "complete"}
  /\ setup' = setup + 1
  /\ UNCHANGED <<client, poll, disconnected, inbuf, outbuf, thread, pool, crash>>

\* Calling a callback that is not set throws std::bad_function_call.
Installed(callback) == \E i \in 1 .. setup : Setup[i] = callback

Call(callback) == crash' = IF Installed(callback) THEN crash ELSE "no_callback"

-----------------------------------------------------------------------------
(* The loop thread.                                                        *)

\* epoll_wait takes the fd off the ready list and reports what a poll finds.
EpollWait ==
  /\ loop = "idle" /\ revents = {}
  /\ edge
  /\ edge' = FALSE
  /\ revents' = Level(events)
  /\ UNCHANGED <<client, registered, inepoll, events, conn, loop, message, pool, crash>>

\* handleEvent: a readable fd is only read, even if it is writable as well.
HandleRead ==
  /\ loop = "idle" /\ "in" \in revents
  /\ loop' = "read"
  /\ revents' = {}
  /\ UNCHANGED <<client, poll, conn, message, pool, crash>>

\* Fault: onMessage reads once instead of until EAGAIN.
ReadOnce ==
  /\ loop = "read" /\ rcv # << >>
  /\ \E n \in 1 .. Len(rcv) :
       /\ inbuf' = inbuf \o SubSeq(rcv, 1, n)
       /\ rcv' = SubSeq(rcv, n + 1, Len(rcv))
  /\ loop' = "pick"
  /\ message' = NoMsg
  /\ UNCHANGED <<sent, eof, snd, received, poll, setup, disconnected, outbuf, revents, pool, crash>>

\* onMessage, read() > 0: some of what has arrived goes into the buffer.
ReadSome ==
  /\ loop = "read" /\ rcv # << >>
  /\ \E n \in 1 .. Len(rcv) :
       /\ inbuf' = inbuf \o SubSeq(rcv, 1, n)
       /\ rcv' = SubSeq(rcv, n + 1, Len(rcv))
  /\ UNCHANGED <<sent, eof, snd, received, poll, setup, disconnected, outbuf, thread, pool, crash>>

\* Fault: the messages already read are handled after the channel is removed.
ReadEofThenPick ==
  /\ loop = "read" /\ rcv = << >> /\ eof
  /\ Remove
  /\ Call("close")
  /\ loop' = "pick"
  /\ message' = NoMsg
  /\ UNCHANGED <<client, inepoll, setup, disconnected, inbuf, outbuf, revents, pool>>

\* Fault: the end of the stream is taken for an empty socket.
ReadEofAsAgain ==
  /\ loop = "read" /\ rcv = << >> /\ eof
  /\ loop' = "pick"
  /\ message' = NoMsg
  /\ UNCHANGED <<client, poll, conn, revents, pool, crash>>

\* onMessage, read() = 0: closeCallback.
ReadEof ==
  /\ loop = "read" /\ rcv = << >> /\ eof
  /\ disconnected' = TRUE
  /\ Remove
  /\ Call("close")
  /\ loop' = "idle"
  /\ UNCHANGED <<client, inepoll, setup, inbuf, outbuf, revents, message, pool>>

\* onMessage, EAGAIN: the socket is empty, look for messages.
ReadAgain ==
  /\ loop = "read" /\ rcv = << >> /\ ~eof
  /\ loop' = "pick"
  /\ message' = NoMsg
  /\ UNCHANGED <<client, poll, conn, revents, pool, crash>>

\* A reply and its header are one unit of the output buffer.
AppendWithsep(m) == outbuf' = Append(outbuf, m)

\* Fault: enablewriting is skipped when the channel is already watched.
SendIfUnwatched(m) ==
  /\ AppendWithsep(m)
  /\ IF "out" \in events THEN UNCHANGED <<poll, crash>> ELSE EnableWriting

\* sendinLoop: append to the output buffer, enablewriting.
SendInLoop(m) ==
  /\ AppendWithsep(m)
  /\ EnableWriting

\* handleMessage: answered here if there are no workers, else by a worker.
HandleMessage(m) ==
  IF ~Installed("message")
  THEN crash' = "no_callback" /\ UNCHANGED <<poll, outbuf, workq>>
  ELSE IF Workers = {}
       THEN SendInLoop(m) /\ UNCHANGED workq
       ELSE workq' = Append(workq, m) /\ UNCHANGED <<poll, outbuf, crash>>

\* Fault: pickMessage asks for one byte more than the message has.
PickTooLate ==
  /\ loop = "pick" /\ inbuf # << >>
  /\ IF Len(inbuf) > Units
     THEN /\ message' = RequestOf(Head(inbuf))
          /\ inbuf' = SubSeq(inbuf, Units + 1, Len(inbuf))
     ELSE UNCHANGED <<message, inbuf>>
  /\ HandleMessage(message')
  /\ UNCHANGED <<client, setup, disconnected, revents, loop, loopq, wpc, work>>

\* pickMessage returns true whenever the buffer is not empty; if the buffer
\* holds no complete message, it leaves both its argument and the buffer alone.
Pick ==
  /\ loop = "pick" /\ inbuf # << >>
  /\ IF Len(inbuf) >= Units
     THEN /\ message' = RequestOf(Head(inbuf))
          /\ inbuf' = SubSeq(inbuf, Units + 1, Len(inbuf))
     ELSE UNCHANGED <<message, inbuf>>
  /\ HandleMessage(message')
  /\ UNCHANGED <<client, setup, disconnected, revents, loop, loopq, wpc, work>>

PickNothing ==
  /\ loop = "pick" /\ inbuf = << >>
  /\ loop' = "idle"
  /\ UNCHANGED <<client, poll, conn, revents, message, pool, crash>>

\* How many replies of the output buffer the kernel accepts.
Fits == IF Len(outbuf) <= SendSpace - Len(snd) THEN Len(outbuf) ELSE SendSpace - Len(snd)

FinishWrite ==
  IF outbuf' = << >>
  THEN /\ DisableWriting
       /\ Call("complete")
  ELSE UNCHANGED <<events, edge, crash>>

\* Fault: what was sent is erased only when everything was.
WriteKeepsShort ==
  /\ loop = "idle" /\ revents = {"out"}
  /\ revents' = {}
  /\ LET n == Fits IN
       /\ snd' = snd \o SubSeq(outbuf, 1, n)
       /\ outbuf' = IF n = Len(outbuf) THEN << >> ELSE outbuf
  /\ FinishWrite
  /\ UNCHANGED <<sent, eof, rcv, received, registered, inepoll, setup, disconnected, inbuf,
                 loop, message, pool>>

\* Fault: a short send erases the whole output buffer.
WriteErasesAll ==
  /\ loop = "idle" /\ revents = {"out"}
  /\ revents' = {}
  /\ snd' = snd \o SubSeq(outbuf, 1, Fits)
  /\ outbuf' = << >>
  /\ FinishWrite
  /\ UNCHANGED <<sent, eof, rcv, received, registered, inepoll, setup, disconnected, inbuf,
                 loop, message, pool>>

\* writeCallback: send what fits, and stop watching when all was sent.
WriteCallback ==
  /\ loop = "idle" /\ revents = {"out"}
  /\ revents' = {}
  /\ snd' = snd \o SubSeq(outbuf, 1, Fits)
  /\ outbuf' = SubSeq(outbuf, Fits + 1, Len(outbuf))
  /\ FinishWrite
  /\ UNCHANGED <<sent, eof, rcv, received, registered, inepoll, setup, disconnected, inbuf,
                 loop, message, pool>>

\* handleWakeup calls sendinLoop for a reply that a worker posted.
RunPosted ==
  /\ loop = "idle" /\ loopq # << >>
  /\ loopq' = Tail(loopq)
  /\ SendInLoop(Head(loopq))
  /\ UNCHANGED <<client, setup, disconnected, inbuf, thread, workq, wpc, work>>

-----------------------------------------------------------------------------
(* A worker: take a message, test m_disconnected in send, post the reply.  *)

Take(w) ==
  /\ wpc[w] = "idle" /\ workq # << >>
  /\ work' = [work EXCEPT ![w] = Head(workq)]
  /\ workq' = Tail(workq)
  /\ wpc' = [wpc EXCEPT ![w] = "check"]
  /\ UNCHANGED <<client, poll, conn, thread, loopq, crash>>

CheckConnected(w) ==
  /\ wpc[w] = "check"
  /\ wpc' = [wpc EXCEPT ![w] = IF disconnected THEN "idle" ELSE "post"]
  /\ UNCHANGED <<client, poll, conn, thread, loopq, workq, work, crash>>

\* Fault: the worker sends at once when the output buffer is empty.
PostReplyAtOnce(w) ==
  /\ wpc[w] = "post"
  /\ IF outbuf = << >> /\ ~Full
     THEN snd' = Append(snd, work[w]) /\ UNCHANGED loopq
     ELSE loopq' = Append(loopq, work[w]) /\ UNCHANGED snd
  /\ wpc' = [wpc EXCEPT ![w] = "idle"]
  /\ UNCHANGED <<sent, eof, rcv, received, poll, conn, thread, workq, work, crash>>

PostReply(w) ==
  /\ wpc[w] = "post"
  /\ loopq' = Append(loopq, work[w])
  /\ wpc' = [wpc EXCEPT ![w] = "idle"]
  /\ UNCHANGED <<client, poll, conn, thread, workq, work, crash>>

-----------------------------------------------------------------------------
Running == crash = "none"

ClientStep == ClientSend \/ ClientClose \/ ClientReceive
HandlerStep ==
  \/ HandleRead \/ ReadSome \/ ReadEof \/ ReadAgain \/ Pick \/ PickNothing \/ WriteCallback
WorkerStep(w) == Take(w) \/ CheckConnected(w) \/ PostReply(w)

Next ==
  /\ Running
  /\ \/ ClientStep
     \/ Construct \/ SetCallback
     \/ EpollWait \/ HandlerStep \/ RunPosted
     \/ \E w \in Workers : WorkerStep(w)

Spec == Init /\ [][Next]_vars

(***************************************************************************)
(* The threads of the server are scheduled and the client reads what was   *)
(* sent to it; it need not send or close anything.  That epoll_wait gets   *)
(* to the ready fd and to the tasks of the loop again and again is what    *)
(* EventLoop!PostedRuns shows of the loop.                                 *)
(***************************************************************************)
Fairness ==
  /\ WF_vars(Construct \/ SetCallback)
  /\ WF_vars(Running /\ HandlerStep)
  /\ SF_vars(Running /\ EpollWait) /\ SF_vars(Running /\ RunPosted)
  /\ \A w \in Workers : WF_vars(Running /\ WorkerStep(w))
  /\ WF_vars(Running /\ ClientReceive)

FairSpec == Spec /\ Fairness

-----------------------------------------------------------------------------
(* Properties.                                                             *)

Elements(s) == {s[i] : i \in 1 .. Len(s)}

\* Replies from the moment they are posted to the loop, in order.
Replies == received \o snd \o outbuf \o loopq

(***************************************************************************)
(* Types.  Replies are to requests of the client, never to the empty       *)
(* message that onMessage starts with; the kernel's buffer is bounded.     *)
(***************************************************************************)
TypeOK ==
  /\ sent \in 0 .. Messages * Units /\ eof \in BOOLEAN
  /\ rcv \in Seq(1 .. Messages * Units) /\ inbuf \in Seq(1 .. Messages * Units)
  /\ snd \in Seq(1 .. Messages) /\ received \in Seq(1 .. Messages)
  /\ outbuf \in Seq(1 .. Messages)
  /\ loopq \in Seq(1 .. Messages) /\ workq \in Seq(1 .. Messages)
  /\ Len(snd) <= SendSpace
  /\ registered \in BOOLEAN /\ edge \in BOOLEAN /\ inepoll \in BOOLEAN
  /\ events \in SUBSET {"in", "out"} /\ revents \in SUBSET {"in", "out"}
  /\ setup \in 1 .. Len(Setup) /\ disconnected \in BOOLEAN
  /\ loop \in {"idle", "read", "pick"} /\ message \in 0 .. Messages
  /\ wpc \in [Workers -> {"idle", "check", "post"}]
  /\ work \in [Workers -> 0 .. Messages]
  /\ crash \in {"none", "mod_error", "no_callback"}

(***************************************************************************)
(* Edge-triggered reading never leaves data or the end of the stream       *)
(* behind: what has arrived is still to be reported, was reported, or is   *)
(* being read (Connection.cpp:64-88 under EPOLLET).                        *)
(***************************************************************************)
NoLostInput ==
  registered /\ (rcv # << >> \/ eof) => edge \/ "in" \in revents \/ loop = "read"

(***************************************************************************)
(* Output is never stranded.  handleEvent drops the writable half of an    *)
(* event that is also readable (Channel.cpp:79-86), so an edge is lost;    *)
(* whenever replies are buffered and no edge is to come, the kernel is     *)
(* full or another reply is on its way that will arm the channel again.    *)
(***************************************************************************)
Answering == workq # << >> \/ loopq # << >> \/ \E w \in Workers : wpc[w] # "idle"

NoLostOutput ==
  registered /\ Running =>
    /\ outbuf # << >> <=> "out" \in events
    /\ outbuf # << >> => edge \/ revents # {} \/ loop # "idle" \/ Full \/ Answering

(***************************************************************************)
(* The connection implements the echo service: no reply is made up, lost   *)
(* in the middle, or sent twice; with at most one worker they come in      *)
(* order (the paths of handleMessage, send, sendinLoop and writeCallback). *)
(***************************************************************************)
ES == INSTANCE EchoService
        WITH asked <- sent \div Units, answered <- received,
             Ordered <- Cardinality(Workers) <= 1

ImplementsEchoService == ES!ESSpec

(***************************************************************************)
(* No request is lost inside the server, however it is split: until the    *)
(* connection is closed (onMessage drops what it has read, send what was   *)
(* computed), each request that has arrived is in the stream, queued for   *)
(* a worker, with a worker, or on its way back to the client.              *)
(***************************************************************************)
NoRequestLost ==
  Running /\ ~disconnected =>
    \A m \in 1 .. sent \div Units :
       \/ \E s \in Elements(inbuf \o rcv) : RequestOf(s) = m
       \/ m \in Elements(workq)
       \/ \E w \in Workers : wpc[w] # "idle" /\ work[w] = m
       \/ m \in Elements(Replies)

(***************************************************************************)
(* Replies reach the client as the workers posted them: through the task   *)
(* queue of the loop, short sends (Connection.cpp:122-124), a full kernel  *)
(* and a close, none is dropped, doubled or overtaken, and a new one gets  *)
(* in line behind all others.                                              *)
(***************************************************************************)
RepliesKeepOrder ==
  [][/\ Len(Replies) <= Len(Replies')
     /\ SubSeq(Replies', 1, Len(Replies)) = Replies]_vars

(***************************************************************************)
(* A client that keeps its connection open gets an answer to every request *)
(* it completed, unless the process ends.                                  *)
(***************************************************************************)
RequestAnswered ==
  \A m \in 1 .. Messages :
    sent >= m * Units ~> (m \in Elements(received) \/ eof \/ ~Running)

(***************************************************************************)
(* The end of the client's stream is noticed although EPOLLRDHUP is not    *)
(* asked for: m_disconnected is set, unless the process ends.              *)
(***************************************************************************)
CloseNoticed == eof ~> (disconnected \/ ~Running)

(***************************************************************************)
(* Epoll.cpp:23 says that a channel whose m_inepoll is set is in the epoll *)
(* tree, so EPOLL_CTL_MOD finds it and the process does not exit.          *)
(***************************************************************************)
ModFindsChannel == crash # "mod_error"

(***************************************************************************)
(* Connection.h:28-34 says that the callbacks call the TcpServer: they are *)
(* set before the loop thread calls them.                                  *)
(***************************************************************************)
CallbacksInstalled == crash # "no_callback"

(***************************************************************************)
(* Buffer.h:31 says that pickMessage reads the body of a message: a        *)
(* message that is handed to a worker was taken out of the buffer.         *)
(***************************************************************************)
PickConsumes == [][Len(workq') > Len(workq) => Len(inbuf') = Len(inbuf) - Units]_vars
=============================================================================
