-------------------------- MODULE ConnectionProofs --------------------------
(***************************************************************************)
(* Proofs about Connection for any number of requests, segments, workers   *)
(* and any space in the kernel.                                            *)
(***************************************************************************)
EXTENDS Connection, SequenceTheorems, TLAPS

(***************************************************************************)
(* The inductive invariant, in parts.                                      *)
(*  Shape      the types that hold for every Units (TypeOK is stronger)    *)
(*  Fresh      before the constructor registers the channel nothing runs   *)
(*  Watched    a registered channel is open and watched for reading        *)
(*  Reported   a report of input is still true when it is handled          *)
(*  Output     NoLostOutput, with the promise of each place made explicit: *)
(*             a loop thread that is reading has something to answer       *)
(***************************************************************************)
Shape ==
  /\ sent \in Int /\ rcv \in Seq(Int) /\ inbuf \in Seq(Int)
  /\ snd \in Seq(Int) /\ received \in Seq(Int) /\ outbuf \in Seq(Int)
  /\ loopq \in Seq(Int) /\ workq \in Seq(Int)
  /\ Len(snd) <= SendSpace
  /\ eof \in BOOLEAN /\ registered \in BOOLEAN /\ edge \in BOOLEAN /\ inepoll \in BOOLEAN
  /\ events \in SUBSET {"in", "out"} /\ revents \in SUBSET {"in", "out"}
  /\ setup \in 1 .. 6 /\ disconnected \in BOOLEAN
  /\ loop \in {"idle", "read", "pick"} /\ message \in Int
  /\ wpc \in [Workers -> {"idle", "check", "post"}] /\ work \in [Workers -> Int]
  /\ crash \in {"none", "mod_error", "no_callback"}

Fresh ==
  setup = 1 =>
    /\ ~registered /\ ~edge /\ revents = {} /\ loop = "idle" /\ events = {}
    /\ ~disconnected
    /\ outbuf = << >> /\ loopq = << >> /\ workq = << >>
    /\ \A w \in Workers : wpc[w] = "idle"

Watched ==
  /\ setup # 1 <=> inepoll
  /\ registered => "in" \in events /\ ~disconnected

Reported ==
  /\ "in" \in revents => rcv # << >> \/ eof
  /\ loop # "idle" => revents = {}

Promised ==
  \/ edge \/ revents # {}
  \/ loop = "read" /\ (rcv # << >> \/ eof \/ inbuf # << >>)
  \/ loop = "pick" /\ inbuf # << >>
  \/ Full \/ Answering

Output ==
  registered /\ Running =>
    /\ outbuf # << >> <=> "out" \in events
    /\ outbuf # << >> => Promised

IInv == Shape /\ Fresh /\ Watched /\ Reported /\ NoLostInput /\ Output

-----------------------------------------------------------------------------
(* What the compound steps do to the sequences.                            *)

\* A sequence to which something was appended is not empty.
LEMMA AppendNotEmpty ==
  ASSUME NEW s \in Seq(Int), NEW e \in Int
  PROVE  Append(s, e) # << >>
<1>1. Len(Append(s, e)) = Len(s) + 1 /\ Len(s) \in Nat
  OBVIOUS
<1>2. Len(Append(s, e)) # 0
  BY <1>1
<1> QED BY <1>2

\* The first and the last value of setup are the only ones tested.
LEMMA SetupValues ==
  ASSUME Shape
  PROVE  /\ Setup[setup] = "new" <=> setup = 1
         /\ Setup[setup] = "complete" <=> setup = 6
BY DEF Shape, Setup

\* A prefix and the rest of a sequence.
LEMMA Split ==
  ASSUME NEW S, NEW s \in Seq(S), NEW n \in 0 .. Len(s)
  PROVE  /\ SubSeq(s, 1, n) \in Seq(S) /\ Len(SubSeq(s, 1, n)) = n
         /\ SubSeq(s, n + 1, Len(s)) \in Seq(S)
         /\ Len(SubSeq(s, n + 1, Len(s))) = Len(s) - n
         /\ SubSeq(s, n + 1, Len(s)) = << >> <=> n = Len(s)
<1>1. \A i \in 1 .. Len(s) : s[i] \in S
  OBVIOUS
<1>2. SubSeq(s, 1, n) \in Seq(S) /\ Len(SubSeq(s, 1, n)) = n
  BY <1>1, SubSeqProperties, n \in Int, 1 \in Int
<1>3. n + 1 \in Int /\ Len(s) \in Int /\ \A i \in n + 1 .. Len(s) : s[i] \in S
  BY <1>1
<1>4. /\ SubSeq(s, n + 1, Len(s)) \in Seq(S)
      /\ Len(SubSeq(s, n + 1, Len(s))) = IF n + 1 <= Len(s) THEN Len(s) - (n + 1) + 1 ELSE 0
  BY <1>3, SubSeqProperties
<1>5. Len(SubSeq(s, n + 1, Len(s))) = Len(s) - n
  BY <1>4
<1>6. \A t \in Seq(S) : t = << >> <=> Len(t) = 0
  OBVIOUS
<1>7. SubSeq(s, n + 1, Len(s)) = << >> <=> Len(SubSeq(s, n + 1, Len(s))) = 0
  BY <1>4, <1>6
<1>8. SubSeq(s, n + 1, Len(s)) = << >> <=> n = Len(s)
  BY <1>5, <1>7
<1> QED BY <1>2, <1>4, <1>5, <1>8

\* writeCallback moves a prefix of the output; what it leaves fills the kernel.
LEMMA WriteFacts ==
  ASSUME Shape, WriteCallback
  PROVE  /\ snd' \in Seq(Int) /\ Len(snd') <= SendSpace
         /\ outbuf' \in Seq(Int)
         /\ outbuf' # << >> => outbuf # << >> /\ Len(snd') = SendSpace
<1> USE DEF Shape
<1>1. SendSpace \in Nat /\ Len(snd) \in Nat /\ Len(outbuf) \in Nat /\ Len(snd) <= SendSpace
  BY SendSpacePositive
<1>2. Fits \in 0 .. Len(outbuf) /\ Len(snd) + Fits <= SendSpace
      /\ (Fits = Len(outbuf) \/ Len(snd) + Fits = SendSpace)
  BY <1>1 DEF Fits
<1>3. /\ snd' = snd \o SubSeq(outbuf, 1, Fits)
      /\ outbuf' = SubSeq(outbuf, Fits + 1, Len(outbuf))
  BY DEF WriteCallback
<1>4. /\ SubSeq(outbuf, 1, Fits) \in Seq(Int) /\ Len(SubSeq(outbuf, 1, Fits)) = Fits
      /\ SubSeq(outbuf, Fits + 1, Len(outbuf)) \in Seq(Int)
      /\ SubSeq(outbuf, Fits + 1, Len(outbuf)) = << >> <=> Fits = Len(outbuf)
  BY <1>2, Split
<1>5. snd' \in Seq(Int) /\ Len(snd') = Len(snd) + Fits
  BY <1>3, <1>4
<1>6. outbuf = << >> => Fits = Len(outbuf)
  BY <1>1, <1>2
<1> QED BY <1>2, <1>3, <1>4, <1>5, <1>6

\* A read moves a non-empty prefix from the socket to the input buffer.
LEMMA ReadFacts ==
  ASSUME Shape, ReadSome
  PROVE  inbuf' \in Seq(Int) /\ inbuf' # << >> /\ rcv' \in Seq(Int)
<1> USE DEF Shape
<1>1. PICK n \in 1 .. Len(rcv) : /\ inbuf' = inbuf \o SubSeq(rcv, 1, n)
                                 /\ rcv' = SubSeq(rcv, n + 1, Len(rcv))
  BY DEF ReadSome
<1>2. n \in 0 .. Len(rcv)
  BY <1>1
<1>3. /\ SubSeq(rcv, 1, n) \in Seq(Int) /\ Len(SubSeq(rcv, 1, n)) = n
      /\ SubSeq(rcv, n + 1, Len(rcv)) \in Seq(Int)
  BY <1>2, Split
<1>4. inbuf' \in Seq(Int) /\ Len(inbuf') = Len(inbuf) + n /\ Len(inbuf) >= 0
  BY <1>1, <1>3
<1>5. Len(inbuf') # 0
  BY <1>1, <1>4
<1> QED BY <1>1, <1>3, <1>4, <1>5

\* pickMessage leaves an input buffer and a message.
LEMMA PickFacts ==
  ASSUME Shape, Pick
  PROVE  inbuf' \in Seq(Int) /\ message' \in Int
<1> USE DEF Shape
<1>1. CASE Len(inbuf) >= Units
  <2>1. /\ message' = RequestOf(Head(inbuf))
        /\ inbuf' = SubSeq(inbuf, Units + 1, Len(inbuf))
    BY <1>1 DEF Pick
  <2>2. Units \in 0 .. Len(inbuf) /\ Units \in Nat \ {0} /\ Head(inbuf) \in Int
    BY <1>1, UnitsPositive DEF Pick
  <2>3. SubSeq(inbuf, Units + 1, Len(inbuf)) \in Seq(Int)
    BY <2>2, Split
  <2>4. RequestOf(Head(inbuf)) \in Int
    BY <2>2 DEF RequestOf
  <2> QED BY <2>1, <2>3, <2>4
<1>2. CASE ~(Len(inbuf) >= Units)
  BY <1>2 DEF Pick
<1> QED BY <1>1, <1>2

-----------------------------------------------------------------------------
\* updataChannel leaves the types of what it assigns.
LEMMA UpdataFacts ==
  ASSUME Shape, NEW ev \in SUBSET {"in", "out"}, UpdataChannel(ev)
  PROVE  /\ registered' \in BOOLEAN /\ edge' \in BOOLEAN /\ inepoll' \in BOOLEAN
         /\ events' \in SUBSET {"in", "out"}
         /\ crash' \in {"none", "mod_error", "no_callback"}
BY DEF Shape, UpdataChannel

\* sendinLoop appends one reply.
LEMMA SendFacts ==
  ASSUME Shape, NEW m \in Int, SendInLoop(m)
  PROVE  /\ registered' \in BOOLEAN /\ edge' \in BOOLEAN /\ inepoll' \in BOOLEAN
         /\ events' \in SUBSET {"in", "out"}
         /\ crash' \in {"none", "mod_error", "no_callback"}
         /\ outbuf' \in Seq(Int)
<1>1. events \cup {"out"} \in SUBSET {"in", "out"} /\ UpdataChannel(events \cup {"out"})
  BY DEF Shape, SendInLoop, AppendWithsep, EnableWriting
<1>2. outbuf' \in Seq(Int)
  BY DEF Shape, SendInLoop, AppendWithsep, EnableWriting
<1> QED BY <1>1, <1>2, UpdataFacts

\* A reply that reaches the output buffer of a registered channel is watched,
\* and a writable socket is in the ready list again.
LEMMA SendPromise ==
  ASSUME Shape, inepoll, NEW m \in Int, SendInLoop(m), registered', Running'
  PROVE  /\ registered /\ Running
         /\ outbuf' # << >> /\ "out" \in events'
         /\ edge' \/ Full
<1>1. outbuf' # << >>
  BY AppendNotEmpty DEF Shape, SendInLoop, AppendWithsep, EnableWriting
<1>2. UpdataChannel(events \cup {"out"})
  BY DEF SendInLoop, AppendWithsep, EnableWriting
<1>3. registered /\ Running /\ "out" \in events'
      /\ edge' = (edge \/ Level(events \cup {"out"}) # {})
  BY <1>2 DEF UpdataChannel, Running
<1>4. ~Full => "out" \in Level(events \cup {"out"})
  BY DEF Level
<1> QED BY <1>1, <1>3, <1>4

\* Nothing has happened before the connection is constructed.
LEMMA InitIInv == Init => IInv
<1> SUFFICES ASSUME Init PROVE IInv
  OBVIOUS
<1>1. Shape
  <2>1. << >> \in Seq(Int) /\ Len(<< >>) = 0
    OBVIOUS
  <2>2. /\ sent \in Int /\ rcv \in Seq(Int) /\ inbuf \in Seq(Int)
        /\ snd \in Seq(Int) /\ received \in Seq(Int) /\ outbuf \in Seq(Int)
        /\ loopq \in Seq(Int) /\ workq \in Seq(Int)
        /\ Len(snd) <= SendSpace
    BY <2>1, SendSpacePositive DEF Init
  <2>3. wpc \in [Workers -> {"idle", "check", "post"}] /\ work \in [Workers -> Int]
    BY DEF Init, NoMsg
  <2>4. /\ eof \in BOOLEAN /\ registered \in BOOLEAN /\ edge \in BOOLEAN /\ inepoll \in BOOLEAN
        /\ disconnected \in BOOLEAN
    BY DEF Init
  <2>5. events \in SUBSET {"in", "out"} /\ revents \in SUBSET {"in", "out"}
    BY DEF Init
  <2>6. setup \in 1 .. 6 /\ message \in Int
    BY DEF Init, NoMsg
  <2>7. loop \in {"idle", "read", "pick"} /\ crash \in {"none", "mod_error", "no_callback"}
    BY DEF Init
  <2> QED BY <2>2, <2>3, <2>4, <2>5, <2>6, <2>7 DEF Shape
<1>2. Fresh /\ Watched /\ Reported /\ NoLostInput /\ Output
  BY DEF Init, Fresh, Watched, Reported, NoLostInput, Output
<1> QED BY <1>1, <1>2 DEF IInv

\* Every step keeps the shape.
LEMMA ShapeStep == Shape /\ Watched /\ [Next]_vars => Shape'
<1> SUFFICES ASSUME Shape, Watched, [Next]_vars PROVE Shape'
  OBVIOUS
<1> USE DEF Shape, Watched, client, poll, conn, thread, pool
<1>1. CASE Construct
  <2>1. events \cup {"in"} \in SUBSET {"in", "out"} /\ UpdataChannel(events \cup {"in"})
    BY <1>1 DEF Construct, EnableReading
  <2>2. /\ registered' \in BOOLEAN /\ edge' \in BOOLEAN /\ inepoll' \in BOOLEAN
        /\ events' \in SUBSET {"in", "out"}
        /\ crash' \in {"none", "mod_error", "no_callback"}
    BY <2>1, UpdataFacts
  <2>3. setup' = 2
    BY <1>1, SetupValues DEF Construct, EnableReading
  <2> QED BY <1>1, <2>2, <2>3 DEF Construct, EnableReading
<1>2. CASE SetCallback
  <2>1. setup' \in 1 .. 6
    BY <1>2, SetupValues DEF SetCallback
  <2> QED BY <1>2, <2>1 DEF SetCallback
<1>3. CASE ClientSend
  BY <1>3 DEF ClientSend, Signal
<1>4. CASE ClientClose
  BY <1>4 DEF ClientClose, Signal
<1>5. CASE ClientReceive
  <2>1. Head(snd) \in Int /\ Tail(snd) \in Seq(Int) /\ Len(Tail(snd)) = Len(snd) - 1
    BY <1>5 DEF ClientReceive
  <2> QED BY <1>5, <2>1, SendSpacePositive DEF ClientReceive, Signal
<1>6. CASE EpollWait
  BY <1>6 DEF EpollWait, Level
<1>7. CASE HandleRead
  BY <1>7 DEF HandleRead
<1>8. CASE ReadSome
  BY <1>8, ReadFacts DEF ReadSome
<1>9. CASE ReadEof
  BY <1>9 DEF ReadEof, Remove, Call
<1>10. CASE ReadAgain
  BY <1>10 DEF ReadAgain, NoMsg
<1>11. CASE Pick
  <2>1. inbuf' \in Seq(Int) /\ message' \in Int /\ HandleMessage(message')
    BY <1>11, PickFacts DEF Pick
  <2>2. CASE ~Installed("message")
    BY <1>11, <2>1, <2>2 DEF Pick, HandleMessage
  <2>3. CASE Installed("message") /\ Workers = {}
    <3>1. SendInLoop(message') /\ workq' = workq
      BY <2>1, <2>3 DEF HandleMessage
    <3>2. /\ registered' \in BOOLEAN /\ edge' \in BOOLEAN /\ inepoll' \in BOOLEAN
          /\ events' \in SUBSET {"in", "out"}
          /\ crash' \in {"none", "mod_error", "no_callback"}
          /\ outbuf' \in Seq(Int)
      BY <2>1, <3>1, SendFacts
    <3> QED BY <1>11, <2>1, <3>1, <3>2 DEF Pick
  <2>4. CASE Installed("message") /\ Workers # {}
    <3>1. workq' = Append(workq, message') /\ UNCHANGED <<poll, outbuf, crash>>
      BY <2>1, <2>4 DEF HandleMessage
    <3> QED BY <1>11, <2>1, <3>1 DEF Pick
  <2> QED BY <2>2, <2>3, <2>4
<1>12. CASE PickNothing
  BY <1>12 DEF PickNothing
<1>13. CASE WriteCallback
  BY <1>13, WriteFacts DEF WriteCallback, FinishWrite, DisableWriting, Call, Level
<1>14. CASE RunPosted
  <2>1. Head(loopq) \in Int /\ Tail(loopq) \in Seq(Int) /\ SendInLoop(Head(loopq))
    BY <1>14 DEF RunPosted
  <2>2. /\ registered' \in BOOLEAN /\ edge' \in BOOLEAN /\ inepoll' \in BOOLEAN
        /\ events' \in SUBSET {"in", "out"}
        /\ crash' \in {"none", "mod_error", "no_callback"}
        /\ outbuf' \in Seq(Int)
    BY <2>1, SendFacts
  <2> QED BY <1>14, <2>1, <2>2 DEF RunPosted
<1>15. ASSUME NEW w \in Workers, Take(w) PROVE Shape'
  <2>1. Head(workq) \in Int /\ Tail(workq) \in Seq(Int)
    BY <1>15 DEF Take
  <2> QED BY <1>15, <2>1 DEF Take
<1>16. ASSUME NEW w \in Workers, CheckConnected(w) PROVE Shape'
  BY <1>16 DEF CheckConnected
<1>17. ASSUME NEW w \in Workers, PostReply(w) PROVE Shape'
  BY <1>17 DEF PostReply
<1>18. CASE UNCHANGED vars
  BY <1>18 DEF vars
<1> QED
  BY <1>1, <1>2, <1>3, <1>4, <1>5, <1>6, <1>7, <1>8, <1>9, <1>10, <1>11, <1>12,
     <1>13, <1>14, <1>15, <1>16, <1>17, <1>18
     DEF Next, ClientStep, HandlerStep, WorkerStep

\* Until the channel is registered, only the client moves.
LEMMA FreshStep == Shape /\ Fresh /\ Watched /\ [Next]_vars => Fresh' /\ Watched'
<1> SUFFICES ASSUME Shape, Fresh, Watched, [Next]_vars PROVE Fresh' /\ Watched'
  OBVIOUS
<1> USE DEF Shape, Fresh, Watched, client, poll, conn, thread, pool
<1>1. CASE Construct
  BY <1>1, SetupValues DEF Construct, EnableReading, UpdataChannel, Level
<1>2. CASE SetCallback
  BY <1>2, SetupValues DEF SetCallback
<1>3. CASE ClientSend
  BY <1>3 DEF ClientSend, Signal
<1>4. CASE ClientClose
  BY <1>4 DEF ClientClose, Signal
<1>5. CASE ClientReceive
  BY <1>5 DEF ClientReceive, Signal, Full
<1>6. CASE EpollWait
  BY <1>6 DEF EpollWait, Level
<1>7. CASE HandleRead
  BY <1>7 DEF HandleRead
<1>8. CASE ReadSome
  BY <1>8, ReadFacts DEF ReadSome
<1>9. CASE ReadEof
  BY <1>9 DEF ReadEof, Remove, Call
<1>10. CASE ReadAgain
  BY <1>10 DEF ReadAgain, NoMsg
<1>11. CASE Pick
  BY <1>11, PickFacts DEF Pick, HandleMessage, SendInLoop, AppendWithsep, EnableWriting, UpdataChannel, Level
<1>12. CASE PickNothing
  BY <1>12 DEF PickNothing
<1>13. CASE WriteCallback
  BY <1>13, WriteFacts DEF WriteCallback, FinishWrite, DisableWriting, Call, Level
<1>14. CASE RunPosted
  BY <1>14 DEF RunPosted, SendInLoop, AppendWithsep, EnableWriting, UpdataChannel, Level
<1>15. ASSUME NEW w \in Workers, Take(w) PROVE Fresh' /\ Watched'
  BY <1>15 DEF Take
<1>16. ASSUME NEW w \in Workers, CheckConnected(w) PROVE Fresh' /\ Watched'
  BY <1>16 DEF CheckConnected
<1>17. ASSUME NEW w \in Workers, PostReply(w) PROVE Fresh' /\ Watched'
  BY <1>17 DEF PostReply
<1>18. CASE UNCHANGED vars
  BY <1>18 DEF vars
<1> QED
  BY <1>1, <1>2, <1>3, <1>4, <1>5, <1>6, <1>7, <1>8, <1>9, <1>10, <1>11, <1>12,
     <1>13, <1>14, <1>15, <1>16, <1>17, <1>18
     DEF Next, ClientStep, HandlerStep, WorkerStep

\* Only the loop thread empties the socket, and it reads until it has.
LEMMA InputStep == Shape /\ Fresh /\ Watched /\ Reported /\ NoLostInput /\ [Next]_vars => Reported' /\ NoLostInput'
<1> SUFFICES ASSUME Shape, Fresh, Watched, Reported, NoLostInput, [Next]_vars PROVE Reported' /\ NoLostInput'
  OBVIOUS
<1> USE DEF Shape, Fresh, Watched, Reported, NoLostInput, client, poll, conn, thread, pool
<1>1. CASE Construct
  BY <1>1, SetupValues DEF Construct, EnableReading, UpdataChannel, Level
<1>2. CASE SetCallback
  BY <1>2, SetupValues DEF SetCallback
<1>3. CASE ClientSend
  <2>1. rcv' # << >>
    <3>1. rcv' = Append(rcv, sent + 1) /\ rcv \in Seq(Int)
      BY <1>3 DEF ClientSend
    <3> HIDE DEF Shape, Fresh, Watched, Reported, NoLostInput
    <3> QED BY <3>1, AppendNotEmpty
  <2>2. registered' => edge'
    BY <1>3 DEF ClientSend, Signal
  <2>3. UNCHANGED <<revents, loop>>
    BY <1>3 DEF ClientSend
  <2> QED BY <2>1, <2>2, <2>3
<1>4. CASE ClientClose
  BY <1>4 DEF ClientClose, Signal
<1>5. CASE ClientReceive
  BY <1>5 DEF ClientReceive, Signal, Full
<1>6. CASE EpollWait
  BY <1>6 DEF EpollWait, Level
<1>7. CASE HandleRead
  BY <1>7 DEF HandleRead
<1>8. CASE ReadSome
  BY <1>8, ReadFacts DEF ReadSome
<1>9. CASE ReadEof
  BY <1>9 DEF ReadEof, Remove, Call
<1>10. CASE ReadAgain
  BY <1>10 DEF ReadAgain, NoMsg
<1>11. CASE Pick
  BY <1>11, PickFacts DEF Pick, HandleMessage, SendInLoop, AppendWithsep, EnableWriting, UpdataChannel, Level
<1>12. CASE PickNothing
  BY <1>12 DEF PickNothing
<1>13. CASE WriteCallback
  BY <1>13, WriteFacts DEF WriteCallback, FinishWrite, DisableWriting, Call, Level
<1>14. CASE RunPosted
  BY <1>14 DEF RunPosted, SendInLoop, AppendWithsep, EnableWriting, UpdataChannel, Level
<1>15. ASSUME NEW w \in Workers, Take(w) PROVE Reported' /\ NoLostInput'
  BY <1>15 DEF Take
<1>16. ASSUME NEW w \in Workers, CheckConnected(w) PROVE Reported' /\ NoLostInput'
  BY <1>16 DEF CheckConnected
<1>17. ASSUME NEW w \in Workers, PostReply(w) PROVE Reported' /\ NoLostInput'
  BY <1>17 DEF PostReply
<1>18. CASE UNCHANGED vars
  BY <1>18 DEF vars
<1> QED
  BY <1>1, <1>2, <1>3, <1>4, <1>5, <1>6, <1>7, <1>8, <1>9, <1>10, <1>11, <1>12,
     <1>13, <1>14, <1>15, <1>16, <1>17, <1>18
     DEF Next, ClientStep, HandlerStep, WorkerStep

\* Whoever loses an edge of the output still owes a reply, and a reply arms
\* the channel again.
LEMMA OutputStep == Shape /\ Fresh /\ Watched /\ Reported /\ Output /\ [Next]_vars => Output'
<1> SUFFICES ASSUME Shape, Fresh, Watched, Reported, Output, [Next]_vars PROVE Output'
  OBVIOUS
<1> USE DEF Shape, Fresh, Watched, Reported, Output, Promised, Full, Answering, Running, client, poll, conn, thread, pool
<1>1. CASE Construct
  BY <1>1, SetupValues DEF Construct, EnableReading, UpdataChannel, Level
<1>2. CASE SetCallback
  BY <1>2, SetupValues DEF SetCallback
<1>3. CASE ClientSend
  BY <1>3 DEF ClientSend, Signal
<1>4. CASE ClientClose
  BY <1>4 DEF ClientClose, Signal
<1>5. CASE ClientReceive
  BY <1>5 DEF ClientReceive, Signal, Full
<1>6. CASE EpollWait
  BY <1>6 DEF EpollWait, Level
<1>7. CASE HandleRead
  BY <1>7 DEF HandleRead
<1>8. CASE ReadSome
  BY <1>8, ReadFacts DEF ReadSome
<1>9. CASE ReadEof
  BY <1>9 DEF ReadEof, Remove, Call
<1>10. CASE ReadAgain
  BY <1>10 DEF ReadAgain, NoMsg
<1>11. CASE Pick
  <2>1. /\ message' \in Int /\ HandleMessage(message')
        /\ UNCHANGED <<snd, loopq, wpc>> /\ inepoll
    BY <1>11, PickFacts DEF Pick
  <2>2. CASE ~Installed("message")
    BY <2>1, <2>2 DEF HandleMessage
  <2>3. CASE Installed("message") /\ Workers = {}
    <3>1. SendInLoop(message')
      BY <2>1, <2>3 DEF HandleMessage
    <3> QED BY <2>1, <3>1, SendPromise
  <2>4. CASE Installed("message") /\ Workers # {}
    <3>1. workq' = Append(workq, message') /\ UNCHANGED <<poll, outbuf, crash>>
      BY <2>1, <2>4 DEF HandleMessage
    <3>2. workq' # << >>
      BY <2>1, <3>1, AppendNotEmpty
    <3> QED BY <3>1, <3>2
  <2> QED BY <2>2, <2>3, <2>4
<1>12. CASE PickNothing
  BY <1>12 DEF PickNothing
<1>13. CASE WriteCallback
  <2>1. registered' = registered /\ (Running' => Running)
    BY <1>13 DEF WriteCallback, FinishWrite, DisableWriting, Call
  <2>2. CASE outbuf' = << >>
    BY <1>13, <2>2 DEF WriteCallback, FinishWrite, DisableWriting
  <2>3. CASE outbuf' # << >>
    <3>1. outbuf # << >> /\ Len(snd') = SendSpace /\ events' = events
      BY <1>13, <2>3, WriteFacts DEF WriteCallback, FinishWrite, DisableWriting
    <3>2. Full'
      BY <3>1, SendSpacePositive
    <3> QED BY <2>1, <2>3, <3>1, <3>2
  <2> QED BY <2>2, <2>3
<1>14. CASE RunPosted
  <2>1. Head(loopq) \in Int /\ SendInLoop(Head(loopq)) /\ snd' = snd /\ inepoll
    BY <1>14 DEF RunPosted
  <2> QED BY <2>1, SendPromise
<1>15. ASSUME NEW w \in Workers, Take(w) PROVE Output'
  BY <1>15 DEF Take
<1>16. ASSUME NEW w \in Workers, CheckConnected(w) PROVE Output'
  BY <1>16 DEF CheckConnected
<1>17. ASSUME NEW w \in Workers, PostReply(w) PROVE Output'
  <2>1. loopq' # << >>
    BY <1>17, AppendNotEmpty DEF PostReply
  <2>2. UNCHANGED <<registered, crash, outbuf, events>>
    BY <1>17 DEF PostReply
  <2> QED BY <2>1, <2>2
<1>18. CASE UNCHANGED vars
  BY <1>18 DEF vars
<1> QED
  BY <1>1, <1>2, <1>3, <1>4, <1>5, <1>6, <1>7, <1>8, <1>9, <1>10, <1>11, <1>12,
     <1>13, <1>14, <1>15, <1>16, <1>17, <1>18
     DEF Next, ClientStep, HandlerStep, WorkerStep

\* The invariant is inductive.
THEOREM Invariance == Spec => []IInv
<1>1. IInv /\ [Next]_vars => IInv'
  BY ShapeStep, FreshStep, InputStep, OutputStep DEF IInv
<1> QED BY InitIInv, <1>1, PTL DEF Spec

-----------------------------------------------------------------------------
(***************************************************************************)
(* Edge-triggered reading loses nothing, however the client's segments and *)
(* its close interleave with epoll_wait and with the reads of onMessage.   *)
(***************************************************************************)
THEOREM NoLostInputCorrect == Spec => []NoLostInput
<1>1. IInv => NoLostInput
  BY DEF IInv
<1> QED BY <1>1, Invariance, PTL

(***************************************************************************)
(* The else-if of handleEvent strands no output, for any number of workers *)
(* and any space in the kernel.                                            *)
(***************************************************************************)
THEOREM NoLostOutputCorrect == Spec => []NoLostOutput
<1>1. IInv => NoLostOutput
  BY DEF IInv, Reported, Output, Promised, NoLostOutput
<1> QED BY <1>1, Invariance, PTL

-----------------------------------------------------------------------------
(* Without workers the process cannot exit over a removed channel.         *)

(***************************************************************************)
(* Without workers nothing is posted to the loop, and the loop thread      *)
(* handles events only of a channel that is in the epoll tree.             *)
(***************************************************************************)
Inline ==
  /\ loopq = << >> /\ workq = << >>
  /\ edge \/ revents # {} \/ loop # "idle" => registered
  /\ loop # "idle" => revents = {}
  /\ ModFindsChannel

\* A reply is sent while the loop thread reads, and the channel is removed only
\* after that.
LEMMA InlineStep == Workers = {} /\ Shape /\ Fresh /\ Watched /\ Inline /\ [Next]_vars => Inline'
<1> SUFFICES ASSUME Workers = {}, Shape, Fresh, Watched, Inline, [Next]_vars PROVE Inline'
  OBVIOUS
<1> USE DEF Fresh, Watched, Inline, ModFindsChannel, client, poll, conn, thread, pool
<1>1. CASE Construct
  BY <1>1, SetupValues DEF Construct, EnableReading, UpdataChannel, Level
<1>2. CASE SetCallback
  BY <1>2, SetupValues DEF SetCallback
<1>3. CASE ClientSend
  BY <1>3 DEF ClientSend, Signal
<1>4. CASE ClientClose
  BY <1>4 DEF ClientClose, Signal
<1>5. CASE ClientReceive
  BY <1>5 DEF ClientReceive, Signal, Full
<1>6. CASE EpollWait
  BY <1>6 DEF EpollWait, Level
<1>7. CASE HandleRead
  BY <1>7 DEF HandleRead
<1>8. CASE ReadSome
  BY <1>8, ReadFacts DEF ReadSome
<1>9. CASE ReadEof
  BY <1>9 DEF ReadEof, Remove, Call
<1>10. CASE ReadAgain
  BY <1>10 DEF ReadAgain, NoMsg
<1>11. CASE Pick
  <2>1. /\ registered /\ inepoll /\ HandleMessage(message')
        /\ UNCHANGED <<revents, loop, loopq, setup>>
    BY <1>11 DEF Pick
  <2>2. CASE ~Installed("message")
    BY <2>1, <2>2 DEF HandleMessage
  <2>3. CASE Installed("message")
    <3>1. UpdataChannel(events \cup {"out"}) /\ workq' = workq
      BY <2>1, <2>3 DEF HandleMessage, SendInLoop, AppendWithsep, EnableWriting
    <3>2. registered' /\ inepoll' /\ crash' = crash
      BY <2>1, <3>1 DEF UpdataChannel
    <3> QED BY <2>1, <3>1, <3>2
  <2> QED BY <2>2, <2>3
<1>12. CASE PickNothing
  BY <1>12 DEF PickNothing
<1>13. CASE WriteCallback
  BY <1>13, WriteFacts DEF WriteCallback, FinishWrite, DisableWriting, Call, Level
<1>14. CASE RunPosted
  BY <1>14 DEF RunPosted, SendInLoop, AppendWithsep, EnableWriting, UpdataChannel, Level
<1>15. ASSUME NEW w \in Workers, Take(w) PROVE Inline'
  BY <1>15 DEF Take
<1>16. ASSUME NEW w \in Workers, CheckConnected(w) PROVE Inline'
  BY <1>16 DEF CheckConnected
<1>17. ASSUME NEW w \in Workers, PostReply(w) PROVE Inline'
  BY <1>17 DEF PostReply
<1>18. CASE UNCHANGED vars
  BY <1>18 DEF vars
<1> QED
  BY <1>1, <1>2, <1>3, <1>4, <1>5, <1>6, <1>7, <1>8, <1>9, <1>10, <1>11, <1>12,
     <1>13, <1>14, <1>15, <1>16, <1>17, <1>18
     DEF Next, ClientStep, HandlerStep, WorkerStep

(***************************************************************************)
(* In a server without workers, EPOLL_CTL_MOD always finds the channel.    *)
(***************************************************************************)
THEOREM InlineFindsChannel == ASSUME Workers = {} PROVE Spec => []ModFindsChannel
<1>1. Init => Inline
  BY DEF Init, Inline, ModFindsChannel
<1>2. IInv /\ Inline /\ [Next]_vars => Inline'
  BY InlineStep DEF IInv
<1>3. Inline => ModFindsChannel
  BY DEF Inline
<1> QED BY <1>1, <1>2, <1>3, Invariance, PTL DEF Spec

-----------------------------------------------------------------------------
(* Types, when every message arrives in one segment.                       *)

TypeInv == TypeOK /\ \A w \in Workers : wpc[w] # "idle" => work[w] \in 1 .. Messages

\* Setup has six values.
LEMMA SetupLength == Len(Setup) = 6
BY DEF Setup

\* Every step keeps the types when a message arrives in one segment.
LEMMA TypeStep == Units = 1 /\ IInv /\ TypeInv /\ [Next]_vars => TypeInv'
<1> SUFFICES ASSUME Units = 1, IInv, TypeInv, [Next]_vars PROVE TypeInv'
  OBVIOUS
<1> USE DEF TypeInv, TypeOK, client, poll, conn, thread, pool
<1>1. CASE Construct
  <2>1. events \cup {"in"} \in SUBSET {"in", "out"} /\ UpdataChannel(events \cup {"in"})
    BY <1>1 DEF Construct, EnableReading
  <2>2. /\ registered' \in BOOLEAN /\ edge' \in BOOLEAN /\ inepoll' \in BOOLEAN
        /\ events' \in SUBSET {"in", "out"}
        /\ crash' \in {"none", "mod_error", "no_callback"}
    BY <2>1, UpdataFacts DEF IInv
  <2>3. setup' = 2
    BY <1>1, SetupValues DEF Construct, EnableReading, IInv
  <2> QED BY <1>1, <2>2, <2>3, SetupLength DEF Construct, EnableReading
<1>2. CASE SetCallback
  <2>1. setup' \in 1 .. 6
    BY <1>2, SetupValues, SetupLength DEF SetCallback, IInv
  <2> QED BY <1>2, <2>1, SetupLength DEF SetCallback
<1>3. CASE ClientSend
  <2>1. sent + 1 \in 1 .. Messages * Units
    BY <1>3, MessagesNat DEF ClientSend
  <2>2. rcv' \in Seq(1 .. Messages * Units) /\ sent' \in 0 .. Messages * Units
    BY <1>3, <2>1 DEF ClientSend
  <2> QED BY <1>3, <2>2 DEF ClientSend, Signal
<1>4. CASE ClientClose
  BY <1>4 DEF ClientClose, Signal
<1>5. CASE ClientReceive
  <2>1. /\ Head(snd) \in 1 .. Messages /\ Tail(snd) \in Seq(1 .. Messages)
        /\ Len(Tail(snd)) = Len(snd) - 1
    <3>1. snd # << >> /\ snd \in Seq(1 .. Messages)
      BY <1>5 DEF ClientReceive
    <3> HIDE DEF TypeInv, TypeOK
    <3> QED BY <3>1, HeadTailProperties
  <2>2. /\ received' \in Seq(1 .. Messages) /\ snd' \in Seq(1 .. Messages)
        /\ Len(snd') <= SendSpace
    BY <1>5, <2>1, SendSpacePositive DEF ClientReceive
  <2> QED BY <1>5, <2>2 DEF ClientReceive, Signal
<1>6. CASE EpollWait
  BY <1>6 DEF EpollWait, Level
<1>7. CASE HandleRead
  BY <1>7 DEF HandleRead
<1>8. CASE ReadSome
  <2>1. PICK n \in 1 .. Len(rcv) : /\ inbuf' = inbuf \o SubSeq(rcv, 1, n)
                                   /\ rcv' = SubSeq(rcv, n + 1, Len(rcv))
    BY <1>8 DEF ReadSome
  <2>2. n \in 0 .. Len(rcv)
    BY <2>1
  <2>3. /\ SubSeq(rcv, 1, n) \in Seq(1 .. Messages * Units)
        /\ SubSeq(rcv, n + 1, Len(rcv)) \in Seq(1 .. Messages * Units)
    BY <2>2, Split
  <2>4. inbuf' \in Seq(1 .. Messages * Units) /\ rcv' \in Seq(1 .. Messages * Units)
    <3> DEFINE p == SubSeq(rcv, 1, n)
    <3>1. /\ inbuf' = inbuf \o p /\ inbuf \in Seq(1 .. Messages * Units)
          /\ p \in Seq(1 .. Messages * Units) /\ rcv' \in Seq(1 .. Messages * Units)
      BY <2>1, <2>3
    <3> HIDE DEF p, TypeInv, TypeOK
    <3> QED BY <3>1, ConcatProperties
  <2> QED BY <1>8, <2>4 DEF ReadSome
<1>9. CASE ReadEof
  BY <1>9 DEF ReadEof, Remove, Call
<1>10. CASE ReadAgain
  <2>1. message' \in 0 .. Messages
    BY <1>10, MessagesNat DEF ReadAgain, NoMsg
  <2> QED BY <1>10, <2>1 DEF ReadAgain
<1>11. CASE Pick
  <2>1. Head(inbuf) \in 1 .. Messages /\ Len(inbuf) >= Units /\ Units \in 0 .. Len(inbuf)
    <3>1. inbuf # << >> /\ inbuf \in Seq(1 .. Messages)
      BY <1>11, MessagesNat DEF Pick
    <3> HIDE DEF TypeInv, TypeOK
    <3>2. Head(inbuf) \in 1 .. Messages /\ Len(inbuf) \in Nat \ {0}
      BY <3>1, HeadTailProperties, EmptySeq
    <3> QED BY <3>2
  <2>2. RequestOf(Head(inbuf)) = Head(inbuf)
    BY <2>1 DEF RequestOf
  <2>3. /\ message' = Head(inbuf)
        /\ inbuf' = SubSeq(inbuf, Units + 1, Len(inbuf))
        /\ HandleMessage(message')
    BY <1>11, <2>1, <2>2 DEF Pick
  <2>4. inbuf' \in Seq(1 .. Messages * Units)
    BY <2>1, <2>3, Split
  <2>5. Shape
    BY DEF IInv
  <2>6. /\ UNCHANGED <<client, setup, disconnected, revents, loop, loopq, wpc, work>>
        /\ message' \in 0 .. Messages
    BY <1>11, <2>1, <2>3 DEF Pick
  <2>7. CASE ~Installed("message")
    <3>1. crash' = "no_callback" /\ UNCHANGED <<poll, outbuf, workq>>
      BY <2>3, <2>7 DEF HandleMessage
    <3> QED BY <2>4, <2>6, <3>1
  <2>8. CASE Installed("message") /\ Workers = {}
    <3>1. SendInLoop(message') /\ workq' = workq /\ message' \in 1 .. Messages /\ message' \in Int
      BY <2>1, <2>3, <2>8 DEF HandleMessage
    <3>2. /\ registered' \in BOOLEAN /\ edge' \in BOOLEAN /\ inepoll' \in BOOLEAN
          /\ events' \in SUBSET {"in", "out"}
          /\ crash' \in {"none", "mod_error", "no_callback"}
      BY <2>5, <3>1, SendFacts
    <3>3. outbuf' \in Seq(1 .. Messages)
      BY <3>1 DEF SendInLoop, AppendWithsep, EnableWriting
    <3> QED BY <2>4, <2>6, <3>1, <3>2, <3>3
  <2>9. CASE Installed("message") /\ Workers # {}
    <3>1. workq' = Append(workq, message') /\ UNCHANGED <<poll, outbuf, crash>>
      BY <2>3, <2>9 DEF HandleMessage
    <3>2. workq' \in Seq(1 .. Messages)
      BY <2>1, <2>3, <3>1
    <3> QED BY <2>4, <2>6, <3>1, <3>2
  <2> QED BY <2>7, <2>8, <2>9
<1>12. CASE PickNothing
  BY <1>12 DEF PickNothing
<1>13. CASE WriteCallback
  <2>1. Len(snd) \in Nat /\ Len(outbuf) \in Nat /\ SendSpace \in Nat
    BY SendSpacePositive
  <2>2. Fits \in 0 .. Len(outbuf)
    BY <2>1 DEF Fits
  <2>3. /\ SubSeq(outbuf, 1, Fits) \in Seq(1 .. Messages)
        /\ SubSeq(outbuf, Fits + 1, Len(outbuf)) \in Seq(1 .. Messages)
    BY <2>2, Split
  <2>4. snd' \in Seq(1 .. Messages) /\ outbuf' \in Seq(1 .. Messages)
    <3> DEFINE s1 == SubSeq(outbuf, 1, Fits)
               s2 == SubSeq(outbuf, Fits + 1, Len(outbuf))
    <3>1. /\ snd' = snd \o s1 /\ outbuf' = s2
          /\ s1 \in Seq(1 .. Messages) /\ s2 \in Seq(1 .. Messages)
          /\ snd \in Seq(1 .. Messages)
      BY <1>13, <2>3 DEF WriteCallback
    <3> HIDE DEF s1, s2, TypeInv, TypeOK
    <3> QED BY <3>1, ConcatProperties
  <2>5. Len(snd') <= SendSpace
    BY <1>13, WriteFacts DEF IInv
  <2>6. /\ events' \in SUBSET {"in", "out"} /\ edge' \in BOOLEAN
        /\ crash' \in {"none", "mod_error", "no_callback"}
    BY <1>13 DEF WriteCallback, FinishWrite, DisableWriting, Call
  <2> QED BY <1>13, <2>4, <2>5, <2>6 DEF WriteCallback
<1>14. CASE RunPosted
  <2>1. /\ Head(loopq) \in 1 .. Messages /\ Head(loopq) \in Int
        /\ Tail(loopq) \in Seq(1 .. Messages) /\ SendInLoop(Head(loopq))
    <3>1. loopq # << >> /\ loopq \in Seq(1 .. Messages) /\ SendInLoop(Head(loopq))
      BY <1>14 DEF RunPosted
    <3> HIDE DEF TypeInv, TypeOK
    <3>2. Head(loopq) \in 1 .. Messages /\ Tail(loopq) \in Seq(1 .. Messages)
      BY <3>1, HeadTailProperties
    <3> QED BY <3>1, <3>2
  <2>2. Shape
    BY DEF IInv
  <2>3. /\ registered' \in BOOLEAN /\ edge' \in BOOLEAN /\ inepoll' \in BOOLEAN
        /\ events' \in SUBSET {"in", "out"}
        /\ crash' \in {"none", "mod_error", "no_callback"}
    BY <2>1, <2>2, SendFacts
  <2>4. outbuf' \in Seq(1 .. Messages)
    BY <2>1 DEF SendInLoop, AppendWithsep, EnableWriting
  <2>5. loopq' = Tail(loopq) /\ UNCHANGED <<client, setup, disconnected, inbuf, thread, workq, wpc, work>>
    BY <1>14 DEF RunPosted
  <2> QED BY <2>1, <2>3, <2>4, <2>5
<1>15. ASSUME NEW w \in Workers, Take(w) PROVE TypeInv'
  <2>1. Head(workq) \in 1 .. Messages /\ Tail(workq) \in Seq(1 .. Messages)
    <3>1. workq # << >> /\ workq \in Seq(1 .. Messages)
      BY <1>15 DEF Take
    <3> HIDE DEF TypeInv, TypeOK
    <3> QED BY <3>1, HeadTailProperties
  <2>2. /\ work' = [work EXCEPT ![w] = Head(workq)] /\ wpc' = [wpc EXCEPT ![w] = "check"]
        /\ workq' = Tail(workq) /\ UNCHANGED <<client, poll, conn, thread, loopq, crash>>
    BY <1>15 DEF Take
  <2>3. /\ work' \in [Workers -> 0 .. Messages]
        /\ wpc' \in [Workers -> {"idle", "check", "post"}]
        /\ \A v \in Workers : wpc'[v] # "idle" => work'[v] \in 1 .. Messages
    <3>1. /\ work \in [Workers -> 0 .. Messages]
          /\ wpc \in [Workers -> {"idle", "check", "post"}]
          /\ \A v \in Workers : wpc[v] # "idle" => work[v] \in 1 .. Messages
      OBVIOUS
    <3>2. Head(workq) \in 0 .. Messages
      BY <2>1, MessagesNat
    <3> HIDE DEF TypeInv, TypeOK
    <3>3. /\ work' \in [Workers -> 0 .. Messages]
          /\ wpc' \in [Workers -> {"idle", "check", "post"}]
      BY <2>2, <3>1, <3>2
    <3>4. ASSUME NEW v \in Workers, wpc'[v] # "idle" PROVE work'[v] \in 1 .. Messages
      BY <2>1, <2>2, <3>1, <3>4
    <3> QED BY <3>3, <3>4
  <2>4. UNCHANGED <<sent, eof, rcv, snd, received>> /\ UNCHANGED <<inbuf, outbuf, loopq>>
        /\ workq' = Tail(workq)
    BY <2>2
  <2>5. /\ UNCHANGED <<registered, edge, inepoll, events, setup, disconnected>>
        /\ UNCHANGED <<revents, loop, message, crash>>
    BY <2>2
  <2> QED BY <2>1, <2>3, <2>4, <2>5
<1>16. ASSUME NEW w \in Workers, CheckConnected(w) PROVE TypeInv'
  BY <1>16 DEF CheckConnected
<1>17. ASSUME NEW w \in Workers, PostReply(w) PROVE TypeInv'
  <2>1. loopq' \in Seq(1 .. Messages)
    BY <1>17 DEF PostReply
  <2> QED BY <1>17, <2>1 DEF PostReply
<1>18. CASE UNCHANGED vars
  BY <1>18 DEF vars
<1> QED
  BY <1>1, <1>2, <1>3, <1>4, <1>5, <1>6, <1>7, <1>8, <1>9, <1>10, <1>11, <1>12,
     <1>13, <1>14, <1>15, <1>16, <1>17, <1>18
     DEF Next, ClientStep, HandlerStep, WorkerStep

(***************************************************************************)
(* As long as no message is split, every reply that is queued, buffered or *)
(* received is to a request of the client and never to the empty message.  *)
(* (MCConnectionFragment.cfg shows why the assumption is needed.)          *)
(***************************************************************************)
THEOREM TypeCorrect == ASSUME Units = 1 PROVE Spec => []TypeOK
<1>1. ASSUME Init PROVE TypeInv
  <2>1. \A S : << >> \in Seq(S)
    OBVIOUS
  <2>2. /\ sent \in 0 .. Messages * Units /\ message \in 0 .. Messages
        /\ work \in [Workers -> 0 .. Messages] /\ Len(snd) <= SendSpace
    BY <1>1, MessagesNat, SendSpacePositive DEF Init, NoMsg
  <2>3. setup \in 1 .. Len(Setup) /\ wpc \in [Workers -> {"idle", "check", "post"}]
    BY <1>1, SetupLength DEF Init
  <2>4. \A w \in Workers : wpc[w] = "idle"
    BY <1>1 DEF Init
  <2>5. /\ rcv \in Seq(1 .. Messages * Units) /\ inbuf \in Seq(1 .. Messages * Units)
        /\ snd \in Seq(1 .. Messages) /\ received \in Seq(1 .. Messages)
        /\ outbuf \in Seq(1 .. Messages)
        /\ loopq \in Seq(1 .. Messages) /\ workq \in Seq(1 .. Messages)
    BY <1>1, <2>1 DEF Init
  <2>6. Shape
    BY <1>1, InitIInv DEF IInv
  <2> QED BY <2>2, <2>3, <2>4, <2>5, <2>6 DEF TypeInv, TypeOK, Shape
<1>2. IInv /\ TypeInv /\ [Next]_vars => TypeInv'
  BY TypeStep
<1>3. TypeInv => TypeOK
  BY DEF TypeInv
<1> QED BY <1>1, <1>2, <1>3, Invariance, PTL DEF Spec
=============================================================================
