-------------------------- MODULE ConnectionLedger --------------------------
(***************************************************************************)
(* Where the requests of a connection are: proofs that none is lost and    *)
(* that Connection implements EchoService.                                 *)
(*                                                                         *)
(* The queues of Connection are seen as two rows.  The stream is what the  *)
(* client sent and pickMessage has not taken; the posted replies are those *)
(* in the task queue of the loop, in the output buffer, in the kernel and  *)
(* with the client.  Most steps move something along a row and leave the   *)
(* row as it is.  What the others do is a Move: lemma Moves says that each *)
(* step is one, and the invariants are proved of moves only.               *)
(***************************************************************************)
EXTENDS ConnectionProofs, FiniteSetTheorems

-----------------------------------------------------------------------------
(* Sequences: appending, moving elements between neighbours, dropping.     *)

\* A sequence is its head followed by its tail.
LEMMA HeadThenTail ==
  ASSUME NEW s \in Seq(Int), s # << >>
  PROVE  /\ Head(s) \in Int /\ Tail(s) \in Seq(Int) /\ Head(s) = s[1]
         /\ s = <<Head(s)>> \o Tail(s)
<1>1. Head(s) \in Int /\ Tail(s) \in Seq(Int) /\ Len(s) \in Nat \ {0}
  BY HeadTailProperties, EmptySeq
<1>2. Tail(s) = SubSeq(s, 2, Len(s)) /\ SubSeq(s, 1, Len(s)) = s
  BY TailIsSubSeq, SubSeqFull
<1>3. SubSeq(s, 1, Len(s)) = <<s[1]>> \o SubSeq(s, 1 + 1, Len(s))
  BY <1>1, SubSeqRecursiveFirst, 1 \in 1 .. Len(s), Len(s) \in 1 .. Len(s)
<1>4. Head(s) = s[1]
  OBVIOUS
<1> QED BY <1>1, <1>2, <1>3, <1>4, 1 + 1 = 2

\* Named, so that the provers do not rewrite concatenations without end.
Associates(a, b, c) == (a \o b) \o c = a \o (b \o c)

\* Concatenation of sequences of requests is associative.
LEMMA Assoc == \A a, b, c \in Seq(Int) : Associates(a, b, c)
<1> SUFFICES ASSUME NEW a \in Seq(Int), NEW b \in Seq(Int), NEW c \in Seq(Int)
             PROVE  (a \o b) \o c = a \o (b \o c)
  BY DEF Associates
<1> QED BY ConcatAssociative

\* Moving the head of a sequence to the end of the one before it.
LEMMA MoveHead ==
  ASSUME NEW r \in Seq(Int), NEW s \in Seq(Int), s # << >>
  PROVE  Append(r, Head(s)) \o Tail(s) = r \o s
<1>1. Head(s) \in Int /\ Tail(s) \in Seq(Int) /\ <<Head(s)>> \in Seq(Int)
  BY HeadThenTail
<1>2. Append(r, Head(s)) = r \o <<Head(s)>>
  BY <1>1, AppendIsConcat
<1>3. Associates(r, <<Head(s)>>, Tail(s))
  BY <1>1, Assoc
<1>4. s = <<Head(s)>> \o Tail(s)
  BY HeadThenTail
<1> QED BY <1>2, <1>3, <1>4, Zenon DEF Associates

\* Moving a prefix of a sequence to the end of the one before it.
LEMMA MovePrefix ==
  ASSUME NEW r \in Seq(Int), NEW s \in Seq(Int), NEW n \in 0 .. Len(s)
  PROVE  (r \o SubSeq(s, 1, n)) \o SubSeq(s, n + 1, Len(s)) = r \o s
<1>1. SubSeq(s, 1, n) \in Seq(Int) /\ SubSeq(s, n + 1, Len(s)) \in Seq(Int) /\ Len(s) \in Nat
  BY Split
<1>2. 1 \in 1 .. Len(s) + 1 /\ n \in 1 - 1 .. Len(s) /\ Len(s) \in n .. Len(s)
  BY <1>1
<1>3. SubSeq(s, 1, n) \o SubSeq(s, n + 1, Len(s)) = SubSeq(s, 1, Len(s))
  BY <1>2, ConcatAdjacentSubSeq
<1>4. SubSeq(s, 1, Len(s)) = s
  BY SubSeqFull
<1> DEFINE p == SubSeq(s, 1, n)
           q == SubSeq(s, n + 1, Len(s))
<1>5. p \in Seq(Int) /\ q \in Seq(Int)
  BY <1>1
<1>6. p \o q = s
  BY <1>3, <1>4, Zenon
<1> HIDE DEF p, q
<1>7. Associates(r, p, q)
  BY <1>5, Assoc
<1>8. (r \o p) \o q = r \o s
  BY <1>6, <1>7, Zenon DEF Associates
<1> QED BY <1>8 DEF p, q

\* Appending to the last of two concatenated sequences.
LEMMA AppendLast ==
  ASSUME NEW r \in Seq(Int), NEW s \in Seq(Int), NEW e \in Int
  PROVE  r \o Append(s, e) = Append(r \o s, e)
<1>1. Append(s, e) = s \o <<e>> /\ r \o s \in Seq(Int)
  BY AppendIsConcat, ConcatProperties
<1>2. Append(r \o s, e) = (r \o s) \o <<e>>
  BY <1>1, AppendIsConcat
<1>3. <<e>> \in Seq(Int)
  OBVIOUS
<1>4. Associates(r, s, <<e>>)
  BY <1>3, Assoc
<1> QED BY <1>1, <1>2, <1>4, Zenon DEF Associates

\* The head and the tail of a concatenation.
LEMMA HeadTailConcat ==
  ASSUME NEW r \in Seq(Int), NEW s \in Seq(Int), r # << >>
  PROVE  /\ r \o s # << >>
         /\ Head(r \o s) = Head(r)
         /\ Tail(r \o s) = Tail(r) \o s
<1>1. /\ r \o s \in Seq(Int) /\ r \o s # << >> /\ Len(r) \in Nat \ {0} /\ Len(s) \in Nat
      /\ Len(r \o s) = Len(r) + Len(s)
  BY ConcatProperties, ConcatEqualIffEmpty, EmptySeq
<1>2. Head(r \o s) = (r \o s)[1] /\ (r \o s)[1] = r[1] /\ Head(r) = r[1]
  BY <1>1, HeadThenTail, ConcatProperties, 1 \in 1 .. Len(r) + Len(s)
<1>3. Tail(r \o s) = SubSeq(r \o s, 2, Len(r \o s)) /\ Tail(r) = SubSeq(r, 2, Len(r))
  BY <1>1, TailIsSubSeq
<1>4. r = <<Head(r)>> \o Tail(r) /\ <<Head(r)>> \in Seq(Int) /\ Tail(r) \in Seq(Int)
  BY HeadThenTail
<1>5. r \o s = <<Head(r)>> \o (Tail(r) \o s) /\ Tail(r) \o s \in Seq(Int)
  BY <1>4, ConcatAssociative, ConcatProperties
<1>6. r \o s = <<Head(r \o s)>> \o Tail(r \o s) /\ Tail(r \o s) \in Seq(Int)
  BY <1>1, HeadThenTail
<1>7. <<Head(r)>> \o (Tail(r) \o s) = <<Head(r)>> \o Tail(r \o s)
  BY <1>2, <1>5, <1>6
<1>8. Tail(r) \o s = Tail(r \o s)
  BY <1>4, <1>5, <1>6, <1>7, ConcatSimplifications
<1> QED BY <1>1, <1>2, <1>8
-----------------------------------------------------------------------------
\* Four queues in a row, as one sequence.
Row(a, b, c, d) == a \o b \o c \o d

\* It is the concatenation of a first part and a second one.
LEMMA RowParts ==
  ASSUME NEW a \in Seq(Int), NEW b \in Seq(Int), NEW c \in Seq(Int), NEW d \in Seq(Int)
  PROVE  /\ a \o b \in Seq(Int) /\ (a \o b) \o c \in Seq(Int) /\ Row(a, b, c, d) \in Seq(Int)
         /\ Row(a, b, c, d) = ((a \o b) \o c) \o d
<1> DEFINE ab == a \o b
           abc == ab \o c
<1>1. ab \in Seq(Int)
  BY ConcatProperties
<1> HIDE DEF ab
<1>2. abc \in Seq(Int)
  BY <1>1, ConcatProperties
<1> HIDE DEF abc
<1>3. abc \o d \in Seq(Int)
  BY <1>2, ConcatProperties
<1> QED BY <1>1, <1>2, <1>3 DEF ab, abc, Row

\* t is s followed by e.
Longer(t, s, e) ==
  /\ Len(t) = Len(s) + 1
  /\ \A i \in 1 .. Len(s) : t[i] = s[i]
  /\ t[Len(s) + 1] = e

\* Appending makes a sequence longer.
LEMMA AppendLonger ==
  ASSUME NEW s \in Seq(Int), NEW e \in Int
  PROVE  Longer(Append(s, e), s, e)
BY AppendProperties DEF Longer

\* Appending to the last queue.
LEMMA RowAppend ==
  ASSUME NEW a \in Seq(Int), NEW b \in Seq(Int), NEW c \in Seq(Int), NEW d \in Seq(Int),
         NEW e \in Int, NEW t, t = Append(d, e)
  PROVE  Longer(Row(a, b, c, t), Row(a, b, c, d), e)
<1> DEFINE abc == (a \o b) \o c
<1>1. abc \in Seq(Int)
  BY RowParts
<1> HIDE DEF abc
<1>2. abc \o Append(d, e) = Append(abc \o d, e) /\ abc \o d \in Seq(Int)
  BY <1>1, AppendLast, ConcatProperties
<1>3. Longer(Append(abc \o d, e), abc \o d, e)
  BY <1>2, AppendLonger
<1> QED BY <1>2, <1>3 DEF abc, Row

\* Appending to the third one when the last is empty.
LEMMA RowInline ==
  ASSUME NEW a \in Seq(Int), NEW b \in Seq(Int), NEW c \in Seq(Int), NEW d,
         NEW e \in Int, NEW t, t = Append(c, e), d = << >>
  PROVE  Longer(Row(a, b, t, d), Row(a, b, c, d), e)
<1> DEFINE ab == a \o b
           abc == ab \o c
<1>1. ab \in Seq(Int) /\ abc \in Seq(Int)
  BY RowParts, << >> \in Seq(Int)
<1> HIDE DEF ab
<1>2. ab \o Append(c, e) = Append(abc, e)
  BY <1>1, AppendLast
<1> HIDE DEF abc
<1>3. Append(abc, e) \in Seq(Int)
  BY <1>1, AppendProperties
<1>4. (ab \o Append(c, e)) \o << >> = Append(abc \o << >>, e)
  BY <1>1, <1>2, <1>3, ConcatEmptySeq
<1>5. Longer(Append(abc \o << >>, e), abc \o << >>, e)
  BY <1>1, ConcatEmptySeq, AppendLonger
<1> QED BY <1>4, <1>5 DEF ab, abc, Row

\* Moving the head of the last queue to the third.
LEMMA RowRun ==
  ASSUME NEW a \in Seq(Int), NEW b \in Seq(Int), NEW c \in Seq(Int), NEW d \in Seq(Int),
         d # << >>
  PROVE  Row(a, b, Append(c, Head(d)), Tail(d)) = Row(a, b, c, d)
<1> DEFINE ab == a \o b
           abc == ab \o c
<1>1. ab \in Seq(Int) /\ abc \in Seq(Int) /\ Head(d) \in Int
  BY RowParts, HeadThenTail
<1> HIDE DEF ab
<1>2. ab \o Append(c, Head(d)) = Append(abc, Head(d))
  BY <1>1, AppendLast
<1> HIDE DEF abc
<1>3. Append(abc, Head(d)) \o Tail(d) = abc \o d
  BY <1>1, MoveHead
<1> QED BY <1>2, <1>3 DEF ab, abc, Row

\* Moving a prefix of the third queue to the second.
LEMMA RowWrite ==
  ASSUME NEW a \in Seq(Int), NEW b \in Seq(Int), NEW c \in Seq(Int), NEW d \in Seq(Int),
         NEW n \in 0 .. Len(c)
  PROVE  Row(a, b \o SubSeq(c, 1, n), SubSeq(c, n + 1, Len(c)), d) = Row(a, b, c, d)
<1> DEFINE ab == a \o b
           p == SubSeq(c, 1, n)
           q == SubSeq(c, n + 1, Len(c))
<1>1. ab \in Seq(Int)
  BY RowParts
<1>2. p \in Seq(Int)
  BY Split
<1>3. (ab \o p) \o q = ab \o c
  <2> HIDE DEF ab
  <2> QED BY <1>1, MovePrefix
<1> HIDE DEF p, q
<1>4. Associates(a, b, p)
  BY <1>2, Assoc
<1>5. ab \o p = a \o (b \o p)
  BY <1>4, Zenon DEF Associates
<1> HIDE DEF ab
<1> QED BY <1>3, <1>5, Zenon DEF ab, p, q, Row

\* Moving the head of the second queue to the first.
LEMMA RowReceive ==
  ASSUME NEW a \in Seq(Int), NEW b \in Seq(Int), NEW c \in Seq(Int), NEW d \in Seq(Int),
         b # << >>
  PROVE  Row(Append(a, Head(b)), Tail(b), c, d) = Row(a, b, c, d)
BY MoveHead DEF Row

-----------------------------------------------------------------------------
(* Where a request can be: the two queues that the steps only move along.  *)

\* The replies (Replies), as a row of queues.
Posted == Row(received, snd, outbuf, loopq)

\* Posted in the next state.
LEMMA PostedNext ==
  /\ Posted = Row(received, snd, outbuf, loopq)
  /\ Posted' = Row(received', snd', outbuf', loopq')
BY DEF Posted, Row

\* Segments from the client to pickMessage.
Stream == inbuf \o rcv

\* What a client's read, a write of the loop thread and its run of a posted
\* reply do to the replies: nothing.
LEMMA PostedKept ==
  ASSUME Shape, ClientReceive \/ WriteCallback \/ RunPosted
  PROVE  Posted' = Posted
<1>1. CASE ClientReceive
  <2>1. /\ received' = Append(received, Head(snd)) /\ snd' = Tail(snd) /\ snd # << >>
        /\ outbuf' = outbuf /\ loopq' = loopq
    BY <1>1 DEF ClientReceive, conn, pool
  <2> QED BY <2>1, RowReceive, PostedNext DEF Shape
<1>2. CASE WriteCallback
  <2>1. /\ snd' = snd \o SubSeq(outbuf, 1, Fits)
        /\ outbuf' = SubSeq(outbuf, Fits + 1, Len(outbuf))
        /\ received' = received /\ loopq' = loopq
    BY <1>2 DEF WriteCallback, pool
  <2>2. Fits \in 0 .. Len(outbuf)
    BY SendSpacePositive DEF Fits, Shape
  <2> QED BY <2>1, <2>2, RowWrite, PostedNext DEF Shape
<1>3. CASE RunPosted
  <2>1. /\ loopq # << >> /\ loopq' = Tail(loopq) /\ outbuf' = Append(outbuf, Head(loopq))
        /\ received' = received /\ snd' = snd
    BY <1>3 DEF RunPosted, SendInLoop, AppendWithsep, client
  <2> QED BY <2>1, RowRun, PostedNext DEF Shape
<1> QED BY <1>1, <1>2, <1>3

\* A worker posts its reply at the end.
LEMMA PostedByWorker ==
  ASSUME Shape, NEW w \in Workers, PostReply(w)
  PROVE  Longer(Posted', Posted, work[w])
<1>1. /\ loopq' = Append(loopq, work[w])
      /\ received' = received /\ snd' = snd /\ outbuf' = outbuf
  BY DEF PostReply, client, conn
<1>2. /\ received \in Seq(Int) /\ snd \in Seq(Int) /\ outbuf \in Seq(Int) /\ loopq \in Seq(Int)
      /\ work[w] \in Int
  BY DEF Shape
<1>3. Longer(Row(received, snd, outbuf, loopq'), Row(received, snd, outbuf, loopq), work[w])
  BY <1>1, <1>2, RowAppend
<1> QED BY <1>1, <1>3, PostedNext

\* So does the loop thread when nothing is posted to it.
LEMMA PostedInline ==
  ASSUME Shape, NEW m \in Int, SendInLoop(m), loopq = << >>, UNCHANGED <<received, snd, loopq>>
  PROVE  Longer(Posted', Posted, m)
<1>1. /\ outbuf' = Append(outbuf, m) /\ received' = received /\ snd' = snd
      /\ loopq = << >> /\ loopq' = << >>
  BY DEF SendInLoop, AppendWithsep
<1> QED BY <1>1, RowInline, PostedNext DEF Shape

\* A read moves segments along the stream.
LEMMA StreamRead == ASSUME Shape, ReadSome PROVE Stream' = Stream
<1> USE DEF Shape
<1>1. PICK n \in 1 .. Len(rcv) : /\ inbuf' = inbuf \o SubSeq(rcv, 1, n)
                                 /\ rcv' = SubSeq(rcv, n + 1, Len(rcv))
  BY DEF ReadSome
<1>2. n \in 0 .. Len(rcv)
  BY <1>1
<1> QED BY <1>1, <1>2, MovePrefix DEF Stream

\* The client's segments are appended to it.
LEMMA StreamSend == ASSUME Shape, ClientSend PROVE Longer(Stream', Stream, sent + 1)
<1>1. rcv' = Append(rcv, sent + 1) /\ inbuf' = inbuf /\ sent + 1 \in Int
      /\ rcv \in Seq(Int) /\ inbuf \in Seq(Int)
  BY DEF ClientSend, conn, Shape
<1>2. inbuf \o Append(rcv, sent + 1) = Append(inbuf \o rcv, sent + 1)
  BY <1>1, AppendLast
<1>3. Longer(Append(inbuf \o rcv, sent + 1), inbuf \o rcv, sent + 1)
  BY <1>1, ConcatProperties, AppendLonger
<1> QED BY <1>1, <1>2, <1>3 DEF Stream

\* t is s without its first n elements.
Shorter(t, s, n) ==
  /\ n <= Len(s) /\ Len(t) = Len(s) - n
  /\ \A i \in 1 .. Len(t) : t[i] = s[n + i]

\* What is left of a sequence after the first n elements, and of a longer one.
LEMMA DropShorter ==
  ASSUME NEW r \in Seq(Int), NEW s \in Seq(Int), NEW n \in 0 .. Len(r)
  PROVE  Shorter(SubSeq(r, n + 1, Len(r)) \o s, r \o s, n)
<1>1. \A i \in n + 1 .. Len(r) : r[i] \in Int
  OBVIOUS
<1> DEFINE q == SubSeq(r, n + 1, Len(r))
<1>2. /\ q \in Seq(Int) /\ Len(q) = Len(r) - n /\ Len(r) \in Nat /\ Len(s) \in Nat
      /\ \A i \in 1 .. Len(r) - n : q[i] = r[n + i]
  <2>1. n + 1 \in Int /\ Len(r) \in Int
    OBVIOUS
  <2> DEFINE k == n + 1
             l == Len(r)
  <2>2. \A i \in 1 .. l - k + 1 : SubSeq(r, k, l)[i] = r[k + i - 1]
    <3>1. k \in Int /\ l \in Int /\ \A i \in k .. l : r[i] \in Int
      BY <1>1, <2>1
    <3> HIDE DEF k, l
    <3> QED BY <3>1, SubSeqProperties
  <2>3. q \in Seq(Int) /\ Len(q) = Len(r) - n
    BY Split
  <2>4. ASSUME NEW i \in 1 .. Len(r) - n PROVE q[i] = r[n + i]
    <3>1. i \in 1 .. l - k + 1 /\ k + i - 1 = n + i
      BY <2>1
    <3>2. q = SubSeq(r, k, l)
      OBVIOUS
    <3> HIDE DEF q, k, l
    <3>3. q[i] = r[k + i - 1]
      BY <2>2, <3>1, <3>2
    <3> QED BY <3>1, <3>3
  <2> HIDE DEF q, k, l
  <2> QED BY <2>1, <2>3, <2>4
<1> HIDE DEF q
<1>3. /\ Len(q \o s) = Len(q) + Len(s) /\ Len(r \o s) = Len(r) + Len(s)
      /\ \A i \in 1 .. Len(q) + Len(s) : (q \o s)[i] = IF i <= Len(q) THEN q[i] ELSE s[i - Len(q)]
      /\ \A i \in 1 .. Len(r) + Len(s) : (r \o s)[i] = IF i <= Len(r) THEN r[i] ELSE s[i - Len(r)]
  BY <1>2, ConcatProperties
<1>4. ASSUME NEW i \in 1 .. Len(q) + Len(s) PROVE (q \o s)[i] = (r \o s)[n + i]
  <2>1. n + i \in 1 .. Len(r) + Len(s)
    BY <1>2
  <2>2. CASE i <= Len(q)
    <3>1. n + i <= Len(r) /\ i \in 1 .. Len(r) - n
      BY <1>2, <2>2
    <3> QED BY <1>2, <1>3, <2>1, <2>2, <3>1
  <2>3. CASE ~(i <= Len(q))
    <3>1. ~(n + i <= Len(r)) /\ i - Len(q) = (n + i) - Len(r)
      BY <1>2, <2>3
    <3>2. (q \o s)[i] = s[i - Len(q)]
      BY <1>3, <2>3
    <3>3. (r \o s)[n + i] = s[(n + i) - Len(r)]
      BY <1>3, <2>1, <3>1
    <3> QED BY <3>1, <3>2, <3>3
  <2> QED BY <2>2, <2>3
<1>5. n <= Len(r \o s) /\ Len(q \o s) = Len(r \o s) - n
  BY <1>2, <1>3
<1> QED BY <1>3, <1>4, <1>5 DEF q, Shorter

\* A worker takes the first of the queue.
LEMMA TailShorter ==
  ASSUME NEW s \in Seq(Int), s # << >>
  PROVE  Shorter(Tail(s), s, 1) /\ Head(s) = s[1]
<1>1. /\ Len(s) \in Nat \ {0} /\ Len(Tail(s)) = Len(s) - 1
      /\ \A i \in 1 .. Len(Tail(s)) : Tail(s)[i] = s[i + 1]
  BY HeadTailProperties, EmptySeq
<1> QED BY <1>1, HeadThenTail DEF Shorter

-----------------------------------------------------------------------------
(***************************************************************************)
(* Every step that does not end the process is one of six moves of the     *)
(* requests.  Rest says what the others leave alone.                       *)
(***************************************************************************)
Rest == wpc' = wpc /\ work' = work /\ disconnected' = disconnected

Quiet ==
  /\ sent' = sent /\ Stream' = Stream /\ workq' = workq /\ Posted' = Posted
  /\ wpc' = wpc /\ work' = work /\ (disconnected => disconnected')

Arrives ==
  /\ sent' = sent + 1 /\ Longer(Stream', Stream, sent + 1)
  /\ workq' = workq /\ Posted' = Posted /\ Rest

\* A message goes to the workers, or without workers into the output.
Handled(m) ==
  \/ Workers # {} /\ Longer(workq', workq, m) /\ Posted' = Posted
  \/ Workers = {} /\ ~disconnected /\ workq' = workq /\ Longer(Posted', Posted, m)

\* A complete message leaves the stream.
PickWhole ==
  /\ Units <= Len(Stream) /\ Shorter(Stream', Stream, Units)
  /\ Handled(RequestOf(Stream[1]))
  /\ sent' = sent /\ Rest

\* The loop thread stands at a message of which a part is missing.
Stalled == loop = "pick" /\ inbuf # << >> /\ Len(inbuf) < Units

\* An incomplete message stays, and the value of message is handled.
PickPart ==
  /\ Stalled /\ Stream' = Stream
  /\ \E m \in Int : Handled(m)
  /\ sent' = sent /\ Rest

TakeFirst(w) ==
  /\ wpc[w] = "idle" /\ Len(workq) >= 1 /\ Shorter(workq', workq, 1)
  /\ wpc' = [wpc EXCEPT ![w] = "check"] /\ work' = [work EXCEPT ![w] = workq[1]]
  /\ sent' = sent /\ Stream' = Stream /\ Posted' = Posted /\ disconnected' = disconnected

Decide(w) ==
  /\ wpc[w] = "check"
  /\ wpc' = [wpc EXCEPT ![w] = IF disconnected THEN "idle" ELSE "post"]
  /\ work' = work /\ disconnected' = disconnected
  /\ sent' = sent /\ Stream' = Stream /\ workq' = workq /\ Posted' = Posted

Posts(w) ==
  /\ wpc[w] = "post"
  /\ wpc' = [wpc EXCEPT ![w] = "idle"]
  /\ work' = work /\ disconnected' = disconnected
  /\ Longer(Posted', Posted, work[w])
  /\ sent' = sent /\ Stream' = Stream /\ workq' = workq

Move ==
  \/ Quiet \/ Arrives \/ PickWhole \/ PickPart
  \/ \E w \in Workers : TakeFirst(w) \/ Decide(w) \/ Posts(w)

\* The facts about the thread and the channel that the moves rest on.
Base == IInv /\ (Workers = {} => Inline)

\* It holds in every reachable state.
LEMMA BaseInvariance == Spec => []Base
<1>1. Init => Base
  BY InitIInv DEF Base, Init, Inline, ModFindsChannel
<1>2. IInv /\ Base /\ [Next]_vars => (Workers = {} => Inline')
  BY InlineStep DEF Base, IInv
<1>3. IInv /\ Base /\ [Next]_vars => (Workers = {} => Inline)'
  BY <1>2
<1>4. IInv /\ IInv' /\ Base /\ [Next]_vars => Base'
  BY <1>3 DEF Base
<1> QED BY <1>1, <1>4, Invariance, PTL DEF Spec

\* The stream and the replies are untouched when their queues are.
LEMMA Untouched ==
  /\ inbuf' = inbuf /\ rcv' = rcv => Stream' = Stream
  /\ received' = received /\ snd' = snd /\ outbuf' = outbuf /\ loopq' = loopq => Posted' = Posted
BY PostedNext DEF Stream

\* pickMessage and handleMessage.
LEMMA PickMove ==
  ASSUME Base, Pick, Running'
  PROVE  PickWhole \/ PickPart
<1> USE DEF client, poll, pool
<1>1. Shape /\ message' \in Int
  BY PickFacts DEF Base, IInv
<1>2. /\ inbuf \in Seq(Int) /\ rcv \in Seq(Int) /\ workq \in Seq(Int) /\ inbuf # << >>
      /\ Units \in Nat \ {0}
  BY <1>1, UnitsPositive DEF Shape, Pick
<1>3. sent' = sent /\ Rest /\ rcv' = rcv /\ received' = received /\ snd' = snd /\ loopq' = loopq
  BY DEF Pick, Rest
<1>4. Installed("message") /\ HandleMessage(message')
  BY DEF Pick, HandleMessage, Running
<1>5. Handled(message')
  <2>1. CASE Workers = {}
    <3>1. SendInLoop(message') /\ workq' = workq
      BY <1>4, <2>1 DEF HandleMessage
    <3>2. loopq = << >> /\ registered
      BY <2>1 DEF Base, Inline, Pick
    <3>3. ~disconnected
      BY <3>2 DEF Base, IInv, Watched
    <3>4. Longer(Posted', Posted, message')
      BY <1>1, <1>3, <3>1, <3>2, PostedInline
    <3> QED BY <2>1, <3>1, <3>3, <3>4 DEF Handled
  <2>2. CASE Workers # {}
    <3>1. workq' = Append(workq, message') /\ outbuf' = outbuf
      BY <1>4, <2>2 DEF HandleMessage
    <3>2. Longer(workq', workq, message')
      BY <1>1, <1>2, <3>1, AppendLonger
    <3> QED BY <1>3, <2>2, <3>1, <3>2, Untouched DEF Handled
  <2> QED BY <2>1, <2>2
<1>6. CASE Len(inbuf) >= Units
  <2>1. /\ message' = RequestOf(Head(inbuf))
        /\ inbuf' = SubSeq(inbuf, Units + 1, Len(inbuf))
        /\ Units \in 0 .. Len(inbuf)
    BY <1>2, <1>6 DEF Pick
  <2>2. Shorter(Stream', Stream, Units)
    BY <1>2, <1>3, <2>1, DropShorter DEF Stream
  <2>3. Stream[1] = Head(inbuf)
    <3>1. inbuf \o rcv # << >> /\ Head(inbuf \o rcv) = Head(inbuf) /\ inbuf \o rcv \in Seq(Int)
      BY <1>2, HeadTailConcat, ConcatProperties
    <3>2. Head(inbuf \o rcv) = (inbuf \o rcv)[1]
      BY <3>1, HeadThenTail
    <3> QED BY <3>1, <3>2 DEF Stream
  <2>4. Units <= Len(Stream)
    BY <2>2 DEF Shorter
  <2> QED BY <1>3, <1>5, <2>1, <2>2, <2>3, <2>4 DEF PickWhole
<1>7. CASE ~(Len(inbuf) >= Units)
  <2>1. inbuf' = inbuf
    BY <1>7 DEF Pick
  <2>2. Stalled
    BY <1>2, <1>7 DEF Pick, Stalled
  <2> QED BY <1>1, <1>3, <1>5, <2>1, <2>2, Untouched DEF PickPart
<1> QED BY <1>6, <1>7

\* Every step that leaves the process running is a move.
LEMMA Moves ==
  ASSUME Base, [Next]_vars, Running'
  PROVE  Move
<1>1. Shape
  BY DEF Base, IInv
<1> USE DEF client, poll, conn, thread, pool
<1>2. CASE Construct \/ SetCallback
  <2>1. UNCHANGED <<client, disconnected, inbuf, outbuf, thread, pool>>
    BY <1>2 DEF Construct, EnableReading, SetCallback
  <2>2. Stream' = Stream /\ Posted' = Posted
    BY <2>1, Untouched
  <2> QED BY <2>1, <2>2 DEF Quiet, Move
<1>3. CASE ClientSend
  <2>1. /\ sent' = sent + 1 /\ workq' = workq /\ Rest
        /\ UNCHANGED <<received, snd, outbuf, loopq>>
    BY <1>3 DEF ClientSend, Rest
  <2> QED BY <1>1, <1>3, <2>1, StreamSend, Untouched DEF Arrives, Move
<1>4. CASE ClientReceive \/ WriteCallback
  <2>1. UNCHANGED <<sent, disconnected, inbuf, rcv, workq, wpc, work>>
    BY <1>4 DEF ClientReceive, WriteCallback
  <2>2. Stream' = Stream /\ Posted' = Posted
    BY <1>1, <1>4, <2>1, Untouched, PostedKept
  <2> QED BY <2>1, <2>2 DEF Quiet, Move
<1>5. CASE RunPosted
  <2>1. UNCHANGED <<sent, disconnected, inbuf, rcv, workq, wpc, work>>
    BY <1>5 DEF RunPosted
  <2>2. Stream' = Stream /\ Posted' = Posted
    BY <1>1, <1>5, <2>1, Untouched, PostedKept
  <2> QED BY <2>1, <2>2 DEF Quiet, Move
<1>6. CASE ReadSome
  <2>1. UNCHANGED <<sent, disconnected, received, snd, outbuf, loopq, workq, wpc, work>>
    BY <1>6 DEF ReadSome
  <2> QED BY <1>1, <1>6, <2>1, Untouched, StreamRead DEF Quiet, Move
<1>7. CASE ReadEof
  <2>1. UNCHANGED <<client, inbuf, outbuf, pool>> /\ disconnected'
    BY <1>7 DEF ReadEof
  <2> QED BY <2>1, Untouched DEF Quiet, Move
<1>8. CASE ClientClose \/ EpollWait \/ HandleRead \/ ReadAgain \/ PickNothing \/ UNCHANGED vars
  <2>1. UNCHANGED <<sent, rcv, snd, received, disconnected, inbuf, outbuf, pool>>
    BY <1>8 DEF ClientClose, EpollWait, HandleRead, ReadAgain, PickNothing, vars
  <2> QED BY <2>1, Untouched DEF Quiet, Move
<1>9. CASE Pick
  BY <1>9, PickMove DEF Move
<1>10. ASSUME NEW w \in Workers, Take(w) PROVE Move
  <2>1. /\ workq \in Seq(Int) /\ workq # << >> /\ workq' = Tail(workq)
        /\ wpc[w] = "idle" /\ wpc' = [wpc EXCEPT ![w] = "check"]
        /\ work' = [work EXCEPT ![w] = Head(workq)]
        /\ UNCHANGED <<client, conn, loopq>>
    BY <1>1, <1>10 DEF Take, Shape
  <2>2. Shorter(workq', workq, 1) /\ Head(workq) = workq[1]
    BY <2>1, TailShorter
  <2>3. Len(workq) >= 1
    BY <2>1, EmptySeq
  <2>4. TakeFirst(w)
    BY <2>1, <2>2, <2>3, Untouched DEF TakeFirst
  <2> QED BY <2>4 DEF Move
<1>11. ASSUME NEW w \in Workers, CheckConnected(w) PROVE Move
  <2>1. Decide(w)
    BY <1>11, Untouched DEF CheckConnected, Decide
  <2> QED BY <2>1 DEF Move
<1>12. ASSUME NEW w \in Workers, PostReply(w) PROVE Move
  <2>1. Posts(w)
    BY <1>1, <1>12, Untouched, PostedByWorker DEF PostReply, Posts
  <2> QED BY <2>1 DEF Move
<1> QED
  BY <1>2, <1>3, <1>4, <1>5, <1>6, <1>7, <1>8, <1>9, <1>10, <1>11, <1>12
     DEF Next, ClientStep, HandlerStep, WorkerStep

-----------------------------------------------------------------------------
(* Arithmetic of segments.                                                 *)

\* What the arithmetic of segments needs.
LEMMA DivBy ==
  ASSUME NEW u \in Nat \ {0}, NEW q \in Nat, NEW r \in 0 .. u - 1
  PROVE  (q * u + r) \div u = q
OBVIOUS

\* Multiplying back what was divided does not exceed it.
LEMMA DivMul ==
  ASSUME NEW u \in Nat \ {0}, NEW x \in Nat, NEW m \in Nat, m <= x \div u
  PROVE  m * u <= x
OBVIOUS

\* A multiple that is larger is larger by a whole request.
LEMMA MulNext ==
  ASSUME NEW u \in Nat \ {0}, NEW k \in Nat
  PROVE  /\ k * u \in Nat /\ k * u + u = (k + 1) * u
         /\ \A m \in Nat : k < m => k * u + u <= m * u
OBVIOUS

\* The first and the last segment of a request are segments of that request.
LEMMA SegmentOf ==
  ASSUME NEW k \in Nat
  PROVE  RequestOf(k * Units + 1) = k + 1 /\ RequestOf(k * Units) = k
<1>1. Units \in Nat \ {0} /\ k * Units \in Nat /\ k * Units + Units = (k + 1) * Units
  BY UnitsPositive, MulNext
<1>2. ((k + 1) * Units + 0) \div Units = k + 1
  BY <1>1, DivBy, 0 \in 0 .. Units - 1, k + 1 \in Nat
<1>3. (k * Units + (Units - 1)) \div Units = k
  BY <1>1, DivBy, Units - 1 \in 0 .. Units - 1
<1>4. /\ k * Units + 1 + Units - 1 = (k + 1) * Units + 0
      /\ k * Units + Units - 1 = k * Units + (Units - 1)
  BY <1>1
<1> QED BY <1>2, <1>3, <1>4 DEF RequestOf

\* One more segment completes at most one more request.
LEMMA DivNext ==
  ASSUME NEW u \in Nat \ {0}, NEW x \in Nat
  PROVE  /\ x \div u \in Nat /\ (x + 1) \div u \in {x \div u, x \div u + 1}
         /\ \A y \in Nat : y <= x => y \div u <= x \div u
<1>0. x \div u \in Nat /\ (x \div u) * u \in Nat /\ (x \div u) * u <= x /\ x < (x \div u) * u + u
  OBVIOUS
<1>1. PICK q \in Nat, r \in 0 .. u - 1 : x = q * u + r
  <2> DEFINE m == (x \div u) * u
  <2>1. m \in Nat /\ m <= x /\ x < m + u
    BY <1>0
  <2> HIDE DEF m
  <2>2. x - m \in 0 .. u - 1 /\ x = m + (x - m)
    BY <2>1
  <2> QED BY <1>0, <2>2 DEF m
<1>2. x \div u = q
  BY <1>1, DivBy
<1>3. CASE r + 1 \in 0 .. u - 1
  <2>1. x + 1 = q * u + (r + 1)
    BY <1>1
  <2> QED BY <1>2, <1>3, <2>1, DivBy
<1>4. CASE r = u - 1
  <2>1. x + 1 = (q + 1) * u + 0
    BY <1>1, <1>4, MulNext
  <2> QED BY <1>2, <2>1, DivBy, 0 \in 0 .. u - 1, q + 1 \in Nat
<1>5. r + 1 \in 0 .. u - 1 \/ r = u - 1
  BY <1>1
<1>6. ASSUME NEW y \in Nat, y <= x PROVE y \div u <= x \div u
  <2>1. y \div u \in Nat /\ (y \div u) * u <= y
    BY DivMul
  <2>2. CASE q < y \div u
    <3>1. q * u + u <= (y \div u) * u
      BY <2>1, <2>2, MulNext
    <3> QED BY <1>1, <1>6, <2>1, <3>1
  <2> QED BY <1>2, <2>1, <2>2
<1> QED BY <1>2, <1>3, <1>4, <1>5, <1>6

-----------------------------------------------------------------------------
(***************************************************************************)
(* The ledger.  Requests are numbered, so the two queues before the        *)
(* workers hold the last ones without a gap; what a worker has taken is    *)
(* with that worker or was posted, once.  Picked counts the segments that  *)
(* have left the stream, Handed the requests they make up.                 *)
(***************************************************************************)
Picked == sent - Len(Stream)
Handed == Picked \div Units
Taken  == Handed - Len(workq)

Busy(w) == wpc[w] # "idle"

Numbered ==
  /\ Picked \in Nat /\ Handed \in Nat /\ Picked = Handed * Units /\ Taken \in Nat
  /\ \A i \in 1 .. Len(Stream) : Stream[i] = Picked + i
  /\ \A i \in 1 .. Len(workq) : workq[i] = Taken + i

Once ==
  /\ \A i \in 1 .. Len(Posted) : Posted[i] \in 1 .. Taken
  /\ \A i, j \in 1 .. Len(Posted) : Posted[i] = Posted[j] => i = j
  /\ \A w \in Workers : Busy(w) =>
       /\ work[w] \in 1 .. Taken
       /\ \A i \in 1 .. Len(Posted) : Posted[i] # work[w]
       /\ \A v \in Workers : Busy(v) /\ work[v] = work[w] => v = w

\* With one worker or none, replies are posted in order.  A worker that finds
\* the connection closed drops its reply, and so will those that come after.
InOrder ==
  /\ \A i \in 1 .. Len(Posted) : Posted[i] = i
  /\ \A w \in Workers : Busy(w) => work[w] = Taken
  /\ \A w \in Workers : wpc[w] = "post" => Len(Posted) = Taken - 1
  /\ ~disconnected =>
       /\ \A w \in Workers : Busy(w) => Len(Posted) = Taken - 1
       /\ (\A w \in Workers : ~Busy(w)) => Len(Posted) = Taken

Single == \A v, w \in Workers : v = w

\* What the kernel has accepted is right, and in order if posted in order.
Accepted == received \o snd

Delivered ==
  /\ sent \in Nat
  /\ \A i \in 1 .. Len(Accepted) : Accepted[i] \in 1 .. sent \div Units
  /\ \A i, j \in 1 .. Len(Accepted) : Accepted[i] = Accepted[j] => i = j
  /\ Single => \A i \in 1 .. Len(Accepted) : Accepted[i] = i

\* A loop thread that is stalled hands on the same message again and again,
\* and never comes to writing any of the replies.
Ledger ==
  Running => Delivered /\ (~Stalled => Numbered /\ Once /\ (Single => InOrder))

\* The types of the queues.
QueueTypes ==
  /\ sent \in Int /\ Len(Stream) \in Nat /\ Len(workq) \in Nat /\ Len(Posted) \in Nat
  /\ \A i \in 1 .. Len(Stream) : Stream[i] \in Int
  /\ \A i \in 1 .. Len(workq) : workq[i] \in Int
  /\ \A i \in 1 .. Len(Posted) : Posted[i] \in Int
  /\ wpc \in [Workers -> {"idle", "check", "post"}] /\ work \in [Workers -> Int]

\* They follow from those of the variables.
LEMMA QueuesTyped == Shape => QueueTypes
<1> SUFFICES ASSUME Shape PROVE QueueTypes
  OBVIOUS
<1>1. Stream \in Seq(Int)
  BY ConcatProperties DEF Stream, Shape
<1>2. Posted \in Seq(Int)
  BY RowParts, PostedNext DEF Shape
<1>3. workq \in Seq(Int) /\ sent \in Int
      /\ wpc \in [Workers -> {"idle", "check", "post"}] /\ work \in [Workers -> Int]
  BY DEF Shape
<1>4. ASSUME NEW s \in Seq(Int) PROVE Len(s) \in Nat /\ \A i \in 1 .. Len(s) : s[i] \in Int
  OBVIOUS
<1> QED BY <1>1, <1>2, <1>3, <1>4 DEF QueueTypes

\* The message that is picked is the next request.
LEMMA NextRequest ==
  ASSUME QueueTypes, QueueTypes', Numbered, PickWhole
  PROVE  /\ RequestOf(Stream[1]) = Handed + 1 /\ Handed \in Nat
         /\ Picked' = Picked + Units /\ Handed' = Handed + 1
         /\ Picked' \in Nat /\ Picked' = Handed' * Units
         /\ \A i \in 1 .. Len(Stream') : Stream'[i] = Picked' + i
<1>1. Units \in Nat \ {0}
  BY UnitsPositive
<1>2. /\ Len(Stream') = Len(Stream) - Units /\ Len(Stream) >= Units /\ sent' = sent
      /\ \A i \in 1 .. Len(Stream') : Stream'[i] = Stream[Units + i]
  BY DEF PickWhole, Shorter
<1>3. /\ sent \in Int /\ Len(Stream) \in Nat /\ Len(Stream') \in Nat
      /\ Picked = sent - Len(Stream) /\ Picked' = sent' - Len(Stream')
  BY DEF QueueTypes, Picked
<1>4. /\ Picked \in Nat /\ Handed \in Nat /\ Picked = Handed * Units
      /\ \A i \in 1 .. Len(Stream) : Stream[i] = Picked + i
  BY DEF Numbered
<1>5. Picked' = Picked + Units
  BY <1>1, <1>2, <1>3
<1>6. Picked' = (Handed + 1) * Units + 0
  BY <1>1, <1>4, <1>5, MulNext
<1>7. Handed' = Handed + 1
  <2>1. ((Handed + 1) * Units + 0) \div Units = Handed + 1
    BY <1>1, <1>4, DivBy, 0 \in 0 .. Units - 1, Handed + 1 \in Nat
  <2>2. Handed' = Picked' \div Units
    BY DEF Handed
  <2> QED BY <1>6, <2>1, <2>2
<1>8. RequestOf(Stream[1]) = Handed + 1
  <2>1. Stream[1] = Handed * Units + 1
    BY <1>1, <1>2, <1>3, <1>4
  <2> QED BY <1>4, <2>1, SegmentOf
<1>9. ASSUME NEW i \in 1 .. Len(Stream') PROVE Stream'[i] = Picked' + i
  <2>1. Units + i \in 1 .. Len(Stream)
    BY <1>1, <1>2, <1>3
  <2>2. Stream'[i] = Picked + (Units + i)
    BY <1>2, <1>4, <2>1
  <2> QED BY <1>1, <1>4, <1>5, <2>2
<1>10. Picked' \in Nat /\ Picked' = Handed' * Units
  BY <1>1, <1>4, <1>5, <1>6, <1>7
<1> QED BY <1>4, <1>5, <1>7, <1>8, <1>9, <1>10

\* A move that leaves the number of picked segments leaves the other numbers.
LEMMA SameNumbers ==
  ASSUME Picked' = Picked, Len(workq') = Len(workq)
  PROVE  Handed' = Handed /\ Taken' = Taken
BY DEF Handed, Taken

\* Every move keeps the numbers of what is in the stream and in the queue.
LEMMA NumberedStep ==
  ASSUME QueueTypes, QueueTypes', Workers = {} => Len(workq) = 0, Numbered, Move, ~Stalled
  PROVE  Numbered'
<1>1. /\ sent \in Int /\ Len(Stream) \in Nat /\ Len(workq) \in Nat
      /\ sent' \in Int /\ Len(Stream') \in Nat /\ Len(workq') \in Nat
      /\ Picked = sent - Len(Stream) /\ Picked' = sent' - Len(Stream')
      /\ Taken = Handed - Len(workq) /\ Taken' = Handed' - Len(workq')
      /\ Picked \in Nat /\ Handed \in Nat /\ Taken \in Nat
  BY DEF QueueTypes, Numbered, Picked, Taken
<1>2. CASE Quiet
  BY <1>2 DEF Quiet, Numbered, Picked, Handed, Taken
<1>3. CASE Arrives
  <2>1. /\ Len(Stream') = Len(Stream) + 1 /\ Stream'[Len(Stream) + 1] = sent + 1
        /\ \A i \in 1 .. Len(Stream) : Stream'[i] = Picked + i
        /\ sent' = sent + 1 /\ workq' = workq
    BY <1>3 DEF Arrives, Longer, Numbered
  <2>2. Picked' = Picked
    BY <1>1, <2>1
  <2>3. Handed' = Handed /\ Taken' = Taken
    BY <2>1, <2>2, SameNumbers
  <2>4. \A i \in 1 .. Len(Stream') : Stream'[i] = Picked' + i
    BY <1>1, <2>1, <2>2
  <2> QED BY <2>1, <2>2, <2>3, <2>4 DEF Numbered
<1>4. CASE PickWhole
  <2>1. /\ RequestOf(Stream[1]) = Handed + 1 /\ Handed' = Handed + 1
        /\ Picked' \in Nat /\ Picked' = Handed' * Units
        /\ \A i \in 1 .. Len(Stream') : Stream'[i] = Picked' + i
    BY <1>4, NextRequest
  <2>2. CASE Workers # {}
    <3>1. /\ Len(workq') = Len(workq) + 1 /\ workq'[Len(workq) + 1] = Handed + 1
          /\ \A i \in 1 .. Len(workq) : workq'[i] = Taken + i
      BY <1>4, <2>1, <2>2 DEF PickWhole, Handled, Longer, Numbered
    <3>2. Taken' = Taken
      <4>1. Handed' = Handed + 1 /\ Len(workq') = Len(workq) + 1
        BY <2>1, <3>1
      <4> QED BY <1>1, <4>1
    <3>3. ASSUME NEW i \in 1 .. Len(workq') PROVE workq'[i] = Taken' + i
      <4>1. CASE i \in 1 .. Len(workq)
        BY <3>1, <3>2, <4>1
      <4>2. CASE i = Len(workq) + 1
        BY <1>1, <3>1, <3>2, <4>2
      <4>3. i \in 1 .. Len(workq) \/ i = Len(workq) + 1
        BY <1>1, <3>1
      <4> QED BY <4>1, <4>2, <4>3
    <3>4. Handed' \in Nat /\ Taken' \in Nat
      BY <1>1, <2>1, <3>2
    <3> QED BY <2>1, <3>3, <3>4 DEF Numbered
  <2>3. CASE Workers = {}
    <3>1. workq' = workq /\ Len(workq) = 0
      BY <1>4, <2>3 DEF PickWhole, Handled
    <3>2. Handed' \in Nat /\ Taken' \in Nat
      BY <1>1, <2>1, <3>1
    <3> QED BY <2>1, <3>1, <3>2 DEF Numbered
  <2> QED BY <2>2, <2>3
<1>5. CASE PickPart
  BY <1>5 DEF PickPart
<1>6. ASSUME NEW w \in Workers, TakeFirst(w) PROVE Numbered'
  <2>1. /\ Len(workq') = Len(workq) - 1 /\ Len(workq) >= 1
        /\ \A i \in 1 .. Len(workq') : workq'[i] = workq[1 + i]
        /\ sent' = sent /\ Stream' = Stream
    BY <1>6 DEF TakeFirst, Shorter
  <2>2. Picked' = Picked /\ Handed' = Handed
    BY <2>1 DEF Picked, Handed
  <2>3. Taken' = Taken + 1
    BY <1>1, <2>1, <2>2
  <2>4. \A i \in 1 .. Len(workq') : workq'[i] = Taken' + i
    <3>1. \A i \in 1 .. Len(workq) : workq[i] = Taken + i
      BY DEF Numbered
    <3>2. ASSUME NEW i \in 1 .. Len(workq') PROVE workq'[i] = Taken' + i
      <4>1. 1 + i \in 1 .. Len(workq) /\ workq'[i] = workq[1 + i]
        BY <1>1, <2>1
      <4>2. workq[1 + i] = Taken + (1 + i)
        BY <3>1, <4>1
      <4> QED BY <1>1, <2>3, <4>1, <4>2
    <3> QED BY <3>2
  <2> QED BY <1>1, <2>1, <2>2, <2>3, <2>4 DEF Numbered
<1>7. ASSUME NEW w \in Workers, Decide(w) \/ Posts(w) PROVE Numbered'
  BY <1>7 DEF Decide, Posts, Numbered, Picked, Handed, Taken
<1> QED BY <1>2, <1>3, <1>4, <1>5, <1>6, <1>7 DEF Move

\* Every move leaves a request in one place.
LEMMA OnceStep ==
  ASSUME QueueTypes, QueueTypes', Workers = {} => Len(workq) = 0,
         Numbered, Numbered', Once, Move, ~Stalled
  PROVE  Once'
<1>1. /\ Len(Posted) \in Nat /\ Taken \in Nat /\ Taken' \in Nat
      /\ wpc \in [Workers -> {"idle", "check", "post"}] /\ work \in [Workers -> Int]
  BY DEF QueueTypes, Numbered
<1>2. CASE Quiet
  <2>1. Taken' = Taken
    BY <1>2 DEF Quiet, Taken, Handed, Picked
  <2> QED BY <1>2, <2>1 DEF Quiet, Once, Busy
<1>3. CASE Arrives
  <2>1. Taken' = Taken
    <3>1. Picked' = Picked /\ workq' = workq
      BY <1>3 DEF Arrives, Longer, Picked, QueueTypes
    <3> QED BY <3>1, SameNumbers
  <2> QED BY <1>3, <2>1 DEF Arrives, Rest, Once, Busy
<1>4. CASE PickWhole
  <2>1. RequestOf(Stream[1]) = Handed + 1 /\ Handed' = Handed + 1 /\ Rest /\ Handed \in Int
    BY <1>4, NextRequest DEF PickWhole
  <2>2. Handled(Handed + 1)
    BY <1>4, <2>1 DEF PickWhole
  <2>3. CASE Workers # {}
    <3>0. Len(workq') = Len(workq) + 1 /\ Posted' = Posted /\ Len(workq) \in Int
      BY <2>2, <2>3 DEF Handled, Longer, QueueTypes
    <3>1. Taken' = Taken /\ Posted' = Posted
      BY <2>1, <3>0 DEF Taken
    <3> QED BY <2>1, <3>1 DEF Rest, Once, Busy
  <2>4. CASE Workers = {}
    <3>1. Len(workq) = 0 /\ workq' = workq /\ Longer(Posted', Posted, Handed + 1)
      BY <2>2, <2>4 DEF Handled
    <3>2. Taken' = Taken + 1 /\ Handed = Taken
      BY <2>1, <3>1 DEF Taken
    <3>3. /\ Len(Posted') = Len(Posted) + 1 /\ Posted'[Len(Posted) + 1] = Taken + 1
          /\ \A i \in 1 .. Len(Posted) : Posted'[i] = Posted[i] /\ Posted[i] \in 1 .. Taken
      BY <3>1, <3>2 DEF Longer, Once
    <3>4. \A i \in 1 .. Len(Posted') : Posted'[i] \in 1 .. Taken'
      BY <1>1, <3>2, <3>3
    <3>5. \A i, j \in 1 .. Len(Posted) : Posted[i] = Posted[j] => i = j
      BY DEF Once
    <3>6. \A i, j \in 1 .. Len(Posted') : Posted'[i] = Posted'[j] => i = j
      BY <1>1, <3>3, <3>5
    <3> QED BY <2>4, <3>4, <3>6 DEF Once
  <2> QED BY <2>3, <2>4
<1>5. CASE PickPart
  BY <1>5 DEF PickPart
<1>6. ASSUME NEW w \in Workers, TakeFirst(w) PROVE Once'
  <2>1. Taken' = Taken + 1 /\ workq[1] = Taken + 1
    BY <1>6 DEF TakeFirst, Shorter, Taken, Handed, Picked, Numbered, QueueTypes
  <2>2. Posted' = Posted /\ wpc[w] = "idle"
    BY <1>6 DEF TakeFirst
  <2>3. \A v \in Workers : /\ wpc'[v] = IF v = w THEN "check" ELSE wpc[v]
                           /\ work'[v] = IF v = w THEN Taken + 1 ELSE work[v]
    BY <1>1, <1>6, <2>1 DEF TakeFirst
  <2>4. \A i \in 1 .. Len(Posted') : Posted'[i] \in 1 .. Taken' /\ Posted'[i] # Taken + 1
    BY <1>1, <2>1, <2>2 DEF Once
  <2>5. \A v \in Workers : v # w /\ Busy(v)' => Busy(v) /\ work'[v] = work[v] /\ work[v] \in 1 .. Taken
    BY <2>3 DEF Busy, Once
  <2>6. work'[w] = Taken + 1
    BY <2>3
  <2>7. ASSUME NEW v \in Workers, Busy(v)'
        PROVE  /\ work'[v] \in 1 .. Taken'
               /\ \A i \in 1 .. Len(Posted') : Posted'[i] # work'[v]
               /\ \A u \in Workers : Busy(u)' /\ work'[u] = work'[v] => u = v
    <3>1. CASE v = w
      BY <1>1, <2>1, <2>4, <2>5, <2>6, <3>1
    <3>2. CASE v # w
      <4>1. Busy(v) /\ work'[v] = work[v] /\ work[v] \in 1 .. Taken
        BY <2>5, <2>7, <3>2
      <4>2. \A u \in Workers : Busy(u)' /\ work'[u] = work'[v] => u = v
        <5>1. SUFFICES ASSUME NEW u \in Workers, Busy(u)', work'[u] = work'[v] PROVE u = v
          OBVIOUS
        <5>2. u # w
          BY <1>1, <2>6, <4>1, <5>1
        <5>3. Busy(u) /\ work'[u] = work[u]
          BY <2>5, <5>1, <5>2
        <5> QED BY <4>1, <5>1, <5>3 DEF Once
      <4> QED BY <1>1, <2>1, <2>2, <4>1, <4>2 DEF Once
    <3> QED BY <3>1, <3>2
  <2>8. \A i, j \in 1 .. Len(Posted') : Posted'[i] = Posted'[j] => i = j
    BY <2>2 DEF Once
  <2> QED BY <2>4, <2>7, <2>8 DEF Once
<1>7. ASSUME NEW w \in Workers, Decide(w) PROVE Once'
  <2>1. Taken' = Taken /\ Posted' = Posted /\ work' = work
    BY <1>7 DEF Decide, Taken, Handed, Picked
  <2>2. \A v \in Workers : Busy(v)' => Busy(v)
    BY <1>1, <1>7 DEF Decide, Busy
  <2> QED BY <2>1, <2>2 DEF Once
<1>8. ASSUME NEW w \in Workers, Posts(w) PROVE Once'
  <2>1. Taken' = Taken /\ work' = work
    BY <1>8 DEF Posts, Taken, Handed, Picked
  <2>2. Longer(Posted', Posted, work[w]) /\ Busy(w)
    BY <1>8 DEF Posts, Busy
  <2>3. \A v \in Workers : Busy(v)' => Busy(v) /\ v # w
    BY <1>1, <1>8 DEF Posts, Busy
  <2>4. work[w] \in 1 .. Taken /\ \A i \in 1 .. Len(Posted) : Posted[i] # work[w]
    BY <2>2 DEF Once
  <2>5. /\ Len(Posted') = Len(Posted) + 1 /\ Posted'[Len(Posted) + 1] = work[w]
        /\ \A i \in 1 .. Len(Posted) : Posted'[i] = Posted[i] /\ Posted[i] \in 1 .. Taken
    BY <2>2 DEF Longer, Once
  <2>6. \A i \in 1 .. Len(Posted') : Posted'[i] \in 1 .. Taken'
    BY <1>1, <2>1, <2>4, <2>5
  <2>7. \A i, j \in 1 .. Len(Posted) : Posted[i] = Posted[j] => i = j
    BY DEF Once
  <2>8. \A i, j \in 1 .. Len(Posted') : Posted'[i] = Posted'[j] => i = j
    BY <1>1, <2>4, <2>5, <2>7
  <2>9. ASSUME NEW v \in Workers, Busy(v)'
        PROVE  /\ work'[v] \in 1 .. Taken'
               /\ \A i \in 1 .. Len(Posted') : Posted'[i] # work'[v]
               /\ \A u \in Workers : Busy(u)' /\ work'[u] = work'[v] => u = v
    <3>1. Busy(v) /\ v # w
      BY <2>3, <2>9
    <3>2. /\ work[v] \in 1 .. Taken /\ \A i \in 1 .. Len(Posted) : Posted[i] # work[v]
          /\ \A u \in Workers : Busy(u) /\ work[u] = work[v] => u = v
      BY <3>1 DEF Once
    <3>3. work[w] # work[v]
      BY <2>2, <3>1, <3>2
    <3>4. ASSUME NEW i \in 1 .. Len(Posted') PROVE Posted'[i] # work[v]
      <4>1. i \in 1 .. Len(Posted) \/ i = Len(Posted) + 1
        BY <1>1, <2>5
      <4> QED BY <2>5, <3>2, <3>3, <4>1
    <3> QED BY <2>1, <2>3, <3>2, <3>4
  <2> QED BY <2>6, <2>8, <2>9 DEF Once
<1> QED BY <1>2, <1>3, <1>4, <1>5, <1>6, <1>7, <1>8 DEF Move

\* A single worker, or none, posts in order.
LEMMA InOrderStep ==
  ASSUME QueueTypes, QueueTypes', Workers = {} => Len(workq) = 0,
         Numbered, Numbered', Single, InOrder, Move, ~Stalled
  PROVE  InOrder'
<1>1. /\ Len(Posted) \in Nat /\ Taken \in Int /\ Taken' \in Int
      /\ wpc \in [Workers -> {"idle", "check", "post"}] /\ work \in [Workers -> Int]
  <2>1. Taken \in Int /\ Taken' \in Int
    BY DEF Numbered
  <2>2. /\ Len(Posted) \in Nat
        /\ wpc \in [Workers -> {"idle", "check", "post"}] /\ work \in [Workers -> Int]
    BY DEF QueueTypes
  <2> QED BY <2>1, <2>2
<1>2. CASE Quiet
  <2>1. Taken' = Taken
    BY <1>2 DEF Quiet, Taken, Handed, Picked
  <2> QED BY <1>2, <2>1 DEF Quiet, InOrder, Busy
<1>3. CASE Arrives
  <2>1. Taken' = Taken
    <3>1. Picked' = Picked /\ workq' = workq
      BY <1>3 DEF Arrives, Longer, Picked, QueueTypes
    <3> QED BY <3>1, SameNumbers
  <2> QED BY <1>3, <2>1 DEF Arrives, Rest, InOrder, Busy
<1>4. CASE PickWhole
  <2>1. RequestOf(Stream[1]) = Handed + 1 /\ Handed' = Handed + 1 /\ Rest /\ Handed \in Int
    BY <1>4, NextRequest DEF PickWhole
  <2>2. Handled(Handed + 1)
    BY <1>4, <2>1 DEF PickWhole
  <2>3. CASE Workers # {}
    <3>0. Len(workq') = Len(workq) + 1 /\ Posted' = Posted /\ Len(workq) \in Int
      BY <2>2, <2>3 DEF Handled, Longer, QueueTypes
    <3>1. Taken' = Taken /\ Posted' = Posted
      BY <2>1, <3>0 DEF Taken
    <3> QED BY <2>1, <3>1 DEF Rest, InOrder, Busy
  <2>4. CASE Workers = {}
    <3>1. Len(workq) = 0 /\ workq' = workq /\ Longer(Posted', Posted, Handed + 1) /\ ~disconnected
      BY <2>2, <2>4 DEF Handled
    <3>2. Taken' = Taken + 1 /\ Handed = Taken
      BY <2>1, <3>1 DEF Taken
    <3>3. Len(Posted) = Taken
      BY <2>4, <3>1 DEF InOrder
    <3>4. /\ Len(Posted') = Len(Posted) + 1 /\ Posted'[Len(Posted) + 1] = Len(Posted) + 1
          /\ \A i \in 1 .. Len(Posted) : Posted'[i] = i
      BY <3>1, <3>2, <3>3 DEF Longer, InOrder
    <3>5. \A i \in 1 .. Len(Posted') : Posted'[i] = i
      BY <1>1, <3>4
    <3>6. Len(Posted') = Taken'
      BY <3>2, <3>3, <3>4
    <3> QED BY <2>4, <3>5, <3>6 DEF InOrder
  <2> QED BY <2>3, <2>4
<1>5. CASE PickPart
  BY <1>5 DEF PickPart
<1>6. ASSUME NEW w \in Workers, TakeFirst(w) PROVE InOrder'
  <2>1. Taken' = Taken + 1 /\ workq[1] = Taken + 1
    BY <1>6 DEF TakeFirst, Shorter, Taken, Handed, Picked, Numbered, QueueTypes
  <2>2. Posted' = Posted /\ disconnected' = disconnected /\ wpc[w] = "idle"
    BY <1>6 DEF TakeFirst
  <2>3. \A v \in Workers : wpc'[v] = "check" /\ work'[v] = Taken' /\ wpc[v] = "idle"
    BY <1>1, <1>6, <2>1 DEF TakeFirst, Single
  <2>4. ~disconnected => Len(Posted) = Taken' - 1
    BY <1>1, <2>1, <2>3 DEF InOrder, Busy
  <2>5. \A v \in Workers : Busy(v)' /\ wpc'[v] # "post"
    BY <2>3 DEF Busy
  <2> QED BY <2>2, <2>3, <2>4, <2>5 DEF InOrder
<1>7. ASSUME NEW w \in Workers, Decide(w) PROVE InOrder'
  <2>1. Taken' = Taken
    BY <1>7 DEF Decide, Taken, Handed, Picked
  <2>2. Posted' = Posted /\ work' = work /\ disconnected' = disconnected /\ wpc[w] = "check"
    BY <1>7 DEF Decide
  <2>3. \A v \in Workers : Busy(v) /\ wpc'[v] = IF disconnected THEN "idle" ELSE "post"
    BY <1>1, <1>7 DEF Decide, Single, Busy
  <2>4. \A v \in Workers : Busy(v)' => ~disconnected
    BY <2>3 DEF Busy
  <2>5. \A v \in Workers : ~disconnected => Busy(v)'
    BY <2>3 DEF Busy
  <2> QED BY <2>1, <2>2, <2>3, <2>4, <2>5 DEF InOrder
<1>8. ASSUME NEW w \in Workers, Posts(w) PROVE InOrder'
  <2>1. Taken' = Taken
    BY <1>8 DEF Posts, Taken, Handed, Picked
  <2>2. Longer(Posted', Posted, work[w]) /\ wpc[w] = "post" /\ disconnected' = disconnected
    BY <1>8 DEF Posts
  <2>3. \A v \in Workers : ~Busy(v)' /\ wpc'[v] # "post"
    BY <1>1, <1>8 DEF Posts, Single, Busy
  <2>4. work[w] = Taken /\ Len(Posted) = Taken - 1
    BY <2>2 DEF InOrder, Busy
  <2>5. /\ Len(Posted') = Len(Posted) + 1 /\ Posted'[Len(Posted) + 1] = Len(Posted) + 1
        /\ \A i \in 1 .. Len(Posted) : Posted'[i] = i
    BY <1>1, <2>2, <2>4 DEF Longer, InOrder
  <2>6. (\A i \in 1 .. Len(Posted') : Posted'[i] = i) /\ Len(Posted') = Taken'
    BY <1>1, <2>1, <2>4, <2>5
  <2> QED BY <2>2, <2>3, <2>6 DEF InOrder
<1> QED BY <1>2, <1>3, <1>4, <1>5, <1>6, <1>7, <1>8 DEF Move

\* A concatenation starts with its first sequence.
LEMMA ConcatPrefix ==
  ASSUME NEW s \in Seq(Int), NEW t \in Seq(Int)
  PROVE  /\ s \o t \in Seq(Int) /\ Len(s \o t) \in Nat /\ Len(s) \in Nat /\ Len(s) <= Len(s \o t)
         /\ \A i \in 1 .. Len(s) : (s \o t)[i] = s[i]
BY ConcatProperties

\* What the kernel has accepted is the beginning of what was posted.
LEMMA AcceptedPrefix ==
  ASSUME Shape
  PROVE  /\ Len(Accepted) \in Nat /\ Len(Accepted) <= Len(Posted) /\ Len(Posted) \in Nat
         /\ \A i \in 1 .. Len(Accepted) : Posted[i] = Accepted[i]
<1>1. received \in Seq(Int) /\ snd \in Seq(Int) /\ outbuf \in Seq(Int) /\ loopq \in Seq(Int)
  BY DEF Shape
<1> DEFINE a == received \o snd
           b == a \o outbuf
           r == b \o loopq
<1>2. a \in Seq(Int) /\ Len(a) \in Nat
  BY <1>1, ConcatPrefix
<1> HIDE DEF a
<1>3. /\ b \in Seq(Int) /\ Len(b) \in Nat /\ Len(a) <= Len(b)
      /\ \A i \in 1 .. Len(a) : b[i] = a[i]
  BY <1>1, <1>2, ConcatPrefix
<1> HIDE DEF b
<1>4. /\ Len(r) \in Nat /\ Len(b) <= Len(r) /\ \A i \in 1 .. Len(b) : r[i] = b[i]
  BY <1>1, <1>3, ConcatPrefix
<1> HIDE DEF r
<1>5. \A i \in 1 .. Len(a) : i \in 1 .. Len(b)
  BY <1>2, <1>3
<1>6. Len(a) <= Len(r) /\ \A i \in 1 .. Len(a) : r[i] = a[i]
  BY <1>2, <1>3, <1>4, <1>5
<1> QED BY <1>2, <1>4, <1>6 DEF a, b, r, Accepted, Posted, Row

\* So what is right of the posted replies is right of them.
LEMMA PostedDelivered == Shape /\ Numbered /\ Once /\ (Single => InOrder) => Delivered
<1> SUFFICES ASSUME Shape, Numbered, Once, Single => InOrder
             PROVE  Delivered
  OBVIOUS
<1>1. /\ sent \in Int /\ Len(Stream) \in Nat /\ Len(workq) \in Nat
      /\ Picked \in Nat /\ Handed \in Nat /\ Taken \in Nat
      /\ Picked = sent - Len(Stream) /\ Taken = Handed - Len(workq)
  BY QueuesTyped DEF QueueTypes, Numbered, Picked, Taken
<1>2. sent \in Nat /\ Picked <= sent
  BY <1>1
<1>3. sent \div Units \in Nat /\ Handed <= sent \div Units
  BY <1>1, <1>2, UnitsPositive, DivNext DEF Handed
<1>4. Taken <= sent \div Units
  BY <1>1, <1>3
<1>5. \A i \in 1 .. Len(Accepted) : i \in 1 .. Len(Posted) /\ Accepted[i] = Posted[i]
  BY AcceptedPrefix
<1>6. \A i \in 1 .. Len(Accepted) : Accepted[i] \in 1 .. sent \div Units
  <2>1. \A i \in 1 .. Len(Posted) : Posted[i] \in 1 .. Taken
    BY DEF Once
  <2>2. \A x \in 1 .. Taken : x \in 1 .. sent \div Units
    BY <1>1, <1>3, <1>4
  <2> QED BY <1>5, <2>1, <2>2
<1>7. \A i, j \in 1 .. Len(Accepted) : Accepted[i] = Accepted[j] => i = j
  BY <1>5 DEF Once
<1>8. Single => \A i \in 1 .. Len(Accepted) : Accepted[i] = i
  BY <1>5 DEF InOrder
<1> QED BY <1>2, <1>6, <1>7, <1>8 DEF Delivered

\* Nothing was sent yet.
LEMMA LedgerInit == Init => Ledger
<1> SUFFICES ASSUME Init PROVE Ledger
  OBVIOUS
<1>1. /\ sent = 0 /\ inbuf = << >> /\ rcv = << >> /\ workq = << >>
      /\ received = << >> /\ snd = << >> /\ outbuf = << >> /\ loopq = << >>
      /\ \A w \in Workers : wpc[w] = "idle"
  BY DEF Init
<1>2. << >> \o << >> = << >> /\ Len(<< >>) = 0
  OBVIOUS
<1>3. Len(Stream) = 0 /\ Len(workq) = 0
  BY <1>1, <1>2 DEF Stream
<1>4. Len(Posted) = 0
  BY <1>1, <1>2 DEF Posted, Row
<1>5. Picked = 0 /\ Handed = 0 /\ Taken = 0 /\ 0 * Units = 0
  <2>1. sent = 0 /\ Units \in Nat \ {0}
    BY <1>1, UnitsPositive
  <2>2. Picked = 0 /\ 0 * Units = 0
    BY <1>3, <2>1 DEF Picked
  <2>3. 0 \div Units = 0
    <3>1. (0 * Units + 0) \div Units = 0
      BY <2>1, DivBy, 0 \in 0 .. Units - 1
    <3> QED BY <2>2, <3>1
  <2>4. Handed = 0
    BY <2>2, <2>3 DEF Handed
  <2> QED BY <1>3, <2>2, <2>4 DEF Taken
<1>6. \A w \in Workers : ~Busy(w) /\ wpc[w] # "post"
  BY <1>1 DEF Busy
<1>7. Numbered /\ Once /\ InOrder
  BY <1>3, <1>4, <1>5, <1>6 DEF Numbered, Once, InOrder
<1>8. Delivered
  BY <1>7, InitIInv, PostedDelivered DEF IInv
<1> QED BY <1>7, <1>8 DEF Ledger

\* A stalled loop thread stays where it is, and sends nothing.
LEMMA StalledStep ==
  ASSUME Shape, Shape', Stalled, Delivered, Next, Running'
  PROVE  Stalled' /\ Delivered'
<1> USE DEF client, poll, conn, thread, pool
<1>1. loop = "pick" /\ inbuf # << >> /\ Len(inbuf) < Units /\ ~(Len(inbuf) >= Units)
  <2>1. Len(inbuf) \in Nat /\ Units \in Nat
    BY UnitsPositive DEF Shape
  <2> QED BY <2>1 DEF Stalled
<1>2. loop' = loop /\ inbuf' = inbuf
  BY <1>1 DEF Next, ClientStep, HandlerStep, WorkerStep, Construct, EnableReading, SetCallback,
     ClientSend, ClientClose, ClientReceive, EpollWait, HandleRead, ReadSome, ReadEof, ReadAgain,
     Pick, PickNothing, WriteCallback, RunPosted, Take, CheckConnected, PostReply
<1>3. Accepted' = Accepted
  <2>1. CASE ClientReceive
    <3>1. /\ received' = Append(received, Head(snd)) /\ snd' = Tail(snd) /\ snd # << >>
          /\ received \in Seq(Int) /\ snd \in Seq(Int)
      BY <2>1 DEF ClientReceive, Shape
    <3> QED BY <3>1, MoveHead DEF Accepted
  <2>2. CASE ~ClientReceive
    <3>1. received' = received /\ snd' = snd
      BY <1>1, <2>2 DEF Next, ClientStep, HandlerStep, WorkerStep, Construct, EnableReading,
         SetCallback, ClientSend, ClientClose, EpollWait, HandleRead, ReadSome, ReadEof, ReadAgain,
         Pick, PickNothing, WriteCallback, RunPosted, Take, CheckConnected, PostReply
    <3> QED BY <3>1 DEF Accepted
  <2> QED BY <2>1, <2>2
<1>4. sent' \in Nat /\ sent' \div Units \in Nat /\ sent \div Units <= sent' \div Units
  <2>1. sent' = sent \/ sent' = sent + 1
    BY DEF Next, ClientStep, HandlerStep, WorkerStep, Construct, EnableReading, SetCallback,
       ClientSend, ClientClose, ClientReceive, EpollWait, HandleRead, ReadSome, ReadEof, ReadAgain,
       Pick, PickNothing, WriteCallback, RunPosted, Take, CheckConnected, PostReply
  <2>2. sent \in Nat /\ Units \in Nat \ {0}
    BY UnitsPositive DEF Delivered
  <2>3. sent \div Units \in Nat /\ (sent + 1) \div Units \in {sent \div Units, sent \div Units + 1}
    BY <2>2, DivNext
  <2> QED BY <2>1, <2>2, <2>3
<1>5. \A x \in 1 .. sent \div Units : x \in 1 .. sent' \div Units
  <2>1. sent \div Units \in Nat
    BY UnitsPositive, DivNext DEF Delivered
  <2> QED BY <1>4, <2>1
<1>6. Stalled'
  BY <1>1, <1>2 DEF Stalled
<1>7. Delivered'
  <2> DEFINE a == Accepted
  <2>1. /\ \A i \in 1 .. Len(a) : a[i] \in 1 .. sent \div Units
        /\ \A i, j \in 1 .. Len(a) : a[i] = a[j] => i = j
        /\ Single => \A i \in 1 .. Len(a) : a[i] = i
    BY DEF Delivered
  <2>2. Accepted' = a /\ (Single' <=> Single)
    BY <1>3 DEF Single
  <2> HIDE DEF a
  <2>3. \A i \in 1 .. Len(a) : a[i] \in 1 .. sent' \div Units
    BY <1>5, <2>1
  <2> QED BY <1>4, <2>1, <2>2, <2>3 DEF Delivered
<1> QED BY <1>6, <1>7

\* Every step that does not end the process keeps the ledger.
LEMMA LedgerStep ==
  ASSUME Base, Base', Ledger, [Next]_vars
  PROVE  Ledger'
<1>1. SUFFICES ASSUME Running'
               PROVE  Delivered' /\ (~Stalled' => Numbered' /\ Once' /\ (Single => InOrder'))
  <2>1. Single' <=> Single
    BY DEF Single
  <2> QED BY <1>1, <2>1 DEF Ledger
<1>2. Running
  BY <1>1 DEF Next, Running, vars
<1>3. Shape /\ Shape' /\ QueueTypes /\ QueueTypes'
  BY QueuesTyped, PTL DEF Base, IInv
<1>4. Workers = {} => Len(workq) = 0
  BY EmptySeq DEF Base, Inline
<1>5. CASE ~Stalled
  <2>1. Numbered'
    BY <1>1, <1>2, <1>3, <1>4, <1>5, Moves, NumberedStep DEF Ledger
  <2>2. Once'
    BY <1>1, <1>2, <1>3, <1>4, <1>5, <2>1, Moves, OnceStep DEF Ledger
  <2>3. Single => InOrder'
    BY <1>1, <1>2, <1>3, <1>4, <1>5, <2>1, Moves, InOrderStep DEF Ledger
  <2>4. (Shape /\ Numbered /\ Once /\ (Single => InOrder) => Delivered)'
    BY PostedDelivered, PTL
  <2>5. Single' <=> Single
    BY DEF Single
  <2> QED BY <1>3, <2>1, <2>2, <2>3, <2>4, <2>5
<1>6. CASE Stalled /\ Next
  BY <1>1, <1>2, <1>3, <1>6, StalledStep DEF Ledger
<1>7. CASE Stalled /\ UNCHANGED vars
  <2>1. UNCHANGED <<sent, received, snd, loop, inbuf>>
    BY <1>7 DEF vars, client, conn, thread
  <2>2. Stalled' /\ Accepted' = Accepted
    BY <1>7, <2>1 DEF Stalled, Accepted
  <2> QED BY <1>2, <2>1, <2>2 DEF Ledger, Delivered, Single
<1> QED BY <1>5, <1>6, <1>7

(***************************************************************************)
(* Until the loop thread meets an incomplete message, every request that   *)
(* was sent and not dropped after the client closed is in one place: in    *)
(* the stream, in the queue of the workers, with one worker, or posted,    *)
(* and posted in order if no two workers compete.  From then on it spins,  *)
(* and what the kernel has accepted stays right (Connection.cpp:89-150).   *)
(***************************************************************************)
THEOREM LedgerCorrect == Spec => []Ledger
<1>1. Base /\ Base' /\ Ledger /\ [Next]_vars => Ledger'
  BY LedgerStep
<1> QED BY LedgerInit, <1>1, BaseInvariance, PTL DEF Spec

-----------------------------------------------------------------------------
(* The refinement of EchoService.                                          *)

\* Answers are ordered when there are no two workers.
LEMMA OrderedSingle == Cardinality(Workers) <= 1 => Single
<1> SUFFICES ASSUME NEW v \in Workers, NEW w \in Workers, v # w
             PROVE  ~(Cardinality(Workers) <= 1)
  BY DEF Single
<1>1. Cardinality({v}) = 1 /\ IsFiniteSet({v})
  BY FS_Singleton
<1>2. {v} \cup {w} \subseteq Workers /\ w \notin {v}
  OBVIOUS
<1>3. Cardinality({v} \cup {w}) = 2
  BY <1>1, <1>2, FS_AddElement
<1>4. Cardinality({v} \cup {w}) <= Cardinality(Workers)
  BY <1>2, WorkersFinite, FS_Subset
<1>5. Cardinality(Workers) \in Nat
  BY WorkersFinite, FS_CardinalityType
<1> QED BY <1>3, <1>4, <1>5

\* A step is one of EchoService, or leaves what EchoService sees alone.
LEMMA EchoStep ==
  ASSUME Shape, Ledger, [Next]_vars
  PROVE  [ES!ESNext]_(ES!esvars)
<1>1. CASE UNCHANGED vars
  BY <1>1 DEF vars, client, ES!esvars
<1>2. CASE Next /\ ClientSend
  <2>1. sent' = sent + 1 /\ received' = received /\ sent \in Nat
    BY <1>2 DEF ClientSend, Ledger, Delivered, Next
  <2>2. sent' \div Units \in {sent \div Units, sent \div Units + 1}
    BY <2>1, UnitsPositive, DivNext
  <2>3. CASE sent' \div Units = sent \div Units
    BY <2>1, <2>3 DEF ES!esvars
  <2>4. CASE sent' \div Units = sent \div Units + 1
    <3>1. ES!Ask
      BY <2>1, <2>4 DEF ES!Ask
    <3> QED BY <3>1 DEF ES!ESNext
  <2> QED BY <2>2, <2>3, <2>4
<1>3. CASE Next /\ ClientReceive
  <2>1. /\ snd # << >> /\ received' = Append(received, Head(snd)) /\ sent' = sent
        /\ received \in Seq(Int) /\ snd \in Seq(Int)
    BY <1>3 DEF ClientReceive, Shape
  <2>2. Delivered
    BY <1>3 DEF Ledger, Next
  <2>3. /\ Len(received) + 1 \in 1 .. Len(Accepted)
        /\ \A i \in 1 .. Len(received) : i \in 1 .. Len(Accepted) /\ Accepted[i] = received[i]
        /\ Accepted[Len(received) + 1] = Head(snd) /\ Len(received) \in Nat
    <3>1. /\ Len(received) \in Nat /\ Len(snd) \in Nat \ {0} /\ Head(snd) = snd[1]
      BY <2>1, EmptySeq, HeadThenTail
    <3>2. /\ Len(Accepted) = Len(received) + Len(snd)
          /\ \A i \in 1 .. Len(received) + Len(snd) :
               Accepted[i] = IF i <= Len(received) THEN received[i] ELSE snd[i - Len(received)]
      BY <2>1, ConcatProperties DEF Accepted
    <3>3. /\ Len(received) + 1 \in 1 .. Len(received) + Len(snd) /\ ~(Len(received) + 1 <= Len(received))
          /\ (Len(received) + 1) - Len(received) = 1
          /\ \A i \in 1 .. Len(received) : i \in 1 .. Len(received) + Len(snd) /\ i <= Len(received)
      BY <3>1
    <3> QED BY <3>1, <3>2, <3>3
  <2>4. Head(snd) \in 1 .. sent \div Units
    BY <2>2, <2>3 DEF Delivered
  <2>5. \A i \in 1 .. Len(received) : received[i] # Head(snd)
    <3>1. \A i \in 1 .. Len(received) : i # Len(received) + 1
      BY <2>3
    <3> QED BY <2>2, <2>3, <3>1 DEF Delivered
  <2>6. Cardinality(Workers) <= 1 => Head(snd) = Len(received) + 1
    BY <2>2, <2>3, OrderedSingle DEF Delivered
  <2>7. ES!Answer(Head(snd))
    BY <2>1, <2>5, <2>6 DEF ES!Answer
  <2> QED BY <2>4, <2>7 DEF ES!ESNext
<1>4. CASE sent' = sent /\ received' = received
  BY <1>4 DEF ES!esvars
<1>5. Construct \/ SetCallback \/ ClientClose \/ EpollWait \/ HandlerStep \/ RunPosted
        \/ (\E w \in Workers : WorkerStep(w))
      => sent' = sent /\ received' = received
  <2> USE DEF client, poll, conn, thread, pool
  <2>1. Construct \/ SetCallback \/ ClientClose \/ EpollWait \/ RunPosted
        => sent' = sent /\ received' = received
    BY DEF Construct, SetCallback, ClientClose, EpollWait, RunPosted
  <2>2. HandlerStep => sent' = sent /\ received' = received
    BY DEF HandlerStep, HandleRead, ReadSome, ReadEof, ReadAgain, Pick, PickNothing, WriteCallback
  <2>3. ASSUME NEW w \in Workers, WorkerStep(w) PROVE sent' = sent /\ received' = received
    BY <2>3 DEF WorkerStep, Take, CheckConnected, PostReply
  <2> QED BY <2>1, <2>2, <2>3
<1> QED BY <1>1, <1>2, <1>3, <1>4, <1>5 DEF Next, ClientStep

(***************************************************************************)
(* Connection implements EchoService for any number of requests, of        *)
(* segments of a request and of workers, and any space in the kernel: no   *)
(* reply is made up or sent twice, and without two workers they come in    *)
(* order.  A message handed on that pickMessage did not take is never sent: *)
(* the loop thread that has met one does not come to writing any more.     *)
(***************************************************************************)
THEOREM EchoRefinement == Spec => ImplementsEchoService
<1>1. Init => ES!ESInit
  <2>1. Units \in Nat \ {0} /\ 0 * Units + 0 = 0
    BY UnitsPositive
  <2>2. (0 * Units + 0) \div Units = 0
    BY <2>1, DivBy, 0 \in 0 .. Units - 1
  <2>3. 0 \div Units = 0
    BY <2>1, <2>2
  <2> QED BY <2>3 DEF Init, ES!ESInit
<1>2. Base /\ Ledger /\ [Next]_vars => [ES!ESNext]_(ES!esvars)
  BY EchoStep DEF Base, IInv
<1> QED BY <1>1, <1>2, BaseInvariance, LedgerCorrect, PTL DEF Spec, ImplementsEchoService, ES!ESSpec

-----------------------------------------------------------------------------
(* No request is lost, in however many segments a request arrives.         *)

\* Where a request is that has left the stream.
Found(m) ==
  \/ \E i \in 1 .. Len(Posted) : Posted[i] = m
  \/ \E w \in Workers : Busy(w) /\ work[w] = m
  \/ \E i \in 1 .. Len(workq) : workq[i] = m

\* Whole requests leave the stream, whose segments are the last ones sent.
Kept ==
  Running =>
    /\ Picked \in Nat /\ \A i \in 1 .. Len(Stream) : Stream[i] = Picked + i
    /\ \E k \in Nat : Picked = k * Units /\ (~disconnected => \A m \in 1 .. k : Found(m))

\* A request that was found is found again, unless the connection was closed.
LEMMA FoundStep ==
  ASSUME QueueTypes, Move, ~disconnected', NEW m, Found(m)
  PROVE  Found(m)' /\ ~disconnected
<1>1. /\ Len(Posted) \in Nat /\ Len(workq) \in Nat
      /\ wpc \in [Workers -> {"idle", "check", "post"}] /\ work \in [Workers -> Int]
  BY DEF QueueTypes
<1>2. CASE Quiet
  BY <1>2 DEF Quiet, Found, Busy
<1>3. CASE Arrives
  BY <1>3 DEF Arrives, Rest, Found, Busy
<1>4. ASSUME NEW e \in Int, Handled(e), Rest PROVE Found(m)' /\ ~disconnected
  <2>1. CASE Longer(workq', workq, e) /\ Posted' = Posted
    BY <1>1, <1>4, <2>1 DEF Longer, Rest, Found, Busy
  <2>2. CASE workq' = workq /\ Longer(Posted', Posted, e)
    BY <1>1, <1>4, <2>2 DEF Longer, Rest, Found, Busy
  <2> QED BY <1>4, <2>1, <2>2 DEF Handled
<1>5. CASE PickWhole
  <2>1. RequestOf(Stream[1]) \in Int
    BY <1>5, UnitsPositive DEF PickWhole, QueueTypes, RequestOf
  <2> QED BY <1>4, <1>5, <2>1 DEF PickWhole
<1>6. CASE PickPart
  BY <1>4, <1>6 DEF PickPart
<1>7. ASSUME NEW w \in Workers, TakeFirst(w) PROVE Found(m)' /\ ~disconnected
  <2>1. /\ Len(workq') = Len(workq) - 1 /\ Posted' = Posted /\ disconnected' = disconnected
        /\ \A i \in 1 .. Len(workq') : workq'[i] = workq[1 + i]
        /\ wpc[w] = "idle"
    BY <1>7 DEF TakeFirst, Shorter
  <2>2. \A v \in Workers : /\ wpc'[v] = IF v = w THEN "check" ELSE wpc[v]
                           /\ work'[v] = IF v = w THEN workq[1] ELSE work[v]
    BY <1>1, <1>7 DEF TakeFirst
  <2>3. ASSUME NEW i \in 1 .. Len(workq), workq[i] = m
        PROVE  Found(m)'
    <3>1. CASE i = 1
      BY <2>2, <2>3, <3>1 DEF Found, Busy
    <3>2. CASE i # 1
      <4>1. i - 1 \in 1 .. Len(workq') /\ 1 + (i - 1) = i
        BY <1>1, <2>1, <3>2
      <4>2. workq'[i - 1] = m
        BY <2>1, <2>3, <4>1
      <4> QED BY <4>1, <4>2 DEF Found
    <3> QED BY <3>1, <3>2
  <2>4. ASSUME NEW v \in Workers, Busy(v), work[v] = m PROVE Busy(v)' /\ work'[v] = m
    BY <2>1, <2>2, <2>4 DEF Busy
  <2> QED BY <2>1, <2>3, <2>4 DEF Found
<1>8. ASSUME NEW w \in Workers, Decide(w) PROVE Found(m)' /\ ~disconnected
  <2>1. /\ workq' = workq /\ Posted' = Posted /\ work' = work /\ disconnected' = disconnected
        /\ wpc' = [wpc EXCEPT ![w] = "post"]
    BY <1>8 DEF Decide
  <2>2. \A v \in Workers : Busy(v) => Busy(v)'
    BY <1>1, <2>1 DEF Busy
  <2> QED BY <2>1, <2>2 DEF Found
<1>9. ASSUME NEW w \in Workers, Posts(w) PROVE Found(m)' /\ ~disconnected
  <2>1. /\ workq' = workq /\ Longer(Posted', Posted, work[w]) /\ work' = work
        /\ disconnected' = disconnected
    BY <1>9 DEF Posts
  <2>2. \A v \in Workers : Busy(v) /\ v # w => Busy(v)'
    BY <1>1, <1>9 DEF Posts, Busy
  <2>3. /\ \A i \in 1 .. Len(Posted) : i \in 1 .. Len(Posted') /\ Posted'[i] = Posted[i]
        /\ Len(Posted) + 1 \in 1 .. Len(Posted') /\ Posted'[Len(Posted) + 1] = work[w]
    BY <1>1, <2>1 DEF Longer
  <2> QED BY <2>1, <2>2, <2>3 DEF Found
<1> QED BY <1>2, <1>3, <1>5, <1>6, <1>7, <1>8, <1>9 DEF Move

\* Every step that does not end the process keeps it.
LEMMA KeptStep ==
  ASSUME Base, Base', Kept, [Next]_vars
  PROVE  Kept'
<1>1. SUFFICES ASSUME Running'
               PROVE  /\ Picked' \in Nat /\ \A i \in 1 .. Len(Stream') : Stream'[i] = Picked' + i
                      /\ \E k \in Nat : /\ Picked' = k * Units
                                        /\ ~disconnected' => \A m \in 1 .. k : Found(m)'
  BY DEF Kept
<1>2. Running /\ Move
  BY <1>1, Moves DEF Next, Running, vars
<1>3. QueueTypes /\ QueueTypes'
  BY QueuesTyped, PTL DEF Base, IInv
<1>4. PICK k \in Nat : Picked = k * Units /\ (~disconnected => \A m \in 1 .. k : Found(m))
  BY <1>2 DEF Kept
<1>5. Picked \in Nat /\ \A i \in 1 .. Len(Stream) : Stream[i] = Picked + i
  BY <1>2 DEF Kept
<1>6. /\ sent \in Int /\ Len(Stream) \in Nat /\ sent' \in Int /\ Len(Stream') \in Nat
      /\ Picked = sent - Len(Stream) /\ Picked' = sent' - Len(Stream')
      /\ Len(Posted) \in Nat /\ Len(workq) \in Nat
  BY <1>3 DEF QueueTypes, Picked
<1>7. ~disconnected' => ~disconnected
  BY <1>2 DEF Move, Quiet, Arrives, PickWhole, PickPart, TakeFirst, Decide, Posts, Rest
<1>8. ~disconnected' => \A m \in 1 .. k : Found(m)'
  BY <1>2, <1>3, <1>4, <1>7, FoundStep
<1>9. CASE sent' = sent /\ Stream' = Stream
  <2>1. Picked' = Picked
    BY <1>9 DEF Picked
  <2> QED BY <1>4, <1>5, <1>8, <1>9, <2>1
<1>10. CASE Arrives
  <2>1. /\ Len(Stream') = Len(Stream) + 1 /\ Stream'[Len(Stream) + 1] = sent + 1
        /\ \A i \in 1 .. Len(Stream) : Stream'[i] = Picked + i
        /\ sent' = sent + 1
    BY <1>5, <1>10 DEF Arrives, Longer
  <2>2. Picked' = Picked
    BY <1>6, <2>1
  <2>3. \A i \in 1 .. Len(Stream') : Stream'[i] = Picked' + i
    BY <1>6, <2>1, <2>2
  <2> QED BY <1>4, <1>5, <1>8, <2>2, <2>3
<1>11. CASE PickWhole
  <2>1. /\ Len(Stream') = Len(Stream) - Units /\ Len(Stream) >= Units /\ sent' = sent
        /\ \A i \in 1 .. Len(Stream') : Stream'[i] = Stream[Units + i]
        /\ Handled(RequestOf(Stream[1]))
    BY <1>11 DEF PickWhole, Shorter
  <2>2. Units \in Nat \ {0}
    BY UnitsPositive
  <2>3. Picked' = Picked + Units
    BY <1>6, <2>1, <2>2
  <2>4. Picked' = (k + 1) * Units /\ k + 1 \in Nat
    BY <1>4, <2>2, <2>3, MulNext
  <2>5. \A i \in 1 .. Len(Stream') : Stream'[i] = Picked' + i
    <3>1. \A i \in 1 .. Len(Stream') : Units + i \in 1 .. Len(Stream)
      BY <1>6, <2>1, <2>2
    <3>2. \A i \in 1 .. Len(Stream') : Stream'[i] = Picked + (Units + i)
      BY <1>5, <2>1, <3>1
    <3> QED BY <1>5, <2>2, <2>3, <3>2
  <2>6. RequestOf(Stream[1]) = k + 1
    <3>1. Stream[1] = k * Units + 1
      BY <1>4, <1>5, <1>6, <2>1, <2>2
    <3> QED BY <3>1, SegmentOf
  <2>7. Found(k + 1)'
    <3>1. CASE Longer(workq', workq, k + 1)
      BY <1>6, <3>1 DEF Longer, Found
    <3>2. CASE Longer(Posted', Posted, k + 1)
      BY <1>6, <3>2 DEF Longer, Found
    <3> QED BY <2>1, <2>6, <3>1, <3>2 DEF Handled
  <2>8. ~disconnected' => \A m \in 1 .. k + 1 : Found(m)'
    BY <1>8, <2>7
  <2>9. Picked' \in Nat
    BY <1>5, <2>2, <2>3
  <2> QED BY <2>4, <2>5, <2>8, <2>9
<1>12. Quiet \/ PickPart \/ (\E w \in Workers : TakeFirst(w) \/ Decide(w) \/ Posts(w))
         => sent' = sent /\ Stream' = Stream
  BY DEF Quiet, PickPart, TakeFirst, Decide, Posts
<1> QED BY <1>2, <1>9, <1>10, <1>11, <1>12 DEF Move

(***************************************************************************)
(* In however many segments requests arrive, each one that was completed   *)
(* can be found while the client has not closed (Connection.cpp:64-150).   *)
(***************************************************************************)
THEOREM NoRequestLostCorrect == Spec => []NoRequestLost
<1>1. ASSUME Init PROVE Kept
  <2>1. sent = 0 /\ inbuf = << >> /\ rcv = << >>
    BY <1>1 DEF Init
  <2>2. << >> \o << >> = << >> /\ Len(<< >>) = 0
    OBVIOUS
  <2>3. Len(Stream) = 0
    BY <2>1, <2>2 DEF Stream
  <2>4. sent = 0
    BY <2>1
  <2>5. Picked = 0
    BY <2>3, <2>4 DEF Picked
  <2>6. 0 = 0 * Units
    BY UnitsPositive
  <2> QED BY <2>3, <2>5, <2>6 DEF Kept
<1>2. Base /\ Base' /\ Kept /\ [Next]_vars => Kept'
  BY KeptStep
<1>3. ASSUME Base, Kept PROVE NoRequestLost
  <2>1. SUFFICES ASSUME Running, ~disconnected, NEW m \in 1 .. sent \div Units
                 PROVE  \/ \E s \in Elements(inbuf \o rcv) : RequestOf(s) = m
                        \/ m \in Elements(workq)
                        \/ \E w \in Workers : wpc[w] # "idle" /\ work[w] = m
                        \/ m \in Elements(Replies)
    BY DEF NoRequestLost
  <2>2. PICK k \in Nat : Picked = k * Units /\ \A j \in 1 .. k : Found(j)
    BY <1>3, <2>1 DEF Kept
  <2>3. /\ Picked \in Nat /\ (\A i \in 1 .. Len(Stream) : Stream[i] = Picked + i)
        /\ sent \in Int /\ Len(Stream) \in Nat /\ Picked = sent - Len(Stream)
    BY <1>3, <2>1, QueuesTyped DEF Kept, Base, IInv, QueueTypes, Picked
  <2>4. Units \in Nat \ {0} /\ sent \in Nat
    BY <2>3, UnitsPositive
  <2>5. m \in Nat /\ m <= sent \div Units
    BY <2>3, <2>4
  <2>6. CASE m <= k
    <3>1. Found(m)
      BY <2>2, <2>5, <2>6
    <3> QED BY <3>1 DEF Found, Elements, Busy, Posted, Replies, Row
  <2>7. CASE k < m
    <3>1. m * Units <= sent /\ k * Units + Units <= m * Units /\ m * Units \in Nat
      BY <2>4, <2>5, <2>7, DivMul, MulNext
    <3>2. m * Units - Picked \in 1 .. Len(Stream) /\ Picked + (m * Units - Picked) = m * Units
      <4> DEFINE x == m * Units
      <4>1. x \in Nat /\ x <= sent /\ Picked < x
        BY <2>2, <2>3, <2>4, <3>1
      <4> HIDE DEF x
      <4>2. x - Picked \in 1 .. Len(Stream) /\ Picked + (x - Picked) = x
        BY <2>3, <4>1
      <4> QED BY <4>2 DEF x
    <3>3. Stream[m * Units - Picked] = m * Units
      BY <2>3, <3>2
    <3>4. m * Units \in Elements(inbuf \o rcv)
      BY <3>2, <3>3 DEF Elements, Stream
    <3>5. RequestOf(m * Units) = m
      BY <2>5, SegmentOf
    <3> QED BY <3>4, <3>5
  <2> QED BY <2>2, <2>5, <2>6, <2>7
<1> QED BY <1>1, <1>2, <1>3, BaseInvariance, PTL DEF Spec

-----------------------------------------------------------------------------
(* The order of the replies.                                               *)

\* A step that ends the process leaves the replies alone as well, or was about
\* to append one.
LEMMA LastStep ==
  ASSUME Base, Next, ~Running'
  PROVE  Posted' = Posted \/ \E m \in Int : Longer(Posted', Posted, m)
<1>1. Shape /\ crash' # crash
  BY DEF Base, IInv, Next, Running
<1> USE DEF client, poll, conn, thread, pool
<1>2. CASE Construct \/ ReadEof
  <2>1. UNCHANGED <<received, snd, outbuf, loopq>>
    BY <1>2 DEF Construct, ReadEof
  <2> QED BY <2>1, Untouched
<1>3. CASE WriteCallback \/ RunPosted
  BY <1>1, <1>3, PostedKept
<1>4. CASE Pick
  <2>1. message' \in Int /\ UNCHANGED <<received, snd, loopq>> /\ HandleMessage(message')
    BY <1>4, PickFacts DEF Base, IInv, Pick
  <2>2. CASE outbuf' = outbuf
    BY <2>1, <2>2, Untouched
  <2>3. CASE outbuf' # outbuf
    <3>1. Workers = {} /\ SendInLoop(message')
      BY <2>1, <2>3 DEF HandleMessage
    <3>2. loopq = << >>
      BY <1>4, <3>1 DEF Base, Inline, Pick
    <3>3. Longer(Posted', Posted, message')
      BY <1>1, <2>1, <3>1, <3>2, PostedInline
    <3> QED BY <2>1, <3>3
  <2> QED BY <2>2, <2>3
<1>5. CASE SetCallback \/ ClientStep \/ EpollWait
  BY <1>1, <1>5 DEF SetCallback, ClientStep, ClientSend, ClientClose, ClientReceive, EpollWait
<1>6. CASE HandleRead \/ ReadSome \/ ReadAgain \/ PickNothing
  BY <1>1, <1>6 DEF HandleRead, ReadSome, ReadAgain, PickNothing
<1>7. ASSUME NEW w \in Workers, WorkerStep(w) PROVE FALSE
  BY <1>1, <1>7 DEF WorkerStep, Take, CheckConnected, PostReply
<1> QED BY <1>2, <1>3, <1>4, <1>5, <1>6, <1>7 DEF Next, HandlerStep

\* A sequence that got longer starts with what it was.
LEMMA LongerKeeps ==
  ASSUME NEW s \in Seq(Int), NEW t \in Seq(Int),
         t = s \/ \E m \in Int : Longer(t, s, m)
  PROVE  Len(s) <= Len(t) /\ SubSeq(t, 1, Len(s)) = s
<1>1. /\ Len(s) <= Len(t) /\ Len(s) \in Nat /\ Len(t) \in Nat
      /\ \A i \in 1 .. Len(s) : t[i] = s[i]
  BY DEF Longer
<1>2. /\ SubSeq(t, 1, Len(s)) \in Seq(Int) /\ Len(SubSeq(t, 1, Len(s))) = Len(s)
      /\ \A i \in 1 .. Len(s) : SubSeq(t, 1, Len(s))[i] = t[i]
  BY <1>1
<1> QED BY <1>1, <1>2, SeqEqual

(***************************************************************************)
(* Replies reach the client as the workers posted them, whatever the       *)
(* number of workers, the space in the kernel and the cuts of requests:    *)
(* every step leaves them as they are, or one more gets in line            *)
(* (Connection.cpp:98-129, EventLoop.cpp:94-100).                          *)
(***************************************************************************)
THEOREM RepliesKeepOrderCorrect == Spec => RepliesKeepOrder
<1>1. Replies = Posted /\ Replies' = Posted'
  BY DEF Replies, Posted, Row
<1>2. ASSUME Base, Base', [Next]_vars
      PROVE  [Len(Replies) <= Len(Replies') /\ SubSeq(Replies', 1, Len(Replies)) = Replies]_vars
  <2>1. Posted \in Seq(Int) /\ Posted' \in Seq(Int)
    <3>1. Shape /\ Shape'
      BY <1>2 DEF Base, IInv
    <3> QED BY <3>1, RowParts, PostedNext DEF Shape
  <2>2. Posted' = Posted \/ \E m \in Int : Longer(Posted', Posted, m)
    <3>1. CASE UNCHANGED vars
      BY <3>1, Untouched DEF vars, client, conn, pool
    <3>2. CASE Running'
      <4>1. Move
        BY <1>2, <3>2, Moves
      <4>2. \A w \in Workers : work[w] \in Int
        BY <1>2 DEF Base, IInv, Shape
      <4>3. PickWhole => RequestOf(Stream[1]) \in Int
        <5>1. ASSUME PickWhole PROVE Stream[1] \in Int
          BY <1>2, <5>1, UnitsPositive, QueuesTyped DEF Base, IInv, QueueTypes, PickWhole
        <5> QED BY <5>1, UnitsPositive DEF RequestOf
      <4> QED BY <4>1, <4>2, <4>3 DEF Move, Quiet, Arrives, PickWhole, PickPart, Handled,
                 TakeFirst, Decide, Posts
    <3>3. CASE Next /\ ~Running'
      BY <1>2, <3>3, LastStep
    <3> QED BY <1>2, <3>1, <3>2, <3>3
  <2> QED BY <1>1, <2>1, <2>2, LongerKeeps
<1> QED BY <1>2, BaseInvariance, PTL DEF Spec, RepliesKeepOrder

-----------------------------------------------------------------------------
(* What the violations that the runs show need.                            *)

(***************************************************************************)
(* The process ends in two ways only: a worker's reply meets a channel     *)
(* that was removed after the client closed (ModFindsChannel, refuted by   *)
(* MCConnectionLateReply.cfg), or an event comes before the main thread    *)
(* has set the last callback (CallbacksInstalled, MCConnectionSetup.cfg).  *)
(***************************************************************************)
OnlyTwoCrashes ==
  /\ crash = "mod_error" => disconnected /\ eof /\ Workers # {}
  /\ crash = "no_callback" => Setup[setup] # "complete"

\* A channel that was in the tree and is not any more was removed at the end
\* of the client's stream.
Removed ==
  /\ inepoll /\ ~registered => disconnected
  /\ disconnected => eof
  /\ crash = "mod_error" => disconnected /\ Workers # {}
  /\ crash = "no_callback" => setup # 6

\* With setup complete every callback is installed.
LEMMA AllInstalled ==
  ASSUME Shape, setup = 6, NEW c \in {"close", "error", "message", "complete"}
  PROVE  Installed(c)
<1>1. /\ Setup[3] = "close" /\ Setup[4] = "error" /\ Setup[5] = "message" /\ Setup[6] = "complete"
      /\ 3 \in 1 .. setup /\ 4 \in 1 .. setup /\ 5 \in 1 .. setup /\ 6 \in 1 .. setup
  BY DEF Setup
<1> QED BY <1>1 DEF Installed

\* Every step keeps it.
LEMMA RemovedStep ==
  ASSUME Shape, Watched, Removed, Workers = {} => ModFindsChannel', [Next]_vars
  PROVE  Removed'
<1> USE DEF Shape, Watched, Removed, client, poll, conn, thread, pool
<1>1. CASE Construct
  BY <1>1, SetupValues DEF Construct, EnableReading, UpdataChannel, Next, Running
<1>2. CASE SetCallback /\ Running
  BY <1>2, SetupValues DEF SetCallback, Running
<1>3. CASE ClientSend \/ ClientClose \/ ClientReceive
  <2>1. (eof => eof') /\ UNCHANGED <<registered, inepoll, setup, disconnected, crash>>
    BY <1>3 DEF ClientSend, ClientClose, ClientReceive
  <2> QED BY <2>1
<1>4. CASE EpollWait
  BY <1>4 DEF EpollWait
<1>5. CASE HandleRead \/ ReadSome \/ ReadAgain \/ PickNothing
  <2>1. UNCHANGED <<eof, registered, inepoll, setup, disconnected, crash>>
    BY <1>5 DEF HandleRead, ReadSome, ReadAgain, PickNothing
  <2> QED BY <2>1
<1>6. CASE ReadEof
  BY <1>6, AllInstalled DEF ReadEof, Remove, Call
<1>7. ASSUME NEW m, SendInLoop(m), UNCHANGED <<client, disconnected, setup>> PROVE Removed'
  BY <1>7 DEF SendInLoop, EnableWriting, UpdataChannel, ModFindsChannel
<1>8. CASE Pick
  <2>1. UNCHANGED <<client, disconnected, setup>> \/ UNCHANGED <<eof, disconnected, setup>>
    BY <1>8 DEF Pick
  <2> QED BY <1>7, <1>8, AllInstalled DEF Pick, HandleMessage
<1>9. CASE RunPosted
  BY <1>7, <1>9 DEF RunPosted
<1>10. CASE WriteCallback
  BY <1>10, AllInstalled DEF WriteCallback, FinishWrite, DisableWriting, Call
<1>11. ASSUME NEW w \in Workers, Take(w) \/ CheckConnected(w) \/ PostReply(w) PROVE Removed'
  <2>1. UNCHANGED <<eof, registered, inepoll, setup, disconnected, crash>>
    BY <1>11 DEF Take, CheckConnected, PostReply
  <2> QED BY <2>1
<1>12. CASE UNCHANGED vars
  BY <1>12 DEF vars
<1> QED
  BY <1>1, <1>2, <1>3, <1>4, <1>5, <1>6, <1>8, <1>9, <1>10, <1>11, <1>12
     DEF Next, ClientStep, HandlerStep, WorkerStep

(***************************************************************************)
(* Each of the two crashes has the one cause that its run shows.           *)
(***************************************************************************)
THEOREM CrashCauses == Spec => []OnlyTwoCrashes
<1>1. Init => Removed
  BY DEF Init, Removed
<1>2. Base /\ Base' /\ Removed /\ [Next]_vars => Removed'
  BY RemovedStep DEF Base, IInv, Inline
<1>3. Base /\ Removed => OnlyTwoCrashes
  BY SetupValues DEF Base, IInv, Removed, OnlyTwoCrashes
<1> QED BY <1>1, <1>2, <1>3, BaseInvariance, PTL DEF Spec
=============================================================================
