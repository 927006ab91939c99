------------------------- MODULE LogFormatterProofs -------------------------
(***************************************************************************)
(* Proofs about LogFormatter for any alphabet and any patterns.            *)
(***************************************************************************)
EXTENDS LogFormatter, SequenceTheorems, WellFoundedInduction, TLAPS

(***************************************************************************)
(* How far the code is from what it documents.  log.cpp:286-294 lists the  *)
(* directives %m to %l, log.cpp:256-270 has an item for each of them, and  *)
(* log.h:69 gives "%t    %threadid %m%n" as an example of a pattern.  But  *)
(* init() returns for no pattern with such a directive: the inner loop     *)
(* never gets past a letter (log.cpp:214-235).                             *)
(***************************************************************************)
ReturnsOnlyIfTrivial == pc = "done" => Trivial

(***************************************************************************)
(* And an item of the table is found for no pattern at all: the lookup     *)
(* (log.cpp:276) is by the format, and what the inner loop accepts has     *)
(* none.                                                                   *)
(***************************************************************************)
NoItemFound == pc = "done" => \A k \in 1 .. Len(items) : items[k].kind # "item"

(***************************************************************************)
(* The inductive invariant.  SubstrInRange is inductive on its own.  That  *)
(* no item is found rests on the inner loop: it stands still at anything   *)
(* that is not a brace, so behind a "{" it can only be at the next         *)
(* character when the "}" comes, and the format is empty.                  *)
(***************************************************************************)
EmptyFormat ==
  /\ pc \in {"item", "place"} => fmt = << >> /\ (status = 1 => n = begin + 1)
  /\ \A k \in 1 .. Len(vec) : vec[k].kind = 1 => vec[k].fmt = << >>

IInv == TypeOK /\ SubstrInRange /\ EmptyFormat /\ NoItemFound

Entries == [kind : {0, 1}, str : Seq(Characters \cup {"error"}), fmt : Seq(Characters)]

\* Text of the pattern is text of an entry.
LEMMA Widen == ASSUME NEW s \in Seq(Characters) PROVE s \in Seq(Characters \cup {"error"})
OBVIOUS

\* Any part of the pattern is text, and empty if it ends before it starts.
LEMMA PartIsText ==
  ASSUME TypeOK, NEW a \in Int, NEW b \in Int, 1 <= a, b <= Size
  PROVE  SubSeq(pattern, a, b) \in Seq(Characters) /\ (b < a => SubSeq(pattern, a, b) = << >>)
<1>1. pattern \in Seq(Characters)
  BY PatternsAreText DEF TypeOK
<1>2. \A k \in a .. b : pattern[k] \in Characters
  BY <1>1 DEF Size
<1>3. SubSeq(pattern, a, b) \in Seq(Characters)
  BY <1>2, SubSeqProperties
<1>4. b < a => SubSeq(pattern, a, b) = << >>
  BY SubSeqEmpty
<1> QED BY <1>3, <1>4, Zenon

\* What the places behind the inner loop append to vec.
LEMMA TextEntry == ASSUME NEW s \in Seq(Characters \cup {"error"}) PROVE Text(s) \in Entries
BY DEF Text, Entries

\* The same of an item.
LEMMA ItemEntry ==
  ASSUME NEW s \in Seq(Characters), NEW f \in Seq(Characters)
  PROVE  Item(s, f) \in Entries
BY Widen DEF Item, Entries

\* Nothing was parsed yet.
LEMMA InitIInv == Init => IInv
<1> SUFFICES ASSUME Init PROVE IInv
  OBVIOUS
<1>1. vec = << >> /\ items = << >> /\ nstr = << >> /\ str = << >> /\ fmt = << >> /\ pc = "idle"
  BY DEF Init
<1>2. TypeOK
  BY <1>1 DEF Init, TypeOK
<1> QED BY <1>1, <1>2 DEF IInv, SubstrInRange, EmptyFormat, NoItemFound

-----------------------------------------------------------------------------
(* Types.                                                                  *)

\* The entry for the text before an item, if there is any.
LEMMA Pending ==
  ASSUME TypeOK
  PROVE  (IF nstr # << >> THEN Append(vec, Text(nstr)) ELSE vec) \in Seq(Entries)
<1>1. vec \in Seq(Entries) /\ nstr \in Seq(Characters)
  BY DEF TypeOK, Entries
<1>2. Text(nstr) \in Entries
  BY <1>1, Widen, TextEntry
<1> QED BY <1>1, <1>2

\* Every step keeps the types.
LEMMA TypeStep == TypeOK /\ SubstrInRange /\ [Next]_parser => TypeOK'
<1> SUFFICES ASSUME TypeOK, SubstrInRange, [Next]_parser PROVE TypeOK'
  OBVIOUS
<1>0. pattern \in Seq(Characters) /\ vec \in Seq(Entries) /\ Size \in Nat
  BY PatternsAreText DEF TypeOK, Entries, Size
<1>1. CASE Start
  BY <1>1 DEF Start, TypeOK, text
<1>2. CASE Literal
  <2>1. pattern[i] \in Characters
    BY <1>0, <1>2 DEF Literal, TypeOK, Size
  <2> QED BY <1>2, <2>1 DEF Literal, TypeOK
<1>3. CASE Escape
  BY <1>3 DEF Escape, TypeOK, Characters
<1>4. CASE BeginItem
  BY <1>4 DEF BeginItem, TypeOK
<1>5. CASE EndScan
  BY <1>5, Pending DEF EndScan, TypeOK, Entries, text
<1>6. CASE EndItem
  BY <1>6 DEF EndItem, TypeOK, text
<1>7. CASE Open
  <2>1. SubSeq(pattern, i + 1, n - 1) \in Seq(Characters)
    <3>1. i + 1 \in Int /\ n - 1 \in Int /\ 1 <= i + 1 /\ n - 1 <= Size
      BY <1>0, <1>7 DEF Open, TypeOK, SubstrInRange
    <3> QED BY <3>1, PartIsText
  <2> QED BY <1>7, <2>1 DEF Open, TypeOK
<1>8. CASE Close
  <2>1. SubSeq(pattern, begin, n - 2) \in Seq(Characters)
    <3>1. begin \in Int /\ n - 2 \in Int /\ 1 <= begin /\ n - 2 <= Size
      BY <1>0, <1>8 DEF Close, TypeOK, SubstrInRange
    <3> QED BY <3>1, PartIsText
  <2> QED BY <1>8, <2>1 DEF Close, TypeOK
<1>9. CASE PlaceItem
  <2>1. SubSeq(pattern, i + 1, n - 1) \in Seq(Characters)
    <3>1. i + 1 \in Int /\ n - 1 \in Int /\ 1 <= i + 1 /\ n - 1 <= Size
      BY <1>0, <1>9 DEF PlaceItem, TypeOK, SubstrInRange
    <3> QED BY <3>1, PartIsText
  <2>2. Item(str', fmt) \in Entries
    BY <1>9, <2>1, ItemEntry DEF PlaceItem, TypeOK
  <2>3. vec' \in Seq(Entries)
    <3>1. <<Item(str', fmt)>> \in Seq(Entries)
      BY <2>2
    <3> QED BY <1>9, <3>1, Pending DEF PlaceItem
  <2> QED BY <1>9, <2>1, <2>3 DEF PlaceItem, TypeOK, Entries
<1>10. CASE PlaceError
  <2>1. <<"error">> \in Seq(Characters \cup {"error"})
    OBVIOUS
  <2>2. Text(PatternError) \in Entries
    BY <2>1, TextEntry DEF PatternError
  <2> QED BY <1>0, <1>10, <2>2 DEF PlaceError, TypeOK, Entries, text
<1>11. CASE PlaceFormatted
  <2>1. Item(str, fmt) \in Entries
    BY ItemEntry DEF TypeOK
  <2> QED BY <1>0, <1>11, <2>1 DEF PlaceFormatted, TypeOK, Entries, text
<1>12. CASE Build
  <2> DEFINE Printed == [kind : {"text", "item", "error"}, of : Seq(Characters \cup {"error"})]
             EntryOf(k) == IF vec[k].kind = 0 THEN [kind |-> "text", of |-> vec[k].str]
                         ELSE IF \E c \in Known : vec[k].fmt = <<c>>
                              THEN [kind |-> "item", of |-> vec[k].fmt]
                              ELSE [kind |-> "error", of |-> vec[k].str]
  <2>1. ASSUME NEW k \in 1 .. Len(vec) PROVE EntryOf(k) \in Printed
    <3>1. vec[k] \in Entries
      BY <1>0
    <3>2. vec[k].str \in Seq(Characters \cup {"error"}) /\ vec[k].fmt \in Seq(Characters)
      BY <3>1 DEF Entries
    <3> QED BY <3>2, Widen
  <2>2. items' = [k \in 1 .. Len(vec) |-> EntryOf(k)] /\ Len(vec) \in Nat
    BY <1>0, <1>12 DEF Build
  <2> HIDE DEF EntryOf, Printed
  <2>3. items' \in Seq(Printed)
    BY <2>1, <2>2
  <2> QED BY <1>12, <2>3 DEF Build, TypeOK, Printed, text
<1>13. CASE Spin \/ UNCHANGED parser
  BY <1>13 DEF Spin, TypeOK, parser, text
<1> QED BY <1>1, <1>2, <1>3, <1>4, <1>5, <1>6, <1>7, <1>8, <1>9, <1>10, <1>11, <1>12, <1>13
        DEF Next, ParserStep

-----------------------------------------------------------------------------
(* The positions.                                                          *)

\* Every step keeps the order of the three positions.
LEMMA RangeStep == TypeOK /\ SubstrInRange /\ [Next]_parser => SubstrInRange'
<1> SUFFICES ASSUME TypeOK, SubstrInRange, [Next]_parser PROVE SubstrInRange'
  OBVIOUS
<1>0. Size \in Nat /\ i \in Nat /\ n \in Nat /\ begin \in Nat
  <2>1. pattern \in Seq(Characters)
    BY PatternsAreText DEF TypeOK
  <2> QED BY <2>1 DEF TypeOK, Size
<1> USE DEF SubstrInRange, Size
<1>1. CASE Start \/ Literal \/ Escape \/ EndScan \/ PlaceItem \/ PlaceError \/ PlaceFormatted \/ Build
  BY <1>1 DEF Start, Literal, Escape, EndScan, PlaceItem, PlaceError, PlaceFormatted, Build
<1>2. CASE BeginItem
  BY <1>0, <1>2 DEF BeginItem, At
<1>3. CASE EndItem
  BY <1>3 DEF EndItem
<1>4. CASE Open
  BY <1>0, <1>4 DEF Open, At
<1>5. CASE Close
  BY <1>0, <1>5 DEF Close, At
<1>6. CASE Spin \/ UNCHANGED parser
  BY <1>6 DEF Spin, parser
<1> QED BY <1>1, <1>2, <1>3, <1>4, <1>5, <1>6 DEF Next, ParserStep

-----------------------------------------------------------------------------
(* The formats.                                                            *)

\* Every step leaves the format empty, and with it those of the entries.
LEMMA FormatStep == TypeOK /\ EmptyFormat /\ [Next]_parser => EmptyFormat'
<1> SUFFICES ASSUME TypeOK, EmptyFormat, [Next]_parser PROVE EmptyFormat'
  OBVIOUS
<1>0. /\ pattern \in Seq(Characters) /\ vec \in Seq(Entries)
      /\ n \in Nat \ {0} /\ begin \in Nat \ {0}
  BY PatternsAreText DEF TypeOK, Entries
<1> USE DEF EmptyFormat
<1>1. CASE Start \/ Literal \/ Escape \/ BeginItem \/ EndItem \/ Open \/ Build
  BY <1>1 DEF Start, Literal, Escape, BeginItem, EndItem, Open, Build, text
<1>2. CASE EndScan
  BY <1>0, <1>2 DEF EndScan, Text
<1>3. CASE Close
  <2>1. n - 2 = begin - 1 /\ fmt' = SubSeq(pattern, begin, n - 2) /\ n <= Size
    BY <1>0, <1>3 DEF Close, At
  <2>2. Size \in Nat
    BY <1>0 DEF Size
  <2>3. fmt' = << >>
    BY <1>0, <2>1, <2>2, PartIsText
  <2> QED BY <1>3, <2>3 DEF Close
<1>4. CASE PlaceItem
  <2> DEFINE before == IF nstr # << >> THEN Append(vec, Text(nstr)) ELSE vec
  <2>1. \A k \in 1 .. Len(before) : before[k].kind = 1 => before[k].fmt = << >>
    BY <1>0 DEF Text
  <2>2. before \in Seq(Entries) /\ vec' = before \o <<Item(str', fmt)>> /\ pc' = "scan" /\ fmt = << >>
    BY <1>4, Pending DEF PlaceItem
  <2> HIDE DEF before
  <2>3. Item(str', fmt).fmt = << >>
    BY <2>2 DEF Item
  <2>4. \A k \in 1 .. Len(vec') : vec'[k] = IF k = Len(before) + 1 THEN Item(str', fmt) ELSE before[k]
    BY <2>2
  <2>5. Len(vec') = Len(before) + 1 /\ Len(before) \in Nat
    BY <2>2
  <2> QED BY <2>1, <2>2, <2>3, <2>4, <2>5
<1>5. CASE PlaceError
  BY <1>0, <1>5 DEF PlaceError, Text
<1>6. CASE PlaceFormatted
  BY <1>0, <1>6 DEF PlaceFormatted, Item
<1>7. CASE Spin \/ UNCHANGED parser
  BY <1>7 DEF Spin, parser, text
<1> QED BY <1>1, <1>2, <1>3, <1>4, <1>5, <1>6, <1>7 DEF Next, ParserStep

\* So the table never has what is looked up.
LEMMA ItemsStep == TypeOK /\ EmptyFormat /\ NoItemFound /\ [Next]_parser => NoItemFound'
<1> SUFFICES ASSUME TypeOK, EmptyFormat, NoItemFound, [Next]_parser PROVE NoItemFound'
  OBVIOUS
<1>1. CASE Build
  <2>1. /\ vec \in Seq(Entries)
        /\ items' = [k \in 1 .. Len(vec) |->
             IF vec[k].kind = 0 THEN [kind |-> "text", of |-> vec[k].str]
             ELSE IF \E c \in Known : vec[k].fmt = <<c>>
                  THEN [kind |-> "item", of |-> vec[k].fmt]
                  ELSE [kind |-> "error", of |-> vec[k].str]]
    BY <1>1 DEF Build, TypeOK, Entries
  <2>2. ASSUME NEW k \in 1 .. Len(vec), NEW c \in Known, vec[k].kind # 0 PROVE vec[k].fmt # <<c>>
    <3>1. vec[k].kind = 1
      <4>1. vec[k] \in Entries
        BY <2>1
      <4>2. vec[k].kind \in {0, 1}
        BY <4>1 DEF Entries
      <4> QED BY <2>2, <4>2
    <3>2. << >> # <<c>>
      OBVIOUS
    <3> QED BY <3>1, <3>2 DEF EmptyFormat
  <2>3. \A k \in 1 .. Len(vec) : items'[k].kind # "item"
    BY <2>1, <2>2
  <2>4. Len(items') = Len(vec)
    BY <2>1
  <2> QED BY <2>3, <2>4 DEF NoItemFound
<1>2. CASE ~Build /\ pc' = "done"
  <2>1. pc = "done" /\ UNCHANGED items
    BY <1>2 DEF Next, ParserStep, Start, Literal, Escape, BeginItem, EndScan, EndItem, Open, Close,
                Spin, PlaceItem, PlaceError, PlaceFormatted, parser
  <2> QED BY <2>1 DEF NoItemFound
<1>3. CASE pc' # "done"
  BY <1>3 DEF NoItemFound
<1> QED BY <1>1, <1>2, <1>3

-----------------------------------------------------------------------------
(* The theorems.                                                           *)

\* The invariant holds in every reachable state.
LEMMA Invariant == Spec => []IInv
<1>1. IInv /\ [Next]_parser => IInv'
  BY TypeStep, RangeStep, FormatStep, ItemsStep DEF IInv
<1> QED BY InitIInv, <1>1, PTL DEF Spec

\* The variables of init() have their types.
THEOREM TypeCorrect == Spec => []TypeOK
<1>1. IInv => TypeOK
  BY DEF IInv
<1> QED BY Invariant, <1>1, PTL

\* substr is never called with a start or a length out of range.
THEOREM SubstrCorrect == Spec => []SubstrInRange
<1>1. IInv => SubstrInRange
  BY DEF IInv
<1> QED BY Invariant, <1>1, PTL

\* Whatever the pattern, no item of the table is ever used.
THEOREM NoItemCorrect == Spec => []NoItemFound
<1>1. IInv => NoItemFound
  BY DEF IInv
<1> QED BY Invariant, <1>1, PTL

-----------------------------------------------------------------------------
(***************************************************************************)
(* What the outer loop meets.  Met is a function defined by recursion: the *)
(* lemmas up to Unfold show that a function satisfies its equation, from   *)
(* the least position up to which none does.                               *)
(***************************************************************************)

\* A whole "%{}" stands at k.
Block(k) == At(k, "percent") /\ At(k + 1, "lbrace") /\ At(k + 2, "rbrace")

\* M is the set Met as far as the position s.
MetUpTo(M, s) == \A k \in 1 .. s : k \in M <=> ~(k > 3 /\ Block(k - 3) /\ k - 3 \in M)

\* Every set of naturals has a least element.
LEMMA Least ==
  ASSUME NEW T, T \subseteq Nat, T # {}
  PROVE  \E x \in T : \A y \in T : x <= y
<1>1. PICK x \in T : \A y \in T : ~ (<<y, x>> \in OpToRel(<, Nat))
  <2> DEFINE R == OpToRel(<, Nat)
  <2>1. IsWellFoundedOn(R, Nat)
    BY NatLessThanWellFounded
  <2> HIDE DEF R
  <2>2. \E x \in T : \A y \in T : ~ (<<y, x>> \in R)
    BY <2>1, WFMin
  <2> QED BY <2>2 DEF R
<1>2. ASSUME NEW y \in T PROVE ~(y < x)
  BY <1>1 DEF OpToRel
<1> QED BY <1>2

\* The positions can be told from left to right.
LEMMA MetExists ==
  ASSUME NEW s \in Nat
  PROVE  \E M : MetUpTo(M, s)
<1> DEFINE T == {m \in Nat : ~ \E M : MetUpTo(M, m)}
<1>1. SUFFICES ASSUME T # {} PROVE FALSE
  OBVIOUS
<1>2. PICK m \in T : \A y \in T : m <= y
  BY <1>1, Least
<1>3. MetUpTo({}, 0)
  BY DEF MetUpTo
<1>4. m \in Nat \ {0} /\ m - 1 \in Nat /\ m - 1 \notin T
  BY <1>2, <1>3
<1>5. PICK M : MetUpTo(M, m - 1)
  BY <1>4
<1> DEFINE L == {k \in M : k # m} \cup {k \in {m} : ~(m > 3 /\ Block(m - 3) /\ m - 3 \in M)}
<1>6. MetUpTo(L, m)
  <2>1. SUFFICES ASSUME NEW k \in 1 .. m
                 PROVE  k \in L <=> ~(k > 3 /\ Block(k - 3) /\ k - 3 \in L)
    BY DEF MetUpTo
  <2>2. k - 3 \in L <=> k - 3 \in M
    BY <1>4
  <2>3. CASE k = m
    BY <2>2, <2>3
  <2>4. CASE k # m
    <3>1. k \in 1 .. m - 1
      BY <1>4, <2>4
    <3>2. k \in L <=> k \in M
      BY <2>4
    <3> HIDE DEF L, T
    <3> QED BY <1>5, <2>2, <3>1, <3>2 DEF MetUpTo
  <2> QED BY <2>3, <2>4
<1> QED BY <1>2, <1>6

\* Met satisfies the equation it is defined by.
LEMMA Unfold ==
  ASSUME Size \in Nat
  PROVE  \A k \in 1 .. Size : k \in Met <=> ~(k > 3 /\ Block(k - 3) /\ k - 3 \in Met)
<1> DEFINE Solves(f) == f = [k \in 1 .. Size |->
             ~(k > 3 /\ At(k - 3, "percent") /\ At(k - 2, "lbrace") /\ At(k - 1, "rbrace") /\ f[k - 3])]
           met == CHOOSE f : Solves(f)
<1>1. Met = {k \in 1 .. Size : met[k]}
  BY DEF Met
<1>2. ASSUME NEW k \in 1 .. Size, k > 3
      PROVE  /\ Block(k - 3) <=> At(k - 3, "percent") /\ At(k - 2, "lbrace") /\ At(k - 1, "rbrace")
             /\ k - 3 \in 1 .. Size
  <2>1. (k - 3) + 1 = k - 2 /\ (k - 3) + 2 = k - 1 /\ k - 3 \in 1 .. Size
    BY <1>2
  <2> QED BY <2>1 DEF Block
<1>3. PICK M : MetUpTo(M, Size)
  BY MetExists
<1> DEFINE g == [k \in 1 .. Size |-> k \in M]
<1>4. Solves(g)
  <2>1. ASSUME NEW k \in 1 .. Size
        PROVE  (k \in M) <=> ~(k > 3 /\ At(k - 3, "percent") /\ At(k - 2, "lbrace") /\ At(k - 1, "rbrace") /\ g[k - 3])
    <3>1. CASE k > 3
      <4>1. g[k - 3] = (k - 3 \in M)
        BY <1>2, <3>1
      <4>2. (k \in M) <=> ~(Block(k - 3) /\ k - 3 \in M)
        BY <1>3, <3>1 DEF MetUpTo
      <4>3. (k \in M) <=> ~(At(k - 3, "percent") /\ At(k - 2, "lbrace") /\ At(k - 1, "rbrace") /\ k - 3 \in M)
        BY <1>2, <3>1, <4>2, Zenon
      <4> HIDE DEF g
      <4>4. (k \in M) <=> ~(At(k - 3, "percent") /\ At(k - 2, "lbrace") /\ At(k - 1, "rbrace") /\ g[k - 3])
        BY <4>1, <4>3, Zenon
      <4> QED BY <3>1, <4>4, Zenon
    <3>2. CASE ~(k > 3)
      BY <1>3, <3>2 DEF MetUpTo
    <3> QED BY <3>1, <3>2
  <2>2. ASSUME NEW k \in 1 .. Size
        PROVE  (k \in M) = ~(k > 3 /\ At(k - 3, "percent") /\ At(k - 2, "lbrace") /\ At(k - 1, "rbrace") /\ g[k - 3])
    <3> HIDE DEF g
    <3> QED BY <2>1, SMT
  <2> QED BY <2>2, Zenon
<1>5. Solves(met)
  BY <1>4, Zenon
<1> HIDE DEF g, met
<1>6. ASSUME NEW k \in 1 .. Size
      PROVE  met[k] = ~(k > 3 /\ At(k - 3, "percent") /\ At(k - 2, "lbrace") /\ At(k - 1, "rbrace") /\ met[k - 3])
  BY <1>5, Zenon
<1>7. TAKE k \in 1 .. Size
<1>8. CASE k > 3
  <2>1. k - 3 \in Met <=> met[k - 3]
    BY <1>1, <1>2, <1>8, Zenon
  <2>2. k \in Met <=> met[k]
    BY <1>1, Zenon
  <2> QED BY <1>2, <1>6, <1>8, <2>1, <2>2, Zenon
<1>9. CASE ~(k > 3)
  BY <1>1, <1>6, <1>9, Zenon
<1> QED BY <1>8, <1>9

-----------------------------------------------------------------------------
(* The outer loop.                                                         *)

\* What the outer loop returns from when it meets a "%" at k.
TrivialAt(k) ==
  \/ At(k + 1, "percent") \/ Ends(k + 1)
  \/ At(k + 1, "lbrace") /\ (At(k + 2, "rbrace") \/ Ends(k + 2))

\* All before j was passed as Met tells, and the next position is j.
ScannedTo(j) ==
  /\ j \in Met \/ j > Size
  /\ \A k \in 1 .. j - 1 :
       k \in Met /\ At(k, "percent") => TrivialAt(k) /\ (Block(k) => j > k + 3)

\* The inner loop stands behind "%", "%{" or "%{}".
Inside ==
  /\ At(i, "percent") /\ i \in Met
  /\ status = 0 => n = i + 1 /\ ~At(i + 1, "percent")
  /\ status = 1 => n = i + 2 /\ At(i + 1, "lbrace")
  /\ status = 2 => n = i + 3 /\ Block(i) /\ pc = "place"

\* The inductive invariant: what was passed is trivial, and an inner loop that
\* was left without a "}" stands at the end of something.
Scanned ==
  /\ pc \in {"idle", "scan", "item", "place"} => ScannedTo(i)
  /\ pc \in {"item", "place"} => Inside
  /\ pc = "place" => status = 2 \/ Ends(n)
  /\ ReturnsOnlyIfTrivial
  /\ pc = "build" => Trivial

\* A position holds one character or none.
LEMMA AtOne ==
  ASSUME NEW k \in Nat, Size \in Nat
  PROVE  /\ At(k, "percent") => ~At(k, "lbrace") /\ ~At(k, "rbrace") /\ ~Ends(k)
         /\ At(k, "lbrace") => ~Ends(k)
         /\ At(k, "rbrace") => ~Ends(k)
<1>1. ASSUME NEW c, NEW d, At(k, c), At(k, d) PROVE c = d
  BY <1>1 DEF At
<1>2. ASSUME NEW c, At(k, c) PROVE ~(k > Size)
  <2>1. k <= Size
    BY <1>2 DEF At
  <2> QED BY <2>1
<1>3. /\ "percent" # "lbrace" /\ "percent" # "rbrace" /\ "percent" # "space"
      /\ "lbrace" # "space" /\ "rbrace" # "space"
  OBVIOUS
<1> QED BY <1>1, <1>2, <1>3, Zenon DEF Ends

\* Met holds positions of the pattern.
LEMMA MetInside == Met \subseteq 1 .. Size
BY DEF Met

\* The pattern does not change, and what is said of it does not either.
LEMMA SamePattern ==
  ASSUME pattern' = pattern
  PROVE  /\ Met' = Met /\ Size' = Size
         /\ \A k, c : At(k, c)' = At(k, c)
BY DEF Met, Size, At

\* One position is passed that starts no "%{}".
LEMMA PassOne ==
  ASSUME Size \in Nat, NEW j \in Nat \ {0}, ScannedTo(j),
         ~Block(j), At(j, "percent") /\ j \in Met => TrivialAt(j)
  PROVE  ScannedTo(j + 1)
<1>1. j + 1 \in Met \/ j + 1 > Size
  <2>1. SUFFICES ASSUME j + 1 <= Size, j + 1 \notin Met PROVE FALSE
    OBVIOUS
  <2>2. j + 1 > 3 /\ Block((j + 1) - 3) /\ (j + 1) - 3 \in Met
    BY <2>1, Unfold, j + 1 \in 1 .. Size
  <2> DEFINE k == (j + 1) - 3
  <2>3. k \in 1 .. j - 1 /\ ~(j > k + 3)
    BY <2>2
  <2>4. Block(k) /\ k \in Met /\ At(k, "percent")
    BY <2>2 DEF Block
  <2> HIDE DEF k
  <2> QED BY <2>3, <2>4 DEF ScannedTo
<1>2. ASSUME NEW k \in 1 .. (j + 1) - 1, k \in Met, At(k, "percent")
      PROVE  TrivialAt(k) /\ (Block(k) => j + 1 > k + 3)
  <2>1. CASE k = j
    BY <1>2, <2>1
  <2>2. CASE k # j
    <3>1. k \in 1 .. j - 1 /\ (j > k + 3 => j + 1 > k + 3)
      BY <2>2
    <3> QED BY <1>2, <3>1 DEF ScannedTo
  <2> QED BY <2>1, <2>2
<1> QED BY <1>1, <1>2 DEF ScannedTo

\* A "%{}" is passed together with the character behind it.
LEMMA PassBlock ==
  ASSUME Size \in Nat, NEW j \in Nat \ {0}, ScannedTo(j), Block(j), j \in Met
  PROVE  ScannedTo(j + 4)
<1>1. /\ At(j, "percent") /\ At(j + 1, "lbrace") /\ At(j + 2, "rbrace")
      /\ ~At(j + 1, "percent") /\ ~At(j + 2, "percent") /\ ~Block(j + 1)
  BY AtOne DEF Block
<1>2. j + 3 \notin Met
  <2>1. SUFFICES ASSUME j + 3 \in Met PROVE FALSE
    OBVIOUS
  <2>2. j + 3 \in 1 .. Size /\ j + 3 > 3 /\ (j + 3) - 3 = j
    BY <2>1, MetInside
  <2> QED BY <2>1, <2>2, Unfold
<1>3. j + 4 \in Met \/ j + 4 > Size
  <2>1. SUFFICES ASSUME j + 4 \in 1 .. Size PROVE j + 4 \in Met
    OBVIOUS
  <2>2. (j + 4) - 3 = j + 1
    OBVIOUS
  <2> QED BY <1>1, <2>1, <2>2, Unfold
<1>4. ASSUME NEW k \in 1 .. (j + 4) - 1, k \in Met, At(k, "percent")
      PROVE  TrivialAt(k) /\ (Block(k) => j + 4 > k + 3)
  <2>1. CASE k \in 1 .. j - 1
    <3>1. j > k + 3 => j + 4 > k + 3
      BY <2>1
    <3> QED BY <1>4, <2>1, <3>1 DEF ScannedTo
  <2>2. CASE k = j
    BY <1>1, <2>2 DEF TrivialAt
  <2>3. k \in 1 .. j - 1 \/ k = j \/ k = j + 1 \/ k = j + 2 \/ k = j + 3
    OBVIOUS
  <2> QED BY <1>1, <1>2, <1>4, <2>1, <2>2, <2>3
<1> QED BY <1>3, <1>4 DEF ScannedTo

\* Behind the end of the pattern all of it was met.
LEMMA AllPassed ==
  ASSUME Size \in Nat, NEW j \in Nat, ScannedTo(j), j > Size
  PROVE  Trivial
<1>1. Met \subseteq 1 .. j - 1
  BY MetInside
<1> QED BY <1>1 DEF ScannedTo, Trivial, TrivialAt

-----------------------------------------------------------------------------
\* Every step of init() keeps what was scanned.
LEMMA ScannedStep == TypeOK /\ Scanned /\ [Next]_parser => Scanned'
<1> SUFFICES ASSUME TypeOK, Scanned, [Next]_parser PROVE Scanned'
  OBVIOUS
<1>0. /\ Size \in Nat /\ i \in Nat \ {0} /\ n \in Nat \ {0} /\ pattern' = pattern
      /\ i + 1 \in Nat /\ i + 2 \in Nat
  <2>1. pattern \in Seq(Characters)
    BY PatternsAreText DEF TypeOK
  <2>2. pattern' = pattern
    BY DEF Next, ParserStep, Start, Literal, Escape, BeginItem, EndScan, EndItem, Open, Close,
           Spin, PlaceItem, PlaceError, PlaceFormatted, Build, parser
  <2> QED BY <2>1, <2>2 DEF TypeOK, Size
<1>1. /\ Met' = Met /\ Size' = Size /\ \A k, c : At(k, c)' = At(k, c)
  BY <1>0, SamePattern
<1>2. ASSUME NEW j, i' = j, ScannedTo(j) PROVE ScannedTo(i)'
  BY <1>1, <1>2 DEF ScannedTo, TrivialAt, Block, Ends
<1>3. Trivial => Trivial'
  BY <1>1 DEF Trivial, Ends
<1>4. CASE Start
  BY <1>2, <1>4 DEF Start, Scanned, ReturnsOnlyIfTrivial
<1>5. ASSUME ScannedTo(i'), pc' = "scan" PROVE Scanned'
  BY <1>2, <1>5 DEF Scanned, ReturnsOnlyIfTrivial
<1>6. CASE Literal
  <2>1. ScannedTo(i + 1)
    BY <1>0, <1>6, PassOne DEF Literal, Scanned, Block
  <2> QED BY <1>5, <1>6, <2>1 DEF Literal
<1>7. CASE Escape
  <2>1. ~Block(i) /\ TrivialAt(i)
    BY <1>0, <1>7, AtOne DEF Escape, Block, TrivialAt
  <2>2. ScannedTo(i + 1)
    BY <1>0, <1>7, <2>1, PassOne DEF Escape, Scanned
  <2> QED BY <1>5, <1>7, <2>2 DEF Escape
<1>8. CASE BeginItem
  <2>1. i \in Met
    BY <1>0, <1>8, AtOne DEF BeginItem, Scanned, ScannedTo, Ends
  <2>2. i' = i /\ n' = i + 1 /\ status' = 0 /\ pc' = "item" /\ At(i, "percent") /\ ~At(i + 1, "percent")
    BY <1>8 DEF BeginItem
  <2>3. Inside'
    BY <1>1, <2>1, <2>2 DEF Inside
  <2>4. ScannedTo(i)'
    BY <1>2, <1>8, <2>2 DEF BeginItem, Scanned
  <2> QED BY <2>2, <2>3, <2>4 DEF Scanned, ReturnsOnlyIfTrivial
<1>9. CASE EndScan
  <2>1. Trivial
    BY <1>0, <1>9, AllPassed DEF EndScan, Scanned
  <2> QED BY <1>3, <1>9, <2>1 DEF EndScan, Scanned, ReturnsOnlyIfTrivial
<1>10. ASSUME i' = i, pc \in {"item", "place"}, pc' \in {"item", "place"}, Inside',
              pc' = "place" => status' = 2 \/ Ends(n)'
       PROVE  Scanned'
  BY <1>2, <1>10 DEF Scanned, ReturnsOnlyIfTrivial
<1>11. CASE EndItem
  <2>1. /\ i' = i /\ n' = n /\ status' = status /\ pc' = "place" /\ pc = "item" /\ Ends(n)
    BY <1>11 DEF EndItem, Ends
  <2>2. Ends(n)'
    BY <1>1, <2>1 DEF Ends
  <2>3. Inside'
    BY <1>1, <2>1 DEF Inside, Scanned, Block
  <2> QED BY <1>10, <2>1, <2>2, <2>3
<1>12. CASE Open
  <2>1. /\ i' = i /\ n' = n + 1 /\ status = 0 /\ status' = 1 /\ pc' = "item" /\ pc = "item"
        /\ At(n, "lbrace")
    BY <1>12 DEF Open
  <2>2. n = i + 1 /\ At(i, "percent") /\ i \in Met
    BY <2>1 DEF Scanned, Inside
  <2>3. n' = i + 2
    BY <1>0, <2>1, <2>2
  <2>4. Inside'
    BY <1>1, <2>1, <2>2, <2>3 DEF Inside
  <2> QED BY <1>10, <2>1, <2>4
<1>13. CASE Close
  <2>1. /\ i' = i /\ n' = n + 1 /\ status = 1 /\ status' = 2 /\ pc' = "place" /\ pc = "item"
        /\ At(n, "rbrace")
    BY <1>13 DEF Close
  <2>2. n = i + 2 /\ At(i, "percent") /\ At(i + 1, "lbrace") /\ i \in Met
    BY <2>1 DEF Scanned, Inside
  <2>3. n' = i + 3 /\ Block(i)
    BY <1>0, <2>1, <2>2 DEF Block
  <2>4. Inside'
    BY <1>1, <2>1, <2>2, <2>3 DEF Inside, Block
  <2> QED BY <1>10, <2>1, <2>4
<1>14. CASE PlaceItem
  <2>1. /\ i' = n + 1 /\ pc' = "scan" /\ status = 0 /\ n = i + 1 /\ Ends(i + 1)
        /\ ~At(i + 1, "percent") /\ ScannedTo(i)
    BY <1>14 DEF PlaceItem, Scanned, Inside
  <2>2. ~Block(i) /\ ~Block(i + 1) /\ TrivialAt(i)
    BY <1>0, <2>1, AtOne DEF Block, TrivialAt
  <2>3. ScannedTo(i + 1)
    BY <1>0, <2>1, <2>2, PassOne
  <2>4. ScannedTo((i + 1) + 1)
    BY <1>0, <2>1, <2>2, <2>3, PassOne
  <2>5. i' = (i + 1) + 1
    BY <2>1
  <2> QED BY <1>5, <2>1, <2>4, <2>5
<1>15. CASE PlaceError
  <2>1. /\ i' = i + 1 /\ pc' = "scan" /\ n = i + 2 /\ Ends(i + 2) /\ At(i + 1, "lbrace")
        /\ ScannedTo(i)
    BY <1>15 DEF PlaceError, Scanned, Inside
  <2>2. ~Block(i) /\ TrivialAt(i)
    BY <1>0, <2>1, AtOne DEF Block, TrivialAt
  <2>3. ScannedTo(i + 1)
    BY <1>0, <2>1, <2>2, PassOne
  <2> QED BY <1>5, <2>1, <2>3
<1>16. CASE PlaceFormatted
  <2>1. /\ i' = n + 1 /\ pc' = "scan" /\ n = i + 3 /\ Block(i) /\ i \in Met /\ ScannedTo(i)
    BY <1>16 DEF PlaceFormatted, Scanned, Inside
  <2>2. ScannedTo(i + 4)
    BY <1>0, <2>1, PassBlock
  <2>3. i' = i + 4
    BY <1>0, <2>1
  <2> QED BY <1>5, <2>1, <2>2, <2>3
<1>17. CASE Build
  BY <1>3, <1>17 DEF Build, Scanned, ReturnsOnlyIfTrivial
<1>18. CASE Spin \/ UNCHANGED parser
  <2>1. i' = i /\ n' = n /\ status' = status /\ pc' = pc
    BY <1>18 DEF Spin, parser
  <2>2. pc \in {"idle", "scan", "item", "place"} => ScannedTo(i)'
    BY <1>2, <2>1 DEF Scanned
  <2>3. pc \in {"item", "place"} => Inside'
    BY <1>1, <2>1 DEF Scanned, Inside, Block
  <2>4. pc = "place" => status = 2 \/ Ends(n)'
    BY <1>1, <2>1 DEF Scanned, Ends
  <2> QED BY <1>3, <2>1, <2>2, <2>3, <2>4 DEF Scanned, ReturnsOnlyIfTrivial
<1> QED BY <1>4, <1>6, <1>7, <1>8, <1>9, <1>11, <1>12, <1>13, <1>14, <1>15, <1>16, <1>17, <1>18
        DEF Next, ParserStep

\* init() returns for no pattern with a real directive.
THEOREM ReturnsCorrect == Spec => []ReturnsOnlyIfTrivial
<1>1. Init => Scanned
  <2>1. SUFFICES ASSUME Init PROVE Scanned
    OBVIOUS
  <2>2. Size \in Nat
    BY <2>1, PatternsAreText DEF Init, Size
  <2>3. 1 <= Size => 1 \in Met
    BY <2>2, Unfold
  <2>4. ScannedTo(1)
    BY <2>2, <2>3 DEF ScannedTo
  <2> QED BY <2>1, <2>4 DEF Init, Scanned, ReturnsOnlyIfTrivial
<1>2. TypeOK /\ Scanned /\ [Next]_parser => Scanned'
  BY ScannedStep
<1>3. Scanned => ReturnsOnlyIfTrivial
  BY DEF Scanned
<1> QED BY <1>1, <1>2, <1>3, TypeCorrect, PTL DEF Spec
=============================================================================
