---------------------------- MODULE LogFormatter ----------------------------
(***************************************************************************)
(* LogFormatter::init of log.cpp: the hand-written parser that turns a     *)
(* pattern such as "%d %m%n" into the items that format() prints.          *)
(*                                                                         *)
(* Characters are "percent", "lbrace", "rbrace", "space" (any white space) *)
(* and letters.                                                            *)
(* Positions start at 1 here, at 0 in the code.                            *)
(***************************************************************************)
EXTENDS Integers, Sequences

CONSTANTS Letters,   \* all other characters
          Known,     \* those for which s_format_items has an item
          Patterns   \* the patterns a formatter may be made with

Characters == {"percent", "lbrace", "rbrace", "space"} \cup Letters

ASSUME LettersAreOther == {"percent", "lbrace", "rbrace", "space"} \cap Letters = {}
ASSUME KnownAreLetters == Known \subseteq Letters
ASSUME PatternsAreText == Patterns \subseteq Seq(Characters)

VARIABLES
  pattern,  \* m_partern
  pc,       \* "idle" before init(), "scan" in its outer loop, "item" in the
            \* inner loop, "place" behind it, "build", "done"
  i, n,     \* the positions of the outer and of the inner loop
  status,   \* fmt_status: 0, 1 after "{", 2 after "}"
  begin,    \* fmt_begin
  nstr, str, fmt,
  vec,      \* what was parsed: kind 0 is text, kind 1 an item str with a fmt
  items     \* m_items: texts, items of the table, or error texts

text == <<nstr, str, fmt>>
parser == <<pattern, pc, i, n, status, begin, text, vec, items>>

Size == Len(pattern)
At(k, c) == k <= Size /\ pattern[k] = c

Text(s) == [kind |-> 0, str |-> s, fmt |-> << >>]
Item(s, f) == [kind |-> 1, str |-> s, fmt |-> f]
PatternError == <<"error">>   \* stands for <<pattern error>>

Init ==
  /\ pattern \in Patterns
  /\ pc = "idle"
  /\ i = 1 /\ n = 1 /\ status = 0 /\ begin = 1
  /\ nstr = << >> /\ str = << >> /\ fmt = << >>
  /\ vec = << >> /\ items = << >>

Start ==
  /\ pc = "idle"
  /\ pc' = "scan"
  /\ UNCHANGED <<pattern, i, n, status, begin, text, vec, items>>

-----------------------------------------------------------------------------
(* The outer loop.                                                         *)

Literal ==
  /\ pc = "scan" /\ i <= Size /\ ~At(i, "percent")
  /\ nstr' = Append(nstr, pattern[i])
  /\ i' = i + 1
  /\ UNCHANGED <<pattern, pc, n, status, begin, str, fmt, vec, items>>

\* "%%" stands for "%", but only the first one is consumed.
Escape ==
  /\ pc = "scan" /\ At(i, "percent") /\ At(i + 1, "percent")
  /\ nstr' = Append(nstr, "percent")
  /\ i' = i + 1
  /\ UNCHANGED <<pattern, pc, n, status, begin, str, fmt, vec, items>>

\* Fault: the inner loop starts one character too late.
BeginItemLate ==
  /\ pc = "scan" /\ At(i, "percent") /\ ~At(i + 1, "percent")
  /\ n' = i + 2
  /\ status' = 0 /\ begin' = 1
  /\ str' = << >> /\ fmt' = << >>
  /\ pc' = "item"
  /\ UNCHANGED <<pattern, i, nstr, vec, items>>

BeginItem ==
  /\ pc = "scan" /\ At(i, "percent") /\ ~At(i + 1, "percent")
  /\ n' = i + 1
  /\ status' = 0 /\ begin' = 1
  /\ str' = << >> /\ fmt' = << >>
  /\ pc' = "item"
  /\ UNCHANGED <<pattern, i, nstr, vec, items>>

\* The text behind the last item.
EndScan ==
  /\ pc = "scan" /\ i > Size
  /\ vec' = IF nstr # << >> THEN Append(vec, Text(nstr)) ELSE vec
  /\ pc' = "build"
  /\ UNCHANGED <<pattern, i, n, status, begin, text, items>>

-----------------------------------------------------------------------------
(* The inner loop.                                                         *)

EndItem ==
  /\ pc = "item" /\ (n > Size \/ At(n, "space"))
  /\ pc' = "place"
  /\ UNCHANGED <<pattern, i, n, status, begin, text, vec, items>>

\* Fault: the position stays at the brace.
OpenStays ==
  /\ pc = "item" /\ status = 0 /\ At(n, "lbrace")
  /\ str' = SubSeq(pattern, i + 1, n - 1)
  /\ status' = 1
  /\ begin' = n
  /\ UNCHANGED <<pattern, pc, i, n, nstr, fmt, vec, items>>

Open ==
  /\ pc = "item" /\ status = 0 /\ At(n, "lbrace")
  /\ str' = SubSeq(pattern, i + 1, n - 1)
  /\ status' = 1
  /\ begin' = n
  /\ n' = n + 1
  /\ UNCHANGED <<pattern, pc, i, nstr, fmt, vec, items>>

Close ==
  /\ pc = "item" /\ status = 1 /\ At(n, "rbrace")
  /\ fmt' = SubSeq(pattern, begin, n - 2)
  /\ status' = 2
  /\ n' = n + 1
  /\ pc' = "place"
  /\ UNCHANGED <<pattern, i, begin, nstr, str, vec, items>>

\* Any other character: neither n nor fmt_status changes.
Spin ==
  /\ pc = "item" /\ n <= Size /\ ~At(n, "space")
  /\ ~(status = 0 /\ At(n, "lbrace")) /\ ~(status = 1 /\ At(n, "rbrace"))
  /\ UNCHANGED parser

-----------------------------------------------------------------------------
(* Behind the inner loop.  nstr is not cleared when it becomes an entry.   *)

PlaceItem ==
  /\ pc = "place" /\ status = 0
  /\ str' = SubSeq(pattern, i + 1, n - 1)
  /\ vec' = (IF nstr # << >> THEN Append(vec, Text(nstr)) ELSE vec) \o <<Item(str', fmt)>>
  /\ i' = n + 1
  /\ pc' = "scan"
  /\ UNCHANGED <<pattern, n, status, begin, nstr, fmt, items>>

PlaceError ==
  /\ pc = "place" /\ status = 1
  /\ vec' = Append(vec, Text(PatternError))
  /\ i' = i + 1
  /\ pc' = "scan"
  /\ UNCHANGED <<pattern, n, status, begin, text, items>>

\* Fault: the status is stored in place of the kind.
PlaceFormattedStatus ==
  /\ pc = "place" /\ status = 2
  /\ vec' = Append(vec, [Item(str, fmt) EXCEPT !.kind = status])
  /\ i' = n + 1
  /\ pc' = "scan"
  /\ UNCHANGED <<pattern, n, status, begin, text, items>>

PlaceFormatted ==
  /\ pc = "place" /\ status = 2
  /\ vec' = Append(vec, Item(str, fmt))
  /\ i' = n + 1
  /\ pc' = "scan"
  /\ UNCHANGED <<pattern, n, status, begin, text, items>>

-----------------------------------------------------------------------------
(* The table of items.  An entry is <<str, fmt, kind>>, and it is the fmt  *)
(* that is looked up.                                                      *)

Build ==
  /\ pc = "build"
  /\ items' = [k \in 1 .. Len(vec) |->
       IF vec[k].kind = 0 THEN [kind |-> "text", of |-> vec[k].str]
       ELSE IF \E c \in Known : vec[k].fmt = <<c>>
            THEN [kind |-> "item", of |-> vec[k].fmt]
            ELSE [kind |-> "error", of |-> vec[k].str]]   \* <<error_format %...>>
  /\ pc' = "done"
  /\ UNCHANGED <<pattern, i, n, status, begin, text, vec>>

-----------------------------------------------------------------------------
ParserStep ==
  \/ Literal \/ Escape \/ BeginItem \/ EndScan
  \/ EndItem \/ Open \/ Close \/ Spin
  \/ PlaceItem \/ PlaceError \/ PlaceFormatted \/ Build

Next == Start \/ ParserStep

Spec == Init /\ [][Next]_parser

\* The thread that calls init() is scheduled.
FairSpec == Spec /\ WF_parser(ParserStep)

-----------------------------------------------------------------------------
(* Properties.                                                             *)

(***************************************************************************)
(* The type invariant: what the locals of init() may hold.  An entry's     *)
(* kind is 0 or 1, which is all that log.cpp:273-283 tells apart.          *)
(***************************************************************************)
TypeOK ==
  /\ pattern \in Patterns
  /\ pc \in {"idle", "scan", "item", "place", "build", "done"}
  /\ i \in Nat \ {0} /\ n \in Nat \ {0} /\ begin \in Nat \ {0} /\ status \in 0 .. 2
  /\ nstr \in Seq(Characters) /\ str \in Seq(Characters) /\ fmt \in Seq(Characters)
  /\ vec \in Seq([kind : {0, 1}, str : Seq(Characters \cup {"error"}), fmt : Seq(Characters)])
  /\ items \in Seq([kind : {"text", "item", "error"}, of : Seq(Characters \cup {"error"})])

(***************************************************************************)
(* No call of substr starts behind the end of the pattern (it would throw) *)
(* or has a length below zero (it would wrap around), wherever the pattern *)
(* ends (log.cpp:220, 229, 240, 245).                                      *)
(***************************************************************************)
SubstrInRange ==
  pc \in {"item", "place"} =>
    /\ i < n /\ n <= Size + 1
    /\ status = 1 => i < begin /\ begin < n
    /\ status = 2 => begin + 2 <= n

(***************************************************************************)
(* The outer loop meets every "%" but one that follows a "%{}".            *)
(***************************************************************************)
Met ==
  LET met[k \in 1 .. Size] ==
        ~(k > 3 /\ At(k - 3, "percent") /\ At(k - 2, "lbrace") /\ At(k - 1, "rbrace") /\ met[k - 3])
  IN  {k \in 1 .. Size : met[k]}

Ends(k) == k > Size \/ At(k, "space")

(***************************************************************************)
(* The patterns without a real directive: behind each "%" that the outer   *)
(* loop meets comes another "%", white space or the end, or else a "{"     *)
(* with nothing behind it but "}", white space or the end.                 *)
(***************************************************************************)
Trivial ==
  \A k \in Met : At(k, "percent") =>
    \/ At(k + 1, "percent") \/ Ends(k + 1)
    \/ At(k + 1, "lbrace") /\ (At(k + 2, "rbrace") \/ Ends(k + 2))

(***************************************************************************)
(* init() returns for all of these, those that end in the middle of a      *)
(* directive included (log.cpp:214, 244-247).                              *)
(***************************************************************************)
TrivialReturns == pc = "scan" /\ Trivial ~> pc = "done"
=============================================================================
