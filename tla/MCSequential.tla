---------------------------- MODULE MCSequential ----------------------------
(***************************************************************************)
(* The parts of the kernel that a single thread runs at a time, on         *)
(* instances of their own: a behaviour takes the steps of one subject and  *)
(* leaves the variables of the others at one of their initial values.      *)
(***************************************************************************)
EXTENDS LinkedList, MCBitmap, CString, Vsprintf, Paging, Screen, TLC

CONSTANTS e1, e2, e3, u1, u2

VARIABLE subject

Subjects == {"lists", "bitmap", "strings", "format", "paging", "screen"}

MCElems == {e1, e2, e3}
MCUsers == {u1, u2}
MCSymmetry == Permutations(MCElems) \cup Permutations(MCUsers)

MCBytes == -1..1
MCInts == {-1, 0, 1, 255}

-----------------------------------------------------------------------------
(* Every conversion, with every set of flags, with widths and precisions   *)
(* below and above the length of what is printed, and a `*' whose argument *)
(* is negative; words at the ends and in the middle of their range.        *)
MCAbsent == [kind |-> "none"]
MCNumber(n) == [kind |-> "num", n |-> n]
MCStar(n) == [kind |-> "star", n |-> n]

MCArguments ==
  [conv : {<<"d">>}, arg : {<<0>>, <<7>>, <<Word \div 2 - 1>>, <<Word \div 2>>, <<Word - 1>>}]
  \cup [conv : {<<"i">>, <<"u">>, <<"o">>, <<"x">>, <<"X">>, <<"p">>, <<"b">>}, arg : {<<Word - 1>>}]
  \cup [conv : {<<"c">>}, arg : {<<"q">>}]
  \cup [conv : {<<"s">>}, arg : {<< <<>> >>, << <<"t", "e", "x", "t">> >>}]
  \cup [conv : {<<"f">>}, arg : {<<[neg |-> TRUE, ival |-> 0, fval |-> 50]>>,
                                 <<[neg |-> FALSE, ival |-> 12, fval |-> 345678]>>}]
  \cup [conv : {<<"n">>}, arg : {<<"pointer">>}]
  \cup [conv : {<<"y">>, <<>>}, arg : {<<>>}]

MCDirective(f, width, precision, q, x) ==
  [flags |-> f, width |-> width, precision |-> precision, qualifier |-> q,
   conv |-> x.conv, arg |-> x.arg]

MCDirectives ==
  {MCDirective(f, v, p, <<>>, x) :
     f \in SUBSET DOMAIN Flag,
     v \in {MCAbsent, MCNumber(12), MCStar(5), MCStar(-5)},
     p \in {MCAbsent, [kind |-> "dot"], MCNumber(3)},
     x \in MCArguments}
  \cup {MCDirective(f, MCAbsent, MCAbsent, <<"l">>, x) : f \in SUBSET DOMAIN Flag, x \in MCArguments}
  \cup {MCDirective({}, MCAbsent, MCAbsent, <<>>, x) :
          x \in {[conv |-> <<"m">>, arg |-> << <<0, 10, 255, 1, 16, 9>> >>],
                 [conv |-> <<"r">>, arg |-> << <<10, 0, 255, 1>> >>],
                 [conv |-> <<"%">>, arg |-> <<>>]}}

-----------------------------------------------------------------------------
Init ==
  /\ subject \in Subjects
  /\ ListInit
  /\ IF subject = "bitmap" THEN BitmapInit ELSE bits = {} /\ found = NotFound
  /\ IF subject = "strings" THEN StringInit ELSE mem = [i \in Addr |-> EOS] /\ call = NoCall
  /\ FormatInit
  /\ PagingInit
  /\ ScreenInit

Next ==
  /\ UNCHANGED subject
  /\ IF subject = "lists" THEN ListNext ELSE UNCHANGED listVars
  /\ IF subject = "bitmap" THEN BitmapNext ELSE UNCHANGED bitmapVars
  /\ IF subject = "strings" THEN StringNext ELSE UNCHANGED stringVars
  /\ IF subject = "format" THEN FormatNext ELSE UNCHANGED formatVars
  /\ IF subject = "paging" THEN PagingNext ELSE UNCHANGED pagingVars
  /\ IF subject = "screen" THEN ScreenNext ELSE UNCHANGED screenVars

SequentialSpec ==
  Init /\ [][Next]_<<subject, listVars, bitmapVars, stringVars, formatVars, pagingVars, screenVars>>
=============================================================================
