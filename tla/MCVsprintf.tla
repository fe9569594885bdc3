----------------------------- MODULE MCVsprintf -----------------------------
(* Formatted output of directives whose precision is given as `*'.         *)
EXTENDS Vsprintf

MCDirectives ==
  {[flags |-> {}, width |-> w, precision |-> [kind |-> "star", n |-> 2], qualifier |-> <<>>,
    conv |-> x.conv, arg |-> x.arg] :
     w \in {[kind |-> "none"], [kind |-> "star", n |-> 5]},
     x \in {[conv |-> <<"d">>, arg |-> <<7>>],
            [conv |-> <<"s">>, arg |-> << <<"t", "e", "x", "t">> >>]}}

Spec == FormatInit /\ [][FormatNext]_formatVars
=============================================================================
