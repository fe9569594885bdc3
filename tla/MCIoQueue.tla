----------------------------- MODULE MCIoQueue -----------------------------
(***************************************************************************)
(* The keyboard's queue, with two readers and a thread that writes, and    *)
(* the driver that fills it.  The two modules share no variable: a         *)
(* behaviour takes the steps of one, the subject, and leaves the other in  *)
(* its initial state.                                                      *)
(***************************************************************************)
EXTENDS IoQueue, Keyboard, TLC

CONSTANTS a, b, p, m

VARIABLE subject

MCThreads == {m, a, b, p}
MCPriority == [t \in MCThreads |-> 0]
MCConsumers == {a, b}
MCProducers == {p}
MCSymmetry == Permutations({a, b})

(* Letters, symbols and keys without a second character, from both ends of *)
(* their ranges; all modifiers; F1, the slash of the keypad, Print Screen  *)
(* and Pause, which the driver has no character for.                       *)
MCKeys ==
  {<<c>> : c \in {\h10, \h1e, \h32}}
  \cup {<<c>> : c \in {\h02, \h0d, \h1a, \h29, \h2b, \h35}}
  \cup {<<c>> : c \in {\h01, \h0e, \h1c, \h39}}
  \cup ShiftKeys \cup CtrlKeys \cup AltKeys \cup {CapsKey}
  \cup {<<\h3b>>, <<\he0, \h35>>, PrintScreen, Pause}

Init == subject \in {"queue", "driver"} /\ IoInit /\ KeyboardInit

Next ==
  /\ UNCHANGED subject
  /\ IF subject = "queue" THEN IoNext ELSE UNCHANGED allVars
  /\ IF subject = "driver" THEN KeyboardNext ELSE UNCHANGED keyboardVars

Spec == Init /\ [][Next]_<<subject, allVars, keyboardVars>>
=============================================================================
