--------------------------------- MODULE Vga ---------------------------------
(***************************************************************************)
(* What print_char (prints.asm) does between reading the cursor into bx    *)
(* and writing bx back: a function of the character, bx and the screen.    *)
(* bx has 16 bits, the upper and the lower half of which the controller    *)
(* keeps in two registers.  The segment gs ends after half of what bx can  *)
(* address, so that a write beyond it faults, and the handler of that      *)
(* exception never returns.                                                *)
(***************************************************************************)
EXTENDS Integers

CONSTANTS
  Cols, Rows,      \* 80 and 25
  Chars, Blank,    \* printable characters; a space is one of them
  Half             \* 256

Size == Cols * Rows
Word16 == Half * Half
LF == "line feed"
CR == "carriage return"
BS == "backspace"

ASSUME VgaAssumption ==
  /\ {Cols, Rows, Half} \subseteq Nat \ {0}
  /\ Half % 2 = 0 /\ 4 * Size <= Word16
  /\ Blank \in Chars

(* Every line moves up by one and the last is cleared. *)
roll_screen_fault_keeps_last(v) ==
  [i \in 0..Size - 1 |-> IF i < Size - Cols THEN v[i + Cols] ELSE v[i]]

roll_screen(v) == [i \in 0..Size - 1 |-> IF i < Size - Cols THEN v[i + Cols] ELSE Blank]

result(b, v) == [bx |-> b, video |-> v, fault |-> FALSE]

(* The screen is rolled when bx has left it; jl compares signed words.     *)
settle_fault_late(b, v) ==
  IF b <= Size THEN result(b, v) ELSE result(Size - Cols, roll_screen(v))

settle(b, v) ==
  IF b < Size \/ b >= Word16 \div 2 THEN result(b, v)
  ELSE result(Size - Cols, roll_screen(v))

(* Shifting bx left and right again loses its highest bit.  A character    *)
(* behind the screen is not seen.                                          *)
shifted(b) == b % (Word16 \div 2)

faults(b) == shifted(b) >= Word16 \div 4

put(c, b, v) == IF b < Size THEN [v EXCEPT ![b] = c] ELSE v

is_carriage_return(b, v) == settle(b - (b % Cols), v)

is_line_feed(b, v) == is_carriage_return((b + Cols) % Word16, v)

is_backspace(b, v) ==
  LET p == (b - 1) % Word16
  IN IF faults(p) THEN [result(p, v) EXCEPT !.fault = TRUE]
     ELSE result(shifted(p), put(Blank, shifted(p), v))

put_other(c, b, v) ==
  IF faults(b) THEN [result(b, v) EXCEPT !.fault = TRUE]
  ELSE settle(shifted(b) + 1, put(c, shifted(b), v))

print_char(c, b, v) ==
  CASE c = LF -> is_line_feed(b, v)
    [] c = CR -> is_carriage_return(b, v)
    [] c = BS -> is_backspace(b, v)
    [] OTHER -> put_other(c, b, v)
=============================================================================
