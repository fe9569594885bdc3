------------------------------- MODULE Screen -------------------------------
(***************************************************************************)
(* print_str without interruption: the VGA text screen and its cursor,     *)
(* both of which outlive a call.  Beside them stands the text printed so   *)
(* far as on a roll of paper, of which the screen should show the last     *)
(* lines.                                                                  *)
(***************************************************************************)
EXTENDS Vga

CONSTANT MaxLines      \* the length of the paper

ASSUME ScreenAssumption == MaxLines \in Nat /\ MaxLines >= Rows

VARIABLES
  cursor,          \* the cursor's position
  video,           \* the characters on the screen
  halted,          \* an exception's handler spins
  paper,           \* everything printed
  pos,             \* the position of the next character on the paper
  top              \* the first line of the paper that is on the screen

screenVars == <<cursor, video, halted, paper, pos, top>>

-----------------------------------------------------------------------------
(* The paper. *)

scroll(p) == IF p \div Cols - top >= Rows THEN p \div Cols - Rows + 1 ELSE top

write(p, text) ==
  /\ p < MaxLines * Cols
  /\ pos' = p
  /\ paper' = text
  /\ top' = scroll(p)

type(c) ==
  CASE c = LF -> write((pos \div Cols + 1) * Cols, paper)
    [] c = CR -> write((pos \div Cols) * Cols, paper)
    [] c = BS -> IF pos = top * Cols THEN UNCHANGED <<pos, paper, top>>
                 ELSE write(pos - 1, [paper EXCEPT ![pos - 1] = Blank])
    [] OTHER -> write(pos + 1, [paper EXCEPT ![pos] = c])

-----------------------------------------------------------------------------
(* One character of print_str. *)
print_str(c) ==
  LET r == print_char(c, cursor, video) IN
  /\ ~ halted
  /\ halted' = r.fault
  /\ cursor' = IF r.fault THEN cursor ELSE r.bx
  /\ video' = r.video
  /\ type(c)

(* set_cursor(0), for a message on top of the screen. *)
set_cursor ==
  /\ ~ halted
  /\ cursor' = 0
  /\ write(top * Cols, paper)
  /\ UNCHANGED <<video, halted>>

spin == halted /\ UNCHANGED screenVars

ScreenInit ==
  /\ cursor = 0
  /\ video = [i \in 0..Size - 1 |-> Blank]
  /\ halted = FALSE
  /\ paper = [i \in 0..MaxLines * Cols - 1 |-> Blank]
  /\ pos = 0 /\ top = 0

ScreenNext ==
  \/ \E c \in Chars \cup {LF, CR, BS} : print_str(c)
  \/ set_cursor
  \/ spin

ScreenSpec == ScreenInit /\ [][ScreenNext]_screenVars

-----------------------------------------------------------------------------
(* Properties *)

(* Every variable has its type; the cursor stays on the screen. *)
ScreenTypeOK ==
  /\ cursor \in 0..Size - 1
  /\ video \in [0..Size - 1 -> Chars]
  /\ halted \in BOOLEAN
  /\ paper \in [0..MaxLines * Cols - 1 -> Chars]
  /\ pos \in 0..MaxLines * Cols - 1
  /\ top \in 0..MaxLines - Rows

(* The screen shows the last lines of what has been printed, with the      *)
(* cursor where the next character goes, whatever way the cursor came to   *)
(* the last line: by a full line, a line feed or both.  Only a backspace   *)
(* at the first position, with which bx wraps around, faults.              *)
ShowsLastLines ==
  /\ cursor = pos - top * Cols
  /\ \A i \in 0..Size - 1 : video[i] = paper[top * Cols + i]
  /\ halted => cursor = 0

(* The inductive invariant: what rolls onto the screen is still blank. *)
BlankBelow == \A j \in (top + Rows) * Cols..MaxLines * Cols - 1 : paper[j] = Blank

ScreenInv == ScreenTypeOK /\ ShowsLastLines /\ BlankBelow
=============================================================================
