----------------------------- MODULE Keyboard -----------------------------
(***************************************************************************)
(* The keyboard driver (keyboard.c): a keyboard that sends scan codes of   *)
(* set 1 byte by byte, and the handler of IRQ 1, which reads one byte per  *)
(* interrupt and keeps the modifiers, and the e0 prefix of an extended     *)
(* code, in static variables between interrupts.                           *)
(*                                                                         *)
(* A character is the pair of its index and its column in keymap.  The     *)
(* ring buffer is reduced to its number of characters; IoQueue has it in   *)
(* full.                                                                   *)
(***************************************************************************)
EXTENDS Integers, Sequences, FiniteSets

CONSTANTS
  Keys,         \* the keys of the keyboard, each the bytes it sends when pressed
  MaxDown,      \* how many keys are held at the same time
  Backlog,      \* a key is pressed or released when so few bytes are unread
  Capacity,     \* bufsize - 1
  NoChar


(* Print Screen sends a shift code of its own, with a prefix, around its   *)
(* code; Pause sends everything when it is pressed, and nothing later.     *)
PrintScreen == <<\he0, \h2a, \he0, \h37>>
Pause == <<\he1, \h1d, \h45, \he1, \h9d, \hc5>>

(* Set 1 has no code 60: its release would be the prefix e0.               *)
Codes == 1..\h7f \ {\h60}

ASSUME KeyboardAssumption ==
  /\ Keys \subseteq {<<c>> : c \in Codes} \cup {<<\he0, c>> : c \in Codes}
                    \cup {PrintScreen, Pause}
  /\ MaxDown \in Nat /\ Backlog \in Nat /\ Capacity \in Nat
  /\ NoChar \notin (0..255) \X {0, 1}

VARIABLES
  ctrl_status, shift_status, alt_status, caps_lock_status, ext_scancode,
  kbd_buf,      \* how many characters are in the ring buffer
  put,          \* the character the last interrupt put there, or NoChar
  port,         \* bytes sent and not yet read, each with the character meant
  down,         \* the keys that are held
  caps          \* whether Caps Lock is on, as the typist counts it

flags == <<ctrl_status, shift_status, alt_status, caps_lock_status, ext_scancode>>

keys == <<down, caps>>

keyboardVars == <<flags, kbd_buf, put, port, keys>>

-----------------------------------------------------------------------------
shift_l_make == \h2a
shift_r_make == \h36
alt_l_make == \h38
alt_r_make == \he038
ctrl_l_make == \h1d
ctrl_r_make == \he01d
caps_lock_make == \h3a

(* The rows of keymap that are 0 and those with two equal columns.         *)
Invisible == {\h00, \h1d, \h2a, \h36, \h38, \h3a}

OneColumn == {\h01, \h0e, \h0f, \h1c, \h37, \h39}

keymap(index, shift) ==
  IF index \in Invisible THEN NoChar
  ELSE <<index, IF shift /\ index \notin OneColumn THEN 1 ELSE 0>>

(* The keys that Caps Lock has no effect on, as the handler lists them.    *)
symbol_fault_no_backslash(scancode) ==
  \/ scancode < \h0e
  \/ scancode \in {\h29, \h1a, \h1b, \h27, \h28, \h33, \h34, \h35}

symbol(scancode) ==
  \/ scancode < \h0e
  \/ scancode \in {\h29, \h1a, \h1b, \h2b, \h27, \h28, \h33, \h34, \h35}

-----------------------------------------------------------------------------
(* The branches of the handler, for a complete scan code.                  *)

break_code(code) ==
  /\ ctrl_status' = (ctrl_status /\ code \notin {ctrl_l_make, ctrl_r_make})
  /\ shift_status' = (shift_status /\ code \notin {shift_l_make, shift_r_make})
  /\ alt_status' = (alt_status /\ code \notin {alt_l_make, alt_r_make})
  /\ put' = NoChar
  /\ UNCHANGED <<caps_lock_status, kbd_buf>>

(* A key with a character puts it into the buffer, or is forgotten when    *)
(* the buffer is full; another one changes a modifier.  The prefix of an   *)
(* extended code is masked out before either.                              *)
visible_fault_no_full_test(char) ==
  /\ put' = char /\ kbd_buf' = kbd_buf + 1
  /\ UNCHANGED <<ctrl_status, shift_status, alt_status, caps_lock_status>>

visible(char) ==
  /\ IF kbd_buf < Capacity THEN put' = char /\ kbd_buf' = kbd_buf + 1
                           ELSE put' = NoChar /\ UNCHANGED kbd_buf
  /\ UNCHANGED <<ctrl_status, shift_status, alt_status, caps_lock_status>>

modifier(index) ==
  /\ ctrl_status' = (ctrl_status \/ index = ctrl_l_make)
  /\ shift_status' = (shift_status \/ index \in {shift_l_make, shift_r_make})
  /\ alt_status' = (alt_status \/ index = alt_l_make)
  /\ caps_lock_status' = IF index = caps_lock_make THEN ~ caps_lock_status
                                                   ELSE caps_lock_status
  /\ put' = NoChar
  /\ UNCHANGED kbd_buf

make_code(scancode) ==
  LET shift == IF symbol(scancode) THEN shift_status
                                   ELSE shift_status # caps_lock_status
      index == scancode % 256
      cur_char == keymap(index, shift)
  IN IF cur_char # NoChar THEN visible(cur_char) ELSE modifier(index)

unknown_key ==
  /\ put' = NoChar
  /\ UNCHANGED <<ctrl_status, shift_status, alt_status, caps_lock_status, kbd_buf>>

known_fault_masked(scancode) == scancode % 256 \in 1..\h3a

known(scancode) == scancode \in 1..\h3a \cup {alt_r_make, ctrl_r_make}

(* One interrupt.                                                          *)
intr_keyboard_handler ==
  /\ port # <<>>
  /\ port' = Tail(port)
  /\ UNCHANGED keys
  /\ LET byte == Head(port).byte
         scancode == IF ext_scancode THEN \he000 + byte ELSE byte
         break == byte >= \h80
     IN IF byte = \he0
        THEN /\ ext_scancode' = TRUE
             /\ put' = NoChar
             /\ UNCHANGED <<ctrl_status, shift_status, alt_status, caps_lock_status, kbd_buf>>
        ELSE /\ ext_scancode' = FALSE
             /\ IF break THEN break_code(scancode - \h80)
                ELSE IF known(scancode) THEN make_code(scancode)
                ELSE unknown_key

-----------------------------------------------------------------------------
(* The keyboard and the typist.                                            *)

ShiftKeys == {<<shift_l_make>>, <<shift_r_make>>}
CtrlKeys == {<<ctrl_l_make>>, <<\he0, \h1d>>}
AltKeys == {<<alt_l_make>>, <<\he0, \h38>>}
CapsKey == <<caps_lock_make>>

Letters == \h10..\h19 \cup \h1e..\h26 \cup \h2c..\h32
Symbols == \h02..\h0d \cup {\h1a, \h1b, \h27, \h28, \h29, \h2b, \h33, \h34, \h35}

(* The character the typist means by key k, given the keys held. *)
meant(k) ==
  LET shift == down \cap ShiftKeys # {}
      c == k[1]
  IN CASE Len(k) = 1 /\ c \in Letters -> <<c, IF shift # caps THEN 1 ELSE 0>>
       [] Len(k) = 1 /\ c \in Symbols -> <<c, IF shift THEN 1 ELSE 0>>
       [] Len(k) = 1 /\ c \in OneColumn -> <<c, 0>>
       [] OTHER -> NoChar

send(bytes, char) ==
  /\ Len(port) <= Backlog
  /\ port' = port \o [i \in 1..Len(bytes) |->
               [byte |-> bytes[i], char |-> IF i = Len(bytes) THEN char ELSE NoChar]]
  /\ put' = NoChar
  /\ UNCHANGED <<flags, kbd_buf>>

(* What a key sends when it is released. *)
released(k) ==
  IF k = PrintScreen THEN <<\he0, \hb7, \he0, \haa>>
  ELSE [i \in 1..Len(k) |-> IF i = Len(k) THEN k[i] + \h80 ELSE k[i]]

(* A typist holds one shift key at a time. *)
press(k) ==
  /\ k \notin down
  /\ Cardinality(down) < MaxDown
  /\ k \in ShiftKeys => down \cap ShiftKeys = {}
  /\ down' = IF k = Pause THEN down ELSE down \cup {k}
  /\ caps' = (caps # (k = CapsKey))
  /\ send(k, meant(k))

(* A key that is held repeats.  Caps Lock repeated is Caps Lock pressed.   *)
repeat(k) ==
  /\ k \in down
  /\ UNCHANGED down
  /\ caps' = (caps # (k = CapsKey))
  /\ send(k, meant(k))

release(k) ==
  /\ k \in down
  /\ down' = down \ {k}
  /\ UNCHANGED caps
  /\ send(released(k), NoChar)

(* A thread takes a character out of the buffer. *)
ioq_getchar ==
  /\ kbd_buf > 0
  /\ kbd_buf' = kbd_buf - 1
  /\ put' = NoChar
  /\ UNCHANGED <<flags, port, keys>>

-----------------------------------------------------------------------------
KeyboardInit ==
  /\ ctrl_status = FALSE /\ shift_status = FALSE /\ alt_status = FALSE
  /\ caps_lock_status = FALSE /\ ext_scancode = FALSE
  /\ kbd_buf = 0 /\ put = NoChar
  /\ port = <<>>
  /\ down = {} /\ caps = FALSE

KeyboardNext ==
  \/ intr_keyboard_handler
  \/ \E k \in Keys : press(k) \/ repeat(k) \/ release(k)
  \/ ioq_getchar

KeyboardSpec == KeyboardInit /\ [][KeyboardNext]_keyboardVars

-----------------------------------------------------------------------------
(* Properties *)

(* Every variable has its type, and the buffer is never overfilled. *)
KeyboardTypeOK ==
  /\ {ctrl_status, shift_status, alt_status, caps_lock_status, ext_scancode, caps}
       \subseteq BOOLEAN
  /\ kbd_buf \in 0..Capacity
  /\ put \in ((0..\h7f) \X {0, 1}) \cup {NoChar}
  /\ \A i \in DOMAIN port : port[i].byte \in 0..255
  /\ down \subseteq Keys

(* Every key that has a character puts the one its typist meant by it, for *)
(* the shift and Caps Lock state at the time it was pressed, into the      *)
(* buffer, and no other key puts any; only a full buffer loses one.        *)
CharsAsTyped ==
  [][ Len(port') < Len(port) =>
        put' = IF kbd_buf < Capacity THEN Head(port).char ELSE NoChar ]_keyboardVars

(* Once everything sent has been read, a modifier that is set belongs to a *)
(* key that is held: no sequence of keys, the prefixed shift codes of      *)
(* Print Screen and the control code inside Pause included, leaves one     *)
(* set, and the Caps Lock and prefix flags agree with the keyboard.        *)
NoStuckModifier ==
  port = <<>> =>
    /\ ctrl_status => down \cap CtrlKeys # {}
    /\ shift_status <=> down \cap ShiftKeys # {}
    /\ alt_status => down \cap AltKeys # {}
    /\ caps_lock_status = caps
    /\ ~ ext_scancode
=============================================================================
