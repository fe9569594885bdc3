---------------------------- MODULE Keyboard_proofs ----------------------------
(***************************************************************************)
(* Proofs about Keyboard.  The driver's five flags are taken as the set of *)
(* those that are on.  One byte takes this set to After and shows the      *)
(* character Shown, or none; the inductive invariant says that the bytes   *)
(* waiting at the port, each with the character its typist meant, lead     *)
(* from the flags as they are to a set that agrees with the keys held.     *)
(***************************************************************************)
EXTENDS Keyboard, SequenceTheorems, TLAPS

(* The flags, and those that are on. *)
Mods == {"ctrl", "shift", "alt", "caps", "ext"}

On == {m \in Mods : \/ m = "ctrl" /\ ctrl_status
                    \/ m = "shift" /\ shift_status
                    \/ m = "alt" /\ alt_status
                    \/ m = "caps" /\ caps_lock_status
                    \/ m = "ext" /\ ext_scancode}

(* The codes that set a modifier, and whose release clears it. *)
Makes(m) == IF m = "ctrl" THEN {ctrl_l_make, ctrl_r_make}
            ELSE IF m = "shift" THEN {shift_l_make, shift_r_make}
            ELSE IF m = "alt" THEN {alt_l_make, alt_r_make}
            ELSE {}

(* The complete scan code of byte b. *)
CodeOf(S, b) == IF "ext" \in S THEN \he000 + b ELSE b

(* The flags after byte b, and the character that b puts into the buffer. *)
After(S, b) ==
  IF b = \he0 THEN S \cup {"ext"}
  ELSE IF b >= \h80 THEN {m \in S \ {"ext"} : CodeOf(S, b) - \h80 \notin Makes(m)}
  ELSE {m \in Mods \ {"ext"} :
          IF m = "caps" THEN (CodeOf(S, b) = caps_lock_make) <=> (m \notin S)
                        ELSE m \in S \/ CodeOf(S, b) \in Makes(m)}

Shown(S, b) ==
  IF b >= \h80 \/ ~ known(CodeOf(S, b)) THEN NoChar
  ELSE IF CodeOf(S, b) % 256 \in Invisible THEN NoChar
  ELSE <<CodeOf(S, b) % 256,
         IF /\ CodeOf(S, b) % 256 \notin OneColumn
            /\ IF symbol(CodeOf(S, b)) THEN "shift" \in S
               ELSE ("shift" \in S) <=> ("caps" \notin S)
         THEN 1 ELSE 0>>

(* A byte sent takes the flags from S to T and shows the character meant. *)
Driven(S, x, T) == T = After(S, x.byte) /\ x.char = Shown(S, x.byte)

(* The bytes P take the flags from S to T. *)
Leads(S, P, T) ==
  \E f \in [1..Len(P) + 1 -> SUBSET Mods] :
    /\ f[1] = S
    /\ f[Len(P) + 1] = T
    /\ \A i \in 1..Len(P) : Driven(f[i], P[i], f[i + 1])

(* The flags agree with the keys held and with Caps Lock. *)
Settled(T, d, c) ==
  /\ "ctrl" \in T => d \cap CtrlKeys # {}
  /\ "shift" \in T <=> d \cap ShiftKeys # {}
  /\ "alt" \in T => d \cap AltKeys # {}
  /\ "caps" \in T <=> c
  /\ "ext" \notin T

(* What waits at the port. *)
Item == [byte : 0..255, char : ((0..\h7f) \X {0, 1}) \cup {NoChar}]

(* The inductive invariant. A typist holds one shift key at a time, and no *)
(* Pause, which releases itself.                                           *)
KeyboardInv ==
  /\ KeyboardTypeOK
  /\ port \in Seq(Item)
  /\ Pause \notin down
  /\ ~ ({<<shift_l_make>>, <<shift_r_make>>} \subseteq down)
  /\ \E T \in SUBSET Mods : Leads(On, port, T) /\ Settled(T, down, caps)

(* No bytes lead nowhere. *)
LEMMA LeadsNone ==
  ASSUME NEW S \in SUBSET Mods
  PROVE  Leads(S, <<>>, S)
<1> DEFINE f == [i \in 1..Len(<<>>) + 1 |-> S]
<1>1. Len(<<>>) = 0
  BY EmptySeq
<1>2. f \in [1..Len(<<>>) + 1 -> SUBSET Mods] /\ f[1] = S /\ f[Len(<<>>) + 1] = S
  BY <1>1
<1>3. \A i \in 1..Len(<<>>) : Driven(f[i], <<>>[i], f[i + 1])
  BY <1>1
<1> QED
  BY <1>2, <1>3 DEF Leads

(* One byte leads a step. *)
LEMMA LeadsOne ==
  ASSUME NEW S \in SUBSET Mods, NEW T \in SUBSET Mods, NEW x, Driven(S, x, T)
  PROVE  Leads(S, <<x>>, T)
<1> DEFINE f == [i \in 1..Len(<<x>>) + 1 |-> IF i = 1 THEN S ELSE T]
<1>1. Len(<<x>>) = 1 /\ <<x>>[1] = x
  OBVIOUS
<1>2. f \in [1..Len(<<x>>) + 1 -> SUBSET Mods] /\ f[1] = S /\ f[2] = T
      /\ f[Len(<<x>>) + 1] = T
  BY <1>1
<1> HIDE DEF f
<1>3. \A i \in 1..Len(<<x>>) : Driven(f[i], <<x>>[i], f[i + 1])
  <2> TAKE i \in 1..Len(<<x>>)
  <2>1. i = 1
    BY <1>1
  <2> QED
    BY <2>1, <1>1, <1>2
<1> QED
  BY <1>1, <1>2, <1>3 DEF Leads

(* Runs compose. *)
LEMMA LeadsTrans ==
  ASSUME NEW X, NEW S \in SUBSET Mods, NEW T \in SUBSET Mods, NEW U \in SUBSET Mods,
         NEW P \in Seq(X), NEW Q \in Seq(X), Leads(S, P, T), Leads(T, Q, U)
  PROVE  Leads(S, P \o Q, U)
<1>1. PICK f \in [1..Len(P) + 1 -> SUBSET Mods] :
        /\ f[1] = S /\ f[Len(P) + 1] = T
        /\ \A i \in 1..Len(P) : Driven(f[i], P[i], f[i + 1])
  BY DEF Leads
<1>2. PICK g \in [1..Len(Q) + 1 -> SUBSET Mods] :
        /\ g[1] = T /\ g[Len(Q) + 1] = U
        /\ \A i \in 1..Len(Q) : Driven(g[i], Q[i], g[i + 1])
  BY DEF Leads
<1>3. Len(P) \in Nat /\ Len(Q) \in Nat
  BY LenProperties
<1>4. /\ Len(P \o Q) = Len(P) + Len(Q)
      /\ \A i \in 1..Len(P) + Len(Q) :
           (P \o Q)[i] = IF i <= Len(P) THEN P[i] ELSE Q[i - Len(P)]
  BY ConcatProperties
<1> DEFINE h == [i \in 1..Len(P \o Q) + 1 |->
                   IF i <= Len(P) THEN f[i] ELSE g[i - Len(P)]]
<1>5. h \in [1..Len(P \o Q) + 1 -> SUBSET Mods]
  <2> SUFFICES ASSUME NEW i \in 1..Len(P \o Q) + 1
               PROVE  h[i] \in SUBSET Mods
    BY Zenon
  <2>1. CASE i <= Len(P)
    BY <2>1, <1>1, <1>3, <1>4
  <2>2. CASE ~ (i <= Len(P))
    <3>1. i - Len(P) \in 1..Len(Q) + 1
      BY <2>2, <1>3, <1>4
    <3> QED
      BY <3>1, <2>2, <1>2
  <2> QED
    BY <2>1, <2>2
<1>6. h[1] = S
  BY <1>1, <1>2, <1>3, <1>4
<1>7. h[Len(P \o Q) + 1] = U
  BY <1>2, <1>3, <1>4
<1>8. ASSUME NEW i \in 1..Len(P \o Q)
      PROVE  Driven(h[i], (P \o Q)[i], h[i + 1])
  <2>1. CASE i < Len(P)
    <3>1. i \in 1..Len(P) /\ h[i] = f[i] /\ h[i + 1] = f[i + 1] /\ (P \o Q)[i] = P[i]
      BY <2>1, <1>3, <1>4
    <3> QED
      BY <3>1, <1>1
  <2>2. CASE i = Len(P)
    <3>1. i \in 1..Len(P) /\ h[i] = f[i] /\ h[i + 1] = g[1] /\ (P \o Q)[i] = P[i]
      BY <2>2, <1>3, <1>4
    <3> QED
      BY <3>1, <2>2, <1>1, <1>2
  <2>3. CASE i > Len(P)
    <3>1. /\ i - Len(P) \in 1..Len(Q) /\ h[i] = g[i - Len(P)]
          /\ h[i + 1] = g[(i - Len(P)) + 1] /\ (P \o Q)[i] = Q[i - Len(P)]
      BY <2>3, <1>3, <1>4
    <3> QED
      BY <3>1, <1>2
  <2> QED
    BY <2>1, <2>2, <2>3, <1>3, <1>4
<1> QED
  BY <1>5, <1>6, <1>7, <1>8 DEF Leads

(* The first byte of a run can be taken off. *)
LEMMA LeadsTail ==
  ASSUME NEW X, NEW S \in SUBSET Mods, NEW U \in SUBSET Mods,
         NEW P \in Seq(X), P # <<>>, Leads(S, P, U)
  PROVE  \E T \in SUBSET Mods : Driven(S, Head(P), T) /\ Leads(T, Tail(P), U)
<1>1. PICK f \in [1..Len(P) + 1 -> SUBSET Mods] :
        /\ f[1] = S /\ f[Len(P) + 1] = U
        /\ \A i \in 1..Len(P) : Driven(f[i], P[i], f[i + 1])
  BY DEF Leads
<1>2. /\ Len(P) \in Nat /\ Len(P) >= 1 /\ Head(P) = P[1]
      /\ Len(Tail(P)) = Len(P) - 1
      /\ \A i \in 1..Len(Tail(P)) : Tail(P)[i] = P[i + 1]
  BY HeadTailProperties, LenProperties, EmptySeq
<1>3. f[2] \in SUBSET Mods /\ Driven(S, Head(P), f[2])
  BY <1>1, <1>2
<1> DEFINE g == [i \in 1..Len(Tail(P)) + 1 |-> f[i + 1]]
<1>4. g \in [1..Len(Tail(P)) + 1 -> SUBSET Mods] /\ g[1] = f[2] /\ g[Len(Tail(P)) + 1] = U
  BY <1>1, <1>2
<1>5. ASSUME NEW i \in 1..Len(Tail(P))
      PROVE  Driven(g[i], Tail(P)[i], g[i + 1])
  <2>1. i + 1 \in 1..Len(P) /\ g[i] = f[i + 1] /\ g[i + 1] = f[(i + 1) + 1]
    BY <1>2
  <2> QED
    BY <2>1, <1>1, <1>2
<1>6. Leads(f[2], Tail(P), U)
  BY <1>4, <1>5 DEF Leads
<1> QED
  BY <1>3, <1>6

FlagTypes ==
  /\ ctrl_status \in BOOLEAN /\ shift_status \in BOOLEAN /\ alt_status \in BOOLEAN
  /\ caps_lock_status \in BOOLEAN /\ ext_scancode \in BOOLEAN

(* What is in the set of the flags that are on. *)
LEMMA OnMembers ==
  /\ "ctrl" \in On <=> ctrl_status
  /\ "shift" \in On <=> shift_status
  /\ "alt" \in On <=> alt_status
  /\ "caps" \in On <=> caps_lock_status
  /\ "ext" \in On <=> ext_scancode
  /\ On \subseteq Mods
BY DEF On, Mods

(* Two sets of flags with the same members are equal. *)
LEMMA SameMods ==
  ASSUME NEW S, NEW T, S \subseteq Mods, T \subseteq Mods,
         "ctrl" \in S <=> "ctrl" \in T, "shift" \in S <=> "shift" \in T,
         "alt" \in S <=> "alt" \in T, "caps" \in S <=> "caps" \in T,
         "ext" \in S <=> "ext" \in T
  PROVE  S = T
<1>1. \A m \in Mods : m \in S <=> m \in T
  BY Zenon DEF Mods
<1> QED
  BY <1>1

(* The table of codes, modifier by modifier. *)
LEMMA MakesValues ==
  /\ Makes("ctrl") = {ctrl_l_make, ctrl_r_make}
  /\ Makes("shift") = {shift_l_make, shift_r_make}
  /\ Makes("alt") = {alt_l_make, alt_r_make}
  /\ Makes("caps") = {}
  /\ Makes("ext") = {}
BY DEF Makes

(* The flags after the byte of a release, one by one. *)
LEMMA AfterBreak ==
  ASSUME NEW S \in SUBSET Mods, NEW b \in 0..255, b # \he0, b >= \h80
  PROVE  /\ After(S, b) \subseteq Mods
         /\ "ext" \notin After(S, b)
         /\ "ctrl" \in After(S, b) <=>
              "ctrl" \in S /\ CodeOf(S, b) - \h80 \notin {ctrl_l_make, ctrl_r_make}
         /\ "shift" \in After(S, b) <=>
              "shift" \in S /\ CodeOf(S, b) - \h80 \notin {shift_l_make, shift_r_make}
         /\ "alt" \in After(S, b) <=>
              "alt" \in S /\ CodeOf(S, b) - \h80 \notin {alt_l_make, alt_r_make}
         /\ "caps" \in After(S, b) <=> "caps" \in S
<1> DEFINE c == CodeOf(S, b) - \h80
<1>1. After(S, b) = {m \in S \ {"ext"} : c \notin Makes(m)}
  BY DEF After
<1> HIDE DEF c
<1>2. \A m : m \in After(S, b) <=> m \in S /\ m # "ext" /\ c \notin Makes(m)
  BY <1>1
<1>3. After(S, b) \subseteq Mods /\ "ext" \notin After(S, b)
  BY <1>2
<1>4. "ctrl" \in After(S, b) <=> "ctrl" \in S /\ c \notin Makes("ctrl")
  BY <1>2
<1>5. "shift" \in After(S, b) <=> "shift" \in S /\ c \notin Makes("shift")
  BY <1>2
<1>6. "alt" \in After(S, b) <=> "alt" \in S /\ c \notin Makes("alt")
  BY <1>2
<1>7. "caps" \in After(S, b) <=> "caps" \in S /\ c \notin Makes("caps")
  BY <1>2
<1> QED
  BY <1>3, <1>4, <1>5, <1>6, <1>7, MakesValues, Zenon DEF c

(* The flags after the byte of a press, one by one. *)
LEMMA AfterMake ==
  ASSUME NEW S \in SUBSET Mods, NEW b \in 0..255, b < \h80
  PROVE  /\ After(S, b) \subseteq Mods
         /\ "ext" \notin After(S, b)
         /\ "ctrl" \in After(S, b) <=>
              "ctrl" \in S \/ CodeOf(S, b) \in {ctrl_l_make, ctrl_r_make}
         /\ "shift" \in After(S, b) <=>
              "shift" \in S \/ CodeOf(S, b) \in {shift_l_make, shift_r_make}
         /\ "alt" \in After(S, b) <=>
              "alt" \in S \/ CodeOf(S, b) \in {alt_l_make, alt_r_make}
         /\ "caps" \in After(S, b) <=>
              ((CodeOf(S, b) = caps_lock_make) <=> ("caps" \notin S))
<1> DEFINE c == CodeOf(S, b)
<1>1. After(S, b) = {m \in Mods \ {"ext"} :
          IF m = "caps" THEN (c = caps_lock_make) <=> (m \notin S)
                        ELSE m \in S \/ c \in Makes(m)}
  BY DEF After
<1> HIDE DEF c
<1>2. \A m : m \in After(S, b) <=>
        /\ m \in Mods /\ m # "ext"
        /\ m = "caps" => ((c = caps_lock_make) <=> (m \notin S))
        /\ m # "caps" => m \in S \/ c \in Makes(m)
  BY <1>1
<1>3. After(S, b) \subseteq Mods /\ "ext" \notin After(S, b)
  BY <1>2
<1>0. "ctrl" \in Mods /\ "shift" \in Mods /\ "alt" \in Mods /\ "caps" \in Mods
  BY DEF Mods
<1>4. "ctrl" \in After(S, b) <=> "ctrl" \in S \/ c \in Makes("ctrl")
  BY <1>0, <1>2
<1>5. "shift" \in After(S, b) <=> "shift" \in S \/ c \in Makes("shift")
  BY <1>0, <1>2
<1>6. "alt" \in After(S, b) <=> "alt" \in S \/ c \in Makes("alt")
  BY <1>0, <1>2
<1>7. "caps" \in After(S, b) <=> ((c = caps_lock_make) <=> ("caps" \notin S))
  BY <1>0, <1>2
<1> QED
  BY <1>3, <1>4, <1>5, <1>6, <1>7, MakesValues, Zenon DEF c

(* A byte is its own remainder. *)
LEMMA SmallMod ==
  ASSUME NEW c \in 0..255
  PROVE  c % 256 = c
OBVIOUS

(* One interrupt does what After and Shown say; a full buffer drops the    *)
(* character.                                                              *)
LEMMA HandlerDrives ==
  ASSUME FlagTypes, Len(port) \in Nat, Head(port).byte \in 0..255,
         kbd_buf \in Nat, intr_keyboard_handler
  PROVE  /\ FlagTypes'
         /\ On' = After(On, Head(port).byte)
         /\ put' = IF kbd_buf < Capacity THEN Shown(On, Head(port).byte) ELSE NoChar
         /\ kbd_buf' = IF kbd_buf < Capacity /\ Shown(On, Head(port).byte) # NoChar
                       THEN kbd_buf + 1 ELSE kbd_buf
<1> DEFINE b == Head(port).byte
<1> DEFINE c == CodeOf(On, b)
<1>0. /\ On \in SUBSET Mods
      /\ "ctrl" \in On <=> ctrl_status
      /\ "shift" \in On <=> shift_status
      /\ "alt" \in On <=> alt_status
      /\ "caps" \in On <=> caps_lock_status
      /\ "ext" \in On <=> ext_scancode
  BY OnMembers
<1>1. /\ On' \in SUBSET Mods
      /\ "ctrl" \in On' <=> ctrl_status'
      /\ "shift" \in On' <=> shift_status'
      /\ "alt" \in On' <=> alt_status'
      /\ "caps" \in On' <=> caps_lock_status'
      /\ "ext" \in On' <=> ext_scancode'
  BY DEF On, Mods
<1>2. /\ IF b = \he0
         THEN /\ ext_scancode' = TRUE
              /\ put' = NoChar
              /\ UNCHANGED <<ctrl_status, shift_status, alt_status, caps_lock_status, kbd_buf>>
         ELSE /\ ext_scancode' = FALSE
              /\ IF b >= \h80 THEN break_code(c - \h80)
                 ELSE IF known(c) THEN make_code(c)
                 ELSE unknown_key
      /\ b \in 0..255
      /\ c = IF ext_scancode THEN \he000 + b ELSE b
      /\ c \in Nat
  <2>1. c = IF ext_scancode THEN \he000 + b ELSE b
    <3>1. CASE ext_scancode
      BY <3>1, <1>0 DEF CodeOf
    <3>2. CASE ~ ext_scancode
      BY <3>2, <1>0 DEF CodeOf
    <3> QED
      BY <3>1, <3>2
  <2> HIDE DEF c
  <2>2. c \in Nat /\ b \in 0..255
    <3>1. b \in 0..255
      OBVIOUS
    <3> HIDE DEF b
    <3> QED
      BY <2>1, <3>1
  <2>3. IF b = \he0
        THEN /\ ext_scancode' = TRUE
             /\ put' = NoChar
             /\ UNCHANGED <<ctrl_status, shift_status, alt_status, caps_lock_status, kbd_buf>>
        ELSE /\ ext_scancode' = FALSE
             /\ IF b >= \h80 THEN break_code((IF ext_scancode THEN \he000 + b ELSE b) - \h80)
                ELSE IF known(IF ext_scancode THEN \he000 + b ELSE b)
                THEN make_code(IF ext_scancode THEN \he000 + b ELSE b)
                ELSE unknown_key
    BY DEF intr_keyboard_handler
  <2> QED
    BY <2>1, <2>2, <2>3
<1> HIDE DEF b
<1>3. CASE b = \he0
  <2>1. FlagTypes' /\ put' = NoChar /\ kbd_buf' = kbd_buf
    BY <1>2, <1>3 DEF FlagTypes
  <2>2. Shown(On, b) = NoChar
    BY <1>3 DEF Shown
  <2>3. On' = On \cup {"ext"}
    <3>1. On \cup {"ext"} \subseteq Mods
      BY <1>0 DEF Mods
    <3>2. ext_scancode' /\ UNCHANGED <<ctrl_status, shift_status, alt_status, caps_lock_status>>
      BY <1>2, <1>3
    <3>3. /\ "ctrl" \in On' <=> "ctrl" \in On \cup {"ext"}
          /\ "shift" \in On' <=> "shift" \in On \cup {"ext"}
          /\ "alt" \in On' <=> "alt" \in On \cup {"ext"}
          /\ "caps" \in On' <=> "caps" \in On \cup {"ext"}
          /\ "ext" \in On' <=> "ext" \in On \cup {"ext"}
      BY <1>0, <1>1, <3>2
    <3> QED
      BY <1>1, <3>1, <3>3, SameMods
  <2>4. After(On, b) = On \cup {"ext"}
    BY <1>3 DEF After
  <2> QED
    BY <2>1, <2>2, <2>3, <2>4 DEF b
<1>4. CASE b # \he0 /\ b >= \h80
  <2>1. break_code(c - \h80) /\ ext_scancode' = FALSE
    BY <1>2, <1>4
  <2>2. FlagTypes' /\ put' = NoChar /\ kbd_buf' = kbd_buf
    BY <2>1 DEF FlagTypes, break_code
  <2>3. Shown(On, b) = NoChar
    BY <1>4 DEF Shown
  <2>4. On' = After(On, b)
    <3>1. /\ ctrl_status' <=> ctrl_status /\ c - \h80 \notin {ctrl_l_make, ctrl_r_make}
          /\ shift_status' <=> shift_status /\ c - \h80 \notin {shift_l_make, shift_r_make}
          /\ alt_status' <=> alt_status /\ c - \h80 \notin {alt_l_make, alt_r_make}
          /\ caps_lock_status' <=> caps_lock_status
      BY <2>1, Zenon DEF break_code
    <3>2. On \in SUBSET Mods /\ b \in 0..255
      BY <1>0, <1>2
    <3> HIDE DEF c
    <3>3. /\ "ext" \notin After(On, b)
          /\ After(On, b) \subseteq Mods
          /\ "ctrl" \in After(On, b) <=>
               "ctrl" \in On /\ c - \h80 \notin {ctrl_l_make, ctrl_r_make}
          /\ "shift" \in After(On, b) <=>
               "shift" \in On /\ c - \h80 \notin {shift_l_make, shift_r_make}
          /\ "alt" \in After(On, b) <=>
               "alt" \in On /\ c - \h80 \notin {alt_l_make, alt_r_make}
          /\ "caps" \in After(On, b) <=> "caps" \in On
      BY <3>2, <1>4, AfterBreak, ZenonT(60) DEF c
    <3> QED
      BY <3>1, <3>3, <2>1, <1>0, <1>1, SameMods
  <2> QED
    BY <2>2, <2>3, <2>4 DEF b
<1>5. CASE b < \h80 /\ known(c)
  <2>1. make_code(c) /\ ext_scancode' = FALSE
    BY <1>2, <1>5
  <2> DEFINE i == c % 256
  <2> DEFINE sh == IF symbol(c) THEN shift_status ELSE shift_status # caps_lock_status
  <2>2. IF keymap(i, sh) # NoChar THEN visible(keymap(i, sh)) ELSE modifier(i)
    BY <2>1, Zenon DEF make_code
  <2>3. /\ i \in 0..\h3a
        /\ c \in 1..\h3a => i = c
        /\ c = ctrl_r_make => i = ctrl_l_make
        /\ c = alt_r_make => i = alt_l_make
        /\ c \in 1..\h3a \cup {alt_r_make, ctrl_r_make}
    BY <1>5, <1>2, SmallMod DEF known, alt_r_make, ctrl_r_make, ctrl_l_make, alt_l_make
  <2>4. sh <=> IF symbol(c) THEN "shift" \in On ELSE ("shift" \in On) <=> ("caps" \notin On)
    BY <1>0, Zenon DEF FlagTypes
  <2>5. Shown(On, b) = keymap(i, sh)
    <3>1. ~ (b >= \h80)
      BY <1>5, <1>2
    <3> QED
      BY <3>1, <1>5, <2>4, ZenonT(60) DEF Shown, keymap
  <2>6. keymap(i, sh) = NoChar <=> i \in Invisible
    BY <2>3, KeyboardAssumption DEF keymap
  <2>7. /\ After(On, b) \subseteq Mods /\ "ext" \notin After(On, b)
        /\ "ctrl" \in After(On, b) <=>
             "ctrl" \in On \/ c \in {ctrl_l_make, ctrl_r_make}
        /\ "shift" \in After(On, b) <=>
             "shift" \in On \/ c \in {shift_l_make, shift_r_make}
        /\ "alt" \in After(On, b) <=>
             "alt" \in On \/ c \in {alt_l_make, alt_r_make}
        /\ "caps" \in After(On, b) <=> ((c = caps_lock_make) <=> ("caps" \notin On))
    <3>1. On \in SUBSET Mods /\ b \in 0..255
      BY <1>0, <1>2
    <3> QED
      BY <3>1, <1>5, AfterMake
  <2> HIDE DEF c, i, sh
  <2>8. CASE i \notin Invisible
    <3>1. visible(keymap(i, sh))
      BY <2>2, <2>6, <2>8
    <3>2. /\ put' = IF kbd_buf < Capacity THEN keymap(i, sh) ELSE NoChar
          /\ kbd_buf' = IF kbd_buf < Capacity THEN kbd_buf + 1 ELSE kbd_buf
          /\ UNCHANGED <<ctrl_status, shift_status, alt_status, caps_lock_status>>
      BY <3>1, Zenon DEF visible
    <3>3. FlagTypes'
      BY <3>2, <2>1 DEF FlagTypes
    <3>4. /\ c \notin {ctrl_l_make, ctrl_r_make} /\ c \notin {shift_l_make, shift_r_make}
          /\ c \notin {alt_l_make, alt_r_make} /\ c # caps_lock_make
      BY <2>8, <2>3 DEF Invisible, alt_r_make, ctrl_r_make, ctrl_l_make, alt_l_make,
                       shift_l_make, shift_r_make, caps_lock_make
    <3>5. /\ "ctrl" \in On' <=> "ctrl" \in After(On, b)
          /\ "shift" \in On' <=> "shift" \in After(On, b)
          /\ "alt" \in On' <=> "alt" \in After(On, b)
          /\ "caps" \in On' <=> "caps" \in After(On, b)
          /\ "ext" \in On' <=> "ext" \in After(On, b)
      BY <3>2, <3>4, <2>1, <2>7, <1>0, <1>1
    <3>6. On' = After(On, b)
      BY <3>5, <2>7, <1>1, SameMods
    <3>7. Shown(On, b) # NoChar
      BY <2>5, <2>6, <2>8
    <3> QED
      BY <3>2, <3>3, <3>6, <3>7, <2>5 DEF b
  <2>9. CASE i \in Invisible
    <3>1. modifier(i)
      BY <2>2, <2>6, <2>9
    <3>2. /\ ctrl_status' = (ctrl_status \/ i = ctrl_l_make)
          /\ shift_status' = (shift_status \/ i \in {shift_l_make, shift_r_make})
          /\ alt_status' = (alt_status \/ i = alt_l_make)
          /\ caps_lock_status' = IF i = caps_lock_make THEN ~ caps_lock_status
                                                      ELSE caps_lock_status
          /\ put' = NoChar /\ kbd_buf' = kbd_buf
      BY <3>1, Zenon DEF modifier
    <3>3. FlagTypes'
      <4>1. ctrl_status' \in BOOLEAN /\ shift_status' \in BOOLEAN /\ alt_status' \in BOOLEAN
        BY <3>2
      <4>2. caps_lock_status' \in BOOLEAN
        BY <3>2 DEF FlagTypes
      <4> QED
        BY <4>1, <4>2, <2>1 DEF FlagTypes
    <3>4. /\ c \in {ctrl_l_make, ctrl_r_make} <=> i = ctrl_l_make
          /\ c \in {shift_l_make, shift_r_make} <=> i \in {shift_l_make, shift_r_make}
          /\ c \in {alt_l_make, alt_r_make} <=> i = alt_l_make
          /\ c = caps_lock_make <=> i = caps_lock_make
      BY <2>3 DEF alt_r_make, ctrl_r_make, ctrl_l_make, alt_l_make,
                       shift_l_make, shift_r_make, caps_lock_make
    <3>5. /\ ctrl_status' <=> ctrl_status \/ i = ctrl_l_make
          /\ shift_status' <=> shift_status \/ i \in {shift_l_make, shift_r_make}
          /\ alt_status' <=> alt_status \/ i = alt_l_make
          /\ caps_lock_status' <=> ((i = caps_lock_make) <=> ~ caps_lock_status)
      BY <3>2, Zenon DEF FlagTypes
    <3>6. On' = After(On, b)
      <4>1. /\ "ctrl" \in On' <=> "ctrl" \in After(On, b)
            /\ "shift" \in On' <=> "shift" \in After(On, b)
            /\ "alt" \in On' <=> "alt" \in After(On, b)
            /\ "caps" \in On' <=> "caps" \in After(On, b)
            /\ "ext" \in On' <=> "ext" \in After(On, b)
        BY <3>4, <3>5, <2>1, <2>7, <1>0, <1>1
      <4> QED
        BY <4>1, <2>7, <1>1, SameMods
    <3>7. Shown(On, b) = NoChar
      BY <2>5, <2>6, <2>9
    <3> QED
      BY <3>2, <3>3, <3>6, <3>7 DEF b
  <2> QED
    BY <2>8, <2>9
<1>6. CASE b < \h80 /\ ~ known(c)
  <2>1. unknown_key /\ ext_scancode' = FALSE
    BY <1>2, <1>6
  <2>2. /\ put' = NoChar
        /\ UNCHANGED <<ctrl_status, shift_status, alt_status, caps_lock_status, kbd_buf>>
    BY <2>1 DEF unknown_key
  <2>3. FlagTypes'
    BY <2>1, <2>2 DEF FlagTypes
  <2>4. Shown(On, b) = NoChar
    BY <1>6 DEF Shown
  <2>5. /\ c \notin {ctrl_l_make, ctrl_r_make} /\ c \notin {shift_l_make, shift_r_make}
        /\ c \notin {alt_l_make, alt_r_make} /\ c # caps_lock_make
    BY <1>6 DEF known, alt_r_make, ctrl_r_make, ctrl_l_make, alt_l_make,
                     shift_l_make, shift_r_make, caps_lock_make
  <2>6. /\ After(On, b) \subseteq Mods /\ "ext" \notin After(On, b)
        /\ "ctrl" \in After(On, b) <=>
             "ctrl" \in On \/ c \in {ctrl_l_make, ctrl_r_make}
        /\ "shift" \in After(On, b) <=>
             "shift" \in On \/ c \in {shift_l_make, shift_r_make}
        /\ "alt" \in After(On, b) <=>
             "alt" \in On \/ c \in {alt_l_make, alt_r_make}
        /\ "caps" \in After(On, b) <=> ((c = caps_lock_make) <=> ("caps" \notin On))
    <3>1. On \in SUBSET Mods /\ b \in 0..255
      BY <1>0, <1>2
    <3> QED
      BY <3>1, <1>6, AfterMake
  <2>7. On' = After(On, b)
    <3>1. /\ "ctrl" \in On' <=> "ctrl" \in After(On, b)
          /\ "shift" \in On' <=> "shift" \in After(On, b)
          /\ "alt" \in On' <=> "alt" \in After(On, b)
          /\ "caps" \in On' <=> "caps" \in After(On, b)
          /\ "ext" \in On' <=> "ext" \in After(On, b)
      BY <2>1, <2>2, <2>5, <2>6, <1>0, <1>1
    <3> QED
      BY <3>1, <2>6, <1>1, SameMods
  <2> QED
    BY <2>2, <2>3, <2>4, <2>7 DEF b
<1>7. b = \he0 \/ (b # \he0 /\ b >= \h80) \/ b < \h80
  BY <1>2
<1> QED
  BY <1>3, <1>4, <1>5, <1>6, <1>7, Zenon

(* The bytes of a key as they wait at the port, the last with its          *)
(* character.                                                              *)
Sent(bytes, char) ==
  [i \in 1..Len(bytes) |-> [byte |-> bytes[i], char |-> IF i = Len(bytes) THEN char ELSE NoChar]]

CharSet == ((0..\h7f) \X {0, 1}) \cup {NoChar}

(* They are as many as the bytes, in the same order. *)
LEMMA SentSeq ==
  ASSUME NEW bytes \in Seq(0..255), NEW char \in CharSet
  PROVE  /\ Sent(bytes, char) \in Seq(Item)
         /\ Len(Sent(bytes, char)) = Len(bytes)
         /\ \A i \in 1..Len(bytes) :
              /\ Sent(bytes, char)[i].byte = bytes[i]
              /\ Sent(bytes, char)[i].char = IF i = Len(bytes) THEN char ELSE NoChar
<1>1. Len(bytes) \in Nat /\ \A i \in 1..Len(bytes) : bytes[i] \in 0..255
  BY LenProperties, ElementOfSeq
<1>2. \A i \in 1..Len(bytes) :
        [byte |-> bytes[i], char |-> IF i = Len(bytes) THEN char ELSE NoChar] \in Item
  BY <1>1 DEF Item, CharSet
<1>3. Sent(bytes, char) \in [1..Len(bytes) -> Item]
  BY <1>2 DEF Sent
<1>4. Sent(bytes, char) \in Seq(Item) /\ Len(Sent(bytes, char)) = Len(bytes)
  BY <1>1, <1>3, SeqDef
<1>5. \A i \in 1..Len(bytes) :
         /\ Sent(bytes, char)[i].byte = bytes[i]
         /\ Sent(bytes, char)[i].char = IF i = Len(bytes) THEN char ELSE NoChar
  BY DEF Sent
<1> QED
  BY <1>4, <1>5

(* The run of the driver over the bytes of one key. *)
Run(f, bytes, char) ==
  /\ f \in [1..Len(bytes) + 1 -> SUBSET Mods]
  /\ \A i \in 1..Len(bytes) :
       /\ f[i + 1] = After(f[i], bytes[i])
       /\ (IF i = Len(bytes) THEN char ELSE NoChar) = Shown(f[i], bytes[i])

(* Such a run is one that Leads asks for. *)
LEMMA RunLeads ==
  ASSUME NEW bytes \in Seq(0..255), NEW char \in CharSet, NEW f, Run(f, bytes, char)
  PROVE  Leads(f[1], Sent(bytes, char), f[Len(bytes) + 1])
<1>1. /\ Len(Sent(bytes, char)) = Len(bytes)
      /\ \A i \in 1..Len(bytes) :
              /\ Sent(bytes, char)[i].byte = bytes[i]
              /\ Sent(bytes, char)[i].char = IF i = Len(bytes) THEN char ELSE NoChar
  BY SentSeq
<1>2. \A i \in 1..Len(bytes) : Driven(f[i], Sent(bytes, char)[i], f[i + 1])
  BY <1>1 DEF Run, Driven
<1> QED
  BY <1>1, <1>2 DEF Run, Leads

(* A key that sends one byte. *)
LEMMA OneByte ==
  ASSUME NEW T \in SUBSET Mods, NEW b \in 0..255, After(T, b) \in SUBSET Mods,
         Shown(T, b) \in CharSet
  PROVE  /\ <<b>> \in Seq(0..255)
         /\ Leads(T, Sent(<<b>>, Shown(T, b)), After(T, b))
<1> DEFINE U == After(T, b)
<1> DEFINE f == [i \in 1..2 |-> IF i = 1 THEN T ELSE U]
<1>1. <<b>> \in Seq(0..255) /\ Len(<<b>>) = 1 /\ <<b>>[1] = b
  OBVIOUS
<1>2. f[1] = T /\ f[2] = U /\ f \in [1..2 -> SUBSET Mods]
  OBVIOUS
<1> HIDE DEF f, U
<1>3. Run(f, <<b>>, Shown(T, b))
  BY <1>1, <1>2 DEF Run, U
<1>4. Leads(f[1], Sent(<<b>>, Shown(T, b)), f[Len(<<b>>) + 1])
  BY <1>1, <1>3, RunLeads
<1>5. Len(<<b>>) + 1 = 2
  BY <1>1
<1> QED
  BY <1>1, <1>2, <1>4, <1>5 DEF U

(* A key that sends a prefix and a byte. *)
LEMMA TwoBytes ==
  ASSUME NEW T \in SUBSET Mods, NEW b \in 0..255, After(T \cup {"ext"}, b) \in SUBSET Mods,
         Shown(T \cup {"ext"}, b) = NoChar
  PROVE  /\ <<\he0, b>> \in Seq(0..255)
         /\ Leads(T, Sent(<<\he0, b>>, NoChar), After(T \cup {"ext"}, b))
<1> DEFINE E == T \cup {"ext"}
<1> DEFINE U == After(E, b)
<1> DEFINE f == [i \in 1..3 |-> IF i = 1 THEN T ELSE IF i = 2 THEN E ELSE U]
<1>1. <<\he0, b>> \in Seq(0..255) /\ Len(<<\he0, b>>) = 2 /\ <<\he0, b>>[1] = \he0
      /\ <<\he0, b>>[2] = b
  OBVIOUS
<1>2. E \in SUBSET Mods /\ After(T, \he0) = E /\ Shown(T, \he0) = NoChar
  BY DEF Mods, After, Shown
<1> HIDE DEF E
<1>3. f[1] = T /\ f[2] = E /\ f[3] = U /\ f \in [1..3 -> SUBSET Mods]
  BY <1>2 DEF E
<1> HIDE DEF f, U
<1>4. Shown(E, b) = NoChar /\ U = After(E, b)
  BY DEF E, U
<1>5. Run(f, <<\he0, b>>, NoChar)
  <2>1. \A i \in 1..2 : i = 1 \/ i = 2
    OBVIOUS
  <2>2. \A i \in 1..2 :
       /\ f[i + 1] = After(f[i], <<\he0, b>>[i])
       /\ (IF i = 2 THEN NoChar ELSE NoChar) = Shown(f[i], <<\he0, b>>[i])
    BY <1>1, <1>2, <1>3, <1>4, <2>1
  <2> QED
    BY <1>1, <1>3, <2>2 DEF Run
<1>6. Leads(f[1], Sent(<<\he0, b>>, NoChar), f[Len(<<\he0, b>>) + 1])
  BY <1>1, <1>5, RunLeads, ZenonT(60) DEF CharSet
<1>7. Len(<<\he0, b>>) + 1 = 3
  BY <1>1
<1> QED
  BY <1>1, <1>3, <1>6, <1>7 DEF U, E

(* A prefixed code that no modifier has leaves the flags alone. *)
LEMMA ExtKeeps ==
  ASSUME NEW T \in SUBSET Mods, "ext" \notin T,
         NEW b \in 0..255 \ {\he0, \h1d, \h38, \h9d, \hb8}
  PROVE  /\ After(T \cup {"ext"}, b) = T
         /\ Shown(T \cup {"ext"}, b) = NoChar
         /\ After(T, \he0) = T \cup {"ext"}
         /\ Shown(T, \he0) = NoChar
         /\ T \cup {"ext"} \in SUBSET Mods
<1> DEFINE E == T \cup {"ext"}
<1>1. /\ E \in SUBSET Mods /\ "ext" \in E
      /\ "ctrl" \in E <=> "ctrl" \in T
      /\ "shift" \in E <=> "shift" \in T
      /\ "alt" \in E <=> "alt" \in T
      /\ "caps" \in E <=> "caps" \in T
  BY DEF Mods
<1> HIDE DEF E
<1>2. CodeOf(E, b) = \he000 + b /\ b \in 0..255 /\ b # \he0
  BY <1>1 DEF CodeOf
<1>6. After(T, \he0) = E /\ Shown(T, \he0) = NoChar
  BY DEF E, After, Shown
<1>3. Shown(E, b) = NoChar
  <2>1. b >= \h80 \/ ~ known(\he000 + b)
    BY DEF known, alt_r_make, ctrl_r_make
  <2> QED
    BY <1>2, <2>1 DEF Shown
<1>4. CASE b >= \h80
  <2>1. /\ CodeOf(E, b) - \h80 \notin {ctrl_l_make, ctrl_r_make}
        /\ CodeOf(E, b) - \h80 \notin {shift_l_make, shift_r_make}
        /\ CodeOf(E, b) - \h80 \notin {alt_l_make, alt_r_make}
    BY <1>2, <1>4 DEF ctrl_l_make, ctrl_r_make, shift_l_make, shift_r_make, alt_l_make, alt_r_make
  <2>2. /\ After(E, b) \subseteq Mods /\ "ext" \notin After(E, b)
        /\ "ctrl" \in After(E, b) <=> "ctrl" \in E
        /\ "shift" \in After(E, b) <=> "shift" \in E
        /\ "alt" \in After(E, b) <=> "alt" \in E
        /\ "caps" \in After(E, b) <=> "caps" \in E
    <3>1. /\ After(E, b) \subseteq Mods
          /\ "ext" \notin After(E, b)
          /\ "ctrl" \in After(E, b) <=>
               "ctrl" \in E /\ CodeOf(E, b) - \h80 \notin {ctrl_l_make, ctrl_r_make}
          /\ "shift" \in After(E, b) <=>
               "shift" \in E /\ CodeOf(E, b) - \h80 \notin {shift_l_make, shift_r_make}
          /\ "alt" \in After(E, b) <=>
               "alt" \in E /\ CodeOf(E, b) - \h80 \notin {alt_l_make, alt_r_make}
          /\ "caps" \in After(E, b) <=> "caps" \in E
      <4>1. E \in SUBSET Mods /\ b \in 0..255 /\ b # \he0 /\ b >= \h80
        BY <1>1, <1>2, <1>4
      <4> QED
        BY ONLY <4>1, AfterBreak
    <3> QED
      BY <3>1, <2>1
  <2>3. After(E, b) = T
    BY <1>1, <2>2, SameMods
  <2> QED
    BY <1>1, <1>3, <1>6, <2>3 DEF E
<1>5. CASE b < \h80
  <2>1. /\ \he000 + b \notin {ctrl_l_make, ctrl_r_make}
        /\ \he000 + b \notin {shift_l_make, shift_r_make}
        /\ \he000 + b \notin {alt_l_make, alt_r_make}
        /\ \he000 + b # caps_lock_make
    BY <1>5 DEF ctrl_l_make, ctrl_r_make, shift_l_make, shift_r_make, alt_l_make, alt_r_make,
                caps_lock_make
  <2>2. /\ After(E, b) \subseteq Mods /\ "ext" \notin After(E, b)
        /\ "ctrl" \in After(E, b) <=> "ctrl" \in E
        /\ "shift" \in After(E, b) <=> "shift" \in E
        /\ "alt" \in After(E, b) <=> "alt" \in E
        /\ "caps" \in After(E, b) <=> "caps" \in E
    <3>1. /\ After(E, b) \subseteq Mods
          /\ "ext" \notin After(E, b)
          /\ "ctrl" \in After(E, b) <=>
               "ctrl" \in E \/ CodeOf(E, b) \in {ctrl_l_make, ctrl_r_make}
          /\ "shift" \in After(E, b) <=>
               "shift" \in E \/ CodeOf(E, b) \in {shift_l_make, shift_r_make}
          /\ "alt" \in After(E, b) <=>
               "alt" \in E \/ CodeOf(E, b) \in {alt_l_make, alt_r_make}
          /\ "caps" \in After(E, b) <=>
               ((CodeOf(E, b) = caps_lock_make) <=> ("caps" \notin E))
      <4>1. E \in SUBSET Mods /\ b \in 0..255 /\ b < \h80
        BY <1>1, <1>2, <1>5
      <4> QED
        BY ONLY <4>1, AfterMake
    <3> QED
      BY ONLY <1>2, <2>1, <3>1
  <2>3. After(E, b) = T
    BY <1>1, <2>2, SameMods
  <2> QED
    BY <1>1, <1>3, <1>6, <2>3 DEF E
<1> QED
  BY <1>4, <1>5

(* A key that sends two such pairs, as Print Screen does. *)
LEMMA FourBytes ==
  ASSUME NEW T \in SUBSET Mods, "ext" \notin T,
         NEW b \in 0..255 \ {\he0, \h1d, \h38, \h9d, \hb8},
         NEW c \in 0..255 \ {\he0, \h1d, \h38, \h9d, \hb8}
  PROVE  /\ <<\he0, b, \he0, c>> \in Seq(0..255)
         /\ Leads(T, Sent(<<\he0, b, \he0, c>>, NoChar), T)
<1> DEFINE E == T \cup {"ext"}
<1> DEFINE f == [i \in 1..5 |-> IF i \in {2, 4} THEN E ELSE T]
<1> DEFINE q == <<\he0, b, \he0, c>>
<1>1. q \in Seq(0..255) /\ Len(q) = 4 /\ q[1] = \he0 /\ q[2] = b /\ q[3] = \he0 /\ q[4] = c
  OBVIOUS
<1>2. /\ After(T, \he0) = E /\ Shown(T, \he0) = NoChar /\ E \in SUBSET Mods
      /\ After(E, b) = T /\ Shown(E, b) = NoChar
      /\ After(E, c) = T /\ Shown(E, c) = NoChar
  BY ExtKeeps
<1> HIDE DEF E, q
<1>3. f[1] = T /\ f[2] = E /\ f[3] = T /\ f[4] = E /\ f[5] = T /\ f \in [1..5 -> SUBSET Mods]
  BY <1>2
<1> HIDE DEF f
<1>4. Run(f, q, NoChar)
  <2>1. \A i \in 1..4 : i = 1 \/ i = 2 \/ i = 3 \/ i = 4
    OBVIOUS
  <2>2. \A i \in 1..4 :
       /\ f[i + 1] = After(f[i], q[i])
       /\ (IF i = 4 THEN NoChar ELSE NoChar) = Shown(f[i], q[i])
    BY <1>1, <1>2, <1>3, <2>1
  <2> QED
    BY <1>1, <1>3, <2>2 DEF Run
<1>5. Leads(f[1], Sent(q, NoChar), f[Len(q) + 1])
  BY <1>1, <1>4, RunLeads, ZenonT(60) DEF CharSet
<1>6. Len(q) + 1 = 5
  BY <1>1
<1> QED
  BY <1>1, <1>3, <1>5, <1>6 DEF q

(* A byte that no modifier has, without a prefix. *)
LEMMA PlainKeeps ==
  ASSUME NEW T \in SUBSET Mods, "ext" \notin T,
         NEW b \in {\h45, \he1, \hc5}
  PROVE  After(T, b) = T /\ Shown(T, b) = NoChar
<1>1. CodeOf(T, b) = b /\ b \in 0..255 /\ b # \he0
  BY DEF CodeOf
<1>2. CASE b = \h45
  <2>1. ~ known(b)
    BY <1>2 DEF known, alt_r_make, ctrl_r_make
  <2>2. /\ b \notin {ctrl_l_make, ctrl_r_make} /\ b \notin {shift_l_make, shift_r_make}
        /\ b \notin {alt_l_make, alt_r_make} /\ b # caps_lock_make
    BY <1>2 DEF ctrl_l_make, ctrl_r_make, shift_l_make, shift_r_make, alt_l_make, alt_r_make,
                caps_lock_make
  <2>3. /\ After(T, b) \subseteq Mods /\ "ext" \notin After(T, b)
        /\ "ctrl" \in After(T, b) <=> "ctrl" \in T
        /\ "shift" \in After(T, b) <=> "shift" \in T
        /\ "alt" \in After(T, b) <=> "alt" \in T
        /\ "caps" \in After(T, b) <=> "caps" \in T
    BY <1>1, <1>2, <2>2, AfterMake
  <2> QED
    BY <1>1, <2>1, <2>3, SameMods DEF Shown
<1>3. CASE b \in {\he1, \hc5}
  <2>1. b >= \h80
    BY <1>3
  <2>2. /\ b - \h80 \notin {ctrl_l_make, ctrl_r_make} /\ b - \h80 \notin {shift_l_make, shift_r_make}
        /\ b - \h80 \notin {alt_l_make, alt_r_make}
    BY <1>3 DEF ctrl_l_make, ctrl_r_make, shift_l_make, shift_r_make, alt_l_make, alt_r_make
  <2>3. /\ After(T, b) \subseteq Mods /\ "ext" \notin After(T, b)
        /\ "ctrl" \in After(T, b) <=> "ctrl" \in T
        /\ "shift" \in After(T, b) <=> "shift" \in T
        /\ "alt" \in After(T, b) <=> "alt" \in T
        /\ "caps" \in After(T, b) <=> "caps" \in T
    BY <1>1, <2>1, <2>2, AfterBreak
  <2> QED
    BY <1>1, <2>1, <2>3, SameMods DEF Shown
<1> QED
  BY <1>2, <1>3

(* The control code inside Pause. *)
LEMMA PauseControl ==
  ASSUME NEW T \in SUBSET Mods, "ext" \notin T
  PROVE  /\ After(T, \h1d) = T \cup {"ctrl"} /\ Shown(T, \h1d) = NoChar
         /\ After(T, \h9d) = T \ {"ctrl"} /\ Shown(T, \h9d) = NoChar
         /\ T \cup {"ctrl"} \in SUBSET Mods /\ "ext" \notin T \cup {"ctrl"}
         /\ T \ {"ctrl"} \in SUBSET Mods /\ "ext" \notin T \ {"ctrl"}
<1>1. CodeOf(T, \h1d) = \h1d /\ CodeOf(T, \h9d) - \h80 = \h1d
  BY DEF CodeOf
<1>2. /\ T \cup {"ctrl"} \in SUBSET Mods /\ "ext" \notin T \cup {"ctrl"}
      /\ T \ {"ctrl"} \in SUBSET Mods /\ "ext" \notin T \ {"ctrl"}
  BY DEF Mods
<1>3. Shown(T, \h9d) = NoChar
  BY DEF Shown
<1>4. Shown(T, \h1d) = NoChar
  <2>1. \h1d % 256 \in Invisible
    BY DEF Invisible
  <2> QED
    BY <1>1, <2>1 DEF Shown
<1>5. /\ \h1d \in {ctrl_l_make, ctrl_r_make} /\ \h1d \notin {shift_l_make, shift_r_make}
      /\ \h1d \notin {alt_l_make, alt_r_make} /\ \h1d # caps_lock_make
  BY DEF ctrl_l_make, ctrl_r_make, shift_l_make, shift_r_make, alt_l_make, alt_r_make,
              caps_lock_make
<1>6. After(T, \h1d) = T \cup {"ctrl"}
  <2> DEFINE A == After(T, \h1d)
  <2>1. /\ A \subseteq Mods /\ "ext" \notin A
        /\ "ctrl" \in A
        /\ "shift" \in A <=> "shift" \in T
        /\ "alt" \in A <=> "alt" \in T
        /\ "caps" \in A <=> "caps" \in T
    BY <1>1, <1>5, AfterMake
  <2> HIDE DEF A
  <2>2. A = T \cup {"ctrl"}
    BY <1>2, <2>1, SameMods
  <2> QED
    BY <2>2 DEF A
<1>7. After(T, \h9d) = T \ {"ctrl"}
  <2> DEFINE A == After(T, \h9d)
  <2>1. /\ A \subseteq Mods /\ "ext" \notin A
        /\ "ctrl" \notin A
        /\ "shift" \in A <=> "shift" \in T
        /\ "alt" \in A <=> "alt" \in T
        /\ "caps" \in A <=> "caps" \in T
    BY <1>1, <1>5, AfterBreak
  <2> HIDE DEF A
  <2>2. A = T \ {"ctrl"}
    BY <1>2, <2>1, SameMods
  <2> QED
    BY <2>2 DEF A
<1> QED
  BY <1>2, <1>3, <1>4, <1>6, <1>7

(* Pause leaves control off, and every other flag as it was. *)
LEMMA PauseLeads ==
  ASSUME NEW T \in SUBSET Mods, "ext" \notin T
  PROVE  /\ Pause \in Seq(0..255)
         /\ Leads(T, Sent(Pause, NoChar), T \ {"ctrl"})
<1> DEFINE C == T \cup {"ctrl"}
<1> DEFINE D == T \ {"ctrl"}
<1> DEFINE f == [i \in 1..7 |-> IF i \in {1, 2} THEN T ELSE IF i \in {3, 4, 5} THEN C ELSE D]
<1>1. Pause \in Seq(0..255) /\ Len(Pause) = 6 /\ Pause[1] = \he1 /\ Pause[2] = \h1d
      /\ Pause[3] = \h45 /\ Pause[4] = \he1 /\ Pause[5] = \h9d /\ Pause[6] = \hc5
  BY DEF Pause
<1>2. /\ C \in SUBSET Mods /\ "ext" \notin C /\ D \in SUBSET Mods /\ "ext" \notin D
      /\ C \ {"ctrl"} = D
  BY PauseControl
<1> HIDE DEF C, D
<1>3. /\ After(T, \he1) = T /\ Shown(T, \he1) = NoChar
      /\ After(T, \h1d) = C /\ Shown(T, \h1d) = NoChar
      /\ After(C, \h45) = C /\ Shown(C, \h45) = NoChar
      /\ After(C, \he1) = C /\ Shown(C, \he1) = NoChar
      /\ After(C, \h9d) = D /\ Shown(C, \h9d) = NoChar
      /\ After(D, \hc5) = D /\ Shown(D, \hc5) = NoChar
  <2>1. After(T, \h1d) = C /\ Shown(T, \h1d) = NoChar
    BY PauseControl DEF C
  <2>2. After(C, \h9d) = D /\ Shown(C, \h9d) = NoChar
    BY <1>2, PauseControl
  <2> QED
    BY <1>2, <2>1, <2>2, PlainKeeps
<1>4. /\ f[1] = T /\ f[2] = T /\ f[3] = C /\ f[4] = C /\ f[5] = C /\ f[6] = D /\ f[7] = D
      /\ f \in [1..7 -> SUBSET Mods]
  BY <1>2
<1> HIDE DEF f
<1>5. Run(f, Pause, NoChar)
  <2>1. \A i \in 1..6 : i = 1 \/ i = 2 \/ i = 3 \/ i = 4 \/ i = 5 \/ i = 6
    OBVIOUS
  <2>2. \A i \in 1..6 :
       /\ f[i + 1] = After(f[i], Pause[i])
       /\ (IF i = 6 THEN NoChar ELSE NoChar) = Shown(f[i], Pause[i])
    BY <1>1, <1>3, <1>4, <2>1
  <2> QED
    BY <1>1, <1>4, <2>2 DEF Run
<1>6. Leads(f[1], Sent(Pause, NoChar), f[Len(Pause) + 1])
  BY <1>1, <1>5, RunLeads DEF CharSet
<1>7. Len(Pause) + 1 = 7
  BY <1>1
<1>8. Leads(T, Sent(Pause, NoChar), D)
  BY <1>4, <1>6, <1>7
<1> QED
  BY <1>1, <1>8 DEF D

(* Which keys the modifiers are, by their codes. *)
LEMMA KeyCodes ==
  ASSUME NEW c \in Codes
  PROVE  /\ <<c>> \in CtrlKeys <=> c = ctrl_l_make
         /\ <<c>> \in ShiftKeys <=> c \in {shift_l_make, shift_r_make}
         /\ <<c>> \in AltKeys <=> c = alt_l_make
         /\ <<c>> = CapsKey <=> c = caps_lock_make
         /\ <<\he0, c>> \in CtrlKeys <=> c = ctrl_l_make
         /\ <<\he0, c>> \notin ShiftKeys
         /\ <<\he0, c>> \in AltKeys <=> c = alt_l_make
         /\ <<\he0, c>> # CapsKey
         /\ <<c>> # PrintScreen /\ <<c>> # Pause
         /\ <<\he0, c>> # PrintScreen /\ <<\he0, c>> # Pause
         /\ c \in 1..\h7f /\ c # \h60
<1>0. c \in 1..\h7f /\ c # \h60
  BY DEF Codes
<1>1. /\ <<c>> \in CtrlKeys <=> c = ctrl_l_make
      /\ <<\he0, c>> \in CtrlKeys <=> c = ctrl_l_make
  BY <1>0 DEF CtrlKeys, ctrl_l_make
<1>2. /\ <<c>> \in ShiftKeys <=> c \in {shift_l_make, shift_r_make}
      /\ <<\he0, c>> \notin ShiftKeys
  BY <1>0 DEF ShiftKeys, shift_l_make, shift_r_make
<1>3. /\ <<c>> \in AltKeys <=> c = alt_l_make
      /\ <<\he0, c>> \in AltKeys <=> c = alt_l_make
  BY <1>0 DEF AltKeys, alt_l_make
<1>4. /\ <<c>> = CapsKey <=> c = caps_lock_make
      /\ <<\he0, c>> # CapsKey
  BY <1>0 DEF CapsKey, caps_lock_make
<1>5. /\ <<c>> # PrintScreen /\ <<c>> # Pause
      /\ <<\he0, c>> # PrintScreen /\ <<\he0, c>> # Pause
  BY DEF PrintScreen, Pause
<1> QED
  BY <1>0, <1>1, <1>2, <1>3, <1>4, <1>5

(* A code without a prefix is itself. *)
LEMMA PlainCode ==
  ASSUME NEW T \in SUBSET Mods, "ext" \notin T, NEW b
  PROVE  CodeOf(T, b) = b
BY DEF CodeOf

(* The character of a key with one byte, by its kind. *)
LEMMA MeantKinds ==
  ASSUME NEW k, NEW c, Len(k) = 1, k[1] = c
  PROVE  /\ c \in Letters /\ c \notin Symbols /\ c \notin OneColumn =>
              meant(k) = <<c, IF (down \cap ShiftKeys # {}) # caps THEN 1 ELSE 0>>
         /\ c \notin Letters /\ c \in Symbols /\ c \notin OneColumn =>
              meant(k) = <<c, IF down \cap ShiftKeys # {} THEN 1 ELSE 0>>
         /\ c \notin Letters /\ c \notin Symbols /\ c \in OneColumn => meant(k) = <<c, 0>>
         /\ c \notin Letters /\ c \notin Symbols /\ c \notin OneColumn => meant(k) = NoChar
BY Zenon DEF meant

(* The range of a code. *)
LEMMA CodeRange ==
  ASSUME NEW c \in Codes
  PROVE  c \in 1..\h7f /\ c \in 0..255 /\ c < \h80 /\ c # \h60
BY DEF Codes

(* When the flags agree with the keys held, a key without a prefix shows   *)
(* the character its typist means.                                         *)
LEMMA MeantShown ==
  ASSUME NEW T \in SUBSET Mods, Settled(T, down, caps), caps \in BOOLEAN, NEW c \in Codes
  PROVE  Shown(T, c) = meant(<<c>>) /\ Shown(T, c) \in CharSet
<1> DEFINE sh == down \cap ShiftKeys # {}
<1>0. /\ c \in 1..\h7f /\ Len(<<c>>) = 1 /\ <<c>>[1] = c
      /\ "shift" \in T <=> sh
      /\ "caps" \in T <=> caps
      /\ "ext" \notin T
  BY CodeRange DEF Settled
<1>1. /\ c \in Letters /\ c \notin Symbols /\ c \notin OneColumn =>
           meant(<<c>>) = <<c, IF sh # caps THEN 1 ELSE 0>>
      /\ c \notin Letters /\ c \in Symbols /\ c \notin OneColumn =>
           meant(<<c>>) = <<c, IF sh THEN 1 ELSE 0>>
      /\ c \notin Letters /\ c \notin Symbols /\ c \in OneColumn => meant(<<c>>) = <<c, 0>>
      /\ c \notin Letters /\ c \notin Symbols /\ c \notin OneColumn => meant(<<c>>) = NoChar
  BY <1>0, MeantKinds, Zenon
<1>2. CodeOf(T, c) = c
  BY <1>0, PlainCode
<1>3. CASE c \in 1..\h3a
  <2>1. known(c) /\ c % 256 = c /\ ~ (c >= \h80)
    BY <1>3, SmallMod DEF known
  <2>2. Shown(T, c) =
          IF c \in Invisible THEN NoChar
          ELSE <<c, IF /\ c \notin OneColumn
                       /\ IF symbol(c) THEN "shift" \in T
                          ELSE ("shift" \in T) <=> ("caps" \notin T)
                    THEN 1 ELSE 0>>
    BY <1>2, <2>1, ZenonT(60) DEF Shown
  <2> HIDE DEF sh
  <2>3. CASE c \in Letters
    <3>1. c \notin Invisible /\ c \notin OneColumn /\ ~ symbol(c)
      BY <2>3 DEF Letters, Invisible, OneColumn, symbol
    <3>2. meant(<<c>>) = <<c, IF sh # caps THEN 1 ELSE 0>>
      <4>1. c \notin Symbols
        BY <2>3 DEF Letters, Symbols
      <4> QED
        BY <1>1, <2>3, <3>1, <4>1, Zenon
    <3>3. (sh # caps) <=> (("shift" \in T) <=> ("caps" \notin T))
      BY <1>0, Zenon DEF sh
    <3>4. Shown(T, c) = <<c, IF ("shift" \in T) <=> ("caps" \notin T) THEN 1 ELSE 0>>
      BY <2>2, <3>1, Zenon
    <3>5. Shown(T, c) = meant(<<c>>)
      BY <3>2, <3>3, <3>4, Zenon
    <3>6. Shown(T, c) \in CharSet
      BY <1>0, <3>4 DEF CharSet
    <3> QED
      BY <3>5, <3>6
  <2>4. CASE c \in Symbols
    <3>1. c \notin Invisible /\ c \notin OneColumn /\ symbol(c)
      BY <2>4 DEF Symbols, Invisible, OneColumn, symbol
    <3>2. meant(<<c>>) = <<c, IF sh THEN 1 ELSE 0>>
      <4>1. c \notin Letters
        BY <2>4 DEF Letters, Symbols
      <4> QED
        BY <1>1, <2>4, <3>1, <4>1, Zenon
    <3>4. Shown(T, c) = <<c, IF "shift" \in T THEN 1 ELSE 0>>
      BY <2>2, <3>1, Zenon
    <3>5. Shown(T, c) = meant(<<c>>)
      BY <1>0, <3>2, <3>4, Zenon
    <3>6. Shown(T, c) \in CharSet
      BY <1>0, <3>4 DEF CharSet
    <3> QED
      BY <3>5, <3>6
  <2>5. CASE c \in OneColumn
    <3>1. c \notin Invisible /\ c \notin Letters /\ c \notin Symbols
      BY <2>5 DEF Symbols, Invisible, OneColumn, Letters
    <3>2. meant(<<c>>) = <<c, 0>>
      BY <1>1, <2>5, <3>1, Zenon
    <3>4. Shown(T, c) = <<c, 0>>
      BY <2>2, <2>5, <3>1, Zenon
    <3> QED
      BY <1>0, <3>2, <3>4 DEF CharSet
  <2>6. CASE c \in Invisible
    <3>1. c \notin OneColumn /\ c \notin Letters /\ c \notin Symbols
      BY <2>6 DEF Symbols, Invisible, OneColumn, Letters
    <3>2. meant(<<c>>) = NoChar
      BY <1>1, <3>1, Zenon
    <3>4. Shown(T, c) = NoChar
      BY <2>2, <2>6, <3>1, Zenon
    <3> QED
      BY <3>2, <3>4 DEF CharSet
  <2> QED
    BY <1>3, <2>3, <2>4, <2>5, <2>6 DEF Letters, Symbols, OneColumn, Invisible
<1>4. CASE c > \h3a
  <2>1. ~ known(c)
    BY <1>0, <1>4 DEF known, alt_r_make, ctrl_r_make
  <2>2. c \notin OneColumn /\ c \notin Letters /\ c \notin Symbols
    BY <1>4, <1>0 DEF Symbols, OneColumn, Letters
  <2>3. meant(<<c>>) = NoChar
    BY <1>1, <2>2, Zenon
  <2>4. Shown(T, c) = NoChar
    BY <1>2, <2>1, Zenon DEF Shown
  <2> QED
    BY <2>3, <2>4 DEF CharSet
<1> QED
  BY <1>0, <1>3, <1>4

(* Other keys have no character. *)
LEMMA MeantNothing ==
  ASSUME NEW k, Len(k) # 1
  PROVE  meant(k) = NoChar
BY Zenon DEF meant

(* Agreement when a key is added to those held. *)
LEMMA SettledAdd ==
  ASSUME NEW T, NEW A, NEW d, NEW cp, NEW cq, NEW k, Settled(T, d, cp),
         "ctrl" \in A => "ctrl" \in T \/ k \in CtrlKeys,
         "alt" \in A => "alt" \in T \/ k \in AltKeys,
         "shift" \in A <=> "shift" \in T \/ k \in ShiftKeys,
         "caps" \in A <=> cq, "ext" \notin A
  PROVE  Settled(A, d \cup {k}, cq)
<1>1. "ctrl" \in A => (d \cup {k}) \cap CtrlKeys # {}
  BY DEF Settled
<1>2. "alt" \in A => (d \cup {k}) \cap AltKeys # {}
  BY DEF Settled
<1>3. "shift" \in A <=> (d \cup {k}) \cap ShiftKeys # {}
  BY DEF Settled
<1> QED
  BY <1>1, <1>2, <1>3, Zenon DEF Settled

(* Agreement when a key is removed from those held. *)
LEMMA SettledRemove ==
  ASSUME NEW T, NEW A, NEW d, NEW cp, NEW k, Settled(T, d, cp),
         ~ ({<<shift_l_make>>, <<shift_r_make>>} \subseteq d), k \in d,
         "ctrl" \in A => "ctrl" \in T /\ k \notin CtrlKeys,
         "alt" \in A => "alt" \in T /\ k \notin AltKeys,
         "shift" \in A <=> "shift" \in T /\ k \notin ShiftKeys,
         "caps" \in A <=> "caps" \in T, "ext" \notin A
  PROVE  Settled(A, d \ {k}, cp)
<1>1. "ctrl" \in A => (d \ {k}) \cap CtrlKeys # {}
  BY DEF Settled
<1>2. "alt" \in A => (d \ {k}) \cap AltKeys # {}
  BY DEF Settled
<1>3. "shift" \in A <=> (d \ {k}) \cap ShiftKeys # {}
  <2>1. CASE k \notin ShiftKeys
    BY <2>1 DEF Settled
  <2>2. CASE k \in ShiftKeys
    <3>1. (d \ {k}) \cap ShiftKeys = {}
      <4> DEFINE l == <<shift_l_make>>
      <4> DEFINE r == <<shift_r_make>>
      <4>1. ShiftKeys = {l, r} /\ ~ ({l, r} \subseteq d)
        BY DEF ShiftKeys
      <4> HIDE DEF l, r
      <4> QED
        BY <4>1, <2>2
    <3> QED
      BY <2>2, <3>1
  <2> QED
    BY <2>1, <2>2
<1> QED
  BY <1>1, <1>2, <1>3, Zenon DEF Settled

(* Pressing a key without a prefix. *)
LEMMA SettledMake ==
  ASSUME NEW T \in SUBSET Mods, NEW d, NEW cp \in BOOLEAN, Settled(T, d, cp), NEW c \in Codes,
         NEW cq \in BOOLEAN, cq <=> (cp <=> (c # caps_lock_make))
  PROVE  /\ After(T, c) \in SUBSET Mods
         /\ Settled(After(T, c), d \cup {<<c>>}, cq)
<1> DEFINE A == After(T, c)
<1>0. c \in 0..255 /\ c < \h80 /\ "ext" \notin T
  BY CodeRange DEF Settled
<1>1. CodeOf(T, c) = c
  BY <1>0, PlainCode
<1>2. /\ A \subseteq Mods
      /\ "ext" \notin A
      /\ "ctrl" \in A <=> "ctrl" \in T \/ c \in {ctrl_l_make, ctrl_r_make}
      /\ "shift" \in A <=> "shift" \in T \/ c \in {shift_l_make, shift_r_make}
      /\ "alt" \in A <=> "alt" \in T \/ c \in {alt_l_make, alt_r_make}
      /\ "caps" \in A <=> ((c = caps_lock_make) <=> ("caps" \notin T))
  <2>1. /\ A \subseteq Mods
        /\ "ext" \notin A
        /\ "ctrl" \in A <=> "ctrl" \in T \/ CodeOf(T, c) \in {ctrl_l_make, ctrl_r_make}
        /\ "shift" \in A <=> "shift" \in T \/ CodeOf(T, c) \in {shift_l_make, shift_r_make}
        /\ "alt" \in A <=> "alt" \in T \/ CodeOf(T, c) \in {alt_l_make, alt_r_make}
        /\ "caps" \in A <=> ((CodeOf(T, c) = caps_lock_make) <=> ("caps" \notin T))
    <3>1. T \in SUBSET Mods
      OBVIOUS
    <3> QED
      BY ONLY <3>1, <1>0, AfterMake
  <2> HIDE DEF A
  <2> QED
    BY <2>1, <1>1
<1>3. c # ctrl_r_make /\ c # alt_r_make
  BY <1>0 DEF ctrl_r_make, alt_r_make
<1> HIDE DEF A
<1>4. /\ <<c>> \in CtrlKeys <=> c = ctrl_l_make
      /\ <<c>> \in ShiftKeys <=> c \in {shift_l_make, shift_r_make}
      /\ <<c>> \in AltKeys <=> c = alt_l_make
  BY KeyCodes, ZenonT(60)
<1> DEFINE k == <<c>>
<1> HIDE DEF k
<1>5. /\ "ctrl" \in A => "ctrl" \in T \/ k \in CtrlKeys
      /\ "alt" \in A => "alt" \in T \/ k \in AltKeys
      /\ "shift" \in A <=> "shift" \in T \/ k \in ShiftKeys
  BY <1>2, <1>3, <1>4, Zenon DEF k
<1>6. "caps" \in A <=> cq
  BY <1>2, Zenon DEF Settled
<1>7. Settled(A, d \cup {k}, cq)
  BY <1>2, <1>5, <1>6, SettledAdd, Zenon
<1> QED
  BY <1>2, <1>7 DEF k, A

(* Pressing a key with a prefix. *)
LEMMA SettledExtMake ==
  ASSUME NEW T \in SUBSET Mods, NEW d, NEW cp, Settled(T, d, cp), NEW c \in Codes
  PROVE  /\ After(T \cup {"ext"}, c) \in SUBSET Mods
         /\ Settled(After(T \cup {"ext"}, c), d \cup {<<\he0, c>>}, cp)
         /\ Shown(T \cup {"ext"}, c) = NoChar
<1> DEFINE E == T \cup {"ext"}
<1> DEFINE A == After(E, c)
<1>0. c \in 0..255 /\ c < \h80 /\ "ext" \notin T
  BY CodeRange DEF Settled
<1>1. /\ E \in SUBSET Mods /\ "ext" \in E
      /\ "ctrl" \in E <=> "ctrl" \in T
      /\ "shift" \in E <=> "shift" \in T
      /\ "alt" \in E <=> "alt" \in T
      /\ "caps" \in E <=> "caps" \in T
  BY DEF Mods
<1> HIDE DEF E
<1>2. CodeOf(E, c) = \he000 + c
  BY <1>1 DEF CodeOf
<1>3. /\ A \subseteq Mods
      /\ "ext" \notin A
      /\ "ctrl" \in A <=> "ctrl" \in E \/ CodeOf(E, c) \in {ctrl_l_make, ctrl_r_make}
      /\ "shift" \in A <=> "shift" \in E \/ CodeOf(E, c) \in {shift_l_make, shift_r_make}
      /\ "alt" \in A <=> "alt" \in E \/ CodeOf(E, c) \in {alt_l_make, alt_r_make}
      /\ "caps" \in A <=> ((CodeOf(E, c) = caps_lock_make) <=> ("caps" \notin E))
  BY ONLY <1>0, <1>1, AfterMake, ZenonT(60)
<1>4. /\ CodeOf(E, c) \in {ctrl_l_make, ctrl_r_make} <=> c = ctrl_l_make
      /\ CodeOf(E, c) \notin {shift_l_make, shift_r_make}
      /\ CodeOf(E, c) \in {alt_l_make, alt_r_make} <=> c = alt_l_make
      /\ CodeOf(E, c) # caps_lock_make
  BY <1>0, <1>2 DEF ctrl_l_make, ctrl_r_make, shift_l_make, shift_r_make, alt_l_make, alt_r_make,
                caps_lock_make
<1> HIDE DEF A
<1> DEFINE k == <<\he0, c>>
<1>5. /\ k \in CtrlKeys <=> c = ctrl_l_make
      /\ k \notin ShiftKeys
      /\ k \in AltKeys <=> c = alt_l_make
  BY KeyCodes, ZenonT(60)
<1> HIDE DEF k
<1>6. /\ "ctrl" \in A => "ctrl" \in T \/ k \in CtrlKeys
      /\ "alt" \in A => "alt" \in T \/ k \in AltKeys
      /\ "shift" \in A <=> "shift" \in T \/ k \in ShiftKeys
  BY <1>1, <1>3, <1>4, <1>5, Zenon
<1>7. "caps" \in A <=> cp
  BY <1>1, <1>3, <1>4, Zenon DEF Settled
<1>8. Shown(E, c) = NoChar
  <2>1. CASE c \in {\h1d, \h38}
    <3>1. CodeOf(E, c) % 256 \in Invisible
      BY <1>2, <2>1 DEF Invisible
    <3> QED
      BY <3>1, Zenon DEF Shown
  <2>2. CASE c \notin {\h1d, \h38}
    <3>1. ~ known(CodeOf(E, c))
      BY <1>0, <1>2, <2>2 DEF known, alt_r_make, ctrl_r_make
    <3> QED
      BY <3>1, Zenon DEF Shown
  <2> QED
    BY <2>1, <2>2
<1>9. Settled(A, d \cup {k}, cp)
  BY <1>3, <1>6, <1>7, SettledAdd, Zenon
<1> QED
  BY <1>3, <1>8, <1>9 DEF k, A, E

(* Releasing a key without a prefix. *)
LEMMA SettledBreak ==
  ASSUME NEW T \in SUBSET Mods, NEW d, NEW cp, Settled(T, d, cp), NEW c \in Codes,
         ~ ({<<shift_l_make>>, <<shift_r_make>>} \subseteq d), <<c>> \in d
  PROVE  /\ c + \h80 \in 0..255
         /\ After(T, c + \h80) \in SUBSET Mods
         /\ Settled(After(T, c + \h80), d \ {<<c>>}, cp)
         /\ Shown(T, c + \h80) = NoChar
<1> DEFINE b == c + \h80
<1> DEFINE A == After(T, b)
<1>0. b \in 0..255 /\ b # \he0 /\ b >= \h80 /\ "ext" \notin T /\ b - \h80 = c
  BY CodeRange DEF Settled
<1> HIDE DEF b
<1>1. CodeOf(T, b) - \h80 = c
  BY <1>0, PlainCode
<1>2. /\ A \subseteq Mods
      /\ "ext" \notin A
      /\ "ctrl" \in A <=> "ctrl" \in T /\ c \notin {ctrl_l_make, ctrl_r_make}
      /\ "shift" \in A <=> "shift" \in T /\ c \notin {shift_l_make, shift_r_make}
      /\ "alt" \in A <=> "alt" \in T /\ c \notin {alt_l_make, alt_r_make}
      /\ "caps" \in A <=> "caps" \in T
  <2>1. /\ A \subseteq Mods
        /\ "ext" \notin A
        /\ "ctrl" \in A <=> "ctrl" \in T /\ CodeOf(T, b) - \h80 \notin {ctrl_l_make, ctrl_r_make}
        /\ "shift" \in A <=> "shift" \in T /\ CodeOf(T, b) - \h80 \notin {shift_l_make, shift_r_make}
        /\ "alt" \in A <=> "alt" \in T /\ CodeOf(T, b) - \h80 \notin {alt_l_make, alt_r_make}
        /\ "caps" \in A <=> "caps" \in T
    <3>1. T \in SUBSET Mods
      OBVIOUS
    <3> QED
      BY ONLY <3>1, <1>0, AfterBreak
  <2> HIDE DEF A
  <2> QED
    BY <2>1, <1>1
<1> DEFINE k == <<c>>
<1>4. /\ k \in CtrlKeys <=> c = ctrl_l_make
      /\ k \in ShiftKeys <=> c \in {shift_l_make, shift_r_make}
      /\ k \in AltKeys <=> c = alt_l_make
      /\ k \in d
  BY KeyCodes, ZenonT(60)
<1> HIDE DEF k, A
<1>5. /\ "ctrl" \in A => "ctrl" \in T /\ k \notin CtrlKeys
      /\ "alt" \in A => "alt" \in T /\ k \notin AltKeys
      /\ "shift" \in A <=> "shift" \in T /\ k \notin ShiftKeys
  BY <1>2, <1>4, Zenon
<1>6. Settled(A, d \ {k}, cp)
  BY <1>2, <1>4, <1>5, SettledRemove, Zenon
<1>7. Shown(T, b) = NoChar
  BY <1>0, Zenon DEF Shown
<1> QED
  BY <1>0, <1>2, <1>6, <1>7 DEF k, A, b

(* Releasing a key with a prefix. *)
LEMMA SettledExtBreak ==
  ASSUME NEW T \in SUBSET Mods, NEW d, NEW cp, Settled(T, d, cp), NEW c \in Codes,
         ~ ({<<shift_l_make>>, <<shift_r_make>>} \subseteq d), <<\he0, c>> \in d
  PROVE  /\ c + \h80 \in 0..255
         /\ After(T \cup {"ext"}, c + \h80) \in SUBSET Mods
         /\ Settled(After(T \cup {"ext"}, c + \h80), d \ {<<\he0, c>>}, cp)
         /\ Shown(T \cup {"ext"}, c + \h80) = NoChar
<1> DEFINE b == c + \h80
<1> DEFINE E == T \cup {"ext"}
<1> DEFINE A == After(E, b)
<1>0. b \in 0..255 /\ b # \he0 /\ b >= \h80 /\ b - \h80 = c
  BY CodeRange
<1>1. /\ E \in SUBSET Mods /\ "ext" \in E
      /\ "ctrl" \in E <=> "ctrl" \in T
      /\ "shift" \in E <=> "shift" \in T
      /\ "alt" \in E <=> "alt" \in T
      /\ "caps" \in E <=> "caps" \in T
  BY DEF Mods
<1> HIDE DEF E, b
<1>2. CodeOf(E, b) - \h80 = \he000 + c
  <2>1. CodeOf(E, b) = \he000 + b
    BY <1>1 DEF CodeOf
  <2> QED
    BY <2>1, <1>0
<1>3. /\ A \subseteq Mods
      /\ "ext" \notin A
      /\ "ctrl" \in A <=> "ctrl" \in E /\ CodeOf(E, b) - \h80 \notin {ctrl_l_make, ctrl_r_make}
      /\ "shift" \in A <=> "shift" \in E /\ CodeOf(E, b) - \h80 \notin {shift_l_make, shift_r_make}
      /\ "alt" \in A <=> "alt" \in E /\ CodeOf(E, b) - \h80 \notin {alt_l_make, alt_r_make}
      /\ "caps" \in A <=> "caps" \in E
  BY ONLY <1>1, <1>0, AfterBreak
<1>4. /\ CodeOf(E, b) - \h80 \in {ctrl_l_make, ctrl_r_make} <=> c = ctrl_l_make
      /\ CodeOf(E, b) - \h80 \notin {shift_l_make, shift_r_make}
      /\ CodeOf(E, b) - \h80 \in {alt_l_make, alt_r_make} <=> c = alt_l_make
  <2> DEFINE x == CodeOf(E, b) - \h80
  <2>1. x = \he000 + c /\ c \in 1..\h7f
    BY <1>2, CodeRange
  <2> HIDE DEF x
  <2>2. /\ x \in {ctrl_l_make, ctrl_r_make} <=> c = ctrl_l_make
        /\ x \notin {shift_l_make, shift_r_make}
        /\ x \in {alt_l_make, alt_r_make} <=> c = alt_l_make
    BY <2>1 DEF ctrl_l_make, ctrl_r_make, shift_l_make, shift_r_make, alt_l_make, alt_r_make
  <2> QED
    BY <2>2 DEF x
<1> DEFINE k == <<\he0, c>>
<1>5. /\ k \in CtrlKeys <=> c = ctrl_l_make
      /\ k \notin ShiftKeys
      /\ k \in AltKeys <=> c = alt_l_make
      /\ k \in d
  BY KeyCodes, ZenonT(60)
<1> HIDE DEF k, A
<1>6. /\ "ctrl" \in A => "ctrl" \in T /\ k \notin CtrlKeys
      /\ "alt" \in A => "alt" \in T /\ k \notin AltKeys
      /\ "shift" \in A <=> "shift" \in T /\ k \notin ShiftKeys
      /\ "caps" \in A <=> "caps" \in T
  BY <1>1, <1>3, <1>4, <1>5, Zenon
<1>7. Settled(A, d \ {k}, cp)
  BY <1>3, <1>5, <1>6, SettledRemove, Zenon
<1>8. Shown(E, b) = NoChar
  BY <1>0, Zenon DEF Shown
<1> QED
  BY <1>0, <1>3, <1>7, <1>8 DEF k, A, b, E

(* The keyboard's three steps, whatever the key: the bytes sent lead the   *)
(* driver from a state that agrees with the keys held to one that agrees   *)
(* with the keys held afterwards.                                          *)
Leaving(T, bytes, char, d, c) ==
  /\ bytes \in Seq(0..255)
  /\ char \in CharSet
  /\ \E U \in SUBSET Mods : Leads(T, Sent(bytes, char), U) /\ Settled(U, d, c)

(* What a key can be. *)
LEMMA KeyKinds ==
  ASSUME NEW k \in Keys
  PROVE  \/ \E c \in Codes : k = <<c>>
         \/ \E c \in Codes : k = <<\he0, c>>
         \/ k = PrintScreen
         \/ k = Pause
BY KeyboardAssumption

(* A press or a repeat leaves the flags in agreement. *)
LEMMA MakeLeaves ==
  ASSUME NEW T \in SUBSET Mods, Settled(T, down, caps), caps \in BOOLEAN, NEW k \in Keys,
         NEW d, d = IF k = Pause THEN down ELSE down \cup {k},
         NEW cq, cq = (caps # (k = CapsKey))
  PROVE  Leaving(T, k, meant(k), d, cq)
<1>0. "ext" \notin T /\ cq \in BOOLEAN
  BY DEF Settled
<1>1. CASE \E c \in Codes : k = <<c>>
  <2>1. PICK c \in Codes : k = <<c>>
    BY <1>1
  <2>2. Shown(T, c) = meant(k) /\ Shown(T, c) \in CharSet
    BY <2>1, MeantShown
  <2>3. k # Pause /\ (k = CapsKey <=> c = caps_lock_make)
    BY <2>1, KeyCodes, ZenonT(60)
  <2>4. cq <=> (caps <=> (c # caps_lock_make))
    BY <2>3, Zenon
  <2>5. After(T, c) \in SUBSET Mods /\ Settled(After(T, c), down \cup {<<c>>}, cq)
    <3>1. T \in SUBSET Mods /\ caps \in BOOLEAN /\ Settled(T, down, caps) /\ c \in Codes
      OBVIOUS
    <3>2. cq \in BOOLEAN
      BY <1>0
    <3> QED
      BY ONLY <3>1, <3>2, <2>4, SettledMake, ZenonT(60)
  <2>6. <<c>> \in Seq(0..255) /\ Leads(T, Sent(<<c>>, Shown(T, c)), After(T, c))
    BY <2>2, <2>5, CodeRange, OneByte
  <2>7. d = down \cup {<<c>>}
    BY <2>1, <2>3
  <2> QED
    BY <2>1, <2>2, <2>5, <2>6, <2>7 DEF Leaving
<1>2. CASE \E c \in Codes : k = <<\he0, c>>
  <2>1. PICK c \in Codes : k = <<\he0, c>>
    BY <1>2
  <2>2. meant(k) = NoChar
    <3>1. Len(k) # 1
      BY <2>1
    <3> QED
      BY <3>1, MeantNothing
  <2>3. k # Pause /\ k # CapsKey
    BY <2>1, KeyCodes, ZenonT(60)
  <2>4. cq = caps
    BY <2>3, Zenon
  <2>5. /\ After(T \cup {"ext"}, c) \in SUBSET Mods
        /\ Settled(After(T \cup {"ext"}, c), down \cup {<<\he0, c>>}, caps)
        /\ Shown(T \cup {"ext"}, c) = NoChar
    BY SettledExtMake, Zenon
  <2>6. /\ <<\he0, c>> \in Seq(0..255)
        /\ Leads(T, Sent(<<\he0, c>>, NoChar), After(T \cup {"ext"}, c))
    BY <2>5, CodeRange, TwoBytes
  <2>7. d = down \cup {<<\he0, c>>}
    BY <2>1, <2>3
  <2> QED
    BY <2>1, <2>2, <2>4, <2>5, <2>6, <2>7 DEF Leaving, CharSet
<1>3. CASE k = PrintScreen
  <2>1. k = <<\he0, \h2a, \he0, \h37>> /\ k # Pause /\ k # CapsKey /\ Len(k) # 1
        /\ k \notin CtrlKeys /\ k \notin AltKeys /\ k \notin ShiftKeys
    BY <1>3 DEF PrintScreen, Pause, CapsKey, CtrlKeys, AltKeys, ShiftKeys
  <2>2. meant(k) = NoChar /\ cq = caps
    BY <2>1, MeantNothing, ZenonT(60)
  <2>3. <<\he0, \h2a, \he0, \h37>> \in Seq(0..255) /\ Leads(T, Sent(<<\he0, \h2a, \he0, \h37>>, NoChar), T)
    BY <1>0, FourBytes
  <2>4. d = down \cup {k}
    BY <2>1
  <2>5. Settled(T, down \cup {k}, caps)
    <3>1. "caps" \in T <=> caps
      BY DEF Settled
    <3>2. /\ "ctrl" \in T => "ctrl" \in T \/ k \in CtrlKeys
          /\ "alt" \in T => "alt" \in T \/ k \in AltKeys
          /\ "shift" \in T <=> "shift" \in T \/ k \in ShiftKeys
      BY <2>1, Zenon
    <3> QED
      BY <1>0, <3>1, <3>2, SettledAdd, Zenon
  <2> QED
    BY <2>1, <2>2, <2>3, <2>4, <2>5 DEF Leaving, CharSet
<1>4. CASE k = Pause
  <2>1. k # CapsKey /\ Len(k) # 1
    BY <1>4 DEF Pause, CapsKey
  <2>2. meant(k) = NoChar /\ cq = caps /\ d = down
    BY <1>4, <2>1, MeantNothing, Zenon
  <2>3. Pause \in Seq(0..255) /\ Leads(T, Sent(Pause, NoChar), T \ {"ctrl"})
    BY <1>0, PauseLeads
  <2>4. Settled(T \ {"ctrl"}, down, caps) /\ T \ {"ctrl"} \in SUBSET Mods
    BY DEF Settled
  <2> QED
    BY <1>4, <2>2, <2>3, <2>4 DEF Leaving, CharSet
<1> QED
  BY <1>1, <1>2, <1>3, <1>4, KeyKinds

(* A release leaves the flags in agreement. *)
LEMMA BreakLeaves ==
  ASSUME NEW T \in SUBSET Mods, Settled(T, down, caps), NEW k \in Keys, k \in down, k # Pause,
         ~ ({<<shift_l_make>>, <<shift_r_make>>} \subseteq down)
  PROVE  Leaving(T, released(k), NoChar, down \ {k}, caps)
<1>0. "ext" \notin T
  BY DEF Settled
<1>1. CASE \E c \in Codes : k = <<c>>
  <2>1. PICK c \in Codes : k = <<c>>
    BY <1>1
  <2>2. k # PrintScreen
    BY <2>1, KeyCodes, Zenon
  <2>3. released(k) = <<c + \h80>>
    <3>1. Len(k) = 1 /\ k[1] = c
      BY <2>1
    <3>2. released(k) = [i \in 1..1 |-> c + \h80]
      BY <2>2, <3>1 DEF released
    <3> QED
      BY <3>2
  <2>4. /\ c + \h80 \in 0..255
        /\ After(T, c + \h80) \in SUBSET Mods
        /\ Settled(After(T, c + \h80), down \ {<<c>>}, caps)
        /\ Shown(T, c + \h80) = NoChar
    BY <2>1, SettledBreak, ZenonT(60)
  <2>5. <<c + \h80>> \in Seq(0..255) /\ Leads(T, Sent(<<c + \h80>>, NoChar), After(T, c + \h80))
    <3> DEFINE b == c + \h80
    <3> HIDE DEF b
    <3>1. b \in 0..255 /\ After(T, b) \in SUBSET Mods /\ Shown(T, b) = NoChar /\ Shown(T, b) \in CharSet
      BY <2>4 DEF b, CharSet
    <3>2. <<b>> \in Seq(0..255) /\ Leads(T, Sent(<<b>>, Shown(T, b)), After(T, b))
      BY <3>1, OneByte
    <3> QED
      BY <3>1, <3>2 DEF b
  <2> QED
    BY <2>1, <2>3, <2>4, <2>5 DEF Leaving, CharSet
<1>2. CASE \E c \in Codes : k = <<\he0, c>>
  <2>1. PICK c \in Codes : k = <<\he0, c>>
    BY <1>2
  <2>2. k # PrintScreen
    BY <2>1, KeyCodes, Zenon
  <2>3. released(k) = <<\he0, c + \h80>>
    <3>1. Len(k) = 2 /\ k[1] = \he0 /\ k[2] = c
      BY <2>1
    <3>2. released(k) = [i \in 1..2 |-> IF i = 2 THEN c + \h80 ELSE \he0]
      BY <2>2, <3>1 DEF released
    <3> QED
      BY <3>2
  <2>4. /\ c + \h80 \in 0..255
        /\ After(T \cup {"ext"}, c + \h80) \in SUBSET Mods
        /\ Settled(After(T \cup {"ext"}, c + \h80), down \ {<<\he0, c>>}, caps)
        /\ Shown(T \cup {"ext"}, c + \h80) = NoChar
    BY <2>1, SettledExtBreak, ZenonT(60)
  <2>5. /\ <<\he0, c + \h80>> \in Seq(0..255)
        /\ Leads(T, Sent(<<\he0, c + \h80>>, NoChar), After(T \cup {"ext"}, c + \h80))
    BY <2>4, TwoBytes
  <2> QED
    BY <2>1, <2>3, <2>4, <2>5, ZenonT(60) DEF Leaving, CharSet
<1>3. CASE k = PrintScreen
  <2>1. k \notin CtrlKeys /\ k \notin AltKeys /\ k \notin ShiftKeys
    BY <1>3 DEF PrintScreen, CtrlKeys, AltKeys, ShiftKeys
  <2>2. released(k) = <<\he0, \hb7, \he0, \haa>>
    BY <1>3 DEF released
  <2>3. <<\he0, \hb7, \he0, \haa>> \in Seq(0..255) /\ Leads(T, Sent(<<\he0, \hb7, \he0, \haa>>, NoChar), T)
    BY <1>0, FourBytes
  <2>4. Settled(T, down \ {k}, caps)
    BY <1>0, <2>1, SettledRemove, Zenon
  <2> QED
    BY <2>2, <2>3, <2>4 DEF Leaving, CharSet
<1> QED
  BY <1>1, <1>2, <1>3, KeyKinds

(* The last part of the invariant, with its state as parameters. *)
Agreed(S, P, d, c) == \E T \in SUBSET Mods : Leads(S, P, T) /\ Settled(T, d, c)

(* The type invariant, part by part. *)
LEMMA TypeParts ==
  KeyboardTypeOK <=>
    /\ FlagTypes /\ caps \in BOOLEAN
    /\ kbd_buf \in 0..Capacity
    /\ put \in CharSet
    /\ \A i \in DOMAIN port : port[i].byte \in 0..255
    /\ down \subseteq Keys
BY ZenonT(60) DEF KeyboardTypeOK, FlagTypes, CharSet

(* Sending the bytes of a key. *)
LEMMA SendAgrees ==
  ASSUME port \in Seq(Item), NEW bytes, NEW char, NEW d, NEW c, NEW S \in SUBSET Mods,
         NEW T \in SUBSET Mods, Leads(S, port, T), Leaving(T, bytes, char, d, c),
         send(bytes, char)
  PROVE  /\ port' \in Seq(Item)
         /\ Agreed(S, port', d, c)
<1>1. bytes \in Seq(0..255) /\ char \in CharSet
  BY DEF Leaving
<1>2. PICK U \in SUBSET Mods : Leads(T, Sent(bytes, char), U) /\ Settled(U, d, c)
  BY DEF Leaving
<1>3. port' = port \o Sent(bytes, char)
  BY Zenon DEF send, Sent
<1>4. Sent(bytes, char) \in Seq(Item)
  BY <1>1, SentSeq
<1>5. Leads(S, port \o Sent(bytes, char), U)
  BY <1>2, <1>4, LeadsTrans
<1>6. port' \in Seq(Item)
  BY <1>3, <1>4, ConcatProperties
<1> QED
  BY <1>2, <1>3, <1>5, <1>6 DEF Agreed

(* The bytes at the port are bytes. *)
LEMMA BytesTyped ==
  ASSUME NEW P \in Seq(Item)
  PROVE  \A i \in DOMAIN P : P[i].byte \in 0..255
<1>1. DOMAIN P = 1..Len(P)
  BY LenProperties
<1>2. \A i \in 1..Len(P) : P[i] \in Item
  BY ElementOfSeq
<1> QED
  BY <1>1, <1>2 DEF Item

(* Nothing is on, held or sent at first. *)
LEMMA KeyboardInitially == KeyboardInit => KeyboardInv
<1> SUFFICES ASSUME KeyboardInit PROVE KeyboardInv
  OBVIOUS
<1>1. port = <<>> /\ down = {} /\ caps = FALSE /\ FlagTypes /\ kbd_buf = 0 /\ put = NoChar
  BY DEF KeyboardInit, FlagTypes
<1>2. port \in Seq(Item)
  BY <1>1
<1>3. KeyboardTypeOK
  <2>1. kbd_buf \in 0..Capacity
    BY <1>1, KeyboardAssumption
  <2>2. \A i \in DOMAIN port : port[i].byte \in 0..255
    BY <1>2, BytesTyped
  <2>3. put \in CharSet /\ down \subseteq Keys /\ caps \in BOOLEAN
    BY <1>1 DEF CharSet
  <2> QED
    BY <1>1, <2>1, <2>2, <2>3, TypeParts
<1>4. On = {}
  BY DEF On, KeyboardInit
<1>5. Settled({}, down, caps)
  BY <1>1 DEF Settled
<1>6. Leads({}, port, {})
  BY <1>1, LeadsNone
<1>7. \E T \in SUBSET Mods : Leads(On, port, T) /\ Settled(T, down, caps)
  <2>1. {} \in SUBSET Mods
    OBVIOUS
  <2> QED
    BY <2>1, <1>4, <1>5, <1>6
<1>8. Pause \notin down /\ ~ ({<<shift_l_make>>, <<shift_r_make>>} \subseteq down)
  BY <1>1
<1> QED
  BY <1>2, <1>3, <1>7, <1>8 DEF KeyboardInv

(* An interrupt takes the first byte off the run, and puts the character   *)
(* meant by it into the buffer.                                            *)
LEMMA HandlerPreserves ==
  ASSUME KeyboardInv, intr_keyboard_handler
  PROVE  /\ KeyboardInv'
         /\ put' = IF kbd_buf < Capacity THEN Head(port).char ELSE NoChar
<1>1. /\ FlagTypes /\ caps \in BOOLEAN /\ kbd_buf \in 0..Capacity /\ down \subseteq Keys
      /\ port \in Seq(Item) /\ Pause \notin down
      /\ ~ ({<<shift_l_make>>, <<shift_r_make>>} \subseteq down)
  BY TypeParts DEF KeyboardInv
<1>2. PICK U \in SUBSET Mods : Leads(On, port, U) /\ Settled(U, down, caps)
  BY DEF KeyboardInv
<1>3. port # <<>> /\ port' = Tail(port) /\ down' = down /\ caps' = caps
  BY DEF intr_keyboard_handler, keys
<1>4. On \in SUBSET Mods
  BY OnMembers
<1>5. PICK T \in SUBSET Mods : Driven(On, Head(port), T) /\ Leads(T, Tail(port), U)
  BY <1>1, <1>2, <1>3, <1>4, LeadsTail
<1>6. Head(port) \in Item /\ Tail(port) \in Seq(Item) /\ Len(port) \in Nat
  BY <1>1, <1>3, HeadTailProperties, LenProperties
<1>7. /\ Head(port).byte \in 0..255 /\ Head(port).char \in CharSet
      /\ T = After(On, Head(port).byte) /\ Head(port).char = Shown(On, Head(port).byte)
  BY <1>5, <1>6 DEF Driven, Item, CharSet
<1>8. /\ FlagTypes'
      /\ On' = After(On, Head(port).byte)
      /\ put' = IF kbd_buf < Capacity THEN Shown(On, Head(port).byte) ELSE NoChar
      /\ kbd_buf' = IF kbd_buf < Capacity /\ Shown(On, Head(port).byte) # NoChar
                    THEN kbd_buf + 1 ELSE kbd_buf
  <2>1. kbd_buf \in Nat
    BY <1>1, KeyboardAssumption
  <2> QED
    BY <1>1, <1>6, <1>7, <2>1, HandlerDrives
<1>9. put' = (IF kbd_buf < Capacity THEN Head(port).char ELSE NoChar) /\ put' \in CharSet
  BY <1>7, <1>8 DEF CharSet
<1>10. kbd_buf' \in 0..Capacity
  BY <1>1, <1>8, KeyboardAssumption
<1>11. port' \in Seq(Item)
  BY <1>3, <1>6
<1>12. KeyboardTypeOK'
  <2>1. \A i \in DOMAIN port' : port'[i].byte \in 0..255
    BY <1>11, BytesTyped
  <2>2. caps' \in BOOLEAN /\ down' \subseteq Keys
    BY <1>1, <1>3
  <2> QED
    BY <1>8, <1>9, <1>10, <2>1, <2>2, Zenon DEF KeyboardTypeOK, FlagTypes, CharSet
<1>13. \E V \in SUBSET Mods : Leads(On', port', V) /\ Settled(V, down', caps')
  BY <1>2, <1>3, <1>5, <1>7, <1>8
<1> QED
  BY <1>1, <1>3, <1>9, <1>11, <1>12, <1>13 DEF KeyboardInv

(* The typist's steps extend the run. *)
LEMMA KeysPreserve ==
  ASSUME KeyboardInv, NEW k \in Keys, press(k) \/ repeat(k) \/ release(k)
  PROVE  KeyboardInv'
<1>1. /\ FlagTypes /\ caps \in BOOLEAN /\ kbd_buf \in 0..Capacity /\ down \subseteq Keys
      /\ port \in Seq(Item) /\ Pause \notin down
      /\ ~ ({<<shift_l_make>>, <<shift_r_make>>} \subseteq down)
  BY TypeParts DEF KeyboardInv
<1>2. PICK T \in SUBSET Mods : Leads(On, port, T) /\ Settled(T, down, caps)
  BY DEF KeyboardInv
<1>3. On \in SUBSET Mods
  BY OnMembers
<1>4. ASSUME NEW bytes, NEW char, send(bytes, char), Leaving(T, bytes, char, down', caps'),
             caps' \in BOOLEAN, down' \subseteq Keys, Pause \notin down',
             ~ ({<<shift_l_make>>, <<shift_r_make>>} \subseteq down')
      PROVE  KeyboardInv'
  <2>1. port' \in Seq(Item) /\ Agreed(On, port', down', caps')
    BY <1>1, <1>2, <1>3, <1>4, SendAgrees
  <2>2. put' = NoChar /\ kbd_buf' = kbd_buf /\ UNCHANGED flags
    BY <1>4 DEF send
  <2>3. On' = On /\ FlagTypes'
    BY <1>1, <2>2 DEF flags, On, FlagTypes
  <2>4. \A i \in DOMAIN port' : port'[i].byte \in 0..255
    BY <2>1, BytesTyped
  <2>5. put' \in CharSet /\ kbd_buf' \in 0..Capacity
    BY <1>1, <2>2 DEF CharSet
  <2>6. KeyboardTypeOK'
    BY <1>4, <2>3, <2>4, <2>5, Zenon DEF KeyboardTypeOK, FlagTypes, CharSet
  <2> QED
    BY <1>4, <2>1, <2>3, <2>6 DEF KeyboardInv, Agreed
<1>5. CASE press(k)
  <2>1. /\ down' = IF k = Pause THEN down ELSE down \cup {k}
        /\ caps' = (caps # (k = CapsKey))
        /\ send(k, meant(k))
        /\ k \in ShiftKeys => down \cap ShiftKeys = {}
    BY <1>5 DEF press
  <2>2. Leaving(T, k, meant(k), down', caps')
    BY <1>1, <1>2, <2>1, MakeLeaves
  <2>3. down' \subseteq Keys /\ Pause \notin down'
    BY <1>1, <2>1
  <2>4. caps' \in BOOLEAN
    BY <2>1
  <2>5. ~ ({<<shift_l_make>>, <<shift_r_make>>} \subseteq down')
    <3> DEFINE l == <<shift_l_make>>
    <3> DEFINE r == <<shift_r_make>>
    <3>1. ShiftKeys = {l, r} /\ ~ ({l, r} \subseteq down) /\ l # r
      BY <1>1 DEF ShiftKeys, shift_l_make, shift_r_make
    <3> HIDE DEF l, r
    <3>2. ~ ({l, r} \subseteq down')
      BY <2>1, <3>1
    <3> QED
      BY <3>2 DEF l, r
  <2> QED
    BY <1>4, <2>1, <2>2, <2>3, <2>4, <2>5
<1>6. CASE repeat(k)
  <2>1. /\ k \in down /\ down' = down
        /\ caps' = (caps # (k = CapsKey))
        /\ send(k, meant(k))
    BY <1>6 DEF repeat
  <2>2. k # Pause /\ down' = down \cup {k}
    BY <1>1, <2>1
  <2>3. Leaving(T, k, meant(k), down', caps')
    BY <1>1, <1>2, <2>1, <2>2, MakeLeaves
  <2>4. caps' \in BOOLEAN
    BY <2>1
  <2>5. /\ down' \subseteq Keys /\ Pause \notin down'
        /\ ~ ({<<shift_l_make>>, <<shift_r_make>>} \subseteq down')
    BY <1>1, <2>1
  <2> QED
    BY <1>4, <2>1, <2>3, <2>4, <2>5
<1>7. CASE release(k)
  <2>1. k \in down /\ down' = down \ {k} /\ caps' = caps /\ send(released(k), NoChar)
    BY <1>7 DEF release
  <2>2. k # Pause
    BY <1>1, <2>1
  <2>3. Leaving(T, released(k), NoChar, down', caps')
    BY <1>1, <1>2, <2>1, <2>2, BreakLeaves
  <2>4. /\ down' \subseteq Keys /\ Pause \notin down' /\ caps' \in BOOLEAN
        /\ ~ ({<<shift_l_make>>, <<shift_r_make>>} \subseteq down')
    BY <1>1, <2>1
  <2> QED
    BY <1>4, <2>1, <2>3, <2>4
<1> QED
  BY <1>5, <1>6, <1>7

(* Taking a character out of the buffer touches no flag and no key. *)
LEMMA GetcharPreserves ==
  ASSUME KeyboardInv, ioq_getchar \/ UNCHANGED keyboardVars
  PROVE  KeyboardInv'
<1>1. /\ FlagTypes /\ caps \in BOOLEAN /\ kbd_buf \in 0..Capacity /\ down \subseteq Keys
      /\ port \in Seq(Item) /\ Pause \notin down /\ put \in CharSet
      /\ ~ ({<<shift_l_make>>, <<shift_r_make>>} \subseteq down)
  BY TypeParts DEF KeyboardInv
<1>2. PICK T \in SUBSET Mods : Leads(On, port, T) /\ Settled(T, down, caps)
  BY DEF KeyboardInv
<1>3. UNCHANGED <<flags, port, keys>>
  BY DEF ioq_getchar, keyboardVars
<1>4. On' = On /\ FlagTypes' /\ port' = port /\ down' = down /\ caps' = caps
  BY <1>1, <1>3 DEF flags, keys, On, FlagTypes
<1>5. kbd_buf' \in 0..Capacity
  <2>1. CASE ioq_getchar
    BY <2>1, <1>1, KeyboardAssumption DEF ioq_getchar
  <2>2. CASE UNCHANGED keyboardVars
    BY <2>2, <1>1 DEF keyboardVars
  <2> QED
    BY <2>1, <2>2
<1>6. put' \in CharSet
  BY <1>1 DEF ioq_getchar, keyboardVars, CharSet
<1>7. KeyboardTypeOK'
  <2>1. \A i \in DOMAIN port' : port'[i].byte \in 0..255
    BY <1>1, <1>4, BytesTyped
  <2> QED
    BY <1>1, <1>4, <1>5, <1>6, <2>1, Zenon DEF KeyboardTypeOK, FlagTypes, CharSet
<1> QED
  BY <1>1, <1>2, <1>4, <1>7 DEF KeyboardInv

(* The bytes under way always lead the handler of IRQ 1 to flags that      *)
(* agree with the keys held.                                               *)
THEOREM KeyboardSafe == KeyboardSpec => []KeyboardInv
<1>1. KeyboardInv /\ [KeyboardNext]_keyboardVars => KeyboardInv'
  <2> SUFFICES ASSUME KeyboardInv, [KeyboardNext]_keyboardVars PROVE KeyboardInv'
    OBVIOUS
  <2>1. CASE intr_keyboard_handler
    BY <2>1, HandlerPreserves
  <2>2. CASE \E k \in Keys : press(k) \/ repeat(k) \/ release(k)
    BY <2>2, KeysPreserve
  <2>3. CASE ioq_getchar \/ UNCHANGED keyboardVars
    BY <2>3, GetcharPreserves
  <2> QED
    BY <2>1, <2>2, <2>3 DEF KeyboardNext
<1> QED
  BY <1>1, KeyboardInitially, PTL DEF KeyboardSpec

(* Every variable of the driver has its type, and the ring buffer is never *)
(* overfilled, for every keyboard, backlog and buffer.                     *)
THEOREM KeyboardTypes == KeyboardSpec => []KeyboardTypeOK
<1>1. KeyboardInv => KeyboardTypeOK
  BY DEF KeyboardInv
<1> QED
  BY <1>1, KeyboardSafe, PTL

(* No sequence of keys leaves a modifier of the handler set once it has    *)
(* read everything, or Caps Lock or the prefix wrong.                      *)
THEOREM KeyboardModifiers == KeyboardSpec => []NoStuckModifier
<1>1. KeyboardInv => NoStuckModifier
  <2> SUFFICES ASSUME KeyboardInv, port = <<>> PROVE NoStuckModifier
    BY DEF NoStuckModifier
  <2>1. PICK T \in SUBSET Mods : Leads(On, port, T) /\ Settled(T, down, caps)
    BY DEF KeyboardInv
  <2>2. Len(port) = 0
    BY EmptySeq
  <2>3. On = T
    BY <2>1, <2>2 DEF Leads
  <2>4. Settled(On, down, caps) /\ FlagTypes /\ caps \in BOOLEAN
    BY <2>1, <2>3, TypeParts DEF KeyboardInv
  <2>5. caps_lock_status = caps
    <3>1. caps_lock_status <=> caps
      BY <2>4, OnMembers, Zenon DEF Settled
    <3>2. caps_lock_status \in BOOLEAN /\ caps \in BOOLEAN
      BY <2>4 DEF FlagTypes
    <3> QED
      BY <3>1, <3>2
  <2> QED
    BY <2>4, <2>5, OnMembers, Zenon DEF Settled, NoStuckModifier
<1> QED
  BY <1>1, KeyboardSafe, PTL

(* An interrupt puts the character that was meant when its key was pressed *)
(* into the buffer, and a key without one puts nothing.                    *)
THEOREM KeyboardChars == KeyboardSpec => CharsAsTyped
<1>1. ASSUME KeyboardInv, [KeyboardNext]_keyboardVars, Len(port') < Len(port)
      PROVE  put' = IF kbd_buf < Capacity THEN Head(port).char ELSE NoChar
  <2>0. port \in Seq(Item) /\ Len(port) \in Nat
    BY <1>1, LenProperties DEF KeyboardInv
  <2>1. CASE intr_keyboard_handler
    BY <1>1, <2>1, HandlerPreserves
  <2>2. CASE \E k \in Keys : press(k) \/ repeat(k) \/ release(k)
    <3>1. PICK bytes, char : send(bytes, char) /\ bytes \in Seq(0..255) /\ char \in CharSet
      <4>1. PICK k \in Keys : press(k) \/ repeat(k) \/ release(k)
        BY <2>2
      <4>2. PICK T \in SUBSET Mods : Leads(On, port, T) /\ Settled(T, down, caps)
        BY <1>1 DEF KeyboardInv
      <4>3. caps \in BOOLEAN /\ Pause \notin down
            /\ ~ ({<<shift_l_make>>, <<shift_r_make>>} \subseteq down)
        BY <1>1, TypeParts DEF KeyboardInv
      <4>4. CASE press(k) \/ repeat(k)
        <5>1. send(k, meant(k))
          BY <4>4 DEF press, repeat
        <5>2. Leaving(T, k, meant(k), IF k = Pause THEN down ELSE down \cup {k},
                      caps # (k = CapsKey))
          BY <4>2, <4>3, MakeLeaves
        <5> QED
          BY <5>1, <5>2 DEF Leaving
      <4>5. CASE release(k)
        <5>1. k \in down /\ send(released(k), NoChar)
          BY <4>5 DEF release
        <5>2. Leaving(T, released(k), NoChar, down \ {k}, caps)
          BY <4>2, <4>3, <5>1, BreakLeaves
        <5> QED
          BY <5>1, <5>2 DEF Leaving
      <4> QED
        BY <4>1, <4>4, <4>5
    <3>2. port' = port \o Sent(bytes, char)
      BY <3>1, Zenon DEF send, Sent
    <3>3. Sent(bytes, char) \in Seq(Item) /\ Len(Sent(bytes, char)) \in Nat
      BY <3>1, SentSeq, LenProperties
    <3>4. Len(port') = Len(port) + Len(Sent(bytes, char))
      BY <2>0, <3>2, <3>3, ConcatProperties
    <3> QED
      BY <1>1, <2>0, <3>3, <3>4
  <2>3. CASE ioq_getchar \/ UNCHANGED keyboardVars
    <3>1. port' = port
      BY <2>3 DEF ioq_getchar, keyboardVars
    <3> QED
      BY <1>1, <2>0, <3>1
  <2> QED
    BY <1>1, <2>1, <2>2, <2>3 DEF KeyboardNext
<1>2. KeyboardInv /\ [KeyboardNext]_keyboardVars =>
        [Len(port') < Len(port) =>
           put' = IF kbd_buf < Capacity THEN Head(port).char ELSE NoChar]_keyboardVars
  BY <1>1
<1> QED
  BY <1>2, KeyboardSafe, PTL DEF KeyboardSpec, CharsAsTyped
=============================================================================
