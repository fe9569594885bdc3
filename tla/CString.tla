------------------------------- MODULE CString -------------------------------
(***************************************************************************)
(* string.c on a memory of a few signed chars; a pointer is the number of  *)
(* a cell.  The functions keep no state, so each is an operator with the   *)
(* loops of the code, called on every memory with every argument that      *)
(* keeps the call inside the memory: strings that end, room at the         *)
(* destination, and no byte overwritten before it is copied.               *)
(***************************************************************************)
EXTENDS Integers, Sequences

CONSTANTS
  Cells,           \* the size of the memory
  Bytes,           \* signed chars, EOS among them
  Ints,            \* values given for the parameter `int ch'
  Separators       \* '/' and '\'

EOS == 0
NIL == -1          \* the pointer NULL
Addr == 0..Cells - 1

ASSUME CStringAssumption == EOS \in Bytes /\ Bytes \subseteq -128..127 /\ EOS \notin Separators

VARIABLES
  mem,
  call             \* the last call: function, arguments, memory before, result

stringVars == <<mem, call>>

(* The conversion from int to char. *)
char(ch) == ((ch + 128) % 256) - 128

order(x, y) == IF x < y THEN -1 ELSE IF x > y THEN 1 ELSE 0

-----------------------------------------------------------------------------
(* The loops.  In copy, n is how many chars may still be copied. *)

RECURSIVE copy(_, _, _, _)
copy(m, ptr, src, n) ==
  IF n = 0 THEN [m |-> m, ended |-> FALSE]
  ELSE LET w == [m EXCEPT ![ptr] = m[src]] IN
       IF w[src] = EOS THEN [m |-> w, ended |-> TRUE] ELSE copy(w, ptr + 1, src + 1, n - 1)

strcpy(m, dest, src) == copy(m, dest, src, Cells).m

strncpy_fault_unterminated(m, dest, src, count) == copy(m, dest, src, count).m

(* dest[count - 1] is written for count = 0 too. *)
strncpy(m, dest, src, count) ==
  LET c == copy(m, dest, src, count)
  IN IF c.ended THEN c.m ELSE [c.m EXCEPT ![dest + count - 1] = EOS]

RECURSIVE skip(_, _, _)
skip(m, ptr, n) == IF m[ptr] # EOS /\ n > 0 THEN skip(m, ptr + 1, n - 1) ELSE ptr

strlen(m, str) == skip(m, str, Cells) - str

strnlen(m, str, maxlen) == skip(m, str, maxlen) - str

strcat(m, dest, src) == strcpy(m, dest + strlen(m, dest), src)

RECURSIVE strcmp(_, _, _)
strcmp(m, lhs, rhs) ==
  IF m[lhs] = m[rhs] /\ m[lhs] # EOS /\ m[rhs] # EOS
  THEN strcmp(m, lhs + 1, rhs + 1)
  ELSE order(m[lhs], m[rhs])

RECURSIVE memcmp(_, _, _, _)
memcmp(m, lhs, rhs, count) ==
  IF count > 0 /\ m[lhs] = m[rhs] THEN memcmp(m, lhs + 1, rhs + 1, count - 1)
  ELSE IF count = 0 THEN 0
  ELSE order(m[lhs], m[rhs])

(* strchr and strsep: C is the set of the chars looked for. *)
RECURSIVE find(_, _, _)
find(m, ptr, C) ==
  IF m[ptr] \in C THEN ptr ELSE IF m[ptr] = EOS THEN NIL ELSE find(m, ptr + 1, C)

(* strrchr and strrsep. *)
RECURSIVE find_last(_, _, _, _)
find_last(m, ptr, C, last) ==
  LET l == IF m[ptr] \in C THEN ptr ELSE last
  IN IF m[ptr] = EOS THEN l ELSE find_last(m, ptr + 1, C, l)

RECURSIVE memset(_, _, _, _)
memset(m, dest, ch, count) ==
  IF count = 0 THEN m ELSE memset([m EXCEPT ![dest] = char(ch)], dest + 1, ch, count - 1)

RECURSIVE memcpy(_, _, _, _)
memcpy(m, dest, src, count) ==
  IF count = 0 THEN m ELSE memcpy([m EXCEPT ![dest] = m[src]], dest + 1, src + 1, count - 1)

(* No return statement follows the loop: without a match, any result. *)
RECURSIVE memchr(_, _, _, _)
memchr(m, ptr, ch, count) ==
  IF count = 0 THEN Addr \cup {NIL}
  ELSE IF m[ptr] = ch THEN {ptr}
  ELSE memchr(m, ptr + 1, ch, count - 1)

-----------------------------------------------------------------------------
ends(p) == \E i \in p..Cells - 1 : mem[i] = EOS

(* n chars from p are in the memory, or the string ends before. *)
within(p, n) == p + n <= Cells

(* n chars copied upwards from src to dest are all read before they are    *)
(* overwritten.                                                            *)
copyable(dest, src, n) == within(dest, n) /\ (dest <= src \/ src + n <= dest)

returns(fn, arg, m, r) ==
  /\ call' = [fn |-> fn, arg |-> arg, old |-> mem, ret |-> r]
  /\ mem' = m

call_copy(d, s, n) ==
  \/ /\ ends(s) /\ copyable(d, s, strlen(mem, s) + 1)
     /\ returns("strcpy", <<d, s>>, strcpy(mem, d, s), d)
  \/ /\ (ends(s) \/ within(s, n)) /\ copyable(d, s, n) /\ d + n >= 1
     /\ returns("strncpy", <<d, s, n>>, strncpy(mem, d, s, n), d)
  \/ /\ ends(s) /\ ends(d) /\ copyable(d + strlen(mem, d), s, strlen(mem, s) + 1)
     /\ returns("strcat", <<d, s>>, strcat(mem, d, s), d)
  \/ /\ within(s, n) /\ copyable(d, s, n)
     /\ returns("memcpy", <<d, s, n>>, memcpy(mem, d, s, n), d)

call_compare(l, r, n) ==
  \/ ends(l) /\ ends(r) /\ returns("strcmp", <<l, r>>, mem, strcmp(mem, l, r))
  \/ within(l, n) /\ within(r, n) /\ returns("memcmp", <<l, r, n>>, mem, memcmp(mem, l, r, n))

call_length(p, n) ==
  \/ ends(p) /\ returns("strlen", <<p>>, mem, strlen(mem, p))
  \/ (ends(p) \/ within(p, n + 1)) /\ returns("strnlen", <<p, n>>, mem, strnlen(mem, p, n))

call_find(p, ch, n) ==
  \/ ends(p) /\ returns("strchr", <<p, {ch}>>, mem, find(mem, p, {ch}))
  \/ ends(p) /\ returns("strrchr", <<p, {ch}>>, mem, find_last(mem, p, {ch}, NIL))
  \/ ends(p) /\ returns("strsep", <<p, Separators>>, mem, find(mem, p, Separators))
  \/ ends(p) /\ returns("strrsep", <<p, Separators>>, mem, find_last(mem, p, Separators, NIL))
  \/ within(p, n) /\ \E q \in memchr(mem, p, ch, n) : returns("memchr", <<p, ch, n>>, mem, q)
  \/ within(p, n) /\ returns("memset", <<p, ch, n>>, memset(mem, p, ch, n), p)

NoCall == [fn |-> "none"]

StringInit == mem \in [Addr -> Bytes] /\ call = NoCall

StringNext ==
  \/ /\ call = NoCall
     /\ \E p, q \in Addr, n \in 0..Cells : call_copy(p, q, n) \/ call_compare(p, q, n)
  \/ /\ call = NoCall
     /\ \E p \in Addr, n \in 0..Cells : call_length(p, n) \/ \E ch \in Ints : call_find(p, ch, n)
  \/ call # NoCall /\ call' = NoCall /\ UNCHANGED mem

-----------------------------------------------------------------------------
(* Properties *)

chars(m, p, n) == [i \in 1..n |-> m[p + i - 1]]

(* The string at p, up to its end or that of the memory. *)
String(m, p) ==
  chars(m, p, CHOOSE n \in 0..Cells - p :
                /\ \A k \in p..p + n - 1 : m[k] # EOS
                /\ p + n \in Addr => m[p + n] = EOS)

(* The call has written the chars of s at p and nothing else. *)
Wrote(p, s) ==
  mem = [i \in Addr |-> IF i \in p..p + Len(s) - 1 THEN s[i - p + 1] ELSE call.old[i]]

(* s comes before, with or after t: the first difference decides. *)
Lexical(s, t) ==
  IF s = t THEN 0
  ELSE LET k == CHOOSE k \in 1..Len(s) : s[k] # t[k] /\ \A j \in 1..k - 1 : s[j] = t[j]
       IN IF s[k] < t[k] THEN -1 ELSE 1

(* Every function does to the memory what its name promises, and nothing   *)
(* beside it, and returns what it promises: with a string that is empty,   *)
(* that fills its buffer or overlaps the destination, with the terminator  *)
(* as the char looked for, with a count of 0, and with chars above 127,    *)
(* which are negative and compare less than the terminator and equal no    *)
(* int above 127.  Two calls that the code gets wrong are not claimed: a   *)
(* memchr without a match, for which see MissIsNull, and a strncpy with a  *)
(* count of 0, which writes the char before its destination.               *)
StringsRight ==
  call # NoCall =>
    LET a == call.arg
        m == call.old
        S(p) == String(m, p)
        Z(p) == Append(S(p), EOS)
        places == {p \in a[1]..a[1] + Len(S(a[1])) : m[p] \in a[2]}
        found  == {p \in a[1]..a[1] + a[3] - 1 : m[p] = a[2]}
    IN CASE call.fn = "strcpy"  -> Wrote(a[1], Z(a[2])) /\ call.ret = a[1]
         [] call.fn = "strncpy" -> /\ call.ret = a[1]
                                   /\ a[3] > 0 =>
                                        IF Len(S(a[2])) < a[3] THEN Wrote(a[1], Z(a[2]))
                                        ELSE Wrote(a[1], Append(chars(m, a[2], a[3] - 1), EOS))
         [] call.fn = "strcat"  -> Wrote(a[1], S(a[1]) \o Z(a[2])) /\ call.ret = a[1]
         [] call.fn = "memcpy"  -> Wrote(a[1], chars(m, a[2], a[3])) /\ call.ret = a[1]
         [] call.fn = "memset"  -> Wrote(a[1], [i \in 1..a[3] |-> char(a[2])]) /\ call.ret = a[1]
         [] call.fn = "strcmp"  -> call.ret = Lexical(Z(a[1]), Z(a[2])) /\ Wrote(0, <<>>)
         [] call.fn = "memcmp"  -> /\ call.ret = Lexical(chars(m, a[1], a[3]), chars(m, a[2], a[3]))
                                   /\ Wrote(0, <<>>)
         [] call.fn = "strlen"  -> call.ret = Len(S(a[1]))
         [] call.fn = "strnlen" -> call.ret = IF Len(S(a[1])) < a[2] THEN Len(S(a[1])) ELSE a[2]
         [] call.fn \in {"strchr", "strsep"} -> IF places = {} THEN call.ret = NIL
                                   ELSE call.ret \in places /\ \A p \in places : call.ret <= p
         [] call.fn \in {"strrchr", "strrsep"} -> IF places = {} THEN call.ret = NIL
                                   ELSE call.ret \in places /\ \A p \in places : call.ret >= p
         [] call.fn = "memchr"  -> found # {} => /\ call.ret \in found
                                                 /\ \A p \in found : call.ret <= p

(* string.h:20 declares that memchr returns a pointer, as strchr does,     *)
(* which returns NULL when the char is not there (string.c:86): a memchr   *)
(* that finds nothing among its count chars returns NULL.                  *)
MissIsNull ==
  call # NoCall /\ call.fn = "memchr" =>
    LET a == call.arg
    IN (\A p \in a[1]..a[1] + a[3] - 1 : call.old[p] # a[2]) => call.ret = NIL
=============================================================================
