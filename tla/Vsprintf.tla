------------------------------ MODULE Vsprintf ------------------------------
(***************************************************************************)
(* vsprintf.c: formatted output into a buffer.  A text is a sequence of    *)
(* one-character strings; an argument is what the conversion takes from    *)
(* the stack: a word, a character, a text, six or four bytes, or for %f    *)
(* the sign, integer part and millionths that number() gets by its casts.  *)
(***************************************************************************)
EXTENDS Integers, Sequences
LOCAL INSTANCE SequencesExt

CONSTANTS
  Word,            \* 2^32, the values of a u32
  BufSize,         \* 1024
  Directives       \* the directives that are printed, see Text

ASSUME VsprintfAssumption == Word \in Nat /\ Word > 256 /\ Word % 2 = 0

VARIABLES
  asked,           \* the directive
  printed          \* the buffer, the result, what %n stored

formatVars == <<asked, printed>>

Upper == <<"0", "1", "2", "3", "4", "5", "6", "7", "8", "9", "A", "B", "C", "D", "E", "F">>
Lower == <<"0", "1", "2", "3", "4", "5", "6", "7", "8", "9", "a", "b", "c", "d", "e", "f">>
Digit == {Upper[i] : i \in 1..10}
value(c) == (CHOOSE i \in 1..16 : c \in {Upper[i], Lower[i]}) - 1

times(c, n) == [i \in 1..n |-> c]

-----------------------------------------------------------------------------
(* number(), for the bases 2, 8, 10 and 16 of its callers. *)

signed(num) == IF num < Word \div 2 THEN num ELSE num - Word

negative(num, flags) ==
  IF "DOUBLE" \in flags THEN num.neg ELSE "SIGN" \in flags /\ signed(num) < 0

RECURSIVE digits(_, _, _)
digits(n, base, symbols) ==
  IF n < base THEN <<symbols[n + 1]>>
  ELSE Append(digits(n \div base, base, symbols), symbols[(n % base) + 1])

(* Six digits of the millionths. *)
mantissa(fval, base, symbols) ==
  [i \in 1..6 |-> symbols[((fval \div base^(6 - i)) % base) + 1]]

(* How much of the width is left for padding. *)
room_fault_sign_not_counted(size, sign, special, precision) == size - Len(special) - precision

room(size, sign, special, precision) == size - Len(sign) - Len(special) - precision

number(num, base, size, precision, flags) ==
  LET symbols == IF "SMALL" \in flags THEN Lower ELSE Upper
      left == "LEFT" \in flags
      zeropad == "ZEROPAD" \in flags /\ ~ left
      sign == IF negative(num, flags) THEN <<"-">>
              ELSE IF "PLUS" \in flags THEN <<"+">>
              ELSE IF "SPACE" \in flags THEN <<" ">> ELSE <<>>
      special == IF "SPECIAL" \notin flags THEN <<>>
                 ELSE IF base = 16 THEN <<"0", IF "SMALL" \in flags THEN "x" ELSE "X">>
                 ELSE IF base = 8 THEN <<"0">> ELSE <<>>
      tmp == IF "DOUBLE" \in flags
             THEN digits(num.ival, base, symbols) \o <<".">> \o mantissa(num.fval, base, symbols)
             ELSE digits(IF negative(num, flags) THEN (-signed(num)) % Word ELSE num, base, symbols)
      zeros == IF Len(tmp) > precision THEN 0 ELSE precision - Len(tmp)
      rest == room(size, sign, special, zeros + Len(tmp))
  IN (IF zeropad \/ left THEN <<>> ELSE times(" ", rest))
     \o sign \o special
     \o (IF zeropad THEN times("0", rest) ELSE <<>>)
     \o times("0", zeros) \o tmp
     \o (IF left THEN times(" ", rest) ELSE <<>>)

(* %c and %s. *)
field(text, width, flags) ==
  LET pad == times(" ", width - Len(text))
  IN IF "LEFT" \in flags THEN text \o pad ELSE pad \o text

(* %m and %r: the bytes with a separator between them. *)
address(bytes, sep, base, width, precision, flags) ==
  Front(FlattenSeq([i \in 1..Len(bytes) |->
    Append(number(bytes[i], base, width, precision, flags), sep)]))

-----------------------------------------------------------------------------
(* The scan of the format. *)

at(fmt, i) == IF i <= Len(fmt) THEN fmt[i] ELSE "EOS"

(* The first position from i on whose character is not in C. *)
past(fmt, i, C) ==
  CHOOSE j \in i..Len(fmt) + 1 : at(fmt, j) \notin C /\ \A k \in i..j - 1 : fmt[k] \in C

skip_atoi(text) == FoldLeft(LAMBDA n, c : n * 10 + value(c), 0, text)

Flag == [c \in {"-", "+", " ", "#", "0"} |->
  CASE c = "-" -> "LEFT" [] c = "+" -> "PLUS" [] c = " " -> "SPACE"
    [] c = "#" -> "SPECIAL" [] c = "0" -> "ZEROPAD"]

(* What stands for a width or a precision at fmt[i]: its value, where the  *)
(* scan goes on, and the arguments that are left.  After a `*' the scan    *)
(* goes on behind it for a width, but still at it for a precision.         *)
count_at(fmt, i, args, none, behind) ==
  LET j == past(fmt, i, Digit) IN
  IF j > i THEN [n |-> skip_atoi(SubSeq(fmt, i, j - 1)), next |-> j, args |-> args]
  ELSE IF at(fmt, i) = "*" THEN [n |-> Head(args), next |-> i + behind, args |-> Tail(args)]
  ELSE [n |-> none, next |-> i, args |-> args]

(* The directive whose `%' is before fmt[i]. *)
directive(fmt, i, args) ==
  LET j == past(fmt, i, DOMAIN Flag)
      w == count_at(fmt, j, args, -1, 1)
      p == IF at(fmt, w.next) = "." THEN count_at(fmt, w.next + 1, w.args, 0, 0)
           ELSE [w EXCEPT !.n = -1]
      q == IF at(fmt, p.next) \in {"h", "l", "L"} THEN p.next + 1 ELSE p.next
      star_left == at(fmt, j) = "*" /\ w.n < 0
  IN [flags |-> {Flag[fmt[k]] : k \in i..j - 1} \cup (IF star_left THEN {"LEFT"} ELSE {}),
      width |-> IF star_left THEN -w.n ELSE w.n,
      precision |-> IF at(fmt, w.next) = "." /\ p.n < 0 THEN 0 ELSE p.n,
      conv |-> at(fmt, q), next |-> q, args |-> p.args]

(* The text a directive prints, and whether it takes an argument. *)
convert(d) ==
  LET arg == Head(d.args)
      num(base, more) == number(arg, base, d.width, d.precision, d.flags \cup more)
  IN CASE d.conv = "c" -> field(<<arg>>, d.width, d.flags)
       [] d.conv = "s" -> field(IF d.precision >= 0 /\ Len(arg) > d.precision
                                THEN SubSeq(arg, 1, d.precision) ELSE arg, d.width, d.flags)
       [] d.conv = "o" -> num(8, {})
       [] d.conv = "p" -> IF d.width = -1
                          THEN number(arg, 16, 8, d.precision, d.flags \cup {"ZEROPAD"})
                          ELSE num(16, {})
       [] d.conv = "x" -> num(16, {"SMALL"})
       [] d.conv = "X" -> num(16, {})
       [] d.conv \in {"d", "i"} -> num(10, {"SIGN"})
       [] d.conv = "u" -> num(10, {})
       [] d.conv = "n" -> <<>>
       [] d.conv = "f" -> num(10, {"SIGN", "DOUBLE"})
       [] d.conv = "b" -> num(2, {})
       [] d.conv = "m" -> address(arg, ":", 16, 2, d.precision, d.flags \cup {"SMALL", "ZEROPAD"})
       [] d.conv = "r" -> address(arg, ".", 10, d.width, d.precision, d.flags \cup {"SMALL"})
       [] d.conv = "%" -> <<"%">>
       [] d.conv = "EOS" -> <<"%">>
       [] OTHER -> <<"%", d.conv>>

Converting == {"c", "s", "o", "p", "x", "X", "d", "i", "u", "n", "f", "b", "m", "r"}

RECURSIVE scan(_, _, _, _, _)
scan(fmt, i, args, str, ip) ==
  IF at(fmt, i) = "EOS" THEN [str |-> str, ip |-> ip]
  ELSE IF at(fmt, i) # "%" THEN scan(fmt, i + 1, args, Append(str, fmt[i]), ip)
  ELSE LET d == directive(fmt, i + 1, args)
       IN scan(fmt,
               IF d.conv = "EOS" THEN d.next ELSE d.next + 1,
               IF d.conv \in Converting THEN Tail(d.args) ELSE d.args,
               str \o convert(d),
               IF d.conv = "n" THEN Len(str) ELSE ip)

(* The length is only tested once the buffer is written. *)
vsprintf(fmt, args) ==
  LET r == scan(fmt, 1, args, <<>>, 0)
  IN [buf |-> r.str, i |-> Len(r.str), ip |-> r.ip, panic |-> Len(r.str) >= BufSize]

-----------------------------------------------------------------------------
(* A directive is written as a caller would, between two other things that *)
(* are printed.  A count is absent, a number or a `*' with an argument.    *)

Written(c) == IF c.kind = "none" THEN <<>> ELSE IF c.kind = "star" THEN <<"*">>
              ELSE digits(c.n, 10, Upper)

InArgs(c) == IF c.kind = "star" THEN <<c.n>> ELSE <<>>

Text(d) == <<"a", "%">> \o SetToSeq(d.flags) \o Written(d.width)
           \o (IF d.precision.kind = "none" THEN <<>> ELSE <<".">> \o
               (IF d.precision.kind = "dot" THEN <<>> ELSE Written(d.precision)))
           \o d.qualifier \o d.conv \o (IF d.conv = <<>> THEN <<>> ELSE <<"%", "c">>)

Args(d) == InArgs(d.width) \o InArgs(d.precision) \o d.arg \o <<"z">>

NoDirective == [conv |-> <<>>]

FormatInit == asked = NoDirective /\ printed = <<>>

sprintf(d) ==
  /\ asked' = d
  /\ printed' = vsprintf(Text(d), Args(d))

FormatNext ==
  \/ asked = NoDirective /\ \E d \in Directives : sprintf(d)
  \/ asked # NoDirective /\ asked' = NoDirective /\ printed' = <<>>

-----------------------------------------------------------------------------
(* Properties *)

bigger(i, j) == IF i > j THEN i ELSE j

cut(text, n) == SubSeq(text, 1, IF Len(text) < n THEN Len(text) ELSE n)

(* The numeral of n: no leading zeros, and read as a number it is n. *)
Numeral(text, n, base, symbols) ==
  /\ \A i \in 1..Len(text) : text[i] \in {symbols[k] : k \in 1..base}
  /\ text[1] # "0" \/ Len(text) = 1
  /\ FoldLeft(LAMBDA m, c : m * base + value(c), 0, text) = n

(* text is v, padded to the width w: spaces, sign, prefix, zeros, numeral, *)
(* spaces.  The numeral of a double is followed by a point and six digits. *)
NumberField(text, v, base, symbols, sign, prefix, left, zeropad, w, p) ==
  \E a, z \in 0..Len(text), n \in 1..Len(text) :
    LET lead == a + Len(sign) + Len(prefix) + z
        b == Len(text) - lead - n
        body == SubSeq(text, lead + 1, lead + n)
        width == bigger(w, Len(sign) + Len(prefix) + bigger(p, n))
    IN /\ b >= 0
       /\ Len(text) = width
       /\ IF left THEN a = 0 ELSE b = 0
       /\ IF zeropad /\ ~ left THEN a = 0 ELSE z = bigger(p - n, 0)
       /\ text = times(" ", a) \o sign \o prefix \o times("0", z) \o body \o times(" ", b)
       /\ IF "fval" \in DOMAIN v
          THEN /\ n > 7 /\ body[n - 6] = "."
               /\ Numeral(SubSeq(body, 1, n - 7), v.ival, base, symbols)
               /\ FoldLeft(LAMBDA m, c : m * 10 + value(c), 0, SubSeq(body, n - 5, n)) = v.fval
          ELSE Numeral(body, v.n, base, symbols)

(* text is the bytes, written with base, with sep between them. *)
AddressField(text, bytes, sep, base, w) ==
  LET seps == {i \in 1..Len(text) : text[i] = sep}
      ends == SetToSortSeq(seps \cup {0, Len(text) + 1}, <)
  IN /\ Len(ends) = Len(bytes) + 1
     /\ \A i \in 1..Len(bytes) :
          NumberField(SubSeq(text, ends[i] + 1, ends[i + 1] - 1), [n |-> bytes[i]],
                      base, Lower, <<>>, <<>>, FALSE, TRUE, w, 0)

(* text is what directive d asks for. *)
Asked(d, text) ==
  LET left == "-" \in d.flags \/ (d.width.kind = "star" /\ d.width.n < 0)
      w == IF d.width.kind = "none" THEN 0 ELSE IF d.width.n < 0 THEN -d.width.n ELSE d.width.n
      p == IF d.precision.kind \in {"num", "star"} THEN d.precision.n ELSE 0
      arg == d.arg[1]
      conv == d.conv[1]
      blank(body) == LET pad == times(" ", bigger(w - Len(body), 0))
                     IN text = IF left THEN body \o pad ELSE pad \o body
      nonneg == IF "+" \in d.flags THEN <<"+">> ELSE IF " " \in d.flags THEN <<" ">> ELSE <<>>
      hash(prefix) == IF "#" \in d.flags THEN prefix ELSE <<>>
      unsigned(base, symbols, prefix) ==
        NumberField(text, [n |-> arg], base, symbols, nonneg, hash(prefix), left,
                    "0" \in d.flags, w, p)
      signed_field(v, neg) ==
        NumberField(text, v, 10, Upper, IF neg THEN <<"-">> ELSE nonneg, <<>>, left,
                    "0" \in d.flags, w, p)
  IN CASE conv = "c" -> blank(<<arg>>)
       [] conv = "s" -> blank(IF d.precision.kind = "none" THEN arg ELSE cut(arg, p))
       [] conv \in {"d", "i"} ->
            IF 2 * arg >= Word THEN signed_field([n |-> Word - arg], TRUE)
                               ELSE signed_field([n |-> arg], FALSE)
       [] conv = "u" -> unsigned(10, Upper, <<>>)
       [] conv = "o" -> unsigned(8, Upper, <<"0">>)
       [] conv = "b" -> unsigned(2, Upper, <<>>)
       [] conv = "x" -> unsigned(16, Lower, <<"0", "x">>)
       [] conv = "X" \/ (conv = "p" /\ d.width.kind # "none") -> unsigned(16, Upper, <<"0", "X">>)
       [] conv = "p" -> NumberField(text, [n |-> arg], 16, Upper, nonneg, hash(<<"0", "X">>),
                                    left, TRUE, 8, p)
       [] conv = "f" -> signed_field(arg, arg.neg)
       [] conv = "m" -> AddressField(text, arg, ":", 16, 2)
       [] conv = "r" -> AddressField(text, arg, ".", 10, 0)
       [] conv = "n" -> text = <<>> /\ printed.ip = 1
       [] conv = "%" -> text = <<"%">>
       [] OTHER -> text = <<"%", conv>>

(* The buffer holds what the format asks for: the directive between what   *)
(* stands before and after it, or the lone `%' at the end of the format.   *)
PrintedRight ==
  /\ printed.i = Len(printed.buf)
  /\ IF asked.conv = <<>> THEN printed.buf = <<"a", "%">>
     ELSE /\ printed.i >= 2
          /\ printed.buf[1] = "a"
          /\ Asked(asked, SubSeq(printed.buf, 2, printed.i - 1))
          /\ printed.buf[printed.i] = "z"

(* vsprintf prints every directive as it asks, for every combination of    *)
(* flags, width, precision and qualifier and for numbers at the edges of a *)
(* word, and no directive takes a character or an argument that belongs to *)
(* its neighbour.  Nothing is said of a precision given as `*', which the  *)
(* code does not convert: that is PrecisionTaken, and it is violated.      *)
PrintsAsAsked ==
  asked # NoDirective /\ asked.precision.kind # "star" /\ ~ printed.panic => PrintedRight

(* vsprintf.c:254, the precision is treated "like the width above", and    *)
(* :261, for a `*' "the next argument gives the precision": such a         *)
(* directive is printed with the precision its argument names, as one with *)
(* the number written out is, and what follows gets its own argument.      *)
PrecisionTaken ==
  asked # NoDirective /\ asked.precision.kind = "star" /\ ~ printed.panic => PrintedRight
=============================================================================
