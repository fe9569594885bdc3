------------------------- MODULE Sequential_proofs -------------------------
(***************************************************************************)
(* The parts of the kernel that a single thread runs at a time, each with  *)
(* its own initial states and steps, for every value of its constants.     *)
(***************************************************************************)
EXTENDS LinkedList, MCBitmap, Bitmap_proofs, Screen, Paging, FiniteSetTheorems,
        SequenceTheorems, TLAPS

-----------------------------------------------------------------------------
(* Bitmaps *)

(* What was found last is what bitmap_request_bits returns. *)
Searched ==
  found # NotFound =>
    /\ found.n \in 1..MaxRequest
    /\ found.at = bitmap_request_bits(bits, Length, found.n)

(* In every state that setting and clearing bits leads to, the search of   *)
(* bitmap_request_bits finds the first fit.                                *)
THEOREM SearchFirstFit == Spec => []FirstFit
<1>1. BitmapInit => Searched
  BY DEF BitmapInit, Searched
<1>2. Searched /\ [BitmapNext]_bitmapVars => Searched'
  <2> SUFFICES ASSUME Searched, [BitmapNext]_bitmapVars
               PROVE  Searched'
    OBVIOUS
  <2>1. ASSUME NEW i \in 0..Limit - 1, NEW v \in {0, 1}, Set(i, v)
        PROVE  Searched'
    BY <2>1 DEF Set, Searched
  <2>2. ASSUME NEW n \in 1..MaxRequest, Request(n)
        PROVE  Searched'
    BY <2>2 DEF Request, Searched
  <2>3. CASE Answered
    BY <2>3 DEF Answered, Searched, NotFound
  <2>4. CASE UNCHANGED bitmapVars
    BY <2>4 DEF bitmapVars, Searched
  <2> QED
    BY <2>1, <2>2, <2>3, <2>4 DEF BitmapNext
<1>3. Searched => FirstFit
  <2> SUFFICES ASSUME Searched, found # NotFound
               PROVE  FirstFit
    BY DEF FirstFit
  <2> DEFINE n == found.n
             last == IF n = 1 THEN Limit - 1 ELSE Limit
  <2>1. n \in Nat \ {0} /\ Length \in Nat
    BY RequestAssumption DEF Searched
  <2>2. found.at = bitmap_request_bits(bits, Length, n)
    BY DEF Searched
  <2>3. FreeRuns(bits, n, last) = Runs(n, last)
    BY DEF FreeRuns, Runs
  <2>4. bitmap_request_bits(bits, Length, n) =
          IF 0..Limit - 1 \subseteq bits THEN PANIC
          ELSE IF FreeRuns(bits, n, last) = {} THEN FAIL
          ELSE first(FreeRuns(bits, n, last))
    BY <2>1, RequestFirstFit DEF Limit
  <2> QED
    BY <2>2, <2>3, <2>4 DEF FirstFit
<1> QED
  BY <1>1, <1>2, <1>3, PTL DEF Spec

-----------------------------------------------------------------------------
(* The text screen *)

(* Quotient and remainder are determined by their product and sum. *)
LEMMA Division ==
  ASSUME NEW m \in Nat, NEW c \in Nat \ {0}, NEW q \in Nat, NEW r \in 0..c - 1,
         m = q * c + r
  PROVE  m \div c = q /\ m % c = r
<1> DEFINE d == m \div c
           e == m % c
<1>1. d \in Int /\ e \in 0..c - 1 /\ m = d * c + e
  OBVIOUS
<1> HIDE DEF d, e
<1>2. ~ (d < q)
  <2> SUFFICES ASSUME d < q
               PROVE  FALSE
    OBVIOUS
  <2>1. (d + 1) * c <= q * c
    BY <1>1
  <2>2. (d + 1) * c = d * c + c
    BY <1>1
  <2> QED
    BY <1>1, <2>1, <2>2
<1>3. ~ (q < d)
  <2> SUFFICES ASSUME q < d
               PROVE  FALSE
    OBVIOUS
  <2>1. (q + 1) * c <= d * c
    BY <1>1
  <2>2. (q + 1) * c = q * c + c
    OBVIOUS
  <2> QED
    BY <1>1, <2>1, <2>2
<1>4. d = q
  BY <1>1, <1>2, <1>3
<1>5. e = r
  BY <1>1, <1>4
<1> QED
  BY <1>4, <1>5 DEF d, e

(* What a number is of its quotient and remainder. *)
LEMMA Parts ==
  ASSUME NEW m \in Nat, NEW c \in Nat \ {0}
  PROVE  m \div c \in Nat /\ m % c \in 0..c - 1 /\ m = (m \div c) * c + (m % c)
<1> DEFINE d == m \div c
           e == m % c
<1>1. d \in Int /\ e \in 0..c - 1 /\ m = d * c + e
  OBVIOUS
<1> HIDE DEF d, e
<1>2. ~ (d < 0)
  <2> SUFFICES ASSUME d < 0
               PROVE  FALSE
    OBVIOUS
  <2>1. (d + 1) * c <= 0 * c /\ (d + 1) * c = d * c + c
    BY <1>1
  <2> QED
    BY <1>1, <2>1
<1> QED
  BY <1>1, <1>2 DEF d, e

(* The screen is small beside what bx can address. *)
LEMMA ScreenSize ==
  /\ Size \in Nat /\ Cols \in Nat \ {0} /\ Rows \in Nat \ {0} /\ Cols <= Size
  /\ \E k \in Nat \ {0} : /\ Word16 = 4 * k /\ Word16 \div 2 = 2 * k /\ Word16 \div 4 = k
                          /\ Size <= k
<1> USE VgaAssumption
<1>1. Cols \in Nat \ {0} /\ Rows \in Nat \ {0} /\ Half \in Nat \ {0}
  OBVIOUS
<1>2. Size \in Nat /\ Size = Cols * Rows /\ Cols * 1 <= Cols * Rows /\ Size >= 1
  BY <1>1 DEF Size
<1> DEFINE h == Half \div 2
           k == h * h
<1>3. h \in Nat /\ Half = 2 * h
  BY <1>1
<1> HIDE DEF h
<1>4. k \in Nat /\ Word16 = 4 * k
  BY <1>3 DEF Word16
<1> HIDE DEF k
<1>5. 4 * Size <= 4 * k
  BY <1>4
<1>6. k \in Nat \ {0} /\ Size <= k
  BY <1>2, <1>4, <1>5
<1>7. (4 * k) \div 2 = 2 * k /\ (4 * k) \div 4 = k
  BY <1>6
<1> QED
  BY <1>1, <1>2, <1>4, <1>6, <1>7

(* settle for positions on the screen and the one after it. *)
LEMMA Settles ==
  ASSUME NEW b \in Nat, b <= Size, NEW v
  PROVE  settle(b, v) = IF b < Size THEN result(b, v) ELSE result(Size - Cols, roll_screen(v))
<1>1. PICK k \in Nat \ {0} : Word16 \div 2 = 2 * k /\ Size <= k
  BY ScreenSize
<1>2. ~ (b >= 2 * k)
  BY <1>1, ScreenSize
<1> QED
  BY <1>1, <1>2 DEF settle

(* A position on the screen is not changed by the shifts of put_other and  *)
(* is_backspace and does not fault.                                        *)
LEMMA OnScreen ==
  ASSUME NEW b \in 0..Size - 1
  PROVE  shifted(b) = b /\ ~ faults(b)
<1>1. PICK k \in Nat \ {0} : Word16 \div 2 = 2 * k /\ Word16 \div 4 = k /\ Size <= k
  BY ScreenSize
<1>2. b \in Nat /\ b < k
  BY <1>1, ScreenSize
<1>3. b % (2 * k) = b
  BY <1>2
<1> QED
  BY <1>1, <1>2, <1>3 DEF shifted, faults

(* print_char for a printable character. *)
LEMMA PrintOther ==
  ASSUME NEW b \in 0..Size - 1, NEW v, NEW c, c \notin {LF, CR, BS}
  PROVE  print_char(c, b, v) =
           IF b + 1 < Size THEN result(b + 1, [v EXCEPT ![b] = c])
           ELSE result(Size - Cols, roll_screen([v EXCEPT ![b] = c]))
<1>1. b \in Nat /\ b < Size /\ b + 1 \in Nat /\ b + 1 <= Size
  BY ScreenSize
<1>2. put(c, b, v) = [v EXCEPT ![b] = c]
  BY <1>1 DEF put
<1>3. print_char(c, b, v) = put_other(c, b, v)
  BY DEF print_char
<1>4. put_other(c, b, v) = settle(b + 1, [v EXCEPT ![b] = c])
  BY <1>2, OnScreen DEF put_other
<1> QED
  BY <1>1, <1>3, <1>4, Settles

(* print_char for a carriage return. *)
LEMMA PrintReturn ==
  ASSUME NEW b \in 0..Size - 1, NEW v
  PROVE  print_char(CR, b, v) = result(b - (b % Cols), v)
<1> DEFINE x == b - (b % Cols)
<1>1. b \in Nat /\ x \in Nat /\ x < Size
  BY ScreenSize
<1>2. print_char(CR, b, v) = settle(x, v)
  <2>1. print_char(CR, b, v) = is_carriage_return(b, v)
    BY DEF print_char, LF, CR, BS
  <2> QED
    BY <2>1 DEF is_carriage_return
<1> HIDE DEF x
<1>3. x <= Size
  BY <1>1, ScreenSize
<1> QED
  BY <1>1, <1>2, <1>3, Settles DEF x

(* print_char for a line feed. *)
LEMMA PrintFeed ==
  ASSUME NEW b \in 0..Size - 1, NEW v
  PROVE  LET x == b - (b % Cols) + Cols
         IN /\ x \in Nat /\ x <= Size
            /\ print_char(LF, b, v) =
                 IF x < Size THEN result(x, v) ELSE result(Size - Cols, roll_screen(v))
<1> DEFINE x == b - (b % Cols) + Cols
           row == b \div Cols
           col == b % Cols
<1>1. b \in Nat /\ b < Size
  BY ScreenSize
<1>2. row \in Nat /\ col \in 0..Cols - 1 /\ b = row * Cols + col
  BY <1>1, ScreenSize, Parts
<1>3. x = b - col + Cols
  BY <1>1, ScreenSize
<1> HIDE DEF row, col, x
<1>4. x = (row + 1) * Cols /\ row * Cols < Rows * Cols /\ b + Cols = (row + 1) * Cols + col
  BY <1>1, <1>2, <1>3, ScreenSize DEF Size
<1>5. row < Rows
  BY <1>2, <1>4, ScreenSize
<1>6. x \in Nat /\ x <= Size
  <2>1. (row + 1) * Cols <= Rows * Cols
    BY <1>2, <1>5, ScreenSize
  <2>2. (row + 1) * Cols \in Nat
    BY <1>2, ScreenSize
  <2> QED
    BY <1>4, <2>1, <2>2, ScreenSize DEF Size
<1>7. (b + Cols) % Cols = col
  <2>1. b + Cols \in Nat /\ row + 1 \in Nat
    BY <1>1, <1>2, ScreenSize
  <2> QED
    BY <1>2, <1>4, <2>1, ScreenSize, Division
<1>8. (b + Cols) % Word16 = b + Cols
  <2>1. PICK k \in Nat \ {0} : Word16 = 4 * k /\ Size <= k
    BY ScreenSize
  <2>2. b + Cols \in Nat /\ b + Cols < 4 * k
    BY <1>1, <2>1, ScreenSize
  <2> QED
    BY <2>1, <2>2
<1>9. print_char(LF, b, v) = settle((b + Cols) - col, v)
  <2>1. print_char(LF, b, v) = is_line_feed(b, v)
    BY DEF print_char, LF, CR, BS
  <2>2. is_line_feed(b, v) = is_carriage_return(b + Cols, v)
    BY <1>8 DEF is_line_feed
  <2> DEFINE y == b + Cols
  <2>3. y % Cols = col /\ is_line_feed(b, v) = is_carriage_return(y, v)
    BY <1>7, <2>2
  <2> HIDE DEF y
  <2>4. is_line_feed(b, v) = settle(y - col, v)
    BY <2>3 DEF is_carriage_return
  <2> QED
    BY <2>1, <2>4 DEF y
<1>10. (b + Cols) - col = x
  BY <1>1, <1>2, <1>3, ScreenSize
<1>11. print_char(LF, b, v) =
         IF x < Size THEN result(x, v) ELSE result(Size - Cols, roll_screen(v))
  BY <1>6, <1>9, <1>10, Settles
<1> QED
  BY <1>6, <1>11 DEF x

(* print_char for a backspace: only at the first position does it fault.   *)
LEMMA PrintBack ==
  ASSUME NEW b \in 0..Size - 1, NEW v
  PROVE  /\ b > 0 => print_char(BS, b, v) = result(b - 1, [v EXCEPT ![b - 1] = Blank])
         /\ b = 0 => print_char(BS, b, v).fault = TRUE /\ print_char(BS, b, v).video = v
<1>1. print_char(BS, b, v) = is_backspace(b, v)
  BY DEF print_char, LF, CR, BS
<1>2. PICK k \in Nat \ {0} : /\ Word16 = 4 * k /\ Word16 \div 2 = 2 * k /\ Word16 \div 4 = k
                            /\ Size <= k
  BY ScreenSize
<1>3. ASSUME b > 0
      PROVE  print_char(BS, b, v) = result(b - 1, [v EXCEPT ![b - 1] = Blank])
  <2>1. b - 1 \in Nat /\ b - 1 < 4 * k /\ b - 1 \in 0..Size - 1 /\ b - 1 < Size
    BY <1>2, <1>3, ScreenSize
  <2>2. (b - 1) % Word16 = b - 1
    BY <1>2, <2>1
  <2>3. put(Blank, b - 1, v) = [v EXCEPT ![b - 1] = Blank]
    BY <2>1 DEF put
  <2>4. shifted(b - 1) = b - 1 /\ ~ faults(b - 1)
    BY <2>1, OnScreen
  <2> QED
    BY <1>1, <2>2, <2>3, <2>4 DEF is_backspace
<1>4. ASSUME b = 0
      PROVE  print_char(BS, b, v).fault = TRUE /\ print_char(BS, b, v).video = v
  <2> DEFINE p == 4 * k - 1
  <2>1. (b - 1) % Word16 = p
    <3>1. (-1) % (4 * k) = 4 * k - 1
      OBVIOUS
    <3> QED
      BY <1>2, <1>4, <3>1
  <2>2. p % (2 * k) = 2 * k - 1
    <3>1. /\ p \in Nat /\ 2 * k \in Nat \ {0} /\ 2 * k - 1 \in 0..2 * k - 1
          /\ p = 1 * (2 * k) + (2 * k - 1)
      OBVIOUS
    <3> QED
      BY <3>1, Division
  <2>3. faults(p)
    BY <1>2, <2>2 DEF faults, shifted
  <2> HIDE DEF p
  <2>4. is_backspace(b, v) = [result(p, v) EXCEPT !.fault = TRUE]
    BY <2>1, <2>3 DEF is_backspace
  <2> QED
    BY <1>1, <2>4 DEF result
<1> QED
  BY <1>3, <1>4

(* Where the screen lies on the paper. *)
LEMMA Placed ==
  ASSUME ScreenInv
  PROVE  /\ top \in Nat /\ top + Rows <= MaxLines /\ MaxLines \in Nat
         /\ top * Cols \in Nat /\ MaxLines * Cols \in Nat
         /\ (top + Rows) * Cols = top * Cols + Size
         /\ (top + 1) * Cols = top * Cols + Cols
         /\ top * Cols + Size <= MaxLines * Cols
         /\ cursor \in 0..Size - 1 /\ cursor \in Nat /\ cursor < Size
         /\ pos \in Nat /\ pos = top * Cols + cursor
<1>1. MaxLines \in Nat /\ MaxLines >= Rows
  BY ScreenAssumption
<1>2. top \in Nat /\ top + Rows <= MaxLines
  BY <1>1, ScreenSize DEF ScreenInv, ScreenTypeOK
<1>3. top * Cols \in Nat /\ MaxLines * Cols \in Nat
  BY <1>1, <1>2, ScreenSize
<1>4. (top + Rows) * Cols = top * Cols + Size /\ (top + 1) * Cols = top * Cols + Cols
  BY <1>2, ScreenSize DEF Size
<1>5. (top + Rows) * Cols <= MaxLines * Cols
  BY <1>1, <1>2, ScreenSize
<1>6. cursor \in 0..Size - 1 /\ pos \in 0..MaxLines * Cols - 1 /\ cursor = pos - top * Cols
  BY DEF ScreenInv, ScreenTypeOK, ShowsLastLines
<1> QED
  BY <1>1, <1>2, <1>3, <1>4, <1>5, <1>6, ScreenSize

(* A step after which the screen lies where it did. *)
LEMMA Stays ==
  ASSUME ScreenInv, NEW P \in [0..MaxLines * Cols - 1 -> Chars], NEW w \in [0..Size - 1 -> Chars],
         \A i \in 0..Size - 1 : w[i] = P[top * Cols + i],
         \A j \in (top + Rows) * Cols..MaxLines * Cols - 1 : P[j] = Blank,
         NEW x \in 0..Size - 1, cursor' = x, video' = w, paper' = P, pos' = top * Cols + x,
         top' = top, halted' \in BOOLEAN, halted' => x = 0
  PROVE  ScreenInv'
<1> DEFINE a == top * Cols
           m == MaxLines * Cols
<1>1. a \in Nat /\ m \in Nat /\ a + Size <= m /\ Size \in Nat /\ pos' = a + x
  BY Placed, ScreenSize
<1>2. pos' \in 0..MaxLines * Cols - 1 /\ cursor' = pos' - top' * Cols
  <2>1. x \in 0..Size - 1 /\ cursor' = x /\ top' = top
    OBVIOUS
  <2>2. a = top' * Cols
    BY <2>1
  <2> HIDE DEF a, m
  <2>3. pos' \in 0..m - 1 /\ cursor' = pos' - a
    BY ONLY <1>1, <2>1
  <2> QED
    BY ONLY <2>2, <2>3 DEF m
<1>3. top' \in 0..MaxLines - Rows
  BY DEF ScreenInv, ScreenTypeOK
<1>4. ScreenTypeOK'
  BY <1>2, <1>3 DEF ScreenTypeOK
<1>5. ShowsLastLines'
  BY <1>2 DEF ShowsLastLines
<1>6. BlankBelow'
  BY DEF BlankBelow
<1> QED
  BY <1>4, <1>5, <1>6 DEF ScreenInv

(* A step that rolls the screen by one line. *)
LEMMA Rolls ==
  ASSUME ScreenInv, NEW P \in [0..MaxLines * Cols - 1 -> Chars], NEW w \in [0..Size - 1 -> Chars],
         \A i \in 0..Size - 1 : w[i] = P[top * Cols + i],
         \A j \in (top + Rows) * Cols..MaxLines * Cols - 1 : P[j] = Blank,
         cursor' = Size - Cols, video' = roll_screen(w), paper' = P,
         pos' = (top + Rows) * Cols, pos' < MaxLines * Cols,
         top' = top + 1, halted' = FALSE
  PROVE  ScreenInv'
<1> DEFINE a == top * Cols
           m == MaxLines * Cols
<1>1. /\ a \in Nat /\ m \in Nat /\ (top + Rows) * Cols = a + Size /\ (top + 1) * Cols = a + Cols
      /\ Size \in Nat /\ Cols \in Nat \ {0} /\ Cols <= Size /\ a + Size < m
  BY Placed, ScreenSize
<1> DEFINE n == top + Rows
<1>2. /\ top \in Nat /\ Rows \in Nat /\ MaxLines \in Nat /\ n \in Nat
      /\ n <= MaxLines /\ top' = top + 1 /\ n * Cols = a + Size /\ Cols \in Nat \ {0}
  <2>1. /\ top \in Nat /\ MaxLines \in Nat /\ top + Rows <= MaxLines
        /\ (top + Rows) * Cols = top * Cols + Size
    BY Placed
  <2>2. Rows \in Nat /\ Cols \in Nat \ {0} /\ top' = top + 1
    BY ScreenSize
  <2> QED
    BY ONLY <2>1, <2>2
<1>3. n < MaxLines
  <2> HIDE DEF a, n
  <2>1. n # MaxLines
    BY ONLY <1>1, <1>2 DEF m
  <2> QED
    BY ONLY <1>2, <2>1
<1>4. top' \in 0..MaxLines - Rows
  BY ONLY <1>2, <1>3
<1>5. a + Cols + Size <= m
  <2>1. (n + 1) * Cols <= MaxLines * Cols
    <3> HIDE DEF n
    <3> QED
      BY ONLY <1>2, <1>3
  <2>3. (top + 1 + Rows) * Cols = (n + 1) * Cols
    BY ONLY <1>2
  <2>2. (top + 1 + Rows) * Cols = a + Cols + Size
    BY Placed, ScreenSize DEF Size
  <2> QED
    BY <2>1, <2>2, <2>3
<1> HIDE DEF a, m, n
<1>6. cursor' \in 0..Size - 1 /\ pos' \in 0..m - 1 /\ cursor' = pos' - top' * Cols
  BY <1>1
<1>7. video' \in [0..Size - 1 -> Chars]
  <2>1. \A i \in 0..Size - 1 : i < Size - Cols => i + Cols \in 0..Size - 1
    BY <1>1
  <2> QED
    BY <2>1, VgaAssumption DEF roll_screen
<1>8. ASSUME NEW i \in 0..Size - 1
      PROVE  video'[i] = P[a + Cols + i]
  <2>1. CASE i < Size - Cols
    <3>1. i + Cols \in 0..Size - 1 /\ a + (i + Cols) = a + Cols + i
      BY <1>1, <2>1
    <3>2. video'[i] = w[i + Cols]
      BY <2>1 DEF roll_screen
    <3>3. w[i + Cols] = P[a + (i + Cols)]
      BY <3>1 DEF a
    <3> QED
      BY <3>1, <3>2, <3>3
  <2>2. CASE ~ (i < Size - Cols)
    <3>1. a + Cols + i \in (top + Rows) * Cols..m - 1
      BY <1>1, <1>5, <2>2
    <3>2. video'[i] = Blank
      BY <2>2 DEF roll_screen
    <3> QED
      BY <3>1, <3>2 DEF m
  <2> QED
    BY <2>1, <2>2
<1>9. ScreenTypeOK'
  BY <1>4, <1>6, <1>7 DEF ScreenTypeOK, m
<1>10. ShowsLastLines'
  <2>1. top' * Cols = a + Cols
    BY <1>1
  <2> QED
    BY <1>6, <1>8, <2>1 DEF ShowsLastLines
<1>11. BlankBelow'
  <2>1. (top' + Rows) * Cols = a + Cols + Size
    BY Placed, ScreenSize DEF Size, a
  <2>2. \A j \in a + Cols + Size..m - 1 : j \in a + Size..m - 1
    BY <1>1
  <2> QED
    BY <1>1, <2>1, <2>2 DEF BlankBelow, m
<1> QED
  BY <1>9, <1>10, <1>11 DEF ScreenInv

(* Which line of the paper is on top after a write x positions from where  *)
(* the screen begins: the next one, once x has left the screen.            *)
LEMMA Scrolls ==
  ASSUME ScreenInv, NEW x \in Nat, x <= Size
  PROVE  scroll(top * Cols + x) = IF x < Size THEN top ELSE top + 1
<1> DEFINE r == x \div Cols
           c == x % Cols
           p == top * Cols + x
<1>1. r \in Nat /\ c \in 0..Cols - 1 /\ x = r * Cols + c
  BY Parts, ScreenSize
<1>2. top \in Nat /\ top * Cols \in Nat /\ Rows \in Nat \ {0} /\ Cols \in Nat \ {0}
  BY Placed, ScreenSize
<1> HIDE DEF r, c
<1>3. p \in Nat /\ top + r \in Nat /\ p = (top + r) * Cols + c
  <2>1. (top + r) * Cols = top * Cols + r * Cols
    BY ONLY <1>1, <1>2
  <2> QED
    BY <1>1, <1>2, <2>1
<1>4. p \div Cols = top + r
  BY <1>1, <1>2, <1>3, Division
<1>5. x < Size => r < Rows
  <2> SUFFICES ASSUME x < Size, r >= Rows
               PROVE  FALSE
    BY <1>1, <1>2
  <2>1. Rows * Cols <= r * Cols
    BY ONLY <1>1, <1>2, r >= Rows
  <2>2. Size = Rows * Cols
    BY <1>2 DEF Size
  <2> QED
    BY <1>1, <2>1, <2>2, ScreenSize
<1>6. ~ (x < Size) => r = Rows
  <2> SUFFICES ASSUME x = Size
               PROVE  r = Rows
    BY ScreenSize
  <2>1. x = Rows * Cols + 0 /\ 0 \in 0..Cols - 1
    BY <1>2 DEF Size
  <2> QED
    BY <1>2, <2>1, Division DEF r
<1> HIDE DEF p
<1>7. scroll(p) = IF x < Size THEN top ELSE top + 1
  BY <1>1, <1>2, <1>4, <1>5, <1>6 DEF scroll
<1> QED
  BY <1>7 DEF p

(* A screen w shows the lines of a paper P from top, below which P is blank. *)
Shown(P, w) ==
  /\ P \in [0..MaxLines * Cols - 1 -> Chars] /\ w \in [0..Size - 1 -> Chars]
  /\ \A i \in 0..Size - 1 : w[i] = P[top * Cols + i]
  /\ \A j \in (top + Rows) * Cols..MaxLines * Cols - 1 : P[j] = Blank

(* Writing the same on both leaves the invariant, whether the screen rolls *)
(* or not: it does exactly when the paper does.                            *)
LEMMA Writes ==
  ASSUME ScreenInv, NEW P, NEW w, Shown(P, w), NEW x \in Nat, x <= Size,
         write(top * Cols + x, P), halted' = FALSE,
         cursor' = IF x < Size THEN x ELSE Size - Cols,
         video' = IF x < Size THEN w ELSE roll_screen(w)
  PROVE  ScreenInv'
<1>1. /\ pos' = top * Cols + x /\ paper' = P /\ pos' < MaxLines * Cols
      /\ top' = IF x < Size THEN top ELSE top + 1
  BY Scrolls DEF write
<1>2. CASE x < Size
  <2>1. x \in 0..Size - 1 /\ cursor' = x /\ video' = w /\ top' = top
    BY <1>1, <1>2, ScreenSize
  <2> QED
    BY <1>1, <2>1, Stays DEF Shown
<1>3. CASE ~ (x < Size)
  <2>1. x = Size /\ cursor' = Size - Cols /\ video' = roll_screen(w) /\ top' = top + 1
    BY <1>1, <1>3, ScreenSize
  <2>2. pos' = (top + Rows) * Cols
    BY <1>1, <2>1, Placed
  <2> QED
    BY <1>1, <2>1, <2>2, Rolls DEF Shown
<1> QED
  BY <1>2, <1>3

(* What the screen and the paper show at first. *)
LEMMA ShownBefore ==
  ASSUME ScreenInv
  PROVE  Shown(paper, video)
BY DEF ScreenInv, ScreenTypeOK, ShowsLastLines, BlankBelow, Shown

(* The same character at the same place of both. *)
LEMMA ShownPut ==
  ASSUME ScreenInv, NEW b \in 0..Size - 1, NEW c \in Chars
  PROVE  Shown([paper EXCEPT ![top * Cols + b] = c], [video EXCEPT ![b] = c])
<1> DEFINE a == top * Cols
           m == MaxLines * Cols
           P == [paper EXCEPT ![a + b] = c]
           w == [video EXCEPT ![b] = c]
<1>1. a \in Nat /\ m \in Nat /\ a + Size <= m /\ Size \in Nat /\ (top + Rows) * Cols = a + Size
  BY Placed, ScreenSize
<1>2. /\ paper \in [0..m - 1 -> Chars] /\ video \in [0..Size - 1 -> Chars]
      /\ \A i \in 0..Size - 1 : video[i] = paper[a + i]
      /\ \A j \in a + Size..m - 1 : paper[j] = Blank
  BY <1>1 DEF ScreenInv, ScreenTypeOK, ShowsLastLines, BlankBelow
<1> HIDE DEF a, m
<1>3. P \in [0..m - 1 -> Chars] /\ w \in [0..Size - 1 -> Chars]
  BY <1>2
<1>4. \A i \in 0..Size - 1 : w[i] = P[a + i]
  <2> SUFFICES ASSUME NEW i \in 0..Size - 1
               PROVE  w[i] = P[a + i]
    OBVIOUS
  <2>1. a + i \in 0..m - 1 /\ (a + i = a + b <=> i = b)
    BY ONLY <1>1, i \in 0..Size - 1, b \in 0..Size - 1
  <2> QED
    BY ONLY <1>2, <2>1, i \in 0..Size - 1, b \in 0..Size - 1
<1>5. \A j \in a + Size..m - 1 : P[j] = Blank
  <2> SUFFICES ASSUME NEW j \in a + Size..m - 1
               PROVE  P[j] = Blank
    OBVIOUS
  <2>1. j \in 0..m - 1 /\ j # a + b
    BY ONLY <1>1, j \in a + Size..m - 1, b \in 0..Size - 1
  <2> QED
    BY ONLY <1>2, <2>1, j \in a + Size..m - 1
<1> HIDE DEF P, w
<1>6. Shown(P, w)
  BY <1>1, <1>3, <1>4, <1>5 DEF Shown, a, m
<1> QED
  BY <1>6 DEF P, w, a

(* What a step of print_str does when print_char does not fault. *)
LEMMA Printed ==
  ASSUME NEW c, print_str(c), NEW b, NEW v, print_char(c, cursor, video) = result(b, v)
  PROVE  halted' = FALSE /\ cursor' = b /\ video' = v /\ type(c)
<1> DEFINE r == print_char(c, cursor, video)
<1>1. r.fault = FALSE /\ r.bx = b /\ r.video = v
  BY DEF result
<1>2. /\ halted' = r.fault /\ cursor' = (IF r.fault THEN cursor ELSE r.bx)
      /\ video' = r.video /\ type(c)
  BY DEF print_str
<1> HIDE DEF r
<1> QED
  BY <1>1, <1>2

(* A printable character. *)
LEMMA PutOtherKeeps ==
  ASSUME ScreenInv, NEW c \in Chars, c \notin {LF, CR, BS}, print_str(c)
  PROVE  ScreenInv'
<1> DEFINE P == [paper EXCEPT ![top * Cols + cursor] = c]
           w == [video EXCEPT ![cursor] = c]
           x == cursor + 1
<1>1. cursor \in 0..Size - 1 /\ pos = top * Cols + cursor /\ top * Cols \in Nat
  BY Placed
<1>2. Shown(P, w)
  BY <1>1, ShownPut
<1>3. x \in Nat /\ x <= Size /\ pos + 1 = top * Cols + x
  BY <1>1, ScreenSize
<1>4. type(c) = write(pos + 1, [paper EXCEPT ![pos] = c])
  BY DEF type
<1> HIDE DEF x, w
<1>5. print_char(c, cursor, video) =
        IF x < Size THEN result(x, w) ELSE result(Size - Cols, roll_screen(w))
  BY <1>1, PrintOther DEF x, w
<1>6. /\ halted' = FALSE /\ cursor' = (IF x < Size THEN x ELSE Size - Cols)
      /\ video' = (IF x < Size THEN w ELSE roll_screen(w)) /\ type(c)
  <2>1. CASE x < Size
    <3>1. print_char(c, cursor, video) = result(x, w)
      BY <1>5, <2>1
    <3> QED
      BY <2>1, <3>1, Printed
  <2>2. CASE ~ (x < Size)
    <3>1. print_char(c, cursor, video) = result(Size - Cols, roll_screen(w))
      BY <1>5, <2>2
    <3> QED
      BY <2>2, <3>1, Printed
  <2> QED
    BY <2>1, <2>2
<1>7. write(top * Cols + x, P)
  BY <1>1, <1>3, <1>4, <1>6
<1> HIDE DEF P
<1> QED
  BY <1>2, <1>3, <1>6, <1>7, Writes

(* The line of the paper the cursor is on. *)
LEMMA Line ==
  ASSUME ScreenInv
  PROVE  LET x == cursor - (cursor % Cols)
         IN /\ x \in Nat /\ x < Size
            /\ (pos \div Cols) * Cols = top * Cols + x
            /\ (pos \div Cols + 1) * Cols = top * Cols + (x + Cols)
<1> DEFINE x == cursor - (cursor % Cols)
           r == cursor \div Cols
           c == cursor % Cols
<1>1. /\ cursor \in Nat /\ cursor < Size /\ Cols \in Nat \ {0} /\ top \in Nat /\ top * Cols \in Nat
      /\ pos \in Nat /\ pos = top * Cols + cursor /\ Size \in Nat
  BY Placed, ScreenSize
<1>2. r \in Nat /\ c \in 0..Cols - 1 /\ cursor = r * Cols + c
  BY <1>1, Parts
<1>3. x = cursor - c
  OBVIOUS
<1> HIDE DEF x, r, c
<1>4. r * Cols \in Nat /\ x = r * Cols /\ x < Size
  <2>1. r * Cols \in Nat
    BY ONLY <1>1, <1>2
  <2> QED
    BY ONLY <1>1, <1>2, <1>3, <2>1
<1>5. (top + r) * Cols = top * Cols + r * Cols /\ (top + r + 1) * Cols = top * Cols + r * Cols + Cols
  BY ONLY <1>1, <1>2
<1>6. pos \div Cols = top + r
  <2>1. top + r \in Nat /\ pos = (top + r) * Cols + c
    BY ONLY <1>1, <1>2, <1>4, <1>5
  <2> QED
    BY <1>1, <1>2, <2>1, Division
<1>7. (pos \div Cols) * Cols = top * Cols + x
  BY <1>4, <1>5, <1>6
<1>8. (pos \div Cols + 1) * Cols = top * Cols + (x + Cols)
  BY <1>1, <1>2, <1>4, <1>5, <1>6
<1> QED
  BY <1>4, <1>7, <1>8 DEF x

(* A carriage return. *)
LEMMA ReturnKeeps ==
  ASSUME ScreenInv, print_str(CR)
  PROVE  ScreenInv'
<1> DEFINE x == cursor - (cursor % Cols)
<1>1. cursor \in 0..Size - 1
  BY Placed
<1>2. x \in Nat /\ x < Size /\ (pos \div Cols) * Cols = top * Cols + x
  BY Line
<1>3. print_char(CR, cursor, video) = result(x, video)
  BY <1>1, PrintReturn
<1> HIDE DEF x
<1>4. halted' = FALSE /\ cursor' = x /\ video' = video /\ type(CR)
  BY <1>3, Printed
<1>5. type(CR) = write((pos \div Cols) * Cols, paper)
  BY DEF type, LF, CR, BS
<1>6. write(top * Cols + x, paper)
  BY <1>2, <1>4, <1>5
<1>7. x <= Size
  BY <1>2, ScreenSize
<1> QED
  BY <1>2, <1>4, <1>6, <1>7, ShownBefore, Writes

(* A line feed, which is a carriage return too. *)
LEMMA FeedKeeps ==
  ASSUME ScreenInv, print_str(LF)
  PROVE  ScreenInv'
<1> DEFINE y == cursor - (cursor % Cols)
           x == cursor - (cursor % Cols) + Cols
<1>1. cursor \in 0..Size - 1
  BY Placed
<1>2. (pos \div Cols + 1) * Cols = top * Cols + (y + Cols) /\ y \in Nat
  BY Line
<1>3. /\ x \in Nat /\ x <= Size
      /\ print_char(LF, cursor, video) =
           IF x < Size THEN result(x, video) ELSE result(Size - Cols, roll_screen(video))
  BY <1>1, PrintFeed
<1>4. x = y + Cols
  BY <1>1, ScreenSize
<1> HIDE DEF x, y
<1>5. /\ halted' = FALSE /\ cursor' = (IF x < Size THEN x ELSE Size - Cols)
      /\ video' = (IF x < Size THEN video ELSE roll_screen(video)) /\ type(LF)
  <2>1. CASE x < Size
    <3>1. print_char(LF, cursor, video) = result(x, video)
      BY <1>3, <2>1
    <3> QED
      BY <2>1, <3>1, Printed
  <2>2. CASE ~ (x < Size)
    <3>1. print_char(LF, cursor, video) = result(Size - Cols, roll_screen(video))
      BY <1>3, <2>2
    <3> QED
      BY <2>2, <3>1, Printed
  <2> QED
    BY <2>1, <2>2
<1>6. type(LF) = write((pos \div Cols + 1) * Cols, paper)
  BY DEF type, LF, CR, BS
<1>7. write(top * Cols + x, paper)
  BY <1>2, <1>4, <1>5, <1>6
<1> QED
  BY <1>3, <1>5, <1>7, ShownBefore, Writes

(* A backspace: at the first position it faults and changes nothing else.  *)
LEMMA BackKeeps ==
  ASSUME ScreenInv, print_str(BS)
  PROVE  ScreenInv'
<1>1. /\ cursor \in 0..Size - 1 /\ pos = top * Cols + cursor /\ top * Cols \in Nat
      /\ Size \in Nat /\ cursor \in Nat
  BY Placed, ScreenSize
<1>2. type(BS) = IF pos = top * Cols THEN UNCHANGED <<pos, paper, top>>
                 ELSE write(pos - 1, [paper EXCEPT ![pos - 1] = Blank])
  BY DEF type, LF, CR, BS
<1>3. CASE cursor = 0
  <2>1. print_char(BS, cursor, video).fault = TRUE /\ print_char(BS, cursor, video).video = video
    BY <1>1, <1>3, PrintBack
  <2>2. halted' = TRUE /\ cursor' = cursor /\ video' = video /\ type(BS)
    BY <2>1 DEF print_str
  <2>3. pos = top * Cols
    BY <1>1, <1>3
  <2>4. pos' = pos /\ paper' = paper /\ top' = top
    BY <1>2, <2>2, <2>3
  <2> QED
    BY <1>3, <2>2, <2>4
       DEF ScreenInv, ScreenTypeOK, ShowsLastLines, BlankBelow
<1>4. CASE cursor # 0
  <2> DEFINE x == cursor - 1
             P == [paper EXCEPT ![top * Cols + x] = Blank]
             w == [video EXCEPT ![x] = Blank]
  <2>1. /\ x \in Nat /\ x < Size /\ x <= Size /\ x \in 0..Size - 1 /\ cursor > 0
        /\ pos - 1 = top * Cols + x /\ pos # top * Cols
    BY <1>1, <1>4
  <2>2. Shown(P, w)
    BY <2>1, ShownPut, VgaAssumption
  <2>3. print_char(BS, cursor, video) = result(x, w)
    BY <1>1, <2>1, PrintBack
  <2> HIDE DEF x, w
  <2>4. halted' = FALSE /\ cursor' = x /\ video' = w /\ type(BS)
    BY <2>3, Printed
  <2>5. write(top * Cols + x, P)
    BY <1>2, <2>1, <2>4
  <2> HIDE DEF P
  <2> QED
    BY <2>1, <2>2, <2>4, <2>5, Writes
<1> QED
  BY <1>3, <1>4

(* set_cursor(0): the next character goes to the first position. *)
LEMMA SetCursorKeeps ==
  ASSUME ScreenInv, set_cursor
  PROVE  ScreenInv'
<1>1. 0 \in Nat /\ 0 <= Size /\ 0 < Size /\ top * Cols + 0 = top * Cols
  BY Placed, ScreenSize
<1>2. /\ halted' = FALSE /\ cursor' = 0 /\ video' = video /\ write(top * Cols, paper)
  BY DEF set_cursor, ScreenInv, ScreenTypeOK
<1>3. write(top * Cols + 0, paper)
  BY <1>1, <1>2
<1> QED
  BY <1>1, <1>2, <1>3, ShownBefore, Writes

(* ScreenInv holds at first: everything is blank. *)
LEMMA ScreenStarts == ScreenInit => ScreenInv
<1> SUFFICES ASSUME ScreenInit
             PROVE  ScreenInv
  OBVIOUS
<1> DEFINE m == MaxLines * Cols
<1>1. /\ Size \in Nat /\ Cols \in Nat \ {0} /\ Rows \in Nat \ {0} /\ MaxLines \in Nat
      /\ MaxLines >= Rows /\ Blank \in Chars /\ 0 < Size
  BY ScreenSize, ScreenAssumption, VgaAssumption
<1>2. m \in Nat /\ Size <= m /\ 0 * Cols = 0 /\ (0 + Rows) * Cols = Size
  <2>1. Rows * Cols <= MaxLines * Cols /\ MaxLines * Cols \in Nat
    BY ONLY <1>1
  <2>2. Size = Rows * Cols /\ 0 * Cols = 0 /\ (0 + Rows) * Cols = Rows * Cols
    BY <1>1 DEF Size
  <2> QED
    BY ONLY <2>1, <2>2
<1>3. /\ cursor = 0 /\ video = [i \in 0..Size - 1 |-> Blank] /\ halted = FALSE
      /\ paper = [i \in 0..m - 1 |-> Blank] /\ pos = 0 /\ top = 0 /\ top * Cols = 0
      /\ (top + Rows) * Cols = Size
  BY <1>2 DEF ScreenInit
<1> HIDE DEF m
<1>4. /\ cursor \in 0..Size - 1 /\ video \in [0..Size - 1 -> Chars] /\ halted \in BOOLEAN
      /\ paper \in [0..m - 1 -> Chars] /\ pos \in 0..m - 1 /\ top \in 0..MaxLines - Rows
  <2>1. /\ cursor = 0 /\ pos = 0 /\ top = 0 /\ halted = FALSE /\ video = [i \in 0..Size - 1 |-> Blank]
        /\ paper = [i \in 0..m - 1 |-> Blank] /\ Blank \in Chars
    BY <1>1, <1>3
  <2>2. 0 \in 0..Size - 1 /\ 0 \in 0..m - 1 /\ 0 \in 0..MaxLines - Rows
    BY ONLY <1>1, <1>2
  <2>3. video \in [0..Size - 1 -> Chars] /\ paper \in [0..m - 1 -> Chars]
    BY ONLY <2>1
  <2> QED
    BY ONLY <2>1, <2>2, <2>3
<1>5. ScreenTypeOK
  BY ONLY <1>4 DEF ScreenTypeOK, m
<1>6. \A i \in 0..Size - 1 : video[i] = paper[0 + i]
  BY ONLY <1>1, <1>2, <1>3
<1>7. ShowsLastLines
  <2>1. cursor = pos - 0 /\ halted = FALSE /\ top * Cols = 0
    BY <1>3
  <2> QED
    BY ONLY <1>6, <2>1 DEF ShowsLastLines
<1>8. \A j \in Size..m - 1 : paper[j] = Blank
  BY ONLY <1>1, <1>2, <1>3
<1>9. BlankBelow
  BY ONLY <1>3, <1>8 DEF BlankBelow, m
<1> QED
  BY <1>5, <1>7, <1>9 DEF ScreenInv

(* No character that print_str is given, and no set_cursor, breaks the     *)
(* invariant: what rolls onto the screen from the paper is blank, as the   *)
(* line that roll_screen clears.                                           *)
THEOREM ScreenSafe == ScreenSpec => []ScreenInv
<1>1. ScreenInv /\ [ScreenNext]_screenVars => ScreenInv'
  <2> SUFFICES ASSUME ScreenInv, [ScreenNext]_screenVars
               PROVE  ScreenInv'
    OBVIOUS
  <2>1. ASSUME NEW c \in Chars \cup {LF, CR, BS}, print_str(c)
        PROVE  ScreenInv'
    <3>1. CASE c \notin {LF, CR, BS}
      BY <2>1, <3>1, PutOtherKeeps
    <3>2. CASE c = LF
      BY <2>1, <3>2, FeedKeeps
    <3>3. CASE c = CR
      BY <2>1, <3>3, ReturnKeeps
    <3>4. CASE c = BS
      BY <2>1, <3>4, BackKeeps
    <3> QED
      BY <3>1, <3>2, <3>3, <3>4
  <2>2. CASE set_cursor
    BY <2>2, SetCursorKeeps
  <2>3. CASE UNCHANGED screenVars
    BY <2>3 DEF screenVars, ScreenInv, ScreenTypeOK, ShowsLastLines, BlankBelow
  <2> QED
    BY <2>1, <2>2, <2>3 DEF ScreenNext, spin
<1> QED
  BY <1>1, ScreenStarts, PTL DEF ScreenSpec

(* The cursor of print_str stays on the screen. *)
THEOREM ScreenTypes == ScreenSpec => []ScreenTypeOK
<1>1. ScreenInv => ScreenTypeOK
  BY DEF ScreenInv
<1> QED
  BY <1>1, ScreenSafe, PTL

(* The screen shows the last lines of what has been printed, with the      *)
(* cursor behind it; print_str faults only for a backspace at the first    *)
(* position.                                                               *)
THEOREM ScreenShows == ScreenSpec => []ShowsLastLines
<1>1. ScreenInv => ShowsLastLines
  BY DEF ScreenInv
<1> QED
  BY <1>1, ScreenSafe, PTL

-----------------------------------------------------------------------------
(* Page tables *)

(* The sizes. *)
LEMMA Sizes ==
  /\ N \in Nat /\ FirstKernel \in Nat /\ LowPages \in Nat /\ PoolFrames \in Nat /\ HeapPages \in Nat
  /\ 0 < FirstKernel /\ FirstKernel < N - 2 /\ 0 < LowPages /\ LowPages < N /\ N \in Nat \ {0}
  /\ FirstKernel * N \in Nat /\ (N - 1) * N \in Nat
  /\ K_HEAP_START = FirstKernel * N + LowPages /\ K_HEAP_START + HeapPages < (N - 1) * N
  /\ K_HEAP_START \in Nat
<1>1. /\ N \in Nat /\ FirstKernel \in Nat /\ LowPages \in Nat /\ PoolFrames \in Nat
      /\ HeapPages \in Nat
      /\ 0 < FirstKernel /\ FirstKernel < N - 2 /\ 0 < LowPages /\ LowPages < N
      /\ FirstKernel * N + LowPages + HeapPages < (N - 1) * N
  BY PagingAssumption
<1>2. N - 1 \in Nat /\ N \in Nat \ {0}
  BY <1>1
<1>3. FirstKernel * N \in Nat /\ (N - 1) * N \in Nat
  BY ONLY <1>1, <1>2
<1> QED
  BY <1>1, <1>2, <1>3 DEF K_HEAP_START

(* Products of small numbers. *)
LEMMA Digits ==
  ASSUME NEW c \in Nat \ {0}, NEW a \in Nat, NEW b \in 0..c - 1
  PROVE  /\ a * c + b \in Nat /\ (a * c + b) \div c = a /\ (a * c + b) % c = b
         /\ \A k \in Nat : /\ a < k => a * c + b < k * c
                           /\ a * c + b < k * c => a < k
<1>1. a * c \in Nat /\ a * c + b \in Nat
  OBVIOUS
<1>2. (a * c + b) \div c = a /\ (a * c + b) % c = b
  BY <1>1, Division
<1>3. ASSUME NEW k \in Nat, a < k
      PROVE  a * c + b < k * c
  <2>1. (a + 1) * c <= k * c /\ (a + 1) * c = a * c + c /\ k * c \in Nat
    BY <1>3
  <2> QED
    BY <1>1, <2>1
<1>4. ASSUME NEW k \in Nat, a * c + b < k * c
      PROVE  a < k
  <2> SUFFICES ASSUME k <= a
               PROVE  FALSE
    OBVIOUS
  <2>1. k * c <= a * c /\ k * c \in Nat
    OBVIOUS
  <2> QED
    BY <1>1, <1>4, <2>1
<1> QED
  BY <1>1, <1>2, <1>3, <1>4

(* The three parts of a virtual address. *)
LEMMA Address ==
  ASSUME NEW a \in Entries, NEW b \in Entries, NEW c \in Entries
  PROVE  LET w == a * N * N + b * N + c
         IN w \div (N * N) = a /\ (w \div N) % N = b /\ w % N = c
<1>1. N \in Nat \ {0} /\ a \in 0..N - 1 /\ b \in 0..N - 1 /\ c \in 0..N - 1 /\ a \in Nat /\ b \in Nat
      /\ c \in Nat
  BY Sizes DEF Entries
<1> DEFINE w == a * N * N + b * N + c
           s == N * N
           hi == a * N + b
           lo == b * N + c
<1>2. s \in Nat \ {0} /\ hi \in Nat /\ lo \in Nat /\ w = a * s + lo /\ w = hi * N + c
  BY ONLY <1>1
<1>3. lo < s
  <2>1. b < N
    BY ONLY <1>1
  <2>2. b * N + c < N * N
    BY ONLY <1>1, <2>1, Digits
  <2> QED
    BY ONLY <2>2
<1> HIDE DEF s, hi, lo, w
<1>4. lo \in 0..s - 1
  BY ONLY <1>2, <1>3
<1>5. w \div s = a
  BY ONLY <1>1, <1>2, <1>4, Digits
<1>6. w \div N = hi /\ w % N = c
  <2>1. (hi * N + c) \div N = hi /\ (hi * N + c) % N = c
    <3>1. hi \in Nat /\ N \in Nat \ {0} /\ c \in 0..N - 1
      BY ONLY <1>1, <1>2
    <3> QED
      BY ONLY <3>1, Digits
  <2> QED
    BY ONLY <1>2, <2>1
<1>7. hi % N = b
  BY ONLY <1>1, Digits DEF hi
<1> QED
  BY <1>5, <1>6, <1>7 DEF w, s

(* The entries that a page's address selects. *)
LEMMA PageAddress ==
  ASSUME NEW i \in Entries, NEW j \in Entries
  PROVE  PDE_IDX((i * N + j) * N) = i /\ PTE_IDX((i * N + j) * N) = j
<1>1. N \in Nat \ {0} /\ i \in Nat /\ j \in Nat /\ 0 \in Entries
  BY Sizes DEF Entries
<1>2. (i * N + j) * N = i * N * N + j * N + 0
  BY ONLY <1>1
<1> QED
  BY <1>1, <1>2, Address DEF PDE_IDX, PTE_IDX

(* The entries that pte_ptr and pde_ptr select: the last one first. *)
LEMMA Pointers ==
  ASSUME NEW v, PDE_IDX(v) \in Entries, PTE_IDX(v) \in Entries
  PROVE  /\ PDE_IDX(pte_ptr(v)) = N - 1 /\ PTE_IDX(pte_ptr(v)) = PDE_IDX(v)
         /\ pte_ptr(v) % N = PTE_IDX(v)
         /\ PDE_IDX(pde_ptr(v)) = N - 1 /\ PTE_IDX(pde_ptr(v)) = N - 1
         /\ pde_ptr(v) % N = PDE_IDX(v)
<1> DEFINE i == PDE_IDX(v)
           j == PTE_IDX(v)
<1>1. N - 1 \in Entries /\ i \in Entries /\ j \in Entries
  BY Sizes DEF Entries
<1>2. pte_ptr(v) = (N - 1) * N * N + i * N + j /\ pde_ptr(v) = (N - 1) * N * N + (N - 1) * N + i
  BY DEF pte_ptr, pde_ptr
<1> HIDE DEF i, j
<1>3. pte_ptr(v) \div (N * N) = N - 1 /\ (pte_ptr(v) \div N) % N = i /\ pte_ptr(v) % N = j
  BY ONLY <1>1, <1>2, Address
<1>4. pde_ptr(v) \div (N * N) = N - 1 /\ (pde_ptr(v) \div N) % N = N - 1 /\ pde_ptr(v) % N = i
  BY ONLY <1>1, <1>2, Address
<1>5. PDE_IDX(pte_ptr(v)) = N - 1 /\ PTE_IDX(pte_ptr(v)) = i
  BY <1>3 DEF PDE_IDX, PTE_IDX
<1>6. PDE_IDX(pde_ptr(v)) = N - 1 /\ PTE_IDX(pde_ptr(v)) = N - 1
  BY <1>4 DEF PDE_IDX, PTE_IDX
<1> QED
  BY <1>3, <1>4, <1>5, <1>6 DEF i, j

(* A number of a page below N * N and its two parts. *)
LEMMA PageParts ==
  ASSUME NEW p \in Nat, p < N * N
  PROVE  p \div N \in Entries /\ p % N \in Entries /\ p = (p \div N) * N + (p % N)
<1>1. N \in Nat \ {0}
  BY Sizes
<1>2. p \div N \in Nat /\ p % N \in 0..N - 1 /\ p = (p \div N) * N + (p % N)
  BY <1>1, Parts
<1> DEFINE q == p \div N
           r == p % N
<1> HIDE DEF q, r
<1>3. q \in Nat /\ r \in 0..N - 1 /\ p = q * N + r
  BY ONLY <1>2 DEF q, r
<1>4. q < N
  BY ONLY <1>1, <1>3, p < N * N, Digits
<1>5. q \in 0..N - 1
  BY ONLY <1>1, <1>3, <1>4
<1> QED
  BY <1>2, <1>5 DEF Entries, q

(* What a directory whose last entry is itself shows of its tables. *)
LEMMA SelfMap ==
  ASSUME NEW m, NEW v, PDE_IDX(v) \in Entries, PTE_IDX(v) \in Entries,
         m[cr3][N - 1] = cr3, cr3 # ABSENT
  PROVE  LET i == PDE_IDX(v)
             j == PTE_IDX(v)
         IN /\ load(m, pde_ptr(v)) = m[cr3][i]
            /\ vaddr_to_paddr(m, v) = m[m[cr3][i]][j]
            /\ \A x : store(m, pde_ptr(v), x) = [m EXCEPT ![cr3][i] = x]
            /\ \A x : store(m, pte_ptr(v), x) = [m EXCEPT ![m[cr3][i]][j] = x]
            /\ memset_page(m, pte_ptr(v)) = [m EXCEPT ![m[cr3][i]] = [k \in Entries |-> ABSENT]]
<1>1. frame(m, cr3, pde_ptr(v)) = cr3
  BY Pointers DEF frame
<1>2. frame(m, cr3, pte_ptr(v)) = m[cr3][PDE_IDX(v)]
  BY Pointers DEF frame
<1>3. pte_ptr(v) % N = PTE_IDX(v) /\ pde_ptr(v) % N = PDE_IDX(v)
  BY Pointers
<1> QED
  BY <1>1, <1>2, <1>3 DEF load, store, memset_page, vaddr_to_paddr

(* The layout of physical memory. *)
LEMMA Layout ==
  /\ KernelDir \in Nat /\ FirstTable \in Nat /\ FirstFree \in Nat /\ FirstTable = KernelDir + 1
  /\ FirstTable < FirstFree /\ Frames = 0..FirstFree + PoolFrames - 1
  /\ ABSENT \notin Nat /\ ABSENT = -1 /\ KernelDir = LowPages
  /\ \A i \in FirstKernel..N - 2 : kernel_table(i) \in FirstTable..FirstFree - 1
  /\ \A i, k \in FirstKernel..N - 2 : kernel_table(i) = kernel_table(k) => i = k
  /\ kernel_table(FirstKernel) = FirstTable
BY Sizes DEF KernelDir, FirstTable, FirstFree, Frames, ABSENT, kernel_table

(* The frames that have been given out. *)
LEMMA Given ==
  ASSUME PagingTypeOK
  PROVE  /\ given \subseteq Frames /\ given \subseteq Nat
         /\ \A f \in given : f >= FirstFree /\ f # KernelDir /\ f # ABSENT /\ f \in Nat
         /\ \A f \in given, i \in FirstKernel..N - 2 : f # kernel_table(i)
         /\ FirstFree + frames \notin given /\ FirstFree + frames + 1 \notin given
         /\ frames \in Nat /\ frames <= PoolFrames
         /\ \A i \in FirstKernel..N - 2 : kernel_table(i) \in Frames /\ kernel_table(i) # KernelDir
                                          /\ kernel_table(i) # ABSENT
         /\ KernelDir \in Frames /\ KernelDir # ABSENT
<1>1. frames \in Nat /\ frames <= PoolFrames /\ PoolFrames \in Nat
  BY Sizes DEF PagingTypeOK
<1>2. given = FirstFree..FirstFree + frames - 1
  BY DEF given
<1> QED
  BY <1>1, <1>2, Layout

(* A page of the kernel, below the last table's, and its place in the      *)
(* kernel's tables.                                                        *)
LEMMA KernelPage ==
  ASSUME NEW p \in FirstKernel * N..(N - 1) * N - 1
  PROVE  LET i == p \div N
             j == p % N
         IN /\ i \in FirstKernel..N - 2 /\ j \in Entries /\ i \in Entries /\ p = i * N + j
            /\ PDE_IDX(p * N) = i /\ PTE_IDX(p * N) = j
            /\ \A m, dir : m[dir][i] = kernel_table(i) => frame(m, dir, p * N) = m[kernel_table(i)][j]
<1> DEFINE i == p \div N
           j == p % N
<1>1. /\ N \in Nat \ {0} /\ FirstKernel \in Nat
      /\ (N - 1) * N \in Nat /\ FirstKernel * N \in Nat /\ FirstKernel < N - 2
  BY Sizes
<1>2. p \in Nat /\ p < (N - 1) * N /\ p >= FirstKernel * N
  BY ONLY <1>1, p \in FirstKernel * N..(N - 1) * N - 1
<1>3. p < N * N
  <2>1. (N - 1) * N <= N * N
    BY ONLY <1>1
  <2>2. N * N \in Nat
    BY ONLY <1>1
  <2> QED
    BY ONLY <1>1, <1>2, <2>1, <2>2
<1>4. i \in Entries /\ j \in Entries /\ p = i * N + j
  BY <1>2, <1>3, PageParts
<1> HIDE DEF i, j
<1>5. i \in Nat /\ j \in 0..N - 1
  BY <1>1, <1>4 DEF Entries
<1>6. i < N - 1
  <2>1. N - 1 \in Nat /\ i * N + j < (N - 1) * N
    BY ONLY <1>1, <1>2, <1>4
  <2> QED
    BY ONLY <1>1, <1>5, <2>1, Digits
<1>7. ~ (i < FirstKernel)
  <2>1. i < FirstKernel => i * N + j < FirstKernel * N
    BY ONLY <1>1, <1>5, Digits
  <2> QED
    BY ONLY <1>1, <1>2, <1>4, <2>1
<1>8. i \in FirstKernel..N - 2
  BY ONLY <1>1, <1>5, <1>6, <1>7
<1>9. PDE_IDX(p * N) = i /\ PTE_IDX(p * N) = j
  BY ONLY <1>4, PageAddress
<1>10. ASSUME NEW m, NEW dir, m[dir][i] = kernel_table(i)
       PROVE  frame(m, dir, p * N) = m[kernel_table(i)][j]
  <2>1. kernel_table(i) # ABSENT
    BY <1>8, Layout
  <2> QED
    BY <1>9, <1>10, <2>1 DEF frame
<1>11. /\ i \in FirstKernel..N - 2 /\ j \in Entries /\ i \in Entries /\ p = i * N + j
       /\ PDE_IDX(p * N) = i /\ PTE_IDX(p * N) = j
       /\ \A m, dir : m[dir][i] = kernel_table(i) => frame(m, dir, p * N) = m[kernel_table(i)][j]
  BY ONLY <1>4, <1>8, <1>9, <1>10
<1> QED
  BY ONLY <1>11 DEF i, j

(* A page of the kernel's heap, or the next one. *)
LEMMA HeapPage ==
  ASSUME PagingInv, NEW p \in K_HEAP_START..next_page
  PROVE  LET i == p \div N
             j == p % N
         IN /\ i \in FirstKernel..N - 2 /\ j \in Entries /\ i \in Entries /\ p = i * N + j
            /\ PDE_IDX(p * N) = i /\ PTE_IDX(p * N) = j
            /\ \A m, dir : m[dir][i] = kernel_table(i) => frame(m, dir, p * N) = m[kernel_table(i)][j]
<1>1. /\ K_HEAP_START \in Nat /\ HeapPages \in Nat /\ K_HEAP_START + HeapPages < (N - 1) * N
      /\ K_HEAP_START >= FirstKernel * N /\ (N - 1) * N \in Nat /\ FirstKernel * N \in Nat
  BY Sizes
<1>2. next_page \in Nat /\ next_page <= K_HEAP_START + HeapPages
  BY <1>1 DEF PagingInv, PagingTypeOK, next_page
<1>3. p \in FirstKernel * N..(N - 1) * N - 1
  BY ONLY <1>1, <1>2, p \in K_HEAP_START..next_page
<1> QED
  BY ONLY <1>3, KernelPage

(* Where the directory of a process lies. *)
LEMMA DirFrame ==
  ASSUME PagingInv, NEW u \in Users, pgdir[u] # NoDir
  PROVE  /\ pgdir[u] \in K_HEAP_START..next_page - 1
         /\ frame(ram, KernelDir, pgdir[u] * N) \in given \ (user_tables \cup user_pages)
<1> DEFINE p == pgdir[u]
           i == p \div N
           j == p % N
<1>1. p \in K_HEAP_START..next_page - 1
  BY DEF PagingInv, PagingTypeOK
<1>2. next_page \in Nat /\ K_HEAP_START \in Nat
  BY Sizes DEF PagingInv, PagingTypeOK, next_page
<1> HIDE DEF p
<1>3. p \in K_HEAP_START..next_page
  BY ONLY <1>1, <1>2
<1>4. /\ i \in FirstKernel..N - 2 /\ j \in Entries /\ p = i * N + j
      /\ \A m, dir : m[dir][i] = kernel_table(i) => frame(m, dir, p * N) = m[kernel_table(i)][j]
  BY <1>3, HeapPage
<1> HIDE DEF i, j
<1>5. ram[KernelDir][i] = kernel_table(i)
  BY <1>4 DEF PagingInv, SameAbove, Dirs
<1>6. ram[kernel_table(i)][j] \in given \ (user_tables \cup user_pages)
  <2>1. i * N + j \in K_HEAP_START..next_page - 1
    BY ONLY <1>1, <1>4
  <2> QED
    BY <1>4, <2>1 DEF PagingInv, HeapMapped
<1>7. frame(ram, KernelDir, p * N) = ram[kernel_table(i)][j]
  BY <1>4, <1>5
<1> QED
  BY <1>1, <1>6, <1>7 DEF p

(* The directories are among the kernel's frames and pages. *)
LEMMA DirFrames ==
  ASSUME PagingInv
  PROVE  /\ user_dirs \subseteq given \ (user_tables \cup user_pages)
         /\ KernelDir \in Dirs /\ Dirs \subseteq Frames /\ Dirs = user_dirs \cup {KernelDir}
         /\ \A dir \in Dirs : /\ dir # ABSENT /\ ram[dir][N - 1] = dir
                              /\ \A i \in FirstKernel..N - 2 : dir # kernel_table(i)
         /\ cr3 \in Dirs /\ cr3 # ABSENT /\ ram[cr3][N - 1] = cr3
         /\ next_page \in Nat /\ next_page <= K_HEAP_START + HeapPages /\ next_page >= K_HEAP_START
<1>1. user_dirs \subseteq given \ (user_tables \cup user_pages)
  BY DirFrame DEF user_dirs, Dirs
<1>2. KernelDir \in Dirs /\ Dirs = user_dirs \cup {KernelDir}
  BY DEF Dirs, user_dirs
<1>3. PagingTypeOK
  BY DEF PagingInv
<1>4. Dirs \subseteq Frames /\ \A dir \in Dirs : dir # ABSENT
  BY <1>1, <1>2, <1>3, Given
<1>5. \A dir \in Dirs : ram[dir][N - 1] = dir
  BY DEF PagingInv, SameAbove
<1>6. cr3 \in Dirs
  BY <1>3 DEF PagingTypeOK
<1>7. next_page \in Nat /\ next_page <= K_HEAP_START + HeapPages /\ next_page >= K_HEAP_START
  BY <1>3, Sizes DEF PagingTypeOK, next_page
<1>8. \A dir \in Dirs, i \in FirstKernel..N - 2 : dir # kernel_table(i)
  BY <1>1, <1>2, <1>3, Given
<1> QED
  BY <1>1, <1>2, <1>4, <1>5, <1>6, <1>7, <1>8

(* A step that changes nothing in the kernel's tables but the next page's  *)
(* entry leaves the directories where they are.                            *)
LEMMA DirsKept ==
  ASSUME PagingInv, ram'[KernelDir] = ram[KernelDir],
         \A i \in FirstKernel..N - 2, j \in Entries :
           i * N + j # next_page => ram'[kernel_table(i)][j] = ram[kernel_table(i)][j]
  PROVE  /\ \A p \in K_HEAP_START..next_page - 1 :
              frame(ram', KernelDir, p * N) = frame(ram, KernelDir, p * N)
         /\ pgdir' = pgdir => Dirs' = Dirs
<1>1. ASSUME NEW p \in K_HEAP_START..next_page - 1
      PROVE  frame(ram', KernelDir, p * N) = frame(ram, KernelDir, p * N)
  <2> DEFINE i == p \div N
             j == p % N
  <2>1. p \in K_HEAP_START..next_page /\ p # next_page
    BY DirFrames, Sizes
  <2>2. /\ i \in FirstKernel..N - 2 /\ j \in Entries /\ p = i * N + j
        /\ \A m, dir : m[dir][i] = kernel_table(i) => frame(m, dir, p * N) = m[kernel_table(i)][j]
    BY <2>1, HeapPage
  <2> HIDE DEF i, j
  <2>3. ram[KernelDir][i] = kernel_table(i) /\ ram'[KernelDir][i] = kernel_table(i)
    BY <2>2 DEF PagingInv, SameAbove, Dirs
  <2>4. frame(ram, KernelDir, p * N) = ram[kernel_table(i)][j]
    BY <2>2, <2>3
  <2>5. frame(ram', KernelDir, p * N) = ram'[kernel_table(i)][j]
    BY <2>2, <2>3
  <2>6. ram'[kernel_table(i)][j] = ram[kernel_table(i)][j]
    BY <2>1, <2>2
  <2> QED
    BY <2>4, <2>5, <2>6
<1>2. ASSUME pgdir' = pgdir
      PROVE  Dirs' = Dirs
  <2>1. \A u \in {w \in Users : pgdir[w] # NoDir} :
          frame(ram', KernelDir, pgdir[u] * N) = frame(ram, KernelDir, pgdir[u] * N)
    BY <1>1, DirFrame
  <2> QED
    BY <1>2, <2>1 DEF Dirs
<1> QED
  BY <1>1, <1>2

(* The parts of the invariant about the kernel's frames, for a step that   *)
(* gives out frames for a process and leaves them alone.                   *)
LEMMA KernelKept ==
  ASSUME PagingInv, ram' \in [Frames -> [Entries -> Frames \cup {ABSENT}]],
         frames' \in 0..PoolFrames, UNCHANGED <<cr3, pgdir, pages>>,
         \A f \in Frames : f \notin given => f >= FirstFree \/ ram'[f] = ram[f],
         \A dir \in user_dirs, i \in Entries : i >= FirstKernel => ram'[dir][i] = ram[dir][i],
         given \subseteq given',
         \A f \in given : f \notin user_tables \cup user_pages => f \notin user_tables' \cup user_pages'
  PROVE  Dirs' = Dirs /\ PagingTypeOK' /\ SameAbove' /\ LowMapped' /\ HeapMapped'
<1>1. ram'[KernelDir] = ram[KernelDir] /\ \A i \in FirstKernel..N - 2 : ram'[kernel_table(i)] = ram[kernel_table(i)]
  <2>1. PagingTypeOK
    BY DEF PagingInv
  <2>2. /\ KernelDir \in Frames /\ KernelDir \notin given /\ ~ (KernelDir >= FirstFree)
        /\ \A i \in FirstKernel..N - 2 :
             /\ kernel_table(i) \in Frames /\ kernel_table(i) \notin given
             /\ ~ (kernel_table(i) >= FirstFree)
    BY <2>1, Given, Layout
  <2> QED
    BY <2>2
<1>2. Dirs' = Dirs
  BY <1>1, DirsKept
<1>3. PagingTypeOK'
  BY <1>2 DEF PagingInv, PagingTypeOK, next_page
<1>4. SameAbove'
  <2> SUFFICES ASSUME NEW dir \in Dirs
               PROVE  /\ ram'[dir][N - 1] = dir
                      /\ \A i \in FirstKernel..N - 2 : ram'[dir][i] = kernel_table(i)
    BY <1>2 DEF SameAbove, kernel_table
  <2>1. ram[dir][N - 1] = dir /\ \A i \in FirstKernel..N - 2 : ram[dir][i] = kernel_table(i)
    BY DEF PagingInv, SameAbove
  <2>2. N - 1 \in Entries /\ N - 1 >= FirstKernel
        /\ \A i \in FirstKernel..N - 2 : i \in Entries /\ i >= FirstKernel
    BY Sizes DEF Entries
  <2>3. \A i \in Entries : i >= FirstKernel => ram'[dir][i] = ram[dir][i]
    BY <1>1, DirFrames
  <2> QED
    BY <2>1, <2>2, <2>3
<1>5. LowMapped'
  <2>1. ram'[FirstTable] = ram[FirstTable]
    <3>1. FirstKernel \in FirstKernel..N - 2
      BY Sizes
    <3> QED
      BY ONLY <1>1, <3>1, Layout
  <2> QED
    BY <1>1, <2>1 DEF PagingInv, LowMapped
<1>6. HeapMapped'
  <2> SUFFICES ASSUME NEW i \in FirstKernel..N - 2, NEW j \in Entries
               PROVE  /\ i * N + j \in K_HEAP_START..next_page - 1
                           => ram'[kernel_table(i)][j] \in given' \ (user_tables' \cup user_pages')
                      /\ i * N + j >= next_page => ram'[kernel_table(i)][j] = ABSENT
    BY DEF HeapMapped, next_page, kernel_table
  <2>1. /\ i * N + j \in K_HEAP_START..next_page - 1
             => ram[kernel_table(i)][j] \in given \ (user_tables \cup user_pages)
        /\ i * N + j >= next_page => ram[kernel_table(i)][j] = ABSENT
    BY DEF PagingInv, HeapMapped
  <2> QED
    BY <1>1, <2>1
<1> QED
  BY <1>2, <1>3, <1>4, <1>5, <1>6

(* The next frames of the pool. *)
LEMMA Fresh ==
  ASSUME PagingTypeOK, NEW n \in 1..2, frames' = frames + n, frames' <= PoolFrames
  PROVE  /\ frames' \in 0..PoolFrames
         /\ given' = given \cup FirstFree + frames..FirstFree + frames + (n - 1)
         /\ \A f \in FirstFree + frames..FirstFree + frames + (n - 1) :
              f \in Frames /\ f \notin given /\ f >= FirstFree /\ f # ABSENT /\ f # KernelDir
              /\ \A i \in FirstKernel..N - 2 : f # kernel_table(i)
<1> DEFINE g == frames'
<1>1. frames \in Nat /\ PoolFrames \in Nat /\ FirstFree \in Nat /\ g = frames + n /\ g <= PoolFrames /\ n \in 1..2
  BY Sizes, Layout DEF PagingTypeOK
<1> HIDE DEF g
<1>2. given = FirstFree..FirstFree + frames - 1 /\ given' = FirstFree..FirstFree + g - 1
  BY DEF given, g, FirstFree, KernelDir
<1>3. given' = given \cup FirstFree + frames..FirstFree + frames + (n - 1)
  BY ONLY <1>1, <1>2
<1>4. ASSUME NEW f \in FirstFree + frames..FirstFree + frames + (n - 1)
      PROVE  f \in Frames /\ f \notin given /\ f >= FirstFree /\ f # ABSENT /\ f # KernelDir
             /\ \A i \in FirstKernel..N - 2 : f # kernel_table(i)
  <2>1. f \in FirstFree..FirstFree + PoolFrames - 1 /\ f \notin given
    BY ONLY <1>1, <1>2, <1>4
  <2> QED
    BY ONLY <1>1, <2>1, Layout
<1>5. g \in 0..PoolFrames
  BY ONLY <1>1
<1> QED
  BY <1>3, <1>4, <1>5 DEF g

(* A page of a process where the process has a table. *)
LEMMA PageKeeps ==
  ASSUME PagingInv, NEW dir \in user_dirs, NEW i \in 0..FirstKernel - 1, NEW j \in Entries,
         ram[dir][i] # ABSENT, ram[ram[dir][i]][j] = ABSENT,
         ram' = [ram EXCEPT ![ram[dir][i]][j] = FirstFree + frames],
         frames' = frames + 1, frames' <= PoolFrames, UNCHANGED <<cr3, pgdir, pages>>
  PROVE  PagingInv'
<1> DEFINE t == ram[dir][i]
           f == FirstFree + frames
<1>1. PagingTypeOK /\ UserMapped
  BY DEF PagingInv
<1>2. t \in user_tables
  BY DEF user_tables
<1>3. t \in given /\ t \in Frames /\ t \notin Dirs /\ t \notin user_pages /\ t # f
  BY <1>1, <1>2, DirFrames, Given DEF UserMapped
<1>4. f \in Frames /\ f \notin given /\ given' = given \cup {f} /\ frames' \in 0..PoolFrames /\ f # ABSENT
  <2>1. /\ frames' \in 0..PoolFrames /\ given' = given \cup f..f + (1 - 1)
        /\ \A g \in f..f + (1 - 1) : g \in Frames /\ g \notin given /\ g # ABSENT
    BY <1>1, Fresh
  <2>2. f..f + (1 - 1) = {f}
    BY <1>1, Given, Layout
  <2> QED
    BY ONLY <2>1, <2>2
<1> HIDE DEF t, f
<1>5. ram' = [ram EXCEPT ![t][j] = f]
  BY DEF t, f
<1>6. ram \in [Frames -> [Entries -> Frames \cup {ABSENT}]]
  BY <1>1 DEF PagingTypeOK
<1>7. /\ ram' \in [Frames -> [Entries -> Frames \cup {ABSENT}]]
      /\ \A g \in Frames : g # t => ram'[g] = ram[g]
      /\ \A k \in Entries : ram'[t][k] = IF k = j THEN f ELSE ram[t][k]
  BY ONLY <1>3, <1>4, <1>5, <1>6
<1>8. \A d \in user_dirs : ram'[d] = ram[d]
  BY <1>3, <1>7, DirFrames
<1>9. \A g \in Frames : g \notin given => g >= FirstFree \/ ram'[g] = ram[g]
  BY <1>3, <1>7
<1>10. ram'[KernelDir] = ram[KernelDir]
       /\ \A k \in FirstKernel..N - 2 : ram'[kernel_table(k)] = ram[kernel_table(k)]
  BY <1>1, <1>3, <1>7, Given
<1>11. Dirs' = Dirs
  BY <1>10, DirsKept
<1>12. user_dirs' = user_dirs
  BY <1>11 DEF user_dirs, KernelDir
<1>13. user_tables' = user_tables
  BY <1>8, <1>12 DEF user_tables
<1>14. user_tables \subseteq Frames /\ user_tables \subseteq given /\ user_pages \subseteq given \ user_tables
  BY <1>1, Given DEF UserMapped
<1>15. \A s \in user_tables, k \in Entries : ram'[s][k] = IF s = t /\ k = j THEN f ELSE ram[s][k]
  BY <1>7, <1>14
<1>16. user_pages' \subseteq user_pages \cup {f}
  BY <1>13, <1>15 DEF user_pages, Entries
<1>17. PagingTypeOK' /\ SameAbove' /\ LowMapped' /\ HeapMapped'
  <2>1. \A g \in given : g \notin user_tables \cup user_pages => g \notin user_tables' \cup user_pages'
    BY <1>4, <1>13, <1>16
  <2>2. given \subseteq given'
    BY <1>4
  <2>3. \A d \in user_dirs, k \in Entries : k >= FirstKernel => ram'[d][k] = ram[d][k]
    BY <1>8
  <2> QED
    BY <1>4, <1>7, <1>9, <2>1, <2>2, <2>3, KernelKept
<1>18. UserMapped'
  <2>1. user_tables' \subseteq given' /\ user_pages' \subseteq given' \ user_tables'
    BY <1>4, <1>13, <1>14, <1>16
  <2>2. \A d, other \in user_dirs', m, k \in 0..FirstKernel - 1 :
          ram'[d][m] = ram'[other][k] => ram'[d][m] = ABSENT \/ (d = other /\ m = k)
    <3>1. \A d, other \in user_dirs, m, k \in 0..FirstKernel - 1 :
            ram[d][m] = ram[other][k] => ram[d][m] = ABSENT \/ (d = other /\ m = k)
      BY <1>1 DEF UserMapped
    <3> QED
      BY <1>8, <1>12, <3>1
  <2>3. ASSUME NEW s \in user_tables, NEW o \in user_tables, NEW m \in Entries, NEW k \in Entries,
               ram'[s][m] = ram'[o][k]
        PROVE  ram'[s][m] = ABSENT \/ (s = o /\ m = k)
    <3>1. ram[s][m] = ram[o][k] => ram[s][m] = ABSENT \/ (s = o /\ m = k)
      BY <1>1 DEF UserMapped
    <3>2. ram[s][m] # f /\ ram[o][k] # f
      BY <1>4, <1>14 DEF user_pages
    <3> QED
      BY <1>15, <2>3, <3>1, <3>2
  <2> QED
    BY <1>13, <2>1, <2>2, <2>3 DEF UserMapped, Entries, ABSENT
<1> QED
  BY <1>17, <1>18 DEF PagingInv

(* The first page of a process in a table's range: the table is new. *)
LEMMA TableKeeps ==
  ASSUME PagingInv, NEW dir \in user_dirs, NEW i \in 0..FirstKernel - 1, NEW j \in Entries,
         ram[dir][i] = ABSENT,
         NEW t, t = FirstFree + frames + 1,
         ram' = [ram EXCEPT ![dir] = [@ EXCEPT ![i] = t],
                            ![t] = [k \in Entries |-> IF k = j THEN FirstFree + frames ELSE ABSENT]],
         frames' = frames + 2, frames' <= PoolFrames, UNCHANGED <<cr3, pgdir, pages>>
  PROVE  PagingInv'
<1> DEFINE f == FirstFree + frames
<1>1. PagingTypeOK /\ UserMapped
  BY DEF PagingInv
<1>2. /\ f \in Frames /\ f \notin given /\ t \in Frames /\ t \notin given /\ t # f /\ f # ABSENT /\ t # ABSENT
      /\ given' = given \cup {f, t} /\ frames' \in 0..PoolFrames /\ t >= FirstFree
  <2>1. /\ frames' \in 0..PoolFrames /\ given' = given \cup f..f + (2 - 1)
        /\ \A g \in f..f + (2 - 1) : g \in Frames /\ g \notin given /\ g # ABSENT /\ g >= FirstFree
    BY <1>1, Fresh
  <2>2. f..f + (2 - 1) = {f, t} /\ t # f
    <3>1. f \in Nat /\ t = f + 1
      BY <1>1, Given, Layout
    <3> HIDE DEF f
    <3> QED
      BY ONLY <3>1
  <2> QED
    BY ONLY <2>1, <2>2
<1>3. dir \in given /\ dir \in Frames /\ dir # t /\ dir \in Dirs
  BY <1>1, <1>2, DirFrames, Given
<1> HIDE DEF f
<1>4. ram' = [ram EXCEPT ![dir] = [@ EXCEPT ![i] = t],
                         ![t] = [k \in Entries |-> IF k = j THEN f ELSE ABSENT]]
  BY DEF f
<1>5. ram \in [Frames -> [Entries -> Frames \cup {ABSENT}]] /\ 0..FirstKernel - 1 \subseteq Entries
  BY <1>1, Sizes DEF PagingTypeOK, Entries
<1>6. /\ \A g \in Frames : g # t /\ g # dir => ram'[g] = ram[g]
      /\ \A k \in Entries : ram'[dir][k] = IF k = i THEN t ELSE ram[dir][k]
      /\ \A k \in Entries : ram'[t][k] = IF k = j THEN f ELSE ABSENT
  BY ONLY <1>2, <1>3, <1>4, <1>5
<1>7. ram' \in [Frames -> [Entries -> Frames \cup {ABSENT}]]
  BY ONLY <1>2, <1>3, <1>4, <1>5
<1>8. \A d \in user_dirs, k \in Entries : ram'[d][k] = IF d = dir /\ k = i THEN t ELSE ram[d][k]
  <2>1. \A d \in user_dirs : d \in Frames /\ d # t
    BY <1>1, <1>2, DirFrames, Given
  <2> QED
    BY ONLY <1>6, <2>1
<1>9. \A g \in Frames : g \notin given => g >= FirstFree \/ ram'[g] = ram[g]
  BY <1>2, <1>3, <1>6
<1>10. /\ ram'[KernelDir] = ram[KernelDir]
       /\ \A k \in FirstKernel..N - 2 : ram'[kernel_table(k)] = ram[kernel_table(k)]
  <2>1. /\ KernelDir \in Frames /\ KernelDir # t /\ KernelDir # dir
        /\ \A k \in FirstKernel..N - 2 :
             kernel_table(k) \in Frames /\ kernel_table(k) # t /\ kernel_table(k) # dir
    BY <1>1, <1>2, <1>3, Given, Layout
  <2> QED
    BY <1>6, <2>1
<1>11. Dirs' = Dirs
  BY <1>10, DirsKept
<1>12. user_dirs' = user_dirs
  BY <1>11 DEF user_dirs, KernelDir
<1>13. user_tables' \subseteq user_tables \cup {t}
  <2> SUFFICES ASSUME NEW x \in user_tables'
               PROVE  x \in user_tables \cup {t}
    OBVIOUS
  <2>1. PICK d \in user_dirs, k \in 0..FirstKernel - 1 : x = ram'[d][k] /\ x # ABSENT
    BY ONLY <1>12, x \in user_tables' DEF user_tables, ABSENT
  <2>2. k \in Entries /\ ram'[d][k] = IF d = dir /\ k = i THEN t ELSE ram[d][k]
    BY ONLY <1>5, <1>8, <2>1
  <2>3. ram[d][k] # ABSENT => ram[d][k] \in user_tables
    BY ONLY <2>1 DEF user_tables
  <2> QED
    BY ONLY <2>1, <2>2, <2>3
<1>14. user_tables \subseteq Frames /\ user_tables \subseteq given /\ user_pages \subseteq given \ user_tables
       /\ user_tables \cap Dirs = {}
  <2>1. user_tables \subseteq given /\ user_pages \subseteq given \ user_tables
    BY <1>1 DEF UserMapped
  <2>2. user_tables \cap Dirs = {}
    BY <1>1, <2>1, DirFrames, Given
  <2> QED
    BY <1>1, <2>1, <2>2, Given
<1>15. \A s \in user_tables, k \in Entries : ram'[s][k] = ram[s][k]
  BY <1>2, <1>3, <1>6, <1>14
<1>16. user_pages' \subseteq user_pages \cup {f}
  <2> SUFFICES ASSUME NEW x \in user_pages'
               PROVE  x \in user_pages \cup {f}
    OBVIOUS
  <2>1. PICK s \in user_tables', k \in Entries : x = ram'[s][k] /\ x # ABSENT
    BY ONLY x \in user_pages' DEF user_pages, ABSENT, Entries
  <2>2. CASE s = t
    BY ONLY <1>6, <2>1, <2>2
  <2>3. CASE s \in user_tables
    <3>1. ram'[s][k] = ram[s][k]
      BY ONLY <1>15, <2>1, <2>3
    <3>2. ram[s][k] # ABSENT => ram[s][k] \in user_pages
      BY ONLY <2>1, <2>3 DEF user_pages
    <3> QED
      BY ONLY <2>1, <3>1, <3>2
  <2> QED
    BY <1>13, <2>1, <2>2, <2>3
<1>17. PagingTypeOK' /\ SameAbove' /\ LowMapped' /\ HeapMapped'
  <2>1. \A g \in given : g \notin user_tables \cup user_pages => g \notin user_tables' \cup user_pages'
    BY <1>2, <1>13, <1>16
  <2>2. given \subseteq given'
    BY <1>2
  <2>3. \A d \in user_dirs, k \in Entries : k >= FirstKernel => ram'[d][k] = ram[d][k]
    <3>1. \A k \in Entries : k >= FirstKernel => k # i
      BY Sizes DEF Entries
    <3> QED
      BY ONLY <1>8, <3>1
  <2> QED
    BY <1>2, <1>7, <1>9, <2>1, <2>2, <2>3, KernelKept
<1>18. UserMapped'
  <2>1. user_tables' \subseteq given' /\ user_pages' \subseteq given' \ user_tables'
    BY <1>2, <1>13, <1>14, <1>16
  <2>2. ASSUME NEW d \in user_dirs, NEW o \in user_dirs, NEW m \in 0..FirstKernel - 1,
               NEW k \in 0..FirstKernel - 1, ram'[d][m] = ram'[o][k]
        PROVE  ram'[d][m] = ABSENT \/ (d = o /\ m = k)
    <3>1. ram[d][m] = ram[o][k] => ram[d][m] = ABSENT \/ (d = o /\ m = k)
      BY <1>1 DEF UserMapped
    <3>2. ram[d][m] # t /\ ram[o][k] # t
      BY <1>2, <1>14 DEF user_tables
    <3>3. /\ ram'[d][m] = IF d = dir /\ m = i THEN t ELSE ram[d][m]
          /\ ram'[o][k] = IF o = dir /\ k = i THEN t ELSE ram[o][k]
      BY ONLY <1>5, <1>8, <2>2
    <3> QED
      BY ONLY <2>2, <3>1, <3>2, <3>3
  <2>3. ASSUME NEW s \in user_tables \cup {t}, NEW o \in user_tables \cup {t},
               NEW m \in Entries, NEW k \in Entries, ram'[s][m] = ram'[o][k]
        PROVE  ram'[s][m] = ABSENT \/ (s = o /\ m = k)
    <3>1. s \in user_tables /\ o \in user_tables
            => (ram[s][m] = ram[o][k] => ram[s][m] = ABSENT \/ (s = o /\ m = k))
      BY <1>1 DEF UserMapped
    <3>2. (s \in user_tables => ram[s][m] # f) /\ (o \in user_tables => ram[o][k] # f)
      BY <1>2, <1>14 DEF user_pages
    <3>3. /\ s = t => ram'[s][m] = IF m = j THEN f ELSE ABSENT
          /\ o = t => ram'[o][k] = IF k = j THEN f ELSE ABSENT
          /\ s \in user_tables => ram'[s][m] = ram[s][m]
          /\ o \in user_tables => ram'[o][k] = ram[o][k]
      BY ONLY <1>6, <1>15, <2>3
    <3> QED
      BY ONLY <2>3, <3>1, <3>2, <3>3
  <2> QED
    BY <1>12, <1>13, <2>1, <2>2, <2>3 DEF UserMapped, Entries, ABSENT
<1> QED
  BY <1>17, <1>18 DEF PagingInv

(* Frame f with contents c becomes the directory of process u. *)
NewDir(u, c, f) ==
  /\ pgdir[u] = NoDir /\ pgdir' = [pgdir EXCEPT ![u] = next_page]
  /\ c[N - 1] = f /\ \A k \in FirstKernel..N - 2 : c[k] = kernel_table(k)

(* A new page of the kernel, frame f with contents c, whether it is to be  *)
(* a directory or not.                                                     *)
LEMMA HeapKeeps ==
  ASSUME PagingInv, NEW i \in FirstKernel..N - 2, NEW j \in Entries, next_page = i * N + j,
         NEW f, f = FirstFree + frames,
         NEW c \in [Entries -> Frames \cup {ABSENT}], \A k \in 0..FirstKernel - 1 : c[k] = ABSENT,
         ram' = [ram EXCEPT ![kernel_table(i)] = [@ EXCEPT ![j] = f], ![f] = c],
         frames' = frames + 1, frames' <= PoolFrames, pages < HeapPages, pages' = pages + 1,
         cr3' = cr3,
         pgdir' = pgdir \/ \E u \in Users : NewDir(u, c, f)
  PROVE  PagingInv'
<1> DEFINE t == kernel_table(i)
<1>1. PagingTypeOK /\ UserMapped
  BY DEF PagingInv
<1>2. /\ f \in Frames /\ f \notin given /\ given' = given \cup {f} /\ frames' \in 0..PoolFrames
      /\ f # ABSENT /\ f # KernelDir /\ \A k \in FirstKernel..N - 2 : f # kernel_table(k)
  <2>1. /\ frames' \in 0..PoolFrames /\ given' = given \cup f..f + (1 - 1)
        /\ \A g \in f..f + (1 - 1) : /\ g \in Frames /\ g \notin given /\ g # ABSENT /\ g # KernelDir
                                     /\ \A k \in FirstKernel..N - 2 : g # kernel_table(k)
    BY <1>1, Fresh
  <2>2. f..f + (1 - 1) = {f}
    <3>1. f \in Nat
      BY <1>1, Given, Layout
    <3> QED
      BY ONLY <3>1
  <2> QED
    BY ONLY <2>1, <2>2
<1>3. t \in Frames /\ t # f /\ t \notin given /\ t # KernelDir
  BY <1>1, <1>2, Given
<1>4. ram' = [ram EXCEPT ![t] = [@ EXCEPT ![j] = f], ![f] = c]
  OBVIOUS
<1>5. ram \in [Frames -> [Entries -> Frames \cup {ABSENT}]] /\ 0..FirstKernel - 1 \subseteq Entries
      /\ N - 1 \in Entries /\ FirstKernel..N - 2 \subseteq Entries
  BY <1>1, Sizes DEF PagingTypeOK, Entries
<1>6. \A k, m \in FirstKernel..N - 2 : kernel_table(k) = kernel_table(m) => k = m
  BY Layout
<1> HIDE DEF t
<1>7. /\ \A g \in Frames : g # t /\ g # f => ram'[g] = ram[g]
      /\ \A k \in Entries : ram'[t][k] = IF k = j THEN f ELSE ram[t][k]
      /\ ram'[f] = c
  BY ONLY <1>2, <1>3, <1>4, <1>5
<1>8. ram' \in [Frames -> [Entries -> Frames \cup {ABSENT}]]
  BY ONLY <1>2, <1>3, <1>4, <1>5, c \in [Entries -> Frames \cup {ABSENT}]
<1>9. \A dir \in Dirs : ram'[dir] = ram[dir]
  <2>1. \A dir \in Dirs : dir \in Frames /\ dir # t /\ dir # f
    BY <1>1, <1>2, DirFrames, Given DEF t
  <2> QED
    BY ONLY <1>7, <2>1
<1>10. \A m \in FirstKernel..N - 2, k \in Entries :
         /\ ram'[kernel_table(m)][k] = IF m = i /\ k = j THEN f ELSE ram[kernel_table(m)][k]
         /\ m * N + k = next_page <=> m = i /\ k = j
  <2> SUFFICES ASSUME NEW m \in FirstKernel..N - 2, NEW k \in Entries
               PROVE  /\ ram'[kernel_table(m)][k] = IF m = i /\ k = j THEN f ELSE ram[kernel_table(m)][k]
                      /\ m * N + k = next_page <=> m = i /\ k = j
    OBVIOUS
  <2>1. kernel_table(m) \in Frames /\ kernel_table(m) # f /\ (kernel_table(m) = t <=> m = i)
    BY <1>1, <1>2, <1>6, Given DEF t
  <2>2. ram'[kernel_table(m)][k] = IF m = i /\ k = j THEN f ELSE ram[kernel_table(m)][k]
    BY ONLY <1>7, <2>1, k \in Entries
  <2>3. N \in Nat \ {0} /\ m \in Nat /\ i \in Nat /\ k \in 0..N - 1 /\ j \in 0..N - 1
    BY ONLY Sizes, i \in FirstKernel..N - 2, m \in FirstKernel..N - 2, j \in Entries, k \in Entries
       DEF Entries
  <2>4. (m * N + k) \div N = m /\ (m * N + k) % N = k /\ (i * N + j) \div N = i /\ (i * N + j) % N = j
    BY ONLY <2>3, Digits
  <2>5. next_page = i * N + j
    OBVIOUS
  <2> QED
    BY ONLY <2>2, <2>4, <2>5
<1>11. ram'[KernelDir] = ram[KernelDir]
  BY <1>9, DirFrames
<1>12. /\ \A p \in K_HEAP_START..next_page - 1 :
            frame(ram', KernelDir, p * N) = frame(ram, KernelDir, p * N)
       /\ pgdir' = pgdir => Dirs' = Dirs
  <2>1. \A m \in FirstKernel..N - 2, k \in Entries :
          m * N + k # next_page => ram'[kernel_table(m)][k] = ram[kernel_table(m)][k]
    BY ONLY <1>10
  <2> QED
    BY <1>11, <2>1, DirsKept
<1>13. frame(ram', KernelDir, next_page * N) = f
  <2> DEFINE a == next_page \div N
             b == next_page % N
  <2>1. next_page \in K_HEAP_START..next_page
    BY DirFrames, Sizes
  <2>2. /\ a \in FirstKernel..N - 2 /\ b \in Entries /\ next_page = a * N + b
        /\ \A m, dir : m[dir][a] = kernel_table(a) => frame(m, dir, next_page * N) = m[kernel_table(a)][b]
    BY <2>1, HeapPage
  <2> HIDE DEF a, b
  <2>3. a = i /\ b = j
    BY <1>10, <2>2
  <2>4. ram'[KernelDir][a] = kernel_table(a)
    BY <1>11, <2>2 DEF PagingInv, SameAbove, Dirs
  <2> QED
    BY <1>10, <2>2, <2>3, <2>4, ZenonT(60)
<1>14. /\ Dirs \subseteq Dirs' /\ Dirs' \subseteq Dirs \cup {f}
       /\ f \in Dirs' => c[N - 1] = f /\ \A k \in FirstKernel..N - 2 : c[k] = kernel_table(k)
       /\ pgdir' \in [Users -> {NoDir} \cup K_HEAP_START..next_page]
  <2>1. CASE pgdir' = pgdir
    <3>1. Dirs' = Dirs /\ pgdir' = pgdir
      BY <1>12, <2>1
    <3>2. f \notin Dirs
      BY <1>1, <1>2, DirFrames
    <3>3. pgdir' \in [Users -> {NoDir} \cup K_HEAP_START..next_page]
      <4>1. K_HEAP_START..next_page - 1 \subseteq K_HEAP_START..next_page
        BY DirFrames, Sizes
      <4>2. pgdir \in [Users -> {NoDir} \cup K_HEAP_START..next_page - 1]
        BY <1>1 DEF PagingTypeOK
      <4> QED
        BY ONLY <3>1, <4>1, <4>2
    <3> QED
      BY ONLY <3>1, <3>2, <3>3
  <2>2. ASSUME NEW u \in Users, NewDir(u, c, f)
        PROVE  /\ Dirs \subseteq Dirs' /\ Dirs' \subseteq Dirs \cup {f}
               /\ f \in Dirs' => c[N - 1] = f /\ \A k \in FirstKernel..N - 2 : c[k] = kernel_table(k)
               /\ pgdir' \in [Users -> {NoDir} \cup K_HEAP_START..next_page]
    <3>1. /\ pgdir[u] = NoDir /\ pgdir' = [pgdir EXCEPT ![u] = next_page]
          /\ c[N - 1] = f /\ \A k \in FirstKernel..N - 2 : c[k] = kernel_table(k)
      BY <2>2 DEF NewDir
    <3>2. pgdir \in [Users -> {NoDir} \cup K_HEAP_START..next_page - 1]
      BY <1>1 DEF PagingTypeOK
    <3>3. K_HEAP_START..next_page - 1 \subseteq K_HEAP_START..next_page
          /\ next_page \in K_HEAP_START..next_page
      BY DirFrames, Sizes
    <3>4. pgdir' \in [Users -> {NoDir} \cup K_HEAP_START..next_page]
      BY ONLY <3>1, <3>2, <3>3, u \in Users
    <3>5. \A w \in Users : pgdir'[w] = IF w = u THEN next_page ELSE pgdir[w]
      BY ONLY <3>1, <3>2, u \in Users
    <3>6. \A w \in Users : pgdir[w] # NoDir =>
            /\ pgdir'[w] = pgdir[w]
            /\ frame(ram', KernelDir, pgdir[w] * N) = frame(ram, KernelDir, pgdir[w] * N)
      BY <1>12, <3>1, <3>5, DirFrame
    <3>7. Dirs \subseteq Dirs'
      <4> SUFFICES ASSUME NEW d \in Dirs, d # KernelDir
                   PROVE  d \in Dirs'
        BY DEF Dirs, KernelDir
      <4>1. PICK w \in Users : pgdir[w] # NoDir /\ d = frame(ram, KernelDir, pgdir[w] * N)
        BY ONLY d \in Dirs, d # KernelDir DEF Dirs
      <4>2. pgdir'[w] # NoDir /\ d = frame(ram', KernelDir, pgdir'[w] * N)
        BY ONLY <3>6, <4>1
      <4> QED
        BY ONLY <4>1, <4>2 DEF Dirs, frame, NoDir, KernelDir
    <3>8. Dirs' \subseteq Dirs \cup {f}
      <4> SUFFICES ASSUME NEW d \in Dirs', d # KernelDir
                   PROVE  d \in Dirs \cup {f}
        BY DirFrames
      <4>1. PICK w \in Users : pgdir'[w] # NoDir /\ d = frame(ram', KernelDir, pgdir'[w] * N)
        BY ONLY d \in Dirs', d # KernelDir DEF Dirs, frame, NoDir, KernelDir
      <4>2. CASE w = u
        <5>1. pgdir'[w] = next_page
          BY ONLY <3>5, <4>1, <4>2
        <5> QED
          BY ONLY <1>13, <4>1, <5>1
      <4>3. CASE w # u
        <5>1. pgdir'[w] = pgdir[w]
          BY ONLY <3>5, <4>1, <4>3
        <5>2. d = frame(ram, KernelDir, pgdir[w] * N) /\ pgdir[w] # NoDir
          BY ONLY <3>6, <4>1, <5>1
        <5> QED
          BY ONLY <5>2, <4>1 DEF Dirs
      <4> QED
        BY <4>2, <4>3
    <3> QED
      BY ONLY <3>1, <3>4, <3>7, <3>8
  <2> QED
    BY <2>1, <2>2
<1>15. \A d \in user_dirs' : d \in user_dirs \/ d = f
  BY <1>14 DEF user_dirs, KernelDir
<1>16. /\ user_tables \subseteq given /\ user_pages \subseteq given \ user_tables
       /\ user_tables \subseteq Frames
  BY <1>1, Given DEF UserMapped
<1>17. /\ \A d \in user_dirs : ram'[d] = ram[d]
       /\ \A s \in user_tables : ram'[s] = ram[s]
  <2>1. user_dirs \subseteq Dirs
    BY DirFrames
  <2>2. \A s \in user_tables : s \in Frames /\ s # t /\ s # f
    BY <1>2, <1>3, <1>16
  <2> QED
    BY ONLY <1>7, <1>9, <2>1, <2>2
<1>18. \A k \in 0..FirstKernel - 1 : ram'[f][k] = ABSENT
  BY <1>7
<1>19. user_tables' \subseteq user_tables
  <2> SUFFICES ASSUME NEW x \in user_tables'
               PROVE  x \in user_tables
    OBVIOUS
  <2>1. PICK d \in user_dirs', k \in 0..FirstKernel - 1 : x = ram'[d][k] /\ x # ABSENT
    BY ONLY x \in user_tables' DEF user_tables, ABSENT
  <2>2. d \in user_dirs
    BY ONLY <1>15, <1>18, <2>1
  <2>3. x = ram[d][k]
    BY ONLY <1>17, <2>1, <2>2
  <2> QED
    BY ONLY <2>1, <2>2, <2>3 DEF user_tables
<1>20. user_pages' \subseteq user_pages
  <2> SUFFICES ASSUME NEW x \in user_pages'
               PROVE  x \in user_pages
    OBVIOUS
  <2>1. PICK s \in user_tables', k \in Entries : x = ram'[s][k] /\ x # ABSENT
    BY ONLY x \in user_pages' DEF user_pages, ABSENT, Entries
  <2>2. s \in user_tables /\ x = ram[s][k]
    BY ONLY <1>17, <1>19, <2>1
  <2> QED
    BY ONLY <2>1, <2>2 DEF user_pages
<1>21. /\ pages' \in 0..HeapPages /\ next_page' = next_page + 1 /\ next_page \in Nat
       /\ K_HEAP_START \in Nat /\ K_HEAP_START' = K_HEAP_START
  BY <1>1, DirFrames, Sizes DEF PagingTypeOK, next_page, K_HEAP_START
<1>22. PagingTypeOK'
  <2>1. cr3' \in Dirs'
    BY <1>14, DirFrames
  <2>2. pgdir' \in [Users -> {NoDir} \cup K_HEAP_START..next_page' - 1]
    <3>1. K_HEAP_START..next_page' - 1 = K_HEAP_START..next_page
      BY ONLY <1>21
    <3> QED
      BY ONLY <1>14, <3>1
  <2> QED
    BY ONLY <1>2, <1>8, <1>21, <2>1, <2>2 DEF PagingTypeOK, Frames, Entries, ABSENT, NoDir, FirstFree, KernelDir
<1>23. SameAbove'
  <2> SUFFICES ASSUME NEW d \in Dirs'
               PROVE  /\ ram'[d][N - 1] = d
                      /\ \A k \in FirstKernel..N - 2 : ram'[d][k] = kernel_table(k)
    BY DEF SameAbove, kernel_table, FirstTable, KernelDir
  <2>1. CASE d \in Dirs
    <3>1. ram[d][N - 1] = d /\ \A k \in FirstKernel..N - 2 : ram[d][k] = kernel_table(k)
      BY <2>1 DEF PagingInv, SameAbove
    <3> QED
      BY ONLY <1>9, <2>1, <3>1
  <2>2. CASE d = f
    BY ONLY <1>7, <1>14, <2>2, d \in Dirs'
  <2> QED
    BY <1>14, <2>1, <2>2
<1>24. LowMapped'
  <2>1. FirstKernel \in FirstKernel..N - 2 /\ \A k \in 0..LowPages - 1 : k \in Entries
    BY ONLY Sizes DEF Entries
  <2>2. \A k \in 0..LowPages - 1 : FirstKernel * N + k # next_page
    BY Sizes, <1>21, DirFrames
  <2>3. \A k \in 0..LowPages - 1 : ram'[FirstTable][k] = ram[FirstTable][k]
    <3>1. kernel_table(FirstKernel) = FirstTable
      BY Layout
    <3> QED
      BY ONLY <1>10, <2>1, <2>2, <3>1
  <2> QED
    BY <1>11, <2>3 DEF PagingInv, LowMapped
<1>25. HeapMapped'
  <2> SUFFICES ASSUME NEW m \in FirstKernel..N - 2, NEW k \in Entries
               PROVE  /\ m * N + k \in K_HEAP_START..next_page' - 1
                           => ram'[kernel_table(m)][k] \in given' \ (user_tables' \cup user_pages')
                      /\ m * N + k >= next_page' => ram'[kernel_table(m)][k] = ABSENT
    BY DEF HeapMapped, kernel_table, K_HEAP_START, Entries, ABSENT, FirstTable, KernelDir
  <2> DEFINE x == m * N + k
             y == ram[kernel_table(m)][k]
  <2>1. /\ x \in K_HEAP_START..next_page - 1 => y \in given \ (user_tables \cup user_pages)
        /\ x >= next_page => y = ABSENT
    BY DEF PagingInv, HeapMapped
  <2>2. x \in Nat
    <3>1. N \in Nat /\ m \in Nat /\ k \in Nat
      BY ONLY Sizes, m \in FirstKernel..N - 2, k \in Entries DEF Entries
    <3> QED
      BY ONLY <3>1
  <2>3. /\ x = next_page => ram'[kernel_table(m)][k] = f
        /\ x # next_page => ram'[kernel_table(m)][k] = y
    BY ONLY <1>10, m \in FirstKernel..N - 2, k \in Entries
  <2> HIDE DEF x, y
  <2>4. f \notin user_tables \cup user_pages
    BY <1>2, <1>16
  <2>5. /\ x \in K_HEAP_START..next_page' - 1 => x = next_page \/ x \in K_HEAP_START..next_page - 1
        /\ x >= next_page' => x >= next_page /\ x # next_page
        /\ x \in K_HEAP_START..next_page - 1 => x # next_page
    BY ONLY <1>21, <2>2
  <2>6. /\ x \in K_HEAP_START..next_page' - 1
             => ram'[kernel_table(m)][k] \in given' \ (user_tables' \cup user_pages')
        /\ x >= next_page' => ram'[kernel_table(m)][k] = ABSENT
    BY ONLY <1>2, <1>19, <1>20, <2>1, <2>3, <2>4, <2>5
  <2> QED
    BY ONLY <2>6 DEF x
<1>26. UserMapped'
  <2>1. user_tables' \subseteq given' /\ user_pages' \subseteq given' \ user_tables'
    BY <1>2, <1>16, <1>19, <1>20
  <2>2. ASSUME NEW d \in user_dirs', NEW o \in user_dirs', NEW m \in 0..FirstKernel - 1,
               NEW k \in 0..FirstKernel - 1, ram'[d][m] = ram'[o][k]
        PROVE  ram'[d][m] = ABSENT \/ (d = o /\ m = k)
    <3>1. CASE d = f \/ o = f
      BY ONLY <1>18, <2>2, <3>1
    <3>2. CASE d \in user_dirs /\ o \in user_dirs
      <4>1. ram[d][m] = ram[o][k] => ram[d][m] = ABSENT \/ (d = o /\ m = k)
        BY <1>1, <3>2 DEF UserMapped
      <4> QED
        BY ONLY <1>17, <2>2, <3>2, <4>1
    <3> QED
      BY <1>15, <3>1, <3>2
  <2>3. ASSUME NEW s \in user_tables', NEW o \in user_tables', NEW m \in Entries, NEW k \in Entries,
               ram'[s][m] = ram'[o][k]
        PROVE  ram'[s][m] = ABSENT \/ (s = o /\ m = k)
    <3>1. s \in user_tables /\ o \in user_tables
      BY <1>19
    <3>2. ram[s][m] = ram[o][k] => ram[s][m] = ABSENT \/ (s = o /\ m = k)
      BY <1>1, <3>1 DEF UserMapped
    <3> QED
      BY ONLY <1>17, <2>3, <3>1, <3>2
  <2> QED
    BY ONLY <2>1, <2>2, <2>3 DEF UserMapped, Entries, ABSENT
<1> QED
  BY <1>22, <1>23, <1>24, <1>25, <1>26 DEF PagingInv

(* The contents of memory and the pool after a new page of the kernel. *)
LEMMA NewPage ==
  ASSUME PagingInv, takes_page,
         NEW i, i = next_page \div N, NEW j, j = next_page % N,
         NEW f, f = FirstFree + frames
  PROVE  /\ i \in FirstKernel..N - 2 /\ j \in Entries /\ next_page = i * N + j
         /\ PDE_IDX(next_page * N) = i /\ PTE_IDX(next_page * N) = j
         /\ frames' = frames + 1 /\ frames' <= PoolFrames /\ pages < HeapPages /\ pages' = pages + 1
         /\ f \in Frames /\ f # cr3 /\ f # kernel_table(i) /\ f # ABSENT
         /\ new_page = [ram EXCEPT ![kernel_table(i)] = [@ EXCEPT ![j] = f],
                                   ![f] = [k \in Entries |-> ABSENT]]
<1> DEFINE t == kernel_table(i)
           v == next_page * N
           m == [ram EXCEPT ![t][j] = f]
<1>1. /\ i \in FirstKernel..N - 2 /\ j \in Entries /\ i \in Entries /\ next_page = i * N + j
      /\ PDE_IDX(v) = i /\ PTE_IDX(v) = j
      /\ \A mm, dir : mm[dir][i] = t => frame(mm, dir, v) = mm[t][j]
  <2>1. next_page \in K_HEAP_START..next_page
    BY DirFrames, Sizes
  <2> QED
    BY <2>1, HeapPage
<1>2. PagingTypeOK
  BY DEF PagingInv
<1>3. /\ cr3 \in Dirs /\ cr3 \in Frames /\ cr3 # ABSENT /\ ram[cr3][N - 1] = cr3 /\ cr3 # t
      /\ ram[cr3][i] = t
  BY <1>1, DirFrames DEF PagingInv, SameAbove
<1>4. t \in Frames /\ t # ABSENT
  BY <1>1, <1>2, Given
<1> HIDE DEF v, t
<1>5. load(ram, pde_ptr(v)) = t /\ \A x : store(ram, pte_ptr(v), x) = [ram EXCEPT ![t][j] = x]
  <2>1. PDE_IDX(v) \in Entries /\ PTE_IDX(v) \in Entries /\ ram[cr3][N - 1] = cr3 /\ cr3 # ABSENT
    BY ONLY <1>1, <1>3
  <2>2. /\ load(ram, pde_ptr(v)) = ram[cr3][PDE_IDX(v)]
        /\ \A x : store(ram, pte_ptr(v), x) = [ram EXCEPT ![ram[cr3][PDE_IDX(v)]][PTE_IDX(v)] = x]
    BY ONLY <2>1, SelfMap
  <2> QED
    BY ONLY <1>1, <1>3, <2>2
<1>6. frames' = frames + 1 /\ frames' <= PoolFrames /\ pages < HeapPages /\ pages' = pages + 1
  BY <1>4, <1>5 DEF takes_page, takes_frames, v
<1>7. f \in Frames /\ f \notin given /\ f # ABSENT /\ f # KernelDir /\ f # t
  <2>1. \A g \in f..f + (1 - 1) : /\ g \in Frames /\ g \notin given /\ g # ABSENT /\ g # KernelDir
                                  /\ \A k \in FirstKernel..N - 2 : g # kernel_table(k)
    BY <1>2, <1>6, Fresh
  <2>2. f \in f..f + (1 - 1)
    <3>1. f \in Nat
      BY <1>2, Given, Layout
    <3> QED
      BY ONLY <3>1
  <2> QED
    BY <1>1, <2>1, <2>2 DEF t
<1>8. f # cr3
  BY <1>3, <1>7, DirFrames
<1>9. map_page(v) = m
  BY <1>4, <1>5 DEF map_page, bind_vaddr_paddr_page
<1>10. ram \in [Frames -> [Entries -> Frames \cup {ABSENT}]]
  BY <1>2 DEF PagingTypeOK
<1>11. m[cr3] = ram[cr3] /\ m[t][j] = f
  BY ONLY <1>1, <1>3, <1>4, <1>10
<1> HIDE DEF m
<1>12. frame(m, cr3, v) = f
  BY ONLY <1>1, <1>3, <1>11
<1>13. new_page = [m EXCEPT ![f] = [k \in Entries |-> ABSENT]]
  BY ONLY <1>9, <1>12 DEF new_page, memset_page, v
<1>14. new_page = [ram EXCEPT ![t] = [@ EXCEPT ![j] = f], ![f] = [k \in Entries |-> ABSENT]]
  BY ONLY <1>1, <1>4, <1>7, <1>10, <1>13 DEF m
<1> QED
  BY <1>1, <1>6, <1>7, <1>8, <1>14 DEF t, v

(* malloc_kernel_pages *)
LEMMA MallocKeeps ==
  ASSUME PagingInv, malloc_kernel_pages
  PROVE  PagingInv'
<1> DEFINE i == next_page \div N
           j == next_page % N
           f == FirstFree + frames
           c == [k \in Entries |-> ABSENT]
<1>1. takes_page /\ ram' = new_page /\ UNCHANGED <<cr3, gdtr, pgdir>>
  BY DEF malloc_kernel_pages
<1>2. /\ i \in FirstKernel..N - 2 /\ j \in Entries /\ next_page = i * N + j
      /\ frames' = frames + 1 /\ frames' <= PoolFrames /\ pages < HeapPages /\ pages' = pages + 1
      /\ new_page = [ram EXCEPT ![kernel_table(i)] = [@ EXCEPT ![j] = f], ![f] = c]
  BY <1>1, NewPage
<1>3. c \in [Entries -> Frames \cup {ABSENT}] /\ \A k \in 0..FirstKernel - 1 : c[k] = ABSENT
  BY Sizes DEF Entries
<1> HIDE DEF i, j, c
<1> QED
  BY <1>1, <1>2, <1>3, HeapKeeps

(* create_page_dir: the new page becomes a directory. *)
LEMMA CreateKeeps ==
  ASSUME PagingInv, NEW u \in Users, create_page_dir(u)
  PROVE  PagingInv'
<1> DEFINE i == next_page \div N
           j == next_page % N
           f == FirstFree + frames
           t == kernel_table(i)
           v == next_page * N
           z == [k \in Entries |-> ABSENT]
           m == new_page
           c == [k \in Entries |-> IF k = N - 1 THEN f ELSE IF k >= FirstKernel THEN ram[cr3][k] ELSE ABSENT]
<1>1. /\ takes_page /\ ram' = copy_kernel_entries(m, v) /\ cr3' = cr3
      /\ pgdir[u] = NoDir /\ pgdir' = [pgdir EXCEPT ![u] = next_page]
  BY DEF create_page_dir
<1>2. /\ i \in FirstKernel..N - 2 /\ j \in Entries /\ next_page = i * N + j
      /\ PDE_IDX(v) = i /\ PTE_IDX(v) = j
      /\ frames' = frames + 1 /\ frames' <= PoolFrames /\ pages < HeapPages /\ pages' = pages + 1
      /\ f \in Frames /\ f # cr3 /\ f # t /\ f # ABSENT
      /\ m = [ram EXCEPT ![t] = [@ EXCEPT ![j] = f], ![f] = z]
  BY <1>1, NewPage
<1>3. PagingTypeOK
  BY DEF PagingInv
<1>4. /\ cr3 \in Dirs /\ cr3 \in Frames /\ cr3 # ABSENT /\ ram[cr3][N - 1] = cr3 /\ cr3 # t
      /\ ram[cr3][i] = t /\ \A k \in FirstKernel..N - 2 : ram[cr3][k] = kernel_table(k)
  BY <1>2, DirFrames DEF PagingInv, SameAbove
<1>5. t \in Frames /\ t # ABSENT /\ i \in Entries
  <2>1. i \in Entries
    <3>1. i \in FirstKernel..N - 2
      BY <1>2
    <3> HIDE DEF i
    <3> QED
      BY ONLY <3>1, Sizes DEF Entries
  <2>2. t \in Frames /\ t # ABSENT
    BY ONLY <1>2, <1>3, Given
  <2> QED
    BY ONLY <2>1, <2>2
<1>6. ram \in [Frames -> [Entries -> Frames \cup {ABSENT}]]
  BY <1>3 DEF PagingTypeOK
<1> HIDE DEF i, j, f, t, v, m
<1>7. m[cr3] = ram[cr3] /\ m[t][j] = f /\ m[f] = z
  BY ONLY <1>2, <1>4, <1>5, <1>6
<1>8. frame(m, cr3, v) = f
  BY ONLY <1>2, <1>4, <1>5, <1>7 DEF frame
<1>9. vaddr_to_paddr(m, v) = f
  <2>1. PDE_IDX(v) \in Entries /\ PTE_IDX(v) \in Entries /\ m[cr3][N - 1] = cr3 /\ cr3 # ABSENT
    BY ONLY <1>2, <1>4, <1>5, <1>7
  <2>2. vaddr_to_paddr(m, v) = m[m[cr3][PDE_IDX(v)]][PTE_IDX(v)]
    BY ONLY <2>1, SelfMap
  <2> QED
    BY ONLY <1>2, <1>4, <1>7, <2>2
<1>10. frame(m, cr3, pde_ptr(0)) = cr3
  <2>1. PDE_IDX(0) = 0 /\ PTE_IDX(0) = 0 /\ 0 \in Entries
    <3>1. N \in Nat \ {0} /\ 0 \in Entries
      BY Sizes DEF Entries
    <3>2. 0 = (0 * N + 0) * N
      BY ONLY <3>1
    <3> QED
      BY ONLY <3>1, <3>2, PageAddress
  <2>2. PDE_IDX(pde_ptr(0)) = N - 1 /\ PTE_IDX(pde_ptr(0)) = N - 1
    BY <2>1, Pointers
  <2> QED
    BY ONLY <1>4, <1>7, <2>2 DEF frame
<1>11. \A k \in Entries : m[f][k] = ABSENT
  BY <1>7
<1>12. ram' = [m EXCEPT ![f] = c]
  <2>1. ram' = [m EXCEPT ![f] = [k \in Entries |-> IF k = N - 1 THEN f
                                                    ELSE IF k >= FirstKernel THEN m[cr3][k]
                                                    ELSE @[k]]]
    BY ONLY <1>1, <1>8, <1>9, <1>10 DEF copy_kernel_entries
  <2>2. [k \in Entries |-> IF k = N - 1 THEN f ELSE IF k >= FirstKernel THEN m[cr3][k] ELSE m[f][k]] = c
    BY ONLY <1>7, <1>11
  <2> QED
    BY ONLY <2>1, <2>2
<1>13. c \in [Entries -> Frames \cup {ABSENT}]
  BY ONLY <1>2, <1>4, <1>6
<1>14. /\ \A k \in 0..FirstKernel - 1 : k \in Entries /\ k # N - 1 /\ ~ (k >= FirstKernel)
       /\ \A k \in FirstKernel..N - 2 : k \in Entries /\ k # N - 1 /\ k >= FirstKernel
       /\ N - 1 \in Entries
  BY ONLY Sizes DEF Entries
<1>15. \A k \in 0..FirstKernel - 1 : c[k] = ABSENT
  BY ONLY <1>14
<1>16. NewDir(u, c, f)
  BY ONLY <1>1, <1>4, <1>14 DEF NewDir
<1> HIDE DEF c
<1>17. ram' = [ram EXCEPT ![t] = [@ EXCEPT ![j] = f], ![f] = c]
  BY ONLY <1>2, <1>5, <1>6, <1>12
<1>18. f = FirstFree + frames /\ t = kernel_table(i)
  BY DEF f, t
<1>19. /\ i \in FirstKernel..N - 2 /\ j \in Entries /\ next_page = i * N + j
       /\ frames' = frames + 1 /\ frames' <= PoolFrames /\ pages < HeapPages /\ pages' = pages + 1
       /\ cr3' = cr3 /\ ram' = [ram EXCEPT ![kernel_table(i)] = [@ EXCEPT ![j] = f], ![f] = c]
  BY ONLY <1>1, <1>2, <1>17, <1>18
<1> QED
  BY ONLY PagingInv, u \in Users, <1>13, <1>15, <1>16, <1>18, <1>19, HeapKeeps

(* get_a_page, with and without a new table. *)
LEMMA GetKeeps ==
  ASSUME PagingInv, NEW p \in UserPages, get_a_page(p)
  PROVE  PagingInv'
<1> DEFINE i == p \div N
           j == p % N
           v == p * N
           f == FirstFree + frames
           t == FirstFree + frames + 1
<1>1. /\ cr3 # KernelDir /\ frame(ram, cr3, v) = ABSENT /\ takes_frames(v) /\ ram' = map_page(v)
      /\ UNCHANGED <<cr3, pgdir, pages>>
  BY DEF get_a_page
<1>2. i \in 0..FirstKernel - 1 /\ i \in Entries /\ j \in Entries /\ PDE_IDX(v) = i /\ PTE_IDX(v) = j
  <2>1. /\ p \in Nat /\ p < FirstKernel * N /\ FirstKernel \in Nat /\ N \in Nat \ {0}
        /\ FirstKernel < N - 2
    BY PagingAssumption, Sizes
  <2>2. p < N * N
    <3>1. FirstKernel * N <= N * N /\ N * N \in Nat /\ FirstKernel * N \in Nat
      BY ONLY <2>1
    <3> QED
      BY ONLY <2>1, <3>1
  <2>3. i \in Entries /\ j \in Entries /\ p = i * N + j
    BY <2>1, <2>2, PageParts
  <2> HIDE DEF i, j
  <2>4. i \in Nat /\ j \in 0..N - 1
    BY ONLY <2>1, <2>3 DEF Entries
  <2>5. i < FirstKernel
    <3>1. i * N + j < FirstKernel * N
      BY ONLY <2>1, <2>3
    <3> QED
      BY ONLY <2>1, <2>4, <3>1, Digits
  <2>6. PDE_IDX(v) = i /\ PTE_IDX(v) = j
    BY ONLY <2>3, PageAddress
  <2>7. i \in 0..FirstKernel - 1
    BY ONLY <2>1, <2>4, <2>5
  <2> QED
    BY ONLY <2>3, <2>6, <2>7
<1>3. PagingTypeOK
  BY DEF PagingInv
<1>4. cr3 \in user_dirs /\ cr3 \in Frames /\ cr3 \in Dirs /\ cr3 # ABSENT /\ ram[cr3][N - 1] = cr3
      /\ cr3 \in given
  BY <1>1, DirFrames
<1>5. ram \in [Frames -> [Entries -> Frames \cup {ABSENT}]]
  BY <1>3 DEF PagingTypeOK
<1> HIDE DEF i, j, v
<1>6. \A m : m[cr3][N - 1] = cr3 =>
        /\ load(m, pde_ptr(v)) = m[cr3][i]
        /\ \A x : store(m, pde_ptr(v), x) = [m EXCEPT ![cr3][i] = x]
        /\ \A x : store(m, pte_ptr(v), x) = [m EXCEPT ![m[cr3][i]][j] = x]
        /\ memset_page(m, pte_ptr(v)) = [m EXCEPT ![m[cr3][i]] = [k \in Entries |-> ABSENT]]
  <2> SUFFICES ASSUME NEW m, m[cr3][N - 1] = cr3
               PROVE  /\ load(m, pde_ptr(v)) = m[cr3][i]
                      /\ \A x : store(m, pde_ptr(v), x) = [m EXCEPT ![cr3][i] = x]
                      /\ \A x : store(m, pte_ptr(v), x) = [m EXCEPT ![m[cr3][i]][j] = x]
                      /\ memset_page(m, pte_ptr(v)) =
                           [m EXCEPT ![m[cr3][i]] = [k \in Entries |-> ABSENT]]
    OBVIOUS
  <2>1. PDE_IDX(v) \in Entries /\ PTE_IDX(v) \in Entries /\ cr3 # ABSENT
    BY ONLY <1>2, <1>4
  <2>2. LET ii == PDE_IDX(v)
            jj == PTE_IDX(v)
        IN /\ load(m, pde_ptr(v)) = m[cr3][ii]
           /\ \A x : store(m, pde_ptr(v), x) = [m EXCEPT ![cr3][ii] = x]
           /\ \A x : store(m, pte_ptr(v), x) = [m EXCEPT ![m[cr3][ii]][jj] = x]
           /\ memset_page(m, pte_ptr(v)) = [m EXCEPT ![m[cr3][ii]] = [k \in Entries |-> ABSENT]]
    BY ONLY <2>1, m[cr3][N - 1] = cr3, SelfMap
  <2> QED
    BY ONLY <1>2, <2>2
<1>7. load(ram, pde_ptr(v)) = ram[cr3][i]
  BY ONLY <1>4, <1>6
<1>8. CASE ram[cr3][i] # ABSENT
  <2>1. ram' = [ram EXCEPT ![ram[cr3][i]][j] = f]
    <3>1. store(ram, pte_ptr(v), f) = [ram EXCEPT ![ram[cr3][i]][j] = f]
      BY ONLY <1>4, <1>6
    <3> QED
      BY ONLY <1>1, <1>7, <1>8, <3>1 DEF map_page, bind_vaddr_paddr_page
  <2>2. frames' = frames + 1 /\ frames' <= PoolFrames
    BY ONLY <1>1, <1>7, <1>8 DEF takes_frames
  <2>3. ram[ram[cr3][i]][j] = ABSENT
    BY ONLY <1>1, <1>2, <1>8 DEF frame
  <2> QED
    BY ONLY PagingInv, <1>1, <1>2, <1>4, <1>8, <2>1, <2>2, <2>3, PageKeeps
<1>9. CASE ram[cr3][i] = ABSENT
  <2>1. frames' = frames + 2 /\ frames' <= PoolFrames
    BY ONLY <1>1, <1>7, <1>9 DEF takes_frames
  <2>2. f \in Frames /\ t \in Frames /\ t \notin given /\ t # f
    <3>1. \A g \in f..f + (2 - 1) : g \in Frames /\ g \notin given
      BY <1>3, <2>1, Fresh
    <3>2. f..f + (2 - 1) = {f, t} /\ t # f
      <4>1. f \in Nat /\ t = f + 1
        BY <1>3, Given, Layout
      <4> HIDE DEF f
      <4> QED
        BY ONLY <4>1
    <3> QED
      BY ONLY <3>1, <3>2
  <2>3. map_page(v) = store(memset_page(store(ram, pde_ptr(v), t), pte_ptr(v)), pte_ptr(v), f)
    BY ONLY <1>7, <1>9 DEF map_page, bind_vaddr_paddr_page
  <2> HIDE DEF f, t
  <2> DEFINE z == [k \in Entries |-> ABSENT]
             m1 == [ram EXCEPT ![cr3][i] = t]
             m2 == [m1 EXCEPT ![t] = z]
             m3 == [m2 EXCEPT ![t][j] = f]
  <2>4. t # cr3 /\ i # N - 1 /\ N - 1 \in Entries
    <3>1. i # N - 1 /\ N - 1 \in Entries
      BY ONLY <1>2, Sizes DEF Entries
    <3> QED
      BY ONLY <1>4, <2>2, <3>1
  <2>5. m1[cr3][N - 1] = cr3 /\ m1[cr3][i] = t
    BY ONLY <1>2, <1>4, <1>5, <2>4
  <2>6. m2[cr3] = m1[cr3]
    BY ONLY <1>4, <1>5, <2>2, <2>4
  <2>7. m3 = [ram EXCEPT ![cr3] = [@ EXCEPT ![i] = t],
                         ![t] = [k \in Entries |-> IF k = j THEN f ELSE ABSENT]]
    BY ONLY <1>2, <1>4, <1>5, <2>2, <2>4
  <2> HIDE DEF m1, m2, m3
  <2>8. store(ram, pde_ptr(v), t) = m1
    BY ONLY <1>4, <1>6 DEF m1
  <2>9. memset_page(m1, pte_ptr(v)) = m2
    BY ONLY <1>6, <2>5 DEF m2
  <2>10. store(m2, pte_ptr(v), f) = m3
    <3>1. m2[cr3][N - 1] = cr3 /\ m2[cr3][i] = t
      BY ONLY <2>5, <2>6
    <3>2. store(m2, pte_ptr(v), f) = [m2 EXCEPT ![m2[cr3][i]][j] = f]
      BY ONLY <1>6, <3>1
    <3> QED
      BY ONLY <3>1, <3>2 DEF m3
  <2>11. ram' = [ram EXCEPT ![cr3] = [@ EXCEPT ![i] = t],
                            ![t] = [k \in Entries |-> IF k = j THEN f ELSE ABSENT]]
    BY ONLY <1>1, <2>3, <2>7, <2>8, <2>9, <2>10
  <2>12. f = FirstFree + frames /\ t = FirstFree + frames + 1
    BY DEF f, t
  <2> QED
    BY ONLY PagingInv, <1>1, <1>2, <1>4, <1>9, <2>1, <2>11, <2>12, TableKeeps
<1> QED
  BY <1>8, <1>9

(* A step that changes no more than the directory in use and the GDT's     *)
(* address.                                                                *)
LEMMA OtherKeeps ==
  ASSUME PagingInv, UNCHANGED <<ram, pgdir, pages, frames>>, cr3' \in Dirs
  PROVE  PagingInv'
<1>1. ram' = ram /\ pgdir' = pgdir /\ pages' = pages /\ frames' = frames
  OBVIOUS
<1>2. Dirs' = Dirs
  BY ONLY <1>1 DEF Dirs
<1>3. user_dirs' = user_dirs
  BY ONLY <1>2 DEF user_dirs
<1>4. user_tables' = user_tables
  BY ONLY <1>1, <1>3 DEF user_tables
<1>5. user_pages' = user_pages
  BY ONLY <1>1, <1>4 DEF user_pages
<1>6. given' = given /\ next_page' = next_page
  BY ONLY <1>1 DEF given, next_page
<1>7. PagingTypeOK'
  BY <1>1, <1>2, <1>6 DEF PagingInv, PagingTypeOK
<1>8. SameAbove' /\ LowMapped'
  BY <1>1, <1>2 DEF PagingInv, SameAbove, LowMapped
<1>9. HeapMapped'
  BY <1>1, <1>4, <1>5, <1>6 DEF PagingInv, HeapMapped
<1>10. UserMapped'
  BY <1>1, <1>3, <1>4, <1>5, <1>6 DEF PagingInv, UserMapped
<1> QED
  BY <1>7, <1>8, <1>9, <1>10 DEF PagingInv

(* page_dir_activate: every directory maps the process's own. *)
LEMMA ActivateKeeps ==
  ASSUME PagingInv, NEW u \in Users, page_dir_activate(u)
  PROVE  PagingInv'
<1> DEFINE p == pgdir[u]
           i == p \div N
           j == p % N
           v == p * N
<1>1. /\ p # NoDir /\ cr3' = vaddr_to_paddr(ram, v) /\ UNCHANGED <<ram, gdtr, pgdir, pages, frames>>
  BY DEF page_dir_activate
<1>2. p \in K_HEAP_START..next_page - 1
  BY <1>1, DirFrame
<1> HIDE DEF p
<1>3. p \in K_HEAP_START..next_page
  BY <1>2, DirFrames, Sizes
<1>4. /\ i \in FirstKernel..N - 2 /\ j \in Entries /\ i \in Entries
      /\ PDE_IDX(v) = i /\ PTE_IDX(v) = j
      /\ \A m, dir : m[dir][i] = kernel_table(i) => frame(m, dir, v) = m[kernel_table(i)][j]
  BY <1>3, HeapPage
<1> HIDE DEF i, j, v
<1>5. /\ cr3 # ABSENT /\ ram[cr3][N - 1] = cr3 /\ ram[cr3][i] = kernel_table(i)
      /\ ram[KernelDir][i] = kernel_table(i)
  BY <1>4, DirFrames DEF PagingInv, SameAbove
<1>6. vaddr_to_paddr(ram, v) = ram[kernel_table(i)][j]
  <2>1. PDE_IDX(v) \in Entries /\ PTE_IDX(v) \in Entries /\ ram[cr3][N - 1] = cr3 /\ cr3 # ABSENT
    BY ONLY <1>4, <1>5
  <2>2. vaddr_to_paddr(ram, v) = ram[ram[cr3][PDE_IDX(v)]][PTE_IDX(v)]
    BY ONLY <2>1, SelfMap
  <2> QED
    BY ONLY <1>4, <1>5, <2>2
<1>7. frame(ram, KernelDir, v) = ram[kernel_table(i)][j]
  BY ONLY <1>4, <1>5
<1>8. cr3' \in Dirs
  BY <1>1, <1>6, <1>7 DEF Dirs, p, v
<1> QED
  BY <1>1, <1>8, OtherKeeps

(* setup_page establishes the invariant: every table of the kernel exists, *)
(* the heap is empty and there is no process.                              *)
LEMMA PagingStarts == PagingInit => PagingInv
<1> SUFFICES ASSUME PagingInit
             PROVE  PagingInv
  OBVIOUS
<1>1. /\ ram = setup_page /\ cr3 = KernelDir /\ pgdir = [u \in Users |-> NoDir] /\ pages = 0 /\ frames = 0
  BY DEF PagingInit
<1>2. Dirs = {KernelDir} /\ user_dirs = {} /\ user_tables = {} /\ user_pages = {}
  <2>1. Dirs = {KernelDir}
    BY ONLY <1>1 DEF Dirs
  <2> QED
    BY ONLY <2>1 DEF user_dirs, user_tables, user_pages
<1>3. /\ N \in Nat /\ FirstKernel \in Nat /\ LowPages \in Nat /\ PoolFrames \in Nat
      /\ 0 < FirstKernel /\ FirstKernel < N - 2 /\ 0 < LowPages /\ LowPages < N
      /\ K_HEAP_START \in Nat /\ HeapPages \in Nat /\ next_page = K_HEAP_START
  BY <1>1, Sizes DEF next_page
<1>4. /\ KernelDir \in Frames /\ FirstTable \in Frames /\ KernelDir # FirstTable
      /\ \A i \in FirstKernel..N - 2 :
           /\ kernel_table(i) \in FirstTable..FirstFree - 1 /\ kernel_table(i) \in Frames
           /\ kernel_table(i) # KernelDir
           /\ i # FirstKernel => kernel_table(i) # FirstTable /\ create_kernel_pde(i) = kernel_table(i)
      /\ kernel_table(FirstKernel) = FirstTable
      /\ \A i \in Entries \ FirstKernel + 1..N - 2 : create_kernel_pde(i) = ABSENT
      /\ 0..LowPages - 1 \subseteq Frames /\ 0 \in Frames
  BY ONLY <1>3, Layout DEF create_kernel_pde, kernel_table, FirstTable, FirstFree, KernelDir
<1>5. \A i \in Entries : create_kernel_pde(i) \in Frames \cup {ABSENT}
  BY ONLY <1>3, <1>4 DEF Entries, create_kernel_pde
<1>6. /\ \A i \in Entries : ram[KernelDir][i] = IF i \in {0, FirstKernel} THEN FirstTable
                                                ELSE IF i = N - 1 THEN KernelDir
                                                ELSE create_kernel_pde(i)
      /\ \A j \in Entries : ram[FirstTable][j] = IF j < LowPages THEN j ELSE ABSENT
      /\ \A f \in Frames, j \in Entries :
           f \in FirstTable..FirstFree - 1 /\ f # FirstTable /\ f # KernelDir => ram[f][j] = ABSENT
  BY ONLY <1>1, <1>4 DEF setup_page
<1>7. ram \in [Frames -> [Entries -> Frames \cup {ABSENT}]]
  <2>1. [i \in Entries |-> IF i \in {0, FirstKernel} THEN FirstTable
                           ELSE IF i = N - 1 THEN KernelDir ELSE create_kernel_pde(i)]
          \in [Entries -> Frames \cup {ABSENT}]
    BY ONLY <1>4, <1>5
  <2>2. [i \in Entries |-> IF i < LowPages THEN i ELSE ABSENT] \in [Entries -> Frames \cup {ABSENT}]
    <3>1. \A i \in Entries : i < LowPages => i \in 0..LowPages - 1
      BY ONLY <1>3 DEF Entries
    <3> QED
      BY ONLY <1>4, <3>1
  <2>3. /\ [i \in Entries |-> ABSENT] \in [Entries -> Frames \cup {ABSENT}]
        /\ [i \in Entries |-> 0] \in [Entries -> Frames \cup {ABSENT}]
    BY ONLY <1>4
  <2> QED
    BY ONLY <1>1, <2>1, <2>2, <2>3 DEF setup_page
<1>8. PagingTypeOK
  <2>1. pgdir \in [Users -> {NoDir} \cup K_HEAP_START..next_page - 1]
    BY ONLY <1>1
  <2>2. pages \in 0..HeapPages /\ frames \in 0..PoolFrames
    BY ONLY <1>1, <1>3
  <2> QED
    BY ONLY <1>1, <1>2, <1>7, <2>1, <2>2 DEF PagingTypeOK
<1>9. SameAbove
  <2>1. N - 1 \in Entries /\ N - 1 \notin {0, FirstKernel} /\ 0 \in Entries
        /\ \A i \in FirstKernel..N - 2 : i \in Entries /\ i # 0 /\ i # N - 1
    BY ONLY <1>3 DEF Entries
  <2>2. ram[KernelDir][N - 1] = KernelDir
    BY ONLY <1>6, <2>1
  <2>3. \A i \in FirstKernel..N - 2 : ram[KernelDir][i] = kernel_table(i)
    BY ONLY <1>4, <1>6, <2>1
  <2> QED
    BY ONLY <1>2, <2>2, <2>3 DEF SameAbove
<1>10. LowMapped
  <2>1. /\ \A i \in 0..FirstKernel - 1 : /\ i \in Entries /\ i # N - 1 /\ i # FirstKernel
                                         /\ i \in Entries \ FirstKernel + 1..N - 2
        /\ \A j \in 0..LowPages - 1 : j \in Entries /\ j < LowPages
    BY ONLY <1>3 DEF Entries
  <2>2. \A i \in 0..FirstKernel - 1 : ram[KernelDir][i] = IF i = 0 THEN FirstTable ELSE ABSENT
    BY ONLY <1>4, <1>6, <2>1
  <2>3. \A j \in 0..LowPages - 1 : ram[FirstTable][j] = j
    BY ONLY <1>6, <2>1
  <2> QED
    BY ONLY <2>2, <2>3 DEF LowMapped
<1>11. HeapMapped
  <2> SUFFICES ASSUME NEW i \in FirstKernel..N - 2, NEW j \in Entries, i * N + j >= K_HEAP_START
               PROVE  ram[kernel_table(i)][j] = ABSENT
    BY <1>3 DEF HeapMapped
  <2>1. CASE i = FirstKernel
    <3>1. FirstKernel * N \in Nat /\ j \in Nat /\ FirstKernel * N + j >= FirstKernel * N + LowPages
      BY ONLY Sizes, <2>1, j \in Entries, i * N + j >= K_HEAP_START DEF Entries
    <3>2. ~ (j < LowPages)
      BY ONLY <1>3, <3>1
    <3> QED
      BY ONLY <1>4, <1>6, <2>1, <3>2, j \in Entries
  <2>2. CASE i # FirstKernel
    BY ONLY <1>4, <1>6, <2>2, i \in FirstKernel..N - 2, j \in Entries
  <2> QED
    BY <2>1, <2>2
<1>12. UserMapped
  BY ONLY <1>2 DEF UserMapped
<1> QED
  BY <1>8, <1>9, <1>10, <1>11, <1>12 DEF PagingInv

(* The invariant of the page tables, whoever runs when the kernel maps a   *)
(* page, makes a directory or gives a page to a process.                   *)
THEOREM PagingSafe == PagingSpec => []PagingInv
<1>1. PagingInv /\ [PagingNext]_pagingVars => PagingInv'
  <2> SUFFICES ASSUME PagingInv, [PagingNext]_pagingVars
               PROVE  PagingInv'
    OBVIOUS
  <2>1. CASE tss_init
    <3>1. cr3' \in Dirs
      BY <2>1, DirFrames DEF tss_init
    <3> QED
      BY <2>1, <3>1, OtherKeeps DEF tss_init
  <2>2. CASE malloc_kernel_pages
    BY <2>2, MallocKeeps
  <2>3. ASSUME NEW u \in Users, create_page_dir(u)
        PROVE  PagingInv'
    BY <2>3, CreateKeeps
  <2>4. ASSUME NEW u \in Users, page_dir_activate(u)
        PROVE  PagingInv'
    BY <2>4, ActivateKeeps
  <2>5. ASSUME NEW p \in UserPages, get_a_page(p)
        PROVE  PagingInv'
    BY <2>5, GetKeeps
  <2>6. CASE page_dir_activate_kernel
    <3>1. cr3' \in Dirs
      BY <2>6, DirFrames DEF page_dir_activate_kernel
    <3> QED
      BY <2>6, <3>1, OtherKeeps DEF page_dir_activate_kernel
  <2>7. CASE UNCHANGED pagingVars
    <3>1. cr3' \in Dirs
      BY <2>7, DirFrames DEF pagingVars
    <3> QED
      BY <2>7, <3>1, OtherKeeps DEF pagingVars
  <2> QED
    BY <2>1, <2>2, <2>3, <2>4, <2>5, <2>6, <2>7 DEF PagingNext
<1> QED
  BY <1>1, PagingStarts, PTL DEF PagingSpec

(* Every kernel address means the same in every directory, each of which   *)
(* shows its own tables, and the next page of the heap is free in all.     *)
THEOREM PagingShared == PagingSpec => []KernelShared
<1>1. PagingInv => KernelShared
  <2> SUFFICES ASSUME PagingInv, NEW dir \in Dirs
               PROVE  /\ \A p \in FirstKernel * N..(N - 1) * N - 1 :
                           frame(ram, dir, p * N) = frame(ram, KernelDir, p * N)
                      /\ frame(ram, dir, next_page * N) = ABSENT
                      /\ \A i \in Entries \ {N - 1} :
                           /\ frame(ram, dir, pde_ptr(i * N * N)) = dir
                           /\ frame(ram, dir, pte_ptr(i * N * N)) = ram[dir][i]
    BY DEF KernelShared
  <2>1. /\ dir # ABSENT /\ ram[dir][N - 1] = dir
        /\ \A i \in FirstKernel..N - 2 : ram[dir][i] = kernel_table(i)
        /\ \A i \in FirstKernel..N - 2 : ram[KernelDir][i] = kernel_table(i)
    BY DirFrames DEF PagingInv, SameAbove
  <2>2. ASSUME NEW p \in FirstKernel * N..(N - 1) * N - 1
        PROVE  frame(ram, dir, p * N) = frame(ram, KernelDir, p * N)
    <3> DEFINE i == p \div N
               j == p % N
    <3>1. /\ i \in FirstKernel..N - 2
          /\ \A m, d : m[d][i] = kernel_table(i) => frame(m, d, p * N) = m[kernel_table(i)][j]
      BY KernelPage
    <3> HIDE DEF i, j
    <3> QED
      BY ONLY <2>1, <3>1
  <2>3. frame(ram, dir, next_page * N) = ABSENT
    <3> DEFINE i == next_page \div N
               j == next_page % N
    <3>1. next_page \in K_HEAP_START..next_page
      BY DirFrames, Sizes
    <3>2. /\ i \in FirstKernel..N - 2 /\ j \in Entries /\ next_page = i * N + j
          /\ \A m, d : m[d][i] = kernel_table(i) => frame(m, d, next_page * N) = m[kernel_table(i)][j]
      BY <3>1, HeapPage
    <3> HIDE DEF i, j
    <3>3. i * N + j >= next_page
      BY <3>2, DirFrames
    <3>4. ram[kernel_table(i)][j] = ABSENT
      BY <3>2, <3>3 DEF PagingInv, HeapMapped
    <3> QED
      BY ONLY <2>1, <3>2, <3>4
  <2>4. ASSUME NEW i \in Entries \ {N - 1}
        PROVE  /\ frame(ram, dir, pde_ptr(i * N * N)) = dir
               /\ frame(ram, dir, pte_ptr(i * N * N)) = ram[dir][i]
    <3> DEFINE v == i * N * N
    <3>1. N \in Nat \ {0} /\ i \in Nat /\ i \in Entries /\ 0 \in Entries
      BY ONLY Sizes, i \in Entries \ {N - 1} DEF Entries
    <3>2. v = (i * N + 0) * N
      BY ONLY <3>1
    <3> HIDE DEF v
    <3>3. PDE_IDX(v) = i /\ PTE_IDX(v) = 0
      BY ONLY <3>1, <3>2, PageAddress
    <3>4. /\ PDE_IDX(pte_ptr(v)) = N - 1 /\ PTE_IDX(pte_ptr(v)) = i
          /\ PDE_IDX(pde_ptr(v)) = N - 1 /\ PTE_IDX(pde_ptr(v)) = N - 1
      BY ONLY <3>1, <3>3, Pointers
    <3>5. frame(ram, dir, pde_ptr(v)) = dir /\ frame(ram, dir, pte_ptr(v)) = ram[dir][i]
      BY ONLY <2>1, <3>4 DEF frame
    <3> QED
      BY ONLY <3>5 DEF v
  <2> QED
    BY <2>2, <2>3, <2>4
<1> QED
  BY <1>1, PagingSafe, PTL

(* The entries of a page below the kernel. *)
LEMMA UserPage ==
  ASSUME NEW p \in 0..FirstKernel * N - 1
  PROVE  LET i == p \div N
             j == p % N
         IN /\ i \in 0..FirstKernel - 1 /\ j \in Entries /\ p = i * N + j
            /\ \A m, dir : frame(m, dir, p * N) = IF m[dir][i] = ABSENT THEN ABSENT ELSE m[m[dir][i]][j]
<1> DEFINE i == p \div N
           j == p % N
<1>1. /\ N \in Nat \ {0} /\ FirstKernel \in Nat /\ FirstKernel * N \in Nat /\ FirstKernel < N - 2
  BY Sizes
<1>2. p \in Nat /\ p < FirstKernel * N
  BY ONLY <1>1, p \in 0..FirstKernel * N - 1
<1>3. p < N * N
  <2>1. FirstKernel * N <= N * N /\ N * N \in Nat
    BY ONLY <1>1
  <2> QED
    BY ONLY <1>1, <1>2, <2>1
<1>4. i \in Entries /\ j \in Entries /\ p = i * N + j
  BY <1>2, <1>3, PageParts
<1> HIDE DEF i, j
<1>5. i \in Nat /\ j \in 0..N - 1
  BY <1>1, <1>4 DEF Entries
<1>6. i < FirstKernel
  <2>1. i * N + j < FirstKernel * N
    BY ONLY <1>1, <1>2, <1>4
  <2> QED
    BY ONLY <1>1, <1>5, <2>1, Digits
<1>7. i \in 0..FirstKernel - 1
  BY ONLY <1>1, <1>5, <1>6
<1>8. PDE_IDX(p * N) = i /\ PTE_IDX(p * N) = j
  BY ONLY <1>4, PageAddress
<1>9. \A m, dir : frame(m, dir, p * N) = IF m[dir][i] = ABSENT THEN ABSENT ELSE m[m[dir][i]][j]
  BY ONLY <1>8 DEF frame
<1>10. /\ i \in 0..FirstKernel - 1 /\ j \in Entries /\ p = i * N + j
       /\ \A m, dir : frame(m, dir, p * N) = IF m[dir][i] = ABSENT THEN ABSENT ELSE m[m[dir][i]][j]
  BY ONLY <1>4, <1>7, <1>9
<1> QED
  BY ONLY <1>10 DEF i, j

(* What a process maps below the kernel. *)
LEMMA MappedByUser ==
  ASSUME PagingInv, NEW dir \in user_dirs, NEW x \in Mapped(dir)
  PROVE  /\ x # ABSENT /\ x \in user_pages
         /\ \E i \in 0..FirstKernel - 1, j \in Entries :
              ram[dir][i] \in user_tables /\ x = ram[ram[dir][i]][j]
<1>1. PICK p \in 0..FirstKernel * N - 1 : x = frame(ram, dir, p * N) /\ x # ABSENT
  BY ONLY x \in Mapped(dir) DEF Mapped
<1> DEFINE i == p \div N
           j == p % N
<1>2. /\ i \in 0..FirstKernel - 1 /\ j \in Entries
      /\ \A m, d : frame(m, d, p * N) = IF m[d][i] = ABSENT THEN ABSENT ELSE m[m[d][i]][j]
  BY ONLY <1>1, UserPage
<1> HIDE DEF i, j
<1>3. ram[dir][i] # ABSENT /\ x = ram[ram[dir][i]][j]
  BY ONLY <1>1, <1>2
<1>4. ram[dir][i] \in user_tables
  BY ONLY <1>2, <1>3, dir \in user_dirs DEF user_tables
<1>5. x \in user_pages
  BY ONLY <1>1, <1>2, <1>3, <1>4 DEF user_pages
<1> QED
  BY ONLY <1>1, <1>2, <1>3, <1>4, <1>5

(* What the kernel's directory maps there: the first megabyte and pages of *)
(* the heap.                                                               *)
LEMMA MappedByKernel ==
  ASSUME PagingInv, NEW x \in Mapped(KernelDir)
  PROVE  x \notin user_pages
<1>1. PICK p \in 0..FirstKernel * N - 1 : x = frame(ram, KernelDir, p * N) /\ x # ABSENT
  BY ONLY x \in Mapped(KernelDir) DEF Mapped
<1> DEFINE i == p \div N
           j == p % N
<1>2. /\ i \in 0..FirstKernel - 1 /\ j \in Entries
      /\ \A m, d : frame(m, d, p * N) = IF m[d][i] = ABSENT THEN ABSENT ELSE m[m[d][i]][j]
  BY ONLY <1>1, UserPage
<1> HIDE DEF i, j
<1>3. ram[KernelDir][i] = (IF i = 0 THEN FirstTable ELSE ABSENT)
      /\ \A k \in 0..LowPages - 1 : ram[FirstTable][k] = k
  BY <1>2 DEF PagingInv, LowMapped
<1>4. x = ram[FirstTable][j]
  BY ONLY <1>1, <1>2, <1>3
<1>5. user_pages \subseteq given /\ \A f \in given : f >= FirstFree
  BY Given DEF PagingInv, UserMapped
<1>6. CASE j < LowPages
  <2>1. j \in 0..LowPages - 1 /\ ~ (j >= FirstFree)
    BY <1>2, <1>6, Sizes, Layout DEF Entries
  <2> QED
    BY ONLY <1>3, <1>4, <1>5, <2>1
<1>7. CASE ~ (j < LowPages)
  <2> DEFINE q == FirstKernel * N + j
  <2>1. FirstKernel \in FirstKernel..N - 2 /\ kernel_table(FirstKernel) = FirstTable
    BY Sizes, Layout
  <2>2. q \in Nat /\ q >= K_HEAP_START /\ K_HEAP_START \in Nat /\ next_page \in Nat
    <3>1. j \in Nat /\ FirstKernel * N \in Nat /\ K_HEAP_START = FirstKernel * N + LowPages /\ LowPages \in Nat
          /\ K_HEAP_START \in Nat
      BY ONLY <1>2, Sizes DEF Entries
    <3>2. next_page \in Nat
      BY DirFrames
    <3> QED
      BY ONLY <1>7, <3>1, <3>2
  <2>3. /\ q \in K_HEAP_START..next_page - 1 => x \in given \ (user_tables \cup user_pages)
        /\ q >= next_page => x = ABSENT
    BY <1>2, <1>4, <2>1 DEF PagingInv, HeapMapped
  <2> HIDE DEF q
  <2>4. q \in K_HEAP_START..next_page - 1 \/ q >= next_page
    BY ONLY <2>2
  <2> QED
    BY ONLY <1>1, <2>3, <2>4
<1> QED
  BY <1>6, <1>7

(* No page of a process is mapped by another one, is mapped twice, or is a *)
(* directory or a table.                                                   *)
THEOREM PagingApart == PagingSpec => []UserApart
<1>1. PagingInv => UserApart
  <2> SUFFICES ASSUME PagingInv, NEW dir \in user_dirs
               PROVE  /\ \A other \in Dirs \ {dir} : Mapped(dir) \cap Mapped(other) = {}
                      /\ \A p, q \in UserPages :
                           frame(ram, dir, p * N) = frame(ram, dir, q * N)
                             => p = q \/ frame(ram, dir, p * N) = ABSENT
                      /\ \A other \in Dirs :
                           Mapped(dir) \cap ({other} \cup {ram[other][i] : i \in Entries}) = {}
    BY DEF UserApart, user_dirs
  <2>1. /\ user_tables \subseteq given /\ user_pages \subseteq given \ user_tables
        /\ \A d, o \in user_dirs, i, k \in 0..FirstKernel - 1 :
             ram[d][i] = ram[o][k] => ram[d][i] = ABSENT \/ (d = o /\ i = k)
        /\ \A t, o \in user_tables, j, k \in Entries :
             ram[t][j] = ram[o][k] => ram[t][j] = ABSENT \/ (t = o /\ j = k)
    BY DEF PagingInv, UserMapped
  <2>2. ABSENT \notin user_tables
    BY DEF user_tables
  <2>3. ASSUME NEW other \in Dirs \ {dir}, NEW x \in Mapped(dir) \cap Mapped(other)
        PROVE  FALSE
    <3>1. x \in user_pages /\ x # ABSENT
      BY MappedByUser
    <3>2. other \in user_dirs
      BY <3>1, MappedByKernel DEF user_dirs
    <3>3. PICK i \in 0..FirstKernel - 1, j \in Entries :
            ram[dir][i] \in user_tables /\ x = ram[ram[dir][i]][j]
      BY MappedByUser
    <3>4. PICK k \in 0..FirstKernel - 1, l \in Entries :
            ram[other][k] \in user_tables /\ x = ram[ram[other][k]][l]
      BY <3>2, MappedByUser
    <3>5. ram[dir][i] = ram[other][k]
      <4> DEFINE t == ram[dir][i]
                 o == ram[other][k]
      <4>1. /\ t \in user_tables /\ o \in user_tables /\ j \in Entries /\ l \in Entries
            /\ ram[t][j] = ram[o][l] /\ ram[t][j] # ABSENT
        BY ONLY <3>1, <3>3, <3>4
      <4>2. \A a, b \in user_tables, m, n \in Entries :
              ram[a][m] = ram[b][n] => ram[a][m] = ABSENT \/ (a = b /\ m = n)
        BY ONLY <2>1
      <4> HIDE DEF t, o
      <4>3. t = o
        BY ONLY <4>1, <4>2
      <4> QED
        BY ONLY <4>3 DEF t, o
    <3>6. dir = other
      BY ONLY <2>1, <2>2, <3>2, <3>3, <3>4, <3>5, dir \in user_dirs
    <3> QED
      BY <3>6
  <2>4. ASSUME NEW p \in UserPages, NEW q \in UserPages,
               frame(ram, dir, p * N) = frame(ram, dir, q * N), frame(ram, dir, p * N) # ABSENT
        PROVE  p = q
    <3> DEFINE i == p \div N
               j == p % N
               k == q \div N
               l == q % N
    <3>1. p \in 0..FirstKernel * N - 1 /\ q \in 0..FirstKernel * N - 1
      BY PagingAssumption, Sizes
    <3>2. /\ i \in 0..FirstKernel - 1 /\ j \in Entries /\ p = i * N + j
          /\ \A m, d : frame(m, d, p * N) = IF m[d][i] = ABSENT THEN ABSENT ELSE m[m[d][i]][j]
      BY ONLY <3>1, UserPage
    <3>3. /\ k \in 0..FirstKernel - 1 /\ l \in Entries /\ q = k * N + l
          /\ \A m, d : frame(m, d, q * N) = IF m[d][k] = ABSENT THEN ABSENT ELSE m[m[d][k]][l]
      BY ONLY <3>1, UserPage
    <3> HIDE DEF i, j, k, l
    <3>4. /\ ram[dir][i] # ABSENT /\ ram[dir][k] # ABSENT
          /\ ram[ram[dir][i]][j] = ram[ram[dir][k]][l] /\ ram[ram[dir][i]][j] # ABSENT
      BY ONLY <2>4, <3>2, <3>3
    <3>5. ram[dir][i] \in user_tables /\ ram[dir][k] \in user_tables
      BY ONLY <3>2, <3>3, <3>4, dir \in user_dirs DEF user_tables
    <3>6. ram[dir][i] = ram[dir][k] /\ j = l
      BY ONLY <2>1, <3>2, <3>3, <3>4, <3>5
    <3>7. i = k
      BY ONLY <2>1, <3>2, <3>3, <3>4, <3>6, dir \in user_dirs
    <3> QED
      BY ONLY <3>2, <3>3, <3>6, <3>7
  <2>5. ASSUME NEW other \in Dirs,
               NEW x \in Mapped(dir) \cap ({other} \cup {ram[other][i] : i \in Entries})
        PROVE  FALSE
    <3>1. x \in user_pages /\ x # ABSENT /\ x \in given /\ x \notin user_tables
      BY <2>1, MappedByUser
    <3>2. PagingTypeOK
      BY DEF PagingInv
    <3>3. x # other
      BY <3>1, <3>2, DirFrames, Given
    <3>4. PICK i \in Entries : x = ram[other][i]
      BY <3>3
    <3>5. i # N - 1
      BY <3>3, <3>4, DirFrames
    <3>6. i \notin FirstKernel..N - 2
      <4>1. i \in FirstKernel..N - 2 => x = kernel_table(i)
        BY <3>4 DEF PagingInv, SameAbove
      <4> QED
        BY <3>1, <3>2, <4>1, Given
    <3>7. i \in 0..FirstKernel - 1
      BY ONLY <3>4, <3>5, <3>6, Sizes DEF Entries
    <3>8. CASE other = KernelDir
      <4>1. x = FirstTable \/ x = ABSENT
        BY <3>4, <3>7, <3>8 DEF PagingInv, LowMapped
      <4>2. FirstKernel \in FirstKernel..N - 2 /\ FirstTable = kernel_table(FirstKernel)
        BY Sizes, Layout
      <4> QED
        BY <3>1, <3>2, <4>1, <4>2, Given
    <3>9. CASE other # KernelDir
      <4>1. other \in user_dirs
        BY <3>9 DEF user_dirs
      <4> QED
        BY ONLY <3>1, <3>4, <3>7, <4>1 DEF user_tables
    <3> QED
      BY <3>8, <3>9
  <2> QED
    BY <2>3, <2>4, <2>5
<1> QED
  BY <1>1, PagingSafe, PTL

-----------------------------------------------------------------------------
(* Linked lists: that the pointers of list.c implement sequences.  A walk  *)
(* is a recursive function of next; what it meets on a chain is shown as   *)
(* for the loop of bitmap_request_bits.                                    *)

(* f is the walk of list l along nx. *)
IsWalk(nx, l, f) ==
  f = [k \in 0..Cardinality(Elems) |->
         IF k = 0 THEN nx[head(l)]
         ELSE IF f[k - 1] \in Elems THEN nx[f[k - 1]]
         ELSE f[k - 1]]

(* walk and contents, for any next. *)
WalkOf(nx, l) == CHOOSE f : IsWalk(nx, l, f)

ContentsOf(nx, l) ==
  LET len == Cardinality({k \in DOMAIN WalkOf(nx, l) : WalkOf(nx, l)[k] # tail(l)})
  IN [i \in 1..len |-> WalkOf(nx, l)[i - 1]]

(* They are walk and contents, before and after a step. *)
LEMMA ContentsNow ==
  ASSUME NEW l
  PROVE  contents(l) = ContentsOf(next, l) /\ contents(l)' = ContentsOf(next', l)
<1>1. walk(l) = WalkOf(next, l) /\ walk(l)' = WalkOf(next', l)
  BY DEF walk, WalkOf, IsWalk, head
<1>2. contents(l) = ContentsOf(next, l)
  BY <1>1 DEF contents, ContentsOf
<1>3. contents(l)' = ContentsOf(next', l)
  BY <1>1 DEF contents, ContentsOf, tail
<1> QED
  BY <1>2, <1>3

(* The sentinels are no elements and differ. *)
LEMMA SentinelsApart ==
  ASSUME NEW l \in Lists, NEW m \in Lists
  PROVE  /\ head(l) \in Nodes /\ tail(l) \in Nodes
         /\ head(l) \notin Elems /\ tail(l) \notin Elems
         /\ head(l) # tail(m)
         /\ head(l) = head(m) => l = m
         /\ tail(l) = tail(m) => l = m
<1>1. head(l) \in Sentinels /\ tail(l) \in Sentinels
  BY DEF Sentinels
<1>2. "head" # "tail"
  OBVIOUS
<1> QED
  BY <1>1, <1>2, ListAssumption DEF Nodes, head, tail

(* A chain is a finite sequence. *)
LEMMA ChainSeq ==
  ASSUME NEW nx, NEW pv, NEW l, NEW s, Chain(nx, pv, l, s)
  PROVE  s \in Seq(Elems) /\ Len(s) \in Nat /\ s \in [1..Len(s) -> Elems]
<1>1. s \in Seq(Elems)
  BY DEF Chain
<1> QED
  BY <1>1, LenProperties

(* A chain has no more elements than there are. *)
LEMMA ChainLength ==
  ASSUME NEW nx, NEW pv, NEW l, NEW s, Chain(nx, pv, l, s)
  PROVE  Len(s) \in Nat /\ Cardinality(Elems) \in Nat /\ Len(s) <= Cardinality(Elems)
<1>1. Len(s) \in Nat /\ s \in [1..Len(s) -> Elems]
  BY ChainSeq
<1>2. s \in Injection(1..Len(s), Elems)
  BY <1>1 DEF Chain, Injection, IsInjective
<1>3. IsFiniteSet(Elems)
  BY ListAssumption
<1>4. Cardinality(1..Len(s)) <= Cardinality(Elems)
  BY <1>2, <1>3, FS_Injection
<1>5. Cardinality(1..Len(s)) = Len(s)
  BY <1>1, FS_Interval
<1>6. Cardinality(Elems) \in Nat
  BY <1>3, FS_CardinalityType
<1> QED
  BY <1>1, <1>4, <1>5, <1>6

(* A walk along a chain: its elements in order, and then the tail. *)
LEMMA WalkMeets ==
  ASSUME NEW nx, NEW pv, NEW l \in Lists, NEW s, Chain(nx, pv, l, s)
  PROVE  WalkOf(nx, l) =
           [k \in 0..Cardinality(Elems) |-> IF k < Len(s) THEN s[k + 1] ELSE tail(l)]
<1> DEFINE C == Cardinality(Elems)
           n == Len(s)
           W(k) == IF k < n THEN s[k + 1] ELSE tail(l)
           w == [k \in 0..C |-> W(k)]
<1>1. n \in Nat /\ C \in Nat /\ n <= C /\ s \in [1..n -> Elems]
  BY ChainLength, ChainSeq
<1> HIDE DEF C, n
<1>2. head(l) \notin Elems /\ tail(l) \notin Elems
  BY SentinelsApart
<1>3. nx[head(l)] = W(0)
  <2>1. nx[node(l, s, 0)] = node(l, s, 0 + 1)
    BY <1>1 DEF Chain, n
  <2> QED
    BY <2>1, <1>1 DEF node, n
<1>4. ASSUME NEW k \in 1..C
      PROVE  W(k) = IF W(k - 1) \in Elems THEN nx[W(k - 1)] ELSE W(k - 1)
  <2>1. CASE k - 1 < n
    <3>1. nx[node(l, s, k)] = node(l, s, k + 1)
      BY <1>1, <2>1 DEF Chain, n
    <3>2. node(l, s, k) = s[k] /\ node(l, s, k + 1) = W(k)
      BY <1>1, <2>1 DEF node, n
    <3>3. W(k - 1) = s[k] /\ s[k] \in Elems
      BY <1>1, <2>1
    <3> QED
      BY <3>1, <3>2, <3>3
  <2>2. CASE ~ (k - 1 < n)
    BY <1>1, <1>2, <2>2
  <2> QED
    BY <2>1, <2>2
<1>5. IsWalk(nx, l, w)
  <2>1. ASSUME NEW k \in 0..C
        PROVE  w[k] = IF k = 0 THEN nx[head(l)]
                      ELSE IF w[k - 1] \in Elems THEN nx[w[k - 1]]
                      ELSE w[k - 1]
    <3>1. CASE k = 0
      BY <1>3, <3>1
    <3>2. CASE k # 0
      <4>1. k \in 1..C /\ k - 1 \in 0..C
        BY <1>1, <3>2
      <4>2. w[k] = W(k) /\ w[k - 1] = W(k - 1)
        BY <4>1
      <4> HIDE DEF w, W
      <4> QED
        BY <1>4, <3>2, <4>1, <4>2
    <3> QED
      BY <3>1, <3>2
  <2>2. w = [k \in 0..C |-> w[k]]
    OBVIOUS
  <2> HIDE DEF w
  <2> QED
    BY <2>1, <2>2 DEF IsWalk, C
<1>6. ASSUME NEW f, IsWalk(nx, l, f)
      PROVE  f = w
  <2> DEFINE Bad == {k \in Nat : k \in 0..C /\ f[k] # w[k]}
  <2>1. f = [k \in 0..C |-> f[k]] /\ w = [k \in 0..C |-> w[k]]
    BY <1>6 DEF IsWalk, C
  <2>2. SUFFICES ASSUME Bad # {}
                 PROVE  FALSE
    <3> HIDE DEF w
    <3> QED
      BY <2>1
  <2>3. PICK k \in Bad : \A j \in Bad : k <= j
    <3>1. Bad \subseteq Nat
      OBVIOUS
    <3> HIDE DEF Bad
    <3> QED
      BY <2>2, <3>1, LeastNat
  <2>4. k \in 0..C /\ f[k] # w[k]
    OBVIOUS
  <2>5. \A j \in 0..C : /\ f[j] = IF j = 0 THEN nx[head(l)]
                                 ELSE IF f[j - 1] \in Elems THEN nx[f[j - 1]] ELSE f[j - 1]
                        /\ w[j] = IF j = 0 THEN nx[head(l)]
                                 ELSE IF w[j - 1] \in Elems THEN nx[w[j - 1]] ELSE w[j - 1]
    <3>1. \A j \in 0..C : f[j] = IF j = 0 THEN nx[head(l)]
                                 ELSE IF f[j - 1] \in Elems THEN nx[f[j - 1]] ELSE f[j - 1]
      BY <1>6 DEF IsWalk, C
    <3> HIDE DEF w
    <3>2. \A j \in 0..C : w[j] = IF j = 0 THEN nx[head(l)]
                                 ELSE IF w[j - 1] \in Elems THEN nx[w[j - 1]] ELSE w[j - 1]
      BY <1>5 DEF IsWalk, C
    <3> QED
      BY <3>1, <3>2
  <2> HIDE DEF w
  <2>6. k # 0
    BY <2>4, <2>5
  <2>7. k - 1 \in 0..C /\ k - 1 \notin Bad
    BY <1>1, <2>3, <2>4, <2>6
  <2>8. f[k - 1] = w[k - 1]
    BY <2>7
  <2> QED
    BY <2>4, <2>5, <2>6, <2>8
<1>7. IsWalk(nx, l, WalkOf(nx, l))
  BY <1>5 DEF WalkOf
<1> QED
  BY <1>6, <1>7 DEF C, n

(* So the contents of a list are those of its chain. *)
LEMMA ContentsIs ==
  ASSUME NEW nx, NEW pv, NEW l \in Lists, NEW s, Chain(nx, pv, l, s)
  PROVE  ContentsOf(nx, l) = s
<1> DEFINE C == Cardinality(Elems)
           n == Len(s)
           w == WalkOf(nx, l)
           T == {k \in DOMAIN w : w[k] # tail(l)}
<1>1. n \in Nat /\ C \in Nat /\ n <= C /\ s \in [1..n -> Elems]
  BY ChainLength, ChainSeq
<1>2. w = [k \in 0..C |-> IF k < n THEN s[k + 1] ELSE tail(l)]
  BY WalkMeets
<1>3. tail(l) \notin Elems
  BY SentinelsApart
<1> HIDE DEF C, n, w
<1>4. T = 0..n - 1
  BY <1>1, <1>2, <1>3
<1>5. Cardinality(T) = n
  <2>1. Cardinality(0..n - 1) = n
    BY <1>1, FS_Interval
  <2> QED
    BY <1>4, <2>1
<1>6. ContentsOf(nx, l) = [i \in 1..n |-> w[i - 1]]
  <2>1. ContentsOf(nx, l) = [i \in 1..Cardinality(T) |-> w[i - 1]]
    BY DEF ContentsOf, w
  <2> QED
    BY <1>5, <2>1
<1>7. \A i \in 1..n : w[i - 1] = s[i]
  BY <1>1, <1>2
<1>8. s = [i \in 1..n |-> s[i]]
  BY <1>1
<1> QED
  BY <1>6, <1>7, <1>8

(* Nodes of chains: an element, or the sentinel at one end. *)
LEMMA NodeIs ==
  ASSUME NEW nx, NEW pv, NEW l \in Lists, NEW s, Chain(nx, pv, l, s),
         NEW i \in 0..Len(s) + 1
  PROVE  /\ node(l, s, i) \in Nodes
         /\ i = 0 => node(l, s, i) = head(l)
         /\ i = Len(s) + 1 => node(l, s, i) = tail(l)
         /\ i \in 1..Len(s) => node(l, s, i) = s[i] /\ s[i] \in Elems
<1>1. Len(s) \in Nat /\ s \in [1..Len(s) -> Elems]
  BY ChainSeq
<1>2. head(l) \in Nodes /\ tail(l) \in Nodes
  BY SentinelsApart
<1> QED
  BY <1>1, <1>2 DEF node, Nodes

(* No node is at two places. *)
LEMMA NodesApart ==
  ASSUME NEW nx, NEW pv, NEW c, Chains(nx, pv, c),
         NEW l \in Lists, NEW i \in 0..Len(c[l]) + 1,
         NEW m \in Lists, NEW j \in 0..Len(c[m]) + 1,
         node(l, c[l], i) = node(m, c[m], j)
  PROVE  l = m /\ i = j
<1>1. Chain(nx, pv, l, c[l]) /\ Chain(nx, pv, m, c[m])
  BY DEF Chains
<1>2. Len(c[l]) \in Nat /\ Len(c[m]) \in Nat
  BY <1>1, ChainSeq
<1>3. /\ i = 0 => node(l, c[l], i) = head(l)
      /\ i = Len(c[l]) + 1 => node(l, c[l], i) = tail(l)
      /\ i \in 1..Len(c[l]) => node(l, c[l], i) = c[l][i] /\ c[l][i] \in Elems
  BY <1>1, NodeIs
<1>4. /\ j = 0 => node(m, c[m], j) = head(m)
      /\ j = Len(c[m]) + 1 => node(m, c[m], j) = tail(m)
      /\ j \in 1..Len(c[m]) => node(m, c[m], j) = c[m][j] /\ c[m][j] \in Elems
  BY <1>1, NodeIs
<1>5. /\ head(l) \notin Elems /\ tail(l) \notin Elems
      /\ head(m) \notin Elems /\ tail(m) \notin Elems
      /\ head(l) # tail(m) /\ head(m) # tail(l)
      /\ head(l) = head(m) => l = m
      /\ tail(l) = tail(m) => l = m
  BY SentinelsApart
<1>6. i = 0 \/ i = Len(c[l]) + 1 \/ i \in 1..Len(c[l])
  BY <1>2
<1>7. j = 0 \/ j = Len(c[m]) + 1 \/ j \in 1..Len(c[m])
  BY <1>2
<1>8. CASE i \in 1..Len(c[l])
  <2>1. j \in 1..Len(c[m]) /\ c[l][i] = c[m][j]
    BY <1>3, <1>4, <1>5, <1>7, <1>8
  <2>2. l = m
    BY <1>8, <2>1 DEF Chains
  <2> QED
    BY <1>1, <1>8, <2>1, <2>2 DEF Chain
<1>9. CASE i = 0
  BY <1>3, <1>4, <1>5, <1>7, <1>9
<1>10. CASE i = Len(c[l]) + 1
  BY <1>3, <1>4, <1>5, <1>7, <1>10
<1> QED
  BY <1>6, <1>8, <1>9, <1>10

-----------------------------------------------------------------------------
(* A sequence with e put before its i-th place, or without that place. *)
With(s, i, e) ==
  [j \in 1..Len(s) + 1 |-> IF j < i THEN s[j] ELSE IF j = i THEN e ELSE s[j - 1]]

Without(s, i) == [j \in 1..Len(s) - 1 |-> IF j < i THEN s[j] ELSE s[j + 1]]

(* The first is a sequence, with one element more. *)
LEMMA WithSeq ==
  ASSUME NEW S, NEW s \in Seq(S), NEW i \in 1..Len(s) + 1, NEW e \in S
  PROVE  With(s, i, e) \in Seq(S) /\ Len(With(s, i, e)) = Len(s) + 1
<1> DEFINE n == Len(s)
           t == With(s, i, e)
<1>1. n \in Nat /\ s \in [1..n -> S]
  BY LenProperties
<1>2. t \in [1..n + 1 -> S]
  <2> HIDE DEF n
  <2>1. \A j \in 1..n + 1 : ~ (j < i) /\ j # i => j - 1 \in 1..n
    BY <1>1 DEF n
  <2>2. \A j \in 1..n + 1 : j < i => j \in 1..n
    BY <1>1 DEF n
  <2> QED
    BY <1>1, <2>1, <2>2 DEF With, n
<1>3. n + 1 \in Nat
  BY <1>1
<1> HIDE DEF n, t
<1>4. t \in Seq(S)
  BY <1>2, <1>3
<1>5. Len(t) = n + 1
  BY <1>2, <1>3, <1>4, LenProperties
<1> QED
  BY <1>4, <1>5 DEF n, t

(* So is the second, with one fewer. *)
LEMMA WithoutSeq ==
  ASSUME NEW S, NEW s \in Seq(S), NEW i \in 1..Len(s)
  PROVE  Without(s, i) \in Seq(S) /\ Len(Without(s, i)) = Len(s) - 1
<1> DEFINE n == Len(s)
           t == Without(s, i)
<1>1. n \in Nat /\ n >= 1 /\ s \in [1..n -> S]
  BY LenProperties
<1>2. t \in [1..n - 1 -> S]
  <2>1. \A j \in 1..n - 1 : j \in 1..n /\ j + 1 \in 1..n
    BY <1>1
  <2> QED
    BY <1>1, <2>1 DEF Without
<1>3. n - 1 \in Nat
  BY <1>1
<1> HIDE DEF n, t
<1>4. t \in Seq(S)
  BY <1>2, <1>3
<1>5. Len(t) = n - 1
  BY <1>2, <1>3, <1>4, LenProperties
<1> QED
  BY <1>4, <1>5 DEF n, t

-----------------------------------------------------------------------------
(* A new element put into a sequence without repetition repeats nothing. *)
LEMMA WithOnce ==
  ASSUME NEW n \in Nat, NEW s, NEW t, NEW e, NEW i \in 1..n + 1,
         \A p, q \in 1..n : s[p] = s[q] => p = q,
         \A p \in 1..n : s[p] # e,
         \A j \in 1..n + 1 : t[j] = IF j < i THEN s[j] ELSE IF j = i THEN e ELSE s[j - 1]
  PROVE  \A j, k \in 1..n + 1 : t[j] = t[k] => j = k
<1> SUFFICES ASSUME NEW j \in 1..n + 1, NEW k \in 1..n + 1, t[j] = t[k]
             PROVE  j = k
  OBVIOUS
<1> DEFINE from(x) == IF x < i THEN x ELSE x - 1
<1>1. ASSUME NEW x \in 1..n + 1, x # i
      PROVE  from(x) \in 1..n /\ t[x] = s[from(x)]
  BY <1>1
<1>2. t[i] = e
  OBVIOUS
<1>3. CASE j = i \/ k = i
  BY <1>1, <1>2, <1>3
<1>4. CASE j # i /\ k # i
  <2>1. from(j) \in 1..n /\ from(k) \in 1..n /\ s[from(j)] = s[from(k)]
    BY <1>1, <1>4
  <2>2. from(j) = from(k)
    BY <2>1
  <2> QED
    BY <1>4, <2>2
<1> QED
  BY <1>3, <1>4

(* Inserting an element that is in no list: one chain grows, at one place, *)
(* whatever the element's own pointers were.                               *)
LEMMA InsertChains ==
  ASSUME NEW nx, NEW pv, NEW c, Chains(nx, pv, c), DOMAIN c = Lists,
         NEW l \in Lists, NEW i \in 1..Len(c[l]) + 1, NEW e \in Elems,
         \A m \in Lists : \A j \in 1..Len(c[m]) : c[m][j] # e,
         NEW b, b = node(l, c[l], i)
  PROVE  /\ pv[b] = node(l, c[l], i - 1)
         /\ Chains([nx EXCEPT ![pv[b]] = e, ![e] = b], [pv EXCEPT ![e] = pv[b], ![b] = e],
                   [c EXCEPT ![l] = With(c[l], i, e)])
<1> DEFINE s == c[l]
           n == Len(s)
           a == node(l, s, i - 1)
           t == With(s, i, e)
           nx1 == [nx EXCEPT ![a] = e, ![e] = b]
           pv1 == [pv EXCEPT ![e] = a, ![b] = e]
           c1 == [c EXCEPT ![l] = t]
<1>1. Chain(nx, pv, l, s)
  BY DEF Chains
<1>2. n \in Nat /\ s \in Seq(Elems) /\ s \in [1..n -> Elems]
  BY <1>1, ChainSeq
<1>3. i - 1 \in 0..n /\ i - 1 \in 0..n + 1 /\ i \in 0..n + 1 /\ i - 1 + 1 = i
  BY <1>2
<1>4. pv[b] = a
  <2>1. pv[node(l, s, i - 1 + 1)] = node(l, s, i - 1)
    BY <1>1, <1>3 DEF Chain
  <2> QED
    BY <1>3, <2>1
<1>5. \A m \in Lists : \A j \in 0..Len(c[m]) + 1 :
        node(m, c[m], j) \in Nodes /\ node(m, c[m], j) # e
  <2> SUFFICES ASSUME NEW m \in Lists, NEW j \in 0..Len(c[m]) + 1
               PROVE  node(m, c[m], j) \in Nodes /\ node(m, c[m], j) # e
    OBVIOUS
  <2>1. Chain(nx, pv, m, c[m])
    BY DEF Chains
  <2>2. Len(c[m]) \in Nat
    BY <2>1, ChainSeq
  <2>3. j = 0 \/ j = Len(c[m]) + 1 \/ j \in 1..Len(c[m])
    BY <2>2
  <2>4. head(m) # e /\ tail(m) # e
    BY SentinelsApart
  <2> QED
    BY <2>1, <2>3, <2>4, NodeIs
<1>6. a \in Nodes /\ a # e /\ b \in Nodes /\ b # e /\ e \in Nodes
  BY <1>3, <1>5 DEF Nodes
<1>7. nx \in [Nodes -> Nodes \cup {NULL}] /\ pv \in [Nodes -> Nodes \cup {NULL}]
  BY DEF Chains
<1>8. t \in Seq(Elems) /\ Len(t) = n + 1
  BY <1>2, WithSeq
<1>9. \A m \in Lists : \A j \in 0..Len(c[m]) + 1 :
        /\ node(m, c[m], j) = a => m = l /\ j = i - 1
        /\ node(m, c[m], j) = b => m = l /\ j = i
  BY <1>3, NodesApart
<1>10. /\ nx1 \in [Nodes -> Nodes \cup {NULL}] /\ pv1 \in [Nodes -> Nodes \cup {NULL}]
       /\ nx1[a] = e /\ nx1[e] = b /\ pv1[e] = a /\ pv1[b] = e
       /\ \A x \in Nodes : x # a /\ x # e => nx1[x] = nx[x]
       /\ \A x \in Nodes : x # b /\ x # e => pv1[x] = pv[x]
  <2> HIDE DEF a
  <2> QED
    BY <1>6, <1>7
<1>11. ASSUME NEW m \in Lists, m # l
       PROVE  Chain(nx1, pv1, m, c[m])
  <2>1. Chain(nx, pv, m, c[m])
    BY DEF Chains
  <2>2. Len(c[m]) \in Nat
    BY <2>1, ChainSeq
  <2> HIDE DEF nx1, pv1, a
  <2>3. ASSUME NEW j \in 0..Len(c[m])
        PROVE  /\ nx1[node(m, c[m], j)] = node(m, c[m], j + 1)
               /\ pv1[node(m, c[m], j + 1)] = node(m, c[m], j)
    <3>1. j \in 0..Len(c[m]) + 1 /\ j + 1 \in 0..Len(c[m]) + 1
      BY <2>2
    <3>2. /\ nx[node(m, c[m], j)] = node(m, c[m], j + 1)
          /\ pv[node(m, c[m], j + 1)] = node(m, c[m], j)
      BY <2>1 DEF Chain
    <3> QED
      BY <1>5, <1>9, <1>10, <1>11, <3>1, <3>2
  <2> QED
    BY <2>1, <2>3 DEF Chain
<1>12. \A j \in 0..n + 2 :
         node(l, t, j) = IF j < i THEN node(l, s, j)
                         ELSE IF j = i THEN e ELSE node(l, s, j - 1)
  <2> SUFFICES ASSUME NEW j \in 0..n + 2
               PROVE  node(l, t, j) = IF j < i THEN node(l, s, j)
                                      ELSE IF j = i THEN e ELSE node(l, s, j - 1)
    OBVIOUS
  <2>1. CASE j = 0
    BY <1>2, <2>1 DEF node
  <2>2. CASE j = n + 2
    BY <1>2, <1>8, <2>2 DEF node
  <2>3. CASE j \in 1..n + 1
    <3>1. node(l, t, j) = t[j]
      BY <1>2, <1>8, <2>3 DEF node
    <3>2. t[j] = IF j < i THEN s[j] ELSE IF j = i THEN e ELSE s[j - 1]
      BY <2>3 DEF With
    <3> HIDE DEF t
    <3> QED
      BY <1>2, <2>3, <3>1, <3>2 DEF node
  <2> QED
    BY <1>2, <2>1, <2>2, <2>3
<1>13. Chain(nx1, pv1, l, t)
  <2> HIDE DEF nx1, pv1, t
  <2>1. ASSUME NEW j \in 0..n + 1
        PROVE  nx1[node(l, t, j)] = node(l, t, j + 1) /\ pv1[node(l, t, j + 1)] = node(l, t, j)
    <3>1. j \in 0..n + 2 /\ j + 1 \in 0..n + 2
      BY <1>2
    <3>2. CASE j < i - 1
      <4>1. j \in 0..n /\ j \in 0..n + 1 /\ j + 1 \in 0..n + 1 /\ j < i /\ j + 1 < i
        BY <1>2, <1>3, <3>2
      <4>2. node(l, t, j) = node(l, s, j) /\ node(l, t, j + 1) = node(l, s, j + 1)
        BY <1>12, <3>1, <4>1
      <4>3. nx[node(l, s, j)] = node(l, s, j + 1) /\ pv[node(l, s, j + 1)] = node(l, s, j)
        BY <1>1, <4>1 DEF Chain
      <4>4. j # i - 1 /\ j + 1 # i
        BY <3>2, <4>1
      <4> HIDE DEF a, n, s
      <4> QED
        BY <1>5, <1>9, <1>10, <4>1, <4>2, <4>3, <4>4 DEF s, n
    <3>3. CASE j = i - 1
      <4>1. node(l, t, j) = a /\ node(l, t, j + 1) = e
        BY <1>3, <1>12, <3>1, <3>3
      <4> QED
        BY <1>10, <4>1
    <3>4. CASE j = i
      <4>1. node(l, t, j) = e /\ node(l, t, j + 1) = b
        BY <1>2, <1>12, <3>1, <3>4
      <4> QED
        BY <1>10, <4>1
    <3>5. CASE j > i
      <4>1. j - 1 \in 0..n /\ j - 1 \in 0..n + 1 /\ j - 1 + 1 = j /\ j \in 0..n + 1 /\ j + 1 - 1 = j
        BY <1>2, <1>3, <3>5
      <4>2. node(l, t, j) = node(l, s, j - 1) /\ node(l, t, j + 1) = node(l, s, j)
        BY <1>12, <3>1, <3>5, <4>1
      <4>3. nx[node(l, s, j - 1)] = node(l, s, j) /\ pv[node(l, s, j)] = node(l, s, j - 1)
        BY <1>1, <4>1 DEF Chain
      <4>4. j - 1 # i - 1 /\ j # i
        BY <3>5, <4>1
      <4> HIDE DEF a, n, s
      <4> QED
        BY <1>5, <1>9, <1>10, <4>1, <4>2, <4>3, <4>4 DEF s, n
    <3> QED
      BY <1>3, <3>2, <3>3, <3>4, <3>5
  <2>2. \A j, k \in 1..n + 1 : t[j] = t[k] => j = k
    <3>1. \A j \in 1..n + 1 : t[j] = IF j < i THEN s[j] ELSE IF j = i THEN e ELSE s[j - 1]
      BY DEF t, With
    <3>2. \A p, q \in 1..n : s[p] = s[q] => p = q
      BY <1>1 DEF Chain
    <3>3. \A p \in 1..n : s[p] # e
      OBVIOUS
    <3>4. i \in 1..n + 1
      OBVIOUS
    <3> HIDE DEF s, n
    <3> QED
      BY <1>2, <3>1, <3>2, <3>3, <3>4, WithOnce
  <2> QED
    BY <1>8, <2>1, <2>2 DEF Chain
<1>14. \A m \in Lists : c1[m] = IF m = l THEN t ELSE c[m]
  <2> HIDE DEF t
  <2> QED
    OBVIOUS
<1>15. \A j \in 1..Len(t) : t[j] = e \/ \E k \in 1..n : t[j] = s[k]
  <2>1. \A j \in 1..n + 1 : /\ t[j] = IF j < i THEN s[j] ELSE IF j = i THEN e ELSE s[j - 1]
                            /\ j < i => j \in 1..n
                            /\ j > i => j - 1 \in 1..n
    BY <1>2 DEF With
  <2> HIDE DEF t, s, n
  <2> QED
    BY <1>2, <1>3, <1>8, <2>1
<1>16. ASSUME NEW m \in Lists, NEW o \in Lists, m # o,
              NEW j \in 1..Len(c1[m]), NEW k \in 1..Len(c1[o])
       PROVE  c1[m][j] # c1[o][k]
  <2> HIDE DEF t, c1
  <2>1. \A p \in 1..n : m # l => \A q \in 1..Len(c[m]) : s[p] # c[m][q]
    BY DEF Chains
  <2>2. \A p \in 1..n : o # l => \A q \in 1..Len(c[o]) : s[p] # c[o][q]
    BY DEF Chains
  <2>3. CASE m = l
    BY <1>14, <1>15, <1>16, <2>2, <2>3
  <2>4. CASE o = l
    BY <1>14, <1>15, <1>16, <2>1, <2>4
  <2>5. CASE m # l /\ o # l
    BY <1>14, <1>16, <2>5 DEF Chains
  <2> QED
    BY <2>3, <2>4, <2>5
<1>17. Chains(nx1, pv1, c1)
  <2> HIDE DEF nx1, pv1, c1, t, s
  <2>1. \A m \in Lists : Chain(nx1, pv1, m, c1[m])
    BY <1>11, <1>13, <1>14
  <2> QED
    BY <1>10, <1>16, <2>1 DEF Chains
<1> QED
  BY <1>4, <1>17

(* Unlinking the i-th element of a list: one chain loses it. *)
LEMMA UnlinkChains ==
  ASSUME NEW nx, NEW pv, NEW c, Chains(nx, pv, c), DOMAIN c = Lists,
         NEW l \in Lists, NEW i \in 1..Len(c[l]), NEW e, e = c[l][i]
  PROVE  Chains([nx EXCEPT ![pv[e]] = nx[e]], [pv EXCEPT ![nx[e]] = pv[e]],
                [c EXCEPT ![l] = Without(c[l], i)])
<1> DEFINE s == c[l]
           n == Len(s)
           a == node(l, s, i - 1)
           b == node(l, s, i + 1)
           t == Without(s, i)
           nx1 == [nx EXCEPT ![a] = b]
           pv1 == [pv EXCEPT ![b] = a]
           c1 == [c EXCEPT ![l] = t]
<1>1. Chain(nx, pv, l, s)
  BY DEF Chains
<1>2. n \in Nat /\ s \in Seq(Elems) /\ s \in [1..n -> Elems]
  BY <1>1, ChainSeq
<1>3. /\ i \in Nat /\ i - 1 \in 0..n /\ i - 1 \in 0..n + 1 /\ i \in 0..n /\ i \in 0..n + 1
      /\ i - 1 + 1 = i /\ i + 1 \in 0..n + 1
  BY <1>2
<1>4. pv[e] = a /\ nx[e] = b
  <2>1. pv[node(l, s, i - 1 + 1)] = node(l, s, i - 1) /\ nx[node(l, s, i)] = node(l, s, i + 1)
    BY <1>1, <1>3 DEF Chain
  <2>2. node(l, s, i) = e
    BY <1>1, <1>3, NodeIs
  <2> QED
    BY <1>3, <2>1, <2>2
<1>5. \A m \in Lists : \A j \in 0..Len(c[m]) + 1 : node(m, c[m], j) \in Nodes
  BY NodeIs DEF Chains
<1>6. a \in Nodes /\ b \in Nodes
  BY <1>3, <1>5
<1>7. nx \in [Nodes -> Nodes \cup {NULL}] /\ pv \in [Nodes -> Nodes \cup {NULL}]
  BY DEF Chains
<1>8. t \in Seq(Elems) /\ Len(t) = n - 1
  BY <1>2, WithoutSeq
<1>9. \A m \in Lists : \A j \in 0..Len(c[m]) + 1 :
        /\ node(m, c[m], j) = a => m = l /\ j = i - 1
        /\ node(m, c[m], j) = b => m = l /\ j = i + 1
  BY <1>3, NodesApart
<1>10. /\ nx1 \in [Nodes -> Nodes \cup {NULL}] /\ pv1 \in [Nodes -> Nodes \cup {NULL}]
       /\ nx1[a] = b /\ pv1[b] = a
       /\ \A x \in Nodes : x # a => nx1[x] = nx[x]
       /\ \A x \in Nodes : x # b => pv1[x] = pv[x]
  <2> HIDE DEF a, b
  <2> QED
    BY <1>6, <1>7
<1>11. ASSUME NEW m \in Lists, m # l
       PROVE  Chain(nx1, pv1, m, c[m])
  <2>1. Chain(nx, pv, m, c[m])
    BY DEF Chains
  <2>2. Len(c[m]) \in Nat
    BY <2>1, ChainSeq
  <2> HIDE DEF nx1, pv1, a, b
  <2>3. ASSUME NEW j \in 0..Len(c[m])
        PROVE  /\ nx1[node(m, c[m], j)] = node(m, c[m], j + 1)
               /\ pv1[node(m, c[m], j + 1)] = node(m, c[m], j)
    <3>1. j \in 0..Len(c[m]) + 1 /\ j + 1 \in 0..Len(c[m]) + 1
      BY <2>2
    <3>2. /\ nx[node(m, c[m], j)] = node(m, c[m], j + 1)
          /\ pv[node(m, c[m], j + 1)] = node(m, c[m], j)
      BY <2>1 DEF Chain
    <3> QED
      BY <1>5, <1>9, <1>10, <1>11, <3>1, <3>2
  <2> QED
    BY <2>1, <2>3 DEF Chain
<1>12. \A j \in 0..n : node(l, t, j) = IF j < i THEN node(l, s, j) ELSE node(l, s, j + 1)
  <2> SUFFICES ASSUME NEW j \in 0..n
               PROVE  node(l, t, j) = IF j < i THEN node(l, s, j) ELSE node(l, s, j + 1)
    OBVIOUS
  <2>1. CASE j = 0
    BY <1>2, <2>1 DEF node
  <2>2. CASE j = n /\ j # 0
    <3>1. ~ (j < i) /\ j # 0 /\ j + 1 # 0 /\ j + 1 \notin 1..n /\ j \notin 1..n - 1
      BY <1>2, <2>2
    <3> HIDE DEF t, s, n
    <3> QED
      BY <1>8, <3>1 DEF node, n
  <2>3. CASE j \in 1..n - 1
    <3>1. node(l, t, j) = t[j]
      BY <1>2, <1>8, <2>3 DEF node
    <3>2. t[j] = IF j < i THEN s[j] ELSE s[j + 1]
      BY <2>3 DEF Without
    <3> HIDE DEF t
    <3> QED
      BY <1>2, <2>3, <3>1, <3>2 DEF node
  <2>4. j = 0 \/ (j = n /\ j # 0) \/ j \in 1..n - 1
    <3>1. n \in Nat /\ j \in 0..n
      BY <1>2
    <3> HIDE DEF n
    <3> QED
      BY ONLY <3>1
  <2> QED
    BY <2>1, <2>2, <2>3, <2>4
<1>13. Chain(nx1, pv1, l, t)
  <2> HIDE DEF nx1, pv1, t
  <2>1. ASSUME NEW j \in 0..n - 1
        PROVE  nx1[node(l, t, j)] = node(l, t, j + 1) /\ pv1[node(l, t, j + 1)] = node(l, t, j)
    <3>1. j \in 0..n /\ j + 1 \in 0..n
      BY <1>2
    <3>2. CASE j < i - 1
      <4>1. j \in 0..n /\ j \in 0..n + 1 /\ j + 1 \in 0..n + 1 /\ j < i /\ j + 1 < i
        BY <1>2, <1>3, <3>2
      <4>2. node(l, t, j) = node(l, s, j) /\ node(l, t, j + 1) = node(l, s, j + 1)
        BY <1>12, <3>1, <4>1
      <4>3. nx[node(l, s, j)] = node(l, s, j + 1) /\ pv[node(l, s, j + 1)] = node(l, s, j)
        BY <1>1, <4>1 DEF Chain
      <4>4. j # i - 1 /\ j + 1 # i + 1
        BY <3>2, <4>1
      <4> HIDE DEF a, b, n, s
      <4> QED
        BY <1>5, <1>9, <1>10, <4>1, <4>2, <4>3, <4>4 DEF s, n
    <3>3. CASE j = i - 1
      <4>1. node(l, t, j) = a /\ node(l, t, j + 1) = b
        BY <1>3, <1>12, <3>1, <3>3
      <4> QED
        BY <1>10, <4>1
    <3>4. CASE j >= i
      <4>1. j + 1 \in 0..n /\ j + 1 \in 0..n + 1 /\ j + 2 \in 0..n + 1 /\ j + 1 + 1 = j + 2
        BY <1>2, <1>3, <3>4
      <4>2. node(l, t, j) = node(l, s, j + 1) /\ node(l, t, j + 1) = node(l, s, j + 2)
        BY <1>3, <1>12, <3>1, <3>4, <4>1
      <4>3. nx[node(l, s, j + 1)] = node(l, s, j + 2) /\ pv[node(l, s, j + 2)] = node(l, s, j + 1)
        BY <1>1, <4>1 DEF Chain
      <4>4. j + 1 # i - 1 /\ j + 2 # i + 1
        BY <1>3, <3>4, <4>1
      <4> HIDE DEF a, b, n, s
      <4> QED
        BY <1>5, <1>9, <1>10, <4>1, <4>2, <4>3, <4>4 DEF s, n
    <3> QED
      BY <1>3, <3>2, <3>3, <3>4
  <2>2. ASSUME NEW j \in 1..n - 1, NEW k \in 1..n - 1, t[j] = t[k]
        PROVE  j = k
    <3> DEFINE from(x) == IF x < i THEN x ELSE x + 1
    <3>1. t[j] = s[from(j)] /\ t[k] = s[from(k)]
      BY DEF t, Without
    <3>2. \A p, q \in 1..n : s[p] = s[q] => p = q
      BY <1>1 DEF Chain
    <3>3. from(j) \in 1..n /\ from(k) \in 1..n
      BY <1>2
    <3>4. from(j) = from(k)
      BY <2>2, <3>1, <3>2, <3>3
    <3> QED
      BY <1>2, <1>3, <3>4
  <2> QED
    BY <1>8, <2>1, <2>2 DEF Chain
<1>14. \A m \in Lists : c1[m] = IF m = l THEN t ELSE c[m]
  <2> HIDE DEF t
  <2> QED
    OBVIOUS
<1>15. \A j \in 1..Len(t) : \E k \in 1..n : t[j] = s[k]
  <2>1. \A j \in 1..n - 1 : /\ t[j] = IF j < i THEN s[j] ELSE s[j + 1]
                            /\ j \in 1..n /\ j + 1 \in 1..n
    BY <1>2 DEF Without
  <2> HIDE DEF t, s, n
  <2> QED
    BY <1>2, <1>3, <1>8, <2>1
<1>16. ASSUME NEW m \in Lists, NEW o \in Lists, m # o,
              NEW j \in 1..Len(c1[m]), NEW k \in 1..Len(c1[o])
       PROVE  c1[m][j] # c1[o][k]
  <2> HIDE DEF t, c1
  <2>1. \A p \in 1..n : m # l => \A q \in 1..Len(c[m]) : s[p] # c[m][q]
    BY DEF Chains
  <2>2. \A p \in 1..n : o # l => \A q \in 1..Len(c[o]) : s[p] # c[o][q]
    BY DEF Chains
  <2>3. CASE m = l
    BY <1>14, <1>15, <1>16, <2>2, <2>3
  <2>4. CASE o = l
    BY <1>14, <1>15, <1>16, <2>1, <2>4
  <2>5. CASE m # l /\ o # l
    BY <1>14, <1>16, <2>5 DEF Chains
  <2> QED
    BY <2>3, <2>4, <2>5
<1>17. Chains(nx1, pv1, c1)
  <2> HIDE DEF nx1, pv1, c1, t, s
  <2>1. \A m \in Lists : Chain(nx1, pv1, m, c1[m])
    BY <1>11, <1>13, <1>14
  <2> QED
    BY <1>10, <1>16, <2>1 DEF Chains
<1> QED
  BY <1>4, <1>17

-----------------------------------------------------------------------------
(* push, append and insert_before on sequences, in terms of With. *)
LEMMA PutForms ==
  ASSUME NEW S, NEW s \in Seq(S), NEW e \in S
  PROVE  /\ Abs!list_push(s, e) = With(s, 1, e)
         /\ Abs!list_append(s, e) = With(s, Len(s) + 1, e)
         /\ \A i \in 1..Len(s) : Abs!before(s, i, e) = With(s, i, e)
<1> DEFINE n == Len(s)
<1>1. n \in Nat /\ s \in [1..n -> S]
  BY LenProperties
<1>2. \A i \in 1..n + 1 : With(s, i, e) \in Seq(S) /\ Len(With(s, i, e)) = n + 1
  BY WithSeq
<1>3. \A i \in 1..n + 1 : \A j \in 1..n + 1 :
        With(s, i, e)[j] = IF j < i THEN s[j] ELSE IF j = i THEN e ELSE s[j - 1]
  BY DEF With
<1>4. <<e>> \in Seq(S) /\ Len(<<e>>) = 1 /\ <<e>>[1] = e
  OBVIOUS
<1>5. Abs!list_push(s, e) = With(s, 1, e)
  <2> DEFINE u == <<e>> \o s
  <2>1. u \in Seq(S) /\ Len(u) = 1 + n
    BY <1>4, ConcatProperties
  <2>2. \A j \in 1..1 + n : u[j] = IF j <= 1 THEN <<e>>[j] ELSE s[j - 1]
    BY <1>4, ConcatProperties
  <2>3. 1 \in 1..n + 1 /\ 1 + n = n + 1
    BY <1>1
  <2> HIDE DEF u, n
  <2>4. \A j \in 1..n + 1 : u[j] = With(s, 1, e)[j]
    BY <1>1, <1>3, <1>4, <2>2, <2>3
  <2>5. u = With(s, 1, e)
    BY <1>2, <2>1, <2>3, <2>4, SeqEqual
  <2> QED
    BY <2>5 DEF Abs!list_push, u
<1>6. Abs!list_append(s, e) = With(s, n + 1, e)
  <2> DEFINE u == Append(s, e)
  <2>1. /\ u \in Seq(S) /\ Len(u) = n + 1
        /\ \A j \in 1..n : u[j] = s[j]
        /\ u[n + 1] = e
    BY AppendProperties
  <2>2. n + 1 \in 1..n + 1
    BY <1>1
  <2> HIDE DEF u, n
  <2>3. \A j \in 1..n + 1 : u[j] = With(s, n + 1, e)[j]
    BY <1>1, <1>3, <2>1, <2>2
  <2>4. u = With(s, n + 1, e)
    BY <1>2, <2>1, <2>2, <2>3, SeqEqual
  <2> QED
    BY <2>4 DEF Abs!list_append, u
<1>7. ASSUME NEW i \in 1..n
      PROVE  Abs!before(s, i, e) = With(s, i, e)
  <2> DEFINE p == SubSeq(s, 1, i - 1)
             q == SubSeq(s, i, n)
             u == p \o <<e>>
             v == u \o q
  <2>1. p \in Seq(S) /\ Len(p) = i - 1 /\ \A j \in 1..i - 1 : p[j] = s[j]
    <3>1. 1 \in Int /\ i - 1 \in Int /\ \A j \in 1..i - 1 : s[j] \in S
      BY <1>1
    <3>2. /\ p \in Seq(S)
          /\ Len(p) = IF 1 <= i - 1 THEN i - 1 - 1 + 1 ELSE 0
          /\ \A j \in 1..i - 1 - 1 + 1 : p[j] = s[1 + j - 1]
      BY <3>1, SubSeqProperties
    <3> HIDE DEF p
    <3> QED
      BY <1>1, <3>2
  <2>2. q \in Seq(S) /\ Len(q) = n - i + 1 /\ \A j \in 1..n - i + 1 : q[j] = s[i + j - 1]
    <3>1. i \in Int /\ n \in Int /\ \A j \in i..n : s[j] \in S
      BY <1>1
    <3>2. /\ q \in Seq(S)
          /\ Len(q) = IF i <= n THEN n - i + 1 ELSE 0
          /\ \A j \in 1..n - i + 1 : q[j] = s[i + j - 1]
      BY <3>1, SubSeqProperties
    <3> HIDE DEF q
    <3> QED
      BY <1>1, <3>2
  <2> HIDE DEF p, q, n
  <2>3. /\ u \in Seq(S) /\ Len(u) = i
        /\ \A j \in 1..i : u[j] = IF j < i THEN s[j] ELSE e
    <3>1. /\ u \in Seq(S) /\ Len(u) = Len(p) + 1
          /\ \A j \in 1..Len(p) + 1 : u[j] = IF j <= Len(p) THEN p[j] ELSE <<e>>[j - Len(p)]
      BY <1>4, <2>1, ConcatProperties
    <3>2. i - 1 + 1 = i /\ i - (i - 1) = 1 /\ i \in Nat
      BY <1>1
    <3> HIDE DEF u
    <3>3. /\ u \in Seq(S) /\ Len(u) = i
          /\ \A j \in 1..i : u[j] = IF j <= i - 1 THEN p[j] ELSE <<e>>[j - (i - 1)]
      BY <2>1, <3>1, <3>2
    <3>4. ASSUME NEW j \in 1..i
          PROVE  u[j] = IF j < i THEN s[j] ELSE e
      <4>1. CASE j < i
        <5>1. j \in 1..i - 1 /\ j <= i - 1
          BY <3>2, <4>1
        <5> QED
          BY <2>1, <3>3, <4>1, <5>1
      <4>2. CASE j = i
        <5>1. ~ (j <= i - 1) /\ ~ (j < i) /\ j - (i - 1) = 1
          BY <3>2, <4>2
        <5> QED
          BY <1>4, <3>3, <5>1
      <4> QED
        BY <3>2, <4>1, <4>2
    <3> QED
      BY <3>3, <3>4
  <2> HIDE DEF u
  <2>4. /\ v \in Seq(S) /\ Len(v) = n + 1
        /\ \A j \in 1..n + 1 : v[j] = IF j <= i THEN u[j] ELSE q[j - i]
    <3>1. /\ v \in Seq(S) /\ Len(v) = Len(u) + Len(q)
          /\ \A j \in 1..Len(u) + Len(q) : v[j] = IF j <= Len(u) THEN u[j] ELSE q[j - Len(u)]
      BY <2>2, <2>3, ConcatProperties
    <3>2. i + (n - i + 1) = n + 1
      BY <1>1
    <3> HIDE DEF v
    <3> QED
      BY <2>2, <2>3, <3>1, <3>2
  <2> HIDE DEF v
  <2>5. \A j \in 1..n + 1 : v[j] = With(s, i, e)[j]
    <3> SUFFICES ASSUME NEW j \in 1..n + 1
                 PROVE  v[j] = With(s, i, e)[j]
      OBVIOUS
    <3>1. CASE j <= i
      BY <1>1, <1>3, <2>3, <2>4, <3>1
    <3>2. CASE j > i
      <4>1. j - i \in 1..n - i + 1 /\ i + (j - i) - 1 = j - 1 /\ i \in 1..n + 1
        BY <1>1, <3>2
      <4>2. v[j] = s[j - 1]
        BY <2>2, <2>4, <3>2, <4>1
      <4> QED
        BY <1>3, <3>2, <4>1, <4>2
    <3> QED
      BY <1>1, <3>1, <3>2
  <2>6. v = With(s, i, e)
    <3>1. i \in 1..n + 1
      BY <1>1
    <3> QED
      BY <1>2, <2>4, <2>5, <3>1, SeqEqual
  <2> QED
    BY <2>6 DEF Abs!before, p, q, u, v, n
<1> QED
  BY <1>5, <1>6, <1>7

(* remove and pop on sequences, in terms of Without. *)
LEMMA RemoveForms ==
  ASSUME NEW S, NEW s \in Seq(S)
  PROVE  /\ \A i \in 1..Len(s) : Abs!without(s, i) = Without(s, i)
         /\ s # <<>> => Abs!list_popped(s) = Without(s, 1) /\ Abs!list_pop(s) = s[1]
<1> DEFINE n == Len(s)
<1>1. n \in Nat /\ s \in [1..n -> S]
  BY LenProperties
<1>2. \A i \in 1..n : Without(s, i) \in Seq(S) /\ Len(Without(s, i)) = n - 1
  BY WithoutSeq
<1>3. \A i \in 1..n : \A j \in 1..n - 1 :
        Without(s, i)[j] = IF j < i THEN s[j] ELSE s[j + 1]
  BY DEF Without
<1>4. ASSUME NEW i \in 1..n
      PROVE  Abs!without(s, i) = Without(s, i)
  <2> DEFINE p == SubSeq(s, 1, i - 1)
             q == SubSeq(s, i + 1, n)
             v == p \o q
  <2>1. p \in Seq(S) /\ Len(p) = i - 1 /\ \A j \in 1..i - 1 : p[j] = s[j]
    <3>1. 1 \in Int /\ i - 1 \in Int /\ \A j \in 1..i - 1 : s[j] \in S
      BY <1>1
    <3>2. /\ p \in Seq(S)
          /\ Len(p) = IF 1 <= i - 1 THEN i - 1 - 1 + 1 ELSE 0
          /\ \A j \in 1..i - 1 - 1 + 1 : p[j] = s[1 + j - 1]
      BY <3>1, SubSeqProperties
    <3> HIDE DEF p
    <3> QED
      BY <1>1, <3>2
  <2>2. q \in Seq(S) /\ Len(q) = n - i /\ \A j \in 1..n - i : q[j] = s[i + j]
    <3>1. i + 1 \in Int /\ n \in Int /\ \A j \in i + 1..n : s[j] \in S
      BY <1>1
    <3>2. /\ q \in Seq(S)
          /\ Len(q) = IF i + 1 <= n THEN n - (i + 1) + 1 ELSE 0
          /\ \A j \in 1..n - (i + 1) + 1 : q[j] = s[i + 1 + j - 1]
      BY <3>1, SubSeqProperties
    <3>3. n - (i + 1) + 1 = n - i /\ \A j \in 1..n - i : i + 1 + j - 1 = i + j
      BY <1>1
    <3>4. n \in Nat /\ i \in Nat /\ i <= n
      BY <1>1
    <3> HIDE DEF q, n
    <3>5. Len(q) = n - i
      BY <3>2, <3>3, <3>4
    <3>6. \A j \in 1..n - i : q[j] = s[i + j]
      BY <3>2, <3>3
    <3> QED
      BY <3>2, <3>5, <3>6
  <2> HIDE DEF p, q, n
  <2>3. /\ v \in Seq(S) /\ Len(v) = n - 1
        /\ \A j \in 1..n - 1 : v[j] = IF j <= i - 1 THEN p[j] ELSE q[j - (i - 1)]
    <3>1. /\ v \in Seq(S) /\ Len(v) = Len(p) + Len(q)
          /\ \A j \in 1..Len(p) + Len(q) : v[j] = IF j <= Len(p) THEN p[j] ELSE q[j - Len(p)]
      BY <2>1, <2>2, ConcatProperties
    <3>2. i - 1 + (n - i) = n - 1
      BY <1>1
    <3> HIDE DEF v
    <3> QED
      BY <2>1, <2>2, <3>1, <3>2
  <2> HIDE DEF v
  <2>4. ASSUME NEW j \in 1..n - 1
        PROVE  v[j] = Without(s, i)[j]
    <3>1. CASE j < i
      BY <1>1, <1>3, <2>1, <2>3, <3>1
    <3>2. CASE j >= i
      <4>1. j - (i - 1) \in 1..n - i /\ i + (j - (i - 1)) = j + 1 /\ ~ (j <= i - 1)
        BY <1>1, <3>2
      <4>2. v[j] = s[j + 1]
        BY <2>2, <2>3, <4>1
      <4> QED
        BY <1>1, <1>3, <3>2, <4>2
    <3> QED
      BY <1>1, <3>1, <3>2
  <2>5. v = Without(s, i)
    BY <1>2, <2>3, <2>4, SeqEqual
  <2> QED
    BY <2>5 DEF Abs!without, p, q, v, n
<1>5. ASSUME s # <<>>
      PROVE  Abs!list_popped(s) = Without(s, 1) /\ Abs!list_pop(s) = s[1]
  <2> DEFINE v == Tail(s)
  <2>1. v \in Seq(S) /\ Len(v) = n - 1 /\ \A j \in 1..Len(v) : v[j] = s[j + 1]
    BY <1>5, HeadTailProperties
  <2>2. n # 0 /\ 1 \in 1..n
    BY <1>1, <1>5, EmptySeq, SeqEqual
  <2> HIDE DEF v, n
  <2>3. \A j \in 1..n - 1 : v[j] = Without(s, 1)[j]
    BY <1>1, <1>3, <2>1, <2>2
  <2>4. v = Without(s, 1)
    BY <1>2, <2>1, <2>2, <2>3, SeqEqual
  <2>5. Head(s) = s[1]
    BY <1>5
  <2> QED
    BY <2>4, <2>5 DEF Abs!list_popped, Abs!list_pop, v
<1> QED
  BY <1>4, <1>5

-----------------------------------------------------------------------------
(* The refinement mapping, and what a step must be under it. *)
cc == [l \in Lists |-> contents(l)]

AbsStep == [Abs!Next]_<<cc, answer>>

(* A chain for every list gives the contents after a step. *)
LEMMA NewContents ==
  ASSUME NEW c1, c1 = [l \in Lists |-> c1[l]], Chains(next', prev', c1)
  PROVE  cc' = c1 /\ ListInv'
<1>1. \A l \in Lists : contents(l)' = c1[l]
  BY ContentsNow, ContentsIs DEF Chains
<1>2. cc' = [l \in Lists |-> contents(l)']
  BY DEF cc
<1>3. cc' = c1
  BY <1>1, <1>2
<1>4. ListInv' <=> Chains(next', prev', cc')
  BY DEF ListInv, cc, Chains, Chain, node, Nodes, Sentinels, head, tail
<1> QED
  BY <1>3, <1>4

(* The contents before a step. *)
LEMMA OldContents ==
  ASSUME ListInv
  PROVE  /\ Chains(next, prev, cc)
         /\ DOMAIN cc = Lists /\ cc = [l \in Lists |-> cc[l]]
         /\ \A l \in Lists : /\ cc[l] = contents(l) /\ Chain(next, prev, l, cc[l])
                             /\ cc[l] \in Seq(Elems) /\ Len(cc[l]) \in Nat
                             /\ DOMAIN cc[l] = 1..Len(cc[l])
<1>1. Chains(next, prev, cc)
  BY DEF ListInv, cc
<1>2. DOMAIN cc = Lists /\ cc = [l \in Lists |-> cc[l]] /\ \A l \in Lists : cc[l] = contents(l)
  BY DEF cc
<1>3. \A l \in Lists : Chain(next, prev, l, cc[l])
  BY <1>1 DEF Chains
<1>4. \A l \in Lists : cc[l] \in Seq(Elems)
  BY <1>3, ChainSeq
<1> QED
  BY <1>1, <1>2, <1>3, <1>4, LenProperties

(* linked asks whether an element is in the sequence. *)
LEMMA LinkedIs ==
  ASSUME ListInv, NEW l \in Lists, NEW e
  PROVE  /\ linked(l, e) <=> \E i \in 1..Len(cc[l]) : cc[l][i] = e
         /\ linked(l, e) = Abs!elem_find(cc[l], e)
<1>1. cc[l] = contents(l) /\ DOMAIN cc[l] = 1..Len(cc[l])
  BY OldContents
<1>2. linked(l, e) = \E i \in DOMAIN cc[l] : cc[l][i] = e
  BY <1>1 DEF linked
<1>3. Abs!elem_find(cc[l], e) = \E i \in 1..Len(cc[l]) : cc[l][i] = e
  BY DEF Abs!elem_find
<1> QED
  BY <1>1, <1>2, <1>3

(* A step that puts a free element at a place is abstractly a Put. *)
LEMMA AbsPut ==
  ASSUME ListInv, NEW l \in Lists, NEW e \in Elems, NEW i \in 1..Len(cc[l]) + 1,
         \A m \in Lists : ~ linked(m, e),
         cc' = [cc EXCEPT ![l] = With(cc[l], i, e)], answer' = <<"none">>
  PROVE  AbsStep
<1>1. SUFFICES ASSUME answer' # answer \/ cc' # cc
               PROVE  Abs!Next
  BY DEF AbsStep
<1>2. cc[l] \in Seq(Elems) /\ Len(cc[l]) \in Nat
  BY OldContents
<1>3. \A m \in Lists : ~ Abs!elem_find(cc[m], e)
  BY LinkedIs
<1>4. /\ Abs!list_append(cc[l], e) = With(cc[l], Len(cc[l]) + 1, e)
      /\ \A j \in 1..Len(cc[l]) : Abs!before(cc[l], j, e) = With(cc[l], j, e)
  BY <1>2, PutForms
<1>5. CASE i = Len(cc[l]) + 1
  <2>1. Abs!become(l, Abs!list_append(cc[l], e), <<"none">>)
    BY <1>4, <1>5 DEF Abs!become, cc
  <2>2. Abs!Put(l, e)
    BY <1>3, <2>1 DEF Abs!Put, Abs!free, cc
  <2> QED
    BY <1>1, <2>2 DEF Abs!Next, cc
<1>6. CASE i \in 1..Len(cc[l])
  <2>1. Abs!become(l, Abs!before(cc[l], i, e), <<"none">>)
    BY <1>4, <1>6 DEF Abs!become, cc
  <2>2. Abs!Put(l, e)
    BY <1>3, <1>6, <2>1 DEF Abs!Put, Abs!free, cc
  <2> QED
    BY <1>1, <2>2 DEF Abs!Next, cc
<1> QED
  BY <1>2, <1>5, <1>6

(* One that takes out the i-th element is a Remove. *)
LEMMA AbsRemove ==
  ASSUME ListInv, NEW l \in Lists, NEW i \in 1..Len(cc[l]),
         cc' = [cc EXCEPT ![l] = Without(cc[l], i)], answer' = <<"none">>
  PROVE  AbsStep
<1>1. SUFFICES ASSUME answer' # answer \/ cc' # cc
               PROVE  Abs!Next
  BY DEF AbsStep
<1>2. cc[l] \in Seq(Elems)
  BY OldContents
<1>3. Abs!without(cc[l], i) = Without(cc[l], i)
  BY <1>2, RemoveForms
<1>4. Abs!become(l, Abs!without(cc[l], i), <<"none">>)
  BY <1>3 DEF Abs!become, cc
<1>5. Abs!Remove(l)
  BY <1>4 DEF Abs!Remove, cc
<1> QED
  BY <1>1, <1>5 DEF Abs!Next, cc

(* One that takes out the first and returns it is a Pop. *)
LEMMA AbsPop ==
  ASSUME ListInv, NEW l \in Lists, cc[l] # <<>>,
         cc' = [cc EXCEPT ![l] = Without(cc[l], 1)], answer' = <<"pop", cc[l][1]>>
  PROVE  AbsStep
<1>1. SUFFICES ASSUME answer' # answer \/ cc' # cc
               PROVE  Abs!Next
  BY DEF AbsStep
<1>2. cc[l] \in Seq(Elems)
  BY OldContents
<1>3. Abs!list_popped(cc[l]) = Without(cc[l], 1) /\ Abs!list_pop(cc[l]) = cc[l][1]
  BY <1>2, RemoveForms
<1>4. Abs!become(l, Abs!list_popped(cc[l]), <<"pop", Abs!list_pop(cc[l])>>)
  BY <1>3 DEF Abs!become, cc
<1>5. Abs!Pop(l)
  BY <1>4 DEF Abs!Pop, Abs!list_empty, cc
<1> QED
  BY <1>1, <1>5 DEF Abs!Next, cc

(* A question leaves every list as it is. *)
LEMMA SameContents ==
  ASSUME ListInv, UNCHANGED <<prev, next>>
  PROVE  cc' = cc /\ ListInv'
<1>1. Chains(next, prev, cc) /\ cc = [l \in Lists |-> cc[l]]
  BY OldContents
<1>2. Chains(next', prev', cc)
  BY <1>1
<1> HIDE DEF cc
<1> QED
  BY <1>1, <1>2, NewContents

(* The questions are answered as the sequences say. *)
LEMMA AbsAsk ==
  ASSUME ListInv, UNCHANGED <<prev, next>>, NEW l \in Lists,
         \/ \E e \in Elems : answer' = <<"find", linked(l, e)>>
         \/ answer' = <<"len", Len(cc[l])>>
         \/ answer' = <<"empty", cc[l] = <<>> >>
  PROVE  AbsStep
<1>1. cc' = cc
  BY SameContents
<1>2. SUFFICES ASSUME answer' # answer \/ cc' # cc
               PROVE  Abs!Next
  BY DEF AbsStep
<1>3. \A e \in Elems : linked(l, e) = Abs!elem_find(cc[l], e)
  BY LinkedIs
<1>4. CASE \E e \in Elems : answer' = <<"find", linked(l, e)>>
  <2>1. PICK e \in Elems : answer' = <<"find", Abs!elem_find(cc[l], e)>>
    BY <1>3, <1>4
  <2>2. Abs!say(<<"find", Abs!elem_find(cc[l], e)>>)
    BY <1>1, <2>1 DEF Abs!say, cc
  <2>3. Abs!Ask(l)
    BY <2>2 DEF Abs!Ask, cc
  <2> QED
    BY <1>2, <2>3 DEF Abs!Next, cc
<1>5. CASE answer' = <<"len", Len(cc[l])>>
  <2>1. Abs!say(<<"len", Len(cc[l])>>)
    BY <1>1, <1>5 DEF Abs!say, cc
  <2>2. Abs!Ask(l)
    BY <2>1 DEF Abs!Ask, cc
  <2> QED
    BY <1>2, <2>2 DEF Abs!Next, cc
<1>6. CASE answer' = <<"empty", cc[l] = <<>> >>
  <2>1. Abs!say(<<"empty", Abs!list_empty(cc[l])>>)
    BY <1>1, <1>6 DEF Abs!say, Abs!list_empty, cc
  <2>2. Abs!Ask(l)
    BY <2>1 DEF Abs!Ask, cc
  <2> QED
    BY <1>2, <2>2 DEF Abs!Next, cc
<1> QED
  BY <1>4, <1>5, <1>6

(* list_traversal returns the first hit of the sequence. *)
LEMMA AbsTraverse ==
  ASSUME ListInv, NEW l \in Lists, NEW hits \in SUBSET Elems, list_traversal(l, hits)
  PROVE  AbsStep
<1> DEFINE s == cc[l]
           matching == {i \in DOMAIN s : s[i] \in hits}
           least == CHOOSE i \in matching : \A j \in matching : i <= j
<1>1. cc' = cc
  BY SameContents DEF list_traversal
<1>2. SUFFICES ASSUME answer' # answer \/ cc' # cc
               PROVE  Abs!Next
  BY DEF AbsStep
<1>3. /\ s = contents(l) /\ s \in Seq(Elems) /\ Len(s) \in Nat /\ DOMAIN s = 1..Len(s)
      /\ Chain(next, prev, l, s)
  BY OldContents
<1>4. next[head(l)] = tail(l) => Len(s) = 0
  <2>1. next[node(l, s, 0)] = node(l, s, 0 + 1)
    BY <1>3 DEF Chain
  <2>2. Len(s) # 0 => next[head(l)] = s[1] /\ s[1] \in Elems
    BY <1>3, <2>1, NodeIs DEF node
  <2>3. tail(l) \notin Elems
    BY SentinelsApart
  <2> QED
    BY <2>2, <2>3
<1>5. matching \subseteq Nat /\ (Len(s) = 0 => matching = {})
  BY <1>3
<1>6. answer' = IF next[head(l)] = tail(l) \/ matching = {} THEN <<"traversal", NULL>>
                ELSE <<"traversal", s[least]>>
  BY <1>3 DEF list_traversal
<1> HIDE DEF s
<1>7. CASE matching = {}
  <2>1. \A i \in 1..Len(s) : s[i] \notin hits
    BY <1>3, <1>7
  <2>2. Abs!say(<<"traversal", NULL>>)
    BY <1>1, <1>6, <1>7 DEF Abs!say, cc
  <2>3. Abs!Traverse(l, hits)
    BY <2>1, <2>2 DEF Abs!Traverse, s, cc
  <2> QED
    BY <1>2, <2>3 DEF Abs!Next, cc
<1>8. CASE matching # {}
  <2>1. \E i \in matching : \A j \in matching : i <= j
    <3> HIDE DEF matching
    <3> QED
      BY <1>5, <1>8, LeastNat
  <2>2. least \in matching /\ \A j \in matching : least <= j
    <3> HIDE DEF matching
    <3> QED
      BY <2>1
  <2>3. answer' = <<"traversal", s[least]>>
    BY <1>4, <1>5, <1>6, <1>8
  <2> HIDE DEF least
  <2>4. /\ least \in 1..Len(s) /\ s[least] \in hits
        /\ \A j \in 1..least - 1 : s[j] \notin hits
    <3>1. least \in 1..Len(s) /\ s[least] \in hits
      BY <1>3, <2>2
    <3>2. ASSUME NEW j \in 1..least - 1, s[j] \in hits
          PROVE  FALSE
      <4>1. j \in matching
        BY <1>3, <3>1, <3>2
      <4>2. least <= j
        BY <2>2, <4>1
      <4> QED
        BY <1>3, <3>1, <4>2
    <3> QED
      BY <3>1, <3>2
  <2>5. Abs!say(<<"traversal", s[least]>>)
    BY <1>1, <2>3 DEF Abs!say, cc
  <2>6. Abs!Traverse(l, hits)
    BY <2>4, <2>5 DEF Abs!Traverse, s, cc
  <2> QED
    BY <1>2, <2>6 DEF Abs!Next, cc
<1> QED
  BY <1>7, <1>8

-----------------------------------------------------------------------------
(* Every insertion is one at a place of a list. *)
LEMMA InsertStep ==
  ASSUME ListInv, NEW l \in Lists, NEW e \in Elems, NEW i \in 1..Len(cc[l]) + 1,
         \A m \in Lists : ~ linked(m, e),
         insert(node(l, cc[l], i), e), answer' = <<"none">>
  PROVE  ListInv' /\ AbsStep
<1> DEFINE b == node(l, cc[l], i)
           c1 == [cc EXCEPT ![l] = With(cc[l], i, e)]
<1>1. Chains(next, prev, cc) /\ DOMAIN cc = Lists /\ cc = [m \in Lists |-> cc[m]]
  BY OldContents
<1>2. \A m \in Lists : \A j \in 1..Len(cc[m]) : cc[m][j] # e
  BY LinkedIs
<1>3. Chains([next EXCEPT ![prev[b]] = e, ![e] = b], [prev EXCEPT ![e] = prev[b], ![b] = e], c1)
  <2> HIDE DEF cc
  <2> QED
    BY <1>1, <1>2, InsertChains
<1>4. Chains(next', prev', c1)
  BY <1>3 DEF insert
<1>5. c1 = [m \in Lists |-> c1[m]]
  BY <1>1
<1>6. cc' = c1 /\ ListInv'
  <2> HIDE DEF c1
  <2> QED
    BY <1>4, <1>5, NewContents
<1> QED
  BY <1>6, AbsPut

(* Every removal is one of a place of a list. *)
LEMMA UnlinkStep ==
  ASSUME ListInv, NEW l \in Lists, NEW i \in 1..Len(cc[l]), unlink(cc[l][i])
  PROVE  ListInv' /\ cc' = [cc EXCEPT ![l] = Without(cc[l], i)]
<1> DEFINE e == cc[l][i]
           c1 == [cc EXCEPT ![l] = Without(cc[l], i)]
<1>1. Chains(next, prev, cc) /\ DOMAIN cc = Lists /\ cc = [m \in Lists |-> cc[m]]
  BY OldContents
<1>2. Chains([next EXCEPT ![prev[e]] = next[e]], [prev EXCEPT ![next[e]] = prev[e]], c1)
  <2> HIDE DEF cc
  <2> QED
    BY <1>1, UnlinkChains
<1>3. Chains(next', prev', c1)
  BY <1>2 DEF unlink
<1>4. c1 = [m \in Lists |-> c1[m]]
  BY <1>1
<1>5. cc' = c1 /\ ListInv'
  <2> HIDE DEF c1
  <2> QED
    BY <1>3, <1>4, NewContents
<1> QED
  BY <1>5

(* The places that push, append and list_insert_before insert at, and the  *)
(* one that pop removes.                                                   *)
LEMMA Places ==
  ASSUME ListInv, NEW l \in Lists
  PROVE  /\ next[head(l)] = node(l, cc[l], 1) /\ 1 \in 1..Len(cc[l]) + 1
         /\ tail(l) = node(l, cc[l], Len(cc[l]) + 1) /\ Len(cc[l]) + 1 \in 1..Len(cc[l]) + 1
         /\ \A i \in 1..Len(cc[l]) : cc[l][i] = node(l, cc[l], i) /\ i \in 1..Len(cc[l]) + 1
         /\ next[head(l)] = tail(l) <=> cc[l] = <<>>
         /\ cc[l] # <<>> => 1 \in 1..Len(cc[l]) /\ next[head(l)] = cc[l][1]
<1> DEFINE s == cc[l]
<1>1. s \in Seq(Elems) /\ Len(s) \in Nat /\ Chain(next, prev, l, s)
  BY OldContents
<1>2. next[node(l, s, 0)] = node(l, s, 0 + 1)
  BY <1>1 DEF Chain
<1> HIDE DEF s
<1>3. next[head(l)] = node(l, s, 1)
  BY <1>2 DEF node
<1>4. tail(l) = node(l, s, Len(s) + 1)
  BY <1>1 DEF node
<1>5. \A i \in 1..Len(s) : s[i] = node(l, s, i) /\ s[i] \in Elems
  BY <1>1, ElementOfSeq DEF node
<1>6. tail(l) \notin Elems
  BY SentinelsApart
<1>7. s = <<>> <=> Len(s) = 0
  BY <1>1, EmptySeq, SeqEqual
<1>8. Len(s) = 0 => next[head(l)] = tail(l)
  BY <1>3, <1>4
<1>9. Len(s) # 0 => 1 \in 1..Len(s)
  BY <1>1
<1>10. Len(s) # 0 => next[head(l)] = s[1] /\ next[head(l)] # tail(l)
  BY <1>3, <1>5, <1>6, <1>9
<1>11. 1 \in 1..Len(s) + 1 /\ Len(s) + 1 \in 1..Len(s) + 1 /\ \A i \in 1..Len(s) : i \in 1..Len(s) + 1
  BY <1>1
<1> QED
  BY <1>3, <1>4, <1>5, <1>7, <1>8, <1>9, <1>10, <1>11 DEF s

(* One step for each function of list.c. *)
LEMMA ListStep ==
  ASSUME ListInv, [ListNext]_listVars
  PROVE  ListInv' /\ AbsStep
<1>1. CASE UNCHANGED listVars
  <2>1. cc' = cc /\ ListInv'
    BY <1>1, SameContents DEF listVars
  <2>2. answer' = answer
    BY <1>1 DEF listVars
  <2> QED
    BY <2>1, <2>2 DEF AbsStep
<1>2. ASSUME NEW e \in Elems, \A m \in Lists : ~ linked(m, e),
             NEW l \in Lists,
             \/ list_push(l, e)
             \/ list_append(l, e)
             \/ \E before \in Elems : list_insert_before(l, before, e)
      PROVE  ListInv' /\ AbsStep
  <2>1. CASE list_push(l, e)
    BY <1>2, <2>1, Places, InsertStep DEF list_push
  <2>2. CASE list_append(l, e)
    BY <1>2, <2>2, Places, InsertStep DEF list_append
  <2>3. ASSUME NEW before \in Elems, list_insert_before(l, before, e)
        PROVE  ListInv' /\ AbsStep
    <3>1. PICK i \in 1..Len(cc[l]) : cc[l][i] = before
      BY <2>3, LinkedIs DEF list_insert_before
    <3>2. i \in 1..Len(cc[l]) + 1 /\ before = node(l, cc[l], i)
      BY <3>1, Places
    <3> QED
      BY <1>2, <2>3, <3>2, InsertStep DEF list_insert_before
  <2> QED
    BY <1>2, <2>1, <2>2, <2>3
<1>3. ASSUME NEW l \in Lists, NEW e \in Elems, linked(l, e), list_remove(e)
      PROVE  ListInv' /\ AbsStep
  <2>1. PICK i \in 1..Len(cc[l]) : cc[l][i] = e
    BY <1>3, LinkedIs
  <2>2. ListInv' /\ cc' = [cc EXCEPT ![l] = Without(cc[l], i)]
    BY <1>3, <2>1, UnlinkStep DEF list_remove
  <2> QED
    BY <1>3, <2>2, AbsRemove DEF list_remove
<1>4. ASSUME NEW l \in Lists, list_pop(l)
      PROVE  ListInv' /\ AbsStep
  <2>1. cc[l] # <<>>
    BY <1>4, Places DEF list_pop
  <2>2. 1 \in 1..Len(cc[l]) /\ next[head(l)] = cc[l][1]
    BY <2>1, Places
  <2>3. ListInv' /\ cc' = [cc EXCEPT ![l] = Without(cc[l], 1)]
    BY <1>4, <2>2, UnlinkStep DEF list_pop
  <2> QED
    BY <1>4, <2>1, <2>2, <2>3, AbsPop DEF list_pop
<1>5. ASSUME NEW l \in Lists, NEW e \in Elems, elem_find(l, e)
      PROVE  ListInv' /\ AbsStep
  BY <1>5, SameContents, AbsAsk DEF elem_find
<1>6. ASSUME NEW l \in Lists, NEW hits \in SUBSET Elems, list_traversal(l, hits)
      PROVE  ListInv' /\ AbsStep
  <2>1. UNCHANGED <<prev, next>>
    BY <1>6 DEF list_traversal
  <2> QED
    BY <1>6, <2>1, SameContents, AbsTraverse
<1>7. ASSUME NEW l \in Lists, list_len(l)
      PROVE  ListInv' /\ AbsStep
  <2>1. contents(l) = cc[l] /\ DOMAIN cc[l] = 1..Len(cc[l]) /\ Len(cc[l]) \in Nat
    BY OldContents
  <2>2. Cardinality(1..Len(cc[l])) = Len(cc[l])
    BY <2>1, FS_Interval
  <2>3. answer' = <<"len", Len(cc[l])>> /\ UNCHANGED <<prev, next>>
    BY <1>7, <2>1, <2>2 DEF list_len
  <2> QED
    BY <2>3, SameContents, AbsAsk
<1>8. ASSUME NEW l \in Lists, list_empty(l)
      PROVE  ListInv' /\ AbsStep
  <2>1. (next[head(l)] = tail(l)) = (cc[l] = <<>>)
    BY Places
  <2>2. answer' = <<"empty", cc[l] = <<>> >> /\ UNCHANGED <<prev, next>>
    BY <1>8, <2>1 DEF list_empty
  <2> QED
    BY <2>2, SameContents, AbsAsk
<1> QED
  BY <1>1, <1>2, <1>3, <1>4, <1>5, <1>6, <1>7, <1>8 DEF ListNext

(* list_init leaves chains without elements. *)
LEMMA ListStart ==
  ASSUME ListInit
  PROVE  ListInv /\ Abs!Init
<1> DEFINE c == [l \in Lists |-> <<>>]
<1>1. \A n \in Elems : \A l \in Lists : n # head(l) /\ n # tail(l)
  BY SentinelsApart
<1>2. next \in [Nodes -> Nodes \cup {NULL}] /\ prev \in [Nodes -> Nodes \cup {NULL}]
  <2>1. ASSUME NEW n \in Nodes
        PROVE  next[n] \in Nodes \cup {NULL} /\ prev[n] \in Nodes \cup {NULL}
    <3>1. CASE \E l \in Lists : n = head(l)
      <4>1. PICK l \in Lists : n = head(l)
        BY <3>1
      <4>2. next[n] = tail(l) /\ prev[n] = NULL
        BY <4>1, SentinelsApart DEF ListInit, head, tail
      <4> QED
        BY <4>2, SentinelsApart
    <3>2. CASE \E l \in Lists : n = tail(l)
      <4>1. PICK l \in Lists : n = tail(l)
        BY <3>2
      <4>2. prev[n] = head(l) /\ next[n] = NULL
        BY <4>1, SentinelsApart DEF ListInit, head, tail
      <4> QED
        BY <4>2, SentinelsApart
    <3>3. CASE ~ (\E l \in Lists : n = head(l)) /\ ~ (\E l \in Lists : n = tail(l))
      BY <3>3 DEF ListInit
    <3> QED
      BY <3>1, <3>2, <3>3
  <2>2. next = [n \in Nodes |-> next[n]] /\ prev = [n \in Nodes |-> prev[n]]
    BY DEF ListInit
  <2> QED
    BY <2>1, <2>2
<1>3. ASSUME NEW l \in Lists
      PROVE  Chain(next, prev, l, <<>>)
  <2>1. head(l) \in Nodes /\ tail(l) \in Nodes
    BY SentinelsApart
  <2>2. next[head(l)] = tail(l) /\ prev[tail(l)] = head(l)
    BY <2>1 DEF ListInit, head, tail
  <2>3. Len(<<>>) = 0 /\ <<>> \in Seq(Elems)
    BY EmptySeq
  <2>4. node(l, <<>>, 0) = head(l) /\ node(l, <<>>, 0 + 1) = tail(l)
    BY <2>3 DEF node
  <2>5. \A i \in 0..0 : i = 0
    OBVIOUS
  <2> QED
    BY <2>2, <2>3, <2>4, <2>5 DEF Chain
<1>4. \A l \in Lists : contents(l) = <<>>
  BY <1>3, ContentsNow, ContentsIs
<1>5. cc = c
  BY <1>4 DEF cc
<1>6. Chains(next, prev, c)
  BY <1>2, <1>3, EmptySeq DEF Chains
<1> HIDE DEF c
<1>7. ListInv
  BY <1>5, <1>6 DEF ListInv, cc
<1>8. Abs!Init
  BY <1>5 DEF ListInit, Abs!Init, Abs!list_init, cc, c
<1> QED
  BY <1>7, <1>8

(* Whatever is pushed, appended, inserted, removed and popped, and however *)
(* stale the pointers of removed elements are, prev and next stay inverse  *)
(* to each other along every list.                                         *)
THEOREM ListsLinked == ListSpec => []ListInv
<1>1. ListInit => ListInv
  BY ListStart
<1>2. ListInv /\ [ListNext]_listVars => ListInv'
  BY ListStep
<1> QED
  BY <1>1, <1>2, PTL DEF ListSpec

(* list.c implements lists as sequences, for any number of lists and of    *)
(* elements: each function changes one sequence at one place, or answers   *)
(* what the sequences say.                                                 *)
THEOREM ListsAreSequences == ListSpec => ListsImplemented
<1>1. ListInit => ListInv /\ Abs!Init
  BY ListStart
<1>2. ListInv /\ [ListNext]_listVars => ListInv' /\ [Abs!Next]_<<cc, answer>>
  BY ListStep DEF AbsStep
<1> QED
  BY <1>1, <1>2, PTL DEF ListSpec, ListsImplemented, Abs!Spec, cc
=============================================================================
