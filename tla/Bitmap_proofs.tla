--------------------------- MODULE Bitmap_proofs ---------------------------
(***************************************************************************)
(* What the search of bitmap_request_bits returns, for a bitmap of any     *)
(* length and any number of bits.  The loop that counts free bits is a     *)
(* recursive function; that it is defined, and what it computes, is shown  *)
(* by taking the least number at which it would not be.                    *)
(***************************************************************************)
EXTENDS Bitmap, WellFoundedInduction, TLAPS

(* Every set of numbers that is not empty has a least one. *)
LEMMA LeastNat ==
  ASSUME NEW T, T \subseteq Nat, T # {}
  PROVE  \E x \in T : \A y \in T : x <= y
<1> DEFINE R == OpToRel(<, Nat)
<1>1. IsWellFoundedOn(R, Nat)
  BY NatLessThanWellFounded
<1>2. \A x, y \in Nat : <<y, x>> \in R <=> y < x
  BY DEF OpToRel
<1> HIDE DEF R
<1>3. PICK x \in T : \A y \in T : ~ (<<y, x>> \in R)
  BY <1>1, WFMin
<1>4. ASSUME NEW y \in T
      PROVE  x <= y
  <2>1. x \in Nat /\ y \in Nat /\ ~ (y < x)
    BY <1>2, <1>3
  <2> QED
    BY <2>1
<1> QED
  BY <1>4

(* first finds it. *)
LEMMA FirstLeast ==
  ASSUME NEW T, T \subseteq Nat, T # {}
  PROVE  first(T) \in T /\ \A y \in T : first(T) <= y
BY LeastNat DEF first

(* There is only one. *)
LEMMA FirstUnique ==
  ASSUME NEW T, T \subseteq Nat, NEW x \in T, \A y \in T : x <= y
  PROVE  first(T) = x
<1>1. first(T) \in T /\ \A y \in T : first(T) <= y
  BY FirstLeast
<1> DEFINE m == first(T)
<1>2. m \in Nat /\ x \in Nat /\ m <= x /\ x <= m
  BY <1>1
<1> HIDE DEF m
<1>3. m = x
  BY <1>2
<1> QED
  BY <1>3 DEF m

-----------------------------------------------------------------------------
(* The loop of bitmap_request_bits that counts: one step of it, and the    *)
(* function of the whole loop.                                             *)
CountStep(B, start, f, j) ==
  IF j = start THEN 1 ELSE IF bitmap_get_bit(B, j) THEN 0 ELSE f[j - 1] + 1

IsCount(B, start, last, f) ==
  f = [j \in start..last |-> CountStep(B, start, f, j)]

(* The loop ends, so that the function exists. *)
LEMMA CountExists ==
  ASSUME NEW B, NEW start \in Nat
  PROVE  \A n \in Nat : \E f : IsCount(B, start, start + n, f)
<1> DEFINE Bad == {n \in Nat : ~ \E f : IsCount(B, start, start + n, f)}
<1> SUFFICES ASSUME Bad # {}
             PROVE  FALSE
  OBVIOUS
<1>1. PICK n \in Bad : \A m \in Bad : n <= m
  BY LeastNat
<1>2. n \in Nat /\ ~ \E f : IsCount(B, start, start + n, f)
  OBVIOUS
<1>3. CASE n = 0
  <2> DEFINE g == [j \in start..start + 0 |-> 1]
  <2>1. \A j \in start..start + 0 : j = start
    OBVIOUS
  <2>2. IsCount(B, start, start + 0, g)
    BY <2>1 DEF IsCount, CountStep
  <2> QED
    BY <1>2, <1>3, <2>2
<1>4. CASE n # 0
  <2>1. n - 1 \in Nat /\ n - 1 \notin Bad
    BY <1>1, <1>2, <1>4
  <2>2. PICK f : IsCount(B, start, start + (n - 1), f)
    BY <2>1
  <2> DEFINE g == [j \in start..start + n |->
                     IF j = start + n THEN CountStep(B, start, f, j) ELSE f[j]]
  <2>3. \A j \in start..start + n : g[j] = CountStep(B, start, g, j)
    <3> SUFFICES ASSUME NEW j \in start..start + n
                 PROVE  g[j] = CountStep(B, start, g, j)
      OBVIOUS
    <3>1. CASE j = start
      <4>1. j # start + n /\ j \in start..start + (n - 1)
        BY <3>1, <1>2, <1>4
      <4>2. f[j] = CountStep(B, start, f, j)
        BY <4>1, <2>2 DEF IsCount
      <4> QED
        BY <3>1, <4>1, <4>2 DEF CountStep
    <3>2. CASE j # start
      <4>1. j - 1 \in start..start + n /\ j - 1 # start + n
        BY <3>2, <1>2
      <4>2. g[j - 1] = f[j - 1]
        BY <4>1
      <4>3. CountStep(B, start, g, j) = CountStep(B, start, f, j)
        BY <3>2, <4>2 DEF CountStep
      <4>4. CASE j = start + n
        BY <4>3, <4>4
      <4>5. CASE j # start + n
        <5>1. j \in start..start + (n - 1)
          BY <4>5, <1>2
        <5>2. f[j] = CountStep(B, start, f, j)
          BY <5>1, <2>2 DEF IsCount
        <5> QED
          BY <4>3, <4>5, <5>2
      <4> QED
        BY <4>4, <4>5
    <3> QED
      BY <3>1, <3>2
  <2>4. g = [j \in start..start + n |-> g[j]]
    OBVIOUS
  <2> HIDE DEF g
  <2>5. IsCount(B, start, start + n, g)
    BY <2>3, <2>4 DEF IsCount
  <2> QED
    BY <1>2, <2>5
<1> QED
  BY <1>3, <1>4

(* So count is that function. *)
LEMMA CountIs ==
  ASSUME NEW B, NEW start \in Nat, NEW last \in Nat, start <= last
  PROVE  IsCount(B, start, last, count(B, start, last))
<1>1. last - start \in Nat /\ start + (last - start) = last
  OBVIOUS
<1>2. \E f : IsCount(B, start, last, f)
  BY <1>1, CountExists
<1>3. count(B, start, last) = CHOOSE f : IsCount(B, start, last, f)
  BY DEF count, IsCount, CountStep
<1> QED
  BY <1>2, <1>3

(* That many free bits in a row end at bit j, and not one more. *)
RunEnds(B, start, f, j) ==
  /\ f[j] \in 0..j - start + 1
  /\ \A i \in j - f[j] + 1..j : i \notin B
  /\ f[j] <= j - start => j - f[j] \in B

Counts(B, start, last, f) == \A j \in start..last : RunEnds(B, start, f, j)

(* What the counter of bitmap_request_bits is worth at every bit. *)
LEMMA CountRuns ==
  ASSUME NEW B, NEW start \in Nat, NEW last \in Nat, start \notin B,
         NEW f, IsCount(B, start, last, f)
  PROVE  Counts(B, start, last, f)
<1> DEFINE Bad == {j \in start..last : ~ RunEnds(B, start, f, j)}
<1> SUFFICES ASSUME Bad # {}
             PROVE  FALSE
  BY DEF Counts
<1>1. Bad \subseteq Nat
  OBVIOUS
<1>2. PICK j \in Bad : \A m \in Bad : j <= m
  BY <1>1, LeastNat
<1>3. j \in start..last /\ j \in Nat /\ ~ RunEnds(B, start, f, j)
  OBVIOUS
<1>4. f[j] = CountStep(B, start, f, j)
  BY <1>3 DEF IsCount
<1>5. CASE j = start
  <2>1. f[j] = 1
    BY <1>4, <1>5 DEF CountStep
  <2>2. RunEnds(B, start, f, j)
    BY <2>1, <1>3, <1>5 DEF RunEnds
  <2> QED
    BY <2>2, <1>3
<1>6. CASE j # start /\ j \in B
  <2>1. f[j] = 0
    BY <1>4, <1>6 DEF CountStep, bitmap_get_bit
  <2>2. RunEnds(B, start, f, j)
    BY <2>1, <1>3, <1>6 DEF RunEnds
  <2> QED
    BY <2>2, <1>3
<1>7. CASE j # start /\ j \notin B
  <2> DEFINE h == j - 1
  <2>1. f[j] = f[h] + 1
    BY <1>4, <1>7 DEF CountStep, bitmap_get_bit
  <2>2. h \in start..last /\ h \notin Bad /\ h \in Nat /\ j = h + 1
    BY <1>2, <1>3, <1>7
  <2>3. RunEnds(B, start, f, h)
    BY <2>2
  <2> HIDE DEF h
  <2>4. /\ f[h] \in 0..h - start + 1
        /\ \A i \in h - f[h] + 1..h : i \notin B
        /\ f[h] <= h - start => h - f[h] \in B
    BY <2>3 DEF RunEnds
  <2>5. j - f[j] = h - f[h] /\ f[j] \in 0..j - start + 1
    BY <2>1, <2>2, <2>4
  <2>6. \A i \in j - f[j] + 1..j : i \notin B
    <3> SUFFICES ASSUME NEW i \in j - f[j] + 1..j
                 PROVE  i \notin B
      OBVIOUS
    <3>1. i = j \/ i \in h - f[h] + 1..h
      BY <2>2, <2>4, <2>5
    <3> QED
      BY <3>1, <2>4, <1>7
  <2>7. f[j] <= j - start => j - f[j] \in B
    BY <2>1, <2>2, <2>4, <2>5
  <2>8. RunEnds(B, start, f, j)
    BY <2>5, <2>6, <2>7 DEF RunEnds
  <2> QED
    BY <2>8, <1>3
<1> QED
  BY <1>5, <1>6, <1>7

(* n free bits in a row begin at i. *)
FreeFrom(B, i, n) == \A k \in i..i + n - 1 : k \notin B

(* A run of n free bits from i on contains, in the count, the number n no  *)
(* later than at its end.                                                  *)
LEMMA RunCounted ==
  ASSUME NEW B, NEW start \in Nat, NEW last \in Nat, NEW f,
         Counts(B, start, last, f),
         NEW n \in Nat \ {0}, NEW i \in Nat, start <= i, i + n - 1 <= last,
         FreeFrom(B, i, n)
  PROVE  \E j \in start..last : j <= i + n - 1 /\ f[j] = n
<1> DEFINE e == i + n - 1
           b == e - f[e]
           j == b + n
<1>1. e \in start..last /\ e \in Nat
  OBVIOUS
<1>2. /\ f[e] \in 0..e - start + 1
      /\ \A k \in b + 1..e : k \notin B
      /\ f[e] <= e - start => b \in B
  BY <1>1 DEF Counts, RunEnds
<1>3. f[e] >= n
  <2> SUFFICES ASSUME f[e] < n
               PROVE  FALSE
    BY <1>2
  <2>1. f[e] <= e - start /\ b \in i..i + n - 1
    BY <1>1, <1>2
  <2> QED
    BY <2>1, <1>2 DEF FreeFrom
<1>4. /\ b \in Int /\ b >= start - 1 /\ (b >= start => b \in B)
      /\ j \in start..e /\ j \in start..last /\ j \in Nat
  BY <1>1, <1>2, <1>3
<1> HIDE DEF b, e
<1>5. j = b + n
  OBVIOUS
<1> HIDE DEF j
<1>6. /\ f[j] \in 0..j - start + 1
      /\ \A k \in j - f[j] + 1..j : k \notin B
      /\ f[j] <= j - start => j - f[j] \in B
  BY <1>4 DEF Counts, RunEnds
<1>7. ~ (f[j] > n)
  <2> SUFFICES ASSUME f[j] > n
               PROVE  FALSE
    OBVIOUS
  <2>1. b \in j - f[j] + 1..j /\ b >= start
    BY <1>4, <1>5, <1>6
  <2> QED
    BY <2>1, <1>4, <1>6
<1>8. ~ (f[j] < n)
  <2> SUFFICES ASSUME f[j] < n
               PROVE  FALSE
    OBVIOUS
  <2>1. j - f[j] \in b + 1..e /\ f[j] <= j - start
    <3>1. b + 1 <= j - f[j] /\ j - f[j] <= j /\ j <= e /\ j - f[j] \in Int
      BY <1>4, <1>5, <1>6
    <3> QED
      BY <3>1, <1>1, <1>4, <1>6
  <2> QED
    BY <2>1, <1>2, <1>6
<1>9. f[j] = n
  BY <1>6, <1>7, <1>8
<1> QED
  BY <1>4, <1>9 DEF e

-----------------------------------------------------------------------------
(* Every bit is in a byte of the bitmap. *)
LEMMA BytesOf ==
  ASSUME NEW length \in Nat, NEW i \in 0..size(length) - 1
  PROVE  \E k \in 0..length - 1 : i \in byte(k)
<1> USE BitmapAssumption
<1> DEFINE k == i \div ByteBits
<1>1. size(length) \in Nat /\ i \in Nat
  BY DEF size
<1>2. k \in Nat /\ k * ByteBits <= i /\ i < (k + 1) * ByteBits
  BY <1>1
<1> HIDE DEF k
<1>3. k < length
  <2> SUFFICES ASSUME k >= length
               PROVE  FALSE
    BY <1>2
  <2>1. length * ByteBits <= k * ByteBits
    BY <1>2
  <2> QED
    BY <2>1, <1>1, <1>2 DEF size
<1>4. i \in byte(k)
  BY <1>1, <1>2 DEF byte
<1> QED
  BY <1>2, <1>3, <1>4

(* The bits of a byte are in the bitmap. *)
LEMMA ByteInside ==
  ASSUME NEW length \in Nat, NEW k \in 0..length - 1
  PROVE  byte(k) \subseteq 0..size(length) - 1
<1> USE BitmapAssumption
<1>1. 0 <= k * ByteBits /\ (k + 1) * ByteBits <= length * ByteBits
  OBVIOUS
<1>2. k * ByteBits \in Int /\ (k + 1) * ByteBits \in Int /\ length * ByteBits \in Int
  OBVIOUS
<1> QED
  BY <1>1, <1>2 DEF byte, size

(* Every byte is 0xff exactly when every bit is set. *)
LEMMA AllBytes ==
  ASSUME NEW length \in Nat, NEW B
  PROVE  (\A k \in 0..length - 1 : byte(k) \subseteq B) <=> 0..size(length) - 1 \subseteq B
BY BytesOf, ByteInside

(* The first loop finds the first free bit. *)
LEMMA LeastFree ==
  ASSUME NEW length \in Nat, NEW B, ~ (0..size(length) - 1 \subseteq B)
  PROVE  /\ bit_idx_start(B, length) \in (0..size(length) - 1) \ B
         /\ \A i \in (0..size(length) - 1) \ B : bit_idx_start(B, length) <= i
<1> USE BitmapAssumption
<1> DEFINE K == {k \in 0..length - 1 : ~ (byte(k) \subseteq B)}
           idx == idx_byte(B, length)
           start == bit_idx_start(B, length)
<1>1. K # {} /\ K \subseteq Nat
  BY AllBytes
<1>2. idx = first(K)
  BY DEF idx_byte
<1>3. idx \in K /\ \A k \in K : idx <= k
  BY <1>1, <1>2, FirstLeast
<1>4. byte(idx) \ B # {} /\ byte(idx) \ B \subseteq Nat
  BY <1>3, ByteInside
<1>5. start = first(byte(idx) \ B)
  BY DEF bit_idx_start
<1>6. start \in byte(idx) \ B /\ \A i \in byte(idx) \ B : start <= i
  BY <1>4, <1>5, FirstLeast
<1> HIDE DEF start, idx
<1>7. start \in (0..size(length) - 1) \ B
  BY <1>3, <1>6, ByteInside
<1>8. ASSUME NEW i \in (0..size(length) - 1) \ B
      PROVE  start <= i
  <2>1. PICK k \in 0..length - 1 : i \in byte(k)
    BY BytesOf
  <2>2. idx <= k /\ idx \in Nat /\ k \in Nat
    BY <1>3, <2>1
  <2>3. CASE idx = k
    BY <2>1, <2>3, <1>6
  <2>4. CASE idx < k
    <3>1. (idx + 1) * ByteBits <= k * ByteBits
      BY <2>2, <2>4
    <3>2. /\ start \in Int /\ i \in Int
          /\ start <= (idx + 1) * ByteBits - 1 /\ k * ByteBits <= i
      BY <2>1, <1>6 DEF byte
    <3>3. (idx + 1) * ByteBits \in Int /\ k * ByteBits \in Int
      BY <2>2
    <3> QED
      BY <3>1, <3>2, <3>3
  <2> QED
    BY <2>2, <2>3, <2>4
<1> QED
  BY <1>7, <1>8 DEF start
-----------------------------------------------------------------------------
(* Where n free bits in a row begin, among the bits up to last. *)
FreeRuns(B, n, last) == {i \in 0..last : i + n - 1 <= last /\ (i..i + n - 1) \cap B = {}}

(* A full bitmap is the failure of bitmap_request_bits's assertion, and    *)
(* nothing else is.                                                        *)
LEMMA RequestPanics ==
  ASSUME NEW length \in Nat, NEW B, NEW n, 0..size(length) - 1 \subseteq B
  PROVE  bitmap_request_bits(B, length, n) = PANIC
BY AllBytes DEF bitmap_request_bits

(* bitmap_request_bits for one bit returns the first free one. *)
LEMMA RequestOne ==
  ASSUME NEW length \in Nat, NEW B, ~ (0..size(length) - 1 \subseteq B)
  PROVE  /\ bitmap_request_bits(B, length, 1) \in (0..size(length) - 1) \ B
         /\ bitmap_request_bits(B, length, 1) = bit_idx_start(B, length)
BY LeastFree, AllBytes DEF bitmap_request_bits

(* bitmap_request_bits for several bits returns the least place with that  *)
(* many free bits in a row, or fails when there is none.                   *)
LEMMA RequestMany ==
  ASSUME NEW length \in Nat, NEW B, ~ (0..size(length) - 1 \subseteq B),
         NEW n \in Nat, n > 1
  PROVE  bitmap_request_bits(B, length, n) =
           IF FreeRuns(B, n, size(length)) = {} THEN FAIL
           ELSE first(FreeRuns(B, n, size(length)))
<1> DEFINE last == size(length)
           start == bit_idx_start(B, length)
           f == count(B, start, last)
           ends == {j \in start + 1..last : f[j] = n}
           runs == FreeRuns(B, n, last)
<1>1. bitmap_request_bits(B, length, n) = IF ends = {} THEN FAIL ELSE first(ends) - n + 1
  BY AllBytes DEF bitmap_request_bits
<1>2. last \in Nat
  BY BitmapAssumption DEF size
<1>3. /\ start \in Nat /\ start < last /\ start \notin B
      /\ \A i \in 0..last - 1 : i \notin B => start <= i
  BY <1>2, LeastFree
<1> HIDE DEF start, last
<1>4. IsCount(B, start, last, f)
  BY <1>2, <1>3, CountIs
<1> HIDE DEF f
<1>5. Counts(B, start, last, f)
  BY <1>2, <1>3, <1>4, CountRuns
<1>6. f[start] = 1
  BY <1>2, <1>3, <1>4 DEF IsCount, CountStep
<1>7. ASSUME NEW j \in ends
      PROVE  j - n + 1 \in runs
  <2>1. j \in start..last /\ j \in Nat /\ f[j] = n
    BY <1>2, <1>3
  <2>2. n \in 0..j - start + 1 /\ \A i \in j - n + 1..j : i \notin B
    BY <1>5, <2>1 DEF Counts, RunEnds
  <2>3. j - n + 1 \in 0..last /\ (j - n + 1) + n - 1 = j
    BY <2>1, <2>2, <1>2, <1>3
  <2> QED
    BY <2>1, <2>2, <2>3 DEF FreeRuns
<1>8. ASSUME NEW i \in runs
      PROVE  \E j \in ends : j - n + 1 <= i
  <2>1. i \in Nat /\ i + n - 1 <= last /\ \A k \in i..i + n - 1 : k \notin B
    BY <1>2 DEF FreeRuns
  <2>2. i \in 0..last - 1 /\ i \notin B
    BY <2>1, <1>2
  <2>3. start <= i
    BY <2>2, <1>3
  <2>4. FreeFrom(B, i, n) /\ n \in Nat \ {0} /\ start \in Nat
    BY <2>1, <1>3 DEF FreeFrom
  <2>5. PICK j \in start..last : j <= i + n - 1 /\ f[j] = n
    <3> HIDE DEF runs, ends
    <3> QED
      BY <2>1, <2>3, <2>4, <1>2, <1>5, RunCounted
  <2>6. j \in ends /\ j - n + 1 <= i
    BY <2>1, <2>5, <1>2, <1>3, <1>6
  <2> QED
    BY <2>6
<1>9. CASE ends = {}
  BY <1>1, <1>8, <1>9 DEF last
<1>10. CASE ends # {}
  <2> DEFINE e == first(ends)
  <2>1. ends \subseteq Nat
    BY <1>2, <1>3
  <2>2. e \in ends /\ \A j \in ends : e <= j
    BY <2>1, <1>10, FirstLeast
  <2> HIDE DEF e
  <2>3. e - n + 1 \in runs
    BY <2>2, <1>7
  <2>4. ASSUME NEW i \in runs
        PROVE  e - n + 1 <= i
    <3>1. PICK j \in ends : j - n + 1 <= i
      BY <1>8
    <3>2. e \in Nat /\ j \in Nat /\ e <= j /\ i \in Nat
      BY <2>1, <2>2, <3>1, <1>2 DEF FreeRuns
    <3> QED
      BY <3>1, <3>2
  <2>5. runs \subseteq Nat
    BY <1>2 DEF FreeRuns
  <2>6. first(runs) = e - n + 1
    BY <2>3, <2>4, <2>5, FirstUnique
  <2> QED
    BY <1>1, <1>10, <2>3, <2>6 DEF e, last
<1> QED
  BY <1>9, <1>10

(* The whole search of bitmap_request_bits: it returns the least place     *)
(* with n free bits in a row, for several bits counting the one past the   *)
(* bitmap, fails exactly when there is none, and does not return when      *)
(* every bit is set.                                                       *)
THEOREM RequestFirstFit ==
  ASSUME NEW length \in Nat, NEW B, NEW n \in Nat \ {0}
  PROVE  LET runs == FreeRuns(B, n, IF n = 1 THEN size(length) - 1 ELSE size(length))
         IN bitmap_request_bits(B, length, n) =
              IF 0..size(length) - 1 \subseteq B THEN PANIC
              ELSE IF runs = {} THEN FAIL
              ELSE first(runs)
<1>1. CASE 0..size(length) - 1 \subseteq B
  BY <1>1, RequestPanics
<1>2. CASE ~ (0..size(length) - 1 \subseteq B) /\ n # 1
  <2>1. n > 1
    BY <1>2
  <2> QED
    BY <1>2, <2>1, RequestMany
<1>3. CASE ~ (0..size(length) - 1 \subseteq B) /\ n = 1
  <2> DEFINE last == size(length) - 1
             start == bit_idx_start(B, length)
             runs == FreeRuns(B, 1, last)
  <2>1. size(length) \in Nat
    BY BitmapAssumption DEF size
  <2>2. start \in (0..last) \ B /\ \A i \in (0..last) \ B : start <= i
    BY <1>3, LeastFree
  <2>3. bitmap_request_bits(B, length, 1) = start
    BY <1>3, RequestOne
  <2> HIDE DEF start
  <2>4. ASSUME NEW i \in 0..last
        PROVE  i \in runs <=> i \notin B
    <3>1. i + 1 - 1 <= last /\ i..i + 1 - 1 = {i}
      BY <2>1
    <3> HIDE DEF last
    <3> QED
      BY <3>1 DEF FreeRuns
  <2>5. runs = (0..last) \ B
    BY <2>4 DEF FreeRuns
  <2>6. runs \subseteq Nat
    BY <2>1, <2>5
  <2>7. first(runs) = start
    BY <2>2, <2>5, <2>6, FirstUnique
  <2> QED
    BY <1>3, <2>2, <2>3, <2>5, <2>7
<1> QED
  BY <1>1, <1>2, <1>3
=============================================================================
