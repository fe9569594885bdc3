------------------------------ MODULE Bitmap ------------------------------
(***************************************************************************)
(* bitmap.c.  A bitmap of `length' bytes is the set of the bits that are   *)
(* set; a set may also hold bits past the last byte, since the search for  *)
(* several free bits looks at one of them.                                 *)
(***************************************************************************)
EXTENDS Integers

CONSTANT ByteBits      \* 8

ASSUME BitmapAssumption == ByteBits \in Nat \ {0}

FAIL == -1             \* the result when there is no room
PANIC == -2            \* the assertion fails and the call does not return

(* How many bits a bitmap has. *)
size(length) == length * ByteBits

first(S) == CHOOSE i \in S : \A j \in S : i <= j

-----------------------------------------------------------------------------
bitmap_init == {}

bitmap_get_bit(bits, i) == i \in bits

bitmap_set_bit(bits, i, value) == IF value = 0 THEN bits \ {i} ELSE bits \cup {i}

(* The first byte that is not 0xff, and the first bit that is clear in it. *)
byte(k) == k * ByteBits .. (k + 1) * ByteBits - 1

idx_byte(bits, length) == first({k \in 0..length - 1 : ~ (byte(k) \subseteq bits)})

bit_idx_start(bits, length) == first(byte(idx_byte(bits, length)) \ bits)

(* The second loop: how many free bits in a row end at bit j.  It looks at *)
(* as many bits after the first free one as there are from that one to the *)
(* end, the bit after the last one included.                               *)
count_fault_no_reset(bits, start, last) ==
  LET cnt[j \in start..last] == IF j = start THEN 1
                                ELSE IF bitmap_get_bit(bits, j) THEN cnt[j - 1]
                                ELSE cnt[j - 1] + 1
  IN cnt

count(bits, start, last) ==
  LET cnt[j \in start..last] == IF j = start THEN 1
                                ELSE IF bitmap_get_bit(bits, j) THEN 0
                                ELSE cnt[j - 1] + 1
  IN cnt

bitmap_request_bits(bits, length, n) ==
  IF \A k \in 0..length - 1 : byte(k) \subseteq bits THEN PANIC
  ELSE LET start == bit_idx_start(bits, length)
           next_bits == start + 1 .. size(length)
           cnt == count(bits, start, size(length))
           ends == {j \in next_bits : cnt[j] = n}
       IN IF n = 1 THEN start
          ELSE IF ends = {} THEN FAIL
          ELSE first(ends) - n + 1
=============================================================================
