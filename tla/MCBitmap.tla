----------------------------- MODULE MCBitmap -----------------------------
(***************************************************************************)
(* One bitmap whose bits are set and cleared in any order, searched in     *)
(* every state for every number of free bits.                              *)
(***************************************************************************)
EXTENDS Bitmap

CONSTANTS Length, MaxRequest

ASSUME RequestAssumption == Length \in Nat /\ MaxRequest \in Nat

VARIABLES bits, found

bitmapVars == <<bits, found>>

Limit == size(Length)

NotFound == [n |-> 0, at |-> 0]

(* The memory after the bitmap may hold anything. *)
BitmapInit ==
  /\ bits \in {bitmap_init, {Limit}}
  /\ found = NotFound

Set(i, v) ==
  /\ found = NotFound
  /\ bits' = bitmap_set_bit(bits, i, v)
  /\ UNCHANGED found

Request(n) ==
  /\ found = NotFound
  /\ found' = [n |-> n, at |-> bitmap_request_bits(bits, Length, n)]
  /\ UNCHANGED bits

Answered == found # NotFound /\ found' = NotFound /\ UNCHANGED bits

BitmapNext ==
  \/ \E i \in 0..Limit - 1, v \in {0, 1} : Set(i, v)
  \/ \E n \in 1..MaxRequest : Request(n)
  \/ Answered

Spec == BitmapInit /\ [][BitmapNext]_bitmapVars

-----------------------------------------------------------------------------
(* Where n free bits in a row begin, in the bitmap and the bit after it.   *)
Runs(n, last) == {i \in 0..last : i + n - 1 <= last /\ (i..i + n - 1) \cap bits = {}}

(* The search of bitmap_request_bits, loops, resets and early returns      *)
(* together, returns the lowest place with enough free bits in a row, for  *)
(* several bits counting the one past the bitmap, and fails exactly when   *)
(* there is none; it does not return when every bit is set.                *)
FirstFit ==
  found # NotFound =>
    LET runs == Runs(found.n, IF found.n = 1 THEN Limit - 1 ELSE Limit)
    IN found.at = IF 0..Limit - 1 \subseteq bits THEN PANIC
                  ELSE IF runs = {} THEN FAIL
                  ELSE first(runs)

(* bitmap.c:35, "find count free bits in the bitmap": what is found lies   *)
(* in the bitmap.                                                          *)
FoundInBitmap ==
  found # NotFound /\ found.at >= 0 => found.at + found.n <= Limit
=============================================================================
