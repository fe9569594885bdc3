----------------------------- MODULE MCPrinting -----------------------------
(* Two threads that print a character each. *)
EXTENDS Printing

CONSTANTS a, b, x, y, z

MCOutput == [t \in {a, b} |-> IF t = a THEN <<x, x>> ELSE <<y>>]
MCMessage == <<z, LF>>
=============================================================================
