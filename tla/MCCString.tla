------------------------------ MODULE MCCString ------------------------------
(* The functions of string.c on a memory of four chars. *)
EXTENDS CString

MCBytes == -1..1
MCInts == {-1, 0, 1, 255}

Spec == StringInit /\ [][StringNext]_stringVars
=============================================================================
