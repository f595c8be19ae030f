---------------------------- MODULE MCOperations ----------------------------
(***************************************************************************)
(* Operations with bytes of two bits: a word has 8 bits, a long 16.  The   *)
(* literals are 0, both signs, and the ends of the ranges.                 *)
(***************************************************************************)
EXTENDS Operations

MCIntLiterals == {0, 2, -1, -128, 107}
MCArrayLiterals == {1, -2}
MCLongLiterals == {0, -1, 300, -32768}
MCIncrements == {-2, 1}

============================================================================
