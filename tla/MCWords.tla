------------------------------ MODULE MCWords ------------------------------
(***************************************************************************)
(* Words on registers of five bits: a type narrower than the half, one of  *)
(* the half, one of the whole, and i1.                                     *)
(***************************************************************************)
EXTENDS Words, Bitwise

MCTypes == {1, 2, 3, 5}

MCAnd(a, b) == a & b
MCOr(a, b) == a | b
MCXor(a, b) == a ^^ b
=============================================================================
