------------------------------- MODULE MCRbvm -------------------------------
(***************************************************************************)
(* Small instances of Rbvm.                                                *)
(***************************************************************************)
EXTENDS Rbvm, MCPrograms

CONSTANTS c1, c2    \* memory cells

MCModulus == [w8 |-> 2, w64 |-> 4]
MCDivOps == {"udiv"}

\* Two-bit words; lshr and udiv stand for the operations of their group.
MCAlu(f, a, b) ==
    CASE f = "mov" -> b
      [] f = "iadd" -> (a + b) % 4
      [] f = "isub" -> (a - b) % 4
      [] f = "udiv" -> a \div b
      [] f = "lshr" -> a \div (2 ^ b)
      [] f = "slt" -> IF (a + 2) % 4 < (b + 2) % 4 THEN 1 ELSE 0
=============================================================================
