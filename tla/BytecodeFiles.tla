--------------------------- MODULE BytecodeFiles ---------------------------
(***************************************************************************)
(* The files the VM and the disassembler are run on: what the translator   *)
(* may emit.                                                               *)
(***************************************************************************)
EXTENDS Bytecode

CONSTANT Programs       \* a function to [code, size, live] records

ASSUME ProgramsAssumption ==
    \A f \in DOMAIN Programs : WellFormed(Programs[f])
=============================================================================
