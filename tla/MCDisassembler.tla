--------------------------- MODULE MCDisassembler ---------------------------
(***************************************************************************)
(* Small instances of Disassembler: the files the VM is checked with.      *)
(***************************************************************************)
EXTENDS Disassembler, MCPrograms
=============================================================================
