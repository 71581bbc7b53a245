---------------------------- MODULE MCIdeClient ----------------------------
(***************************************************************************)
(* A small instance of IdeClient: a file of a new user and one to create,  *)
(* a contract, and the empty text, which is a program as well.             *)
(***************************************************************************)
EXTENDS IdeClient

Symmetry == Permutations(SessionIds)

MCCodes == {"", "contract"}
MCSmart == {"contract"}
=============================================================================
