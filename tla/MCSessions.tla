----------------------------- MODULE MCSessions -----------------------------
(***************************************************************************)
(* The sessions of the web IDE for TLC: requests and identifiers are       *)
(* interchangeable.                                                        *)
(***************************************************************************)
EXTENDS Sessions, TLC

Symmetry == Permutations(Requests) \cup Permutations(Ids)
=============================================================================
