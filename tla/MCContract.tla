----------------------------- MODULE MCContract -----------------------------
(***************************************************************************)
(* Small instances of Contract.  In a table of four slots the accounts 3   *)
(* and 7 collide on the last slot, and the account 4 is in the way of the  *)
(* one that wraps around.                                                  *)
(***************************************************************************)
EXTENDS Contract

MCAddress == {0, 3, 4, 7}

\* Transfers between all accounts, and the ways a line can be malformed.
Transfers ==
    {<<Word("transfer"), Num(f), Num(t), Num(n)>> :
        f \in MCAddress, t \in MCAddress \ {0}, n \in {0, 4}}
    \cup {<<Word("transfer"), Num(3), Num(0), Num(4)>>}
Queries == {<<Word("balance-of"), Num(a)>> : a \in MCAddress}
Malformed ==
    { <<Word("other")>>, <<Num(3)>>, <<Word("balance-of")>>,
      <<Word("balance-of"), Word("total-supply")>>,
      <<Word("transfer"), Num(3)>>,
      <<Word("transfer"), Num(3), Num(7), Word("balance-of"), Num(4)>> }

MCLines == Transfers \cup Queries \cup {<<Word("total-supply")>>} \cup Malformed
=============================================================================
