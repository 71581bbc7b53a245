----------------------------- MODULE MCOneShot -----------------------------
(***************************************************************************)
(* A small instance of OneShot.  Bytes with and without a leading zero;    *)
(* pipes with room for one piece, so that two pieces fit when each goes to *)
(* a stream of its own.                                                    *)
(***************************************************************************)
EXTENDS OneShot

CONSTANTS token, loop  \* pieces of source text

MCCodes == {<<token>>}
MCLoop == <<loop>>

\* A text cut off compiles to other bytes than the whole of it.
MCCompiled ==
    [t \in Texts |-> CASE t = <<>> -> <<>>
                       [] t = <<token>> -> <<16>>
                       [] OTHER -> <<15, 255>>]

\* A file of yesterday, a byte with a sign, and one with one digit.
MCSentences == {<<Hex(<<0, 9>>), Hex(<<Minus, 1>>)>>, <<Hex(<<1>>)>>}
MCScripts == {<<"out", "err">>, <<"err", "err">>, <<"in">>, <<"loop">>}
=============================================================================
