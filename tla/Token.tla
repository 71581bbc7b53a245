-------------------------------- MODULE Token --------------------------------
(***************************************************************************)
(* What the token of src/examples/contract.cpp promises: a table of        *)
(* balances, where every command takes effect in one step and is answered  *)
(* from the balances of that moment.                                       *)
(***************************************************************************)
EXTENDS Integers

CONSTANTS
    Address,        \* account addresses, 0 among them
    MaxAmount,      \* UINT64_MAX
    Creator,        \* the account that starts with the whole supply
    Supply          \* initial_balance

Amount == 0 .. MaxAmount

\* What the program prints: a number or a text.
Told(v) == [text |-> "number", n |-> v]
Said(t) == [text |-> t, n |-> 0]
Answers == {Told(v) : v \in Amount}
           \cup {Said(t) : t \in {"OK", "failed", "error", "none"}}

VARIABLES
    balance,        \* of each account
    answer          \* to the last command

TypeOK ==
    /\ balance \in [Address -> Amount]
    /\ answer \in Answers

Init ==
    /\ balance = [a \in Address |-> IF a = Creator THEN Supply ELSE 0]
    /\ answer = Said("none")

TotalSupply ==
    /\ answer' = Told(Supply)
    /\ UNCHANGED balance

BalanceOf(who) ==
    /\ answer' = Told(balance[who])
    /\ UNCHANGED balance

\* The account 0 receives nothing; no balance goes below 0 or wraps.
Refused(from, to, amount) ==
    \/ to = 0
    \/ balance[from] < amount
    \/ MaxAmount - balance[to] < amount

\* Both balances are read first, and the one of the receiver is written last.
Moved(from, to, amount) ==
    [balance EXCEPT ![from] = @ - amount, ![to] = balance[to] + amount]

Transfer(from, to, amount) ==
    IF Refused(from, to, amount)
    THEN answer' = Said("failed") /\ UNCHANGED balance
    ELSE answer' = Said("OK") /\ balance' = Moved(from, to, amount)

\* A line that is not a command.
Misunderstood ==
    /\ answer' = Said("error")
    /\ UNCHANGED balance

Next ==
    \/ TotalSupply \/ Misunderstood
    \/ \E who \in Address : BalanceOf(who)
    \/ \E from, to \in Address, amount \in Amount : Transfer(from, to, amount)

Spec == Init /\ [][Next]_<<balance, answer>>
=============================================================================
