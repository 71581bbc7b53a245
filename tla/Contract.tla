------------------------------ MODULE Contract ------------------------------
(***************************************************************************)
(* The example contract, src/examples/contract.cpp, which the web IDE runs *)
(* behind a session with the loop of smart_loop.cpp: a token whose         *)
(* balances are in a hash table with linear probing, and a loop that reads *)
(* commands word by word.                                                  *)
(*                                                                         *)
(* One probe of the table is one step, so that a search that does not end  *)
(* is a behaviour of the model.  A line of input is a sequence of tokens:  *)
(* the words of the commands, another word, and numbers.                   *)
(***************************************************************************)
EXTENDS Integers, Sequences, Functions

CONSTANTS
    ndata,          \* ndata_, the slots of the table (1024 in the code)
    Address, MaxAmount, Creator, Supply,    \* as in Token
    Lines           \* the lines a client may send

ASSUME ContractAssumption ==
    /\ ndata \in Nat \ {0}
    /\ Address \subseteq Nat /\ 0 \in Address
    /\ MaxAmount \in Nat /\ Address \subseteq 0 .. MaxAmount
    /\ Creator \in Address \ {0}
    /\ Supply \in 0 .. MaxAmount

Slot == 0 .. ndata - 1
Amount == 0 .. MaxAmount

Num(n) == [word |-> "number", n |-> n]
Word(w) == [word |-> w, n |-> 0]
Lexeme == {Num(n) : n \in Address}
          \cup {Word(w) : w \in {"total-supply", "balance-of", "transfer", "other"}}

ASSUME LinesAssumption == Lines \subseteq Seq(Lexeme)

\* What the program prints, as in Token.
Told(v) == [text |-> "number", n |-> v]
Said(t) == [text |-> t, n |-> 0]
Answers == {Told(v) : v \in Amount}
           \cup {Said(t) : t \in {"OK", "failed", "error", "none"}}

\* The numbers that follow the word of a command.
Wanted(w) == CASE w = "balance-of" -> 1 [] w = "transfer" -> 3 [] OTHER -> 0

VARIABLES
    keys, values,   \* the two arrays of the hash table
    input,          \* the tokens the program has not read yet
    pc,             \* where the program is
    word,           \* the command being read or executed
    args,           \* its numbers
    i,              \* the slot being probed
    prev_from, prev_to,     \* prev_from_amount and prev_to_amount
    answer,         \* the last line printed
    orderly,        \* history: every line so far was one whole command
    owed            \* history: of those lines, the ones not answered yet

table == <<keys, values>>
locals == <<i, prev_from, prev_to>>
sent == <<orderly, owed>>
vars == <<table, input, pc, word, args, locals, answer, sent>>

Gets == {"balance", "get_from", "get_to"}
Puts == {"put_from", "put_to"}

TypeOK ==
    /\ keys \in [Slot -> Address]
    /\ values \in [Slot -> Amount]
    /\ input \in Seq(Lexeme)
    /\ pc \in {"command", "numbers", "ended"} \cup Gets \cup Puts
    /\ word \in {"none", "balance-of", "transfer"}
    /\ args \in Seq(Address) /\ Len(args) <= Wanted(word)
    /\ i \in Slot
    /\ prev_from \in Amount /\ prev_to \in Amount
    /\ answer \in Answers
    /\ orderly \in BOOLEAN
    /\ owed \in Int

\* main creates the token: the constructor inserts the creator.
Init ==
    /\ keys = [s \in Slot |-> IF s = Creator % ndata THEN Creator ELSE 0]
    /\ values = [s \in Slot |-> IF s = Creator % ndata THEN Supply ELSE 0]
    /\ input = <<>>
    /\ pc = "command"
    /\ word = "none"
    /\ args = <<>>
    /\ i = 0 /\ prev_from = 0 /\ prev_to = 0
    /\ answer = Said("none")
    /\ orderly = TRUE /\ owed = 0

-----------------------------------------------------------------------------
(* The loop of main *)

\* A line that is one word, with the numbers it takes when it is a command.
OneCommand(l) ==
    /\ Len(l) = 1 + Wanted(Head(l).word)
    /\ \A j \in 2 .. Len(l) : l[j].word = "number"

\* The client sends a line.  Tokens sent ahead of the program would wait in the
\* pipe, which has no lines: the next one is modelled when all are read.
Line(l) ==
    /\ pc \in {"command", "numbers"}
    /\ input = <<>>
    /\ input' = l
    /\ orderly' = (orderly /\ OneCommand(l))
    /\ owed' = IF orderly' THEN owed + 1 ELSE 0
    /\ UNCHANGED <<table, pc, word, args, locals, answer>>

\* The command is over: its local variables are gone.
Finish(reply) ==
    /\ answer' = reply
    /\ owed' = IF orderly THEN owed - 1 ELSE 0
    /\ pc' = "command"
    /\ word' = "none"
    /\ args' = <<>>
    /\ i' = 0 /\ prev_from' = 0 /\ prev_to' = 0

\* Goes to a search for account a.
Home(a) == a % ndata
Search(step, a) ==
    /\ pc' = step
    /\ i' = Home(a)

\* scanf("%1023s"): a number is a word too, and not a command.
ReadCommand ==
    /\ pc = "command"
    /\ input # <<>>
    /\ input' = Tail(input)
    /\ LET w == Head(input).word
       IN  CASE w = "total-supply" -> Finish(Told(Supply))
             [] Wanted(w) > 0 -> /\ word' = w
                                 /\ pc' = "numbers"
                                 /\ UNCHANGED <<args, locals, answer, owed>>
             [] OTHER -> Finish(Said("error"))
    /\ UNCHANGED <<table, orderly>>

\* A transfer to the account 0 is refused, once all its numbers are read.
ToNobody_AtOnce(read) == word = "transfer" /\ Len(read) >= 2 /\ read[2] = 0
ToNobody(read) == word = "transfer" /\ Len(read) = 3 /\ read[2] = 0

\* scanf("%lu"): the last number starts the command.
ReadNumber ==
    /\ pc = "numbers"
    /\ input # <<>>
    /\ Head(input).word = "number"
    /\ input' = Tail(input)
    /\ LET read == Append(args, Head(input).n)
       IN  IF ToNobody(read)
           THEN Finish(Said("failed"))
           ELSE IF Len(read) < Wanted(word)
           THEN args' = read /\ UNCHANGED <<pc, word, locals, answer, owed>>
           ELSE /\ Search(IF word = "transfer" THEN "get_from" ELSE "balance",
                          read[1])
                /\ args' = read
                /\ UNCHANGED <<word, prev_from, prev_to, answer, owed>>
    /\ UNCHANGED <<table, orderly>>

\* A word where a number should be stays in the input: the next command.
ReadFails ==
    /\ pc = "numbers"
    /\ input # <<>>
    /\ Head(input).word # "number"
    /\ Finish(Said("error"))
    /\ UNCHANGED <<table, input, orderly>>

\* The end of the input ends the loop.
EndOfInput ==
    /\ pc \in {"command", "numbers"}
    /\ input = <<>>
    /\ answer' = IF pc = "numbers" THEN Said("error") ELSE answer
    /\ pc' = "ended"
    /\ word' = "none" /\ args' = <<>>
    /\ UNCHANGED <<table, input, locals, sent>>

-----------------------------------------------------------------------------
(* The hash table: get and insert, one probe at a time *)

from == args[1]
to == args[2]
amount == args[3]
Key == IF pc \in {"get_to", "put_to"} THEN to ELSE from

NextSlot_Two(s) == (s + 2) % ndata
NextSlot_Same(s) == s
NextSlot(s) == (s + 1) % ndata

\* A slot of another account.
Taken_Never(s) == FALSE
Taken(s) == keys[s] # 0 /\ keys[s] # Key

Walk ==
    /\ pc \in Gets \cup Puts
    /\ Taken(i)
    /\ i' = NextSlot(i)
    /\ UNCHANGED <<table, input, pc, word, args, prev_from, prev_to, answer,
                   sent>>

\* get returns the value it found, or 0 at an empty slot.
Found == IF keys[i] = 0 THEN 0 ELSE values[i]

GetEnds(step) ==
    /\ pc = step
    /\ ~Taken(i)
    /\ UNCHANGED <<table, input, orderly>>

BalanceOf ==
    /\ GetEnds("balance")
    /\ Finish(Told(Found))

TransferFrom ==
    /\ GetEnds("get_from")
    /\ IF Found < amount
       THEN Finish(Said("failed"))
       ELSE /\ Search("get_to", to)
            /\ prev_from' = Found
            /\ UNCHANGED <<word, args, prev_to, answer, owed>>

\* The sum of two balances has to fit in 64 bits.
Overflows_Never(v) == FALSE
Overflows(v) == MaxAmount - v < amount

TransferTo ==
    /\ GetEnds("get_to")
    /\ IF Overflows(Found)
       THEN Finish(Said("failed"))
       ELSE /\ Search("put_from", from)
            /\ prev_to' = Found
            /\ UNCHANGED <<word, args, prev_from, answer, owed>>

\* insert takes the first slot that is empty or its own.
Insert(v) ==
    /\ ~Taken(i)
    /\ keys' = [keys EXCEPT ![i] = Key]
    /\ values' = [values EXCEPT ![i] = v]

Debit ==
    /\ pc = "put_from"
    /\ Insert(prev_from - amount)
    /\ Search("put_to", to)
    /\ UNCHANGED <<input, word, args, prev_from, prev_to, answer, sent>>

Credited == prev_to + amount

Credit ==
    /\ pc = "put_to"
    /\ Insert(Credited)
    /\ Finish(Said("OK"))
    /\ UNCHANGED <<input, orderly>>

Run ==
    \/ ReadCommand \/ ReadNumber \/ ReadFails
    \/ Walk \/ BalanceOf \/ TransferFrom \/ TransferTo \/ Debit \/ Credit

Next == Run \/ EndOfInput \/ \E l \in Lines : Line(l)

\* The program is scheduled; the client need not send anything.
Spec == Init /\ [][Next]_vars /\ WF_vars(Run)

-----------------------------------------------------------------------------
(* Properties *)

\* What the table holds for an account; 0 marks an empty slot and is never
\* an account with tokens.
Held(a) ==
    IF a # 0 /\ \E s \in Slot : keys[s] = a
    THEN values[CHOOSE s \in Slot : keys[s] = a] ELSE 0

\* A transfer takes effect when its second insertion is done.
Balance ==
    [a \in Address |-> IF pc = "put_to" /\ a = from THEN prev_from ELSE Held(a)]

\* The hash table and its two insertions implement a table of balances that
\* changes in one step: no transfer makes or loses tokens, except one from an
\* account to itself, of which Token says what becomes of it.
Ledger == INSTANCE Token WITH balance <- Balance
ImplementsToken == Ledger!Spec

\* "Analog of ERC20 Token": the balances add up to totalSupply().  The code
\* does not keep this when an account transfers to itself.
TokensConserved == FoldFunctionOnSet(+, 0, Balance, Address) = Supply

\* No account has two slots, and none is behind an empty slot on the way
\* from the slot it hashes to.
AccountsFindable ==
    \A s \in Slot : keys[s] # 0 =>
        /\ \A t \in Slot : keys[t] = keys[s] => t = s
        /\ LET home == Home(keys[s])
               before == (s - home) % ndata
           IN  \A n \in 0 .. before : keys[(home + n) % ndata] # 0

\* exchangeLines of RunCodeAPI.java writes one line and reads one, so a client
\* is told what its line did only if every line gets one answer: as long as
\* each line is one whole command, an answer is owed exactly while the program
\* has something of the last line left to do.
OneAnswerPerLine ==
    orderly => owed = IF pc \in {"command", "ended"} /\ input = <<>> THEN 0 ELSE 1

\* Every command is answered, as long as the table has an empty slot.
CommandsAnswered == (pc \in Gets \cup Puts) ~> (pc = "command")
=============================================================================
