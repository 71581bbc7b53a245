--------------------------- MODULE ContractProofs ---------------------------
(***************************************************************************)
(* Theorems about Contract, for any table, accounts, amounts and lines:    *)
(*   TypeCorrect     the types, with no amount out of its 64 bits;         *)
(*   TableFindable   every account of the hash table can be found;         *)
(*   LinesAnswered   whole commands get one answer each;                   *)
(*   LedgerKept      the contract implements Token.                        *)
(* Progress says what is known at each place of the program, Probing what  *)
(* a search has seen, Copies what the local copies of balances are worth.  *)
(***************************************************************************)
EXTENDS Contract, TLAPS

Transferring == {"get_from", "get_to"} \cup Puts

Progress ==
    /\ TypeOK
    /\ pc \in {"command", "ended"} => word = "none" /\ args = <<>>
    /\ pc = "numbers" => word # "none" /\ Len(args) < Wanted(word)
    /\ pc = "balance" => word = "balance-of" /\ Len(args) = 1
    /\ pc \in Transferring => word = "transfer" /\ Len(args) = 3 /\ args[2] # 0
    /\ pc \in {"get_to"} \cup Puts => args[3] <= prev_from
    /\ pc \in Puts => args[3] <= MaxAmount - prev_to

-----------------------------------------------------------------------------
(* Numbers *)

LEMMA ModRange ==
    ASSUME NEW n \in Nat \ {0}, NEW a \in Int
    PROVE  a % n \in 0 .. n - 1
OBVIOUS

\* The slot that is as far from h as s is, is s.
LEMMA ModBack ==
    ASSUME NEW n \in Nat \ {0}, NEW h \in 0 .. n - 1, NEW s \in 0 .. n - 1
    PROVE  (h + ((s - h) % n)) % n = s
<1>1. CASE s >= h
  <2>1. (s - h) % n = s - h  BY <1>1
  <2>2. h + (s - h) = s  OBVIOUS
  <2>3. s % n = s  OBVIOUS
  <2> QED  BY <2>1, <2>2, <2>3
<1>2. CASE s < h
  <2>1. (s - h) % n = s - h + n  BY <1>2
  <2>2. h + (s - h + n) = s + n  OBVIOUS
  <2>3. (s + n) % n = s  OBVIOUS
  <2> QED  BY <2>1, <2>2, <2>3
<1> QED  BY <1>1, <1>2

\* One slot further, or back at h.
LEMMA ModNext ==
    ASSUME NEW n \in Nat \ {0}, NEW h \in 0 .. n - 1, NEW s \in 0 .. n - 1
    PROVE  \/ (((s + 1) % n) - h) % n = 0
           \/ (((s + 1) % n) - h) % n = ((s - h) % n) + 1
<1>1. CASE s + 1 = n
  <2>1. (s + 1) % n = 0  BY <1>1
  <2>2. CASE h = 0  BY <2>1, <2>2
  <2>3. CASE h > 0
    <3>1. (0 - h) % n = n - h  BY <2>3
    <3>2. (s - h) % n = s - h  BY <1>1
    <3> QED  BY <2>1, <3>1, <3>2, <1>1
  <2> QED  BY <2>2, <2>3
<1>2. CASE s + 1 < n
  <2>1. (s + 1) % n = s + 1  BY <1>2
  <2>2. CASE s + 1 < h
    <3>1. (s + 1 - h) % n = s + 1 - h + n  BY <2>2
    <3>2. (s - h) % n = s - h + n  BY <2>2
    <3> QED  BY <2>1, <3>1, <3>2
  <2>3. CASE s + 1 = h  BY <2>1, <2>3
  <2>4. CASE s >= h
    <3>1. (s + 1 - h) % n = s + 1 - h  BY <2>4, <1>2
    <3>2. (s - h) % n = s - h  BY <2>4
    <3> QED  BY <2>1, <3>1, <3>2
  <2> QED  BY <2>2, <2>3, <2>4
<1> QED  BY <1>1, <1>2

LEMMA Homes == \A a \in Address : Home(a) \in Slot
BY ContractAssumption, ModRange DEF Home, Slot

-----------------------------------------------------------------------------
(* Types *)

LEMMA ProgressInit == Init => Progress
<1> SUFFICES ASSUME Init PROVE Progress  OBVIOUS
<1>1. Creator \in Address /\ Supply \in Amount /\ 0 \in Amount /\ 0 \in Slot
  BY ContractAssumption DEF Amount, Slot
<1>2. keys \in [Slot -> Address] /\ values \in [Slot -> Amount]
  BY <1>1, ContractAssumption DEF Init
<1>3. answer \in Answers  BY DEF Init, Answers
<1> QED
  BY <1>1, <1>2, <1>3
  DEF Init, Progress, TypeOK, Wanted, Transferring, Puts, Gets, Said

LEMMA WantedNumbers ==
    \A w : /\ Wanted(w) \in {0, 1, 3}
           /\ Wanted(w) = 1 <=> w = "balance-of"
           /\ Wanted(w) = 3 <=> w = "transfer"
BY DEF Wanted

LEMMA Numbers ==
    ASSUME NEW l \in Lexeme, l.word = "number"
    PROVE  l.n \in Address
BY DEF Lexeme, Num, Word

\* The end of a command forgets all that was known of it.
LEMMA FinishProgress ==
    ASSUME Progress, NEW reply \in Answers, Finish(reply),
           keys' \in [Slot -> Address], values' \in [Slot -> Amount],
           input' \in Seq(Lexeme), orderly' = orderly
    PROVE  Progress'
<1>1. 0 \in Slot /\ 0 \in Amount  BY ContractAssumption DEF Slot, Amount
<1>2. TypeOK'
  BY <1>1 DEF Progress, TypeOK, Finish, Wanted
<1> QED
  BY <1>2 DEF Progress, Finish, Transferring, Puts, Gets

LEMMA ReadCommandProgress == Progress /\ ReadCommand => Progress'
<1> SUFFICES ASSUME Progress, ReadCommand PROVE Progress'  OBVIOUS
<1> DEFINE w == Head(input).word
<1>1. input' \in Seq(Lexeme)  BY DEF Progress, TypeOK, ReadCommand
<1>2. Told(Supply) \in Answers /\ Said("error") \in Answers
  BY ContractAssumption DEF Answers, Amount
<1>3. CASE w = "total-supply"
  <2>1. Finish(Told(Supply))
    BY <1>3, WantedNumbers DEF ReadCommand, Finish
  <2> QED
    BY <2>1, <1>1, <1>2, FinishProgress DEF Progress, TypeOK, ReadCommand, table
<1>4. CASE w # "total-supply" /\ Wanted(w) > 0
  <2>1. /\ word' = w /\ pc' = "numbers"
        /\ UNCHANGED <<keys, values, args, i, prev_from, prev_to, answer, orderly, owed>>
    BY <1>4 DEF ReadCommand, table, locals
  <2>2. args = <<>>  BY DEF Progress, ReadCommand
  <2>3. w \in {"balance-of", "transfer"}  BY <1>4, WantedNumbers
  <2>4. Len(args) < Wanted(w)  BY <2>2, <1>4, WantedNumbers
  <2> HIDE DEF w
  <2>5. TypeOK'
    BY <1>1, <2>1, <2>3, <2>4, WantedNumbers DEF Progress, TypeOK
  <2> QED
    BY <2>1, <2>3, <2>4, <2>5 DEF Progress, Transferring, Puts, Gets
<1>5. CASE w # "total-supply" /\ ~(Wanted(w) > 0)
  <2>1. Finish(Said("error"))
    BY <1>5, WantedNumbers DEF ReadCommand
  <2> QED
    BY <2>1, <1>1, <1>2, FinishProgress DEF Progress, TypeOK, ReadCommand, table
<1> QED  BY <1>3, <1>4, <1>5

LEMMA ReadNumberProgress == Progress /\ ReadNumber => Progress'
<1> SUFFICES ASSUME Progress, ReadNumber PROVE Progress'  OBVIOUS
<1> DEFINE read == Append(args, Head(input).n)
<1>1. /\ input' \in Seq(Lexeme) /\ Head(input) \in Lexeme
      /\ UNCHANGED <<keys, values, orderly>>
  BY DEF Progress, TypeOK, ReadNumber, table
<1>2. Head(input).n \in Address  BY <1>1, Numbers DEF ReadNumber
<1>3. /\ read \in Seq(Address) /\ Len(read) = Len(args) + 1
      /\ Len(read) <= Wanted(word) /\ word \in {"balance-of", "transfer"}
      /\ Len(args) \in Nat
  BY <1>2, WantedNumbers DEF Progress, TypeOK, ReadNumber
<1>4. read[1] \in Address  BY <1>3
<1>5. CASE ToNobody(read)
  <2>1. Finish(Said("failed"))  BY <1>5 DEF ReadNumber
  <2>2. Said("failed") \in Answers  BY DEF Answers
  <2> QED  BY <2>1, <2>2, <1>1, FinishProgress DEF Progress, TypeOK
<1>6. CASE ~ToNobody(read) /\ Len(read) < Wanted(word)
  <2>1. args' = read /\ UNCHANGED <<pc, word, i, prev_from, prev_to, answer, owed>>
    BY <1>6 DEF ReadNumber, locals
  <2> HIDE DEF read
  <2>2. TypeOK'
    BY <1>1, <1>3, <2>1 DEF Progress, TypeOK
  <2> QED
    BY <2>1, <2>2, <1>6 DEF Progress, ReadNumber, Transferring, Puts, Gets
<1>7. CASE ~ToNobody(read) /\ ~(Len(read) < Wanted(word))
  <2>1. /\ Search(IF word = "transfer" THEN "get_from" ELSE "balance", read[1])
        /\ args' = read /\ UNCHANGED <<word, prev_from, prev_to, answer, owed>>
    BY <1>7 DEF ReadNumber
  <2>2. Len(read) = Wanted(word)
    BY <1>3, <1>7, WantedNumbers
  <2>3. word = "transfer" => read[2] # 0
    BY <2>2, <1>7, WantedNumbers DEF ToNobody
  <2> HIDE DEF read
  <2>4. TypeOK'
    BY <1>1, <1>3, <1>4, <2>1, Homes DEF Progress, TypeOK, Search, Gets
  <2> QED
    BY <1>3, <2>1, <2>2, <2>3, <2>4
    DEF Progress, Search, Transferring, Puts, Gets, Wanted
<1> QED  BY <1>5, <1>6, <1>7

LEMMA ReadFailsProgress == Progress /\ ReadFails => Progress'
<1>1. Said("error") \in Answers  BY DEF Answers
<1> QED  BY <1>1, FinishProgress DEF Progress, TypeOK, ReadFails, table

LEMMA LineProgress ==
    ASSUME Progress, NEW l \in Lines, Line(l)
    PROVE  Progress'
<1>1. l \in Seq(Lexeme)  BY LinesAssumption
<1>2. owed' \in Int  BY DEF Progress, TypeOK, Line
<1>3. orderly' \in BOOLEAN
  BY DEF Progress, TypeOK, Line, OneCommand
<1>4. UNCHANGED <<keys, values, pc, word, args, i, prev_from, prev_to, answer>>
  BY DEF Line, table, locals
<1>5. input' = l  BY DEF Line
<1>6. TypeOK'  BY <1>1, <1>2, <1>3, <1>4, <1>5 DEF Progress, TypeOK
<1> QED  BY <1>4, <1>6 DEF Progress, Transferring, Puts, Gets

LEMMA EndOfInputProgress == Progress /\ EndOfInput => Progress'
<1> SUFFICES ASSUME Progress, EndOfInput PROVE Progress'  OBVIOUS
<1>1. answer' \in Answers  BY DEF Progress, TypeOK, EndOfInput, Answers
<1>2. TypeOK'
  BY <1>1 DEF Progress, TypeOK, EndOfInput, table, locals, sent, Wanted
<1> QED  BY <1>2 DEF Progress, EndOfInput, Transferring, Puts, Gets

LEMMA WalkProgress == Progress /\ Walk => Progress'
<1> SUFFICES ASSUME Progress, Walk PROVE Progress'  OBVIOUS
<1>1. i' \in Slot
  BY ContractAssumption, ModRange DEF Progress, TypeOK, Walk, NextSlot, Slot
<1>2. UNCHANGED <<keys, values, input, pc, word, args, prev_from, prev_to,
                  answer, orderly, owed>>
  BY DEF Walk, table, sent
<1>3. TypeOK'  BY <1>1, <1>2 DEF Progress, TypeOK
<1> QED  BY <1>2, <1>3 DEF Progress, Transferring, Puts, Gets

\* What a search finds is an amount, and so is what a transfer works with.
LEMMA FoundAmount == Progress => Found \in Amount
BY ContractAssumption DEF Progress, TypeOK, Found, Amount

LEMMA Arguments ==
    Progress /\ pc \in Transferring =>
        from \in Address /\ to \in Address /\ amount \in Address /\ to # 0
<1> SUFFICES ASSUME Progress, pc \in Transferring
             PROVE  from \in Address /\ to \in Address /\ amount \in Address /\ to # 0
  OBVIOUS
<1>1. args \in Seq(Address) /\ Len(args) = 3 /\ args[2] # 0
  BY DEF Progress, TypeOK
<1>2. args[1] \in Address /\ args[2] \in Address /\ args[3] \in Address
  BY <1>1
<1> QED  BY <1>1, <1>2 DEF from, to, amount

LEMMA BalanceOfProgress == Progress /\ BalanceOf => Progress'
<1> SUFFICES ASSUME Progress, BalanceOf PROVE Progress'  OBVIOUS
<1>1. Told(Found) \in Answers  BY FoundAmount DEF Answers
<1> QED
  BY <1>1, FinishProgress DEF Progress, TypeOK, BalanceOf, GetEnds, table

LEMMA TransferFromProgress == Progress /\ TransferFrom => Progress'
<1> SUFFICES ASSUME Progress, TransferFrom PROVE Progress'  OBVIOUS
<1>1. Said("failed") \in Answers /\ pc \in Transferring
  BY DEF Answers, TransferFrom, GetEnds, Transferring
<1>2. UNCHANGED <<keys, values, input, orderly>>
  BY DEF TransferFrom, GetEnds, table
<1>3. CASE Found < amount
  BY <1>1, <1>2, <1>3, FinishProgress DEF Progress, TypeOK, TransferFrom
<1>4. CASE ~(Found < amount)
  <2>1. /\ pc' = "get_to" /\ i' = Home(to) /\ prev_from' = Found
        /\ UNCHANGED <<word, args, prev_to, answer, owed>>
    BY <1>4 DEF TransferFrom, Search
  <2>2. /\ Found \in Amount /\ Home(to) \in Slot
        /\ word = "transfer" /\ Len(args) = 3 /\ args[2] # 0
    BY <1>1, FoundAmount, Arguments, Homes DEF Progress
  <2>3. args[3] <= Found
    <3>1. amount \in Address  BY <1>1, Arguments
    <3>2. amount \in Nat /\ Found \in Nat
      BY <3>1, <2>2, ContractAssumption DEF Amount
    <3> QED  BY <3>2, <1>4 DEF amount
  <2>4. TypeOK'
    BY <1>2, <2>1, <2>2 DEF Progress, TypeOK, Gets
  <2> QED
    BY <2>1, <2>2, <2>3, <2>4 DEF Progress, Transferring, Puts, Gets
<1> QED  BY <1>3, <1>4

LEMMA TransferToProgress == Progress /\ TransferTo => Progress'
<1> SUFFICES ASSUME Progress, TransferTo PROVE Progress'  OBVIOUS
<1>1. Said("failed") \in Answers /\ pc \in Transferring /\ pc = "get_to"
  BY DEF Answers, TransferTo, GetEnds, Transferring
<1>2. UNCHANGED <<keys, values, input, orderly>>
  BY DEF TransferTo, GetEnds, table
<1>3. CASE Overflows(Found)
  BY <1>1, <1>2, <1>3, FinishProgress DEF Progress, TypeOK, TransferTo
<1>4. CASE ~Overflows(Found)
  <2>1. /\ pc' = "put_from" /\ i' = Home(from) /\ prev_to' = Found
        /\ UNCHANGED <<word, args, prev_from, answer, owed>>
    BY <1>4 DEF TransferTo, Search
  <2>2. /\ Found \in Amount /\ Home(from) \in Slot
        /\ word = "transfer" /\ Len(args) = 3 /\ args[2] # 0
        /\ args[3] <= prev_from
    BY <1>1, FoundAmount, Arguments, Homes DEF Progress
  <2>3. args[3] <= MaxAmount - Found
    <3>1. amount \in Address  BY <1>1, Arguments
    <3>2. amount \in Nat /\ Found \in Nat /\ MaxAmount \in Nat
      BY <3>1, <2>2, ContractAssumption DEF Amount
    <3> QED  BY <3>2, <1>4 DEF Overflows, amount
  <2>4. TypeOK'
    BY <1>2, <2>1, <2>2 DEF Progress, TypeOK, Puts
  <2> QED
    BY <2>1, <2>2, <2>3, <2>4 DEF Progress, Transferring, Puts, Gets
<1> QED  BY <1>3, <1>4

\* The two sums of a transfer stay within 64 bits.
LEMMA SumsFit ==
    ASSUME Progress, pc \in Puts
    PROVE  prev_from - amount \in Amount /\ prev_to + amount \in Amount
<1>1. /\ amount \in Nat /\ MaxAmount \in Nat
      /\ prev_from \in 0 .. MaxAmount /\ prev_to \in 0 .. MaxAmount
  BY Arguments, ContractAssumption DEF Progress, TypeOK, Transferring, Amount
<1>2. amount <= prev_from /\ amount <= MaxAmount - prev_to
  BY DEF Progress, amount
<1> HIDE DEF Progress
<1> QED  BY <1>1, <1>2 DEF Amount

LEMMA DebitProgress == Progress /\ Debit => Progress'
<1> SUFFICES ASSUME Progress, Debit PROVE Progress'  OBVIOUS
<1>1. pc \in Puts /\ pc = "put_from" /\ pc \in Transferring
  BY DEF Debit, Puts, Transferring
<1>2. /\ pc' = "put_to" /\ i' = Home(to)
      /\ UNCHANGED <<input, word, args, prev_from, prev_to, answer, orderly, owed>>
  BY DEF Debit, Search, sent
<1>3. /\ word = "transfer" /\ Len(args) = 3 /\ args[2] # 0
      /\ args[3] <= prev_from /\ args[3] <= MaxAmount - prev_to
      /\ Home(to) \in Slot
  BY <1>1, Arguments, Homes DEF Progress
<1>4. keys' \in [Slot -> Address] /\ values' \in [Slot -> Amount]
  BY <1>1, SumsFit, Arguments DEF Progress, TypeOK, Debit, Insert, Key
<1>5. TypeOK'
  BY <1>2, <1>3, <1>4 DEF Progress, TypeOK, Puts
<1> QED
  BY <1>2, <1>3, <1>5 DEF Progress, Transferring, Puts, Gets

LEMMA CreditProgress == Progress /\ Credit => Progress'
<1> SUFFICES ASSUME Progress, Credit PROVE Progress'  OBVIOUS
<1>1. pc \in Puts /\ pc = "put_to" /\ pc \in Transferring
  BY DEF Credit, Puts, Transferring
<1>2. keys' \in [Slot -> Address] /\ values' \in [Slot -> Amount]
  BY <1>1, SumsFit, Arguments DEF Progress, TypeOK, Credit, Insert, Key, Credited
<1>3. Said("OK") \in Answers  BY DEF Answers
<1> QED
  BY <1>2, <1>3, FinishProgress DEF Progress, TypeOK, Credit

LEMMA NextProgress == Progress /\ [Next]_vars => Progress'
<1> SUFFICES ASSUME Progress, [Next]_vars PROVE Progress'  OBVIOUS
<1>1. CASE UNCHANGED vars
  BY <1>1 DEF Progress, TypeOK, vars, table, locals, sent, Transferring, Puts, Gets
<1>2. CASE Next
  BY <1>2, ReadCommandProgress, ReadNumberProgress, ReadFailsProgress,
     WalkProgress, BalanceOfProgress, TransferFromProgress, TransferToProgress,
     DebitProgress, CreditProgress, EndOfInputProgress, LineProgress
  DEF Next, Run
<1> QED  BY <1>1, <1>2

LEMMA SpecProgress == Spec => []Progress
<1> QED  BY ProgressInit, NextProgress, PTL DEF Spec

\* Balances stay within the 64 bits they are stored in: no subtraction goes
\* below 0 and no sum wraps.
THEOREM TypeCorrect == Spec => []TypeOK
<1>1. Progress => TypeOK  BY DEF Progress
<1> QED  BY <1>1, SpecProgress, PTL

-----------------------------------------------------------------------------
(* The hash table *)

Searching == Gets \cup Puts

\* A search has seen no empty slot and not the account it is for.
Probing ==
    pc \in Searching =>
        \A n \in 0 .. ((i - Home(Key)) % ndata) - 1 :
            LET s == (Home(Key) + n) % ndata
            IN  keys[s] # 0 /\ keys[s] # Key

Hashing == Progress /\ AccountsFindable /\ Probing

LEMMA KeyAddress == Progress /\ pc \in Searching => Key \in Address
<1> SUFFICES ASSUME Progress, pc \in Searching PROVE Key \in Address
  OBVIOUS
<1>1. CASE pc = "balance"
  <2>1. args \in Seq(Address) /\ Len(args) = 1
    BY <1>1 DEF Progress, TypeOK
  <2>2. args[1] \in Address  BY <2>1
  <2> QED  BY <1>1, <2>2 DEF Key, from
<1>2. CASE pc # "balance"
  <2>1. pc \in Transferring
    BY <1>2 DEF Searching, Gets, Puts, Transferring
  <2> QED  BY <2>1, Arguments DEF Key
<1> QED  BY <1>1, <1>2

LEMMA KeyAddressNext == (Progress /\ pc \in Searching => Key \in Address)'
BY KeyAddress, PTL

\* A search starts with nothing seen.
LEMMA AtHome ==
    ASSUME Progress', i' = Home(Key)', pc' \in Searching
    PROVE  Probing'
<1>1. Home(Key)' \in Slot
  <2>1. Key' \in Address  BY KeyAddressNext DEF Searching, Gets, Puts
  <2> QED  BY <2>1, Homes DEF Home
<1>2. ((i - Home(Key)) % ndata)' = 0
  BY <1>1, ContractAssumption DEF Slot
<1> QED  BY <1>2 DEF Probing

LEMMA HashingInit == Init => Hashing
<1> SUFFICES ASSUME Init PROVE Hashing  OBVIOUS
<1>1. Probing  BY DEF Init, Probing, Searching, Gets, Puts
<1>2. AccountsFindable
  <2> SUFFICES ASSUME NEW s \in Slot, keys[s] # 0
               PROVE  /\ \A t \in Slot : keys[t] = keys[s] => t = s
                      /\ \A n \in 0 .. ((s - Home(keys[s])) % ndata) :
                            keys[(Home(keys[s]) + n) % ndata] # 0
    BY DEF AccountsFindable
  <2>1. Home(Creator) \in Slot /\ Creator # 0
    BY Homes, ContractAssumption
  <2>2. s = Home(Creator) /\ keys[s] = Creator
    BY DEF Init, Home
  <2>3. (s - Home(keys[s])) % ndata = 0
    BY <2>1, <2>2, ContractAssumption DEF Slot
  <2>4. (Home(keys[s]) + 0) % ndata = s
    BY <2>1, <2>2, ContractAssumption DEF Slot
  <2>5. \A t \in Slot : keys[t] = keys[s] => t = s
    BY <2>1, <2>2 DEF Init, Home
  <2> QED  BY <2>2, <2>3, <2>4, <2>5
<1> QED  BY <1>1, <1>2, ProgressInit DEF Hashing

\* A search that comes to an empty slot knows that the account has none.
LEMMA Unseen ==
    ASSUME Hashing, pc \in Searching, keys[i] = 0, Key # 0
    PROVE  \A s \in Slot : keys[s] # Key
<1> SUFFICES ASSUME NEW s \in Slot, keys[s] = Key PROVE FALSE  OBVIOUS
<1> DEFINE h == Home(Key)
           seen == (i - h) % ndata
           far == (s - h) % ndata
<1>1. h \in Slot /\ i \in Slot /\ ndata \in Nat \ {0}
  BY KeyAddress, Homes, ContractAssumption DEF Hashing, Progress, TypeOK
<1>2. seen \in 0 .. ndata - 1 /\ far \in 0 .. ndata - 1
  BY <1>1, ModRange DEF Slot
<1>3. (h + seen) % ndata = i /\ (h + far) % ndata = s
  BY <1>1, ModBack DEF Slot
<1>4. \A n \in 0 .. far : keys[(h + n) % ndata] # 0
  BY DEF Hashing, AccountsFindable
<1>5. \A n \in 0 .. seen - 1 : keys[(h + n) % ndata] # Key
  BY DEF Hashing, Probing
<1> HIDE DEF h, seen, far
<1>6. CASE seen <= far
  <2>1. seen \in 0 .. far  BY <1>2, <1>6
  <2> QED  BY <2>1, <1>3, <1>4
<1>7. CASE far < seen
  <2>1. far \in 0 .. seen - 1  BY <1>2, <1>7
  <2> QED  BY <2>1, <1>3, <1>5
<1> QED  BY <1>2, <1>6, <1>7

\* An account that gets a slot is behind the slots its search has seen; those
\* of the others stay where they are.
LEMMA InsertFindable ==
    ASSUME Hashing, pc \in Searching, ~Taken(i),
           keys' = [keys EXCEPT ![i] = Key]
    PROVE  AccountsFindable'
<1>1. i \in Slot /\ keys \in [Slot -> Address] /\ Key \in Address
  BY KeyAddress DEF Hashing, Progress, TypeOK
<1>2. CASE keys[i] = Key
  <2>1. keys' = keys  BY <1>1, <1>2
  <2> QED  BY <2>1 DEF Hashing, AccountsFindable
<1>3. CASE keys[i] # Key
  <2>1. keys[i] = 0 /\ Key # 0  BY <1>3 DEF Taken
  <2>2. \A s \in Slot : keys[s] # Key  BY <2>1, Unseen
  <2>3. \A s \in Slot : keys'[s] = IF s = i THEN Key ELSE keys[s]
    BY <1>1
  <2> SUFFICES ASSUME NEW s \in Slot, keys'[s] # 0
               PROVE  /\ \A t \in Slot : keys'[t] = keys'[s] => t = s
                      /\ \A n \in 0 .. ((s - Home(keys'[s])) % ndata) :
                            keys'[(Home(keys'[s]) + n) % ndata] # 0
    BY DEF AccountsFindable, Home
  <2>4. \A t \in Slot : keys'[t] = keys'[s] => t = s
    <3> SUFFICES ASSUME NEW t \in Slot, keys'[t] = keys'[s] PROVE t = s
      OBVIOUS
    <3>1. CASE s = i \/ t = i  BY <3>1, <2>2, <2>3
    <3>2. CASE s # i /\ t # i
      <4>1. keys[s] # 0 /\ keys[t] = keys[s]  BY <3>2, <2>3
      <4> QED  BY <4>1 DEF Hashing, AccountsFindable
    <3> QED  BY <3>1, <3>2
  <2>5. ASSUME NEW n \in 0 .. ((s - Home(keys'[s])) % ndata)
        PROVE  keys'[(Home(keys'[s]) + n) % ndata] # 0
    <3> DEFINE p == (Home(keys'[s]) + n) % ndata
    <3>1. keys'[s] \in Address  BY <1>1, <2>3
    <3>2. Home(keys'[s]) \in Slot /\ ndata \in Nat \ {0}
      BY <3>1, Homes, ContractAssumption
    <3>3. (s - Home(keys'[s])) % ndata \in 0 .. ndata - 1
      <4>1. s - Home(keys'[s]) \in Int  BY <3>2 DEF Slot
      <4> QED  BY <4>1, <3>2, ModRange
    <3>4. p \in Slot
      <4>1. Home(keys'[s]) + n \in Int  BY <3>2, <3>3 DEF Slot
      <4> QED  BY <4>1, <3>2, ModRange DEF Slot
    <3>5. CASE p = i  BY <3>4, <3>5, <2>1, <2>3
    <3>6. CASE p # i /\ s # i
      <4>1. keys'[s] = keys[s] /\ keys[s] # 0  BY <3>6, <2>3
      <4>2. keys[p] # 0  BY <4>1 DEF Hashing, AccountsFindable
      <4> QED  BY <4>2, <3>4, <3>6, <2>3
    <3>7. CASE p # i /\ s = i
      <4>1. keys'[s] = Key  BY <3>7, <2>3
      <4>2. (Home(Key) + ((i - Home(Key)) % ndata)) % ndata = i
        BY <4>1, <3>2, <3>7, ModBack DEF Slot
      <4>3. n # (s - Home(Key)) % ndata  BY <4>1, <4>2, <3>7
      <4>4. n \in 0 .. ((i - Home(Key)) % ndata) - 1
        BY <4>1, <4>3, <3>3, <3>7
      <4>5. keys[p] # 0  BY <4>1, <4>4 DEF Hashing, Probing
      <4> QED  BY <4>5, <3>4, <3>7, <2>3
    <3> QED  BY <3>5, <3>6, <3>7
  <2> QED  BY <2>4, <2>5
<1> QED  BY <1>2, <1>3

LEMMA WalkProbing == Hashing /\ Walk => Probing'
<1> SUFFICES ASSUME Hashing, Walk PROVE Probing'  OBVIOUS
<1> DEFINE h == Home(Key)
           seen == (i - h) % ndata
           seenNow == (i' - h) % ndata
<1>1. UNCHANGED <<keys, pc, args>> /\ i' = (i + 1) % ndata /\ pc \in Searching
  BY DEF Walk, table, NextSlot, Searching
<1>2. Key' = Key  BY <1>1 DEF Key, from, to
<1>3. h \in Slot /\ i \in Slot /\ ndata \in Nat \ {0}
  BY <1>1, KeyAddress, Homes, ContractAssumption DEF Hashing, Progress, TypeOK
<1>4. seen \in 0 .. ndata - 1 /\ (h + seen) % ndata = i
  <2>1. i - h \in Int  BY <1>3 DEF Slot
  <2>2. seen \in 0 .. ndata - 1  BY <2>1, <1>3, ModRange
  <2>3. (h + seen) % ndata = i  BY <1>3, ModBack DEF Slot
  <2> QED  BY <2>2, <2>3
<1>5. seenNow = 0 \/ seenNow = seen + 1
  BY <1>1, <1>3, ModNext DEF Slot
<1>6. \A n \in 0 .. seen - 1 :
        keys[(h + n) % ndata] # 0 /\ keys[(h + n) % ndata] # Key
  BY <1>1 DEF Hashing, Probing
<1>7. keys[i] # 0 /\ keys[i] # Key  BY DEF Walk, Taken
<1> HIDE DEF seen, h
<1>8. \A n \in 0 .. seen :
        keys[(h + n) % ndata] # 0 /\ keys[(h + n) % ndata] # Key
  <2> SUFFICES ASSUME NEW n \in 0 .. seen
               PROVE  keys[(h + n) % ndata] # 0 /\ keys[(h + n) % ndata] # Key
    OBVIOUS
  <2>1. n = seen \/ n \in 0 .. seen - 1  BY <1>4
  <2> QED  BY <2>1, <1>4, <1>6, <1>7
<1>9. \A n \in 0 .. seenNow - 1 :
        keys[(h + n) % ndata] # 0 /\ keys[(h + n) % ndata] # Key
  BY <1>4, <1>5, <1>8
<1> QED  BY <1>1, <1>2, <1>9 DEF Probing, Home, h

\* Where the table stays as it is.
LEMMA KeysKept ==
    ASSUME Hashing, keys' = keys
    PROVE  AccountsFindable'
BY DEF Hashing, AccountsFindable

LEMMA NotSearching ==
    ASSUME pc' \notin Searching
    PROVE  Probing'
BY DEF Probing

LEMMA FinishProbing == \A reply : Finish(reply) => Probing'
BY NotSearching DEF Finish, Searching, Gets, Puts

LEMMA ReadingProbing == Progress /\ Progress' /\ (ReadCommand \/ ReadNumber) => Probing'
<1> SUFFICES ASSUME Progress, Progress', ReadCommand \/ ReadNumber PROVE Probing'
  OBVIOUS
<1>1. CASE pc' \notin Searching  BY <1>1, NotSearching
<1>2. CASE pc' \in Searching /\ ReadCommand
  <2>1. pc' \in {"command", "numbers"}
    BY <1>2, WantedNumbers DEF ReadCommand, Finish
  <2> QED  BY <1>2, <2>1 DEF Searching, Gets, Puts
<1>3. CASE pc' \in Searching /\ ReadNumber
  <2> DEFINE read == Append(args, Head(input).n)
  <2>1. ~ToNobody(read) /\ ~(Len(read) < Wanted(word))
    BY <1>3 DEF ReadNumber, Finish, Searching, Gets, Puts
  <2>2. /\ Search(IF word = "transfer" THEN "get_from" ELSE "balance", read[1])
        /\ args' = read
    BY <1>3, <2>1 DEF ReadNumber
  <2>3. pc' \in {"get_from", "balance"} /\ i' = Home(args'[1])
    BY <2>2 DEF Search
  <2>4. i' = Home(Key)'  BY <2>3 DEF Key, from, Home
  <2> QED  BY <1>3, <2>4, AtHome
<1> QED  BY <1>1, <1>2, <1>3

LEMMA TransferProbing ==
    ASSUME Progress, Progress', TransferFrom \/ TransferTo \/ Debit
    PROVE  Probing'
<1>1. CASE pc' \notin Searching  BY <1>1, NotSearching
<1>2. CASE pc' \in Searching
  <2>1. /\ args' = args
        /\ \/ pc' = "get_to" /\ i' = Home(to)
           \/ pc' = "put_from" /\ i' = Home(from)
           \/ pc' = "put_to" /\ i' = Home(to)
    BY <1>2 DEF TransferFrom, TransferTo, Debit, Search, Finish, Searching, Gets, Puts
  <2>2. i' = Home(Key)'  BY <2>1 DEF Key, from, to, Home
  <2> QED  BY <1>2, <2>2, AtHome
<1> QED  BY <1>1, <1>2

LEMMA NextHashing == Hashing /\ [Next]_vars => Hashing'
<1> SUFFICES ASSUME Hashing, [Next]_vars PROVE Hashing'  OBVIOUS
<1>1. Progress /\ Progress'  BY NextProgress DEF Hashing
<1>2. CASE ReadCommand \/ ReadNumber
  <2>1. keys' = keys  BY <1>2 DEF ReadCommand, ReadNumber, table
  <2> QED  BY <2>1, <1>1, <1>2, KeysKept, ReadingProbing DEF Hashing
<1>3. CASE ReadFails \/ BalanceOf
  <2>1. keys' = keys  BY <1>3 DEF ReadFails, BalanceOf, GetEnds, table
  <2>2. Probing'  BY <1>3, FinishProbing DEF ReadFails, BalanceOf
  <2> QED  BY <2>1, <2>2, <1>1, KeysKept DEF Hashing
<1>4. CASE Walk
  <2>1. keys' = keys  BY <1>4 DEF Walk, table
  <2> QED  BY <2>1, <1>1, <1>4, KeysKept, WalkProbing DEF Hashing
<1>5. CASE TransferFrom \/ TransferTo
  <2>1. keys' = keys  BY <1>5 DEF TransferFrom, TransferTo, GetEnds, table
  <2> QED  BY <2>1, <1>1, <1>5, KeysKept, TransferProbing DEF Hashing
<1>6. CASE Debit
  <2>1. pc \in Searching /\ ~Taken(i) /\ keys' = [keys EXCEPT ![i] = Key]
    BY <1>6 DEF Debit, Insert, Searching, Puts
  <2> QED  BY <2>1, <1>1, <1>6, InsertFindable, TransferProbing DEF Hashing
<1>7. CASE Credit
  <2>1. pc \in Searching /\ ~Taken(i) /\ keys' = [keys EXCEPT ![i] = Key]
    BY <1>7 DEF Credit, Insert, Searching, Puts
  <2>2. Probing'  BY <1>7, FinishProbing DEF Credit
  <2> QED  BY <2>1, <2>2, <1>1, InsertFindable DEF Hashing
<1>8. CASE EndOfInput \/ (\E l \in Lines : Line(l)) \/ UNCHANGED vars
  <2>1. keys' = keys  BY <1>8 DEF EndOfInput, Line, vars, table
  <2>2. Probing'
    <3>1. CASE EndOfInput
      BY <3>1, NotSearching DEF EndOfInput, Searching, Gets, Puts
    <3>2. CASE \E l \in Lines : Line(l)
      <4>1. pc' \in {"command", "numbers"}  BY <3>2 DEF Line
      <4> QED  BY <4>1, NotSearching DEF Searching, Gets, Puts
    <3>3. CASE UNCHANGED vars
      <4>1. UNCHANGED <<keys, pc, i, args>>  BY <3>3 DEF vars, table, locals
      <4>2. Key' = Key  BY <4>1 DEF Key, from, to
      <4> QED  BY <4>1, <4>2 DEF Hashing, Probing, Home
    <3> QED  BY <1>8, <3>1, <3>2, <3>3
  <2> QED  BY <2>1, <2>2, <1>1, KeysKept DEF Hashing
<1> QED
  BY <1>2, <1>3, <1>4, <1>5, <1>6, <1>7, <1>8 DEF Next, Run

LEMMA SpecHashing == Spec => []Hashing
<1> QED  BY HashingInit, NextHashing, PTL DEF Spec

\* However many accounts collide, and wherever their searches wrap around the
\* end of the table, each is found where its own search looks for it.
THEOREM TableFindable == Spec => []AccountsFindable
<1>1. Hashing => AccountsFindable  BY DEF Hashing
<1> QED  BY <1>1, SpecHashing, PTL

-----------------------------------------------------------------------------
(* One answer for each line *)

\* How much of a whole command the input still holds.
Unread ==
    orderly =>
        /\ pc = "command" => input = <<>> \/ OneCommand(input)
        /\ pc = "numbers" =>
              /\ Len(input) = Wanted(word) - Len(args)
              /\ \A n \in 1 .. Len(input) : input[n].word = "number"
        /\ pc \in Searching \cup {"ended"} => input = <<>>

Discipline == Progress /\ Unread /\ OneAnswerPerLine

\* A command that was the last of its line leaves nothing owed.
LEMMA FinishDiscipline ==
    ASSUME Progress, Progress', NEW reply, Finish(reply), orderly' = orderly,
           orderly => owed = 1 /\ input' = <<>>
    PROVE  Discipline'
<1>1. pc' = "command" /\ (orderly => owed' = 0 /\ input' = <<>>)
  BY DEF Finish
<1> QED
  BY <1>1 DEF Discipline, Unread, OneAnswerPerLine, Searching, Gets, Puts

LEMMA ReadCommandDiscipline ==
    ASSUME Discipline, Progress', ReadCommand
    PROVE  Discipline'
<1> DEFINE w == Head(input).word
<1>1. /\ orderly' = orderly /\ input' = Tail(input) /\ input # <<>>
      /\ pc = "command" /\ input \in Seq(Lexeme) /\ args = <<>>
  BY DEF Discipline, Progress, TypeOK, ReadCommand
<1>2. orderly => owed = 1 /\ OneCommand(input)
  BY <1>1 DEF Discipline, Unread, OneAnswerPerLine
<1>3. CASE w # "total-supply" /\ Wanted(w) > 0
  <2>1. word' = w /\ pc' = "numbers" /\ UNCHANGED <<args, owed>>
    BY <1>3 DEF ReadCommand
  <2>2. ASSUME orderly
        PROVE  /\ Len(input') = Wanted(w)
               /\ \A n \in 1 .. Len(input') : input'[n].word = "number"
    <3>1. /\ Len(input) = 1 + Wanted(w)
          /\ \A j \in 2 .. Len(input) : input[j].word = "number"
      BY <2>2, <1>2 DEF OneCommand
    <3>2. /\ Len(Tail(input)) = Len(input) - 1
          /\ \A n \in 1 .. Len(input) - 1 : Tail(input)[n] = input[n + 1]
      BY <1>1
    <3>3. \A n \in 1 .. Len(input) - 1 : n + 1 \in 2 .. Len(input)
      BY <1>1
    <3>4. Wanted(w) \in {0, 1, 3}  BY WantedNumbers
    <3> HIDE DEF w
    <3> QED  BY <1>1, <3>1, <3>2, <3>3, <3>4
  <2>3. input' # <<>> \/ ~orderly  BY <2>2, <1>3
  <2>4. Len(args') = 0  BY <1>1, <2>1
  <2>5. Wanted(w) \in {0, 1, 3}  BY WantedNumbers
  <2> HIDE DEF w
  <2>6. OneAnswerPerLine'
    BY <1>1, <1>2, <2>1 DEF OneAnswerPerLine
  <2>7. Unread'
    BY <1>1, <2>1, <2>2, <2>4, <2>5 DEF Unread, Searching, Gets, Puts
  <2> QED  BY <2>6, <2>7 DEF Discipline
<1>4. CASE ~(w # "total-supply" /\ Wanted(w) > 0)
  <2>1. Wanted(w) = 0
    BY <1>4, WantedNumbers
  <2>2. \E reply : Finish(reply)
    <3>1. CASE w = "total-supply"
      <4>1. Finish(Told(Supply))
        BY <3>1, WantedNumbers DEF ReadCommand, Finish
      <4> QED  BY <4>1
    <3>2. CASE w # "total-supply"
      <4>1. Finish(Said("error"))
        BY <3>2, <1>4 DEF ReadCommand, Finish
      <4> QED  BY <4>1
    <3> QED  BY <3>1, <3>2
  <2>3. ASSUME orderly PROVE input' = <<>>
    <3>1. Len(input) = 1
      <4>1. Len(input) = 1 + Wanted(w)  BY <2>3, <1>2 DEF OneCommand
      <4> HIDE DEF w
      <4> QED  BY <4>1, <2>1
    <3> QED  BY <3>1, <1>1
  <2> QED
    BY <2>2, <2>3, <1>1, <1>2, FinishDiscipline DEF Discipline
<1> QED  BY <1>3, <1>4

LEMMA ReadNumberDiscipline ==
    ASSUME Discipline, Progress', ReadNumber
    PROVE  Discipline'
<1> DEFINE read == Append(args, Head(input).n)
<1>1. /\ orderly' = orderly /\ input' = Tail(input) /\ input # <<>>
      /\ pc = "numbers" /\ input \in Seq(Lexeme) /\ args \in Seq(Address)
      /\ Len(args) < Wanted(word) /\ Wanted(word) \in {0, 1, 3}
  BY WantedNumbers DEF Discipline, Progress, TypeOK, ReadNumber
<1>2. Len(read) = Len(args) + 1 /\ Len(args) \in Nat
  <2>1. Head(input).n \in Address
    BY <1>1, Numbers DEF ReadNumber
  <2> QED  BY <2>1, <1>1
<1>3. /\ Len(Tail(input)) = Len(input) - 1 /\ Len(input) \in Nat
      /\ \A n \in 1 .. Len(input) - 1 :
            Tail(input)[n] = input[n + 1] /\ n + 1 \in 1 .. Len(input)
  BY <1>1
<1>4. orderly =>
        /\ owed = 1 /\ Len(input) = Wanted(word) - Len(args)
        /\ \A n \in 1 .. Len(input) : input[n].word = "number"
  BY <1>1 DEF Discipline, Unread, OneAnswerPerLine
<1>5. ASSUME orderly, Len(read) = Wanted(word) PROVE input' = <<>>
  <2>1. Len(input) = 1  BY <1>1, <1>2, <1>4, <1>5
  <2> QED  BY <2>1, <1>1
<1>6. CASE ToNobody(read)
  <2>1. Finish(Said("failed"))  BY <1>6 DEF ReadNumber
  <2>2. Len(read) = Wanted(word)
    BY <1>6, WantedNumbers DEF ToNobody
  <2> QED
    BY <2>1, <2>2, <1>1, <1>4, <1>5, FinishDiscipline DEF Discipline
<1>7. CASE ~ToNobody(read) /\ Len(read) < Wanted(word)
  <2>1. args' = read /\ UNCHANGED <<pc, word, owed>>
    BY <1>7 DEF ReadNumber
  <2> HIDE DEF read
  <2>2. orderly =>
          /\ Len(input') = Wanted(word) - Len(args')
          /\ \A n \in 1 .. Len(input') : input'[n].word = "number"
    BY <1>1, <1>2, <1>3, <1>4, <2>1
  <2>3. OneAnswerPerLine'
    BY <1>1, <1>4, <2>1 DEF OneAnswerPerLine
  <2>4. Unread'
    BY <1>1, <2>1, <2>2 DEF Unread, Searching, Gets, Puts
  <2> QED  BY <2>3, <2>4 DEF Discipline
<1>8. CASE ~ToNobody(read) /\ ~(Len(read) < Wanted(word))
  <2>1. pc' \in Searching /\ owed' = owed
    BY <1>8 DEF ReadNumber, Search, Searching, Gets, Puts
  <2>2. Len(read) = Wanted(word)  BY <1>1, <1>2, <1>8
  <2> HIDE DEF read
  <2>3. OneAnswerPerLine'
    BY <1>1, <1>4, <2>1 DEF OneAnswerPerLine, Searching, Gets, Puts
  <2>4. Unread'
    BY <1>1, <1>5, <2>1, <2>2 DEF Unread, Searching, Gets, Puts
  <2> QED  BY <2>3, <2>4 DEF Discipline
<1> QED  BY <1>6, <1>7, <1>8

\* A word where a number should be: the line was not a whole command.
LEMMA ReadFailsDiscipline ==
    ASSUME Discipline, Progress', ReadFails
    PROVE  Discipline'
<1>1. input \in Seq(Lexeme) /\ input # <<>> /\ pc = "numbers"
  BY DEF Discipline, Progress, TypeOK, ReadFails
<1>2. Head(input) = input[1] /\ 1 \in 1 .. Len(input)  BY <1>1
<1>3. ~orderly
  BY <1>1, <1>2 DEF Discipline, Unread, ReadFails
<1>4. Finish(Said("error")) /\ orderly' = orderly  BY DEF ReadFails
<1> QED  BY <1>3, <1>4, FinishDiscipline DEF Discipline

\* A search works on what was read: the line is over.
LEMMA SearchDiscipline ==
    ASSUME Discipline, Progress',
           Walk \/ BalanceOf \/ TransferFrom \/ TransferTo \/ Debit \/ Credit
    PROVE  Discipline'
<1>1. pc \in Searching /\ orderly' = orderly /\ input' = input
  BY DEF Walk, BalanceOf, TransferFrom, TransferTo, GetEnds, Debit, Credit,
         Searching, Gets, Puts, sent
<1>2. orderly => owed = 1 /\ input' = <<>>
  BY <1>1 DEF Discipline, Unread, OneAnswerPerLine, Searching, Gets, Puts
<1>3. (\E reply : Finish(reply)) \/ (pc' \in Searching /\ owed' = owed)
  BY <1>1 DEF Walk, BalanceOf, TransferFrom, TransferTo, GetEnds, Debit, Credit,
              Search, Searching, Gets, Puts, sent
<1>4. CASE \E reply : Finish(reply)
  BY <1>1, <1>2, <1>4, FinishDiscipline DEF Discipline
<1>5. CASE pc' \in Searching /\ owed' = owed
  BY <1>1, <1>2, <1>5
  DEF Discipline, Unread, OneAnswerPerLine, Searching, Gets, Puts
<1> QED  BY <1>3, <1>4, <1>5

LEMMA LineDiscipline ==
    ASSUME Discipline, Progress', NEW l \in Lines, Line(l)
    PROVE  Discipline'
<1>1. /\ pc' = pc /\ input = <<>> /\ input' = l /\ pc \in {"command", "numbers"}
      /\ orderly' = (orderly /\ OneCommand(l))
      /\ owed' = IF orderly' THEN owed + 1 ELSE 0
      /\ word' = word /\ args' = args
  BY DEF Line
<1>2. CASE orderly'
  <2>1. orderly /\ OneCommand(l)  BY <1>1, <1>2
  <2>2. pc = "command"
    <3>1. CASE pc = "numbers"
      <4>1. Len(input) = 0 /\ Len(args) < Wanted(word) /\ Len(args) \in Nat
        BY <1>1, <3>1 DEF Discipline, Progress, TypeOK
      <4>2. Len(input) = Wanted(word) - Len(args)
        BY <2>1, <3>1 DEF Discipline, Unread
      <4>3. Wanted(word) \in {0, 1, 3}  BY WantedNumbers
      <4> QED  BY <4>1, <4>2, <4>3
    <3> QED  BY <1>1, <3>1
  <2>3. l # <<>>
    <3>1. Len(l) = 1 + Wanted(Head(l).word)  BY <2>1 DEF OneCommand
    <3>2. Wanted(Head(l).word) \in {0, 1, 3}  BY WantedNumbers
    <3> QED  BY <3>1, <3>2
  <2>4. owed = 0  BY <1>1, <2>1, <2>2 DEF Discipline, OneAnswerPerLine
  <2>5. owed' = 1  BY <1>1, <1>2, <2>4
  <2>6. OneAnswerPerLine'  BY <1>1, <2>3, <2>5 DEF OneAnswerPerLine
  <2>7. OneCommand(input')  BY <1>1, <2>1
  <2>8. Unread'
    BY <1>1, <2>2, <2>7 DEF Unread, Searching, Gets, Puts, OneCommand
  <2> QED  BY <2>6, <2>8 DEF Discipline
<1>3. CASE ~orderly'
  BY <1>3 DEF Discipline, Unread, OneAnswerPerLine
<1> QED  BY <1>2, <1>3

LEMMA EndOfInputDiscipline ==
    ASSUME Discipline, Progress', EndOfInput
    PROVE  Discipline'
<1>1. /\ pc \in {"command", "numbers"} /\ input = <<>> /\ pc' = "ended"
      /\ UNCHANGED <<input, orderly, owed>>
  BY DEF EndOfInput, sent
<1>2. orderly => pc # "numbers"
  <2> SUFFICES ASSUME orderly, pc = "numbers" PROVE FALSE  OBVIOUS
  <2>1. Len(input) = 0 /\ Len(args) < Wanted(word) /\ Len(args) \in Nat
    BY <1>1 DEF Discipline, Progress, TypeOK
  <2>2. Len(input) = Wanted(word) - Len(args)  BY DEF Discipline, Unread
  <2>3. Wanted(word) \in {0, 1, 3}  BY WantedNumbers
  <2> QED  BY <2>1, <2>2, <2>3
<1> QED
  BY <1>1, <1>2
  DEF Discipline, Unread, OneAnswerPerLine, Searching, Gets, Puts

LEMMA DisciplineInit == Init => Discipline
<1> SUFFICES ASSUME Init PROVE Discipline  OBVIOUS
<1>1. Progress  BY ProgressInit
<1> QED
  BY <1>1
  DEF Init, Discipline, Unread, OneAnswerPerLine, Searching, Gets, Puts

LEMMA NextDiscipline == Discipline /\ [Next]_vars => Discipline'
<1> SUFFICES ASSUME Discipline, [Next]_vars PROVE Discipline'  OBVIOUS
<1>1. Progress'  BY NextProgress DEF Discipline
<1>2. CASE UNCHANGED vars
  BY <1>1, <1>2
  DEF Discipline, Unread, OneAnswerPerLine, OneCommand, vars, sent
<1>3. CASE Next
  BY <1>1, <1>3, ReadCommandDiscipline, ReadNumberDiscipline,
     ReadFailsDiscipline, SearchDiscipline, LineDiscipline, EndOfInputDiscipline
  DEF Next, Run
<1> QED  BY <1>2, <1>3

LEMMA SpecDiscipline == Spec => []Discipline
<1> QED  BY DisciplineInit, NextDiscipline, PTL DEF Spec

\* A client that sends whole commands, one a line, and reads a line for each,
\* is never out of step with the contract.
THEOREM LinesAnswered == Spec => []OneAnswerPerLine
<1>1. Discipline => OneAnswerPerLine  BY DEF Discipline
<1> QED  BY <1>1, SpecDiscipline, PTL

-----------------------------------------------------------------------------
(* The table of balances *)

\* What a transfer has read and written so far.
Copies ==
    /\ pc \in {"get_to", "put_from"} => prev_from = Held(from)
    /\ pc = "put_from" => prev_to = Held(to)
    /\ pc = "put_to" =>
          /\ prev_to = IF from = to THEN prev_from ELSE Held(to)
          /\ Held(from) = prev_from - amount

Keeping == Hashing /\ Copies

LEMMA HeldAt ==
    Hashing => \A s \in Slot, a \in Address \ {0} : keys[s] = a => Held(a) = values[s]
<1> SUFFICES ASSUME Hashing, NEW s \in Slot, NEW a \in Address \ {0}, keys[s] = a
             PROVE  Held(a) = values[s]
  OBVIOUS
<1> DEFINE c == CHOOSE t \in Slot : keys[t] = a
<1>1. c \in Slot /\ keys[c] = a  OBVIOUS
<1>2. c = s  BY <1>1 DEF Hashing, AccountsFindable
<1>3. Held(a) = values[c]  BY DEF Held
<1> QED  BY <1>2, <1>3

LEMMA HeldAtNext ==
    (Hashing => \A s \in Slot, a \in Address \ {0} : keys[s] = a => Held(a) = values[s])'
BY HeldAt, PTL

LEMMA HeldAmount == Hashing => \A a \in Address : Held(a) \in Amount
<1> SUFFICES ASSUME Hashing, NEW a \in Address PROVE Held(a) \in Amount
  OBVIOUS
<1>1. 0 \in Amount  BY ContractAssumption DEF Amount
<1>2. CASE a # 0 /\ \E s \in Slot : keys[s] = a
  <2>1. PICK s \in Slot : keys[s] = a  BY <1>2
  <2>2. Held(a) = values[s]  BY <2>1, <1>2, HeldAt
  <2> QED  BY <2>2 DEF Hashing, Progress, TypeOK
<1>3. CASE ~(a # 0 /\ \E s \in Slot : keys[s] = a)
  BY <1>1, <1>3 DEF Held
<1> QED  BY <1>2, <1>3

\* get finds what the table holds.
LEMMA FoundHeld ==
    ASSUME Hashing, pc \in Searching, ~Taken(i)
    PROVE  Found = Held(Key)
<1>1. i \in Slot  BY DEF Hashing, Progress, TypeOK
<1>2. CASE keys[i] = 0
  <2>1. Key # 0 => \A s \in Slot : keys[s] # Key  BY <1>2, Unseen
  <2> QED  BY <2>1, <1>2 DEF Found, Held
<1>3. CASE keys[i] # 0
  <2>1. keys[i] = Key /\ Key \in Address \ {0}
    BY <1>3, KeyAddress DEF Taken, Hashing
  <2> QED  BY <2>1, <1>1, <1>3, HeldAt DEF Found
<1> QED  BY <1>2, <1>3

\* insert changes what the table holds for its account alone.
LEMMA HeldInsert ==
    ASSUME Hashing, Hashing', pc \in Searching, NEW v, Insert(v)
    PROVE  \A a \in Address :
              Held(a)' = IF a = Key /\ a # 0 THEN v ELSE Held(a)
<1> SUFFICES ASSUME NEW a \in Address
             PROVE  Held(a)' = IF a = Key /\ a # 0 THEN v ELSE Held(a)
  OBVIOUS
<1>1. /\ i \in Slot /\ keys \in [Slot -> Address] /\ values \in [Slot -> Amount]
      /\ keys[i] \in {0, Key}
      /\ keys' = [keys EXCEPT ![i] = Key] /\ values' = [values EXCEPT ![i] = v]
  BY DEF Hashing, Progress, TypeOK, Insert, Taken
<1>2. CASE a = 0  BY <1>2 DEF Held
<1>3. CASE a # 0 /\ a = Key
  <2>1. keys'[i] = a /\ values'[i] = v  BY <1>1, <1>3
  <2>2. Held(a)' = values'[i]  BY <2>1, <1>1, <1>3, HeldAtNext
  <2> QED  BY <2>1, <2>2, <1>3
<1>4. CASE a # 0 /\ a # Key
  <2>1. \A s \in Slot : keys[s] = a <=> keys'[s] = a
    BY <1>1, <1>4
  <2>2. CASE \E s \in Slot : keys[s] = a
    <3>1. PICK s \in Slot : keys[s] = a  BY <2>2
    <3>2. keys'[s] = a /\ s # i /\ values'[s] = values[s]
      BY <1>1, <1>4, <2>1, <3>1
    <3>3. Held(a) = values[s]  BY <3>1, <1>4, HeldAt
    <3>4. Held(a)' = values'[s]  BY <3>2, <1>4, HeldAtNext
    <3> QED  BY <3>2, <3>3, <3>4, <1>4
  <2>3. CASE ~\E s \in Slot : keys[s] = a
    BY <2>1, <2>3, <1>4 DEF Held
  <2> QED  BY <2>2, <2>3
<1> QED  BY <1>2, <1>3, <1>4

LEMMA HeldKept ==
    ASSUME UNCHANGED table, NEW a
    PROVE  Held(a)' = Held(a)
BY DEF table, Held

LEMMA KeepingInit == Init => Keeping
BY HashingInit DEF Init, Keeping, Copies

LEMMA NotTransferring ==
    ASSUME Hashing', pc' \notin {"get_to", "put_from", "put_to"}
    PROVE  Keeping'
BY DEF Keeping, Copies

LEMMA DebitKeeping ==
    ASSUME Keeping, Hashing', Debit
    PROVE  Keeping'
<1>1. /\ pc = "put_from" /\ pc \in Searching /\ pc \in Transferring
      /\ pc' = "put_to" /\ Insert(prev_from - amount)
      /\ UNCHANGED <<args, prev_from, prev_to>> /\ Key = from
  BY DEF Debit, Search, Searching, Puts, Transferring, Key
<1>2. PICK f, t, m : f = from /\ t = to /\ m = amount  OBVIOUS
<1>3. from' = f /\ to' = t /\ amount' = m
  BY <1>1, <1>2 DEF from, to, amount
<1>4. f \in Address /\ t \in Address /\ m \in Nat /\ prev_from \in Nat
      /\ m <= prev_from
  <2>1. f \in Address /\ t \in Address /\ m \in Address
    BY <1>1, <1>2, Arguments DEF Keeping, Hashing
  <2>2. m <= prev_from /\ prev_from \in Amount
    BY <1>1, <1>2 DEF Keeping, Hashing, Progress, TypeOK, Puts, amount
  <2> QED  BY <2>1, <2>2, ContractAssumption DEF Amount
<1>5. \A a \in Address :
        Held(a)' = IF a = f /\ a # 0 THEN prev_from - m ELSE Held(a)
  BY <1>1, <1>2, HeldInsert DEF Keeping
<1>6. prev_from = Held(f) /\ prev_to = Held(t)
  BY <1>1, <1>2 DEF Keeping, Copies
<1>7. Held(f)' = prev_from - m
  <2>1. CASE f = 0
    <3>1. Held(f)' = 0 /\ Held(f) = 0  BY <2>1 DEF Held
    <3> QED  BY <3>1, <1>4, <1>6
  <2> QED  BY <2>1, <1>4, <1>5
<1>8. f # t => Held(t)' = prev_to
  BY <1>4, <1>5, <1>6
<1>9. f = t => prev_to = prev_from  BY <1>6
<1>10. (Held(from))' = Held(f)' /\ (Held(to))' = Held(t)'
  BY <1>3 DEF Held
<1>11. Copies'
  <2>1. prev_to' = IF from' = to' THEN prev_from' ELSE (Held(to))'
    BY <1>1, <1>3, <1>8, <1>9, <1>10
  <2>2. (Held(from))' = prev_from' - amount'
    BY <1>1, <1>3, <1>7, <1>10
  <2> QED  BY <1>1, <2>1, <2>2 DEF Copies
<1> QED  BY <1>11 DEF Keeping

LEMMA NextKeeping == Keeping /\ [Next]_vars => Keeping'
<1> SUFFICES ASSUME Keeping, [Next]_vars PROVE Keeping'  OBVIOUS
<1>1. Hashing /\ Hashing' /\ Progress  BY NextHashing DEF Keeping, Hashing
<1>2. CASE pc' \notin {"get_to", "put_from", "put_to"}
  BY <1>1, <1>2, NotTransferring
<1>3. CASE Debit  BY <1>1, <1>3, DebitKeeping
<1>4. CASE TransferFrom /\ pc' = "get_to"
  <2>1. /\ prev_from' = Found /\ args' = args /\ UNCHANGED table
        /\ ~Taken(i) /\ pc \in Searching /\ Key = from
    BY <1>4 DEF TransferFrom, GetEnds, Finish, Searching, Gets, Key
  <2>2. Found = Held(from)  BY <2>1, <1>1, FoundHeld
  <2>3. (Held(from))' = Held(from)
    BY <2>1 DEF Held, table, from
  <2> QED  BY <1>1, <1>4, <2>1, <2>2, <2>3 DEF Keeping, Copies
<1>5. CASE TransferTo /\ pc' = "put_from"
  <2>1. /\ prev_to' = Found /\ UNCHANGED <<args, prev_from>> /\ UNCHANGED table
        /\ ~Taken(i) /\ pc \in Searching /\ pc = "get_to" /\ Key = to
    BY <1>5 DEF TransferTo, GetEnds, Finish, Searching, Gets, Key
  <2>2. Found = Held(to) /\ prev_from = Held(from)
    BY <2>1, <1>1, FoundHeld DEF Keeping, Copies
  <2>3. (Held(from))' = Held(from) /\ (Held(to))' = Held(to)
    BY <2>1 DEF Held, table, from, to
  <2> QED  BY <1>1, <1>5, <2>1, <2>2, <2>3 DEF Keeping, Copies
<1>6. CASE UNCHANGED <<pc, args, prev_from, prev_to, table>>
  <2>1. from' = from /\ to' = to /\ amount' = amount
    BY <1>6 DEF from, to, amount
  <2>2. (Held(from))' = Held(from) /\ (Held(to))' = Held(to)
    BY <1>6, <2>1 DEF Held, table
  <2> QED  BY <1>1, <1>6, <2>1, <2>2 DEF Keeping, Copies
<1>7. ASSUME pc' \in {"get_to", "put_from", "put_to"}
      PROVE  \/ Debit
             \/ TransferFrom /\ pc' = "get_to"
             \/ TransferTo /\ pc' = "put_from"
             \/ UNCHANGED <<pc, args, prev_from, prev_to, table>>
  <2>1. CASE ReadCommand
    <3>1. pc' \in {"command", "numbers"}
      BY <2>1, WantedNumbers DEF ReadCommand, Finish
    <3> QED  BY <3>1, <1>7
  <2>2. CASE ReadNumber
    <3>1. pc' = pc \/ pc' \in {"command", "balance", "get_from"}
      BY <2>2 DEF ReadNumber, Finish, Search
    <3> QED  BY <3>1, <2>2, <1>7 DEF ReadNumber
  <2>3. CASE ReadFails \/ BalanceOf \/ Credit
    BY <2>3, <1>7 DEF ReadFails, BalanceOf, Credit, Finish
  <2>4. CASE TransferFrom
    BY <2>4, <1>7 DEF TransferFrom, Finish, Search
  <2>5. CASE TransferTo
    BY <2>5, <1>7 DEF TransferTo, Finish, Search
  <2>6. CASE EndOfInput  BY <2>6, <1>7 DEF EndOfInput
  <2>7. CASE Walk \/ (\E l \in Lines : Line(l)) \/ UNCHANGED vars
    BY <2>7 DEF Walk, Line, vars, locals
  <2>8. CASE Debit  BY <2>8
  <2> QED
    BY <2>1, <2>2, <2>3, <2>4, <2>5, <2>6, <2>7, <2>8 DEF Next, Run
<1> QED  BY <1>2, <1>3, <1>4, <1>5, <1>6, <1>7

LEMMA SpecKeeping == Spec => []Keeping
<1> QED  BY KeepingInit, NextKeeping, PTL DEF Spec

-----------------------------------------------------------------------------
(* Every step of the contract is one of the token, or none *)

LEMMA BalanceHeld ==
    ASSUME pc # "put_to"
    PROVE  \A a \in Address : Balance[a] = Held(a)
BY DEF Balance

\* Before the second insertion nothing can be told from the balances.
LEMMA BalanceKept ==
    ASSUME UNCHANGED table, pc # "put_to", pc' # "put_to"
    PROVE  Balance' = Balance
BY DEF Balance, Held, table

LEMMA LedgerInit == Init => Ledger!Init
<1> SUFFICES ASSUME Init PROVE Ledger!Init  OBVIOUS
<1>1. Hashing /\ pc # "put_to"  BY HashingInit DEF Init
<1>2. \A a \in Address : Balance[a] = IF a = Creator THEN Supply ELSE 0
  <2> SUFFICES ASSUME NEW a \in Address
               PROVE  Held(a) = IF a = Creator THEN Supply ELSE 0
    BY <1>1, BalanceHeld
  <2>1. Home(Creator) \in Slot /\ Creator \in Address \ {0}
    BY Homes, ContractAssumption
  <2>2. keys[Home(Creator)] = Creator /\ values[Home(Creator)] = Supply
    BY <2>1 DEF Init, Home
  <2>3. CASE a = Creator  BY <2>1, <2>2, <2>3, <1>1, HeldAt
  <2>4. CASE a # Creator
    <3>1. \A s \in Slot : keys[s] \in {0, Creator}  BY DEF Init
    <3> QED  BY <3>1, <2>4 DEF Held
  <2> QED  BY <2>3, <2>4
<1>3. Balance = [a \in Address |-> IF a = Creator THEN Supply ELSE 0]
  BY <1>2 DEF Balance
<1> QED  BY <1>3 DEF Init, Ledger!Init, Said, Ledger!Said

LEMMA SameTexts ==
    /\ \A t : Said(t) = Ledger!Said(t)
    /\ \A v : Told(v) = Ledger!Told(v)
BY DEF Said, Told, Ledger!Said, Ledger!Told

LEMMA AddressAmount == \A a \in Address : a \in Amount
BY ContractAssumption DEF Amount

\* A step that answers what the token answers, or is silent.
LEMMA ReadingSteps ==
    ASSUME Keeping, ReadCommand \/ ReadNumber \/ ReadFails
    PROVE  [Ledger!Next]_<<Balance, answer>>
<1>1. Balance' = Balance
  <2>1. /\ pc \in {"command", "numbers"} /\ UNCHANGED table
        /\ pc' # "put_to"
    BY WantedNumbers DEF ReadCommand, ReadNumber, ReadFails, Finish, Search
  <2> QED  BY <2>1, BalanceKept
<1>2. CASE ReadCommand
  <2>1. \/ answer' = answer
        \/ answer' = Told(Supply)
        \/ answer' = Said("error")
    BY <1>2, WantedNumbers DEF ReadCommand, Finish
  <2> QED
    BY <2>1, <1>1, SameTexts
    DEF Ledger!Next, Ledger!TotalSupply, Ledger!Misunderstood
<1>3. CASE ReadNumber
  <2> DEFINE read == Append(args, Head(input).n)
  <2>1. CASE ~ToNobody(read)
    <3>1. answer' = answer  BY <2>1, <1>3 DEF ReadNumber, Search, locals
    <3> QED  BY <3>1, <1>1
  <2>2. CASE ToNobody(read)
    <3>1. answer' = Said("failed")  BY <2>2, <1>3 DEF ReadNumber, Finish
    <3>2. Head(input).n \in Address /\ args \in Seq(Address)
      <4>1. Head(input) \in Lexeme /\ Head(input).word = "number" /\ args \in Seq(Address)
        BY <1>3 DEF Keeping, Hashing, Progress, TypeOK, ReadNumber
      <4> QED  BY <4>1, Numbers
    <3>3. read \in Seq(Address) /\ Len(read) = 3 /\ read[2] = 0
      BY <2>2, <3>2 DEF ToNobody
    <3>4. read[1] \in Address /\ read[3] \in Address  BY <3>3
    <3>5. 0 \in Address /\ read[3] \in Ledger!Amount
      BY <3>4, AddressAmount, ContractAssumption DEF Amount, Ledger!Amount
    <3> HIDE DEF read
    <3>6. Ledger!Transfer(read[1], 0, read[3])
      BY <3>1, <1>1, SameTexts DEF Ledger!Transfer, Ledger!Refused
    <3> QED  BY <3>4, <3>5, <3>6 DEF Ledger!Next
  <2> QED  BY <2>1, <2>2
<1>4. CASE ReadFails
  <2>1. answer' = Said("error")  BY <1>4 DEF ReadFails, Finish
  <2> QED  BY <2>1, <1>1, SameTexts DEF Ledger!Next, Ledger!Misunderstood
<1> QED  BY <1>2, <1>3, <1>4

LEMMA BalanceOfStep ==
    ASSUME Keeping, BalanceOf
    PROVE  [Ledger!Next]_<<Balance, answer>>
<1>1. /\ pc = "balance" /\ pc' = "command" /\ UNCHANGED table
      /\ ~Taken(i) /\ pc \in Searching /\ Key = from /\ answer' = Told(Found)
  BY DEF BalanceOf, GetEnds, Finish, Searching, Gets, Key
<1>2. from \in Address  BY <1>1, KeyAddress DEF Keeping, Hashing
<1>3. Found = Balance[from]
  BY <1>1, <1>2, FoundHeld, BalanceHeld DEF Keeping
<1>4. Balance' = Balance  BY <1>1, BalanceKept
<1> QED
  BY <1>1, <1>2, <1>3, <1>4, SameTexts DEF Ledger!Next, Ledger!BalanceOf

\* The two refusals of a transfer, by the sender's balance and the receiver's.
LEMMA TransferSteps ==
    ASSUME Keeping, TransferFrom \/ TransferTo
    PROVE  [Ledger!Next]_<<Balance, answer>>
<1>1. /\ pc \in {"get_from", "get_to"} /\ pc' # "put_to" /\ UNCHANGED table
      /\ ~Taken(i) /\ pc \in Searching /\ pc \in Transferring
  BY DEF TransferFrom, TransferTo, GetEnds, Finish, Search, Searching, Gets,
         Transferring
<1>2. from \in Address /\ to \in Address /\ amount \in Address
  BY <1>1, Arguments DEF Keeping, Hashing
<1>3. Balance' = Balance  BY <1>1, BalanceKept
<1>4. Found = Held(Key)  BY <1>1, FoundHeld DEF Keeping
<1>5. CASE answer' = answer  BY <1>3, <1>5
<1>6. CASE answer' # answer
  <2>1. /\ answer' = Said("failed")
        /\ \/ Key = from /\ Found < amount
           \/ Key = to /\ MaxAmount - Found < amount
    BY <1>6 DEF TransferFrom, TransferTo, GetEnds, Overflows, Finish, Search, Key
  <2>2. Ledger!Refused(from, to, amount)
    <3>1. Balance[from] = Held(from) /\ Balance[to] = Held(to)
      BY <1>1, <1>2, BalanceHeld
    <3> QED  BY <3>1, <2>1, <1>4 DEF Ledger!Refused
  <2>3. Ledger!Transfer(from, to, amount)
    BY <2>1, <2>2, <1>3, SameTexts DEF Ledger!Transfer
  <2>4. amount \in Ledger!Amount
    BY <1>2, AddressAmount DEF Amount, Ledger!Amount
  <2> QED  BY <1>2, <2>3, <2>4 DEF Ledger!Next
<1> QED  BY <1>5, <1>6

\* The first insertion is hidden.
LEMMA DebitStep ==
    ASSUME Keeping, Hashing', Debit
    PROVE  UNCHANGED <<Balance, answer>>
<1>1. /\ pc = "put_from" /\ pc \in Searching /\ pc \in Transferring
      /\ pc' = "put_to" /\ Insert(prev_from - amount)
      /\ UNCHANGED <<args, prev_from, answer>> /\ Key = from
  BY DEF Debit, Search, Searching, Puts, Transferring, Key
<1>2. PICK f : f = from  OBVIOUS
<1>3. from' = f  BY <1>1, <1>2 DEF from
<1>4. \A a \in Address :
        Held(a)' = IF a = f /\ a # 0 THEN prev_from - amount ELSE Held(a)
  BY <1>1, <1>2, HeldInsert DEF Keeping
<1>5. prev_from = Held(f)  BY <1>1, <1>2 DEF Keeping, Copies
<1>6. Balance = [a \in Address |-> Held(a)]  BY <1>1 DEF Balance
<1>7. Balance' = [a \in Address |-> IF a = f THEN prev_from ELSE Held(a)']
  BY <1>1, <1>3 DEF Balance
<1>8. \A a \in Address : (IF a = f THEN prev_from ELSE Held(a)') = Held(a)
  BY <1>4, <1>5
<1> QED  BY <1>1, <1>6, <1>7, <1>8

\* The second insertion makes the transfer.
LEMMA CreditStep ==
    ASSUME Keeping, Hashing', Credit
    PROVE  Ledger!Next
<1>1. /\ pc = "put_to" /\ pc \in Searching /\ pc \in Transferring /\ pc \in Puts
      /\ pc' = "command" /\ Insert(prev_to + amount) /\ Key = to
      /\ answer' = Said("OK")
  BY DEF Credit, Credited, Finish, Searching, Puts, Transferring, Key
<1>2. PICK f, t, m : f = from /\ t = to /\ m = amount  OBVIOUS
<1>3. f \in Address /\ t \in Address /\ m \in Address /\ t # 0
  BY <1>1, <1>2, Arguments DEF Keeping, Hashing
<1>4. \A a \in Address :
        Held(a)' = IF a = t THEN prev_to + m ELSE Held(a)
  BY <1>1, <1>2, <1>3, HeldInsert DEF Keeping
<1>5. /\ prev_to = IF f = t THEN prev_from ELSE Held(t)
      /\ Held(f) = prev_from - m
  BY <1>1, <1>2 DEF Keeping, Copies
<1>6. Balance = [a \in Address |-> IF a = f THEN prev_from ELSE Held(a)]
  BY <1>1, <1>2 DEF Balance
<1>7. Balance' = [a \in Address |-> Held(a)']
  BY <1>1 DEF Balance
<1>8. Balance[f] = prev_from /\ Balance[t] = prev_to
  BY <1>3, <1>5, <1>6
<1>9. Balance' = [Balance EXCEPT ![f] = @ - m, ![t] = Balance[t] + m]
  <2> DEFINE moved == [Balance EXCEPT ![f] = @ - m, ![t] = Balance[t] + m]
  <2>1. moved = [a \in Address |-> IF a = t THEN prev_to + m
                                   ELSE IF a = f THEN prev_from - m ELSE Held(a)]
    BY <1>3, <1>6, <1>8
  <2>2. \A a \in Address :
          Held(a)' = IF a = t THEN prev_to + m
                     ELSE IF a = f THEN prev_from - m ELSE Held(a)
    BY <1>4, <1>5
  <2> HIDE DEF moved
  <2>3. Balance' = moved  BY <1>7, <2>1, <2>2
  <2> QED  BY <2>3 DEF moved
<1>10. ~Ledger!Refused(f, t, m)
  <2>1. prev_from \in Nat /\ prev_to \in Nat /\ MaxAmount \in Nat /\ m \in Nat
    BY <1>3, ContractAssumption DEF Keeping, Hashing, Progress, TypeOK, Amount
  <2>2. m <= prev_from /\ m <= MaxAmount - prev_to
    BY <1>1, <1>2 DEF Keeping, Hashing, Progress, amount
  <2> QED  BY <1>3, <1>8, <2>1, <2>2 DEF Ledger!Refused
<1>11. Ledger!Transfer(f, t, m)
  BY <1>1, <1>9, <1>10, SameTexts DEF Ledger!Transfer, Ledger!Moved
<1>12. m \in Ledger!Amount  BY <1>3, AddressAmount DEF Amount, Ledger!Amount
<1> QED  BY <1>3, <1>11, <1>12 DEF Ledger!Next

LEMMA OtherSteps ==
    ASSUME Keeping,
           Walk \/ EndOfInput \/ (\E l \in Lines : Line(l)) \/ UNCHANGED vars
    PROVE  [Ledger!Next]_<<Balance, answer>>
<1>1. CASE EndOfInput
  <2>1. /\ pc # "put_to" /\ pc' # "put_to" /\ UNCHANGED table
        /\ answer' = answer \/ answer' = Said("error")
    BY <1>1 DEF EndOfInput
  <2>2. Balance' = Balance  BY <2>1, BalanceKept
  <2> QED  BY <2>1, <2>2, SameTexts DEF Ledger!Next, Ledger!Misunderstood
<1>2. CASE Walk \/ (\E l \in Lines : Line(l)) \/ UNCHANGED vars
  <2>1. UNCHANGED <<table, pc, args, prev_from, answer>>
    BY <1>2 DEF Walk, Line, vars, locals
  <2>2. Balance' = Balance  BY <2>1 DEF Balance, Held, table, from
  <2> QED  BY <2>1, <2>2
<1> QED  BY <1>1, <1>2

LEMMA LedgerNext ==
    Keeping /\ Keeping' /\ [Next]_vars => [Ledger!Next]_<<Balance, answer>>
<1> SUFFICES ASSUME Keeping, Keeping', [Next]_vars
             PROVE  [Ledger!Next]_<<Balance, answer>>
  OBVIOUS
<1>1. Hashing'  BY DEF Keeping
<1>2. CASE ReadCommand \/ ReadNumber \/ ReadFails  BY <1>2, ReadingSteps
<1>3. CASE BalanceOf  BY <1>3, BalanceOfStep
<1>4. CASE TransferFrom \/ TransferTo  BY <1>4, TransferSteps
<1>5. CASE Debit  BY <1>1, <1>5, DebitStep
<1>6. CASE Credit  BY <1>1, <1>6, CreditStep
<1>7. CASE Walk \/ EndOfInput \/ (\E l \in Lines : Line(l)) \/ UNCHANGED vars
  BY <1>7, OtherSteps
<1> QED  BY <1>2, <1>3, <1>4, <1>5, <1>6, <1>7 DEF Next, Run

\* The contract, with its collisions, wrapped searches and two insertions, is
\* a table of balances in which every command takes effect at once.
THEOREM LedgerKept == Spec => ImplementsToken
<1>1. Keeping /\ Keeping' /\ [Next]_vars => [Ledger!Next]_<<Balance, answer>>
  BY LedgerNext
<1> QED
  BY <1>1, LedgerInit, SpecKeeping, PTL DEF Spec, ImplementsToken, Ledger!Spec

=============================================================================
