-------------------------- MODULE IdeClientProofs --------------------------
(***************************************************************************)
(* Theorems about IdeClient, for any files, texts, sessions and number of  *)
(* requests under way.  The setters write whole records back, so the       *)
(* invariant speaks of the records in the storage and of those that wait   *)
(* in a request alike.                                                     *)
(***************************************************************************)
EXTENDS IdeClient, TLAPS

\* The bytecode of a record is that of its text, and its session runs it, when
\* runs says what each session runs.
Coherent(runs, record) ==
    /\ record.compiled \in
          {None, Bytecode(record.code, isSmartContract(record.code))}
    /\ \/ None \in {record.compiled, record.maintainId}
       \/ runs[record.maintainId] = record.compiled

\* What a request was sent with.
Fitting(runs, request) ==
    /\ Coherent(runs, request.data)
    /\ request.kind = "compile" => request.data.maintainId = None
    /\ request.kind = "maintain" => request.data.compiled # None

Records ==
    /\ TypeOK
    /\ \A name \in Names : Kept(name) => Coherent(sessions, storage[name])
    /\ \A n \in DOMAIN requests : Fitting(sessions, requests[n])

-----------------------------------------------------------------------------
(* Records and requests *)

Storage == [Names -> {None} \cup Record]

LEMMA CodesCompile ==
    \A code \in Codes : Bytecode(code, isSmartContract(code)) \in Bytecodes
<1> TAKE code \in Codes
<1>1. isSmartContract(code) \in BOOLEAN  BY DEF isSmartContract
<1> QED  BY <1>1 DEF Bytecodes

LEMMA RecordFields ==
    \A record \in Record :
        /\ record.code \in Codes
        /\ record.compiled \in {None} \cup Bytecodes
        /\ record.maintainId \in {None} \cup SessionIds
        /\ record # None
BY NoneAssumption DEF Record

\* A setter changes the fields it is for.
LEMMA SetFields ==
    ASSUME NEW record \in Record
    PROVE  /\ \A b \in {None} \cup Bytecodes :
                 [record EXCEPT !.compiled = b] \in Record
           /\ \A s \in {None} \cup SessionIds :
                 [record EXCEPT !.maintainId = s] \in Record
BY DEF Record

LEMMA NewRecords ==
    \A code \in Codes :
        /\ NewRecord(code) \in Record
        /\ NewRecord(code).code = code
        /\ NewRecord(code).compiled = None
        /\ NewRecord(code).maintainId = None
BY DEF NewRecord, Record

\* The change events drop the bytecode of the file and set its text.
LEMMA ChangedFile ==
    ASSUME NEW st \in Storage, NEW name \in Names, st[name] # None,
           NEW code \in Codes
    PROVE  /\ Changed(st, name, code) \in Storage
           /\ Changed(st, name, code)[name] \in Record
           /\ Changed(st, name, code)[name].code = code
           /\ Changed(st, name, code)[name].compiled = None
           /\ Changed(st, name, code)[name].maintainId = st[name].maintainId
           /\ \A other \in Names \ {name} :
                 Changed(st, name, code)[other] = st[other]
<1>1. st[name] \in Record  BY DEF Storage
<1> DEFINE file == [st[name] EXCEPT !.code = code, !.compiled = None]
<1>2. /\ file \in Record /\ file.code = code /\ file.compiled = None
      /\ file.maintainId = st[name].maintainId
  BY <1>1 DEF Record
<1>3. Changed(st, name, code) = [st EXCEPT ![name] = file]
  BY DEF Changed, Storage
<1> HIDE DEF file
<1> QED  BY <1>2, <1>3 DEF Storage

\* Going to a file leaves the storage as it is.
LEMMA ReopenedSame ==
    ASSUME NEW st \in Storage, NEW name \in Names, st[name] # None
    PROVE  Reopened(st, name) = st
<1>1. st[name] \in Record  BY DEF Storage
<1>2. st[name].code \in Codes /\ EmptyCode \in Codes
  BY <1>1, ClientAssumption DEF Record
<1> DEFINE once == Changed(st, name, EmptyCode)
           twice == Changed(once, name, st[name].code)
<1>3. /\ once \in Storage /\ once[name] # None
      /\ \A other \in Names \ {name} : once[other] = st[other]
  BY <1>2, ChangedFile, RecordFields
<1> HIDE DEF once
<1>4. /\ twice \in Storage
      /\ \A other \in Names \ {name} : twice[other] = st[other]
  BY <1>2, <1>3, ChangedFile
<1>5. Reopened(st, name) = [twice EXCEPT ![name] = [st[name] EXCEPT !.compiled = st[name].compiled]]
  BY DEF Reopened, SetValue, once
<1>6. [st[name] EXCEPT !.compiled = st[name].compiled] = st[name]
  BY <1>1 DEF Record
<1> HIDE DEF twice
<1>7. [twice EXCEPT ![name] = st[name]] = st
  BY <1>3, <1>4 DEF Storage
<1> QED  BY <1>5, <1>6, <1>7

LEMMA SelectedScreen ==
    ASSUME NEW st \in Storage, NEW name \in Names, st[name] # None,
           fileSelected(st, name)
    PROVE  /\ storage' = st /\ selectedFile' = name
           /\ text' = st[name].code /\ listing' = st[name].compiled
           /\ toolbox' \in BOOLEAN
           /\ text' \in Codes /\ listing' \in {None} \cup Bytecodes
<1>1. Reopened(st, name) = st  BY ReopenedSame
<1>2. st[name] \in Record  BY DEF Storage
<1> QED  BY <1>1, <1>2, RecordFields DEF fileSelected, isSmartContract

LEMMA Removed ==
    ASSUME NEW S, NEW s \in Seq(S), NEW n \in 1 .. Len(s)
    PROVE  /\ RemoveAt(s, n) \in Seq(S)
           /\ Len(RemoveAt(s, n)) = Len(s) - 1
           /\ \A m \in 1 .. Len(s) - 1 :
                 RemoveAt(s, n)[m] = IF m < n THEN s[m] ELSE s[m + 1]
<1> DEFINE front == SubSeq(s, 1, n - 1)
           back == SubSeq(s, n + 1, Len(s))
<1>1. /\ front \in Seq(S) /\ Len(front) = n - 1
      /\ \A m \in 1 .. n - 1 : front[m] = s[m]
  OBVIOUS
<1>2. /\ back \in Seq(S) /\ Len(back) = Len(s) - n
      /\ \A m \in 1 .. Len(s) - n : back[m] = s[n + m]
  OBVIOUS
<1>3. RemoveAt(s, n) = front \o back  BY DEF RemoveAt
<1> HIDE DEF front, back
<1>4. front \o back \in Seq(S) /\ Len(front \o back) = Len(s) - 1
  BY <1>1, <1>2
<1>5. ASSUME NEW m \in 1 .. Len(s) - 1
      PROVE  (front \o back)[m] = IF m < n THEN s[m] ELSE s[m + 1]
  <2>1. CASE m < n  BY <1>1, <1>2, <2>1
  <2>2. CASE ~(m < n)
    <3>1. PICK k \in 1 .. Len(s) - n : m = k + n - 1
      <4>1. m - n + 1 \in 1 .. Len(s) - n /\ m = (m - n + 1) + n - 1
        BY <2>2
      <4> QED  BY <4>1
    <3>2. (front \o back)[m] = back[k]  BY <1>1, <1>2, <3>1
    <3>3. n + k = m + 1  BY <3>1
    <3> QED  BY <1>2, <2>2, <3>2, <3>3
  <2> QED  BY <2>1, <2>2
<1> QED  BY <1>3, <1>4, <1>5

-----------------------------------------------------------------------------
(* The steps *)

LEMMA TypeStorage == TypeOK => storage \in Storage
BY DEF TypeOK, Storage

\* Requests and sessions of the next state, as the invariant has them.
Waiting(queue, runs) ==
    /\ queue \in Seq(Request) /\ Len(queue) <= MaxRequests
    /\ \A n \in DOMAIN queue : Fitting(runs, queue[n])

Running(runs, live) ==
    /\ runs \in [SessionIds -> {None} \cup Bytecodes]
    /\ live \subseteq {s \in SessionIds : runs[s] # None}

AllCoherent(runs, st) ==
    \A name \in Names : st[name] # None => Coherent(runs, st[name])

LEMMA RecordsParts ==
    Records <=> /\ TypeOK /\ Waiting(requests, sessions)
                /\ Running(sessions, alive) /\ AllCoherent(sessions, storage)
BY DEF Records, TypeOK, Waiting, Running, AllCoherent, Kept

LEMMA RecordsNext ==
    (Records <=> /\ TypeOK /\ Waiting(requests, sessions)
                 /\ Running(sessions, alive) /\ AllCoherent(sessions, storage))'
BY RecordsParts, PTL

\* The step goes to a file.
Opened ==
    \E st \in Storage, name \in Names : st[name] # None /\ fileSelected(st, name)

\* Going to a file, whatever becomes of the requests.
LEMMA SelectKeepsRecords ==
    ASSUME NEW st \in Storage, NEW name \in Names, st[name] # None,
           fileSelected(st, name), AllCoherent(sessions', st),
           Waiting(requests', sessions'), Running(sessions', alive')
    PROVE  Records' /\ Opened
<1>1. /\ storage' = st /\ selectedFile' = name /\ toolbox' \in BOOLEAN
      /\ text' \in Codes /\ listing' \in {None} \cup Bytecodes
  BY SelectedScreen
<1>2. TypeOK'  BY <1>1 DEF TypeOK, Storage, Waiting, Running
<1>3. Opened  BY DEF Opened
<1> QED  BY <1>1, <1>2, <1>3, RecordsNext

\* A step on the screen alone, or one that changes one record.
LEMMA WriteKeepsRecords ==
    ASSUME Records, NEW name \in Names, NEW record \in Record,
           storage' = [storage EXCEPT ![name] = record],
           Coherent(sessions', record), AllCoherent(sessions', storage)
    PROVE  /\ storage' \in Storage /\ AllCoherent(sessions', storage')
           /\ storage'[name] = record /\ record # None
<1>1. storage \in Storage  BY TypeStorage DEF Records
<1> QED  BY <1>1, RecordFields DEF Storage, AllCoherent

LEMMA ForgottenCoherent ==
    ASSUME NEW record \in Record, NEW runs, Coherent(runs, record)
    PROVE  LET other == [record EXCEPT !.maintainId = None]
           IN  /\ other \in Record /\ Coherent(runs, other)
               /\ other.maintainId = None
<1> DEFINE other == [record EXCEPT !.maintainId = None]
<1>1. /\ other \in Record /\ other.maintainId = None
      /\ other.code = record.code /\ other.compiled = record.compiled
  BY DEF Record
<1> HIDE DEF other
<1>2. Coherent(runs, other)  BY <1>1 DEF Coherent
<1> QED  BY <1>1, <1>2 DEF other

\* A request that is answered leaves the others as they are.
LEMMA AnsweredWaiting ==
    ASSUME NEW runs, Waiting(requests, runs), NEW n \in DOMAIN requests, Answered(n)
    PROVE  Waiting(requests', runs)
<1>1. requests \in Seq(Request) /\ n \in 1 .. Len(requests)
  BY DEF Waiting
<1>2. requests' = RemoveAt(requests, n)  BY DEF Answered
<1>3. /\ requests' \in Seq(Request) /\ Len(requests') = Len(requests) - 1
      /\ \A m \in 1 .. Len(requests) - 1 :
            requests'[m] = IF m < n THEN requests[m] ELSE requests[m + 1]
  BY <1>1, <1>2, Removed
<1>4. ASSUME NEW m \in DOMAIN requests' PROVE Fitting(runs, requests'[m])
  <2>1. m \in 1 .. Len(requests) - 1  BY <1>1, <1>3
  <2>2. m \in DOMAIN requests /\ m + 1 \in DOMAIN requests  BY <1>1, <2>1
  <2>3. requests'[m] = requests[m] \/ requests'[m] = requests[m + 1]
    BY <1>3, <2>1
  <2> QED  BY <2>2, <2>3 DEF Waiting
<1>5. Len(requests') <= MaxRequests
  BY <1>1, <1>3, ClientAssumption DEF Waiting
<1> QED  BY <1>3, <1>4, <1>5 DEF Waiting

LEMMA AskWaiting ==
    ASSUME NEW runs, Waiting(requests, runs),
           NEW kind \in {"compile", "run", "maintain", "call"},
           NEW name \in Names, NEW record \in Record,
           Ask(kind, name, record), Coherent(runs, record),
           kind = "compile" => record.maintainId = None,
           kind = "maintain" => record.compiled # None
    PROVE  Waiting(requests', runs)
<1> DEFINE request == [kind |-> kind, file |-> name, data |-> record]
<1>1. request \in Request /\ Fitting(runs, request)
  BY DEF Request, Fitting
<1>2. requests \in Seq(Request) /\ Len(requests) < MaxRequests
      /\ requests' = Append(requests, request)
  BY DEF Waiting, Ask
<1> HIDE DEF request
<1>3. /\ requests' \in Seq(Request) /\ Len(requests') = Len(requests) + 1
      /\ requests'[Len(requests) + 1] = request
      /\ \A m \in 1 .. Len(requests) : requests'[m] = requests[m]
  BY <1>1, <1>2
<1>4. ASSUME NEW m \in DOMAIN requests' PROVE Fitting(runs, requests'[m])
  <2>1. m \in 1 .. Len(requests) \/ m = Len(requests) + 1
    BY <1>2, <1>3
  <2>2. CASE m = Len(requests) + 1  BY <2>2, <1>1, <1>3
  <2>3. CASE m \in 1 .. Len(requests)
    <3>1. m \in DOMAIN requests  BY <1>2, <2>3
    <3> QED  BY <3>1, <2>3, <1>3 DEF Waiting
  <2> QED  BY <2>1, <2>2, <2>3
<1>5. Len(requests') <= MaxRequests
  BY <1>2, <1>3, ClientAssumption
<1> QED  BY <1>3, <1>4, <1>5 DEF Waiting

LEMMA RecordsInit == Init => Records
<1> SUFFICES ASSUME Init PROVE Records  OBVIOUS
<1>1. StartCode \in Codes /\ StartFiles \subseteq Names
  BY ClientAssumption DEF Names
<1>2. \A n \in Names : storage[n] \in {None, NewRecord(StartCode)}
  BY DEF Init
<1>3. /\ NewRecord(StartCode) \in Record /\ NewRecord(StartCode) # None
      /\ NewRecord(StartCode).compiled = None
  BY <1>1, NewRecords, RecordFields
<1>4. storage \in [Names -> {None} \cup Record]
  BY <1>2, <1>3 DEF Init
<1>5. storage[selectedFile] = NewRecord(StartCode) /\ selectedFile \in Names
  BY <1>1 DEF Init
<1>6. AllCoherent(sessions, storage)
  BY <1>2, <1>3 DEF AllCoherent, Coherent
<1>7. Waiting(requests, sessions)
  BY ClientAssumption DEF Init, Waiting
<1>8. Running(sessions, alive)
  BY DEF Init, Running
<1>9. TypeOK
  BY <1>1, <1>3, <1>4, <1>5, <1>7, <1>8 DEF Init, TypeOK, Waiting, Running
<1> QED  BY <1>6, <1>7, <1>8, <1>9, RecordsParts

\* What every step starts from.
LEMMA Given ==
    ASSUME Records
    PROVE  /\ storage \in Storage /\ Waiting(requests, sessions)
           /\ Running(sessions, alive) /\ AllCoherent(sessions, storage)
           /\ selectedFile \in Names /\ storage[selectedFile] # None
           /\ \A name \in Names : storage[name] # None =>
                 storage[name] \in Record /\ Coherent(sessions, storage[name])
BY RecordsParts, TypeStorage DEF AllCoherent, TypeOK, Storage

\* A request under way, and what it was sent with.
LEMMA GivenRequest ==
    ASSUME Records, NEW n \in DOMAIN requests
    PROVE  /\ requests[n].file \in Names /\ requests[n].data \in Record
           /\ Fitting(sessions, requests[n])
<1>1. requests \in Seq(Request)  BY DEF Records, TypeOK
<1>2. requests[n] \in Request  BY <1>1
<1> QED  BY <1>2 DEF Records, Request

LEMMA SelectRecords ==
    ASSUME Records, NEW name \in Names, Select(name)
    PROVE  Records' /\ Opened
<1>1. /\ UNCHANGED <<requests, sessions, alive>>
      /\ storage[name] # None /\ fileSelected(storage, name)
  BY DEF Select, server
<1> QED  BY <1>1, Given, SelectKeepsRecords

LEMMA CreateRecords ==
    ASSUME Records, NEW name \in Names, Create(name)
    PROVE  Records' /\ Opened
<1> DEFINE st == [storage EXCEPT ![name] = NewRecord(EmptyCode)]
<1>1. /\ UNCHANGED <<requests, sessions, alive>> /\ fileSelected(st, name)
  BY DEF Create, server
<1>2. /\ NewRecord(EmptyCode) \in Record /\ NewRecord(EmptyCode) # None
      /\ NewRecord(EmptyCode).compiled = None
  BY NewRecords, RecordFields, ClientAssumption
<1>3. Coherent(sessions, NewRecord(EmptyCode))  BY <1>2 DEF Coherent
<1>4. st \in Storage /\ st[name] # None /\ AllCoherent(sessions, st)
  BY <1>2, <1>3, Given DEF Storage, AllCoherent
<1> HIDE DEF st
<1> QED  BY <1>1, <1>4, Given, SelectKeepsRecords

LEMMA EditRecords ==
    ASSUME Records, NEW code \in Codes, Edit(code)
    PROVE  Records'
<1>1. /\ storage' = Changed(storage, selectedFile, code) /\ text' = code
      /\ listing' = None
      /\ UNCHANGED <<selectedFile, toolbox, requests, sessions, alive>>
  BY DEF Edit, server
<1>2. /\ storage' \in Storage /\ storage'[selectedFile] \in Record
      /\ storage'[selectedFile].compiled = None
      /\ \A other \in Names \ {selectedFile} : storage'[other] = storage[other]
  BY <1>1, Given, ChangedFile
<1>3. AllCoherent(sessions, storage')
  BY <1>2, Given DEF AllCoherent, Coherent
<1>4. storage'[selectedFile] # None  BY <1>2, RecordFields
<1>5. TypeOK'
  BY <1>1, <1>2, <1>4 DEF Records, TypeOK, Storage
<1> QED  BY <1>1, <1>3, <1>5, Given, RecordsNext

LEMMA CompileRecords ==
    ASSUME Records, Compile
    PROVE  Records' /\ Opened
<1> DEFINE file == [storage[selectedFile] EXCEPT !.maintainId = None]
           st == [storage EXCEPT ![selectedFile] = file]
<1>1. /\ file \in Record /\ Coherent(sessions, file) /\ file.maintainId = None
      /\ file # None
  BY Given, ForgottenCoherent, RecordFields
<1>2. /\ fileSelected(st, selectedFile)
      /\ Ask("compile", selectedFile, Reopened(st, selectedFile)[selectedFile])
      /\ UNCHANGED <<sessions, alive>>
  BY DEF Compile, GivenUp, server
<1> HIDE DEF file
<1>3. /\ st \in Storage /\ st[selectedFile] = file
      /\ AllCoherent(sessions, st)
  BY <1>1, Given DEF Storage, AllCoherent
<1> HIDE DEF st
<1>4. Reopened(st, selectedFile)[selectedFile] = file
  BY <1>1, <1>3, Given, ReopenedSame
<1>5. Waiting(requests', sessions)
  BY <1>1, <1>2, <1>4, Given, AskWaiting
<1> QED  BY <1>1, <1>2, <1>3, <1>5, Given, SelectKeepsRecords

LEMMA RunCallRecords ==
    ASSUME Records, Run \/ Call
    PROVE  Records'
<1>1. UNCHANGED <<storage, selectedFile, text, listing, toolbox, sessions, alive>>
  BY DEF Run, Call, screen, server
<1>2. PICK kind \in {"run", "maintain", "call"} :
         /\ Ask(kind, selectedFile, storage[selectedFile])
         /\ kind = "maintain" => storage[selectedFile].compiled # None
  BY DEF Run, Call
<1>3. Waiting(requests', sessions)
  BY <1>2, Given, AskWaiting
<1>4. TypeOK'
  BY <1>1, <1>3 DEF Records, TypeOK, Waiting
<1> QED  BY <1>1, <1>3, <1>4, Given, RecordsNext

LEMMA ReloadRecords ==
    ASSUME Records, Reload
    PROVE  Records' /\ Opened
<1> DEFINE st == [n \in Names |-> IF storage[n] = None THEN None
                     ELSE [storage[n] EXCEPT !.maintainId = None]]
<1>1. /\ fileSelected(st, selectedFile) /\ requests' = <<>>
      /\ UNCHANGED <<sessions, alive>>
  BY DEF Reload, server
<1>2. \A n \in Names : storage[n] # None =>
         /\ st[n] \in Record /\ st[n] # None /\ Coherent(sessions, st[n])
  BY Given, ForgottenCoherent, RecordFields
<1>3. st \in Storage /\ st[selectedFile] # None /\ AllCoherent(sessions, st)
  <2>1. \A n \in Names : storage[n] = None => st[n] = None  OBVIOUS
  <2>2. DOMAIN st = Names /\ st = [n \in Names |-> st[n]]  OBVIOUS
  <2> HIDE DEF st
  <2> QED  BY <1>2, <2>1, <2>2, Given DEF Storage, AllCoherent
<1>4. Waiting(requests', sessions)
  BY <1>1, ClientAssumption DEF Waiting
<1> HIDE DEF st
<1> QED  BY <1>1, <1>3, <1>4, Given, SelectKeepsRecords

LEMMA NotKeptRecords ==
    ASSUME Records, NEW n \in DOMAIN requests, NotKept(n)
    PROVE  Records'
<1>1. /\ UNCHANGED <<storage, selectedFile, text, listing, toolbox, sessions, alive>>
      /\ Answered(n)
  BY DEF NotKept, screen, server
<1>2. Waiting(requests', sessions)  BY <1>1, Given, AnsweredWaiting
<1>3. TypeOK'  BY <1>1, <1>2 DEF Records, TypeOK, Waiting
<1> QED  BY <1>1, <1>2, <1>3, Given, RecordsNext

\* An answer to a compilation: the file has no session to run other bytecode.
LEMMA CompiledWrites ==
    ASSUME Records, NEW n \in DOMAIN requests, Compiled(n)
    PROVE  \E record \in Record :
              /\ storage' = [storage EXCEPT ![requests[n].file] = record]
              /\ Coherent(sessions, record)
              /\ listing' = record.compiled /\ listing' \in Bytecodes
              /\ record.code = requests[n].data.code
<1> DEFINE data == requests[n].data
           bytecode == Bytecode(data.code, isSmartContract(data.code))
           record == [data EXCEPT !.compiled = bytecode]
<1>1. data \in Record /\ data.maintainId = None
  BY GivenRequest DEF Compiled, Sent, Fitting
<1>2. bytecode \in Bytecodes  BY <1>1, CodesCompile, RecordFields
<1>3. storage' = [storage EXCEPT ![requests[n].file] = record] /\ listing' = bytecode
  BY DEF Compiled, Written
<1>4. /\ record \in Record /\ record.compiled = bytecode
      /\ record.code = data.code /\ record.maintainId = None
  <2> HIDE DEF bytecode, data
  <2> QED  BY <1>1, <1>2 DEF Record
<1>5. Coherent(sessions, record)
  <2>1. record.compiled = Bytecode(record.code, isSmartContract(record.code))
    BY <1>4
  <2> HIDE DEF record
  <2> QED  BY <1>4, <2>1 DEF Coherent
<1> HIDE DEF record, bytecode
<1> QED  BY <1>2, <1>3, <1>4, <1>5

LEMMA CompiledRecords ==
    ASSUME Records, NEW n \in DOMAIN requests, Compiled(n)
    PROVE  Records'
<1>1. PICK record \in Record :
         /\ storage' = [storage EXCEPT ![requests[n].file] = record]
         /\ Coherent(sessions, record) /\ listing' \in Bytecodes
  BY CompiledWrites
<1>2. /\ UNCHANGED <<selectedFile, text, toolbox, sessions, alive>> /\ Answered(n)
  BY DEF Compiled, server
<1>3. requests[n].file \in Names  BY GivenRequest
<1>4. /\ storage' \in Storage /\ AllCoherent(sessions, storage')
      /\ storage'[selectedFile] # None
  BY <1>1, <1>2, <1>3, Given, WriteKeepsRecords, RecordFields DEF Storage
<1>5. Waiting(requests', sessions)  BY <1>2, Given, AnsweredWaiting
<1>6. TypeOK'
  BY <1>1, <1>2, <1>4, <1>5 DEF Records, TypeOK, Waiting, Storage
<1> QED  BY <1>2, <1>4, <1>5, <1>6, Given, RecordsNext

\* A new session is no other file's.
LEMMA NewSession ==
    ASSUME NEW s \in SessionIds, NEW runs \in [SessionIds -> {None} \cup Bytecodes],
           runs[s] = None, NEW b, NEW record \in Record, Coherent(runs, record)
    PROVE  Coherent([runs EXCEPT ![s] = b], record)
<1>1. CASE None \in {record.compiled, record.maintainId}
  BY <1>1 DEF Coherent
<1>2. CASE None \notin {record.compiled, record.maintainId}
  <2>1. runs[record.maintainId] = record.compiled /\ record.maintainId \in SessionIds
    BY <1>2, RecordFields DEF Coherent
  <2>2. record.maintainId # s  BY <1>2, <2>1
  <2> QED  BY <2>1, <2>2 DEF Coherent
<1> QED  BY <1>1, <1>2

LEMMA MaintainedRecords ==
    ASSUME Records, NEW n \in DOMAIN requests, Maintained(n)
    PROVE  Records' /\ Opened
<1> DEFINE data == requests[n].data
<1>1. PICK s \in SessionIds :
         /\ sessions[s] = None
         /\ sessions' = [sessions EXCEPT ![s] = data.compiled]
         /\ alive' = alive \cup {s}
         /\ fileSelected([storage EXCEPT ![requests[n].file] =
                            [data EXCEPT !.maintainId = s]], selectedFile)
  BY DEF Maintained, Reselected, Written
<1> DEFINE record == [data EXCEPT !.maintainId = s]
           st == [storage EXCEPT ![requests[n].file] = record]
<1>2. /\ data \in Record /\ data.compiled # None /\ data.compiled \in Bytecodes
      /\ requests[n].file \in Names /\ Coherent(sessions, data)
  BY GivenRequest, RecordFields DEF Maintained, Sent, Fitting
<1> HIDE DEF data
<1>3. /\ record \in Record /\ record.compiled = data.compiled
      /\ record.code = data.code /\ record.maintainId = s /\ record # None
  <2>1. record \in Record  BY <1>2, SetFields
  <2>2. /\ record.compiled = data.compiled /\ record.code = data.code
        /\ record.maintainId = s
    BY <1>2 DEF Record
  <2> QED  BY <2>1, <2>2, RecordFields
<1> HIDE DEF record
<1>4. sessions \in [SessionIds -> {None} \cup Bytecodes]
  BY Given DEF Running
<1>5. Running(sessions', alive')
  BY <1>1, <1>2, <1>4, Given DEF Running
<1>6. \A other \in Record : Coherent(sessions, other) => Coherent(sessions', other)
  BY <1>1, <1>4, NewSession
<1>7. Coherent(sessions', record)
  <2>1. sessions'[s] = data.compiled  BY <1>1, <1>4
  <2> QED  BY <1>2, <1>3, <2>1 DEF Coherent
<1>8. st \in Storage /\ st[selectedFile] # None /\ AllCoherent(sessions', st)
  <2>1. st \in Storage  BY <1>3, Given DEF Storage
  <2>2. \A name \in Names :
           st[name] = IF name = requests[n].file THEN record ELSE storage[name]
    BY <1>2, Given DEF Storage
  <2> HIDE DEF st
  <2> QED  BY <1>3, <1>6, <1>7, <2>1, <2>2, Given DEF AllCoherent
<1>9. fileSelected(st, selectedFile)  BY <1>1 DEF record
<1>10. Waiting(requests', sessions')
  <2>1. Waiting(requests', sessions)
    BY Given, AnsweredWaiting DEF Maintained
  <2>2. \A m \in DOMAIN requests' : requests'[m].data \in Record
    <3> SUFFICES ASSUME NEW m \in DOMAIN requests'
                 PROVE  requests'[m].data \in Record
      OBVIOUS
    <3>1. requests' \in Seq(Request)  BY <2>1 DEF Waiting
    <3>2. requests'[m] \in Request  BY <3>1
    <3> QED  BY <3>2 DEF Request
  <2> QED  BY <1>6, <2>1, <2>2 DEF Waiting, Fitting
<1> HIDE DEF st
<1> QED  BY <1>5, <1>8, <1>9, <1>10, Given, SelectKeepsRecords

LEMMA GoneRecords ==
    ASSUME Records, NEW n \in DOMAIN requests, Gone(n)
    PROVE  Records' /\ Opened
<1> DEFINE record == [requests[n].data EXCEPT !.maintainId = None]
           st == [storage EXCEPT ![requests[n].file] = record]
<1>1. /\ requests[n].file \in Names /\ requests[n].data \in Record
      /\ Coherent(sessions, requests[n].data)
  BY GivenRequest DEF Fitting
<1>2. record \in Record /\ Coherent(sessions, record) /\ record # None
  BY <1>1, ForgottenCoherent, RecordFields
<1>3. /\ fileSelected(st, requests[n].file) /\ Answered(n)
      /\ UNCHANGED <<sessions, alive>>
  BY DEF Gone, Written, server
<1> HIDE DEF record
<1>4. /\ st \in Storage /\ st[requests[n].file] # None
      /\ AllCoherent(sessions, st)
  BY <1>1, <1>2, Given DEF Storage, AllCoherent
<1>5. Waiting(requests', sessions)  BY <1>3, Given, AnsweredWaiting
<1> HIDE DEF st
<1> QED  BY <1>1, <1>3, <1>4, <1>5, Given, SelectKeepsRecords

LEMMA SessionEndsRecords ==
    ASSUME Records, NEW s \in SessionIds, SessionEnds(s)
    PROVE  Records'
<1>1. /\ UNCHANGED <<storage, selectedFile, text, listing, toolbox, requests, sessions>>
      /\ alive' \subseteq alive
  BY DEF SessionEnds, screen
<1>2. TypeOK'  BY <1>1 DEF Records, TypeOK
<1>3. Running(sessions', alive')  BY <1>1, Given DEF Running
<1> QED  BY <1>1, <1>2, <1>3, Given, RecordsNext

LEMMA NextRecords == Records /\ [Next]_vars => Records'
<1> SUFFICES ASSUME Records, [Next]_vars PROVE Records'  OBVIOUS
<1>1. CASE User
  BY <1>1, SelectRecords, CreateRecords, EditRecords, CompileRecords,
     RunCallRecords, ReloadRecords
  DEF User
<1>2. ASSUME NEW n \in DOMAIN requests, Answer(n) PROVE Records'
  BY <1>2, NotKeptRecords, CompiledRecords, MaintainedRecords, GoneRecords
  DEF Answer
<1>3. ASSUME NEW s \in SessionIds, SessionEnds(s) PROVE Records'
  BY <1>3, SessionEndsRecords
<1>4. CASE UNCHANGED vars
  BY <1>4, Given, RecordsNext
  DEF vars, screen, server, Records, TypeOK
<1> QED  BY <1>1, <1>2, <1>3, <1>4 DEF Next

LEMMA SpecRecords == Spec => []Records
<1> QED  BY RecordsInit, NextRecords, PTL DEF Spec

\* The page keeps well-formed records, whatever answers come late.
THEOREM TypeCorrect == Spec => []TypeOK
<1>1. Records => TypeOK  BY DEF Records
<1> QED  BY <1>1, SpecRecords, PTL

\* However many requests are under way, and in whatever order they are
\* answered, no file ever has bytecode of a text other than its own.
THEOREM BytecodeMatches == Spec => []BytecodeMatchesCode
<1>1. Records => BytecodeMatchesCode
  BY DEF Records, Coherent, BytecodeMatchesCode
<1> QED  BY <1>1, SpecRecords, PTL

\* The session a file has runs the bytecode the file has.
THEOREM SessionMatches == Spec => []SessionRunsBytecode
<1>1. Records => SessionRunsBytecode
  BY DEF Records, Coherent, SessionRunsBytecode
<1> QED  BY <1>1, SpecRecords, PTL

\* Going to a file changes no file, although the editor reports the removal and
\* the insertion of its text as edits.
THEOREM SelectingHarmless == Spec => SelectingKeepsFiles
<1>1. Records /\ [Next]_vars =>
         [\A name \in Names : Select(name) => storage' = storage]_vars
  <2> SUFFICES ASSUME Records, NEW name \in Names, Select(name)
               PROVE  storage' = storage
    OBVIOUS
  <2> QED  BY Given, SelectedScreen DEF Select
<1> QED  BY <1>1, SpecRecords, PTL DEF Spec, SelectingKeepsFiles

\* Every step goes to a file, edits one, shows the answer to a compilation, or
\* leaves files and screen alone.
LEMMA StepKinds ==
    ASSUME Records, [Next]_vars
    PROVE  \/ Opened
           \/ \E code \in Codes : Edit(code)
           \/ \E n \in DOMAIN requests : Compiled(n)
           \/ UNCHANGED <<storage, selectedFile, text, listing>>
<1>1. CASE User
  <2>1. CASE Run \/ Call  BY <2>1 DEF Run, Call, screen
  <2> QED
    BY <1>1, <2>1, SelectRecords, CreateRecords, CompileRecords, ReloadRecords
    DEF User
<1>2. ASSUME NEW n \in DOMAIN requests, Answer(n)
      PROVE  \/ Opened \/ Compiled(n)
             \/ UNCHANGED <<storage, selectedFile, text, listing>>
  <2>1. CASE NotKept(n)  BY <2>1 DEF NotKept, screen
  <2> QED  BY <1>2, <2>1, MaintainedRecords, GoneRecords DEF Answer
<1>3. CASE (\E s \in SessionIds : SessionEnds(s)) \/ UNCHANGED vars
  BY <1>3 DEF SessionEnds, vars, screen
<1> QED  BY <1>1, <1>2, <1>3 DEF Next

\* What an edit leaves.
LEMMA EditShows ==
    ASSUME Records, NEW code \in Codes, Edit(code)
    PROVE  InEditor' /\ InArea'
<1>1. /\ storage' = Changed(storage, selectedFile, code) /\ text' = code
      /\ listing' = None /\ selectedFile' = selectedFile
  BY DEF Edit
<1> QED  BY <1>1, Given, ChangedFile DEF InEditor, InArea

LEMMA OpenedShows ==
    ASSUME Opened
    PROVE  InEditor' /\ InArea'
<1>1. PICK st \in Storage, name \in Names :
         st[name] # None /\ fileSelected(st, name)
  BY DEF Opened
<1> QED  BY <1>1, SelectedScreen DEF InEditor, InArea

\* An answer to a compilation shows another text or listing than the stored one
\* only when it finds the file edited, or another file selected.
LEMMA CompiledShows ==
    ASSUME Records, NEW n \in DOMAIN requests, Compiled(n)
    PROVE  /\ \/ InEditor => InEditor'
              \/ requests[n].file = selectedFile /\ requests[n].data.code # text
           /\ InArea => InArea' \/ requests[n].file # selectedFile
<1>1. PICK record \in Record :
         /\ storage' = [storage EXCEPT ![requests[n].file] = record]
         /\ listing' = record.compiled /\ record.code = requests[n].data.code
  BY CompiledWrites
<1>2. UNCHANGED <<selectedFile, text>>  BY DEF Compiled
<1>3. requests[n].file \in Names  BY GivenRequest
<1>4. CASE requests[n].file = selectedFile
  <2>1. storage'[selectedFile] = record
    BY <1>1, <1>3, <1>4, Given DEF Storage
  <2> QED  BY <1>1, <1>2, <1>4, <2>1 DEF InEditor, InArea
<1>5. CASE requests[n].file # selectedFile
  <2>1. storage'[selectedFile] = storage[selectedFile]
    BY <1>1, <1>3, <1>5, Given DEF Storage
  <2> QED  BY <1>2, <1>5, <2>1 DEF InEditor
<1> QED  BY <1>4, <1>5

\* Only an answer to a compilation that finds the file edited can leave the
\* editor with a text that is not the stored one.
THEOREM EditorFollows == Spec => EditorShowsText
<1>1. Records /\ [Next]_vars =>
        [InEditor => \/ InEditor'
                     \/ \E n \in DOMAIN requests :
                           /\ Compiled(n) /\ requests[n].file = selectedFile
                           /\ requests[n].data.code # text]_vars
  <2> SUFFICES ASSUME Records, [Next]_vars, InEditor
               PROVE  \/ InEditor'
                      \/ \E n \in DOMAIN requests :
                            /\ Compiled(n) /\ requests[n].file = selectedFile
                            /\ requests[n].data.code # text
    OBVIOUS
  <2>1. CASE UNCHANGED <<storage, selectedFile, text, listing>>
    BY <2>1 DEF InEditor
  <2> QED  BY <2>1, StepKinds, OpenedShows, EditShows, CompiledShows
<1> QED  BY <1>1, SpecRecords, PTL DEF Spec, EditorShowsText

\* Only an answer to a compilation that finds another file selected can leave
\* the area with a listing that is not the selected file's.
THEOREM AreaFollows == Spec => AreaShowsBytecode
<1>1. Records /\ [Next]_vars =>
        [InArea => \/ InArea'
                   \/ \E n \in DOMAIN requests :
                         Compiled(n) /\ requests[n].file # selectedFile]_vars
  <2> SUFFICES ASSUME Records, [Next]_vars, InArea
               PROVE  \/ InArea'
                      \/ \E n \in DOMAIN requests :
                            Compiled(n) /\ requests[n].file # selectedFile
    OBVIOUS
  <2>1. CASE UNCHANGED <<storage, selectedFile, text, listing>>
    BY <2>1 DEF InArea
  <2> QED  BY <2>1, StepKinds, OpenedShows, EditShows, CompiledShows
<1> QED  BY <1>1, SpecRecords, PTL DEF Spec, AreaShowsBytecode

=============================================================================
