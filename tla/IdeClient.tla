----------------------------- MODULE IdeClient -----------------------------
(***************************************************************************)
(* The page of the web IDE, static/main.js: files kept in the local        *)
(* storage of the browser, the editor, and requests whose answers arrive   *)
(* when the user has gone on editing or to another file.  What the console *)
(* shows of the answers is left out.                                       *)
(*                                                                         *)
(* JavaScript runs one handler at a time: a click, an answer or a load of  *)
(* the page is one step.  A File object keeps the record it loaded last,   *)
(* and each of its setters writes the whole of it back; a request carries  *)
(* the object, so that its answer writes what the record was when it was   *)
(* sent.  The server is what its answers may be.                           *)
(***************************************************************************)
EXTENDS Integers, Sequences, FiniteSets, SequencesExt

CONSTANTS
    StartFiles,     \* start_files_data, the files of a new user
    NewNames,       \* names the user may give to other files
    Codes,          \* texts, the empty one among them
    SmartCodes,     \* those that begin with //!SMART CONTRACT
    EmptyCode,
    StartCode,      \* the text of a file of start_files_data
    SessionIds,     \* the identifiers run-maintain gives out
    MaxRequests,    \* bound of the requests under way
    None            \* null

ASSUME ClientAssumption ==
    /\ SmartCodes \subseteq Codes
    /\ {EmptyCode, StartCode} \subseteq Codes
    /\ StartFiles # {}
    /\ MaxRequests \in Nat

Names == StartFiles \cup NewNames

VARIABLES
    storage,        \* localStorage: the record of each file, None without one
    selectedFile,
    text,           \* what is in the editor
    listing,        \* what the compiled-area shows
    toolbox,        \* whether the buttons of a contract are shown
    requests,       \* under way, with the record of their File object
    sessions,       \* what each session of the server runs
    alive           \* the sessions that have not ended

screen == <<selectedFile, text, listing, toolbox>>
server == <<sessions, alive>>
vars == <<storage, screen, requests, server>>

\* What the server translates a text to; a contract gets a loop appended.
Bytecode(code, smart) == [of |-> code, loop |-> smart]
isSmartContract(code) == code \in SmartCodes
Bytecodes == {Bytecode(c, s) : c \in Codes, s \in BOOLEAN}

NewRecord_CodeOnly(code) == [code |-> code, maintainId |-> None]
NewRecord(code) == [code |-> code, compiled |-> None, maintainId |-> None]

Record == [code : Codes, compiled : {None} \cup Bytecodes,
           maintainId : {None} \cup SessionIds]

\* null is none of these.
ASSUME NoneAssumption ==
    /\ None \notin SessionIds /\ None \notin Bytecodes /\ None \notin Record

Request == [kind : {"compile", "run", "maintain", "call"}, file : Names,
            data : Record]

TypeOK ==
    /\ storage \in [Names -> {None} \cup Record]
    /\ selectedFile \in Names /\ storage[selectedFile] # None
    /\ text \in Codes
    /\ listing \in {None} \cup Bytecodes
    /\ toolbox \in BOOLEAN
    /\ requests \in Seq(Request) /\ Len(requests) <= MaxRequests
    /\ sessions \in [SessionIds -> {None} \cup Bytecodes]
    /\ alive \subseteq {s \in SessionIds : sessions[s] # None}

-----------------------------------------------------------------------------
(* The editor and the records *)

\* The handler of change events: sets code, then compiled, of a new File.
Changed_KeepsBytecode(st, name, code) == [st EXCEPT ![name].code = code]
Changed(st, name, code) ==
    [st EXCEPT ![name].code = code, ![name].compiled = None]

\* editor.setValue removes the text and inserts another: two change events.
SetValue(st, name, code) == Changed(Changed(st, name, EmptyCode), name, code)

\* fileSelected: the change events drop the bytecode of the record, so it is
\* read before and written back after.  code is loaded last before setValue.
Reopened_CachedLate(st, name) == SetValue(st, name, st[name].code)
Reopened(st, name) ==
    LET file == st[name]
    IN  [SetValue(st, name, file.code) EXCEPT
            ![name] = [file EXCEPT !.compiled = st[name].compiled]]

fileSelected(st, name) ==
    LET file == Reopened(st, name)[name]
    IN  /\ storage' = Reopened(st, name)
        /\ selectedFile' = name
        /\ text' = st[name].code
        /\ listing' = file.compiled
        /\ toolbox' = (isSmartContract(file.code) /\ file.maintainId # None)

Init ==
    /\ storage = [n \in Names |->
          IF n \in StartFiles THEN NewRecord(StartCode) ELSE None]
    /\ selectedFile \in StartFiles
    /\ text = StartCode
    /\ listing = None
    /\ toolbox = FALSE
    /\ requests = <<>>
    /\ sessions = [s \in SessionIds |-> None]
    /\ alive = {}

-----------------------------------------------------------------------------
(* What the user does *)

\* A click on a file, or its name as the hash of the location.
Select(name) ==
    /\ storage[name] # None
    /\ fileSelected(storage, name)
    /\ UNCHANGED <<requests, server>>

Edit(code) ==
    /\ code # text
    /\ storage' = Changed(storage, selectedFile, code)
    /\ text' = code
    /\ listing' = None
    /\ UNCHANGED <<selectedFile, toolbox, requests, server>>

\* tryCreateFile.  A file of a wrong format is deleted again at once, and a
\* name that is taken changes nothing.
Create(name) ==
    /\ storage[name] = None
    /\ fileSelected([storage EXCEPT ![name] = NewRecord(EmptyCode)], name)
    /\ UNCHANGED <<requests, server>>

Ask(kind, name, record) ==
    /\ Len(requests) < MaxRequests
    /\ requests' = Append(requests,
                          [kind |-> kind, file |-> name, data |-> record])

\* compileCurrentFile: the session of the file is given up first.
GivenUp_Never(record) == record
GivenUp(record) == [record EXCEPT !.maintainId = None]

Compile ==
    LET forgotten == [storage EXCEPT ![selectedFile] = GivenUp(@)]
    IN  /\ fileSelected(forgotten, selectedFile)
        /\ Ask("compile", selectedFile, Reopened(forgotten, selectedFile)[selectedFile])
        /\ UNCHANGED server

\* runBytecode: a contract in maintain mode, anything else at one shot.
Run ==
    LET file == storage[selectedFile]
    IN  /\ file.compiled # None
        /\ Ask(IF isSmartContract(file.code) THEN "maintain" ELSE "run",
               selectedFile, file)
        /\ UNCHANGED <<storage, screen, server>>

\* callSmartMethod, from a button of the toolbox.
Call ==
    /\ toolbox
    /\ Ask("call", selectedFile, storage[selectedFile])
    /\ UNCHANGED <<storage, screen, server>>

\* The page is loaded again: no answer finds its handler, and every file is
\* taken to have no session.
Reload ==
    /\ fileSelected([n \in Names |-> IF storage[n] = None THEN None
                        ELSE [storage[n] EXCEPT !.maintainId = None]],
                    selectedFile)
    /\ requests' = <<>>
    /\ UNCHANGED server

-----------------------------------------------------------------------------
(* Answers: of any request, in any order *)

Answered(n) == requests' = RemoveAt(requests, n)

\* A setter writes the record the File object holds back, whole.
Written_Merged(st, name, record) ==
    [st EXCEPT ![name].compiled = record.compiled]
Written(st, name, record) == [st EXCEPT ![name] = record]

\* An answer the handler of which only fills the console: the messages of a
\* text that does not compile, the output of a run.  An answer of another status
\* has no handler.
NotKept(n) ==
    /\ Answered(n)
    /\ UNCHANGED <<storage, screen, server>>

Sent(n, kind) == n \in DOMAIN requests /\ requests[n].kind = kind

\* The server returns the bytecode of the text it was sent.  The area shows
\* it whatever file is selected.
Compiled(n) ==
    /\ Sent(n, "compile")
    /\ LET data == requests[n].data
           bytecode == Bytecode(data.code, isSmartContract(data.code))
       IN  /\ storage' = Written(storage, requests[n].file,
                                 [data EXCEPT !.compiled = bytecode])
           /\ listing' = bytecode
    /\ Answered(n)
    /\ UNCHANGED <<selectedFile, text, toolbox, server>>

\* run-maintain: a new session runs the bytecode that was sent.
Reselected_Not(st) == storage' = st /\ UNCHANGED screen
Reselected(st) == fileSelected(st, selectedFile)

Maintained(n) ==
    /\ Sent(n, "maintain")
    /\ \E s \in SessionIds :
          /\ sessions[s] = None
          /\ sessions' = [sessions EXCEPT ![s] = requests[n].data.compiled]
          /\ alive' = alive \cup {s}
          /\ Reselected(Written(storage, requests[n].file,
                                [requests[n].data EXCEPT !.maintainId = s]))
    /\ Answered(n)

\* "No such process": the file has no session any more, and is selected.
Gone(n) ==
    /\ Sent(n, "call")
    /\ requests[n].data.maintainId \notin alive
    /\ fileSelected(Written(storage, requests[n].file,
                            [requests[n].data EXCEPT !.maintainId = None]),
                    requests[n].file)
    /\ Answered(n)
    /\ UNCHANGED server

\* A program exits, or was idle for too long.
SessionEnds(s) ==
    /\ s \in alive
    /\ alive' = alive \ {s}
    /\ UNCHANGED <<storage, screen, requests, sessions>>

User ==
    \/ \E name \in Names : Select(name) \/ Create(name)
    \/ \E code \in Codes : Edit(code)
    \/ Compile \/ Run \/ Call \/ Reload

Answer(n) ==
    \/ NotKept(n) \/ Compiled(n) \/ Maintained(n) \/ Gone(n)

Next ==
    \/ User
    \/ \E n \in DOMAIN requests : Answer(n)
    \/ \E s \in SessionIds : SessionEnds(s)

Spec == Init /\ [][Next]_vars

-----------------------------------------------------------------------------
(* Properties *)

Kept(name) == storage[name] # None

\* The bytecode of a file, if it has one, is that of the text stored with it,
\* in whatever order answers and edits come: an answer that comes after an edit
\* brings the text back it belongs to.
BytecodeMatchesCode ==
    \A n \in Names : Kept(n) =>
        LET file == storage[n]
        IN  file.compiled \in
                {None, Bytecode(file.code, isSmartContract(file.code))}

\* The session of a file runs the bytecode of the file.
SessionRunsBytecode ==
    \A n \in Names : Kept(n) =>
        \/ None \in {storage[n].compiled, storage[n].maintainId}
        \/ sessions[storage[n].maintainId] = storage[n].compiled

\* Going to a file changes no file, although it fires the change events that
\* drop bytecode.
SelectingKeepsFiles ==
    [][\A name \in Names : Select(name) => storage' = storage]_vars

\* The editor shows the stored text, until an answer to a compilation finds the
\* file edited since: it puts the old text back and leaves the editor alone.
InEditor == text = storage[selectedFile].code
EditorShowsText ==
    [][InEditor => \/ InEditor'
                   \/ \E n \in DOMAIN requests :
                         /\ Compiled(n) /\ requests[n].file = selectedFile
                         /\ requests[n].data.code # text]_vars

\* The listing is that of the selected file, until an answer to a compilation
\* finds another file selected.
InArea == listing = storage[selectedFile].compiled
AreaShowsBytecode ==
    [][InArea => \/ InArea'
                 \/ \E n \in DOMAIN requests :
                       Compiled(n) /\ requests[n].file # selectedFile]_vars
=============================================================================
