------------------------------ MODULE OneShot ------------------------------
(***************************************************************************)
(* Requests of the web IDE that run programs and wait for their end:       *)
(* /api/compile (CompilationAPI.java), a pipeline of three programs over   *)
(* files of its own, and /api/run (RunCodeAPI.java); and what run-maintain *)
(* does to the disk before the session of module Sessions begins.          *)
(*                                                                         *)
(* Every request is a thread of the web server with one process at a time. *)
(* A file is a sequence: of pieces of source text, or of bytes.  What a    *)
(* program prints is counted, and each of its two pipes has room for       *)
(* PipeSize pieces.                                                        *)
(***************************************************************************)
EXTENDS Integers, Sequences, SequencesExt

CONSTANTS
    Requests,       \* the HTTP requests
    Codes,          \* the texts a client compiles, as sequences of pieces
    SmartLoop,      \* smart_loop.cpp, appended to a smart contract
    Compiled,       \* clang and the translator: bytes for each text
    Sentences,      \* what a client may run besides the answer of a compilation
    Scripts,        \* what a program may do: "out" and "err" print, "in"
                    \* reads, and "loop" goes on for ever
    PipeSize,
    Absent          \* null: no file, no text

Byte == 0 .. 255

\* A text is written whole or, when the disk is full, cut off.
Whole == Codes \cup {c \o SmartLoop : c \in Codes}
Texts == UNION {Prefixes(c) : c \in Whole}

\* The words of a sentence: what is before the digits, and the digits, of
\* which the first may be a sign.
Plus == 16
Minus == 17
HexWord == [prefix : {"0x", ""}, digits : Seq(0 .. 15 \cup {Plus, Minus})]

\* The translator writes a call of main at least, and null is nothing else.
ASSUME OneShotAssumption ==
    /\ Compiled \in [Texts -> Seq(Byte)]
    /\ \A c \in Whole : c \in Texts /\ Compiled[c] # <<>>
    /\ Sentences \subseteq Seq(HexWord)
    /\ Scripts \subseteq Seq({"out", "err", "in", "loop"})
    /\ PipeSize \in Nat
    /\ Absent \notin Texts /\ Absent \notin Seq(Byte) /\ Absent \notin Seq(HexWord)

Tools == {"clang", "llvm-rbvm", "da", "rbvm"}
Extensions == {"c", "ll", "rbvm", ""}

VARIABLES
    disk,       \* the files, by the identifier of a request and an extension
    req,        \* the thread of each request
    proc        \* the process it waits for

vars == <<disk, req, proc>>

NoProc == [state |-> "none", input |-> Absent, ok |-> FALSE, todo |-> <<>>,
           said |-> [out |-> 0, err |-> 0], pipe |-> [out |-> 0, err |-> 0],
           stdout |-> Absent, stderr |-> Absent]

Init ==
    /\ disk = [f \in Requests \X Extensions |-> Absent]
    /\ req = [r \in Requests |->
          [at |-> "idle", kind |-> "none", text |-> <<>>, stored |-> FALSE,
           failed |-> FALSE, result |-> Absent]]
    /\ proc = [r \in Requests |-> NoProc]

-----------------------------------------------------------------------------
(* CoderHelper: bytes as a sentence of words such as 0x0f *)

Hex(digits) == [prefix |-> "0x", digits |-> digits]

\* Integer.toHexString does not write a leading zero.
Padded_Never(b) == IF b < 16 THEN <<b>> ELSE <<b \div 16, b % 16>>
Padded(b) == <<b \div 16, b % 16>>
ToHexSentence(bytes) == [n \in DOMAIN bytes |-> Hex(Padded(bytes[n]))]

\* split gives one empty word for an empty sentence.
Words(sentence) ==
    IF sentence = <<>> THEN <<[prefix |-> "", digits |-> <<>>]>> ELSE sentence
\* parseInt takes a sign before a digit.
IsByte(w) ==
    /\ w.prefix = "0x" /\ Len(w.digits) = 2
    /\ w.digits[2] \in 0 .. 15
\* The cast to byte keeps the low eight bits.
ByteOf(w) ==
    CASE w.digits[1] = Minus -> (256 - w.digits[2]) % 256
      [] w.digits[1] = Plus  -> w.digits[2]
      [] OTHER               -> 16 * w.digits[1] + w.digits[2]
Decodes(sentence) == \A n \in DOMAIN Words(sentence) : IsByte(Words(sentence)[n])
FromHexSentence(sentence) ==
    [n \in DOMAIN sentence |-> ByteOf(sentence[n])]

-----------------------------------------------------------------------------
(* The requests *)

At(r, step) == req[r].at = step
tool(r) == req[r].at

\* The thread answers or throws; its local variables are gone.
Ends(r, how, result) ==
    req' = [req EXCEPT ![r].at = how, ![r].text = <<>>, ![r].stored = FALSE,
                       ![r].failed = FALSE, ![r].result = result]

\* nextIdentifier: eight random letters, taken to be new.
FileId_Fixed(r) == CHOOSE q \in Requests : TRUE
FileId(r) == r

Start(r, kind, text) ==
    /\ At(r, "idle")
    /\ req' = [req EXCEPT ![r].at = "write", ![r].kind = kind, ![r].text = text]
    /\ UNCHANGED <<disk, proc>>

StartCompile(r, code, smart) ==
    Start(r, "compile", IF smart THEN code \o SmartLoop ELSE code)

\* A format other than c and cpp: null before anything happens.
WrongFormat(r) ==
    /\ At(r, "idle")
    /\ req' = [req EXCEPT ![r].at = "done", ![r].kind = "compile"]
    /\ UNCHANGED <<disk, proc>>

\* A client runs what it got from a compilation, or anything else.
Known == {req[q].result : q \in {p \in Requests : At(p, "done")}} \ {Absent}
StartRun(r, kind) ==
    \E sentence \in Known \cup Sentences : Start(r, kind, sentence)

Source_Bare(r) == ""
Source(r) == IF req[r].kind = "compile" THEN "c" ELSE ""
FirstStage(r) == IF req[r].kind = "compile" THEN "clang" ELSE "rbvm"

\* writeFile: fromHexSentence throws before the file is made.
Refuse(r) ==
    /\ At(r, "write")
    /\ req[r].kind # "compile"
    /\ ~Decodes(req[r].text)
    /\ Ends(r, "error", Absent)
    /\ UNCHANGED <<disk, proc>>

\* writeFile prints an IOException and goes on, with no file or a part of it.
\* What run-maintain does next is in module Sessions.
Write(r) ==
    /\ At(r, "write")
    /\ req[r].kind # "compile" => Decodes(req[r].text)
    /\ LET content == IF req[r].kind = "compile" THEN req[r].text
                      ELSE FromHexSentence(req[r].text)
       IN  \E written \in {Absent} \cup Prefixes(content) :
              /\ disk' = [disk EXCEPT ![<<FileId(r), Source(r)>>] = written]
              /\ IF req[r].kind = "maintain" THEN Ends(r, "done", Absent)
                 ELSE req' = [req EXCEPT ![r].at = FirstStage(r),
                                         ![r].stored = written = content]
    /\ UNCHANGED proc

\* new ExecutionController(commands).
Launch(r) ==
    /\ req[r].at \in Tools
    /\ proc[r].state = "none"
    /\ proc' = [proc EXCEPT ![r].state = "started"]
    /\ UNCHANGED <<disk, req>>

\* The program cannot be executed: process is null, and start throws.
LaunchFails(r) ==
    /\ req[r].at \in Tools
    /\ proc[r].state = "none"
    /\ Ends(r, "error", Absent)
    /\ UNCHANGED <<disk, proc>>

\* join waits for the future, not for the process: stdout and stderr are set.
Joined_OnExit(r) == proc[r].state \in {"exited", "reading", "read"}
Joined(r) == proc[r].state = "read"

\* A stage that failed is not told from one that did not.
Following ==
    [stage \in Tools |-> CASE stage = "clang" -> "llvm-rbvm"
                           [] stage = "llvm-rbvm" -> "da"
                           [] stage = "da" -> "result"
                           [] stage = "rbvm" -> "clean"]
Join(r) ==
    /\ req[r].at \in Tools
    /\ Joined(r)
    /\ IF Absent \in {proc[r].stdout, proc[r].stderr}
       THEN Ends(r, "error", Absent)
       ELSE req' = [req EXCEPT
                ![r].at = Following[@],
                ![r].failed = @ \/ (~proc[r].ok /\ tool(r) # "da")]
    /\ proc' = [proc EXCEPT ![r] = NoProc]
    /\ UNCHANGED disk

ReadResult(r) ==
    /\ At(r, "result")
    /\ LET bytes == disk[FileId(r), "rbvm"]
       IN  req' = [req EXCEPT
              ![r].at = "clean",
              ![r].result = IF bytes = Absent THEN Absent
                            ELSE ToHexSentence(bytes)]
    /\ UNCHANGED <<disk, proc>>

\* The two cleanUp.
Temporary_NoLl(kind) == IF kind = "run" THEN {""} ELSE {"", "c", "rbvm"}
Temporary(kind) == IF kind = "run" THEN {""} ELSE Extensions

CleanUp(r) ==
    /\ At(r, "clean")
    /\ disk' = [f \in DOMAIN disk |->
          IF f[1] = FileId(r) /\ f[2] \in Temporary(req[r].kind)
          THEN Absent ELSE disk[f]]
    /\ Ends(r, "done", req[r].result)
    /\ UNCHANGED proc

-----------------------------------------------------------------------------
(* The programs and the thread that reaps them *)

InputOf ==
    [stage \in Tools |-> CASE stage = "clang" -> "c" [] stage = "llvm-rbvm" -> "ll"
                           [] stage = "da" -> "rbvm" [] stage = "rbvm" -> ""]

\* The program reads its file whole (read_text, parseIRFile); without one it
\* prints an error and exits.  Any of them may fail on what it reads.
Load(r) ==
    /\ proc[r].state = "started"
    /\ LET file == disk[FileId(r), InputOf[tool(r)]]
       IN  \E ok \in BOOLEAN, script \in Scripts \cup {<<"err">>} :
              /\ file = Absent => ~ok /\ script = <<"err">>
              /\ proc' = [proc EXCEPT ![r].state = "running", ![r].todo = script,
                                      ![r].input = file, ![r].ok = ok]
    /\ UNCHANGED <<disk, req>>

\* redirectErrorStream(false): a pipe for each stream.
PipeOf_Merged(stream) == "out"
PipeOf(stream) == stream

\* A program that prints into a full pipe waits until somebody reads, and one
\* that reads waits for input: the pipe of its standard input stays open.  One
\* that loops does nothing that can be seen, and never ends.
Prints(r) ==
    /\ proc[r].state = "running"
    /\ proc[r].todo # <<>>
    /\ \E stream \in {"out", "err"} :
          /\ Head(proc[r].todo) = stream
          /\ proc[r].pipe[PipeOf(stream)] < PipeSize
          /\ proc' = [proc EXCEPT ![r].todo = Tail(@), ![r].said[stream] = @ + 1,
                                  ![r].pipe[PipeOf(stream)] = @ + 1]
    /\ UNCHANGED <<disk, req>>

\* clang writes <id>.ll and llvm-rbvm <id>.rbvm; on a failure both leave no
\* file (ToolOutputFile is removed unless keep was called).
Exit(r) ==
    /\ proc[r].state = "running"
    /\ proc[r].todo = <<>>
    /\ proc' = [proc EXCEPT ![r].state = "exited"]
    /\ disk' =
          CASE proc[r].ok /\ tool(r) = "clang" ->
                  [disk EXCEPT ![<<FileId(r), "ll">>] = proc[r].input]
            [] proc[r].ok /\ tool(r) = "llvm-rbvm" ->
                  [disk EXCEPT ![<<FileId(r), "rbvm">>] = Compiled[proc[r].input]]
            [] OTHER -> disk
    /\ UNCHANGED req

\* The stages of finish; nobody opens the input of such a process.
ReadErrors(r) ==
    /\ proc[r].state = "exited"
    /\ proc' = [proc EXCEPT ![r].state = "reading",
                            ![r].stderr = proc[r].pipe.err]
    /\ UNCHANGED <<disk, req>>

ReadOutput(r) ==
    /\ proc[r].state = "reading"
    /\ proc' = [proc EXCEPT ![r].state = "read",
                            ![r].stdout = proc[r].pipe.out]
    /\ UNCHANGED <<disk, req>>

-----------------------------------------------------------------------------
Arrive(r) ==
    \/ \E c \in Codes, smart \in BOOLEAN : StartCompile(r, c, smart)
    \/ WrongFormat(r)
    \/ StartRun(r, "run") \/ StartRun(r, "maintain")

Thread(r) ==
    \/ Refuse(r) \/ Write(r) \/ Launch(r) \/ LaunchFails(r) \/ Join(r)
    \/ ReadResult(r) \/ CleanUp(r)

Program(r) == Load(r) \/ Prints(r) \/ Exit(r)
Reap(r) == ReadErrors(r) \/ ReadOutput(r)

Next == \E r \in Requests : Arrive(r) \/ Thread(r) \/ Program(r) \/ Reap(r)

\* The threads of the server and the processes are scheduled.
Fairness ==
    \A r \in Requests :
        WF_vars(Thread(r)) /\ WF_vars(Program(r)) /\ WF_vars(Reap(r))

Spec == Init /\ [][Next]_vars /\ Fairness

-----------------------------------------------------------------------------
(* Properties *)

Count == 0 .. PipeSize
TypeOK ==
    /\ \A r \in Requests, e \in Extensions :
          disk[r, e] \in {Absent} \cup (IF e \in {"c", "ll"} THEN Texts
                                        ELSE Seq(Byte))
    /\ \A r \in Requests :
          /\ req[r].at \in Tools \cup {"idle", "write", "result", "clean",
                                       "done", "error"}
          /\ req[r].kind \in {"none", "compile", "run", "maintain"}
          /\ proc[r].state \in {"none", "started", "running", "exited",
                                "reading", "read"}
          /\ proc[r].state # "none" => tool(r) \in Tools
          /\ proc[r].pipe \in [{"out", "err"} -> Count]
          /\ {proc[r].stdout, proc[r].stderr} \subseteq Count \cup {Absent}

\* A compilation returns the bytecode of the text it was sent and of no other,
\* decodable by the requests that run it, and returns none when clang or the
\* translator failed, although neither exit status is looked at.  The source
\* must have been written whole: writeFile swallows the exception.
ReplyIsOwnBytecode ==
    \A r \in Requests :
        req[r].kind = "compile" /\ req[r].result # Absent /\ req[r].stored =>
            /\ ~req[r].failed
            /\ Decodes(req[r].result)
            /\ FromHexSentence(req[r].result) = Compiled[req[r].text]

\* The VM runs the bytes the request named, whatever other requests write or
\* delete meanwhile.
VmRunsOwnText ==
    \A r \in Requests :
        tool(r) = "rbvm" /\ proc[r].state = "running" /\ req[r].stored =>
            /\ proc[r].input # Absent
            /\ proc[r].input = FromHexSentence(req[r].text)

\* What a request takes from its process is all the process printed, each
\* stream apart.
RepliesComplete ==
    [][\A r \in Requests :
          Join(r) => /\ proc[r].stdout = proc[r].said.out
                     /\ proc[r].stderr = proc[r].said.err]_vars

\* Files outlive their request only after run-maintain, and after an exception
\* of a compilation or a run: every other answer leaves none of its files.
FilesRemoved ==
    \A r \in Requests :
        At(r, "done") /\ req[r].kind \in {"compile", "run"} =>
            \A e \in Extensions : disk[FileId(r), e] = Absent

\* join has no timeout.  A program that loops, reads, or prints more than a
\* pipe holds is never reaped: nobody writes its input, and its output is read
\* only when it has ended.
Printed(r, stream) ==
    proc[r].said[stream] + Len(SelectSeq(proc[r].todo, LAMBDA s : s = stream))
NeverEnds(r) ==
    /\ proc[r].state = "running"
    /\ \/ {"in", "loop"} \cap ToSet(proc[r].todo) # {}
       \/ \E stream \in {"out", "err"} : Printed(r, stream) > PipeSize

\* Every request is answered, unless one of its programs is such a program: a
\* request whose program does not end waits for ever.
RequestsAnswered ==
    \A r \in Requests :
        ~At(r, "idle") ~> (req[r].at \in {"done", "error"} \/ NeverEnds(r))
=============================================================================
