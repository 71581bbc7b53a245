--------------------------- MODULE OneShotProofs ---------------------------
(***************************************************************************)
(* Theorems about OneShot, for any requests, texts, compiler, programs and *)
(* size of the pipes.  A request touches its own files only, so that the   *)
(* invariant speaks of one request at a time: its thread, its process and  *)
(* its files.                                                              *)
(***************************************************************************)
EXTENDS OneShot, TLAPS

-----------------------------------------------------------------------------
(* Bytes as sentences *)

\* A byte is written as two digits and can be read back.
LEMMA DigitsOfByte ==
    ASSUME NEW b \in Byte
    PROVE  /\ Hex(Padded(b)) \in HexWord
           /\ IsByte(Hex(Padded(b)))
           /\ ByteOf(Hex(Padded(b))) = b
<1> DEFINE high == b \div 16
           low == b % 16
<1>1. b \in Int /\ 0 <= b /\ b <= 255  BY DEF Byte
<1>2. high \in 0 .. 15 /\ low \in 0 .. 15 /\ 16 * high + low = b  BY <1>1
<1>3. Padded(b) = <<high, low>>  BY DEF Padded
<1> HIDE DEF high, low
<1>4. /\ Padded(b) \in Seq(0 .. 15) /\ Len(Padded(b)) = 2
      /\ Padded(b)[1] = high /\ Padded(b)[2] = low
  BY <1>2, <1>3
<1>5. Hex(Padded(b)).digits = Padded(b) /\ Hex(Padded(b)).prefix = "0x"
  BY DEF Hex
<1>6. Hex(Padded(b)) \in HexWord
  BY <1>4 DEF Hex, HexWord
<1>7. ByteOf(Hex(Padded(b))) = b
  BY <1>2, <1>4, <1>5 DEF ByteOf, Plus, Minus
<1>8. IsByte(Hex(Padded(b)))  BY <1>2, <1>4, <1>5 DEF IsByte
<1> QED  BY <1>6, <1>7, <1>8

LEMMA ByteOfDigits ==
    ASSUME NEW w \in HexWord, IsByte(w)
    PROVE  ByteOf(w) \in Byte
<1> DEFINE a == w.digits[1]
           b == w.digits[2]
<1>1. a \in 0 .. 15 \cup {16, 17} /\ b \in 0 .. 15
  <2>1. w.digits \in Seq(0 .. 15 \cup {16, 17}) /\ Len(w.digits) = 2
    BY DEF HexWord, IsByte, Plus, Minus
  <2>2. 1 \in 1 .. Len(w.digits)  BY <2>1
  <2>3. a \in 0 .. 15 \cup {16, 17}  BY <2>1, <2>2
  <2> QED  BY <2>3 DEF IsByte
<1>2. ByteOf(w) = (CASE a = 17 -> (256 - b) % 256
                     [] a = 16 -> b
                     [] OTHER  -> 16 * a + b)
  BY DEF ByteOf, Plus, Minus
<1> HIDE DEF a, b
<1>3. (256 - b) % 256 \in 0 .. 255  BY <1>1
<1>4. CASE a = 17
  BY <1>2, <1>3, <1>4 DEF Byte
<1>5. CASE a = 16
  BY <1>1, <1>2, <1>5 DEF Byte
<1>6. CASE a \notin {16, 17}
  <2>1. ByteOf(w) = 16 * a + b  BY <1>2, <1>6
  <2> QED  BY <1>1, <1>6, <2>1 DEF Byte
<1> QED  BY <1>4, <1>5, <1>6

\* What toHexSentence writes, fromHexSentence reads.
LEMMA BytesKept ==
    ASSUME NEW bytes \in Seq(Byte)
    PROVE  /\ ToHexSentence(bytes) \in Seq(HexWord)
           /\ bytes # <<>> =>
                /\ Decodes(ToHexSentence(bytes))
                /\ FromHexSentence(ToHexSentence(bytes)) = bytes
<1> DEFINE s == ToHexSentence(bytes)
<1>1. \A n \in 1 .. Len(bytes) : bytes[n] \in Byte  OBVIOUS
<1>2. /\ DOMAIN s = 1 .. Len(bytes)
      /\ \A n \in 1 .. Len(bytes) : s[n] = Hex(Padded(bytes[n]))
  BY DEF ToHexSentence
<1>3. \A n \in 1 .. Len(bytes) :
         /\ s[n] \in HexWord /\ IsByte(s[n])
         /\ ByteOf(s[n]) = bytes[n]
  BY <1>1, <1>2, DigitsOfByte
<1>4. s \in Seq(HexWord) /\ Len(s) = Len(bytes)
  <2>1. s = [n \in 1 .. Len(bytes) |-> s[n]]  BY <1>2 DEF ToHexSentence
  <2>2. Len(bytes) \in Nat  OBVIOUS
  <2>3. s \in [1 .. Len(bytes) -> HexWord]  BY <1>3, <2>1
  <2> HIDE DEF s
  <2> QED  BY <2>2, <2>3
<1>5. ASSUME bytes # <<>>
      PROVE  Decodes(s) /\ FromHexSentence(s) = bytes
  <2> HIDE DEF s
  <2>1. s # <<>>  BY <1>4, <1>5
  <2>2. Decodes(s)  BY <1>2, <1>3, <2>1 DEF Decodes, Words
  <2>3. FromHexSentence(s) = [n \in 1 .. Len(bytes) |-> bytes[n]]
    BY <1>2, <1>3 DEF FromHexSentence
  <2>4. bytes = [n \in 1 .. Len(bytes) |-> bytes[n]]  OBVIOUS
  <2> QED  BY <2>2, <2>3, <2>4
<1> QED  BY <1>4, <1>5

\* A sentence that fromHexSentence accepts gives bytes.
LEMMA SentenceKept ==
    ASSUME NEW s \in Seq(HexWord), Decodes(s)
    PROVE  FromHexSentence(s) \in Seq(Byte)
<1> DEFINE bytes == FromHexSentence(s)
<1>1. s # <<>>
  <2> SUFFICES ASSUME s = <<>> PROVE FALSE  OBVIOUS
  <2> DEFINE nothing == [prefix |-> "", digits |-> <<>>]
  <2>1. Words(s) = <<nothing>>  BY DEF Words
  <2>2. nothing.prefix = ""  OBVIOUS
  <2> HIDE DEF nothing
  <2>3. 1 \in DOMAIN Words(s) /\ Words(s)[1] = nothing  BY <2>1
  <2> QED  BY <2>2, <2>3 DEF Decodes, IsByte
<1>2. \A n \in 1 .. Len(s) : s[n] \in HexWord /\ IsByte(s[n])
  BY <1>1 DEF Decodes, Words
<1>3. /\ DOMAIN bytes = 1 .. Len(s)
      /\ \A n \in 1 .. Len(s) : bytes[n] = ByteOf(s[n])
  BY DEF FromHexSentence
<1>4. \A n \in 1 .. Len(s) : bytes[n] \in Byte
  BY <1>2, <1>3, ByteOfDigits
<1>5. bytes \in [1 .. Len(s) -> Byte]
  BY <1>3, <1>4 DEF FromHexSentence
<1>6. bytes \in Seq(Byte)
  <2> HIDE DEF bytes
  <2> QED  BY <1>5
<1> QED  BY <1>6

-----------------------------------------------------------------------------
(* What is known of one request: its thread x, its process p, its files d *)

Stages == Tools \cup {"idle", "write", "result", "clean", "done", "error"}
Sentence == Seq(HexWord)
Bytes == Seq(Byte)
Streams == {"out", "err"}

Request ==
    [at : Stages, kind : {"none", "compile", "run", "maintain"},
     text : Whole \cup Sentence \cup {<<>>}, stored : BOOLEAN,
     failed : BOOLEAN, result : {Absent} \cup Sentence]
Process ==
    [state : {"none", "started", "running", "exited", "reading", "read"},
     input : {Absent} \cup Texts \cup Bytes, ok : BOOLEAN,
     todo : Seq({"out", "err", "in", "loop"}),
     said : [Streams -> Count], pipe : [Streams -> Count],
     stdout : {Absent} \cup Count, stderr : {Absent} \cup Count]
Directory == [Extensions -> {Absent} \cup Texts \cup Bytes]

Loaded(p) == p.state \in {"running", "exited", "reading", "read"}
Ended(p) == p.state \in {"exited", "reading", "read"}

\* A request is where its kind takes it.
Placed(x, p) ==
    /\ p.state # "none" => x.at \in Tools
    /\ x.at = "idle" => x.kind = "none"
    /\ x.at = "write" => x.kind # "none"
    /\ x.at \in {"clang", "llvm-rbvm", "da", "result"} => x.kind = "compile"
    /\ x.at = "rbvm" => x.kind = "run"
    /\ x.at = "clean" => x.kind \in {"compile", "run"}
    /\ x.at \in Tools \cup {"write", "result", "clean"} =>
          x.text \in IF x.kind = "compile" THEN Whole ELSE Sentence
    /\ x.at \in {"idle", "write", "done", "error"} => ~x.stored /\ ~x.failed
    /\ x.result # Absent => x.at \in {"clean", "done"}

\* The files a request has, by the extension.
Filed(x, d) ==
    /\ {d["c"], d["ll"]} \subseteq {Absent} \cup Texts
    /\ {d["rbvm"], d[""]} \subseteq {Absent} \cup Bytes
    /\ x.at \in {"idle", "write"} => \A e \in Extensions : d[e] = Absent
    /\ x.kind # "compile" => \A e \in {"c", "ll", "rbvm"} : d[e] = Absent
    /\ x.at = "done" /\ x.kind \in {"compile", "run"} =>
          \A e \in Extensions : d[e] = Absent

\* What the process read and printed.
Piped(x, p, d) ==
    /\ Loaded(p) => /\ p.input = d[InputOf[x.at]]
                    /\ p.ok => p.input # Absent
    /\ p.said = p.pipe
    /\ p.state \in {"reading", "read"} => p.stderr = p.pipe["err"]
    /\ p.state = "read" => p.stdout = p.pipe["out"]

\* What each stage leaves for the next, when the source was written whole.
Staged(x, p, d) ==
    /\ x.at = "clang" =>
          /\ x.text \in Texts /\ d["c"] = x.text /\ ~x.failed
          /\ d["ll"] = (IF Ended(p) /\ p.ok THEN x.text ELSE Absent)
          /\ d["rbvm"] = Absent
    /\ x.at = "llvm-rbvm" =>
          /\ x.text \in Texts
          /\ d["ll"] = (IF x.failed THEN Absent ELSE x.text)
          /\ d["rbvm"] = (IF Ended(p) /\ p.ok THEN Compiled[x.text] ELSE Absent)
    /\ x.at \in {"da", "result"} =>
          /\ x.text \in Texts
          /\ d["rbvm"] = (IF x.failed THEN Absent ELSE Compiled[x.text])
    /\ x.at = "clean" /\ x.result # Absent =>
          /\ x.text \in Texts /\ ~x.failed
          /\ x.result = ToHexSentence(Compiled[x.text])
    /\ x.at = "rbvm" => Decodes(x.text) /\ d[""] = FromHexSentence(x.text)

\* Everything about one request.
Local(x, p, d) ==
    /\ x \in Request /\ p \in Process /\ d \in Directory
    /\ Placed(x, p) /\ Filed(x, d) /\ Piped(x, p, d)
    /\ x.stored => Staged(x, p, d)

Files(r) == [e \in Extensions |-> disk[<<r, e>>]]

\* The inductive invariant.
Served ==
    /\ req \in [Requests -> Request]
    /\ proc \in [Requests -> Process]
    /\ disk \in [Requests \X Extensions -> {Absent} \cup Texts \cup Bytes]
    /\ \A r \in Requests : Local(req[r], proc[r], Files(r))

-----------------------------------------------------------------------------
(* Steps *)

LEMMA DiskEntry ==
    ASSUME Served, NEW r \in Requests, NEW e \in Extensions
    PROVE  disk[r, e] = Files(r)[e]
BY DEF Files

\* A step of a request leaves the others alone.
LEMMA OwnStep ==
    ASSUME Served, NEW r \in Requests, NEW x, NEW p, NEW d,
           Local(x, p, d),
           req' = [req EXCEPT ![r] = x],
           proc' = [proc EXCEPT ![r] = p],
           disk' = [f \in Requests \X Extensions |->
                      IF f[1] = r THEN d[f[2]] ELSE disk[f]]
    PROVE  Served'
<1>1. x \in Request /\ p \in Process /\ d \in Directory  BY DEF Local
<1>2. req' \in [Requests -> Request] /\ proc' \in [Requests -> Process]
  BY <1>1 DEF Served
<1>3. disk' \in [Requests \X Extensions -> {Absent} \cup Texts \cup Bytes]
  <2>1. \A f \in Requests \X Extensions :
           f[2] \in Extensions /\ d[f[2]] \in {Absent} \cup Texts \cup Bytes
    BY <1>1 DEF Directory
  <2> QED  BY <2>1 DEF Served
<1>4. ASSUME NEW q \in Requests
      PROVE  Local(req[q], proc[q], Files(q))'
  <2>1. \A e \in Extensions :
           disk'[<<q, e>>] = IF q = r THEN d[e] ELSE disk[<<q, e>>]
    OBVIOUS
  <2>2. Files(q)' = IF q = r THEN d ELSE Files(q)
    <3>1. Files(q)' = [e \in Extensions |-> IF q = r THEN d[e] ELSE disk[<<q, e>>]]
      BY <2>1 DEF Files
    <3>2. d = [e \in Extensions |-> d[e]]  BY <1>1 DEF Directory
    <3> QED  BY <3>1, <3>2 DEF Files
  <2>3. /\ req'[q] = IF q = r THEN x ELSE req[q]
        /\ proc'[q] = IF q = r THEN p ELSE proc[q]
    BY DEF Served
  <2>4. Local(req'[q], proc'[q], Files(q)')
    <3>1. CASE q = r  BY <3>1, <2>2, <2>3
    <3>2. CASE q # r  BY <3>2, <2>2, <2>3 DEF Served
    <3> QED  BY <3>1, <3>2
  <2> QED  BY <2>4
<1> QED  BY <1>2, <1>3, <1>4 DEF Served

\* ... and most steps leave the files alone.
LEMMA QuietStep ==
    ASSUME Served, NEW r \in Requests, NEW x, NEW p,
           Local(x, p, Files(r)),
           req' = [req EXCEPT ![r] = x],
           proc' = [proc EXCEPT ![r] = p],
           disk' = disk
    PROVE  Served'
<1> DEFINE d == Files(r)
<1>1. \A f \in Requests \X Extensions :
         f[1] = r => f = <<r, f[2]>> /\ f[2] \in Extensions
  OBVIOUS
<1>2. \A e \in Extensions : d[e] = disk[<<r, e>>]  BY DEF Files
<1> HIDE DEF d
<1>3. disk' = [f \in Requests \X Extensions |->
                 IF f[1] = r THEN d[f[2]] ELSE disk[f]]
  <2>1. disk = [f \in Requests \X Extensions |-> disk[f]]  BY DEF Served
  <2>2. \A f \in Requests \X Extensions : f[1] = r => d[f[2]] = disk[f]
    BY <1>1, <1>2
  <2> QED  BY <2>1, <2>2
<1> QED  BY <1>3, OwnStep DEF d

-----------------------------------------------------------------------------
(* The thread of a request *)

LEMMA ServedOne ==
    ASSUME Served, NEW r \in Requests
    PROVE  /\ Local(req[r], proc[r], Files(r))
           /\ req[r] \in Request /\ proc[r] \in Process /\ Files(r) \in Directory
BY DEF Served, Local

LEMMA NoProcess ==
    NoProc \in Process /\ NoProc.state = "none" /\ NoProc.said = NoProc.pipe
<1>1. 0 \in Count  BY OneShotAssumption DEF Count
<1>2. [out |-> 0, err |-> 0] \in [Streams -> Count]  BY <1>1 DEF Streams
<1>3. <<>> \in Seq({"out", "err", "in", "loop"})  OBVIOUS
<1> HIDE DEF Count
<1> QED  BY <1>2, <1>3 DEF NoProc, Process

\* A request that is over knows nothing but its result.
Over(x, how, result) ==
    [x EXCEPT !.at = how, !.text = <<>>, !.stored = FALSE, !.failed = FALSE,
              !.result = result]

LEMMA OverLocal ==
    ASSUME NEW x, NEW p, NEW d, Local(x, p, d), p.state = "none",
           NEW how \in {"done", "error"}, NEW result \in {Absent} \cup Sentence,
           how = "error" => result = Absent,
           x.kind # "none",
           how = "done" /\ x.kind \in {"compile", "run"} =>
               \A e \in Extensions : d[e] = Absent
    PROVE  Local(Over(x, how, result), p, d)
<1> DEFINE y == Over(x, how, result)
<1>1. x \in Request  BY DEF Local
<1>2. /\ y \in Request /\ y.at = how /\ y.kind = x.kind /\ ~y.stored
      /\ ~y.failed /\ y.result = result
  BY <1>1 DEF Request, Stages, Over
<1> HIDE DEF y
<1>3. y.at \notin Tools \cup {"idle", "write", "result", "clean"}
  BY <1>2 DEF Tools
<1>4. Placed(y, p)  BY <1>2, <1>3 DEF Placed, Tools, Local
<1>5. Filed(y, d)  BY <1>2, <1>3 DEF Filed, Local
<1>6. Piped(y, p, d)  BY DEF Piped, Loaded, Local
<1> QED  BY <1>2, <1>4, <1>5, <1>6 DEF Local, y

LEMMA EndsOver ==
    ASSUME Served, NEW r \in Requests, NEW how, NEW result, Ends(r, how, result)
    PROVE  req' = [req EXCEPT ![r] = Over(req[r], how, result)]
BY DEF Ends, Over, Served

LEMMA EndsServed ==
    ASSUME Served, NEW r \in Requests,
           NEW how \in {"done", "error"}, NEW result \in {Absent} \cup Sentence,
           how = "error" => result = Absent,
           Ends(r, how, result),
           proc[r].state = "none", req[r].kind # "none",
           how = "done" /\ req[r].kind \in {"compile", "run"} =>
               \A e \in Extensions : Files(r)[e] = Absent,
           UNCHANGED <<disk, proc>>
    PROVE  Served'
<1>1. Local(Over(req[r], how, result), proc[r], Files(r))
  BY ServedOne, OverLocal
<1>2. proc' = [proc EXCEPT ![r] = proc[r]] /\ disk' = disk  BY DEF Served
<1>3. req' = [req EXCEPT ![r] = Over(req[r], how, result)]  BY EndsOver
<1> QED  BY <1>1, <1>2, <1>3, QuietStep

\* What a client may run is a sentence.
LEMMA KnownSentences ==
    Served => Known \cup Sentences \subseteq Sentence
<1> SUFFICES ASSUME Served PROVE Known \cup Sentences \subseteq Sentence
  OBVIOUS
<1>1. \A q \in Requests : req[q].result \in {Absent} \cup Sentence
  BY DEF Served, Request
<1> QED  BY <1>1, OneShotAssumption DEF Known, Sentence

LEMMA StartServed ==
    ASSUME Served, NEW r \in Requests,
           NEW kind \in {"compile", "run", "maintain"}, NEW words,
           words \in IF kind = "compile" THEN Whole ELSE Sentence,
           Start(r, kind, words)
    PROVE  Served'
<1> DEFINE x == req[r]
           y == [x EXCEPT !.at = "write", !.kind = kind, !.text = words]
<1>1. Local(x, proc[r], Files(r)) /\ x \in Request  BY ServedOne
<1>2. x.at = "idle"  BY DEF Start, At
<1>3. req' = [req EXCEPT ![r] = y]  BY DEF Start, Served
<1>4. proc' = [proc EXCEPT ![r] = proc[r]]  BY DEF Start, Served
<1> HIDE DEF x
<1>5. /\ y \in Request /\ y.at = "write" /\ y.kind = kind /\ y.text = words
      /\ y.stored = x.stored /\ y.failed = x.failed /\ y.result = x.result
  BY <1>1 DEF Request, Stages
<1> HIDE DEF y
<1>6. /\ proc[r].state = "none" /\ ~x.stored /\ ~x.failed
      /\ x.result = Absent
  BY <1>1, <1>2 DEF Local, Placed, Tools
<1>7. Placed(y, proc[r])  BY <1>5, <1>6 DEF Placed, Tools
<1>8. Filed(y, Files(r))
  <2>1. \A e \in Extensions : Files(r)[e] = Absent
    BY <1>1, <1>2 DEF Filed, Local
  <2> QED  BY <1>5, <2>1 DEF Filed, Extensions
<1>9. Piped(y, proc[r], Files(r))  BY <1>1, <1>6 DEF Piped, Loaded, Local
<1>10. Local(y, proc[r], Files(r))
  BY <1>1, <1>5, <1>6, <1>7, <1>8, <1>9 DEF Local
<1> QED  BY <1>3, <1>4, <1>10, QuietStep DEF Start

LEMMA ArriveServed ==
    ASSUME Served, NEW r \in Requests, Arrive(r)
    PROVE  Served'
<1>1. ASSUME NEW c \in Codes, NEW smart \in BOOLEAN, StartCompile(r, c, smart)
      PROVE  Served'
  <2>1. (IF smart THEN c \o SmartLoop ELSE c) \in Whole  BY DEF Whole
  <2> QED  BY <1>1, <2>1, StartServed DEF StartCompile
<1>2. ASSUME NEW kind \in {"run", "maintain"}, StartRun(r, kind)
      PROVE  Served'
  <2> PICK sentence \in Known \cup Sentences : Start(r, kind, sentence)
    BY <1>2 DEF StartRun
  <2> QED  BY KnownSentences, StartServed
<1>3. ASSUME WrongFormat(r)
      PROVE  Served'
  <2> DEFINE x == req[r]
             y == [x EXCEPT !.at = "done", !.kind = "compile"]
  <2>1. Local(x, proc[r], Files(r)) /\ x \in Request  BY ServedOne
  <2>2. x.at = "idle"  BY <1>3 DEF WrongFormat, At
  <2>3. req' = [req EXCEPT ![r] = y]  BY <1>3 DEF WrongFormat, Served
  <2>4. proc' = [proc EXCEPT ![r] = proc[r]]  BY <1>3 DEF WrongFormat, Served
  <2> HIDE DEF x
  <2>5. /\ y \in Request /\ y.at = "done" /\ y.kind = "compile"
        /\ y.stored = x.stored /\ y.failed = x.failed /\ y.result = x.result
    BY <2>1 DEF Request, Stages
  <2> HIDE DEF y
  <2>6. proc[r].state = "none" /\ ~x.stored /\ ~x.failed
    BY <2>1, <2>2 DEF Local, Placed, Tools
  <2>7. Placed(y, proc[r])  BY <2>5, <2>6 DEF Placed, Tools
  <2>8. Filed(y, Files(r))  BY <2>1, <2>2, <2>5 DEF Filed, Local
  <2>9. Piped(y, proc[r], Files(r))  BY <2>1, <2>6 DEF Piped, Loaded, Local
  <2>10. Local(y, proc[r], Files(r))
    BY <2>1, <2>5, <2>6, <2>7, <2>8, <2>9 DEF Local
  <2> QED  BY <1>3, <2>3, <2>4, <2>10, QuietStep DEF WrongFormat
<1> QED  BY <1>1, <1>2, <1>3 DEF Arrive

LEMMA RefuseServed ==
    ASSUME Served, NEW r \in Requests, Refuse(r)
    PROVE  Served'
<1>1. Local(req[r], proc[r], Files(r))  BY ServedOne
<1>2. req[r].at = "write"  BY DEF Refuse, At
<1>3. req[r].kind # "none" /\ proc[r].state = "none"
  BY <1>1, <1>2 DEF Local, Placed, Tools
<1> QED  BY <1>3, EndsServed DEF Refuse

\* One file of the request is written.
LEMMA FileStep ==
    ASSUME Served, NEW r \in Requests, NEW x, NEW p, NEW e \in Extensions,
           NEW c, Local(x, p, [Files(r) EXCEPT ![e] = c]),
           req' = [req EXCEPT ![r] = x],
           proc' = [proc EXCEPT ![r] = p],
           disk' = [disk EXCEPT ![<<r, e>>] = c]
    PROVE  Served'
<1> DEFINE d == [Files(r) EXCEPT ![e] = c]
<1>1. \A f \in Requests \X Extensions :
         f[1] = r => f = <<r, f[2]>> /\ f[2] \in Extensions
  OBVIOUS
<1>2. \A n \in Extensions : d[n] = IF n = e THEN c ELSE disk[<<r, n>>]
  BY DEF Files
<1> HIDE DEF d
<1>3. \A f \in Requests \X Extensions :
         disk'[f] = IF f[1] = r THEN d[f[2]] ELSE disk[f]
  <2> TAKE f \in Requests \X Extensions
  <2>1. CASE f[1] # r
    <3>1. f # <<r, e>>  BY <2>1
    <3> QED  BY <2>1, <3>1 DEF Served
  <2>2. CASE f[1] = r /\ f[2] = e
    <3>1. f = <<r, e>>  BY <1>1, <2>2
    <3>2. disk'[f] = c  BY <3>1 DEF Served
    <3> QED  BY <1>2, <2>2, <3>2
  <2>3. CASE f[1] = r /\ f[2] # e
    <3>1. f = <<r, f[2]>> /\ f # <<r, e>>  BY <1>1, <2>3
    <3>2. disk'[f] = disk[f]  BY <3>1 DEF Served
    <3> QED  BY <1>1, <1>2, <2>3, <3>1, <3>2
  <2> QED  BY <2>1, <2>2, <2>3
<1>4. disk' = [f \in Requests \X Extensions |-> disk'[f]]  BY DEF Served
<1>5. disk' = [f \in Requests \X Extensions |->
                 IF f[1] = r THEN d[f[2]] ELSE disk[f]]
  BY <1>3, <1>4
<1> QED  BY <1>5, OwnStep DEF d

\* A file holds what was to be written, a part of it, or is not there.
LEMMA WrittenParts ==
    /\ \A content \in Whole : Prefixes(content) \subseteq Texts
    /\ \A content \in Bytes : Prefixes(content) \subseteq Bytes
<1>1. \A content \in Whole : Prefixes(content) \subseteq Texts  BY DEF Texts
<1>2. ASSUME NEW content \in Bytes, NEW l \in 0 .. Len(content)
      PROVE  SubSeq(content, 1, l) \in Bytes
  <2>1. \A i \in 1 .. l : content[i] \in Byte  BY DEF Bytes
  <2>2. SubSeq(content, 1, l) = [i \in 1 .. l |-> content[i]]  BY DEF Bytes
  <2>3. [i \in 1 .. l |-> content[i]] \in Seq(Byte)  BY <2>1
  <2> QED  BY <2>2, <2>3 DEF Bytes
<1> QED  BY <1>1, <1>2 DEF Prefixes

LEMMA WriteServed ==
    ASSUME Served, NEW r \in Requests, Write(r)
    PROVE  Served'
<1> DEFINE x == req[r]
           p == proc[r]
           d == Files(r)
           content == IF x.kind = "compile" THEN x.text
                      ELSE FromHexSentence(x.text)
<1>1. Local(x, p, d) /\ x \in Request /\ d \in Directory  BY ServedOne
<1>2. x.at = "write"  BY DEF Write, At
<1>3. /\ p.state = "none" /\ x.kind \in {"compile", "run", "maintain"}
      /\ x.text \in (IF x.kind = "compile" THEN Whole ELSE Sentence)
      /\ ~x.stored /\ ~x.failed /\ x.result = Absent
  BY <1>1, <1>2 DEF Local, Placed, Tools, Request
<1>4. \A e \in Extensions : d[e] = Absent  BY <1>1, <1>2 DEF Local, Filed
<1>5. PICK written \in {Absent} \cup Prefixes(content) :
         /\ disk' = [disk EXCEPT ![<<r, Source(r)>>] = written]
         /\ IF x.kind = "maintain" THEN Ends(r, "done", Absent)
            ELSE req' = [req EXCEPT ![r].at = FirstStage(r),
                                    ![r].stored = written = content]
  BY DEF Write, FileId
<1>6. proc' = [proc EXCEPT ![r] = proc[r]]  BY DEF Write, Served
<1>7. IF x.kind = "compile"
      THEN content = x.text /\ content \in Texts /\ content # Absent
      ELSE /\ Decodes(x.text) /\ content = FromHexSentence(x.text)
           /\ content \in Bytes /\ content # Absent
  BY <1>3, SentenceKept, OneShotAssumption DEF Write, Bytes, Sentence
<1>8. written \in {Absent} \cup (IF x.kind = "compile" THEN Texts ELSE Bytes)
  BY <1>3, <1>7, WrittenParts
<1> HIDE DEF content
<1>9. Source(r) = (IF x.kind = "compile" THEN "c" ELSE "")
  BY DEF Source
<1> DEFINE s == Source(r)
           d2 == [d EXCEPT ![s] = written]
<1>10. s \in Extensions  BY <1>9 DEF Extensions
<1>11. /\ d2 \in Directory /\ d2[s] = written
       /\ \A e \in Extensions \ {s} : d2[e] = Absent
  BY <1>1, <1>4, <1>8, <1>10 DEF Directory
<1>12. CASE x.kind = "maintain"
  <2>1. req' = [req EXCEPT ![r] = Over(x, "done", Absent)]
    BY <1>5, <1>12, EndsOver
  <2> DEFINE y == Over(x, "done", Absent)
  <2>3. /\ y \in Request /\ y.at = "done" /\ y.kind = "maintain"
        /\ ~y.stored /\ ~y.failed /\ y.result = Absent
    BY <1>1, <1>12 DEF Over, Request, Stages
  <2> HIDE DEF y, s, d2
  <2>4. s = ""  BY <1>9, <1>12 DEF s
  <2>5. Placed(y, p)  BY <1>3, <2>3 DEF Placed, Tools
  <2>6. Filed(y, d2)
    BY <1>8, <1>11, <1>12, <2>3, <2>4 DEF Filed, Extensions
  <2>7. Piped(y, p, d2)  BY <1>1, <1>3 DEF Piped, Loaded, Local
  <2>8. Local(y, p, d2)
    BY <1>1, <1>11, <2>3, <2>5, <2>6, <2>7 DEF Local
  <2>9. req' = [req EXCEPT ![r] = y]  BY <2>1 DEF y
  <2> QED  BY <1>5, <1>6, <1>10, <2>8, <2>9, FileStep DEF s, d2
<1>13. CASE x.kind # "maintain"
  <2> DEFINE y == [x EXCEPT !.at = FirstStage(r), !.stored = written = content]
  <2>1. req' = [req EXCEPT ![r] = y]  BY <1>5, <1>13 DEF Served
  <2>2. /\ y \in Request /\ y.kind = x.kind /\ y.text = x.text
        /\ y.at = (IF x.kind = "compile" THEN "clang" ELSE "rbvm")
        /\ y.stored = (written = content)
        /\ y.failed = x.failed /\ y.result = x.result
    BY <1>1 DEF Request, Stages, FirstStage, Tools
  <2> HIDE DEF y, s, d2
  <2>4. s = (IF x.kind = "compile" THEN "c" ELSE "")  BY <1>9 DEF s
  <2>5. Placed(y, p)  BY <1>3, <1>13, <2>2 DEF Placed, Tools
  <2>6. Filed(y, d2)
    <3>1. y.at \notin {"idle", "write", "done"}  BY <2>2
    <3>2. CASE x.kind = "compile"
      BY <1>8, <1>11, <2>2, <2>4, <3>1, <3>2 DEF Filed, Extensions
    <3>3. CASE x.kind # "compile"
      BY <1>8, <1>11, <2>2, <2>4, <3>1, <3>3 DEF Filed, Extensions
    <3> QED  BY <3>2, <3>3
  <2>7. Piped(y, p, d2)  BY <1>1, <1>3 DEF Piped, Loaded, Local
  <2>8. y.stored => Staged(y, p, d2)
    BY <1>3, <1>7, <1>11, <1>13, <2>2, <2>4 DEF Staged, Ended, Extensions
  <2>9. Local(y, p, d2)
    BY <1>1, <1>11, <2>2, <2>5, <2>6, <2>7, <2>8 DEF Local
  <2> QED  BY <1>5, <1>6, <1>10, <2>1, <2>9, FileStep DEF s, d2
<1> QED  BY <1>12, <1>13

LEMMA LaunchFailsServed ==
    ASSUME Served, NEW r \in Requests, LaunchFails(r)
    PROVE  Served'
<1>1. Local(req[r], proc[r], Files(r))  BY ServedOne
<1>2. req[r].kind # "none" /\ proc[r].state = "none"
  BY <1>1 DEF LaunchFails, Local, Placed, Tools
<1> QED  BY <1>2, EndsServed DEF LaunchFails

\* A process starts with nothing read.
LEMMA LaunchServed ==
    ASSUME Served, NEW r \in Requests, Launch(r)
    PROVE  Served'
<1> DEFINE x == req[r]
           d == Files(r)
           q == [proc[r] EXCEPT !.state = "started"]
<1>1. Local(x, proc[r], d) /\ proc[r] \in Process  BY ServedOne
<1>2. x.at \in Tools /\ proc[r].state = "none"  BY DEF Launch
<1>3. /\ proc' = [proc EXCEPT ![r] = q]
      /\ req' = [req EXCEPT ![r] = x] /\ disk' = disk
  BY DEF Launch, Served
<1>4. /\ q \in Process /\ q.state = "started"
      /\ q.said = proc[r].said /\ q.pipe = proc[r].pipe
  BY <1>1 DEF Process
<1> HIDE DEF q, x, d
<1>5. Placed(x, q)  BY <1>1, <1>2 DEF Local, Placed
<1>6. Piped(x, q, d)  BY <1>1, <1>4 DEF Local, Piped, Loaded
<1>7. x.stored => Staged(x, q, d)
  BY <1>1, <1>2, <1>4 DEF Local, Staged, Ended
<1>8. Local(x, q, d)  BY <1>1, <1>4, <1>5, <1>6, <1>7 DEF Local
<1> QED  BY <1>3, <1>8, QuietStep DEF d

\* The thread takes what was printed and goes on to the next program.
LEMMA JoinServed ==
    ASSUME Served, NEW r \in Requests, Join(r)
    PROVE  Served'
<1> DEFINE x == req[r]
           p == proc[r]
           d == Files(r)
<1>1. Local(x, p, d) /\ x \in Request /\ p \in Process  BY ServedOne
<1>2. x.at \in Tools /\ p.state = "read"  BY DEF Join, Joined
<1>3. proc' = [proc EXCEPT ![r] = NoProc] /\ disk' = disk  BY DEF Join
<1>4. ASSUME NEW y, Placed(y, NoProc), Filed(y, d), y \in Request,
             y.stored => Staged(y, NoProc, d)
      PROVE  Local(y, NoProc, d)
  <2>1. Piped(y, NoProc, d)  BY NoProcess DEF Piped, Loaded
  <2> QED  BY <1>1, <1>4, <2>1, NoProcess DEF Local
<1>5. x.kind \in {"compile", "run"}
  BY <1>1, <1>2 DEF Local, Placed, Tools
<1>6. CASE Ends(r, "error", Absent)
  <2> DEFINE y == Over(x, "error", Absent)
  <2>1. req' = [req EXCEPT ![r] = y]  BY <1>6, EndsOver
  <2>2. /\ y \in Request /\ y.at = "error" /\ y.kind = x.kind
        /\ ~y.stored /\ ~y.failed /\ y.result = Absent
    BY <1>1 DEF Over, Request, Stages
  <2> HIDE DEF y
  <2>3. Placed(y, NoProc)  BY <2>2, NoProcess DEF Placed, Tools
  <2>4. Filed(y, d)  BY <1>1, <2>2 DEF Filed, Local
  <2>5. Local(y, NoProc, d)  BY <1>4, <2>2, <2>3, <2>4
  <2> QED  BY <1>3, <2>1, <2>5, QuietStep DEF d
<1>7. CASE req' = [req EXCEPT
                ![r].at = Following[@],
                ![r].failed = @ \/ (~p.ok /\ x.at # "da")]
  <2> DEFINE y == [x EXCEPT !.at = Following[x.at],
                            !.failed = x.failed \/ (~p.ok /\ x.at # "da")]
  <2>1. req' = [req EXCEPT ![r] = y]  BY <1>7 DEF Served
  <2>2. /\ x.at = "clang" => Following[x.at] = "llvm-rbvm"
        /\ x.at = "llvm-rbvm" => Following[x.at] = "da"
        /\ x.at = "da" => Following[x.at] = "result"
        /\ x.at = "rbvm" => Following[x.at] = "clean"
    BY DEF Following, Tools
  <2>3. Following[x.at] \in Stages  BY <1>2, <2>2 DEF Stages, Tools
  <2>4. p.ok \in BOOLEAN /\ x.failed \in BOOLEAN
    BY <1>1 DEF Process, Request
  <2>5. /\ y \in Request /\ y.at = Following[x.at] /\ y.kind = x.kind
        /\ y.text = x.text /\ y.stored = x.stored /\ y.result = x.result
        /\ y.failed = (x.failed \/ (~p.ok /\ x.at # "da"))
    BY <1>1, <2>3, <2>4 DEF Request
  <2> HIDE DEF y
  <2>6. /\ x.result = Absent
        /\ x.text \in IF x.kind = "compile" THEN Whole ELSE Sentence
    BY <1>1, <1>2 DEF Local, Placed, Tools
  <2>7. Placed(y, NoProc)
    <3>1. x.at \in {"clang", "llvm-rbvm", "da"} => x.kind = "compile"
      BY <1>1 DEF Local, Placed
    <3> QED  BY <1>2, <1>5, <2>2, <2>5, <2>6, <3>1, NoProcess DEF Placed, Tools
  <2>8. Filed(y, d)
    <3>1. y.at \notin {"idle", "write", "done"}  BY <1>2, <2>2, <2>5 DEF Tools
    <3> QED  BY <1>1, <2>5, <3>1 DEF Local, Filed
  <2>9. ASSUME y.stored
        PROVE  Staged(y, NoProc, d)
    <3>1. Staged(x, p, d)  BY <1>1, <2>5, <2>9 DEF Local
    <3>2. Ended(p) /\ ~Ended(NoProc)  BY <1>2, NoProcess DEF Ended
    <3>3. Piped(x, p, d)  BY <1>1 DEF Local
    <3>4. p.ok => d[InputOf[x.at]] # Absent
      BY <1>2, <3>3 DEF Piped, Loaded
    <3>5. InputOf["llvm-rbvm"] = "ll"  BY DEF InputOf, Tools
    <3>6. CASE x.at = "clang"
      BY <2>2, <2>4, <2>5, <3>1, <3>2, <3>6 DEF Staged
    <3>7. CASE x.at = "llvm-rbvm"
      BY <2>2, <2>4, <2>5, <3>1, <3>2, <3>4, <3>5, <3>7 DEF Staged
    <3>8. CASE x.at = "da"
      BY <2>2, <2>4, <2>5, <3>1, <3>8 DEF Staged
    <3>9. CASE x.at = "rbvm"
      BY <2>2, <2>5, <2>6, <3>9 DEF Staged
    <3> QED  BY <1>2, <3>6, <3>7, <3>8, <3>9 DEF Tools
  <2>10. Local(y, NoProc, d)  BY <1>4, <2>5, <2>7, <2>8, <2>9
  <2> QED  BY <1>3, <2>1, <2>10, QuietStep DEF d
<1> QED  BY <1>6, <1>7 DEF Join, tool

LEMMA ReadResultServed ==
    ASSUME Served, NEW r \in Requests, ReadResult(r)
    PROVE  Served'
<1> DEFINE x == req[r]
           p == proc[r]
           d == Files(r)
           bytes == d["rbvm"]
           answer == IF bytes = Absent THEN Absent ELSE ToHexSentence(bytes)
           y == [x EXCEPT !.at = "clean", !.result = answer]
<1>1. Local(x, p, d) /\ x \in Request  BY ServedOne
<1>2. x.at = "result"  BY DEF ReadResult, At
<1>3. disk[<<r, "rbvm">>] = bytes  BY DEF Files, Extensions
<1>4. req' = [req EXCEPT ![r] = y]
  BY <1>3 DEF ReadResult, FileId, Served
<1>5. proc' = [proc EXCEPT ![r] = p] /\ disk' = disk
  BY DEF ReadResult, Served
<1>6. bytes \in {Absent} \cup Bytes  BY <1>1 DEF Local, Filed
<1>7. answer \in {Absent} \cup Sentence
  BY <1>6, BytesKept DEF Bytes, Sentence
<1> HIDE DEF d, x
<1>8. /\ y \in Request /\ y.at = "clean" /\ y.kind = x.kind
      /\ y.text = x.text /\ y.stored = x.stored /\ y.result = answer
      /\ y.failed = x.failed
  BY <1>1, <1>7 DEF Request, Stages
<1> HIDE DEF y
<1>9. p.state = "none" /\ x.kind = "compile" /\ x.text \in Whole
  BY <1>1, <1>2 DEF Local, Placed, Tools
<1>10. Placed(y, p)  BY <1>8, <1>9 DEF Placed, Tools
<1>11. Filed(y, d)  BY <1>1, <1>8 DEF Local, Filed
<1>12. Piped(y, p, d)  BY <1>1, <1>9 DEF Local, Piped, Loaded
<1>13. y.stored => Staged(y, p, d)
  BY <1>1, <1>2, <1>8 DEF Local, Staged
<1>14. Local(y, p, d)
  BY <1>1, <1>8, <1>10, <1>11, <1>12, <1>13 DEF Local
<1> QED  BY <1>4, <1>5, <1>14, QuietStep DEF d

\* A run has no files but the one that is removed, a compilation removes all.
LEMMA CleanUpServed ==
    ASSUME Served, NEW r \in Requests, CleanUp(r)
    PROVE  Served'
<1> DEFINE x == req[r]
           p == proc[r]
           d == Files(r)
           d2 == [e \in Extensions |->
                    IF e \in Temporary(x.kind) THEN Absent ELSE d[e]]
           y == Over(x, "done", x.result)
<1>1. Local(x, p, d) /\ x \in Request /\ d \in Directory  BY ServedOne
<1>2. x.at = "clean"  BY DEF CleanUp, At
<1>3. x.kind \in {"compile", "run"} /\ p.state = "none"
  BY <1>1, <1>2 DEF Local, Placed, Tools
<1>4. \A e \in Extensions : d2[e] = Absent
  BY <1>1, <1>3 DEF Temporary, Local, Filed, Extensions
<1>5. d2 \in Directory  BY <1>1 DEF Directory
<1>6. disk' = [f \in Requests \X Extensions |->
                 IF f[1] = r THEN d2[f[2]] ELSE disk[f]]
  <2>1. disk' = [f \in Requests \X Extensions |->
                   IF f[1] = r /\ f[2] \in Temporary(x.kind)
                   THEN Absent ELSE disk[f]]
    BY DEF CleanUp, FileId, Served
  <2>2. \A f \in Requests \X Extensions :
           f[1] = r => f = <<r, f[2]>> /\ f[2] \in Extensions
    OBVIOUS
  <2>3. \A f \in Requests \X Extensions :
           f[1] = r => d2[f[2]] = IF f[2] \in Temporary(x.kind)
                                  THEN Absent ELSE disk[f]
    BY <2>2 DEF Files
  <2> HIDE DEF d2
  <2> QED  BY <2>1, <2>3
<1>7. req' = [req EXCEPT ![r] = y]  BY EndsOver DEF CleanUp
<1>8. proc' = [proc EXCEPT ![r] = p]  BY DEF CleanUp, Served
<1>9. /\ y \in Request /\ y.at = "done" /\ y.kind = x.kind
      /\ ~y.stored /\ ~y.failed
  BY <1>1 DEF Over, Request, Stages
<1> HIDE DEF y, d2
<1>10. Placed(y, p)  BY <1>3, <1>9 DEF Placed, Tools
<1>11. Filed(y, d2)  BY <1>4, <1>9 DEF Filed, Extensions
<1>12. Piped(y, p, d2)  BY <1>1, <1>3 DEF Local, Piped, Loaded
<1>13. Local(y, p, d2)
  BY <1>1, <1>5, <1>9, <1>10, <1>11, <1>12 DEF Local
<1> QED  BY <1>6, <1>7, <1>8, <1>13, OwnStep

-----------------------------------------------------------------------------
(* The programs and the thread that reaps them *)

\* A step of the process that leaves its thread and the files alone.
LEMMA ProcessStep ==
    ASSUME Served, NEW r \in Requests, NEW q \in Process,
           proc[r].state # "none",
           Piped(req[r], q, Files(r)),
           \/ Ended(q) /\ Ended(proc[r]) /\ q.ok = proc[r].ok
           \/ ~Ended(q) /\ ~Ended(proc[r]),
           proc' = [proc EXCEPT ![r] = q],
           UNCHANGED <<disk, req>>
    PROVE  Served'
<1> DEFINE x == req[r]
           p == proc[r]
           d == Files(r)
<1>1. Local(x, p, d)  BY ServedOne
<1>2. x.at \in Tools  BY <1>1 DEF Local, Placed
<1>3. Placed(x, q)  BY <1>1, <1>2 DEF Local, Placed
<1>4. x.stored => Staged(x, q, d)  BY <1>1 DEF Local, Staged
<1>5. Local(x, q, d)  BY <1>1, <1>3, <1>4 DEF Local
<1>6. req' = [req EXCEPT ![r] = x] /\ disk' = disk  BY DEF Served
<1> QED  BY <1>5, <1>6, QuietStep

LEMMA LoadServed ==
    ASSUME Served, NEW r \in Requests, Load(r)
    PROVE  Served'
<1> DEFINE x == req[r]
           p == proc[r]
           d == Files(r)
           file == d[InputOf[x.at]]
<1>1. Local(x, p, d) /\ p \in Process  BY ServedOne
<1>2. p.state = "started" /\ x.at \in Tools
  BY <1>1 DEF Load, Local, Placed
<1>3. InputOf[x.at] \in Extensions
  BY <1>2 DEF InputOf, Tools, Extensions
<1>4. file \in {Absent} \cup Texts \cup Bytes
  BY <1>1, <1>3 DEF Local, Directory
<1>5. disk[<<r, InputOf[x.at]>>] = file  BY <1>3 DEF Files
<1>6. PICK ok \in BOOLEAN, script \in Scripts \cup {<<"err">>} :
         /\ file = Absent => ~ok
         /\ proc' = [proc EXCEPT ![r].state = "running", ![r].todo = script,
                                 ![r].input = file, ![r].ok = ok]
  BY <1>5 DEF Load, FileId, tool
<1> DEFINE q == [p EXCEPT !.state = "running", !.todo = script,
                          !.input = file, !.ok = ok]
<1>7. proc' = [proc EXCEPT ![r] = q]  BY <1>6 DEF Served
<1>8. script \in Seq({"out", "err", "in", "loop"})
  <2>1. <<"err">> \in Seq({"out", "err", "in", "loop"})  OBVIOUS
  <2> QED  BY <2>1, OneShotAssumption
<1> HIDE DEF file
<1>9. /\ q \in Process /\ q.state = "running" /\ q.input = file
      /\ q.ok = ok /\ q.said = p.said /\ q.pipe = p.pipe
  BY <1>1, <1>4, <1>8 DEF Process
<1> HIDE DEF q
<1>10. Piped(x, q, d)  BY <1>1, <1>6, <1>9 DEF Local, Piped, Loaded, file
<1>11. ~Ended(q) /\ ~Ended(p)  BY <1>2, <1>9 DEF Ended
<1> QED  BY <1>2, <1>7, <1>9, <1>10, <1>11, ProcessStep DEF Load

LEMMA PrintsServed ==
    ASSUME Served, NEW r \in Requests, Prints(r)
    PROVE  Served'
<1> DEFINE x == req[r]
           p == proc[r]
           d == Files(r)
<1>1. Local(x, p, d) /\ p \in Process  BY ServedOne
<1>2. p.state = "running" /\ p.todo # <<>>  BY DEF Prints
<1>3. PICK stream \in Streams :
         /\ p.pipe[stream] < PipeSize
         /\ proc' = [proc EXCEPT ![r].todo = Tail(@),
                                 ![r].said[stream] = @ + 1,
                                 ![r].pipe[stream] = @ + 1]
  BY DEF Prints, PipeOf, Streams
<1> DEFINE said == [p.said EXCEPT ![stream] = @ + 1]
           pipe == [p.pipe EXCEPT ![stream] = @ + 1]
           q == [p EXCEPT !.todo = Tail(@), !.said = said, !.pipe = pipe]
<1>4. proc' = [proc EXCEPT ![r] = q]  BY <1>3 DEF Served
<1>5. p.said = p.pipe /\ p.pipe \in [Streams -> Count]
  BY <1>1 DEF Local, Piped, Process
<1>6. said = pipe  BY <1>5
<1>7. pipe \in [Streams -> Count]
  <2>1. p.pipe[stream] \in Count  BY <1>5
  <2>2. p.pipe[stream] + 1 \in Count
    BY <1>3, <2>1, OneShotAssumption DEF Count
  <2> HIDE DEF Count
  <2> QED  BY <1>5, <2>2
<1>8. Tail(p.todo) \in Seq({"out", "err", "in", "loop"})
  BY <1>1, <1>2 DEF Process
<1> HIDE DEF said, pipe
<1>9. /\ q \in Process /\ q.state = "running" /\ q.said = said
      /\ q.pipe = pipe /\ q.input = p.input /\ q.ok = p.ok
  BY <1>1, <1>2, <1>6, <1>7, <1>8 DEF Process
<1> HIDE DEF q
<1>10. Piped(x, q, d)  BY <1>1, <1>2, <1>6, <1>9 DEF Local, Piped, Loaded
<1>11. ~Ended(q) /\ ~Ended(p)  BY <1>2, <1>9 DEF Ended
<1> QED  BY <1>2, <1>4, <1>9, <1>10, <1>11, ProcessStep DEF Prints

\* Only a program that succeeded leaves a file.
LEMMA ExitServed ==
    ASSUME Served, NEW r \in Requests, Exit(r)
    PROVE  Served'
<1> DEFINE x == req[r]
           p == proc[r]
           d == Files(r)
           q == [p EXCEPT !.state = "exited"]
<1>1. Local(x, p, d) /\ p \in Process /\ d \in Directory  BY ServedOne
<1>2. p.state = "running" /\ x.at \in Tools
  BY <1>1 DEF Exit, Local, Placed
<1>3. proc' = [proc EXCEPT ![r] = q] /\ req' = [req EXCEPT ![r] = x]
  BY DEF Exit, Served
<1>4. /\ q \in Process /\ q.state = "exited" /\ q.ok = p.ok
      /\ q.input = p.input /\ q.said = p.said /\ q.pipe = p.pipe
  BY <1>1 DEF Process
<1>5. p.input = d[InputOf[x.at]] /\ (p.ok => p.input # Absent)
  BY <1>1, <1>2 DEF Local, Piped, Loaded
<1>6. x \in Request  BY <1>1 DEF Local
<1> HIDE DEF q
<1>7. Placed(x, q)  BY <1>1, <1>2 DEF Local, Placed
<1>8. ASSUME NEW d2 \in Directory, Filed(x, d2),
             d2[InputOf[x.at]] = d[InputOf[x.at]],
             x.stored => Staged(x, q, d2)
      PROVE  Local(x, q, d2)
  <2>1. Piped(x, q, d2)
    BY <1>1, <1>2, <1>4, <1>5, <1>8 DEF Local, Piped, Loaded
  <2> QED  BY <1>4, <1>6, <1>7, <1>8, <2>1 DEF Local
<1>9. ASSUME NEW e \in {"ll", "rbvm"}, NEW c,
             c \in IF e = "ll" THEN Texts ELSE Bytes,
             x.at = IF e = "ll" THEN "clang" ELSE "llvm-rbvm",
             disk' = [disk EXCEPT ![<<r, e>>] = c],
             x.stored => Staged(x, q, [d EXCEPT ![e] = c])
      PROVE  Served'
  <2> DEFINE d2 == [d EXCEPT ![e] = c]
  <2>1. e \in Extensions /\ d2 \in Directory  BY <1>1, <1>9 DEF Directory, Extensions
  <2>2. d2[e] = c /\ \A n \in Extensions \ {e} : d2[n] = d[n]
    BY <1>1, <2>1 DEF Directory
  <2>3. InputOf[x.at] \in Extensions \ {e}
    BY <1>9 DEF InputOf, Tools, Extensions
  <2> HIDE DEF d2, d
  <2>4. x.kind = "compile"  BY <1>1, <1>9 DEF Local, Placed
  <2>5. Filed(x, d2)
    BY <1>1, <1>9, <2>2, <2>4 DEF Local, Filed, Extensions
  <2>6. Local(x, q, d2)  BY <1>8, <1>9, <2>1, <2>2, <2>3, <2>5 DEF d2
  <2> QED  BY <1>3, <1>9, <2>1, <2>6, FileStep DEF d2, d
<1>10. CASE p.ok /\ x.at = "clang"
  <2>1. p.input \in Texts
    BY <1>1, <1>5, <1>10 DEF InputOf, Tools, Local, Filed
  <2>2. disk' = [disk EXCEPT ![<<r, "ll">>] = p.input]
    BY <1>10 DEF Exit, FileId, tool
  <2>3. x.stored => Staged(x, q, [d EXCEPT !["ll"] = p.input])
    <3> DEFINE d2 == [d EXCEPT !["ll"] = p.input]
    <3>1. /\ d2["ll"] = p.input /\ d2["c"] = d["c"]
          /\ d2["rbvm"] = d["rbvm"]
      BY <1>1 DEF Directory, Extensions
    <3>2. p.input = d["c"]  BY <1>5, <1>10 DEF InputOf, Tools
    <3> HIDE DEF d2, d
    <3> QED
      <4> SUFFICES ASSUME x.stored PROVE Staged(x, q, d2)  BY DEF d2
      <4> QED
      BY <1>1, <1>4, <1>10, <3>1, <3>2 DEF Local, Staged, Ended
  <2> QED  BY <1>9, <1>10, <2>1, <2>2, <2>3
<1>11. CASE p.ok /\ x.at = "llvm-rbvm"
  <2>1. p.input \in Texts
    BY <1>1, <1>5, <1>11 DEF InputOf, Tools, Local, Filed
  <2>2. Compiled[p.input] \in Bytes  BY <2>1, OneShotAssumption DEF Bytes
  <2>3. disk' = [disk EXCEPT ![<<r, "rbvm">>] = Compiled[p.input]]
    BY <1>11 DEF Exit, FileId, tool
  <2>4. x.stored => Staged(x, q, [d EXCEPT !["rbvm"] = Compiled[p.input]])
    <3> DEFINE d2 == [d EXCEPT !["rbvm"] = Compiled[p.input]]
    <3>1. d2["rbvm"] = Compiled[p.input] /\ d2["ll"] = d["ll"]
      BY <1>1 DEF Directory, Extensions
    <3>2. p.input = d["ll"] /\ d["ll"] # Absent
      BY <1>5, <1>11 DEF InputOf, Tools
    <3> HIDE DEF d2, d
    <3> QED
      <4> SUFFICES ASSUME x.stored PROVE Staged(x, q, d2)  BY DEF d2
      <4> QED
      BY <1>1, <1>4, <1>11, <3>1, <3>2 DEF Local, Staged, Ended
  <2> QED  BY <1>9, <1>11, <2>2, <2>3, <2>4
<1>12. CASE ~p.ok \/ x.at \notin {"clang", "llvm-rbvm"}
  <2>1. disk' = disk  BY <1>12 DEF Exit, tool
  <2>2. x.stored => Staged(x, q, d)
    BY <1>1, <1>2, <1>4, <1>12 DEF Local, Staged, Ended
  <2>3. Local(x, q, d)  BY <1>1, <1>8, <2>2 DEF Local
  <2> QED  BY <1>3, <2>1, <2>3, QuietStep
<1> QED  BY <1>10, <1>11, <1>12

LEMMA ReapServed ==
    ASSUME Served, NEW r \in Requests, Reap(r)
    PROVE  Served'
<1> DEFINE x == req[r]
           p == proc[r]
           d == Files(r)
<1>1. Local(x, p, d) /\ p \in Process  BY ServedOne
<1>2. p.pipe["err"] \in Count /\ p.pipe["out"] \in Count
  BY <1>1 DEF Process, Streams
<1>3. ASSUME ReadErrors(r)
      PROVE  Served'
  <2> DEFINE q == [p EXCEPT !.state = "reading", !.stderr = p.pipe["err"]]
  <2>1. proc' = [proc EXCEPT ![r] = q]  BY <1>3 DEF ReadErrors, Served
  <2>2. /\ q \in Process /\ q.state = "reading" /\ q.stderr = p.pipe["err"]
        /\ q.ok = p.ok /\ q.input = p.input /\ q.said = p.said
        /\ q.pipe = p.pipe
    BY <1>1, <1>2 DEF Process
  <2>3. p.state = "exited"  BY <1>3 DEF ReadErrors
  <2> HIDE DEF q
  <2>4. Piped(x, q, d)  BY <1>1, <2>2, <2>3 DEF Local, Piped, Loaded
  <2>5. Ended(q) /\ Ended(p)  BY <2>2, <2>3 DEF Ended
  <2> QED  BY <1>3, <2>1, <2>2, <2>3, <2>4, <2>5, ProcessStep DEF ReadErrors
<1>4. ASSUME ReadOutput(r)
      PROVE  Served'
  <2> DEFINE q == [p EXCEPT !.state = "read", !.stdout = p.pipe["out"]]
  <2>1. proc' = [proc EXCEPT ![r] = q]  BY <1>4 DEF ReadOutput, Served
  <2>2. /\ q \in Process /\ q.state = "read" /\ q.stdout = p.pipe["out"]
        /\ q.stderr = p.stderr /\ q.ok = p.ok /\ q.input = p.input
        /\ q.said = p.said /\ q.pipe = p.pipe
    BY <1>1, <1>2 DEF Process
  <2>3. p.state = "reading"  BY <1>4 DEF ReadOutput
  <2> HIDE DEF q
  <2>4. Piped(x, q, d)  BY <1>1, <2>2, <2>3 DEF Local, Piped, Loaded
  <2>5. Ended(q) /\ Ended(p)  BY <2>2, <2>3 DEF Ended
  <2> QED  BY <1>4, <2>1, <2>2, <2>3, <2>4, <2>5, ProcessStep DEF ReadOutput
<1> QED  BY <1>3, <1>4 DEF Reap

-----------------------------------------------------------------------------
(* The invariant *)

LEMMA ServedInit == Init => Served
<1> SUFFICES ASSUME Init PROVE Served  OBVIOUS
<1> DEFINE x == [at |-> "idle", kind |-> "none", text |-> <<>>,
                 stored |-> FALSE, failed |-> FALSE, result |-> Absent]
<1>1. req = [r \in Requests |-> x] /\ proc = [r \in Requests |-> NoProc]
  BY DEF Init
<1>2. /\ x \in Request /\ x.at = "idle" /\ x.kind = "none"
      /\ ~x.stored /\ ~x.failed /\ x.result = Absent
  BY DEF Request, Stages
<1>3. disk = [f \in Requests \X Extensions |-> Absent]  BY DEF Init
<1> HIDE DEF x
<1>4. ASSUME NEW r \in Requests
      PROVE  Local(req[r], proc[r], Files(r))
  <2>1. req[r] = x /\ proc[r] = NoProc  BY <1>1
  <2>2. Files(r) = [e \in Extensions |-> Absent]  BY <1>3 DEF Files
  <2>3. Files(r) \in Directory  BY <2>2 DEF Directory
  <2>4. Placed(x, NoProc)  BY <1>2, NoProcess DEF Placed, Tools
  <2>5. Filed(x, Files(r))  BY <2>2 DEF Filed, Extensions
  <2>6. Piped(x, NoProc, Files(r))  BY NoProcess DEF Piped, Loaded
  <2> QED  BY <1>2, <2>1, <2>3, <2>4, <2>5, <2>6, NoProcess DEF Local
<1> QED  BY <1>1, <1>2, <1>3, <1>4, NoProcess DEF Served

LEMMA NextServed == Served /\ [Next]_vars => Served'
<1> SUFFICES ASSUME Served, [Next]_vars PROVE Served'  OBVIOUS
<1>1. CASE UNCHANGED vars  BY <1>1 DEF vars, Served, Files
<1>2. ASSUME NEW r \in Requests, Arrive(r) \/ Thread(r) \/ Program(r) \/ Reap(r)
      PROVE  Served'
  <2>1. CASE Arrive(r)  BY <2>1, ArriveServed
  <2>2. CASE Thread(r)
    BY <2>2, RefuseServed, WriteServed, LaunchServed, LaunchFailsServed,
       JoinServed, ReadResultServed, CleanUpServed DEF Thread
  <2>3. CASE Program(r)
    BY <2>3, LoadServed, PrintsServed, ExitServed DEF Program
  <2>4. CASE Reap(r)  BY <2>4, ReapServed
  <2> QED  BY <1>2, <2>1, <2>2, <2>3, <2>4
<1> QED  BY <1>1, <1>2 DEF Next

LEMMA SpecServed == Spec => []Served
<1> QED  BY ServedInit, NextServed, PTL DEF Spec

-----------------------------------------------------------------------------
(* What it says *)

\* However many requests share the disk, each file is text or bytes as its
\* extension says, and a process runs only while its thread waits for it.
THEOREM TypeCorrect == Spec => []TypeOK
<1>1. Served => TypeOK
  <2> SUFFICES ASSUME Served PROVE TypeOK  OBVIOUS
  <2>1. ASSUME NEW r \in Requests, NEW e \in Extensions
        PROVE  disk[r, e] \in {Absent} \cup (IF e \in {"c", "ll"} THEN Texts
                                             ELSE Seq(Byte))
    <3>1. disk[r, e] = Files(r)[e]  BY DiskEntry
    <3>2. Filed(req[r], Files(r))  BY DEF Served, Local
    <3> QED  BY <3>1, <3>2 DEF Filed, Extensions, Bytes
  <2>2. ASSUME NEW r \in Requests
        PROVE  /\ req[r].at \in Stages
               /\ req[r].kind \in {"none", "compile", "run", "maintain"}
               /\ proc[r].state \in {"none", "started", "running", "exited",
                                     "reading", "read"}
               /\ proc[r].state # "none" => tool(r) \in Tools
               /\ proc[r].pipe \in [{"out", "err"} -> Count]
               /\ {proc[r].stdout, proc[r].stderr} \subseteq Count \cup {Absent}
    <3>1. req[r] \in Request /\ proc[r] \in Process /\ Placed(req[r], proc[r])
      BY DEF Served, Local
    <3> QED  BY <3>1 DEF Request, Process, Placed, tool, Streams
  <2> QED  BY <2>1, <2>2 DEF TypeOK, Stages
<1> QED  BY <1>1, SpecServed, PTL

\* The answer to a compilation is the bytecode of the text that was sent,
\* whatever else is compiled meanwhile and whichever stages fail.
THEOREM RepliesOwn == Spec => []ReplyIsOwnBytecode
<1>1. Served => ReplyIsOwnBytecode
  <2> SUFFICES ASSUME Served, NEW r \in Requests,
                      req[r].kind = "compile", req[r].result # Absent,
                      req[r].stored
               PROVE  /\ ~req[r].failed
                      /\ Decodes(req[r].result)
                      /\ FromHexSentence(req[r].result) = Compiled[req[r].text]
    BY DEF ReplyIsOwnBytecode
  <2> DEFINE x == req[r]
  <2>1. Placed(x, proc[r]) /\ Staged(x, proc[r], Files(r))
    BY DEF Served, Local
  <2>2. x.at = "clean"  BY <2>1 DEF Placed
  <2>3. x.text \in Whole  BY <2>1, <2>2 DEF Placed
  <2>4. ~x.failed /\ x.result = ToHexSentence(Compiled[x.text])
    BY <2>1, <2>2 DEF Staged
  <2>5. Compiled[x.text] \in Seq(Byte) /\ Compiled[x.text] # <<>>
    BY <2>3, OneShotAssumption
  <2> QED  BY <2>4, <2>5, BytesKept
<1> QED  BY <1>1, SpecServed, PTL

\* The VM runs the bytes the request named.
THEOREM VmRunsOwn == Spec => []VmRunsOwnText
<1>1. Served => VmRunsOwnText
  <2> SUFFICES ASSUME Served, NEW r \in Requests, tool(r) = "rbvm",
                      proc[r].state = "running", req[r].stored
               PROVE  /\ proc[r].input # Absent
                      /\ proc[r].input = FromHexSentence(req[r].text)
    BY DEF VmRunsOwnText
  <2> DEFINE x == req[r]
             d == Files(r)
  <2>1. /\ Placed(x, proc[r]) /\ Staged(x, proc[r], d)
        /\ Piped(x, proc[r], d) /\ x.at = "rbvm"
    BY DEF Served, Local, tool
  <2>2. x.text \in Seq(HexWord)
    BY <2>1 DEF Placed, Tools, Sentence
  <2>3. proc[r].input = d[""]
    BY <2>1 DEF Piped, Loaded, InputOf, Tools
  <2>4. Decodes(x.text) /\ d[""] = FromHexSentence(x.text)
    BY <2>1 DEF Staged
  <2> QED  BY <2>2, <2>3, <2>4, SentenceKept, OneShotAssumption
<1> QED  BY <1>1, SpecServed, PTL

\* A compilation or a run that answers leaves nothing on the disk.
THEOREM DiskClean == Spec => []FilesRemoved
<1>1. Served => FilesRemoved
  <2> SUFFICES ASSUME Served, NEW r \in Requests, At(r, "done"),
                      req[r].kind \in {"compile", "run"}, NEW e \in Extensions
               PROVE  disk[FileId(r), e] = Absent
    BY DEF FilesRemoved
  <2>1. Files(r)[e] = Absent  BY DEF Served, Local, Filed, At
  <2>2. disk[r, e] = Absent  BY <2>1, DiskEntry
  <2> QED  BY <2>2 DEF FileId
<1> QED  BY <1>1, SpecServed, PTL

\* The reaping thread has taken all that was printed when a request goes on.
THEOREM AllTaken == Spec => RepliesComplete
<1>1. Served /\ [Next]_vars =>
        [\A r \in Requests :
            Join(r) => /\ proc[r].stdout = proc[r].said.out
                       /\ proc[r].stderr = proc[r].said.err]_vars
  <2> SUFFICES ASSUME Served, NEW r \in Requests, Join(r)
               PROVE  /\ proc[r].stdout = proc[r].said.out
                      /\ proc[r].stderr = proc[r].said.err
    OBVIOUS
  <2>1. Piped(req[r], proc[r], Files(r)) /\ proc[r].state = "read"
    BY DEF Served, Local, Join, Joined
  <2> QED  BY <2>1 DEF Piped
<1> QED  BY <1>1, SpecServed, PTL DEF Spec, RepliesComplete
=============================================================================
